CONSTANTS
    Branches = {main, left, right, merged}
    Generations = {0, 1, 2}
    Contents = {c}
    Evidence = {e}
    Tags = {"restore-source"}
    MaxRefs = 1
    MaxNamed = 2
    Settlements <- MCSettlements
    PotentialIds = {p}
SPECIFICATION Spec
CONSTRAINT Scope
SYMMETRY Symmetry
INVARIANTS
    MergesJoinFutures
    OneOrigin
CHECK_DEADLOCK FALSE
