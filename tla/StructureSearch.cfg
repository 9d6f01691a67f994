SPECIFICATION Spec
CONSTRAINT Scope
CONSTANTS
    Hypotheses = {1, 2}
    Scale = 100
    Units = 100
    InitialEdges <- MCInitialEdges
    Keys <- MCKeys
    Histories <- MCHistories
    NewSamples <- MCNewSamples
    GraphProposals = {p}
    GraphSignals <- MCGraphSignals
    ReplayMinima = {2}
    Holders <- MCHolders
    Candidates = {c, d}
    Selections = {r}
    ValidationPolicies <- MCValidationPolicies
    SearchSelections = {q}
    SearchPolicies <- MCSearchPolicies
    Batches = {b, e}
    BatchContents <- MCBatchContents
    ConfirmationPolicies <- MCConfirmationPolicies
INVARIANTS
    TypeOK
    BestOfWhatWasSeen
    LooksStayInBudget
    ConfirmedOnUnseenData
PROPERTY ImplementsGraphLine
SYMMETRY Symmetry
CHECK_DEADLOCK FALSE
