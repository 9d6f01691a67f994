SPECIFICATION Spec
CONSTRAINT Scope
CONSTANTS
    Hypotheses = {1, 2}
    Scale = 100
    Units = 100
    Graphs <- MCGraphs
    Confirmations <- MCConfirmations
    EdgePenalty = 2
    FirstHistory <- MCHistory
    NewSamples <- MCNewSamples
    Collections <- MCCollections
    ReplicationPolicies <- MCReplicationPolicies
    Holders <- MCHolders
    Proposals = {p, q}
    RemediationSelections = {s}
    AllowedActions <- MCAllowedActions
INVARIANTS
    DriftOnIndependentData
    RollbackAnswersDrift
SYMMETRY Symmetry
CHECK_DEADLOCK FALSE
