SPECIFICATION Spec
CONSTRAINT RetryScope
CONSTANTS
    Hypotheses = {1, 2}
    Scale = 100
    Units = 100
    InitialEdges <- MCInitialEdges
    Keys <- MCKeys
    Histories <- MCHistories
    NewSamples <- MCNewSamples
    GraphProposals = {p}
    GraphSignals <- MCGraphSignals
    ReplayMinima = {2}
    Holders <- MCHolders
    Candidates = {c, d}
    Selections = {r}
    ValidationPolicies <- MCValidationPolicies
    SearchSelections = {q, s}
    SearchPolicies <- MCSearchPolicies
    Batches = {b, e}
    BatchContents <- MCBatchContents
    ConfirmationPolicies <- MCConfirmationPolicies
PROPERTY RejectedStaysRejected
SYMMETRY Symmetry
CHECK_DEADLOCK FALSE
