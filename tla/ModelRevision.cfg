SPECIFICATION RevisionSpec
CONSTANTS
    Refs = {a, b}
    Scale = 10
    Units = 100
    Hypotheses = {1, 2}
    Likely = {5}
    Better = {8}
    VerdictDecisions = {"PASS"}
    Works <- MCWorks
    Verdicts <- MCVerdicts
    Priors <- MCPriors
    Tests <- MCTests
    Meanings <- MCMeanings
    Sources = {e, f}
    Times = {1}
    MaxGeneration = 0
    Families = {fam}
    Proposals = {p, q}
    Proposed <- MCProposed
    Signals <- MCSignals
    MinCases = {1}
    People = {ann, bob}
INVARIANTS
    RevisionTypeOK
    ModelsFollow
    ScoresWhatWasUsed
    RevisedOnReviewedHistory
    RevisionsInLine
PROPERTIES
    EffectsOnlyFade
    ImplementsLedger
SYMMETRY Symmetry
CHECK_DEADLOCK FALSE
