SPECIFICATION Spec
CONSTRAINT Scope
CONSTANTS
    Refs = {a, b}
    Scale = 100
    RootGenerations = {0, 1}
    TestGenerations = {0, 1}
    MeaningGenerations = {0, 1}
    VerdictDecisions = {"PASS", "FAIL"}
    Works <- MCWorks
    Verdicts <- MCVerdicts
    Estimators = {key}
    Costs = {1}
    Roots <- MCRoots
    Tests <- MCTests
    Meanings <- MCMeanings
    Policies = {p}
    Times = {1, 2}
    Keepers = {k}
    MaxUpdates = 2
    MaxPlans = 1
    MaxPreviews = 1
INVARIANTS
    TypeOK
    EvidenceDirection
    NoForkedKnowledge
    PlanConfirmsPreview
PROPERTIES
    MeaningFixed
    StaleRuleStaysStale
SYMMETRY Symmetry
CHECK_DEADLOCK FALSE
