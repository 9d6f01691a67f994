CONSTANTS
    g = g
    h = h
    a = a
    b = b
    x = x
    c1 = c1
    c2 = c2
    Works <- MCWorks
    Gates <- MCGates
    BaseDecision <- MCBase
    CapacityPolicies <- MCPolicies
    Clients <- MCClients
    Times = {2}
    MaxWindows = 3
    MaxPreviews = 1
SYMMETRY Symmetry
CONSTRAINT Scope
SPECIFICATION Spec
INVARIANTS
    CompletionInWindow
    PassFinalJustified
    FailDominates
    FinalCoherent
    FinalizesAnInstant
PROPERTY ImplementsDebt
