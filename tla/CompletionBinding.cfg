CONSTANTS
    g = g
    h = h
    a = a
    b = b
    x = x
    c1 = c1
    c2 = c2
    Works <- QueueWorks
    Gates <- MCGates
    BaseDecision <- MCBase
    CapacityPolicies <- MCPolicies
    Clients <- MCClients
    Times = {2}
    MaxWindows = 3
    MaxPreviews = 0
SYMMETRY Symmetry
CONSTRAINT QueueScope
SPECIFICATION Spec

PROPERTY CompletionBindsAuthorizedWindow
