CONSTANTS
    r1 = r1
    r2 = r2
    k1 = k1
    k2 = k2
    k3 = k3
    s1 = s1
    s2 = s2
    c1 = c1
    c2 = c2
    w1 = w1
    w2 = w2
    Idle = Idle
    Workers <- MCWorkers
    Boot <- MCBoot
    BootConfigs <- MCBootConfigs
    Proposals <- MCProposals
    Subjects <- MCSubjects
    Attested <- MCAttested
    Requests <- MCRequests
    Times = {1, 2, 3}
    MaxGeneration = 1
    MaxTokens = 2
SYMMETRY Symmetry
SPECIFICATION Spec
INVARIANTS AtMostOneTerminal CapabilityChain
PROPERTIES AppendsAuthorised ImplementsLifecycle
