CONSTANTS
    r1 = r1
    r2 = r2
    k1 = k1
    k2 = k2
    k3 = k3
    p1 = p1
    p2 = p2
    Idle = Idle
    Procs <- MCProcs
    BootConfigs <- MCBootConfigs
    BootOf <- MCBootOf
    Proposals <- MCProposals
    Foreseen <- MCForeseen
    Times = {0, 1}
    MaxGeneration = 2
    MaxApprovals = 2
SPECIFICATION Spec
INVARIANTS TypeOK QuorumOfPredecessor OneLineOfSuccession ApprovalSpentOnce
PROPERTY ImplementsRegister
