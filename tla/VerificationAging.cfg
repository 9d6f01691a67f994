CONSTANTS
    Streams <- MixedStreams
    Policy <- MCPolicy
    Elapsed = {1, 2}
    Queues <- MCQueues
    Policies <- MCPolicies
    Clocks <- MCClocks
    Costs = {1, 2, 3}
    Priorities = {0, 2}
    Submissions = {0, 1, 3}
    Capacities = {2, 4}
    Limits = {1, 2}
    Quanta = {1, 2}
    MaxItems = 3
    MaxTime = 3
SPECIFICATION MCSpec
INVARIANTS
    AdmissionIsGreedy
    NoLateOvertaking
PROPERTY NoStarvation
