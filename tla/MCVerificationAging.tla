-------------------------- MODULE MCVerificationAging --------------------------
(* Instance of VerificationAging for TLC: streams of small urgent work       *)
(* against a large piece that needs the whole window and is never urgent.    *)
(* The scheduler is checked by itself as well: it may be asked instead about *)
(* any queue of up to MaxItems items of a small universe, under any small    *)
(* policy, by processes whose clocks may show any time.                      *)
EXTENDS VerificationAging, SchedulerCalls

CONSTANTS Costs, Priorities, Submissions, Capacities, Limits, Quanta, MaxItems, MaxTime

Stream(cost, priority, hash) == [cost |-> cost, priority |-> priority, hash |-> hash]

MixedStreams == {Stream(1, 2, 1), Stream(1, 1, 3), Stream(2, 0, 2)}
MCPolicy == [capacity |-> 2, maxItems |-> 2, quantum |-> 2]

(* Reducing ages is exact: it changes no ranking of two pieces of work, the  *)
(* younger of which may have just been submitted.                            *)
Before(s, t, ages) ==
    LET now == Max({ages[s], ages[t]})
    IN RankedBefore(Item(s, ages[s], now), Item(t, ages[t], now), Policy, now)

ASSUME ReductionIsExact ==
    \A s, t \in Streams, a, b \in 0 .. 3 * Decisive : s # t =>
        LET ages == [x \in {s, t} |-> IF x = s THEN a ELSE b]
        IN \A from \in {0, a, b} : Before(s, t, Closed(ages, from)) <=> Before(s, t, ages)

-----------------------------------------------------------------------------
Span == 1 + Max(Costs \cup Priorities \cup Submissions)

(* Different items get different hashes, in an order unrelated to their age.*)
Work(cost, priority, submittedAt) ==
    [cost |-> cost, priority |-> priority, submittedAt |-> submittedAt,
     hash |-> (Span - submittedAt) * Span * Span + priority * Span + cost]

Universe == {Work(c, p, s) : c \in Costs, p \in Priorities, s \in Submissions}

MCQueues == UNION {kSubset(k, Universe) : k \in 0 .. MaxItems}
MCPolicies == [capacity : Capacities, maxItems : Limits, quantum : Quanta]
MCClocks == 0 .. MaxTime

(* Either the scheduler is asked or, from the call that offers nothing, the  *)
(* streams run.                                                             *)
Idle == [items |-> {}, policy |-> Policy, now |-> 0]

MCInit == Init /\ CallsInit /\ call.now = 0 /\ (call.items = {} => call = Idle)

MCNext ==
    \/ call # Idle /\ CallsNext /\ UNCHANGED vars
    \/ call = Idle /\ Next /\ UNCHANGED call

MCSpec ==
    /\ MCInit
    /\ [][MCNext]_<<vars, call>>
    /\ Fairness
=================================================================================
