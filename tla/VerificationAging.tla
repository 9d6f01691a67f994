--------------------------- MODULE VerificationAging ---------------------------
(***************************************************************************)
(* The queue of the verification plane in the long run: does all work that  *)
(* fits the capacity come through, while new work keeps arriving?           *)
(*                                                                         *)
(* The queue has a fixed number of streams.  Whenever the work of a stream  *)
(* is completed new work of the same cost and priority may be submitted.    *)
(* What the scheduler sees of time is how long work has waited, and of this *)
(* only the order it gives, so that waits are stored reduced (see Closed)  *)
(* and the state space is finite without stopping the clock.                *)
(*                                                                         *)
(* The clocks of scheduling and submitting processes agree here and never   *)
(* stand still for ever; the policy does not change.  Everything else about *)
(* the plane is VerificationPlane's.                                        *)
(***************************************************************************)
EXTENDS VerificationPressure

CONSTANTS
    Streams,  \* [cost, priority, hash]
    Policy,   \* the capacity policy of the deployment
    Elapsed   \* how much time may pass from one scheduling to the next

ASSUME AgingAssumption ==
    /\ IsCapacityPolicy(Policy)
    /\ Elapsed \subseteq Nat \ {0}
    /\ \A s \in Streams : {s.cost, s.hash} \subseteq Nat \ {0} /\ s.priority \in Nat
    /\ \A s, t \in Streams : s.hash = t.hash => s = t

VARIABLES
    waited,   \* from streams with open work to how long it has waited
    admitted  \* the streams whose work is in the current window

vars == <<waited, admitted>>

Open == DOMAIN waited

-----------------------------------------------------------------------------
(* Work that is older by this much is ranked first whatever its priority.   *)
Decisive == Policy.quantum * (1 + Max({s.priority : s \in Streams}))

(* A difference in age beyond Decisive counts only modulo the quantum.      *)
ReducedGap(gap) ==
    IF gap < Decisive THEN gap ELSE Decisive + ((gap - Decisive) % Policy.quantum)

(* Ages with the gap above age a reduced; age zero is that of work which is *)
(* submitted next.                                                          *)
Closed(ages, a) ==
    LET older == {ages[s] : s \in DOMAIN ages} \ 0 .. a
        gap == Min(older) - a
    IN IF older = {} THEN ages
       ELSE [s \in DOMAIN ages |->
                IF ages[s] > a THEN ages[s] - gap + ReducedGap(gap) ELSE ages[s]]

(* The work of the queue at a time that is late enough for all ages.        *)
Item(s, age, now) ==
    [cost |-> s.cost, priority |-> s.priority, submittedAt |-> now - age, hash |-> s.hash,
     stream |-> s]

WindowOf(ages) ==
    LET now == Max({ages[s] : s \in DOMAIN ages} \cup {0})
        items == {Item(s, ages[s], now) : s \in DOMAIN ages}
    IN {w.stream : w \in ScheduleVerification(items, Policy, now).admitted}

-----------------------------------------------------------------------------
Init == waited = [s \in {} |-> 0] /\ admitted = {}

SubmitWork(s) ==
    /\ s \notin Open
    /\ waited' = [t \in Open \cup {s} |-> IF t = s THEN 0 ELSE waited[t]]
    /\ UNCHANGED admitted

Aged(elapsed) == Closed([s \in Open |-> waited[s] + elapsed], 0)

(* Time passes and a window is opened: work the last one had admitted loses *)
(* its place unless it is admitted again.                                   *)
Schedule(elapsed) ==
    /\ waited' = Aged(elapsed)
    /\ admitted' = WindowOf(Aged(elapsed))

Without(s) ==
    LET rest == [t \in Open \ {s} |-> waited[t]]
        younger == {rest[t] : t \in DOMAIN rest} \cap 0 .. waited[s]
    IN Closed(rest, Max(younger \cup {0}))

Complete(s) ==
    /\ s \in admitted
    /\ waited' = Without(s)
    /\ admitted' = admitted \ {s}

Next ==
    \/ \E s \in Streams : SubmitWork(s) \/ Complete(s)
    \/ \E elapsed \in Elapsed : Schedule(elapsed)

Scheduling == \E elapsed \in Elapsed : Schedule(elapsed)

(* Somebody keeps scheduling: weak fairness of Scheduling, with the         *)
(* condition under which it changes something written out.                  *)
Refreshes ==
    \E elapsed \in Elapsed : Aged(elapsed) # waited \/ WindowOf(Aged(elapsed)) # admitted

KeepsScheduling == []<> ~ Refreshes \/ []<><<Scheduling>>_vars

(* Executors are strongly fair: work that is given capacity time and again  *)
(* is completed at some time while it has it.                               *)
Fairness ==
    /\ KeepsScheduling
    /\ \A s \in Streams : SF_vars(Complete(s))

Spec == Init /\ [][Next]_vars /\ Fairness

-----------------------------------------------------------------------------
Fits(s) == s.cost <= Policy.capacity /\ Policy.maxItems > 0

(* I-111: aging prevents starvation.  Work that fits an empty window is     *)
(* eventually completed, however urgent or small the work that keeps        *)
(* arriving is.  Executors must be strongly fair: the order of two pieces   *)
(* of work alternates with the phase in which each completes a quantum, so  *)
(* that both can lose their places again and again.                         *)
NoStarvation == \A s \in Streams : Fits(s) /\ s \in Open ~> s \notin Open
================================================================================
