---------------------------- MODULE SchedulerCalls ----------------------------
(***************************************************************************)
(* The v1.6 scheduler by itself: a pure function, which may be asked at any *)
(* time about any queue, under any policy, by processes whose clocks are    *)
(* unrelated.                                                               *)
(***************************************************************************)
EXTENDS VerificationPressure

CONSTANTS
    Queues,    \* what may be offered: sets of work items
    Policies,  \* capacity policies
    Clocks     \* what the clock of a scheduling process may show

ASSUME CallsAssumption ==
    /\ \A items \in Queues :
        /\ IsFiniteSet(items) /\ \A w \in items : IsWork(w)
        /\ \A v, w \in items : v.hash = w.hash => v = w
    /\ \A p \in Policies : IsCapacityPolicy(p)
    /\ Clocks \subseteq Nat

VARIABLE call  \* the arguments of the call: [items, policy, now]

Calls == [items : Queues, policy : Policies, now : Clocks]

CallsInit == call \in Calls

(* The same queue, offered again at another time.                           *)
CallAgain(now) == call' = [call EXCEPT !.now = now]

CallsNext == \E now \in Clocks : CallAgain(now)

CallsSpec == CallsInit /\ [][CallsNext]_call
-----------------------------------------------------------------------------
(* v1.6: the window is the greedy one, for any queue and policy and at any   *)
(* time: nothing that fits is passed over for what ranks behind it.          *)
AdmissionIsGreedy == IsGreedy(call.items, call.policy, call.now)

(* I-111: waiting wins in the end, by a bound known beforehand.  Work that   *)
(* is submitted at least (its advantage in priority) * quantum later never  *)
(* ranks first, whenever the queue is scheduled.  Only a submission stamped *)
(* by a clock ahead of the scheduler's is out of the bound's reach.         *)
NoLateOvertaking ==
    \A v, w \in call.items :
        /\ w.submittedAt < v.submittedAt
        /\ w.submittedAt + (v.priority - w.priority) * call.policy.quantum <= v.submittedAt
        /\ v.submittedAt <= call.now
        => RankedBefore(w, v, call.policy, call.now)
===============================================================================
