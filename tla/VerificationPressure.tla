------------------------- MODULE VerificationPressure -------------------------
(***************************************************************************)
(* Admission under finite verification capacity (v1.6): the deterministic   *)
(* greedy scheduler that decides which outstanding work fits in the next    *)
(* window, and which is deferred.                                           *)
(*                                                                         *)
(* A work item is [ref, gate, cost, priority, submittedAt, hash]; hash is   *)
(* a natural number because the scheduler breaks ties by comparing hashes,  *)
(* and different items have different hashes.  gate stands for the gate     *)
(* receipt and, with it, the subject.  A capacity policy is                 *)
(* [capacity, maxItems, quantum].                                           *)
(***************************************************************************)
EXTENDS Integers, FiniteSetsExt

IsWork(w) ==
    /\ w.cost \in Nat \ {0}
    /\ w.priority \in Nat
    /\ w.submittedAt \in Nat
    /\ w.hash \in Nat

IsCapacityPolicy(p) ==
    /\ p.capacity \in Nat
    /\ p.maxItems \in Nat
    /\ p.quantum \in Nat \ {0}

(* A clock behind the submitter's makes the wait zero, not negative.        *)
Waited(w, at) == IF at >= w.submittedAt THEN at - w.submittedAt ELSE 0

(* Mutant: waiting does not count.                                          *)
FixedPriority(w, p, at) == w.priority

EffectivePriority(w, p, at) == w.priority + Waited(w, at) \div p.quantum

(* The order of _ranked: priority, then age, then hash.                     *)
RankedBefore(v, w, p, at) ==
    LET ev == EffectivePriority(v, p, at)
        ew == EffectivePriority(w, p, at)
    IN \/ ev > ew
       \/ ev = ew /\ v.submittedAt < w.submittedAt
       \/ ev = ew /\ v.submittedAt = w.submittedAt /\ v.hash < w.hash

Rank(items, w, p, at) == 1 + Cardinality({v \in items : RankedBefore(v, w, p, at)})

Oversized(items, p) == {w \in items : w.cost > p.capacity}

(* Mutant: the last unit of capacity is never given away.                   *)
AdmitBelowCapacity(taken, w, p) ==
    IF /\ w.cost <= p.capacity
       /\ Cardinality(taken.admitted) < p.maxItems
       /\ taken.used + w.cost < p.capacity
    THEN [admitted |-> taken.admitted \cup {w}, used |-> taken.used + w.cost]
    ELSE taken

(* One turn of the scheduler's loop: taken is what was admitted so far.     *)
AdmitNext(taken, w, p) ==
    IF /\ w.cost <= p.capacity
       /\ Cardinality(taken.admitted) < p.maxItems
       /\ taken.used + w.cost <= p.capacity
    THEN [admitted |-> taken.admitted \cup {w}, used |-> taken.used + w.cost]
    ELSE taken

Window(items, p, at) ==
    LET ranked == [k \in 1 .. Cardinality(items) |->
                      CHOOSE w \in items : Rank(items, w, p, at) = k]
        taken[k \in 0 .. Cardinality(items)] ==
            IF k = 0 THEN [admitted |-> {}, used |-> 0]
            ELSE AdmitNext(taken[k - 1], ranked[k], p)
    IN taken[Cardinality(items)]

(* schedule_verification: the pressure receipt.                             *)
ScheduleVerification(items, p, at) ==
    LET window  == Window(items, p, at)
        rest    == items \ window.admitted
    IN [measuredAt        |-> at,
        policy            |-> p,
        offered           |-> items,
        admitted          |-> window.admitted,
        deferredOversized |-> Oversized(items, p),
        deferredCapacity  |-> rest \ Oversized(items, p),
        used              |-> window.used,
        status            |-> IF rest = {} THEN "NORMAL"
                              ELSE IF window.admitted # {} THEN "PRESSURED" ELSE "SATURATED"]
-----------------------------------------------------------------------------
(* A window of work that fits the policy.                                   *)
Spent(chosen) == MapThenSumSet(LAMBDA w : w.cost, chosen)

Fitting(chosen, p) == Spent(chosen) <= p.capacity /\ Cardinality(chosen) <= p.maxItems

(* v1.6: what is admitted fits the window, and no set of work that fits is  *)
(* preferable: wherever another one differs, the best-ranked item they      *)
(* disagree about is admitted.                                              *)
IsGreedy(items, p, at) ==
    LET admits == ScheduleVerification(items, p, at).admitted IN
    /\ Fitting(admits, p)
    /\ \A other \in SUBSET items :
        other # admits /\ Fitting(other, p) =>
            \E w \in admits \ other : \A v \in other \ admits : RankedBefore(w, v, p, at)
===============================================================================
