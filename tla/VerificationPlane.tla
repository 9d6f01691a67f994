--------------------------- MODULE VerificationPlane ---------------------------
(***************************************************************************)
(* The runtime verification plane (ATMAN-VERIFY/1.7) and its keeper: the    *)
(* durable queue of verification work, the schedule that admits work into   *)
(* capacity windows, completion receipts, previews and finalizations.       *)
(*                                                                         *)
(* Submission and scheduling are one BEGIN IMMEDIATE transaction each.      *)
(* Completion reads the schedule without a lock, checks the executor's      *)
(* proof against what it read, and then writes in a transaction of its own. *)
(* Previews read the schedule and the work rows in two unrelated SELECTs,   *)
(* and finalization reads the schedule once before that as well; they write *)
(* nothing.  Other processes commit between any two of these reads.         *)
(*                                                                         *)
(* Grants are checked as in RuntimeWorker and are left out: what matters    *)
(* here is what a proof was signed FOR.  The schedule row holds generation  *)
(* and pressure together and a generation is never reused, so a generation  *)
(* stands for its pressure hash too.  Evidence, actor and reasons are data  *)
(* no decision depends on.                                                  *)
(***************************************************************************)
EXTENDS VerificationPressure, Sequences

CONSTANTS
    Works,            \* work that may be submitted, see VerificationPressure
    Gates,            \* geometric gate receipts
    BaseDecision,     \* the decision of each gate
    CapacityPolicies, \* what the environments of scheduling processes may say
    Times,            \* values ATMAN_RUNTIME_NOW may have
    Clients,          \* processes that may be alive together
    MaxWindows,       \* bound: schedulings in a behaviour
    MaxPreviews       \* bound: different previews keepers look at

Decisions == {"PASS", "HOLD", "FAIL"}
Statuses == {"SUBMITTED", "ADMITTED", "DEFERRED_CAPACITY", "DEFERRED_OVERSIZED", "COMPLETED"}

ASSUME WorksAssumption ==
    /\ \A w \in Works : IsWork(w) /\ w.gate \in Gates
    /\ \A v, w \in Works : v.hash = w.hash => v = w
ASSUME PolicyAssumption == \A p \in CapacityPolicies : IsCapacityPolicy(p)
ASSUME BaseAssumption == BaseDecision \in [Gates -> Decisions]
ASSUME PlaneBounds == Times \subseteq Nat /\ MaxWindows \in Nat

(* A process that has not begun, and work nobody has completed.             *)
Idle == [operation |-> "idle"]
NoCompletion == [decision |-> "OWED"]

VARIABLES
    rows,      \* table verification_work: from submitted work to its row
    windows,   \* the pressure receipts of all generations; the table has the last
    clients,   \* what each process is doing
    previews,  \* the decision states keepers have seen
    finals     \* the finalization receipts handed out

vars == <<rows, windows, clients, previews, finals>>

-----------------------------------------------------------------------------
Generation == Len(windows)

Open == {w \in DOMAIN rows : rows[w].status # "COMPLETED"}

Disposition(pressure, w) ==
    IF w \in pressure.admitted THEN "ADMITTED"
    ELSE IF w \in pressure.deferredCapacity THEN "DEFERRED_CAPACITY"
    ELSE "DEFERRED_OVERSIZED"

Completion(w, generation, decision, at) ==
    [work        |-> w,
     gate        |-> w.gate,
     generation  |-> generation,
     decision    |-> decision,
     completedAt |-> at]

(* Mutants: a completion counts as passed; missing work outranks a failure. *)
DecideCompletedPasses(base, verdicts, owed) ==
    IF base = "FAIL" \/ "FAIL" \in verdicts THEN "FAIL"
    ELSE IF owed # {} THEN "HOLD"
    ELSE IF verdicts # {} THEN "PASS"
    ELSE base
DecideHoldFirst(base, verdicts, owed) ==
    IF owed # {} \/ "HOLD" \in verdicts THEN "HOLD"
    ELSE IF base = "FAIL" \/ "FAIL" \in verdicts THEN "FAIL"
    ELSE IF verdicts # {} THEN "PASS"
    ELSE base

(* The rule of _evaluate for the rows of one gate.                          *)
Decide(base, verdicts, owed) ==
    IF base = "FAIL" \/ "FAIL" \in verdicts THEN "FAIL"
    ELSE IF owed # {} \/ "HOLD" \in verdicts THEN "HOLD"
    ELSE IF verdicts # {} THEN "PASS"
    ELSE base

(* What _evaluate finds in the rows of one gate.                            *)
Required(gate, table) == {w \in DOMAIN table : w.gate = gate}

Settled(gate, table) == {w \in Required(gate, table) : table[w].status = "COMPLETED"}

Deferred(gate, table) ==
    {w \in Required(gate, table) :
        table[w].status \in {"DEFERRED_CAPACITY", "DEFERRED_OVERSIZED"}}

Results(gate, table) == {table[w].completion : w \in Settled(gate, table)}

(* The decision receipt without its time, which is what decision_state_hash *)
(* commits to.                                                              *)
Receipt(gate, generation, required, results, settled, deferred) ==
    [gate        |-> gate,
     generation  |-> generation,
     required    |-> required,
     completions |-> results,
     deferred    |-> deferred,
     pending     |-> (required \ settled) \ deferred,
     decision    |-> Decide(BaseDecision[gate], {c.decision : c \in results},
                            required \ settled)]

(* Mutant: the state hash leaves the schedule out.                          *)
DecisionStateOfRows(gate, generation, table) ==
    Receipt(gate, 0, Required(gate, table), Results(gate, table),
            Settled(gate, table), Deferred(gate, table))

(* generation is from the first SELECT, the table from the second.          *)
DecisionState(gate, generation, table) ==
    Receipt(gate, generation, Required(gate, table), Results(gate, table),
            Settled(gate, table), Deferred(gate, table))

-----------------------------------------------------------------------------
Init ==
    /\ rows = [w \in {} |-> NoCompletion]
    /\ windows = <<>>
    /\ clients = [c \in Clients |-> Idle]
    /\ previews = {}
    /\ finals = {}

(* Mutant: INSERT OR REPLACE.                                               *)
SubmitReplacing(w) ==
    /\ \A v \in DOMAIN rows : v.ref = w.ref => v = w
    /\ rows' = [v \in DOMAIN rows \cup {w} |->
                   IF v # w THEN rows[v]
                   ELSE [status |-> "SUBMITTED", completion |-> NoCompletion]]
    /\ UNCHANGED <<windows, clients, previews, finals>>

(* A resubmission of the same work is answered EXISTING; other work under a *)
(* known work_ref is refused.                                               *)
SubmitWork(w) ==
    /\ \A v \in DOMAIN rows : v.ref = w.ref => v = w
    /\ rows' = [v \in DOMAIN rows \cup {w} |->
                   IF v \in DOMAIN rows THEN rows[v]
                   ELSE [status |-> "SUBMITTED", completion |-> NoCompletion]]
    /\ UNCHANGED <<windows, clients, previews, finals>>

Schedule(policy, now) ==
    /\ Generation < MaxWindows
    /\ LET pressure == ScheduleVerification(Open, policy, now) IN
        /\ rows' = [w \in DOMAIN rows |->
                       IF w \in Open THEN [rows[w] EXCEPT !.status = Disposition(pressure, w)]
                                     ELSE rows[w]]
        /\ windows' = Append(windows, pressure)
    /\ UNCHANGED <<clients, previews, finals>>

(* complete_verification_work, up to the transaction: the executor's proof  *)
(* must name the generation that _state returns.                            *)
AuthorizeCompletion(c, w, decision, now) ==
    /\ clients[c] = Idle
    /\ windows # <<>>
    /\ w \in DOMAIN rows
    /\ clients' = [clients EXCEPT ![c] =
          [operation  |-> "complete",
           work       |-> w,
           decision   |-> decision,
           now        |-> now,
           authorized |-> Generation]]
    /\ UNCHANGED <<rows, windows, previews, finals>>

Doing(c, operation) == clients[c] # Idle /\ clients[c].operation = operation

(* Mutant: any open work may be completed.                                  *)
AdmissibleIfOpen(w) == rows[w].completion = NoCompletion

Admissible(w) ==
    /\ rows[w].completion = NoCompletion
    /\ rows[w].status = "ADMITTED"
    /\ w \in windows[Generation].admitted

(* The transaction reads the schedule again, and records what it reads.     *)
Complete(c) ==
    /\ Doing(c, "complete")
    /\ LET w == clients[c].work IN
        /\ Admissible(w)
        /\ rows' = [rows EXCEPT ![w] =
              [status     |-> "COMPLETED",
               completion |-> Completion(w, Generation, clients[c].decision, clients[c].now)]]
    /\ clients' = [clients EXCEPT ![c] = Idle]
    /\ UNCHANGED <<windows, previews, finals>>

(* evaluate_geometric_verification: two SELECTs.                            *)
ReadSchedule(c, gate) ==
    /\ clients[c] = Idle
    /\ clients' = [clients EXCEPT ![c] =
          [operation |-> "preview", gate |-> gate, generation |-> Generation]]
    /\ UNCHANGED <<rows, windows, previews, finals>>

Preview(c) ==
    /\ Doing(c, "preview")
    /\ previews' = previews \cup {DecisionState(clients[c].gate, clients[c].generation, rows)}
    /\ Cardinality(previews') <= MaxPreviews
    /\ clients' = [clients EXCEPT ![c] = Idle]
    /\ UNCHANGED <<rows, windows, finals>>

(* Mutant: the generation the keeper sent is believed.                      *)
BeginFinalizationOnTrust(c, preview) ==
    /\ clients[c] = Idle
    /\ \E n \in 0 .. Generation :
        clients' = [clients EXCEPT ![c] =
          [operation |-> "finalize", expected |-> preview, signed |-> n]]
    /\ UNCHANGED <<rows, windows, previews, finals>>

(* finalize_geometric_verification, first read: the keeper signed a preview *)
(* together with some generation; only the one _state now returns will do.  *)
BeginFinalization(c, preview) ==
    /\ clients[c] = Idle
    /\ clients' = [clients EXCEPT ![c] =
          [operation |-> "finalize", expected |-> preview, signed |-> Generation]]
    /\ UNCHANGED <<rows, windows, previews, finals>>

(* Second read: the generation that goes into the decision.  instant is     *)
(* what a single read of both tables would have seen now: no process knows  *)
(* it, it is recorded for FinalizesAnInstant.                               *)
EvaluateGeneration(c) ==
    /\ Doing(c, "finalize")
    /\ clients' = [clients EXCEPT ![c] =
          [operation  |-> "conclude",
           expected   |-> clients[c].expected,
           signed     |-> clients[c].signed,
           generation |-> Generation,
           instant    |-> DecisionState(clients[c].expected.gate, Generation, rows)]]
    /\ UNCHANGED <<rows, windows, previews, finals>>

(* The decision a finalization computes once it has read the rows.          *)
Concluded(client, table) ==
    DecisionState(client.expected.gate, client.generation, table)

Finalize(c) ==
    /\ Doing(c, "conclude")
    /\ Concluded(clients[c], rows) = clients[c].expected
    /\ finals' = finals \cup {[state      |-> clients[c].expected,
                               generation |-> clients[c].signed]}
    /\ clients' = [clients EXCEPT ![c] = Idle]
    /\ UNCHANGED <<rows, windows, previews>>

(* A refused request, or a process that dies.                               *)
Abort(c) ==
    /\ clients[c] # Idle
    /\ clients' = [clients EXCEPT ![c] = Idle]
    /\ UNCHANGED <<rows, windows, previews, finals>>

Next ==
    \/ \E w \in Works : SubmitWork(w)
    \/ \E policy \in CapacityPolicies, now \in Times : Schedule(policy, now)
    \/ \E c \in Clients :
        \/ \E w \in Works, decision \in Decisions, now \in Times :
              AuthorizeCompletion(c, w, decision, now)
        \/ Complete(c)
        \/ \E gate \in Gates : ReadSchedule(c, gate)
        \/ Preview(c)
        \/ \E preview \in previews : BeginFinalization(c, preview)
        \/ EvaluateGeneration(c)
        \/ Finalize(c)
        \/ Abort(c)

Spec == Init /\ [][Next]_vars

-----------------------------------------------------------------------------
Completed == {w \in DOMAIN rows : rows[w].status = "COMPLETED"}

(* Types: rows, windows and requests have the shapes the code reads back.   *)
TypeOK ==
    /\ DOMAIN rows \subseteq Works
    /\ \A w \in DOMAIN rows :
        /\ rows[w].status \in Statuses
        /\ rows[w].completion # NoCompletion <=> rows[w].status = "COMPLETED"
        /\ rows[w].completion # NoCompletion => rows[w].completion.decision \in Decisions
    /\ \A n \in 1 .. Generation :
        windows[n].offered \subseteq Works /\ windows[n].measuredAt \in Times
    /\ DOMAIN clients = Clients
    /\ \A c \in Clients :
        clients[c] = Idle \/ clients[c].operation \in {"complete", "preview", "finalize", "conclude"}

(* I-115, I-120: a verdict counts only if the scheduler had given the work  *)
(* capacity.  However completions and schedulings race, a completed work    *)
(* was admitted by the very window its receipt names, no later window       *)
(* offered it again, and every open row has the disposition the current     *)
(* window gave it, or was submitted since.                                  *)
CompletionInWindow ==
    /\ \A w \in Completed :
        LET n == rows[w].completion.generation IN
        /\ n \in 1 .. Generation
        /\ w \in windows[n].admitted
        /\ \A later \in n + 1 .. Generation : w \notin windows[later].offered
    /\ \A w \in Open :
        IF rows[w].status = "SUBMITTED"
        THEN \A n \in 1 .. Generation : w \notin windows[n].offered
        ELSE /\ w \in windows[Generation].offered
             /\ rows[w].status = Disposition(windows[Generation], w)

(* I-122 to I-124, kept up after the fact: a finalized PASS rests on a gate *)
(* that did not fail and, unless the gate passed by itself and nothing was  *)
(* required, on passing verdicts for all the work then required.  These     *)
(* verdicts are still on record: nothing later withdrew or changed them.    *)
PassFinalJustified ==
    \A f \in finals : f.state.decision = "PASS" =>
        /\ BaseDecision[f.state.gate] # "FAIL"
        /\ f.state.required = {} => BaseDecision[f.state.gate] = "PASS"
        /\ \A w \in f.state.required :
            /\ w \in Completed
            /\ rows[w].completion.decision = "PASS"
            /\ rows[w].completion \in f.state.completions

(* A failed verdict is never outrun: work of the gate that had failed by    *)
(* the generation a finalization names makes that finalization a FAIL.      *)
FailDominates ==
    \A f \in finals, w \in Completed :
        /\ w.gate = f.state.gate
        /\ rows[w].completion.decision = "FAIL"
        /\ rows[w].completion.generation < f.generation
        => f.state.decision = "FAIL"

(* The finalization receipt takes its generation from one read and its      *)
(* decision from another; they agree although nothing locks the schedule in *)
(* between, because an earlier preview fixes what the last read must see.   *)
FinalCoherent == \A f \in finals : f.generation = f.state.generation

(* I-127: finalization is linearizable.  Its three reads may be spread over *)
(* any number of commits, and the preview may itself have been torn: if the *)
(* keeper's expected state is confirmed, it was exactly the state of queue  *)
(* and schedule at the instant the generation was read.                     *)
FinalizesAnInstant ==
    \A c \in Clients :
        /\ Doing(c, "conclude")
        /\ Concluded(clients[c], rows) = clients[c].expected
        => clients[c].expected = clients[c].instant

(* I-129 as the document states it: a completion binds the exact schedule   *)
(* generation, that is, the one the executor's proof was verified for.      *)
CompletionBindsAuthorizedWindow ==
    [][\A w \in Completed' \ Completed :
        \E c \in Clients :
            /\ Doing(c, "complete")
            /\ clients[c].work = w
            /\ clients[c].authorized = rows'[w].completion.generation]_vars

(* I-116, I-119, I-121: the queue implements the debt register.  Admission, *)
(* deferral, oversizing, rescheduling and dying processes leave what is     *)
(* owed alone; only a completion settles it, once.                          *)
Debt == INSTANCE VerificationDebt WITH
    Works      <- Works,
    Verdicts   <- Decisions,
    Unresolved <- NoCompletion.decision,
    debt       <- [w \in DOMAIN rows |-> rows[w].completion.decision]

ImplementsDebt == Debt!DebtSpec
================================================================================
