------------------------ MODULE VerificationPlaneProofs ------------------------
(***************************************************************************)
(* Proofs about VerificationPlane, for any work, gates, capacity policies,  *)
(* clocks and clients, and any number of windows and previews.              *)
(*                                                                         *)
(* The tables only move forward (TableGrows): work is added, verdicts are   *)
(* added, and within one generation the set of deferred work only shrinks   *)
(* by completion.  Whatever a process has read earlier is therefore related *)
(* to the tables of now (Earlier) and to what it read later (Follows); that *)
(* relation is what makes unlocked reads add up to one instant.             *)
(*                                                                         *)
(* The scheduler is treated at the end: its order, what waiting is worth    *)
(* in it, and that the window is the greedy one.  Sums over sets and the    *)
(* loop are defined by recursion; what holds of them is shown from a        *)
(* minimal counterexample.                                                  *)
(***************************************************************************)
EXTENDS VerificationPlane, SchedulerCalls, SequenceTheorems, FiniteSetTheorems, WellFoundedInduction, TLAPS

Pressures ==
    {ScheduleVerification(items, policy, now) :
        items \in SUBSET Works, policy \in CapacityPolicies, now \in Times}

RowOK(w, row) ==
    /\ row = [status |-> row.status, completion |-> row.completion]
    /\ row.status \in Statuses
    /\ row.completion # NoCompletion <=> row.status = "COMPLETED"
    /\ row.status = "COMPLETED" =>
         /\ row.completion.work = w
         /\ row.completion.decision \in Decisions

TablesOK ==
    /\ rows = [w \in DOMAIN rows |-> rows[w]]
    /\ DOMAIN rows \subseteq Works
    /\ \A w \in DOMAIN rows : RowOK(w, rows[w])
    /\ windows \in Seq(Pressures)
    /\ \A n \in 1 .. Generation : windows[n].offered \subseteq DOMAIN rows

(* A decision state is determined by what it says of the rows.              *)
SettledIn(S) == {c.work : c \in S.completions}

WellFormed(S) ==
    /\ S.gate \in Gates
    /\ S = Receipt(S.gate, S.generation, S.required, S.completions, SettledIn(S), S.deferred)
    /\ S.deferred \cap SettledIn(S) = {}
    /\ SettledIn(S) \subseteq S.required

(* What a decision state taken earlier has to do with the tables now.       *)
Earlier(S) ==
    /\ S.required \subseteq Required(S.gate, rows)
    /\ S.completions \subseteq Results(S.gate, rows)
    /\ S.generation \in Nat
    /\ S.generation <= Generation
    /\ S.generation = Generation =>
         Deferred(S.gate, rows) = S.deferred \ Settled(S.gate, rows)

(* What a later decision state of the same gate has to do with an earlier.  *)
Follows(I, S) ==
    /\ I.gate = S.gate
    /\ S.required \subseteq I.required
    /\ S.completions \subseteq I.completions
    /\ S.generation = I.generation => I.deferred = S.deferred \ SettledIn(I)

PreviewsOK == \A S \in previews : WellFormed(S) /\ Earlier(S)

FinalsOK ==
    \A f \in finals :
        /\ WellFormed(f.state)
        /\ Earlier(f.state)
        /\ f.generation = f.state.generation
        /\ \A w \in Completed :
            w.gate = f.state.gate /\ rows[w].completion.generation < f.generation
              => rows[w].completion \in f.state.completions

ConcludeOK(client) ==
    /\ client.expected \in previews
    /\ client.signed \in Nat
    /\ client.generation \in Nat
    /\ client.expected.generation <= client.signed
    /\ client.signed <= client.generation
    /\ client.generation <= Generation
    /\ client.instant.generation = client.generation
    /\ WellFormed(client.instant)
    /\ Earlier(client.instant)
    /\ Follows(client.instant, client.expected)

RequestOK(client) ==
    \/ client = Idle
    \/ /\ client.operation = "complete"
       /\ client.work \in DOMAIN rows
       /\ client.decision \in Decisions
       /\ Generation >= 1
    \/ /\ client.operation = "preview"
       /\ client.gate \in Gates
       /\ client.generation \in Nat
       /\ client.generation <= Generation
    \/ /\ client.operation = "finalize"
       /\ client.expected \in previews
       /\ client.signed \in Nat
       /\ client.expected.generation <= client.signed
       /\ client.signed <= Generation
    \/ client.operation = "conclude" /\ ConcludeOK(client)

RequestsOK == DOMAIN clients = Clients /\ \A c \in Clients : RequestOK(clients[c])

Tables == TablesOK /\ CompletionInWindow

IInv == Tables /\ PreviewsOK /\ FinalsOK /\ RequestsOK

TableGrows ==
    /\ DOMAIN rows \subseteq DOMAIN rows'
    /\ Generation <= Generation'
    /\ \A gate \in Gates :
        /\ Required(gate, rows) \subseteq Required(gate, rows')
        /\ Settled(gate, rows) \subseteq Settled(gate, rows')
        /\ Results(gate, rows) \subseteq Results(gate, rows')
        /\ Generation' = Generation =>
             Deferred(gate, rows') = Deferred(gate, rows) \ Settled(gate, rows')
    /\ \A w \in Completed' :
        \/ w \in Completed /\ rows'[w].completion = rows[w].completion
        \/ w \notin Completed /\ rows'[w].completion.generation = Generation

-----------------------------------------------------------------------------
(* The tables.                                                              *)
LEMMA GenerationType ==
    ASSUME TablesOK
    PROVE  Generation \in Nat /\ \A n \in 1 .. Generation : windows[n] \in Pressures
BY DEF TablesOK, Generation

(* Within one table, work is deferred or settled, never both, and the       *)
(* settled work can be read off the results.                                *)
LEMMA TableFacts ==
    ASSUME TablesOK, NEW gate
    PROVE  /\ Deferred(gate, rows) \cap Settled(gate, rows) = {}
           /\ Settled(gate, rows) = {c.work : c \in Results(gate, rows)}
           /\ \A w \in Settled(gate, rows) : rows[w].completion.work = w
<1>1. \A w \in Settled(gate, rows) : rows[w].completion.work = w
  BY DEF TablesOK, RowOK, Settled, Required
<1> QED BY <1>1 DEF Deferred, Settled, Results

(* Nothing happened to the tables.                                          *)
LEMMA StillTables ==
    ASSUME Tables, UNCHANGED <<rows, windows>>
    PROVE  Tables' /\ TableGrows
<1>1. Tables'
  BY DEF Tables, TablesOK, CompletionInWindow, Completed, Open, Generation
<1>2. Generation' = Generation /\ Generation \in Nat
  BY GenerationType DEF Tables, Generation
<1> QED BY <1>1, <1>2, TableFacts DEF Tables, TableGrows, Completed

LEMMA SubmitTables ==
    ASSUME Tables, NEW w \in Works, SubmitWork(w)
    PROVE  Tables' /\ TableGrows
<1>1. CASE w \in DOMAIN rows
  <2>1. rows' = rows
    BY <1>1 DEF SubmitWork, Tables, TablesOK
  <2> QED BY <2>1, StillTables DEF SubmitWork
<1>2. CASE w \notin DOMAIN rows
  <2>1. /\ DOMAIN rows' = DOMAIN rows \cup {w}
        /\ \A v \in DOMAIN rows : rows'[v] = rows[v]
        /\ rows'[w] = [status |-> "SUBMITTED", completion |-> NoCompletion]
        /\ rows' = [v \in DOMAIN rows' |-> rows'[v]]
        /\ windows' = windows
    BY <1>2 DEF SubmitWork
  <2>2. Generation' = Generation /\ Generation \in Nat
    BY <2>1, GenerationType DEF Tables, Generation
  <2>3. RowOK(w, rows'[w])
    BY <2>1 DEF RowOK, Statuses
  <2>4. TablesOK'
    BY <2>1, <2>2, <2>3 DEF Tables, TablesOK
  <2>5. Completed' = Completed /\ Open' = Open \cup {w}
    BY <1>2, <2>1 DEF Completed, Open
  <2>6. CompletionInWindow'
    <3>1. \A n \in 1 .. Generation : w \notin windows[n].offered
      BY <1>2 DEF Tables, TablesOK
    <3>2. Completed \subseteq DOMAIN rows /\ Open \subseteq DOMAIN rows
      BY DEF Completed, Open
    <3> QED BY <2>1, <2>2, <2>5, <3>1, <3>2 DEF Tables, CompletionInWindow
  <2>7. ASSUME NEW gate \in Gates
        PROVE  /\ Required(gate, rows) \subseteq Required(gate, rows')
               /\ Settled(gate, rows) = Settled(gate, rows')
               /\ Results(gate, rows) = Results(gate, rows')
               /\ Deferred(gate, rows') = Deferred(gate, rows)
    <3>1. Required(gate, rows) \subseteq Required(gate, rows')
      BY <2>1 DEF Required
    <3>2. Settled(gate, rows) = Settled(gate, rows')
      BY <2>1 DEF Required, Settled
    <3>3. Deferred(gate, rows') = Deferred(gate, rows)
      BY <2>1 DEF Required, Deferred
    <3>4. \A v \in Settled(gate, rows) : rows'[v] = rows[v]
      BY <2>1 DEF Required, Settled
    <3>5. Results(gate, rows) = Results(gate, rows')
      BY <3>2, <3>4 DEF Results
    <3> QED BY <3>1, <3>2, <3>3, <3>5
  <2>8. \A v \in Completed : rows'[v].completion = rows[v].completion
    BY <2>1 DEF Completed
  <2>9. TableGrows
    BY <2>1, <2>2, <2>5, <2>7, <2>8, TableFacts DEF Tables, TableGrows
  <2> QED BY <2>4, <2>6, <2>9 DEF Tables
<1> QED BY <1>1, <1>2

LEMMA ScheduleTables ==
    ASSUME Tables, NEW policy \in CapacityPolicies, NEW now \in Times, Schedule(policy, now)
    PROVE  Tables' /\ TableGrows
<1> DEFINE pressure == ScheduleVerification(Open, policy, now)
<1>1. /\ DOMAIN rows' = DOMAIN rows
      /\ rows' = [v \in DOMAIN rows' |-> rows'[v]]
      /\ \A v \in Completed : rows'[v] = rows[v]
      /\ \A v \in Open : rows'[v] = [rows[v] EXCEPT !.status = Disposition(pressure, v)]
      /\ windows' = Append(windows, pressure)
  BY DEF Schedule, Completed, Open
<1>2. Open \subseteq DOMAIN rows /\ Completed = DOMAIN rows \ Open /\ Open \subseteq Works
  BY DEF Open, Completed, Tables, TablesOK
<1>3. pressure \in Pressures
  BY <1>2 DEF Pressures
<1>4. pressure.offered = Open
  BY DEF ScheduleVerification
<1> HIDE DEF pressure
<1>5. /\ Generation \in Nat
      /\ windows' \in Seq(Pressures)
      /\ Generation' = Generation + 1
      /\ windows'[Generation + 1] = pressure
      /\ \A n \in 1 .. Generation : windows'[n] = windows[n]
  BY <1>1, <1>3, GenerationType, AppendProperties DEF Tables, TablesOK, Generation
<1>6. \A v \in DOMAIN rows : Disposition(pressure, v) \in
                               {"ADMITTED", "DEFERRED_CAPACITY", "DEFERRED_OVERSIZED"}
  BY DEF Disposition
<1>7. \A v \in Open : rows'[v] = [status     |-> Disposition(pressure, v),
                                  completion |-> rows[v].completion]
  BY <1>1, <1>2 DEF Tables, TablesOK, RowOK
<1>8. \A v \in DOMAIN rows : RowOK(v, rows'[v])
  BY <1>1, <1>2, <1>6, <1>7 DEF Tables, TablesOK, RowOK, Open, Statuses
<1>9. TablesOK'
  <2>1. \A n \in 1 .. Generation + 1 : windows'[n].offered \subseteq DOMAIN rows
    BY <1>2, <1>4, <1>5 DEF Tables, TablesOK
  <2> QED BY <1>1, <1>5, <1>8, <2>1 DEF Tables, TablesOK
<1>10. Completed' = Completed /\ Open' = Open
  BY <1>1, <1>2, <1>6, <1>7 DEF Completed, Open
<1>11. CompletionInWindow'
  <2>1. ASSUME NEW v \in Completed
        PROVE  LET n == rows'[v].completion.generation IN
               /\ n \in 1 .. Generation + 1
               /\ v \in windows'[n].admitted
               /\ \A later \in n + 1 .. Generation + 1 : v \notin windows'[later].offered
    <3> DEFINE n == rows[v].completion.generation
    <3>1. /\ n \in 1 .. Generation
          /\ v \in windows[n].admitted
          /\ \A later \in n + 1 .. Generation : v \notin windows[later].offered
      BY DEF Tables, CompletionInWindow
    <3>2. rows'[v].completion.generation = n
      BY <1>1
    <3>3. v \notin pressure.offered
      BY <1>2, <1>4
    <3> HIDE DEF n
    <3>4. \A later \in n + 1 .. Generation + 1 : later \in n + 1 .. Generation \/ later = Generation + 1
      BY <1>5, <3>1
    <3>5. \A later \in n + 1 .. Generation : later \in 1 .. Generation
      BY <1>5, <3>1
    <3> QED BY <1>5, <3>1, <3>2, <3>3, <3>4, <3>5
  <2>2. ASSUME NEW v \in Open
        PROVE  /\ rows'[v].status # "SUBMITTED"
               /\ v \in windows'[Generation + 1].offered
               /\ rows'[v].status = Disposition(windows'[Generation + 1], v)
    <3>1. rows'[v].status = Disposition(pressure, v)
      <4>1. rows'[v] = [status     |-> Disposition(pressure, v),
                        completion |-> rows[v].completion]
        BY <1>7
      <4> QED BY <4>1
    <3>2. Disposition(pressure, v) # "SUBMITTED"
      BY <1>2, <1>6
    <3>3. windows'[Generation + 1] = pressure
      BY <1>5
    <3> QED BY <1>4, <3>1, <3>2, <3>3
  <2> QED BY <1>5, <1>10, <2>1, <2>2 DEF CompletionInWindow
<1>12. ASSUME NEW gate \in Gates
       PROVE  /\ Required(gate, rows) = Required(gate, rows')
              /\ Settled(gate, rows) = Settled(gate, rows')
              /\ Results(gate, rows) = Results(gate, rows')
  <2>1. Required(gate, rows) = Required(gate, rows')
    BY <1>1 DEF Required
  <2>2. \A t : Settled(gate, t) = {v \in Required(gate, t) : t[v].status = "COMPLETED"}
    BY DEF Settled
  <2>3. Settled(gate, rows) = Settled(gate, rows')
    <3>1. Required(gate, rows) \subseteq DOMAIN rows
      BY DEF Required
    <3>2. \A v \in DOMAIN rows : rows'[v].status = "COMPLETED" <=> rows[v].status = "COMPLETED"
      BY <1>1, <1>10 DEF Completed
    <3> QED BY <2>1, <2>2, <3>1, <3>2
  <2>4. \A v \in Settled(gate, rows) : rows'[v] = rows[v]
    BY <1>1 DEF Settled, Required, Completed
  <2> QED BY <2>1, <2>3, <2>4 DEF Results
<1>13. TableGrows
  BY <1>1, <1>5, <1>10, <1>12 DEF TableGrows
<1> QED BY <1>9, <1>11, <1>13 DEF Tables

LEMMA CompleteTables ==
    ASSUME IInv, NEW c \in Clients, Complete(c)
    PROVE  Tables' /\ TableGrows
<1> DEFINE w == clients[c].work
           completion == Completion(w, Generation, clients[c].decision, clients[c].now)
<1>1. w \in DOMAIN rows /\ clients[c].decision \in Decisions /\ Generation >= 1
  BY DEF IInv, RequestsOK, RequestOK, Complete, Doing, Idle
<1>2. /\ rows[w].completion = NoCompletion
      /\ rows[w].status = "ADMITTED"
      /\ w \in windows[Generation].admitted
      /\ rows' = [rows EXCEPT ![w] = [status |-> "COMPLETED", completion |-> completion]]
      /\ windows' = windows
  BY DEF Complete, Admissible
<1>3. /\ completion.work = w
      /\ completion.decision \in Decisions
      /\ completion.generation = Generation
      /\ completion # NoCompletion
  BY <1>1 DEF Completion, NoCompletion, Decisions
<1> HIDE DEF w, completion
<1>4. /\ DOMAIN rows' = DOMAIN rows
      /\ rows' = [v \in DOMAIN rows' |-> rows'[v]]
      /\ rows'[w] = [status |-> "COMPLETED", completion |-> completion]
      /\ \A v \in DOMAIN rows : v # w => rows'[v] = rows[v]
  BY <1>1, <1>2 DEF IInv, Tables, TablesOK
<1>5. Generation' = Generation /\ Generation \in Nat
  BY <1>2, GenerationType DEF IInv, Tables, Generation
<1>6. RowOK(w, rows'[w])
  BY <1>3, <1>4 DEF RowOK, Statuses
<1>7. TablesOK'
  BY <1>2, <1>4, <1>5, <1>6 DEF IInv, Tables, TablesOK
<1>8. Completed' = Completed \cup {w} /\ Open' = Open \ {w} /\ w \notin Completed
  BY <1>1, <1>2, <1>4 DEF Completed, Open
<1>9. CompletionInWindow'
  <2>1. \A v \in Completed \cup Open : v \in DOMAIN rows
    BY DEF Completed, Open
  <2>2. \A v \in Completed : rows'[v] = rows[v] /\ v # w
    BY <1>4, <1>8, <2>1
  <2>3. \A v \in Open \ {w} : rows'[v] = rows[v]
    BY <1>4, <2>1
  <2>4. LET n == rows'[w].completion.generation IN
          /\ n \in 1 .. Generation
          /\ w \in windows[n].admitted
          /\ \A later \in n + 1 .. Generation : w \notin windows[later].offered
    BY <1>1, <1>2, <1>3, <1>4, <1>5
  <2> QED BY <1>2, <1>5, <1>8, <2>2, <2>3, <2>4 DEF IInv, Tables, CompletionInWindow
<1>10. ASSUME NEW gate \in Gates
       PROVE  /\ Required(gate, rows) = Required(gate, rows')
              /\ Settled(gate, rows) \subseteq Settled(gate, rows')
              /\ Results(gate, rows) \subseteq Results(gate, rows')
              /\ Deferred(gate, rows') = Deferred(gate, rows) \ Settled(gate, rows')
  <2>1. Required(gate, rows) = Required(gate, rows') /\ Required(gate, rows) \subseteq DOMAIN rows
    BY <1>4 DEF Required
  <2>2. \A v \in Settled(gate, rows) : rows'[v] = rows[v]
    BY <1>2, <1>4, <2>1 DEF Settled
  <2>3. Settled(gate, rows) \subseteq Settled(gate, rows')
    BY <2>1, <2>2 DEF Settled
  <2>4. Results(gate, rows) \subseteq Results(gate, rows')
    BY <2>2, <2>3 DEF Results
  <2>5. Deferred(gate, rows') = Deferred(gate, rows)
    BY <1>2, <1>4, <2>1 DEF Deferred
  <2>6. Deferred(gate, rows') \cap Settled(gate, rows') = {}
    BY DEF Deferred, Settled
  <2> QED BY <2>1, <2>3, <2>4, <2>5, <2>6
<1>11. \A v \in Completed : rows'[v].completion = rows[v].completion
  BY <1>4, <1>8 DEF Completed
<1>12. TableGrows
  BY <1>3, <1>4, <1>5, <1>8, <1>10, <1>11 DEF TableGrows
<1> QED BY <1>7, <1>9, <1>12 DEF Tables

-----------------------------------------------------------------------------
(* What processes know.                                                     *)

(* The decision state of the tables of now.                                 *)
LEMMA CurrentState ==
    ASSUME TablesOK, NEW gate \in Gates, NEW generation \in Nat, generation <= Generation
    PROVE  LET S == DecisionState(gate, generation, rows) IN
             /\ S.gate = gate /\ S.generation = generation
             /\ S.required = Required(gate, rows)
             /\ S.completions = Results(gate, rows)
             /\ S.deferred = Deferred(gate, rows)
             /\ SettledIn(S) = Settled(gate, rows)
             /\ WellFormed(S)
             /\ Earlier(S)
<1> DEFINE S == DecisionState(gate, generation, rows)
<1>1. /\ S.gate = gate /\ S.generation = generation
      /\ S.required = Required(gate, rows)
      /\ S.completions = Results(gate, rows)
      /\ S.deferred = Deferred(gate, rows)
  BY DEF DecisionState, Receipt
<1>2. SettledIn(S) = Settled(gate, rows)
  BY <1>1, TableFacts DEF SettledIn
<1>3. S = Receipt(gate, generation, Required(gate, rows), Results(gate, rows),
                  Settled(gate, rows), Deferred(gate, rows))
  BY DEF DecisionState
<1> HIDE DEF S
<1>4. WellFormed(S)
  <2>1. Settled(gate, rows) \subseteq Required(gate, rows)
    BY DEF Settled
  <2> QED BY <1>1, <1>2, <1>3, <2>1, TableFacts DEF WellFormed
<1>5. Earlier(S)
  BY <1>1, TableFacts DEF Earlier
<1> QED BY <1>1, <1>2, <1>4, <1>5 DEF S

(* What was earlier than the tables stays earlier than any later tables.    *)
LEMMA EarlierKept ==
    ASSUME TablesOK, TableGrows, TablesOK', NEW S, S.gate \in Gates, Earlier(S)
    PROVE  Earlier(S)'
<1>1. Generation \in Nat /\ Generation' \in Nat /\ Generation <= Generation'
  BY GenerationType DEF TableGrows, TablesOK, Generation
<1>2. S.required \subseteq Required(S.gate, rows') /\ S.completions \subseteq Results(S.gate, rows')
  BY DEF Earlier, TableGrows
<1>3. S.generation \in Nat /\ S.generation <= Generation'
  BY <1>1 DEF Earlier
<1>4. ASSUME S.generation = Generation'
      PROVE  Deferred(S.gate, rows') = S.deferred \ Settled(S.gate, rows')
  <2>1. Generation' = Generation /\ S.generation = Generation
    BY <1>1, <1>4 DEF Earlier
  <2>2. /\ Deferred(S.gate, rows) = S.deferred \ Settled(S.gate, rows)
        /\ Settled(S.gate, rows) \subseteq Settled(S.gate, rows')
        /\ Deferred(S.gate, rows') = Deferred(S.gate, rows) \ Settled(S.gate, rows')
    BY <2>1 DEF Earlier, TableGrows
  <2> QED BY <2>2
<1> QED BY <1>2, <1>3, <1>4 DEF Earlier

(* The previews keepers hold already stay valid descriptions of the past.   *)
LEMMA PreviewsKept ==
    ASSUME IInv, TableGrows, TablesOK', previews' = previews
    PROVE  PreviewsOK'
<1> SUFFICES ASSUME NEW S \in previews PROVE WellFormed(S) /\ Earlier(S)'
  BY DEF PreviewsOK
<1>1. WellFormed(S) /\ Earlier(S)
  BY DEF IInv, PreviewsOK
<1> QED BY <1>1, EarlierKept DEF IInv, Tables, WellFormed

(* So do finalizations: a verdict recorded now names the current window.    *)
LEMMA FinalsKept ==
    ASSUME IInv, TableGrows, TablesOK', finals' = finals
    PROVE  FinalsOK'
<1> SUFFICES ASSUME NEW f \in finals
             PROVE  /\ WellFormed(f.state)
                    /\ Earlier(f.state)'
                    /\ f.generation = f.state.generation
                    /\ \A w \in Completed' :
                        w.gate = f.state.gate /\ rows'[w].completion.generation < f.generation
                          => rows'[w].completion \in f.state.completions
  BY DEF FinalsOK
<1>1. /\ WellFormed(f.state) /\ Earlier(f.state) /\ f.generation = f.state.generation
      /\ \A w \in Completed :
           w.gate = f.state.gate /\ rows[w].completion.generation < f.generation
             => rows[w].completion \in f.state.completions
  BY DEF IInv, FinalsOK
<1>2. Earlier(f.state)'
  BY <1>1, EarlierKept DEF IInv, Tables, WellFormed
<1>3. f.generation \in Nat /\ f.generation <= Generation /\ Generation \in Nat
  BY <1>1, GenerationType DEF Earlier, IInv, Tables
<1>4. ASSUME NEW w \in Completed',
             w.gate = f.state.gate, rows'[w].completion.generation < f.generation
      PROVE  rows'[w].completion \in f.state.completions
  <2>1. CASE w \in Completed /\ rows'[w].completion = rows[w].completion
    BY <1>1, <1>4, <2>1
  <2>2. CASE rows'[w].completion.generation = Generation
    BY <1>3, <1>4, <2>2
  <2> QED BY <2>1, <2>2 DEF TableGrows
<1> QED BY <1>1, <1>2, <1>4

(* A client that does nothing keeps a valid request.                        *)
LEMMA RequestKept ==
    ASSUME IInv, TableGrows, TablesOK', previews \subseteq previews',
           NEW client, RequestOK(client)
    PROVE  RequestOK(client)'
<1>1. /\ Generation \in Nat /\ Generation' \in Nat /\ Generation <= Generation'
      /\ DOMAIN rows \subseteq DOMAIN rows'
  BY GenerationType DEF TableGrows, IInv, Tables, TablesOK, Generation
<1>2. CASE client = Idle
  BY <1>2 DEF RequestOK
<1>3. CASE client.operation = "complete" /\ RequestOK(client)
  BY <1>1, <1>3 DEF RequestOK, ConcludeOK, Idle
<1>4. CASE client.operation = "preview" /\ RequestOK(client)
  BY <1>1, <1>4 DEF RequestOK, ConcludeOK, Idle
<1>5. CASE client.operation = "finalize" /\ RequestOK(client)
  <2>1. /\ client.expected \in previews
        /\ client.signed \in Nat
        /\ client.expected.generation <= client.signed
        /\ client.signed <= Generation
    BY <1>5 DEF RequestOK, Idle
  <2> QED BY <1>1, <1>5, <2>1 DEF RequestOK
<1>6. CASE client.operation = "conclude" /\ RequestOK(client)
  <2>1. ConcludeOK(client)
    BY <1>6 DEF RequestOK, Idle
  <2>2. Earlier(client.instant)'
    BY <2>1, EarlierKept DEF ConcludeOK, WellFormed, IInv, Tables
  <2>3. ConcludeOK(client)'
    BY <1>1, <2>1, <2>2 DEF ConcludeOK
  <2> QED BY <1>6, <2>3 DEF RequestOK
<1> QED BY <1>2, <1>3, <1>4, <1>5, <1>6 DEF RequestOK

(* A step that leaves clients, previews and finalizations alone.            *)
LEMMA KnowledgeKept ==
    ASSUME IInv, TableGrows, Tables', UNCHANGED <<clients, previews, finals>>
    PROVE  IInv'
<1>1. PreviewsOK' /\ FinalsOK'
  BY PreviewsKept, FinalsKept DEF Tables
<1>2. \A c \in Clients : RequestOK(clients[c])'
  BY RequestKept DEF Tables, IInv, RequestsOK
<1>3. RequestsOK'
  BY <1>2 DEF RequestsOK, IInv
<1> QED BY <1>1, <1>3 DEF IInv

(* A client that takes up, goes on with or ends a request.                  *)
LEMMA ClientMoves ==
    ASSUME IInv, TableGrows, Tables', PreviewsOK', FinalsOK',
           previews \subseteq previews',
           NEW c \in Clients, NEW client, RequestOK(client)',
           clients' = [clients EXCEPT ![c] = client]
    PROVE  IInv'
<1>1. DOMAIN clients' = Clients
  BY DEF IInv, RequestsOK
<1>2. ASSUME NEW d \in Clients PROVE RequestOK(clients[d])'
  <2>1. CASE d = c
    <3>1. clients'[d] = client
      BY <2>1 DEF IInv, RequestsOK
    <3> QED BY <3>1
  <2>2. CASE d # c
    <3>1. clients'[d] = clients[d]
      BY <2>2 DEF IInv, RequestsOK
    <3>2. RequestOK(clients[d])
      BY DEF IInv, RequestsOK
    <3> DEFINE other == clients[d]
    <3>3. ASSUME NEW e, e = clients[d] PROVE RequestOK(e)'
      BY <3>2, <3>3, RequestKept DEF Tables
    <3> QED BY <3>1, <3>3
  <2> QED BY <2>1, <2>2
<1> QED BY <1>1, <1>2 DEF IInv, RequestsOK

-----------------------------------------------------------------------------
(* The invariant.                                                           *)
LEMMA InitIInv == Init => IInv
<1> SUFFICES ASSUME Init PROVE IInv
  OBVIOUS
<1>1. /\ DOMAIN rows = {} /\ rows = [w \in DOMAIN rows |-> rows[w]]
      /\ windows = <<>> /\ windows \in Seq(Pressures) /\ Len(windows) = 0
  BY DEF Init
<1>2. Tables
  BY <1>1 DEF Tables, TablesOK, CompletionInWindow, Completed, Open, Generation
<1>3. \A c \in Clients : RequestOK(clients[c])
  BY DEF Init, RequestOK
<1> QED BY <1>2, <1>3 DEF Init, IInv, PreviewsOK, FinalsOK, RequestsOK

LEMMA SubmitIInv == ASSUME IInv, NEW w \in Works, SubmitWork(w) PROVE IInv'
<1>1. UNCHANGED <<clients, previews, finals>>
  BY DEF SubmitWork
<1> QED BY <1>1, SubmitTables, KnowledgeKept DEF IInv

LEMMA ScheduleIInv ==
    ASSUME IInv, NEW policy \in CapacityPolicies, NEW now \in Times, Schedule(policy, now)
    PROVE  IInv'
<1>1. UNCHANGED <<clients, previews, finals>>
  BY DEF Schedule
<1> QED BY <1>1, ScheduleTables, KnowledgeKept DEF IInv

(* A process takes up a request, or ends, and nothing else happens.         *)
LEMMA ClientOnly ==
    ASSUME IInv, UNCHANGED <<rows, windows, previews, finals>>,
           NEW c \in Clients, NEW client, RequestOK(client),
           clients' = [clients EXCEPT ![c] = client]
    PROVE  IInv'
<1>1. Tables' /\ TableGrows
  BY StillTables DEF IInv
<1>2. PreviewsOK' /\ FinalsOK'
  BY <1>1, PreviewsKept, FinalsKept DEF Tables
<1>3. RequestOK(client)'
  BY <1>1, RequestKept DEF Tables
<1> QED BY <1>1, <1>2, <1>3, ClientMoves

LEMMA AuthorizeIInv ==
    ASSUME IInv, NEW c \in Clients, NEW w \in Works, NEW decision \in Decisions,
           NEW now \in Times, AuthorizeCompletion(c, w, decision, now)
    PROVE  IInv'
<1> DEFINE client == [operation  |-> "complete",
                      work       |-> w,
                      decision   |-> decision,
                      now        |-> now,
                      authorized |-> Generation]
<1>1. Generation >= 1
  BY EmptySeq DEF AuthorizeCompletion, Generation, IInv, Tables, TablesOK
<1>2. RequestOK(client)
  BY <1>1 DEF AuthorizeCompletion, RequestOK
<1>3. /\ clients' = [clients EXCEPT ![c] = client]
      /\ UNCHANGED <<rows, windows, previews, finals>>
  BY DEF AuthorizeCompletion
<1> HIDE DEF client
<1> QED BY <1>2, <1>3, ClientOnly

LEMMA CompleteIInv == ASSUME IInv, NEW c \in Clients, Complete(c) PROVE IInv'
<1>1. Tables' /\ TableGrows
  BY CompleteTables
<1>2. UNCHANGED <<previews, finals>> /\ clients' = [clients EXCEPT ![c] = Idle]
  BY DEF Complete
<1>3. PreviewsOK' /\ FinalsOK'
  BY <1>1, <1>2, PreviewsKept, FinalsKept DEF Tables
<1>4. RequestOK(Idle)'
  BY DEF RequestOK
<1> QED BY <1>1, <1>2, <1>3, <1>4, ClientMoves

LEMMA ReadScheduleIInv ==
    ASSUME IInv, NEW c \in Clients, NEW gate \in Gates, ReadSchedule(c, gate)
    PROVE  IInv'
<1> DEFINE client == [operation |-> "preview", gate |-> gate, generation |-> Generation]
<1>1. RequestOK(client)
  BY GenerationType DEF RequestOK, IInv, Tables
<1>2. /\ clients' = [clients EXCEPT ![c] = client]
      /\ UNCHANGED <<rows, windows, previews, finals>>
  BY DEF ReadSchedule
<1> HIDE DEF client
<1> QED BY <1>1, <1>2, ClientOnly

(* A torn preview is a valid description of the past: if its generation is  *)
(* not that of the rows it saw, it says nothing about what was deferred.    *)
LEMMA PreviewIInv == ASSUME IInv, NEW c \in Clients, Preview(c) PROVE IInv'
<1> DEFINE gate == clients[c].gate
           generation == clients[c].generation
           S == DecisionState(gate, generation, rows)
<1>1. gate \in Gates /\ generation \in Nat /\ generation <= Generation
  BY DEF IInv, RequestsOK, RequestOK, Preview, Doing, Idle
<1>2. WellFormed(S) /\ Earlier(S)
  BY <1>1, CurrentState DEF IInv, Tables
<1>3. /\ previews' = previews \cup {S}
      /\ clients' = [clients EXCEPT ![c] = Idle]
      /\ UNCHANGED <<rows, windows, finals>>
  BY DEF Preview
<1> HIDE DEF S
<1>4. Tables' /\ TableGrows
  BY <1>3, StillTables DEF IInv
<1>5. PreviewsOK'
  <2> SUFFICES ASSUME NEW T \in previews' PROVE WellFormed(T) /\ Earlier(T)'
    BY DEF PreviewsOK
  <2>1. WellFormed(T) /\ Earlier(T)
    BY <1>2, <1>3 DEF IInv, PreviewsOK
  <2> QED BY <1>4, <2>1, EarlierKept DEF IInv, Tables, WellFormed
<1>6. FinalsOK'
  BY <1>3, <1>4, FinalsKept DEF Tables
<1>7. RequestOK(Idle)'
  BY DEF RequestOK
<1> QED BY <1>3, <1>4, <1>5, <1>6, <1>7, ClientMoves

LEMMA BeginFinalizationIInv ==
    ASSUME IInv, NEW c \in Clients, NEW preview \in previews, BeginFinalization(c, preview)
    PROVE  IInv'
<1> DEFINE client == [operation |-> "finalize", expected |-> preview, signed |-> Generation]
<1>1. preview.generation <= Generation
  BY DEF IInv, PreviewsOK, Earlier
<1>2. RequestOK(client)
  BY <1>1, GenerationType DEF RequestOK, IInv, Tables
<1>3. /\ clients' = [clients EXCEPT ![c] = client]
      /\ UNCHANGED <<rows, windows, previews, finals>>
  BY DEF BeginFinalization
<1> HIDE DEF client
<1> QED BY <1>2, <1>3, ClientOnly

(* The state of the instant at which the generation is read follows the     *)
(* preview the keeper expects.                                              *)
LEMMA EvaluateIInv == ASSUME IInv, NEW c \in Clients, EvaluateGeneration(c) PROVE IInv'
<1> DEFINE P == clients[c].expected
           I == DecisionState(P.gate, Generation, rows)
           client == [operation  |-> "conclude",
                      expected   |-> P,
                      signed     |-> clients[c].signed,
                      generation |-> Generation,
                      instant    |-> I]
<1>1. /\ P \in previews
      /\ clients[c].signed \in Nat
      /\ P.generation <= clients[c].signed
      /\ clients[c].signed <= Generation
  BY DEF IInv, RequestsOK, RequestOK, EvaluateGeneration, Doing, Idle
<1>2. WellFormed(P) /\ Earlier(P) /\ P.gate \in Gates /\ Generation \in Nat
  BY <1>1, GenerationType DEF IInv, PreviewsOK, WellFormed, Tables
<1>3. /\ I.gate = P.gate /\ I.generation = Generation
      /\ I.required = Required(P.gate, rows)
      /\ I.completions = Results(P.gate, rows)
      /\ I.deferred = Deferred(P.gate, rows)
      /\ SettledIn(I) = Settled(P.gate, rows)
      /\ WellFormed(I)
      /\ Earlier(I)
  BY <1>2, CurrentState DEF IInv, Tables
<1>4. /\ clients' = [clients EXCEPT ![c] = client]
      /\ UNCHANGED <<rows, windows, previews, finals>>
  BY DEF EvaluateGeneration
<1> HIDE DEF P, I
<1>5. Follows(I, P)
  BY <1>2, <1>3 DEF Follows, Earlier
<1>6. client.operation = "conclude" /\ ConcludeOK(client)
  BY <1>1, <1>2, <1>3, <1>5 DEF ConcludeOK
<1> HIDE DEF client
<1>7. RequestOK(client)
  BY <1>6 DEF RequestOK
<1> QED BY <1>4, <1>7, ClientOnly

(* A finalization states the decision of the tables of now, under the       *)
(* generation the keeper signed.                                            *)
LEMMA FinalizeIInv == ASSUME IInv, NEW c \in Clients, Finalize(c) PROVE IInv'
<1> DEFINE P == clients[c].expected
           g == clients[c].generation
           f == [state |-> P, generation |-> clients[c].signed]
<1>1. ConcludeOK(clients[c])
  BY DEF IInv, RequestsOK, RequestOK, Finalize, Doing, Idle
<1>2. /\ P \in previews /\ WellFormed(P) /\ Earlier(P)
      /\ g \in Nat /\ g <= Generation
      /\ P.generation <= clients[c].signed /\ clients[c].signed <= g
      /\ clients[c].signed \in Nat
  BY <1>1 DEF ConcludeOK, IInv, PreviewsOK
<1>3. DecisionState(P.gate, g, rows) = P
  BY DEF Finalize, Concluded
<1>4. P.generation = g /\ P.completions = Results(P.gate, rows)
  BY <1>2, <1>3, CurrentState DEF WellFormed, IInv, Tables
<1>5. clients[c].signed = P.generation
  BY <1>2, <1>4
<1>6. /\ finals' = finals \cup {f}
      /\ clients' = [clients EXCEPT ![c] = Idle]
      /\ UNCHANGED <<rows, windows, previews>>
  BY DEF Finalize
<1>7. Tables' /\ TableGrows
  BY <1>6, StillTables DEF IInv
<1>8. PreviewsOK'
  BY <1>6, <1>7, PreviewsKept DEF Tables
<1>9. \A w \in Completed : w.gate = P.gate => rows[w].completion \in P.completions
  BY <1>4 DEF Completed, Results, Settled, Required
<1>10. f.state = P /\ f.generation = P.generation
  BY <1>5
<1> HIDE DEF P, g, f
<1>11. FinalsOK'
  <2> SUFFICES ASSUME NEW h \in finals'
               PROVE  /\ WellFormed(h.state)
                      /\ Earlier(h.state)'
                      /\ h.generation = h.state.generation
                      /\ \A w \in Completed' :
                          w.gate = h.state.gate /\ rows'[w].completion.generation < h.generation
                            => rows'[w].completion \in h.state.completions
    BY DEF FinalsOK
  <2>1. /\ WellFormed(h.state) /\ Earlier(h.state) /\ h.generation = h.state.generation
        /\ \A w \in Completed :
            w.gate = h.state.gate /\ rows[w].completion.generation < h.generation
              => rows[w].completion \in h.state.completions
    <3>1. CASE h \in finals
      BY <3>1 DEF IInv, FinalsOK
    <3>2. CASE h = f
      BY <3>2, <1>2, <1>9, <1>10
    <3> QED BY <3>1, <3>2, <1>6
  <2>2. Earlier(h.state)'
    BY <1>7, <2>1, EarlierKept DEF IInv, Tables, WellFormed
  <2>3. Completed' = Completed
    BY <1>6 DEF Completed
  <2> QED BY <1>6, <2>1, <2>2, <2>3
<1>12. RequestOK(Idle)'
  BY DEF RequestOK
<1> QED BY <1>6, <1>7, <1>8, <1>11, <1>12, ClientMoves

LEMMA AbortIInv == ASSUME IInv, NEW c \in Clients, Abort(c) PROVE IInv'
<1>1. RequestOK(Idle)
  BY DEF RequestOK
<1> QED BY <1>1, ClientOnly DEF Abort

LEMMA NextIInv == IInv /\ [Next]_vars => IInv'
<1> SUFFICES ASSUME IInv, [Next]_vars PROVE IInv'
  OBVIOUS
<1>1. CASE \E w \in Works : SubmitWork(w)
  BY <1>1, SubmitIInv
<1>2. CASE \E policy \in CapacityPolicies, now \in Times : Schedule(policy, now)
  BY <1>2, ScheduleIInv
<1>3. ASSUME NEW c \in Clients, NEW w \in Works, NEW decision \in Decisions,
             NEW now \in Times, AuthorizeCompletion(c, w, decision, now)
      PROVE  IInv'
  BY <1>3, AuthorizeIInv
<1>4. ASSUME NEW c \in Clients, Complete(c) PROVE IInv'
  BY <1>4, CompleteIInv
<1>5. ASSUME NEW c \in Clients, NEW gate \in Gates, ReadSchedule(c, gate) PROVE IInv'
  BY <1>5, ReadScheduleIInv
<1>6. ASSUME NEW c \in Clients, Preview(c) PROVE IInv'
  BY <1>6, PreviewIInv
<1>7. ASSUME NEW c \in Clients, NEW preview \in previews, BeginFinalization(c, preview)
      PROVE  IInv'
  BY <1>7, BeginFinalizationIInv
<1>8. ASSUME NEW c \in Clients, EvaluateGeneration(c) PROVE IInv'
  BY <1>8, EvaluateIInv
<1>9. ASSUME NEW c \in Clients, Finalize(c) PROVE IInv'
  BY <1>9, FinalizeIInv
<1>10. ASSUME NEW c \in Clients, Abort(c) PROVE IInv'
  BY <1>10, AbortIInv
<1>11. CASE UNCHANGED vars
  <2>1. Tables' /\ TableGrows
    BY <1>11, StillTables DEF vars, IInv
  <2> QED BY <1>11, <2>1, KnowledgeKept DEF vars
<1> QED BY <1>1, <1>2, <1>3, <1>4, <1>5, <1>6, <1>7, <1>8, <1>9, <1>10, <1>11 DEF Next

(* Spec keeps the inductive invariant IInv: the tables are coherent, and     *)
(* whatever previews, finalizations and open requests hold is a true record *)
(* of earlier tables.                                                       *)
THEOREM Invariance == Spec => []IInv
BY InitIInv, NextIInv, PTL DEF Spec

-----------------------------------------------------------------------------
(* Spec keeps TypeOK: rows, windows and requests of submission, scheduling,  *)
(* completion and finalization have the shapes the code reads back.         *)
THEOREM TypeCorrect == Spec => []TypeOK
<1>1. ASSUME IInv PROVE TypeOK
  <2>1. /\ DOMAIN rows \subseteq Works
        /\ \A w \in DOMAIN rows :
            /\ rows[w].status \in Statuses
            /\ rows[w].completion # NoCompletion <=> rows[w].status = "COMPLETED"
            /\ rows[w].completion # NoCompletion => rows[w].completion.decision \in Decisions
    BY <1>1 DEF IInv, Tables, TablesOK, RowOK
  <2>2. ASSUME NEW n \in 1 .. Generation
        PROVE  windows[n].offered \subseteq Works /\ windows[n].measuredAt \in Times
    <3>1. windows[n] \in Pressures
      BY <1>1, GenerationType DEF IInv, Tables
    <3>2. PICK items \in SUBSET Works, policy \in CapacityPolicies, now \in Times :
            windows[n] = ScheduleVerification(items, policy, now)
      BY <3>1 DEF Pressures
    <3>3. windows[n].offered = items /\ windows[n].measuredAt = now
      BY <3>2 DEF ScheduleVerification
    <3> QED BY <3>3
  <2>3. ASSUME NEW c \in Clients
        PROVE  \/ clients[c] = Idle
               \/ clients[c].operation \in {"complete", "preview", "finalize", "conclude"}
    BY <1>1 DEF IInv, RequestsOK, RequestOK
  <2> QED BY <1>1, <2>1, <2>2, <2>3 DEF TypeOK, IInv, RequestsOK
<1> QED BY <1>1, Invariance, PTL

(* Spec keeps CompletionInWindow: only admitted work is completed, in the    *)
(* window that admitted it, and no window offers it again.                  *)
THEOREM CompletionsInWindow == Spec => []CompletionInWindow
<1>1. IInv => CompletionInWindow
  BY DEF IInv, Tables
<1> QED BY <1>1, Invariance, PTL

(* A decision state that says PASS says so because of what it lists.         *)
LEMMA PassMeans ==
    ASSUME NEW S, WellFormed(S), S.decision = "PASS"
    PROVE  /\ BaseDecision[S.gate] # "FAIL"
           /\ S.required = {} => BaseDecision[S.gate] = "PASS"
           /\ S.required \subseteq SettledIn(S)
           /\ \A c \in S.completions : c.decision \notin {"FAIL", "HOLD"}
<1> DEFINE verdicts == {c.decision : c \in S.completions}
           owed == S.required \ SettledIn(S)
<1>1. Decide(BaseDecision[S.gate], verdicts, owed) = "PASS"
  BY DEF WellFormed, Receipt
<1> HIDE DEF verdicts, owed
<1>2. /\ BaseDecision[S.gate] # "FAIL" /\ "FAIL" \notin verdicts /\ "HOLD" \notin verdicts
      /\ owed = {}
      /\ verdicts # {} \/ BaseDecision[S.gate] = "PASS"
  BY <1>1 DEF Decide
<1>3. S.required = {} => verdicts = {}
  BY DEF WellFormed, SettledIn, verdicts
<1> QED BY <1>2, <1>3 DEF verdicts, owed

(* Spec keeps PassFinalJustified: a finalized PASS rests on a gate that did  *)
(* not fail and on passing verdicts that are still on record.               *)
THEOREM PassFinalsJustified == Spec => []PassFinalJustified
<1>1. ASSUME IInv PROVE PassFinalJustified
  <2> SUFFICES ASSUME NEW f \in finals, f.state.decision = "PASS"
               PROVE  /\ BaseDecision[f.state.gate] # "FAIL"
                      /\ f.state.required = {} => BaseDecision[f.state.gate] = "PASS"
                      /\ \A w \in f.state.required :
                          /\ w \in Completed
                          /\ rows[w].completion.decision = "PASS"
                          /\ rows[w].completion \in f.state.completions
    BY DEF PassFinalJustified
  <2>1. WellFormed(f.state) /\ Earlier(f.state) /\ TablesOK
    BY <1>1 DEF IInv, FinalsOK, Tables
  <2>2. ASSUME NEW w \in f.state.required
        PROVE  /\ w \in Completed
               /\ rows[w].completion.decision = "PASS"
               /\ rows[w].completion \in f.state.completions
    <3>1. PICK result \in f.state.completions : result.work = w
      BY <2>1, PassMeans DEF SettledIn
    <3>2. PICK v \in Settled(f.state.gate, rows) : rows[v].completion = result
      BY <2>1 DEF Earlier, Results
    <3>3. v = w
      BY <2>1, <3>1, <3>2, TableFacts
    <3>4. w \in Completed /\ rows[w].completion.decision \in Decisions
      BY <2>1, <3>2, <3>3 DEF Settled, Required, Completed, TablesOK, RowOK
    <3>5. result.decision \notin {"FAIL", "HOLD"}
      BY <2>1, PassMeans
    <3> QED BY <3>2, <3>3, <3>4, <3>5 DEF Decisions
  <2> QED BY <2>1, <2>2, PassMeans
<1> QED BY <1>1, Invariance, PTL

(* Spec keeps FailDominates: a failed verdict recorded before the generation *)
(* a finalization names makes that finalization a FAIL.                     *)
THEOREM FailuresDominate == Spec => []FailDominates
<1>1. ASSUME IInv PROVE FailDominates
  <2> SUFFICES ASSUME NEW f \in finals, NEW w \in Completed,
                      w.gate = f.state.gate,
                      rows[w].completion.decision = "FAIL",
                      rows[w].completion.generation < f.generation
               PROVE  f.state.decision = "FAIL"
    BY DEF FailDominates
  <2>1. WellFormed(f.state) /\ rows[w].completion \in f.state.completions
    BY <1>1 DEF IInv, FinalsOK
  <2> DEFINE verdicts == {c.decision : c \in f.state.completions}
             owed == f.state.required \ SettledIn(f.state)
             S == f.state
  <2>2. f.state.decision = Decide(BaseDecision[f.state.gate], verdicts, owed)
    <3>1. S = Receipt(S.gate, S.generation, S.required, S.completions, SettledIn(S), S.deferred)
      BY <2>1 DEF WellFormed
    <3>2. ASSUME NEW T,
                 T = Receipt(T.gate, T.generation, T.required, T.completions, SettledIn(T), T.deferred)
          PROVE  T.decision = Decide(BaseDecision[T.gate], {d.decision : d \in T.completions},
                                     T.required \ SettledIn(T))
      BY <3>2 DEF Receipt
    <3> QED BY <3>1, <3>2
  <2>3. "FAIL" \in verdicts
    BY <2>1
  <2> HIDE DEF verdicts, owed
  <2> QED BY <2>2, <2>3 DEF Decide
<1> QED BY <1>1, Invariance, PTL

(* Spec keeps FinalCoherent: the generation a finalization signs is the one  *)
(* its decision was computed under, though two reads produced them.         *)
THEOREM FinalsCoherent == Spec => []FinalCoherent
<1>1. IInv => FinalCoherent
  BY DEF IInv, FinalsOK, FinalCoherent
<1> QED BY <1>1, Invariance, PTL

(* Spec keeps FinalizesAnInstant: when the last read of a finalization       *)
(* confirms the expected state, that state was the state of the tables at   *)
(* the instant the generation was read.  The instant lies between preview   *)
(* and last read; what only grows and is equal at both ends is equal in     *)
(* between, and within one generation deferred work only leaves by being    *)
(* completed.                                                               *)
THEOREM FinalizationIsAtomic == Spec => []FinalizesAnInstant
<1>1. ASSUME IInv PROVE FinalizesAnInstant
  <2> SUFFICES ASSUME NEW c \in Clients, Doing(c, "conclude"),
                      Concluded(clients[c], rows) = clients[c].expected
               PROVE  clients[c].expected = clients[c].instant
    BY DEF FinalizesAnInstant
  <2> DEFINE P == clients[c].expected
             I == clients[c].instant
             g == clients[c].generation
  <2>1. ConcludeOK(clients[c])
    BY <1>1 DEF IInv, RequestsOK, RequestOK, Doing, Idle
  <2>2. /\ WellFormed(P) /\ WellFormed(I) /\ Earlier(I) /\ Follows(I, P)
        /\ g \in Nat /\ g <= Generation /\ I.generation = g
    BY <1>1, <2>1 DEF ConcludeOK, IInv, PreviewsOK
  <2>3. DecisionState(P.gate, g, rows) = P
    BY DEF Concluded
  <2> HIDE DEF P, I, g
  <2>4. /\ P.generation = g
        /\ P.required = Required(P.gate, rows)
        /\ P.completions = Results(P.gate, rows)
    BY <1>1, <2>2, <2>3, CurrentState DEF WellFormed, IInv, Tables
  <2>5. /\ I.gate = P.gate
        /\ I.generation = P.generation
        /\ I.required = P.required
        /\ I.completions = P.completions
    BY <2>2, <2>4 DEF Earlier, Follows
  <2>6. SettledIn(I) = SettledIn(P)
    BY <2>5 DEF SettledIn
  <2>7. I.deferred = P.deferred
    BY <2>2, <2>5, <2>6 DEF Follows, WellFormed
  <2>8. /\ P = Receipt(P.gate, P.generation, P.required, P.completions, SettledIn(P), P.deferred)
        /\ I = Receipt(I.gate, I.generation, I.required, I.completions, SettledIn(I), I.deferred)
    BY <2>2 DEF WellFormed
  <2>9. P = I
    BY <2>5, <2>6, <2>7, <2>8
  <2> QED BY <2>9 DEF P, I
<1> QED BY <1>1, Invariance, PTL

-----------------------------------------------------------------------------
(* The debt register.                                                       *)
debtNow == [w \in DOMAIN rows |-> rows[w].completion.decision]

LEMMA SubmitOwes ==
    ASSUME IInv, NEW w \in Works, SubmitWork(w)
    PROVE  Debt!Owe(w) \/ UNCHANGED debtNow
<1>1. CASE w \in DOMAIN rows
  <2>1. rows' = rows
    BY <1>1 DEF SubmitWork, IInv, Tables, TablesOK
  <2> QED BY <2>1 DEF debtNow
<1>2. CASE w \notin DOMAIN rows
  <2>1. \A v \in DOMAIN rows : v.ref # w.ref
    BY <1>2 DEF SubmitWork
  <2>2. /\ DOMAIN rows' = DOMAIN rows \cup {w}
        /\ \A v \in DOMAIN rows : rows'[v] = rows[v]
        /\ rows'[w].completion = NoCompletion
    BY <1>2 DEF SubmitWork
  <2>3. debtNow' = [v \in DOMAIN debtNow \cup {w} |->
                       IF v = w THEN NoCompletion.decision ELSE debtNow[v]]
    BY <1>2, <2>2 DEF debtNow
  <2> QED BY <2>1, <2>3 DEF Debt!Owe, debtNow
<1> QED BY <1>1, <1>2

LEMMA ScheduleOwesTheSame ==
    ASSUME IInv, NEW policy, NEW now, Schedule(policy, now)
    PROVE  UNCHANGED debtNow
<1>1. DOMAIN rows' = DOMAIN rows
  BY DEF Schedule
<1>2. ASSUME NEW w \in DOMAIN rows PROVE rows'[w].completion = rows[w].completion
  <2>1. rows[w] = [status |-> rows[w].status, completion |-> rows[w].completion]
    BY DEF IInv, Tables, TablesOK, RowOK
  <2>2. \/ rows'[w] = rows[w]
        \/ \E s : rows'[w] = [rows[w] EXCEPT !.status = s]
    BY DEF Schedule
  <2> QED BY <2>1, <2>2
<1> QED BY <1>1, <1>2 DEF debtNow

LEMMA CompleteResolves ==
    ASSUME IInv, NEW c \in Clients, Complete(c)
    PROVE  \E w \in Works, verdict \in Decisions : Debt!Resolve(w, verdict)
<1>1. /\ clients[c].work \in DOMAIN rows
      /\ clients[c].work \in Works
      /\ clients[c].decision \in Decisions
  BY DEF IInv, RequestsOK, RequestOK, Complete, Doing, Idle, Tables, TablesOK
<1>2. PICK w \in Works, verdict \in Decisions :
        w = clients[c].work /\ verdict = clients[c].decision
  BY <1>1
<1> DEFINE completion == Completion(w, Generation, verdict, clients[c].now)
<1>3. /\ w \in DOMAIN rows
      /\ rows[w].completion = NoCompletion
      /\ rows' = [rows EXCEPT ![w] = [status |-> "COMPLETED", completion |-> completion]]
  BY <1>1, <1>2 DEF Complete, Admissible
<1>4. completion.decision = verdict
  BY DEF Completion
<1> HIDE DEF completion
<1>5. /\ DOMAIN rows' = DOMAIN rows
      /\ rows'[w].completion.decision = verdict
      /\ \A v \in DOMAIN rows : v # w => rows'[v] = rows[v]
  BY <1>3, <1>4
<1>6. debtNow' = [debtNow EXCEPT ![w] = verdict]
  BY <1>3, <1>5 DEF debtNow
<1>7. Debt!Resolve(w, verdict)
  BY <1>3, <1>6 DEF Debt!Resolve, debtNow
<1> QED BY <1>7

(* Every behaviour of the plane is a behaviour of the debt register: what    *)
(* is owed changes only by submission and by one completion per work.       *)
THEOREM RefinesDebt == Spec => ImplementsDebt
<1>1. Init => Debt!DebtInit
  BY DEF Init, Debt!DebtInit
<1>2. ASSUME IInv, [Next]_vars PROVE [Debt!DebtNext]_debtNow
  <2>1. ASSUME NEW w \in Works, SubmitWork(w) PROVE [Debt!DebtNext]_debtNow
    BY <1>2, <2>1, SubmitOwes DEF Debt!DebtNext
  <2>2. ASSUME NEW policy, NEW now, Schedule(policy, now) PROVE UNCHANGED debtNow
    BY <1>2, <2>2, ScheduleOwesTheSame
  <2>3. ASSUME NEW c \in Clients, Complete(c) PROVE [Debt!DebtNext]_debtNow
    BY <1>2, <2>3, CompleteResolves DEF Debt!DebtNext
  <2>4. CASE rows' = rows
    BY <2>4 DEF debtNow
  <2> QED BY <1>2, <2>1, <2>2, <2>3, <2>4
          DEF Next, vars, AuthorizeCompletion, ReadSchedule, Preview, BeginFinalization,
              EvaluateGeneration, Finalize, Abort
<1> QED BY <1>1, <1>2, Invariance, PTL DEF Spec, ImplementsDebt, Debt!DebtSpec, debtNow

-----------------------------------------------------------------------------
(* The order in which the scheduler ranks work, for all work, capacity      *)
(* policies and times, and the window it makes of it.                       *)

(* Waiting time is counted in whole quanta.                                 *)
LEMMA DivisionBounds ==
    ASSUME NEW a \in Nat, NEW q \in Nat \ {0}
    PROVE  /\ a \div q \in Nat
           /\ q * (a \div q) <= a
           /\ a < q * (a \div q) + q
OBVIOUS

(* Being ahead by d quanta is worth d points of effective priority.          *)
LEMMA QuantaCount ==
    ASSUME NEW a \in Nat, NEW b \in Nat, NEW d \in Int, NEW q \in Nat \ {0},
           a >= b + d * q
    PROVE  a \div q >= b \div q + d
<1>1. PICK x \in Nat : x = a \div q /\ a < q * x + q
  BY DivisionBounds
<1>2. PICK y \in Nat : y = b \div q /\ q * y <= b
  BY DivisionBounds
<1>3. SUFFICES ASSUME x + 1 <= y + d PROVE FALSE
  BY <1>1, <1>2
<1>4. PICK k \in Nat : k = y + d - (x + 1)
  BY <1>3
<1>5. q * y + d * q = q * x + q + q * k
  <2>1. y + d = x + 1 + k
    BY <1>4
  <2>2. q * (y + d) = q * (x + 1 + k)
    BY <2>1
  <2>3. q * (y + d) = q * y + d * q /\ q * (x + 1 + k) = q * x + q + q * k
    OBVIOUS
  <2> QED BY <2>2, <2>3
<1>6. q * k \in Nat
  OBVIOUS
<1>7. /\ q * x \in Int /\ q * y \in Int /\ d * q \in Int
  OBVIOUS
<1> QED BY <1>1, <1>2, <1>5, <1>6, <1>7

LEMMA PriorityType ==
    ASSUME NEW w, IsWork(w), NEW p, IsCapacityPolicy(p), NEW at \in Nat
    PROVE  EffectivePriority(w, p, at) \in Nat
<1>1. Waited(w, at) \in Nat
  BY DEF Waited, IsWork
<1>2. Waited(w, at) \div p.quantum \in Nat
  BY <1>1, DivisionBounds DEF IsCapacityPolicy
<1> QED BY <1>2 DEF EffectivePriority, IsWork

(* The ranking of _ranked is a strict order, and total on work with          *)
(* different hashes: a queue has exactly one ranking, so the window is a    *)
(* function of queue, policy and clock, whichever process computes it.      *)
THEOREM RankingIsTotal ==
    ASSUME NEW p, IsCapacityPolicy(p), NEW at \in Nat,
           NEW u, IsWork(u), NEW v, IsWork(v), NEW w, IsWork(w)
    PROVE  /\ ~ RankedBefore(v, v, p, at)
           /\ RankedBefore(u, v, p, at) /\ RankedBefore(v, w, p, at)
                => RankedBefore(u, w, p, at)
           /\ v.hash # w.hash => RankedBefore(v, w, p, at) \/ RankedBefore(w, v, p, at)
<1>1. /\ EffectivePriority(u, p, at) \in Nat
      /\ EffectivePriority(v, p, at) \in Nat
      /\ EffectivePriority(w, p, at) \in Nat
  BY PriorityType
<1> QED BY <1>1 DEF RankedBefore, IsWork

(* I-111, the aging of _effective_priority: work that is submitted (its      *)
(* advantage in priority) * quantum or more later never ranks first, at any *)
(* time at which both are in the queue, whatever the clock and the policy.  *)
THEOREM WaitingBoundsOvertaking ==
    ASSUME NEW p, IsCapacityPolicy(p), NEW at \in Nat,
           NEW v, IsWork(v), NEW w, IsWork(w),
           w.submittedAt < v.submittedAt,
           w.submittedAt + (v.priority - w.priority) * p.quantum <= v.submittedAt,
           v.submittedAt <= at
    PROVE  RankedBefore(w, v, p, at)
<1> DEFINE d == v.priority - w.priority
           q == p.quantum
           a == at - w.submittedAt
           b == at - v.submittedAt
<1>1. d \in Int /\ q \in Nat \ {0} /\ a \in Nat /\ b \in Nat
  BY DEF IsWork, IsCapacityPolicy
<1>2. d * q \in Int
  BY <1>1
<1>3. a >= b + d * q
  BY <1>2 DEF IsWork
<1>4. a \div q >= b \div q + d
  BY <1>1, <1>3, QuantaCount
<1>5. /\ EffectivePriority(w, p, at) = w.priority + a \div q
      /\ EffectivePriority(v, p, at) = v.priority + b \div q
  BY DEF EffectivePriority, Waited, IsWork
<1>6. a \div q \in Nat /\ b \div q \in Nat
  BY <1>1, DivisionBounds
<1>7. EffectivePriority(w, p, at) >= EffectivePriority(v, p, at)
  <2> HIDE DEF a, b, q
  <2> QED BY <1>4, <1>5, <1>6 DEF IsWork
<1>8. EffectivePriority(w, p, at) \in Nat /\ EffectivePriority(v, p, at) \in Nat
  BY PriorityType
<1> QED BY <1>7, <1>8 DEF RankedBefore, IsWork

-----------------------------------------------------------------------------
(* The greedy window.  A set of natural numbers that is not empty has a     *)
(* least element, one of subsets of a finite set a minimal one.             *)
LEMMA NatMin ==
    ASSUME NEW T \in SUBSET Nat, T # {}
    PROVE  \E m \in T : \A k \in T : m <= k
<1> DEFINE R == OpToRel(<, Nat)
<1>1. IsWellFoundedOn(R, Nat)
  BY NatLessThanWellFounded
<1>2. PICK m \in T : \A k \in T : ~(<<k, m>> \in R)
  <2> HIDE DEF R
  <2> QED BY <1>1, WFMin, Zenon
<1>3. \A k \in T : ~(k < m)
  BY <1>2 DEF OpToRel
<1> QED BY <1>3

LEMMA SetMin ==
    ASSUME NEW S, IsFiniteSet(S), NEW T \in SUBSET SUBSET S, T # {}
    PROVE  \E m \in T : \A k \in T : k \subseteq m => k = m
<1> DEFINE R == StrictSubsetOrdering(S)
<1>1. IsWellFoundedOn(R, SUBSET S)
  BY FS_StrictSubsetOrderingWellFounded, FS_FiniteSubsetsOfFinite
<1>2. PICK m \in T : \A k \in T : ~(<<k, m>> \in R)
  <2> HIDE DEF R
  <2> QED BY <1>1, WFMin, Zenon
<1>3. ASSUME NEW k \in T, k \subseteq m PROVE k = m
  BY <1>2, <1>3 DEF StrictSubsetOrdering
<1> QED BY <1>3

(* What a set of work costs, by taking one piece out after the other.       *)
Taken(s) == CHOOSE w \in s : TRUE

Summed(F, s) == IF s = {} THEN 0 ELSE Taken(s).cost + F[s \ {Taken(s)}]

Sums(S) == CHOOSE F : F = [s \in SUBSET S |-> Summed(F, s)]

LEMMA SpentIs == \A S : Spent(S) = Sums(S)[S]
BY DEF Spent, MapThenSumSet, MapThenFoldSet, Sums, Summed, Taken

LEMMA SumsAt ==
    ASSUME NEW S, IsFiniteSet(S)
    PROVE  \A s \in SUBSET S : Sums(S)[s] = Summed(Sums(S), s)
<1> DEFINE Small(n) == {s \in SUBSET S : Cardinality(s) <= n}
           Good(n) == \E F : F = [s \in Small(n) |-> Summed(F, s)]
           T == {n \in Nat : ~Good(n)}
<1>1. \A s \in SUBSET S : /\ IsFiniteSet(s) /\ Cardinality(s) \in Nat
                          /\ Cardinality(s) = 0 <=> s = {}
                          /\ Cardinality(s) <= Cardinality(S)
  BY FS_Subset, FS_CardinalityType, FS_EmptySet
<1>2. ASSUME NEW s \in SUBSET S, s # {}
      PROVE  s \ {Taken(s)} \in SUBSET S /\ Cardinality(s \ {Taken(s)}) = Cardinality(s) - 1
  BY <1>1, <1>2, FS_RemoveElement DEF Taken
<1>3. T = {}
  <2> SUFFICES ASSUME T # {} PROVE FALSE
    OBVIOUS
  <2>1. PICK m \in T : \A k \in T : m <= k
    <3>1. T \in SUBSET Nat
      OBVIOUS
    <3> HIDE DEF T
    <3> QED BY <3>1, NatMin
  <2>2. m \in Nat /\ ~Good(m)
    BY <2>1
  <2>3. m # 0
    <3> SUFFICES ASSUME m = 0 PROVE FALSE
      OBVIOUS
    <3>1. Small(0) = {{}}
      BY <1>1
    <3>2. PICK F : F = [s \in {{}} |-> 0]
      OBVIOUS
    <3>3. F = [s \in {{}} |-> Summed(F, s)]
      BY <3>2 DEF Summed
    <3> QED BY <2>2, <3>1, <3>3
  <2>4. Good(m - 1)
    <3>1. m - 1 \in Nat /\ m - 1 \notin T
      <4> HIDE DEF T
      <4> QED BY <2>1, <2>2, <2>3
    <3> HIDE DEF Good
    <3> QED BY <3>1
  <2>5. PICK F : F = [s \in Small(m - 1) |-> Summed(F, s)]
    BY <2>4
  <2> DEFINE G == [s \in Small(m) |-> IF Cardinality(s) = m THEN Summed(F, s) ELSE F[s]]
  <2>6. ASSUME NEW s \in Small(m) PROVE G[s] = Summed(G, s)
    <3>1. s \in SUBSET S /\ Cardinality(s) \in Nat /\ Cardinality(s) <= m
      BY <1>1
    <3>2. s # {} => G[s \ {Taken(s)}] = F[s \ {Taken(s)}]
      <4> SUFFICES ASSUME s # {} PROVE G[s \ {Taken(s)}] = F[s \ {Taken(s)}]
        OBVIOUS
      <4>1. PICK u : u = s \ {Taken(s)}
        OBVIOUS
      <4>2. u \in SUBSET S /\ Cardinality(u) = Cardinality(s) - 1
        BY <1>2, <3>1, <4>1
      <4>3. u \in Small(m) /\ Cardinality(u) # m
        BY <2>2, <3>1, <4>2
      <4> QED BY <4>1, <4>3
    <3>3. Summed(G, s) = Summed(F, s)
      <4> HIDE DEF G
      <4> QED BY <3>2 DEF Summed
    <3>4. G[s] = Summed(F, s)
      <4>1. CASE Cardinality(s) = m
        BY <4>1
      <4>2. CASE Cardinality(s) # m
        <5>1. s \in Small(m - 1) /\ G[s] = F[s]
          BY <2>2, <3>1, <4>2
        <5> HIDE DEF Small, G
        <5> QED BY <2>5, <5>1
      <4> QED BY <4>1, <4>2
    <3> QED BY <3>3, <3>4
  <2>7. G = [s \in Small(m) |-> Summed(G, s)]
    <3>1. G = [s \in Small(m) |-> G[s]]
      OBVIOUS
    <3> HIDE DEF G, Small
    <3> QED BY <2>6, <3>1
  <2>8. Good(m)
    <3> HIDE DEF G, Small
    <3> QED BY <2>7
  <2> QED BY <2>2, <2>8
<1>4. Good(Cardinality(S))
  <2>1. Cardinality(S) \in Nat
    BY FS_CardinalityType
  <2> HIDE DEF Good
  <2> QED BY <1>3, <2>1
<1>5. Small(Cardinality(S)) = SUBSET S
  BY <1>1
<1>6. PICK F : F = Sums(S)
  OBVIOUS
<1>7. F = [s \in SUBSET S |-> Summed(F, s)]
  BY <1>4, <1>5, <1>6 DEF Sums
<1>8. \A s \in SUBSET S : F[s] = Summed(F, s)
  BY <1>7
<1> QED BY <1>6, <1>8

(* What the sums over the subsets are does not depend on the set.           *)
LEMMA SumsAgree ==
    ASSUME NEW S, IsFiniteSet(S), NEW R \in SUBSET S
    PROVE  Sums(S)[R] = Spent(R)
<1> DEFINE T == {s \in SUBSET R : Sums(S)[s] # Sums(R)[s]}
<1>1. IsFiniteSet(R)
  BY FS_Subset
<1>2. /\ \A s \in SUBSET S : Sums(S)[s] = Summed(Sums(S), s)
      /\ \A s \in SUBSET R : Sums(R)[s] = Summed(Sums(R), s)
  BY <1>1, SumsAt
<1>3. T = {}
  <2> SUFFICES ASSUME T # {} PROVE FALSE
    OBVIOUS
  <2>1. PICK m \in T : \A k \in T : k \subseteq m => k = m
    <3>1. T \in SUBSET SUBSET R
      OBVIOUS
    <3> HIDE DEF T
    <3> QED BY <1>1, <3>1, SetMin
  <2>2. m \in SUBSET R /\ m \in SUBSET S /\ Sums(S)[m] # Sums(R)[m]
    BY <2>1
  <2>3. PICK u : u = m \ {Taken(m)}
    OBVIOUS
  <2>4. m # {} => Sums(S)[u] = Sums(R)[u]
    <3> SUFFICES ASSUME m # {} PROVE Sums(S)[u] = Sums(R)[u]
      OBVIOUS
    <3>1. u \in SUBSET R /\ u \subseteq m /\ u # m
      BY <2>2, <2>3 DEF Taken
    <3>2. u \notin T
      <4> HIDE DEF T
      <4> QED BY <2>1, <3>1
    <3> QED BY <3>1, <3>2
  <2>5. Summed(Sums(S), m) = Summed(Sums(R), m)
    BY <2>3, <2>4 DEF Summed
  <2> QED BY <1>2, <2>2, <2>5
<1> QED BY <1>3, SpentIs

LEMMA SpentStep ==
    ASSUME NEW S, IsFiniteSet(S)
    PROVE  Spent(S) =
             IF S = {} THEN 0 ELSE Taken(S).cost + Spent(S \ {Taken(S)})
<1>1. Spent(S) = Summed(Sums(S), S)
  BY SpentIs, SumsAt
<1>2. PICK u \in SUBSET S : u = S \ {Taken(S)}
  OBVIOUS
<1>3. Sums(S)[u] = Spent(u)
  BY SumsAgree
<1> QED BY <1>1, <1>2, <1>3 DEF Summed

(* Any element may be taken out first.                                      *)
LEMMA SpentTakes ==
    ASSUME NEW S, IsFiniteSet(S), \A x \in S : x.cost \in Nat
    PROVE  /\ Spent(S) \in Nat
           /\ \A x \in S : Spent(S) = x.cost + Spent(S \ {x})
<1> DEFINE Sum(s) == Spent(s)
           Good(s) == Sum(s) \in Nat /\ \A x \in s : Sum(s) = x.cost + Sum(s \ {x})
           T == {s \in SUBSET S : ~Good(s)}
<1>1. \A s \in SUBSET S : IsFiniteSet(s)
  BY FS_Subset
<1>2. \A s \in SUBSET S : Sum(s) = IF s = {} THEN 0 ELSE Taken(s).cost + Sum(s \ {Taken(s)})
  BY <1>1, SpentStep
<1>3. T = {}
  <2> SUFFICES ASSUME T # {} PROVE FALSE
    OBVIOUS
  <2>1. PICK m \in T : \A k \in T : k \subseteq m => k = m
    <3>1. T \in SUBSET SUBSET S
      OBVIOUS
    <3> HIDE DEF T
    <3> QED BY <3>1, SetMin
  <2>2. m \in SUBSET S /\ ~Good(m)
    BY <2>1
  <2> HIDE DEF Sum
  <2>3. m # {}
    <3> SUFFICES ASSUME m = {} PROVE FALSE
      OBVIOUS
    <3>1. Sum(m) = 0
      BY <1>2, <2>2
    <3> QED BY <2>2, <3>1
  <2>4. PICK c \in m : c = Taken(m)
    BY <2>3 DEF Taken
  <2>5. Sum(m) = c.cost + Sum(m \ {c})
    BY <1>2, <2>2, <2>3, <2>4
  <2>6. ASSUME NEW x \in m PROVE Good(m \ {x})
    <3>1. m \ {x} \in SUBSET S /\ m \ {x} \subseteq m /\ m \ {x} # m
      BY <2>2
    <3>2. m \ {x} \notin T
      <4> HIDE DEF T
      <4> QED BY <2>1, <3>1
    <3> QED BY <3>1, <3>2
  <2>7. Sum(m) \in Nat
    BY <2>2, <2>4, <2>5, <2>6
  <2>8. ASSUME NEW x \in m, x # c PROVE Sum(m) = x.cost + Sum(m \ {x})
    <3>1. PICK u : u = (m \ {c}) \ {x} /\ u = (m \ {x}) \ {c}
      OBVIOUS
    <3>2. Good(m \ {c}) /\ Good(m \ {x})
      BY <2>4, <2>6
    <3>3. x \in m \ {c} /\ c \in m \ {x}
      BY <2>8
    <3>4. Sum(m \ {c}) = x.cost + Sum(u)
      BY <3>1, <3>2, <3>3
    <3>5. Sum(m \ {x}) = c.cost + Sum(u)
      BY <3>1, <3>2, <3>3
    <3>6. Good(u)
      <4>1. u \in SUBSET S /\ u \subseteq m /\ u # m
        BY <2>2, <3>1
      <4>2. u \notin T
        <5> HIDE DEF T
        <5> QED BY <2>1, <4>1
      <4> QED BY <4>1, <4>2
    <3>7. x.cost \in Nat /\ c.cost \in Nat /\ Sum(u) \in Nat
      BY <2>2, <3>6
    <3> QED BY <2>5, <3>4, <3>5, <3>7
  <2>9. Good(m)
    BY <2>5, <2>7, <2>8
  <2> QED BY <2>2, <2>9
<1>4. Good(S)
  <2> HIDE DEF Good
  <2> QED BY <1>3
<1> QED BY <1>4

(* More work costs no less.                                                 *)
LEMMA SpentGrows ==
    ASSUME NEW S, IsFiniteSet(S), \A x \in S : x.cost \in Nat, NEW s \in SUBSET S
    PROVE  Spent(s) \in Nat /\ Spent(S) \in Nat /\ Spent(s) <= Spent(S)
<1> DEFINE T == {t \in SUBSET S : \E u \in SUBSET t : ~(Spent(u) <= Spent(t))}
<1>1. \A t \in SUBSET S :
         /\ IsFiniteSet(t) /\ Spent(t) \in Nat
         /\ \A x \in t : x.cost \in Nat /\ Spent(t) = x.cost + Spent(t \ {x})
  <2> SUFFICES ASSUME NEW t \in SUBSET S
               PROVE  /\ IsFiniteSet(t) /\ Spent(t) \in Nat
                      /\ \A x \in t : x.cost \in Nat /\ Spent(t) = x.cost + Spent(t \ {x})
    OBVIOUS
  <2>1. IsFiniteSet(t) /\ \A x \in t : x.cost \in Nat
    BY FS_Subset
  <2> QED BY <2>1, SpentTakes
<1>2. T = {}
  <2> SUFFICES ASSUME T # {} PROVE FALSE
    OBVIOUS
  <2>1. PICK t \in T : \A k \in T : k \subseteq t => k = t
    <3>1. T \in SUBSET SUBSET S
      OBVIOUS
    <3> HIDE DEF T
    <3> QED BY <3>1, SetMin
  <2>2. PICK u \in SUBSET t : ~(Spent(u) <= Spent(t))
    BY <2>1
  <2>3. t \in SUBSET S /\ Spent(u) \in Nat /\ Spent(t) \in Nat
    BY <1>1, <2>1, <2>2
  <2>4. PICK x \in t : x \notin u
    <3>1. u # t
      BY <2>2, <2>3
    <3> QED BY <3>1
  <2>5. PICK r : r = t \ {x}
    OBVIOUS
  <2>6. r \in SUBSET S /\ r \subseteq t /\ r # t /\ u \subseteq r
    BY <2>2, <2>3, <2>4, <2>5
  <2>7. r \notin T
    <3> HIDE DEF T
    <3> QED BY <2>1, <2>6
  <2>8. Spent(u) <= Spent(r) /\ Spent(r) \in Nat
    BY <1>1, <2>6, <2>7
  <2>9. Spent(t) = x.cost + Spent(r) /\ x.cost \in Nat
    BY <1>1, <2>3, <2>5
  <2> QED BY <2>2, <2>3, <2>8, <2>9
<1>3. Spent(s) <= Spent(S)
  BY <1>2
<1> QED BY <1>1, <1>3

-----------------------------------------------------------------------------
(* A queue, a policy and a time: work of different hashes.                  *)
Question(items, p, at) ==
    /\ IsFiniteSet(items) /\ \A w \in items : IsWork(w)
    /\ \A v, w \in items : v.hash = w.hash => v = w
    /\ IsCapacityPolicy(p) /\ at \in Nat

(* The ranks of a queue are the numbers from one to its length.             *)
LEMMA RanksCount ==
    ASSUME NEW items, NEW p, NEW at, Question(items, p, at)
    PROVE  /\ Cardinality(items) \in Nat
           /\ \A w \in items : Rank(items, w, p, at) \in 1 .. Cardinality(items)
           /\ \A v, w \in items :
                 /\ Rank(items, v, p, at) < Rank(items, w, p, at) => RankedBefore(v, w, p, at)
                 /\ Rank(items, v, p, at) = Rank(items, w, p, at) => v = w
           /\ \A k \in 1 .. Cardinality(items) : \E w \in items : Rank(items, w, p, at) = k
<1> DEFINE n == Cardinality(items)
           Before(v, w) == RankedBefore(v, w, p, at)
           Ahead(w) == {v \in items : Before(v, w)}
           R(w) == Rank(items, w, p, at)
<1>1. /\ \A w \in items : ~Before(w, w)
      /\ \A u, v, w \in items : Before(u, v) /\ Before(v, w) => Before(u, w)
      /\ \A v, w \in items : v # w => Before(v, w) \/ Before(w, v)
  <2>1. /\ \A w \in items : IsWork(w)
        /\ \A v, w \in items : v.hash = w.hash => v = w
        /\ IsCapacityPolicy(p) /\ at \in Nat
    BY DEF Question
  <2>2. \A u, v, w \in items :
            /\ ~ RankedBefore(v, v, p, at)
            /\ RankedBefore(u, v, p, at) /\ RankedBefore(v, w, p, at) => RankedBefore(u, w, p, at)
            /\ v.hash # w.hash => RankedBefore(v, w, p, at) \/ RankedBefore(w, v, p, at)
    BY <2>1, RankingIsTotal
  <2> QED BY <2>1, <2>2
<1> HIDE DEF Before
<1>2. n \in Nat /\ IsFiniteSet(items)
  BY FS_CardinalityType DEF Question
<1>3. \A w \in items : R(w) = 1 + Cardinality(Ahead(w))
  BY DEF Rank, Before
<1> HIDE DEF R
<1>4. ASSUME NEW w \in items
      PROVE  /\ IsFiniteSet(Ahead(w)) /\ Cardinality(Ahead(w)) \in Nat /\ Cardinality(Ahead(w)) < n
  <2>1. PICK rest : rest = items \ {w}
    OBVIOUS
  <2>2. IsFiniteSet(rest) /\ Cardinality(rest) = n - 1
    BY <1>2, <2>1, FS_RemoveElement
  <2>3. Ahead(w) \in SUBSET rest
    BY <1>1, <2>1
  <2>4. IsFiniteSet(Ahead(w)) /\ Cardinality(Ahead(w)) <= n - 1
    <3> HIDE DEF Ahead, n
    <3> QED BY <2>2, <2>3, FS_Subset
  <2>5. Cardinality(Ahead(w)) \in Nat
    BY <2>4, FS_CardinalityType
  <2> HIDE DEF Ahead, n
  <2> QED BY <1>2, <2>4, <2>5
<1>5. ASSUME NEW v \in items, NEW w \in items, Before(v, w)
      PROVE  R(v) < R(w)
  <2>1. PICK more : more = Ahead(v) \cup {v}
    OBVIOUS
  <2>2. v \notin Ahead(v) /\ more \in SUBSET Ahead(w)
    BY <1>1, <1>5, <2>1
  <2>3. Cardinality(more) = Cardinality(Ahead(v)) + 1
    <3> HIDE DEF Ahead
    <3> QED BY <1>4, <2>1, <2>2, FS_AddElement
  <2>4. Cardinality(more) <= Cardinality(Ahead(w))
    <3> HIDE DEF Ahead
    <3> QED BY <1>4, <2>2, FS_Subset
  <2>5. /\ Cardinality(Ahead(v)) \in Nat /\ Cardinality(Ahead(w)) \in Nat
        /\ R(v) = 1 + Cardinality(Ahead(v)) /\ R(w) = 1 + Cardinality(Ahead(w))
    BY <1>3, <1>4
  <2> HIDE DEF Ahead
  <2> QED BY <2>3, <2>4, <2>5
<1>6. \A w \in items : R(w) \in 1 .. n
  <2> SUFFICES ASSUME NEW w \in items PROVE R(w) \in 1 .. n
    OBVIOUS
  <2>1. /\ Cardinality(Ahead(w)) \in Nat /\ Cardinality(Ahead(w)) < n
        /\ R(w) = 1 + Cardinality(Ahead(w))
    BY <1>3, <1>4
  <2> HIDE DEF Ahead, n
  <2> QED BY <1>2, <2>1
<1>7. \A v, w \in items : (R(v) < R(w) => Before(v, w)) /\ (R(v) = R(w) => v = w)
  <2> SUFFICES ASSUME NEW v \in items, NEW w \in items
               PROVE  (R(v) < R(w) => Before(v, w)) /\ (R(v) = R(w) => v = w)
    OBVIOUS
  <2>1. R(v) \in Int /\ R(w) \in Int
    BY <1>2, <1>6
  <2>2. (Before(v, w) => R(v) < R(w)) /\ (Before(w, v) => R(w) < R(v))
    BY <1>5
  <2>3. v = w \/ Before(v, w) \/ Before(w, v)
    BY <1>1
  <2> QED BY <2>1, <2>2, <2>3
<1>8. \A k \in 1 .. n : \E w \in items : R(w) = k
  <2>1. PICK f : f = [w \in items |-> R(w)]
    OBVIOUS
  <2>2. f \in Injection(items, 1 .. n)
    BY <1>6, <1>7, <2>1 DEF Injection, IsInjective
  <2>3. IsFiniteSet(1 .. n) /\ Cardinality(1 .. n) = n
    <3> HIDE DEF n
    <3>1. 1 \in Int /\ n \in Int
      BY <1>2
    <3> QED BY <1>2, <3>1, FS_Interval
  <2>4. f \in Surjection(items, 1 .. n)
    BY <2>2, <2>3, FS_Injection
  <2> QED BY <2>1, <2>4 DEF Surjection
<1> QED BY <1>2, <1>6, <1>7, <1>8 DEF R, Before

-----------------------------------------------------------------------------
(* The scheduler's loop: what was admitted after k turns.                   *)
Ranked(items, p, at, k) == CHOOSE w \in items : Rank(items, w, p, at) = k

Turn(F, items, p, at, k) ==
    IF k = 0 THEN [admitted |-> {}, used |-> 0]
    ELSE AdmitNext(F[k - 1], Ranked(items, p, at, k), p)

Turns(items, p, at) ==
    CHOOSE F : F = [k \in 0 .. Cardinality(items) |-> Turn(F, items, p, at, k)]

LEMMA WindowIs ==
    ASSUME NEW items, NEW p, NEW at, Question(items, p, at)
    PROVE  Window(items, p, at) = Turns(items, p, at)[Cardinality(items)]
<1> DEFINE n == Cardinality(items)
           ranked == [k \in 1 .. n |-> Ranked(items, p, at, k)]
           Body(F, k) == IF k = 0 THEN [admitted |-> {}, used |-> 0]
                         ELSE AdmitNext(F[k - 1], ranked[k], p)
<1>1. n \in Nat
  BY RanksCount
<1>2. ASSUME NEW F PROVE [k \in 0 .. n |-> Body(F, k)] = [k \in 0 .. n |-> Turn(F, items, p, at, k)]
  <2>1. \A k \in 0 .. n : k # 0 => k \in 1 .. n
    BY <1>1
  <2>2. \A k \in 0 .. n : Body(F, k) = Turn(F, items, p, at, k)
    BY <2>1 DEF Turn
  <2> QED BY <2>2
<1>3. (CHOOSE F : F = [k \in 0 .. n |-> Body(F, k)])
      = (CHOOSE F : F = [k \in 0 .. n |-> Turn(F, items, p, at, k)])
  BY <1>2
<1> QED BY <1>3 DEF Window, Turns, Ranked

LEMMA TurnsAre ==
    ASSUME NEW items, NEW p, NEW at, Question(items, p, at)
    PROVE  \A k \in 0 .. Cardinality(items) :
               Turns(items, p, at)[k] = Turn(Turns(items, p, at), items, p, at, k)
<1> DEFINE Body(F, k) == Turn(F, items, p, at, k)
           Good(m) == \E F : F = [k \in 0 .. m |-> Body(F, k)]
           T == {m \in Nat : ~Good(m)}
<1>1. T = {}
  <2> SUFFICES ASSUME T # {} PROVE FALSE
    OBVIOUS
  <2>1. PICK m \in T : \A k \in T : m <= k
    <3>1. T \in SUBSET Nat
      OBVIOUS
    <3> HIDE DEF T
    <3> QED BY <3>1, NatMin
  <2>2. m \in Nat /\ ~Good(m)
    BY <2>1
  <2>3. m # 0
    <3>1. PICK F : F = [k \in 0 .. 0 |-> [admitted |-> {}, used |-> 0]]
      OBVIOUS
    <3>2. F = [k \in 0 .. 0 |-> Body(F, k)]
      BY <3>1 DEF Turn
    <3> HIDE DEF Body
    <3> QED BY <2>2, <3>2
  <2>4. Good(m - 1)
    <3>1. m - 1 \in Nat /\ m - 1 \notin T
      <4> HIDE DEF T
      <4> QED BY <2>1, <2>2, <2>3
    <3> HIDE DEF Good
    <3> QED BY <3>1
  <2>5. PICK F : F = [k \in 0 .. m - 1 |-> Body(F, k)]
    BY <2>4
  <2> DEFINE G == [k \in 0 .. m |-> IF k = m THEN Body(F, m) ELSE F[k]]
  <2>6. ASSUME NEW k \in 0 .. m PROVE G[k] = Body(G, k)
    <3>1. k # 0 => G[k - 1] = F[k - 1]
      <4> HIDE DEF Body
      <4> QED BY <2>2
    <3>2. Body(G, k) = Body(F, k)
      <4> HIDE DEF G
      <4> QED BY <3>1 DEF Turn
    <3>3. G[k] = Body(F, k)
      <4> HIDE DEF Body
      <4>1. CASE k = m
        BY <4>1
      <4>2. CASE k # m
        <5>1. k \in 0 .. m - 1 /\ G[k] = F[k]
          BY <2>2, <4>2
        <5> HIDE DEF G
        <5> QED BY <2>5, <5>1
      <4> QED BY <4>1, <4>2
    <3> QED BY <3>2, <3>3
  <2>7. G = [k \in 0 .. m |-> Body(G, k)]
    <3>1. G = [k \in 0 .. m |-> G[k]]
      BY DEF G
    <3> HIDE DEF G, Body
    <3> QED BY <2>6, <3>1
  <2>8. Good(m)
    <3> HIDE DEF G, Body
    <3> QED BY <2>7
  <2> QED BY <2>2, <2>8
<1>2. Good(Cardinality(items))
  <2>1. Cardinality(items) \in Nat
    BY RanksCount
  <2> HIDE DEF Good
  <2> QED BY <1>1, <2>1
<1>3. Turns(items, p, at) = [k \in 0 .. Cardinality(items) |-> Body(Turns(items, p, at), k)]
  <2> HIDE DEF Body
  <2>1. PICK F : F = [k \in 0 .. Cardinality(items) |-> Body(F, k)]
    BY <1>2
  <2>2. Turns(items, p, at) = CHOOSE X : X = [k \in 0 .. Cardinality(items) |-> Body(X, k)]
    BY DEF Turns, Body
  <2> QED BY <2>1, <2>2
<1> QED BY <1>3

(* After k turns the work of the first k ranks has been decided, and what   *)
(* was decided of it stays.                                                 *)
Decided(F, items, p, at, k) ==
    /\ F[k].admitted \in SUBSET {w \in items : Rank(items, w, p, at) <= k}
    /\ F[k].used = Spent(F[k].admitted)
    /\ Fitting(F[k].admitted, p)
    /\ \A j \in 0 .. k : F[j].admitted = {w \in F[k].admitted : Rank(items, w, p, at) <= j}

LEMMA TurnDecides ==
    ASSUME NEW items, NEW p, NEW at, Question(items, p, at), NEW F,
           \A k \in 0 .. Cardinality(items) : F[k] = Turn(F, items, p, at, k),
           NEW k \in 1 .. Cardinality(items), Decided(F, items, p, at, k - 1)
    PROVE  Decided(F, items, p, at, k)
<1> DEFINE R(w) == Rank(items, w, p, at)
           n == Cardinality(items)
<1>1. /\ n \in Nat /\ \A w \in items : R(w) \in 1 .. n
      /\ \A v, w \in items : R(v) = R(w) => v = w
  BY RanksCount
<1>2. PICK v \in items : R(v) = k /\ v = Ranked(items, p, at, k)
  BY RanksCount DEF Ranked
<1> HIDE DEF R
<1>3. PICK before : before = F[k - 1]
  OBVIOUS
<1>4. k \in Nat /\ k - 1 \in Nat /\ k # 0 /\ k \in 0 .. n
  BY <1>1
<1>5. F[k] = AdmitNext(before, v, p)
  BY <1>2, <1>3, <1>4 DEF Turn
<1>6. /\ before.admitted \in SUBSET {w \in items : R(w) <= k - 1}
      /\ before.used = Spent(before.admitted)
      /\ Fitting(before.admitted, p)
      /\ \A j \in 0 .. k - 1 : F[j].admitted = {w \in before.admitted : R(w) <= j}
  BY <1>3 DEF Decided, R
<1>7. \A w \in before.admitted : w \in items /\ R(w) \in Nat /\ R(w) <= k - 1 /\ R(w) <= k
  BY <1>1, <1>4, <1>6
<1>8. v \notin before.admitted
  BY <1>2, <1>4, <1>7
<1>9. /\ IsFiniteSet(items) /\ (\A w \in items : w.cost \in Nat)
      /\ p.capacity \in Nat /\ p.maxItems \in Nat
  BY DEF Question, IsWork, IsCapacityPolicy
<1>10. CASE F[k] = before
  <2>1. \A j \in 0 .. k : F[j].admitted = {w \in F[k].admitted : R(w) <= j}
    <3> SUFFICES ASSUME NEW j \in 0 .. k PROVE F[j].admitted = {w \in F[k].admitted : R(w) <= j}
      OBVIOUS
    <3>1. CASE j = k
      BY <1>7, <1>10, <3>1
    <3>2. CASE j # k
      <4>1. j \in 0 .. k - 1
        BY <1>4, <3>2
      <4> QED BY <1>6, <1>10, <4>1
    <3> QED BY <3>1, <3>2
  <2>2. F[k].admitted \in SUBSET {w \in items : R(w) <= k}
    BY <1>7, <1>10
  <2> QED BY <1>6, <1>10, <2>1, <2>2 DEF Decided, R
<1>11. CASE /\ v.cost <= p.capacity
            /\ Cardinality(before.admitted) < p.maxItems
            /\ before.used + v.cost <= p.capacity
            /\ F[k] = [admitted |-> before.admitted \cup {v}, used |-> before.used + v.cost]
  <2>1. PICK A : A = before.admitted
    OBVIOUS
  <2>2. PICK B : B = A \cup {v}
    OBVIOUS
  <2>3. F[k].admitted = B /\ F[k].used = Spent(A) + v.cost /\ B \ {v} = A
    BY <1>6, <1>8, <1>11, <2>1, <2>2
  <2>4. A \in SUBSET items /\ B \in SUBSET items /\ v \in B
    BY <1>7, <2>1, <2>2
  <2>5. /\ IsFiniteSet(A) /\ IsFiniteSet(B) /\ \A w \in B : w.cost \in Nat
    BY <1>9, <2>4, FS_Subset
  <2>6. Spent(B) = v.cost + Spent(A) /\ Spent(A) \in Nat /\ v.cost \in Nat
    <3>1. Spent(B) = v.cost + Spent(B \ {v})
      BY <2>4, <2>5, SpentTakes
    <3>2. Spent(A) \in Nat
      BY <2>2, <2>5, SpentTakes
    <3> QED BY <1>9, <2>3, <3>1, <3>2
  <2>7. Cardinality(B) = Cardinality(A) + 1 /\ Cardinality(A) \in Nat
    BY <1>8, <2>1, <2>2, <2>5, FS_AddElement, FS_CardinalityType
  <2>8. Fitting(B, p)
    <3>1. Spent(B) <= p.capacity
      BY <1>6, <1>9, <1>11, <2>1, <2>6
    <3>2. Cardinality(B) <= p.maxItems
      BY <1>9, <1>11, <2>1, <2>7
    <3> QED BY <3>1, <3>2 DEF Fitting
  <2>9. F[k].used = Spent(F[k].admitted)
    BY <2>3, <2>6
  <2>10. B \in SUBSET {w \in items : R(w) <= k}
    BY <1>2, <1>4, <1>7, <2>1, <2>2
  <2>11. \A j \in 0 .. k : F[j].admitted = {w \in B : R(w) <= j}
    <3> SUFFICES ASSUME NEW j \in 0 .. k PROVE F[j].admitted = {w \in B : R(w) <= j}
      OBVIOUS
    <3>1. CASE j = k
      BY <2>3, <2>10, <3>1
    <3>2. CASE j # k
      <4>1. j \in 0 .. k - 1 /\ ~(k <= j)
        BY <1>4, <3>2
      <4>2. F[j].admitted = {w \in A : R(w) <= j}
        BY <1>6, <2>1, <4>1
      <4> QED BY <1>2, <2>2, <4>1, <4>2
    <3> QED BY <3>1, <3>2
  <2> QED BY <2>3, <2>8, <2>9, <2>10, <2>11 DEF Decided, R
<1> QED BY <1>5, <1>10, <1>11 DEF AdmitNext

LEMMA AllDecided ==
    ASSUME NEW items, NEW p, NEW at, Question(items, p, at), NEW F,
           \A k \in 0 .. Cardinality(items) : F[k] = Turn(F, items, p, at, k)
    PROVE  \A k \in 0 .. Cardinality(items) : Decided(F, items, p, at, k)
<1> DEFINE n == Cardinality(items)
           T == {k \in 0 .. n : ~Decided(F, items, p, at, k)}
<1>1. n \in Nat /\ \A w \in items : Rank(items, w, p, at) \in 1 .. n
  BY RanksCount
<1> SUFFICES ASSUME T # {} PROVE FALSE
  OBVIOUS
<1>2. PICK k \in T : \A j \in T : k <= j
  <2>1. T \in SUBSET Nat
    BY <1>1
  <2> HIDE DEF T
  <2> QED BY <2>1, NatMin
<1>3. k \in 0 .. n /\ ~Decided(F, items, p, at, k)
  BY <1>2
<1>4. CASE k = 0
  <2>1. F[0] = [admitted |-> {}, used |-> 0]
    BY <1>3, <1>4 DEF Turn
  <2>2. Spent({}) = 0 /\ Cardinality({}) = 0 /\ p.capacity \in Nat /\ p.maxItems \in Nat
    BY SpentStep, FS_EmptySet DEF Question, IsCapacityPolicy
  <2>3. Fitting({}, p)
    BY <2>2 DEF Fitting
  <2>4. \A j \in 0 .. 0 : j = 0
    OBVIOUS
  <2>5. F[0].admitted = {} /\ F[0].used = 0
    BY <2>1
  <2> QED BY <1>3, <1>4, <2>2, <2>3, <2>4, <2>5 DEF Decided
<1>5. CASE k # 0
  <2>1. k \in 1 .. n /\ k - 1 \in 0 .. n /\ ~(k <= k - 1)
    BY <1>1, <1>3, <1>5
  <2>2. k - 1 \notin T
    <3> HIDE DEF T
    <3> QED BY <1>2, <2>1
  <2>3. Decided(F, items, p, at, k - 1)
    BY <2>1, <2>2
  <2> HIDE DEF n
  <2>4. Decided(F, items, p, at, k)
    BY <2>1, <2>3, TurnDecides DEF n
  <2> QED BY <1>3, <2>4
<1> QED BY <1>4, <1>5

(* v1.6, the loop of schedule_verification: the window fits the capacity     *)
(* and the limit of items, and no other choice that fits is preferable, for *)
(* any queue of work with different hashes, any policy and any time.  What  *)
(* is skipped did not fit behind what was ranked before it, and shuts out   *)
(* nothing that fits.                                                       *)
THEOREM WindowIsGreedy ==
    ASSUME NEW items, IsFiniteSet(items), \A w \in items : IsWork(w),
           \A v, w \in items : v.hash = w.hash => v = w,
           NEW p, IsCapacityPolicy(p), NEW at \in Nat
    PROVE  IsGreedy(items, p, at)
<1> DEFINE R(w) == Rank(items, w, p, at)
           n == Cardinality(items)
           F == Turns(items, p, at)
           A == F[n].admitted
<1>1. Question(items, p, at)
  BY DEF Question
<1>2. /\ n \in Nat /\ \A w \in items : R(w) \in 1 .. n
      /\ \A v, w \in items : (R(v) < R(w) => RankedBefore(v, w, p, at)) /\ (R(v) = R(w) => v = w)
  BY <1>1, RanksCount
<1>3. \A k \in 0 .. n : F[k] = Turn(F, items, p, at, k)
  BY <1>1, TurnsAre
<1>4. ScheduleVerification(items, p, at).admitted = A
  BY <1>1, WindowIs DEF ScheduleVerification
<1> HIDE DEF R, F
<1>5. \A k \in 0 .. n : Decided(F, items, p, at, k)
  BY <1>1, <1>3, AllDecided
<1>6. /\ A \in SUBSET items /\ Fitting(A, p)
      /\ \A j \in 0 .. n : F[j].admitted = {w \in A : R(w) <= j}
  <2>1. n \in 0 .. n
    BY <1>2
  <2>2. Decided(F, items, p, at, n)
    BY <1>5, <2>1
  <2> QED BY <2>2 DEF Decided, R
<1>7. ASSUME NEW other \in SUBSET items, other # A, Fitting(other, p)
      PROVE  \E w \in A \ other : \A v \in other \ A : RankedBefore(w, v, p, at)
  <2> DEFINE T == {R(w) : w \in (A \ other) \cup (other \ A)}
  <2>1. T # {} /\ T \in SUBSET Nat
    <3>1. (A \ other) \cup (other \ A) # {}
      BY <1>7
    <3>2. \A w \in (A \ other) \cup (other \ A) : R(w) \in Nat
      BY <1>2, <1>6
    <3> QED BY <3>1, <3>2
  <2>2. PICK k \in T : \A j \in T : k <= j
    <3> HIDE DEF T
    <3> QED BY <2>1, NatMin
  <2>3. PICK v \in (A \ other) \cup (other \ A) : R(v) = k
    BY <2>2
  <2>4. \A w \in (A \ other) \cup (other \ A) : k <= R(w)
    BY <2>2
  <2>5. v \in items /\ k \in 1 .. n
    BY <1>2, <1>6, <2>3
  <2>6. CASE v \in A \ other
    <3>1. ASSUME NEW w \in other \ A PROVE RankedBefore(v, w, p, at)
      <4>1. w \in items /\ w # v /\ R(v) <= R(w) /\ R(v) \in Int /\ R(w) \in Int
        BY <1>2, <2>3, <2>4, <2>5, <2>6, <3>1
      <4> QED BY <1>2, <2>5, <4>1
    <3> QED BY <2>6, <3>1
  <2>7. CASE v \in other \ A
    <3>1. PICK P : P = {w \in A : R(w) <= k - 1}
      OBVIOUS
    <3>2. k \in Nat /\ k - 1 \in 0 .. n /\ k \in 0 .. n /\ k # 0
      BY <1>2, <2>5
    <3>3. \A w \in P : w \in other /\ w # v
      <4> SUFFICES ASSUME NEW w \in P PROVE w \in other /\ w # v
        OBVIOUS
      <4>1. w \in A /\ R(w) \in Nat /\ R(w) <= k - 1
        BY <1>2, <1>6, <3>1
      <4>2. ~(k <= R(w))
        BY <3>2, <4>1
      <4> QED BY <2>4, <2>7, <4>1, <4>2
    <3>4. PICK Q : Q = P \cup {v}
      OBVIOUS
    <3>5. Q \in SUBSET other /\ v \in Q /\ Q \ {v} = P
      BY <2>7, <3>3, <3>4
    <3>6. /\ IsFiniteSet(other) /\ IsFiniteSet(Q) /\ IsFiniteSet(P)
          /\ \A w \in other : w.cost \in Nat
      <4>1. Q \in SUBSET items /\ P \in SUBSET items
        BY <3>4, <3>5
      <4> QED BY <4>1, FS_Subset DEF IsWork
    <3>7. /\ Spent(P) \in Nat /\ v.cost \in Nat /\ Spent(Q) = v.cost + Spent(P)
          /\ Spent(Q) \in Nat /\ Spent(other) \in Nat /\ Spent(Q) <= Spent(other)
      <4>1. \A w \in Q : w.cost \in Nat
        BY <3>5, <3>6
      <4>2. Spent(Q) = v.cost + Spent(Q \ {v})
        BY <3>5, <3>6, <4>1, SpentTakes
      <4>3. Spent(P) \in Nat
        BY <3>4, <3>6, <4>1, SpentTakes
      <4>4. Spent(Q) \in Nat /\ Spent(other) \in Nat /\ Spent(Q) <= Spent(other)
        BY <3>5, <3>6, SpentGrows
      <4> QED BY <3>5, <4>1, <4>2, <4>3, <4>4
    <3>8. /\ Cardinality(P) \in Nat /\ Cardinality(other) \in Nat
          /\ Cardinality(P) + 1 <= Cardinality(other)
      <4>1. Cardinality(Q) = Cardinality(P) + 1
        BY <3>3, <3>4, <3>6, FS_AddElement
      <4>2. Cardinality(Q) <= Cardinality(other)
        BY <3>5, <3>6, FS_Subset
      <4> QED BY <3>6, <4>1, <4>2, FS_CardinalityType
    <3>9. PICK before : before = F[k - 1]
      OBVIOUS
    <3>10. before.admitted = P /\ before.used = Spent(P)
      <4>1. Decided(F, items, p, at, k - 1)
        BY <1>5, <3>2
      <4>2. before.used = Spent(before.admitted)
        BY <3>9, <4>1 DEF Decided
      <4>3. before.admitted = P
        BY <1>6, <3>1, <3>2, <3>9
      <4> QED BY <4>2, <4>3
    <3>11. p.capacity \in Nat /\ p.maxItems \in Nat
      BY DEF IsCapacityPolicy
    <3>12. /\ v.cost <= p.capacity
           /\ Cardinality(P) < p.maxItems
           /\ Spent(P) + v.cost <= p.capacity
      BY <1>7, <3>7, <3>8, <3>11 DEF Fitting
    <3>13. Ranked(items, p, at, k) = v
      <4>1. \A w \in items : R(w) = k <=> w = v
        BY <1>2, <2>3, <2>5
      <4> QED BY <2>5, <4>1 DEF Ranked, R
    <3>14. F[k] = AdmitNext(before, v, p)
      BY <1>3, <3>2, <3>9, <3>13 DEF Turn
    <3>15. v \in F[k].admitted
      BY <3>10, <3>12, <3>14 DEF AdmitNext
    <3>16. v \in A
      BY <1>6, <3>2, <3>15
    <3> QED BY <2>7, <3>16
  <2> QED BY <2>3, <2>6, <2>7
<1> QED BY <1>4, <1>6, <1>7 DEF IsGreedy

IsCall == call \in Calls

LEMMA CallsStayCalls == CallsSpec => []IsCall
<1>1. CallsInit => IsCall
  BY DEF CallsInit, IsCall
<1>2. IsCall /\ [CallsNext]_call => IsCall'
  BY DEF IsCall, Calls, CallsNext, CallAgain
<1> QED BY <1>1, <1>2, PTL DEF CallsSpec

(* v1.6: whatever the scheduler is asked, its window is the greedy one.      *)
THEOREM CallsAreGreedy == CallsSpec => []AdmissionIsGreedy
<1>1. IsCall => AdmissionIsGreedy
  BY CallsAssumption, WindowIsGreedy DEF IsCall, Calls, AdmissionIsGreedy
<1> QED BY <1>1, CallsStayCalls, PTL

(* I-111: whatever the scheduler is asked, and whenever, nothing overtakes   *)
(* work that has waited long enough for the difference in priority.         *)
THEOREM CallsHonourWaiting == CallsSpec => []NoLateOvertaking
<1>1. IsCall => NoLateOvertaking
  <2> SUFFICES ASSUME IsCall, NEW v \in call.items, NEW w \in call.items,
                      w.submittedAt < v.submittedAt,
                      w.submittedAt + (v.priority - w.priority) * call.policy.quantum
                        <= v.submittedAt,
                      v.submittedAt <= call.now
               PROVE  RankedBefore(w, v, call.policy, call.now)
    BY DEF NoLateOvertaking
  <2>1. /\ IsWork(v) /\ IsWork(w) /\ IsCapacityPolicy(call.policy) /\ call.now \in Nat
    BY CallsAssumption DEF IsCall, Calls
  <2> QED BY <2>1, WaitingBoundsOvertaking
<1> QED BY <1>1, CallsStayCalls, PTL

-----------------------------------------------------------------------------
(* On the plane: the table holds finitely many rows at any time, so every    *)
(* window there is or was is the greedy one of the work it was offered.     *)
Affordable ==
    \A n \in 1 .. Generation :
        IsGreedy(windows[n].offered, windows[n].policy, windows[n].measuredAt)

TableFinite == IsFiniteSet(DOMAIN rows)

LEMMA RowsStayFinite == [Next]_vars /\ TableFinite => TableFinite'
<1> SUFFICES ASSUME [Next]_vars, IsFiniteSet(DOMAIN rows) PROVE IsFiniteSet(DOMAIN rows')
  BY DEF TableFinite
<1>1. DOMAIN rows' = DOMAIN rows \/ \E w : DOMAIN rows' = DOMAIN rows \cup {w}
  <2>1. ASSUME NEW w \in Works, SubmitWork(w) PROVE DOMAIN rows' = DOMAIN rows \cup {w}
    BY <2>1 DEF SubmitWork
  <2>2. ASSUME NEW policy, NEW now, Schedule(policy, now) PROVE DOMAIN rows' = DOMAIN rows
    BY <2>2 DEF Schedule
  <2>3. ASSUME NEW c \in Clients, Complete(c) PROVE DOMAIN rows' = DOMAIN rows
    BY <2>3 DEF Complete
  <2>4. CASE rows' = rows
    BY <2>4
  <2> QED BY <2>1, <2>2, <2>3, <2>4 DEF Next, vars, AuthorizeCompletion, ReadSchedule, Preview,
             BeginFinalization, EvaluateGeneration, Finalize, Abort
<1> QED BY <1>1, FS_AddElement

(* v1.6 and v1.7 together: no window the plane ever opened passed over work  *)
(* that fitted for work that ranked behind it.                              *)
THEOREM WindowsAreGreedy == Spec => []Affordable
<1>1. Init => TableFinite
  <2>1. Init => DOMAIN rows = {}
    BY DEF Init
  <2> QED BY <2>1, FS_EmptySet DEF TableFinite
<1>2. IInv /\ TableFinite => Affordable
  <2> SUFFICES ASSUME IInv, IsFiniteSet(DOMAIN rows), NEW n \in 1 .. Generation
               PROVE  IsGreedy(windows[n].offered, windows[n].policy, windows[n].measuredAt)
    BY DEF Affordable, TableFinite
  <2>1. windows[n] \in Pressures /\ windows[n].offered \in SUBSET DOMAIN rows
        /\ DOMAIN rows \subseteq Works
    BY GenerationType DEF IInv, Tables, TablesOK
  <2>2. PICK items \in SUBSET Works, policy \in CapacityPolicies, now \in Times :
            windows[n] = ScheduleVerification(items, policy, now)
    BY <2>1 DEF Pressures
  <2>3. /\ windows[n].offered = items /\ windows[n].policy = policy
        /\ windows[n].measuredAt = now
    BY <2>2 DEF ScheduleVerification
  <2>4. /\ IsFiniteSet(items) /\ \A w \in items : IsWork(w)
        /\ \A v, w \in items : v.hash = w.hash => v = w
        /\ IsCapacityPolicy(policy) /\ now \in Nat
    BY <2>1, <2>3, FS_Subset, WorksAssumption, PolicyAssumption, PlaneBounds
  <2> QED BY <2>3, <2>4, WindowIsGreedy
<1> QED BY <1>1, <1>2, RowsStayFinite, Invariance, PTL DEF Spec
================================================================================
