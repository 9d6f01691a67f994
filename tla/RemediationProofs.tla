--------------------------- MODULE RemediationProofs ---------------------------
(***************************************************************************)
(* Proofs about replication and remediation, v1.18 and v1.19, for any       *)
(* confirmations, collections, policies and people and any number of        *)
(* revisions.                                                               *)
(*                                                                         *)
(* Rows are added to the tables and never changed, and a series only gets   *)
(* longer.  What a step does is therefore said once, table by table, and    *)
(* the proofs of the invariants argue about old rows and new rows.          *)
(***************************************************************************)
EXTENDS Remediation, SequenceTheorems, FiniteSetTheorems, TLAPS

Grown(old, new) ==
    /\ DOMAIN old \subseteq DOMAIN new
    /\ \A x \in DOMAIN old : new[x] = old[x]

New(old, new) == DOMAIN new \ DOMAIN old

(* An added row is there, and nothing else changes.                         *)
LEMMA RowAdded ==
    ASSUME NEW f, NEW x, NEW y, x \notin DOMAIN f
    PROVE  /\ Grown(f, With(f, x, y))
           /\ New(f, With(f, x, y)) = {x}
           /\ With(f, x, y)[x] = y
BY DEF With, Grown, New

LEMMA SameIsGrown == \A f : Grown(f, f) /\ New(f, f) = {}
BY DEF Grown, New

(* The empty table has no row.                                              *)
LEMMA NothingIsEmpty == DOMAIN Nothing = {}
BY DEF Nothing
-----------------------------------------------------------------------------
(* What a step does to the graph, as other planes and a rollback revise it. *)
Confirms(c, edges) ==
    /\ line # << >>
    /\ c.training \cup c.batch \subseteq used
    /\ line' = Append(line, edges)
    /\ confirmed' = confirmed \cup {Current + 1}
    /\ confirmations' = With(confirmations, Current + 1, c)

RollsBack(r, applier) ==
    /\ Apply(r, applier)
    /\ proposals[selections[r].selected].action = "SAFE_ROLLBACK"

LineStep ==
    /\ used \subseteq used'
    /\ \/ UNCHANGED <<lineVars, confirmations>>
       \/ /\ \E edges \in Graphs : line' = Append(line, edges)
          /\ UNCHANGED <<confirmed, confirmations>>
       \/ \E c \in Confirmations, edges \in Graphs : Confirms(c, edges)
       \/ /\ \E r \in RemediationSelections, applier \in Holders.applier : RollsBack(r, applier)
          /\ line' = Append(line, GraphAt(Current - 1))
          /\ UNCHANGED <<confirmed, confirmations>>

LEMMA LineMoves ==
    ASSUME [Next]_vars
    PROVE  LineStep
<1>1. CASE EnvironmentStep
  <2>1. ASSUME NEW edges \in Graphs, Register(edges) \/ Revise(edges),
               UNCHANGED <<confirmations, used>>
        PROVE  LineStep
    <3>1. Append(<< >>, edges) = <<edges>>
      OBVIOUS
    <3>2. line' = Append(line, edges) /\ UNCHANGED confirmed
      BY <2>1, <3>1 DEF Register, Revise
    <3> QED BY <2>1, <3>2 DEF LineStep
  <2>2. ASSUME NEW c \in Confirmations, Confirm(c) PROVE LineStep
    <3> DEFINE edges == Toggled(GraphAt(Current), Edge(c.key, c.direction))
    <3>1. edges \in Graphs /\ ReviseConfirmed(edges)
      BY <2>2 DEF Confirm
    <3>2. Confirms(c, edges) /\ used' = used
      BY <2>2, <3>1 DEF Confirm, ReviseConfirmed, Confirms
    <3> QED BY <3>1, <3>2 DEF LineStep
  <2>3. ASSUME NEW s \in NewSamples \ used, used' = used \cup {s}, UNCHANGED <<lineVars, confirmations>>
        PROVE  LineStep
    BY <2>3 DEF LineStep
  <2> QED BY <1>1, <2>1, <2>2, <2>3 DEF EnvironmentStep
<1>2. CASE \E r \in RemediationSelections, applier \in Holders.applier : Apply(r, applier)
  <2>1. PICK r \in RemediationSelections, applier \in Holders.applier : Apply(r, applier)
    BY <1>2
  <2>2. UNCHANGED <<confirmations, used>>
    BY <2>1 DEF Apply
  <2>3. CASE proposals[selections[r].selected].action = "SAFE_ROLLBACK"
    <3>1. Revise(GraphAt(Current - 1)) /\ RollsBack(r, applier)
      BY <2>1, <2>3 DEF Apply, RollsBack
    <3> QED BY <2>2, <3>1 DEF Revise, LineStep
  <2>4. CASE proposals[selections[r].selected].action # "SAFE_ROLLBACK"
    BY <2>1, <2>2, <2>4 DEF Apply, LineStep
  <2> QED BY <2>3, <2>4
<1>3. CASE /\ ReplicationStep \/ RemediationStep \/ UNCHANGED vars
           /\ ~\E r \in RemediationSelections, applier \in Holders.applier : Apply(r, applier)
  <2>1. UNCHANGED environmentVars
    BY <1>3 DEF ReplicationStep, RemediationStep, vars, replicationVars,
          RegisterReplicationPolicy, RegisterTarget, SealReplication, EvaluateReplication,
          ReviewReplication, FinalizeSnapshot,
          RegisterRemediationPolicy, Propose, Assess, Select, ReviewSelection
  <2> QED BY <2>1 DEF environmentVars, LineStep
<1> QED BY <1>1, <1>2, <1>3 DEF Next
-----------------------------------------------------------------------------
(* What it does to the tables of v1.18.                                     *)
SeriesStep ==
    /\ replicationPolicy' # replicationPolicy =>
         replicationPolicy = Nothing /\ replicationPolicy' \in ReplicationPolicies
    /\ DOMAIN series \subseteq DOMAIN series'
    /\ \A g \in New(series, series') : RegisterTarget(g)
    /\ \A g \in DOMAIN series : series'[g] = series[g] \/
         \E collection \in Collections, mode \in Modes, keeper \in Holders.batchKeeper :
            SealReplication(g, collection, mode, keeper)

ReplicationTablesStep ==
    /\ SeriesStep
    /\ Grown(evaluations, evaluations')
    /\ \A x \in New(evaluations, evaluations') :
         \E g \in DOMAIN confirmations, i \in 1 .. Cardinality(Collections), evaluator \in Holders.evaluator :
            x = <<g, i>> /\ EvaluateReplication(g, i, evaluator)
    /\ Grown(reviews, reviews')
    /\ \A x \in New(reviews, reviews') :
         \E decision \in ReplicationDecisions, reviewer \in Holders.reviewer :
            x \in DOMAIN evaluations /\ ReviewReplication(x, decision, reviewer)
    /\ Grown(snapshots, snapshots')
    /\ \A x \in New(snapshots, snapshots') :
         \E g \in DOMAIN confirmations : x = <<g, Cardinality(Evaluated(g))>> /\ FinalizeSnapshot(g)

LEMMA ReplicationTablesMove ==
    ASSUME [Next]_vars
    PROVE  ReplicationTablesStep
<1> USE SameIsGrown
<1>0. ASSUME UNCHANGED <<replicationPolicy, series>> PROVE SeriesStep
  BY <1>0 DEF SeriesStep, New
<1>1. CASE ReplicationStep
  <2>1. ASSUME NEW policy \in ReplicationPolicies, RegisterReplicationPolicy(policy)
        PROVE  ReplicationTablesStep
    BY <2>1 DEF RegisterReplicationPolicy, ReplicationTablesStep, SeriesStep, New
  <2>2. ASSUME NEW g \in DOMAIN confirmations, RegisterTarget(g) PROVE ReplicationTablesStep
    <3>1. g \notin DOMAIN series /\ series' = With(series, g, << >>)
      BY <2>2 DEF RegisterTarget
    <3>2. Grown(series, series') /\ New(series, series') = {g}
      BY <3>1, RowAdded
    <3>3. UNCHANGED <<replicationPolicy, evaluations, reviews, snapshots>>
      BY <2>2 DEF RegisterTarget
    <3>4. SeriesStep
      BY <2>2, <3>2, <3>3 DEF SeriesStep, Grown
    <3> QED BY <3>3, <3>4 DEF ReplicationTablesStep
  <2>3. ASSUME NEW g \in DOMAIN confirmations, NEW collection \in Collections, NEW mode \in Modes,
               NEW keeper \in Holders.batchKeeper, SealReplication(g, collection, mode, keeper)
        PROVE  ReplicationTablesStep
    <3>1. UNCHANGED <<replicationPolicy, evaluations, reviews, snapshots>>
      BY <2>3 DEF SealReplication
    <3>2. DOMAIN series' = DOMAIN series /\ \A h \in DOMAIN series \ {g} : series'[h] = series[h]
      BY <2>3 DEF SealReplication
    <3>3. SeriesStep
      BY <2>3, <3>1, <3>2 DEF SeriesStep, New
    <3> QED BY <3>1, <3>3 DEF ReplicationTablesStep
  <2>4. ASSUME NEW g \in DOMAIN confirmations, NEW i \in 1 .. Cardinality(Collections),
               NEW evaluator \in Holders.evaluator, EvaluateReplication(g, i, evaluator)
        PROVE  ReplicationTablesStep
    <3>1. <<g, i>> \notin DOMAIN evaluations /\ \E row : evaluations' = With(evaluations, <<g, i>>, row)
      BY <2>4 DEF EvaluateReplication
    <3>2. Grown(evaluations, evaluations') /\ New(evaluations, evaluations') = {<<g, i>>}
      BY <3>1, RowAdded
    <3>3. UNCHANGED <<replicationPolicy, series, reviews, snapshots>>
      BY <2>4 DEF EvaluateReplication
    <3> QED BY <1>0, <2>4, <3>2, <3>3 DEF ReplicationTablesStep
  <2>5. ASSUME NEW g \in DOMAIN confirmations, FinalizeSnapshot(g) PROVE ReplicationTablesStep
    <3> DEFINE x == <<g, Cardinality(Evaluated(g))>>
    <3>1. x \notin DOMAIN snapshots /\ \E row : snapshots' = With(snapshots, x, row)
      BY <2>5 DEF FinalizeSnapshot
    <3>2. Grown(snapshots, snapshots') /\ New(snapshots, snapshots') = {x}
      BY <3>1, RowAdded
    <3>3. UNCHANGED <<replicationPolicy, series, evaluations, reviews>>
      BY <2>5 DEF FinalizeSnapshot
    <3> QED BY <1>0, <2>5, <3>2, <3>3 DEF ReplicationTablesStep
  <2>6. ASSUME NEW x \in DOMAIN evaluations, NEW decision \in ReplicationDecisions,
               NEW reviewer \in Holders.reviewer, ReviewReplication(x, decision, reviewer)
        PROVE  ReplicationTablesStep
    <3>1. x \notin DOMAIN reviews /\ \E row : reviews' = With(reviews, x, row)
      BY <2>6 DEF ReviewReplication
    <3>2. Grown(reviews, reviews') /\ New(reviews, reviews') = {x}
      BY <3>1, RowAdded
    <3>3. UNCHANGED <<replicationPolicy, series, evaluations, snapshots>>
      BY <2>6 DEF ReviewReplication
    <3> QED BY <1>0, <2>6, <3>2, <3>3 DEF ReplicationTablesStep
  <2> QED BY <1>1, <2>1, <2>2, <2>3, <2>4, <2>5, <2>6 DEF ReplicationStep
<1>2. CASE ~ReplicationStep
  <2>1. UNCHANGED <<replicationPolicy, series, evaluations, reviews, snapshots>>
    BY <1>2 DEF Next, RemediationStep, vars, replicationVars,
          RegisterRemediationPolicy, Propose, Assess, Select, ReviewSelection, Apply
  <2> QED BY <1>0, <2>1 DEF ReplicationTablesStep
<1> QED BY <1>1, <1>2
-----------------------------------------------------------------------------
(* And to those of v1.19.                                                   *)
RemediationTablesStep ==
    /\ Grown(proposals, proposals')
    /\ \A p \in New(proposals, proposals') :
         \E x \in DOMAIN snapshots, action \in RemediationActions, proposer \in Holders.proposer :
            Propose(p, x, action, proposer)
    /\ Grown(assessments, assessments')
    /\ \A p \in New(assessments, assessments') : \E assessor \in Holders.assessor : Assess(p, assessor)
    /\ Grown(selections, selections')
    /\ \A r \in New(selections, selections') :
         \E p \in DOMAIN proposals, selector \in Holders.selector : Select(r, p, selector)
    /\ Grown(selectionReviews, selectionReviews')
    /\ New(selectionReviews, selectionReviews') \subseteq DOMAIN selections
    /\ Grown(executions, executions')
    /\ \A x \in New(executions, executions') :
         \E r \in RemediationSelections, applier \in Holders.applier : x = SnapshotOf(r) /\ Apply(r, applier)

LEMMA RemediationTablesMove ==
    ASSUME [Next]_vars
    PROVE  RemediationTablesStep
<1> USE SameIsGrown DEF RemediationTablesStep
<1>1. CASE RemediationStep
  <2>1. ASSUME NEW allowed \in AllowedActions, RegisterRemediationPolicy(allowed)
        PROVE  RemediationTablesStep
    BY <2>1 DEF RegisterRemediationPolicy
  <2>2. ASSUME NEW p \in Proposals, NEW x \in DOMAIN snapshots, NEW action \in RemediationActions,
               NEW proposer \in Holders.proposer, Propose(p, x, action, proposer)
        PROVE  RemediationTablesStep
    <3>1. p \notin DOMAIN proposals /\ \E row : proposals' = With(proposals, p, row)
      BY <2>2 DEF Propose
    <3>2. Grown(proposals, proposals') /\ New(proposals, proposals') = {p}
      BY <3>1, RowAdded
    <3>3. UNCHANGED <<assessments, selections, selectionReviews, executions>>
      BY <2>2 DEF Propose
    <3> QED BY <2>2, <3>2, <3>3
  <2>3. ASSUME NEW p \in Proposals, NEW assessor \in Holders.assessor, Assess(p, assessor)
        PROVE  RemediationTablesStep
    <3>1. p \notin DOMAIN assessments /\ \E row : assessments' = With(assessments, p, row)
      BY <2>3 DEF Assess
    <3>2. Grown(assessments, assessments') /\ New(assessments, assessments') = {p}
      BY <3>1, RowAdded
    <3>3. UNCHANGED <<proposals, selections, selectionReviews, executions>>
      BY <2>3 DEF Assess
    <3> QED BY <2>3, <3>2, <3>3
  <2>4. ASSUME NEW r \in RemediationSelections, NEW p \in DOMAIN proposals,
               NEW selector \in Holders.selector, Select(r, p, selector)
        PROVE  RemediationTablesStep
    <3>1. r \notin DOMAIN selections /\ \E row : selections' = With(selections, r, row)
      BY <2>4 DEF Select
    <3>2. Grown(selections, selections') /\ New(selections, selections') = {r}
      BY <3>1, RowAdded
    <3>3. UNCHANGED <<proposals, assessments, selectionReviews, executions>>
      BY <2>4 DEF Select
    <3> QED BY <2>4, <3>2, <3>3
  <2>5. ASSUME NEW r \in RemediationSelections, NEW decision \in RemediationDecisions,
               NEW reviewer \in Holders.remediationReviewer, ReviewSelection(r, decision, reviewer)
        PROVE  RemediationTablesStep
    <3>1. /\ r \in DOMAIN selections /\ r \notin DOMAIN selectionReviews
          /\ \E row : selectionReviews' = With(selectionReviews, r, row)
      BY <2>5 DEF ReviewSelection
    <3>2. Grown(selectionReviews, selectionReviews') /\ New(selectionReviews, selectionReviews') = {r}
      BY <3>1, RowAdded
    <3>3. UNCHANGED <<proposals, assessments, selections, executions>>
      BY <2>5 DEF ReviewSelection
    <3> QED BY <3>1, <3>2, <3>3
  <2>6. ASSUME NEW r \in RemediationSelections, NEW applier \in Holders.applier, Apply(r, applier)
        PROVE  RemediationTablesStep
    <3>1. SnapshotOf(r) \notin DOMAIN executions /\ \E row : executions' = With(executions, SnapshotOf(r), row)
      BY <2>6 DEF Apply
    <3>2. Grown(executions, executions') /\ New(executions, executions') = {SnapshotOf(r)}
      BY <3>1, RowAdded
    <3>3. UNCHANGED <<proposals, assessments, selections, selectionReviews>>
      BY <2>6 DEF Apply
    <3> QED BY <2>6, <3>2, <3>3
  <2> QED BY <1>1, <2>1, <2>2, <2>3, <2>4, <2>5, <2>6 DEF RemediationStep
<1>2. CASE ~RemediationStep
  <2>1. UNCHANGED remediationTables
    BY <1>2 DEF Next, vars
  <2> QED BY <2>1 DEF remediationTables
<1> QED BY <1>1, <1>2
-----------------------------------------------------------------------------
(* What there is of graphs, confirmations, series and the rows on them.     *)
Data(c) == c.training \cup c.batch

LineOK ==
    /\ line \in Seq(Graphs)
    /\ confirmed = DOMAIN confirmations
    /\ DOMAIN confirmations \subseteq 1 .. Len(line) - 1
    /\ \A g \in DOMAIN confirmations : confirmations[g] \in Confirmations /\ Data(confirmations[g]) \subseteq used

PolicyOK ==
    /\ replicationPolicy = Nothing \/ replicationPolicy \in ReplicationPolicies
    /\ DOMAIN series # {} => replicationPolicy # Nothing
    /\ DOMAIN series \subseteq DOMAIN confirmations

Sealed ==
    {[samples |-> c.samples, from |-> c.from, to |-> c.to, keeper |-> keeper] :
        c \in Collections, keeper \in Holders.batchKeeper}

BatchOK(g, i) ==
    /\ series[g][i].from >= confirmations[g].evaluatedAt
    /\ Apart(series[g][i].samples, Data(confirmations[g]))
    /\ \A j \in 1 .. i - 1 :
        /\ Apart(series[g][i].samples, series[g][j].samples)
        /\ series[g][i].from > series[g][j].to

SeriesOK ==
    \A g \in DOMAIN series :
        /\ series[g] \in Seq(Sealed)
        /\ \A i \in DOMAIN series[g] : BatchOK(g, i)

DriftedOn(g, samples) ==
    \/ CurrentAdvantage(g, samples) <= replicationPolicy.minImprovement
    \/ Degradation(confirmations[g], samples) > replicationPolicy.maxDegradation

EvaluationOK(g, i) ==
    /\ g \in DOMAIN series
    /\ i \in DOMAIN series[g]
    /\ evaluations[<<g, i>>].status = "DRIFT_SIGNAL" => DriftedOn(g, series[g][i].samples)

EvaluationsOK ==
    \A x \in DOMAIN evaluations : \E g, i : x = <<g, i>> /\ EvaluationOK(g, i)

SnapshotOK(g, n) ==
    /\ g \in DOMAIN series
    /\ n \in Nat \ {0}
    /\ DOMAIN snapshots[<<g, n>>].evaluations = 1 .. n
    /\ 1 .. n \subseteq Evaluated(g)
    /\ snapshots[<<g, n>>].signal = "PERSISTENT_DRIFT_SIGNAL" =>
         n >= replicationPolicy.epochs /\ n - replicationPolicy.epochs + 1 .. n \subseteq Drifted(g)

SnapshotsOK ==
    \A x \in DOMAIN snapshots : \E g, n : x = <<g, n>> /\ SnapshotOK(g, n)

AssessmentOK(p) ==
    proposals[p].action = "SAFE_ROLLBACK" =>
        \/ assessments[p].status = "ROLLBACK_UNSUPPORTED"
        \/ CurrentAdvantage(proposals[p].snapshot[1],
                            series[proposals[p].snapshot[1]][proposals[p].snapshot[2]].samples) <= 0

AlternativesOK ==
    /\ \A p \in DOMAIN proposals : proposals[p].snapshot \in DOMAIN snapshots
    /\ DOMAIN assessments \subseteq DOMAIN proposals
    /\ \A p \in DOMAIN assessments : AssessmentOK(p)
    /\ DOMAIN selectionReviews \subseteq DOMAIN selections
    /\ \A r \in DOMAIN selections :
        /\ selections[r].selected \in DOMAIN assessments
        /\ assessments[selections[r].selected].status # "ROLLBACK_UNSUPPORTED"
        /\ selections[r].alternatives \subseteq DOMAIN assessments

LEMMA SnapshotExists ==
    ASSUME PolicyOK, LineOK, SnapshotsOK, NEW x \in DOMAIN snapshots
    PROVE  /\ x = <<x[1], x[2]>> /\ SnapshotOK(x[1], x[2])
           /\ x[1] \in DOMAIN series /\ x[1] \in DOMAIN confirmations
           /\ x[1] \in 1 .. Len(line) - 1
<1>1. PICK g, n : x = <<g, n>> /\ SnapshotOK(g, n)
  BY DEF SnapshotsOK
<1>2. x[1] = g /\ x[2] = n
  BY <1>1
<1> QED BY <1>1, <1>2 DEF SnapshotOK, PolicyOK, LineOK

(* A rollback is one generation back from a confirmed one.                  *)
LEMMA RollbackIsOneBack ==
    ASSUME LineOK, PolicyOK, SnapshotsOK, AlternativesOK,
           NEW r, r \in DOMAIN selections, FreshSelection(r)
    PROVE  /\ SnapshotOf(r) \in DOMAIN snapshots
           /\ SnapshotOf(r)[1] = Current
           /\ Current \in 1 .. Len(line) - 1
           /\ GraphAt(Current - 1) \in Graphs
<1>1. SnapshotOf(r) \in DOMAIN snapshots
  BY DEF SnapshotOf, AlternativesOK
<1>2. SnapshotOf(r)[1] = Current
  BY DEF FreshSelection, FreshSnapshot
<1>3. Current \in 1 .. Len(line) - 1
  BY <1>1, <1>2, SnapshotExists
<1>4. GraphAt(Current - 1) \in Graphs
  BY <1>3 DEF GraphAt, Current, LineOK
<1> QED BY <1>1, <1>2, <1>3, <1>4

(* What the graph was stays, and with it what is computed of the confirmed  *)
(* edge.                                                                    *)
LEMMA LineGrows ==
    ASSUME LineOK, PolicyOK, SnapshotsOK, AlternativesOK,
           [Next]_vars
    PROVE  /\ line' = line \/ \E edges \in Graphs : line' = Append(line, edges)
           /\ Grown(confirmations, confirmations')
           /\ LineOK'
<1>1. CASE UNCHANGED <<lineVars, confirmations>>
  <2>1. UNCHANGED <<line, confirmed, confirmations>> /\ used \subseteq used'
    BY <1>1, LineMoves DEF lineVars, LineStep
  <2> QED BY <2>1, SameIsGrown DEF LineOK
<1>2. ASSUME NEW edges \in Graphs, line' = Append(line, edges), UNCHANGED <<confirmed, confirmations>>
      PROVE  LineOK' /\ Grown(confirmations, confirmations')
  <2>1. line' \in Seq(Graphs) /\ Len(line') = Len(line) + 1 /\ Len(line) \in Nat
    BY <1>2 DEF LineOK
  <2>2. used \subseteq used'
    BY LineMoves DEF LineStep
  <2> QED BY <1>2, <2>1, <2>2, SameIsGrown DEF LineOK
<1>3. ASSUME NEW c \in Confirmations, NEW edges \in Graphs, Confirms(c, edges)
      PROVE  /\ line' = Append(line, edges)
             /\ LineOK' /\ Grown(confirmations, confirmations')
  <2>1. PICK n \in Nat : n = Len(line)
    BY DEF LineOK
  <2>2. line' = Append(line, edges) /\ line' \in Seq(Graphs) /\ Len(line') = n + 1
    BY <1>3, <2>1 DEF LineOK, Confirms
  <2>3. n > 0 /\ Current + 1 = n
    BY <1>3, <2>1 DEF LineOK, Confirms, Current
  <2>4. n \notin DOMAIN confirmations
    BY <2>1 DEF LineOK
  <2>5. confirmations' = With(confirmations, n, c) /\ confirmed' = confirmed \cup {n}
    BY <1>3, <2>3 DEF Confirms
  <2>6. Grown(confirmations, confirmations') /\ New(confirmations, confirmations') = {n} /\ confirmations'[n] = c
    BY <2>4, <2>5, RowAdded
  <2>7. Data(c) \subseteq used /\ used \subseteq used'
    BY <1>3, LineMoves DEF Confirms, Data, LineStep
  <2>8. confirmed' = DOMAIN confirmations' /\ DOMAIN confirmations' \subseteq 1 .. n
    <3>1. DOMAIN confirmations' = DOMAIN confirmations \cup {n}
      BY <2>6 DEF Grown, New
    <3> QED BY <2>1, <2>3, <2>5, <3>1 DEF LineOK
  <2>9. \A g \in DOMAIN confirmations' : confirmations'[g] \in Confirmations /\ Data(confirmations'[g]) \subseteq used'
    BY <2>6, <2>7 DEF LineOK, Grown, New
  <2> QED BY <2>2, <2>6, <2>8, <2>9 DEF LineOK
<1>4. ASSUME NEW r, NEW applier, RollsBack(r, applier)
      PROVE  GraphAt(Current - 1) \in Graphs
  BY <1>4, RollbackIsOneBack DEF RollsBack, Apply, AlternativesOK
<1> QED BY <1>1, <1>2, <1>3, <1>4, LineMoves DEF LineStep, lineVars

LEMMA GraphStays ==
    ASSUME LineOK, PolicyOK, SnapshotsOK, AlternativesOK, [Next]_vars, NEW g \in 0 .. Len(line) - 1
    PROVE  GraphAt(g)' = GraphAt(g)
<1>1. line \in Seq(Graphs) /\ Len(line) \in Nat
  BY DEF LineOK
<1>2. line' = line \/ \E edges \in Graphs : line' = Append(line, edges)
  BY LineGrows
<1>3. g + 1 \in 1 .. Len(line)
  BY <1>1
<1>4. line'[g + 1] = line[g + 1]
  BY <1>1, <1>2, <1>3
<1> QED BY <1>4 DEF GraphAt

LEMMA AdvantageStays ==
    ASSUME LineOK, PolicyOK, SnapshotsOK, AlternativesOK, [Next]_vars, NEW g \in DOMAIN series
    PROVE  /\ replicationPolicy' = replicationPolicy
           /\ confirmations'[g] = confirmations[g]
           /\ \A samples : CurrentAdvantage(g, samples)' = CurrentAdvantage(g, samples)
           /\ \A samples : DriftedOn(g, samples)' = DriftedOn(g, samples)
<1>1. g \in 1 .. Len(line) - 1 /\ g \in DOMAIN confirmations
  BY DEF LineOK, PolicyOK
<1>2. GraphAt(g)' = GraphAt(g) /\ GraphAt(g - 1)' = GraphAt(g - 1)
  <2>1. g \in 0 .. Len(line) - 1 /\ g - 1 \in 0 .. Len(line) - 1
    BY <1>1 DEF LineOK
  <2>2. PICK h : h = g - 1
    OBVIOUS
  <2>3. GraphAt(h)' = GraphAt(h)
    BY <2>1, <2>2, GraphStays
  <2> QED BY <2>1, <2>2, <2>3, GraphStays
<1>3. confirmations'[g] = confirmations[g]
  BY <1>1, LineGrows DEF Grown
<1>4. replicationPolicy' = replicationPolicy
  BY ReplicationTablesMove DEF ReplicationTablesStep, SeriesStep, PolicyOK
<1>5. \A samples : CurrentAdvantage(g, samples)' = CurrentAdvantage(g, samples)
  BY <1>2, <1>3 DEF CurrentAdvantage, Fitted
<1>6. \A samples : DriftedOn(g, samples)' = DriftedOn(g, samples)
  <2> SUFFICES ASSUME NEW samples PROVE DriftedOn(g, samples)' = DriftedOn(g, samples)
    OBVIOUS
  <2>1. Degradation(confirmations[g], samples)' = Degradation(confirmations[g], samples)
    BY <1>3 DEF Degradation, Fitted
  <2>2. CurrentAdvantage(g, samples)' = CurrentAdvantage(g, samples)
    BY <1>5
  <2> QED BY <1>4, <2>1, <2>2 DEF DriftedOn
<1> QED BY <1>3, <1>4, <1>5, <1>6

(* Batches stay in their place, and the one that comes is sealed.           *)
LEMMA SeriesGrow ==
    ASSUME SeriesOK, [Next]_vars, NEW g \in DOMAIN series
    PROVE  /\ g \in DOMAIN series'
           /\ series'[g] \in Seq(Sealed)
           /\ \A i \in DOMAIN series[g] : i \in DOMAIN series'[g] /\ series'[g][i] = series[g][i]
           /\ \A i \in DOMAIN series'[g] \ DOMAIN series[g] :
                /\ i = Len(series[g]) + 1
                /\ \E collection \in Collections, mode \in Modes, keeper \in Holders.batchKeeper :
                    /\ SealReplication(g, collection, mode, keeper)
                    /\ series'[g][i] = [samples |-> collection.samples, from |-> collection.from,
                                        to |-> collection.to, keeper |-> keeper]
<1>1. g \in DOMAIN series' /\ series[g] \in Seq(Sealed)
  BY ReplicationTablesMove DEF ReplicationTablesStep, SeriesStep, SeriesOK
<1>2. CASE series'[g] = series[g]
  BY <1>1, <1>2
<1>3. ASSUME NEW collection \in Collections, NEW mode \in Modes, NEW keeper \in Holders.batchKeeper,
             SealReplication(g, collection, mode, keeper)
      PROVE  LET b == [samples |-> collection.samples, from |-> collection.from,
                       to |-> collection.to, keeper |-> keeper]
             IN series'[g] = Append(series[g], b) /\ b \in Sealed
  BY <1>3 DEF SealReplication, Sealed
<1>4. ASSUME NEW b \in Sealed, series'[g] = Append(series[g], b)
      PROVE  /\ series'[g] \in Seq(Sealed)
             /\ \A i \in DOMAIN series[g] : i \in DOMAIN series'[g] /\ series'[g][i] = series[g][i]
             /\ \A i \in DOMAIN series'[g] \ DOMAIN series[g] : i = Len(series[g]) + 1 /\ series'[g][i] = b
  BY <1>1, <1>4
<1>5. ASSUME NEW collection \in Collections, NEW mode \in Modes, NEW keeper \in Holders.batchKeeper,
             SealReplication(g, collection, mode, keeper)
      PROVE  /\ series'[g] \in Seq(Sealed)
             /\ \A i \in DOMAIN series[g] : i \in DOMAIN series'[g] /\ series'[g][i] = series[g][i]
             /\ \A i \in DOMAIN series'[g] \ DOMAIN series[g] :
                  /\ i = Len(series[g]) + 1
                  /\ series'[g][i] = [samples |-> collection.samples, from |-> collection.from,
                                      to |-> collection.to, keeper |-> keeper]
  BY <1>3, <1>4, <1>5
<1>6. CASE \E collection \in Collections, mode \in Modes, keeper \in Holders.batchKeeper :
              SealReplication(g, collection, mode, keeper)
  <2>1. PICK collection \in Collections, mode \in Modes, keeper \in Holders.batchKeeper :
              SealReplication(g, collection, mode, keeper)
    BY <1>6
  <2> QED BY <1>1, <1>5, <2>1
<1> QED BY <1>2, <1>6, ReplicationTablesMove DEF ReplicationTablesStep, SeriesStep

LEMMA PolicyStep ==
    ASSUME LineOK, PolicyOK, SnapshotsOK, AlternativesOK, [Next]_vars
    PROVE  PolicyOK'
<1>1. New(series, series') \subseteq DOMAIN confirmations
  BY ReplicationTablesMove DEF ReplicationTablesStep, SeriesStep, RegisterTarget
<1>2. New(series, series') # {} => replicationPolicy # Nothing
  BY ReplicationTablesMove DEF ReplicationTablesStep, SeriesStep, RegisterTarget
<1>3. DOMAIN confirmations \subseteq DOMAIN confirmations'
  BY LineGrows DEF Grown
<1>4. /\ replicationPolicy' # replicationPolicy =>
            replicationPolicy = Nothing /\ replicationPolicy' \in ReplicationPolicies
      /\ DOMAIN series' = DOMAIN series \cup New(series, series')
  BY ReplicationTablesMove DEF ReplicationTablesStep, SeriesStep, New
<1> QED BY <1>1, <1>2, <1>3, <1>4 DEF PolicyOK

(* What is sealed is newer than the series it is added to, and apart from   *)
(* all that was used for the pair.                                          *)
LEMMA SealedIsOK ==
    ASSUME LineOK, PolicyOK, SeriesOK, [Next]_vars,
           NEW g \in DOMAIN series, NEW i \in DOMAIN series'[g] \ DOMAIN series[g]
    PROVE  /\ series'[g][i].from >= confirmations[g].evaluatedAt
           /\ Apart(series'[g][i].samples, Data(confirmations[g]))
           /\ \A j \in 1 .. i - 1 :
               /\ Apart(series'[g][i].samples, series'[g][j].samples)
               /\ series'[g][i].from > series'[g][j].to
<1>1. PICK collection \in Collections, mode \in Modes, keeper \in Holders.batchKeeper :
        /\ SealReplication(g, collection, mode, keeper)
        /\ series'[g][i] = [samples |-> collection.samples, from |-> collection.from,
                            to |-> collection.to, keeper |-> keeper]
  BY SeriesGrow
<1> DEFINE c == confirmations[g]
           earlier == series[g]
           n == Len(earlier)
<1>2. /\ i = n + 1 /\ n \in Nat /\ DOMAIN earlier = 1 .. n /\ earlier \in Seq(Sealed)
      /\ \A j \in 1 .. n : earlier[j] \in Sealed /\ series'[g][j] = earlier[j]
  BY SeriesGrow DEF SeriesOK
<1>3. /\ collection.from >= c.evaluatedAt
      /\ earlier # << >> => collection.from > earlier[n].to
      /\ Apart(collection.samples, Seen(c.key) \cup Holding(earlier))
  BY <1>1 DEF SealReplication, InWindow, FreshForReplication
<1>4. Data(c) \subseteq Seen(c.key)
  <2>1. c \in Confirmations /\ Data(c) \subseteq used
    BY DEF PolicyOK, LineOK
  <2> QED BY <2>1, ReplicationAssumption DEF Data, Seen
<1>5. Apart(collection.samples, Data(c))
  BY <1>3, <1>4 DEF Apart
<1>6. ASSUME NEW j \in 1 .. n
      PROVE  Apart(collection.samples, earlier[j].samples) /\ collection.from > earlier[j].to
  <2>1. earlier[j].samples \subseteq Holding(earlier)
    BY <1>2 DEF Holding
  <2>2. earlier[n].to \in Nat /\ earlier[j].to \in Nat /\ collection.from \in Nat
        /\ earlier[n].from \in Nat /\ earlier[n].from <= earlier[n].to
    <3>1. \A b \in Sealed : b.from \in Nat /\ b.to \in Nat /\ b.from <= b.to
      BY ReplicationAssumption DEF Sealed
    <3>2. n \in 1 .. n /\ collection.from \in Nat
      BY <1>2, ReplicationAssumption
    <3> QED BY <1>2, <3>1, <3>2
  <2>3. collection.from > earlier[n].to
    BY <1>2, <1>3
  <2>4. j < n => earlier[n].from > earlier[j].to
    BY <1>2 DEF SeriesOK, BatchOK
  <2> QED BY <1>2, <1>3, <2>1, <2>2, <2>3, <2>4 DEF Apart
<1> QED BY <1>1, <1>2, <1>3, <1>5, <1>6

LEMMA SeriesStaysOK ==
    ASSUME LineOK, PolicyOK, SnapshotsOK, AlternativesOK, SeriesOK, [Next]_vars
    PROVE  SeriesOK'
<1>1. ASSUME NEW g \in New(series, series') PROVE series'[g] = << >>
  BY <1>1, ReplicationTablesMove DEF ReplicationTablesStep, SeriesStep, RegisterTarget, With
<1>2. ASSUME NEW g \in DOMAIN series PROVE series'[g] \in Seq(Sealed)
  BY <1>2, SeriesGrow
<1>3. ASSUME NEW g \in DOMAIN series, NEW i \in DOMAIN series[g] PROVE BatchOK(g, i)'
  <2>1. series'[g][i] = series[g][i] /\ confirmations'[g] = confirmations[g]
    BY SeriesGrow, AdvantageStays
  <2>2. \A j \in 1 .. i - 1 : series'[g][j] = series[g][j]
    <3>1. series[g] \in Seq(Sealed)
      BY DEF SeriesOK
    <3>2. \A j \in 1 .. i - 1 : j \in DOMAIN series[g]
      BY <3>1
    <3> QED BY <3>2, SeriesGrow
  <2> QED BY <2>1, <2>2 DEF SeriesOK, BatchOK
<1>4. ASSUME NEW g \in DOMAIN series, NEW i \in DOMAIN series'[g] \ DOMAIN series[g] PROVE BatchOK(g, i)'
  <2>1. confirmations'[g] = confirmations[g]
    BY AdvantageStays
  <2> QED BY <2>1, SealedIsOK DEF BatchOK
<1>5. ASSUME NEW g \in DOMAIN series'
      PROVE  series'[g] \in Seq(Sealed) /\ \A i \in DOMAIN series'[g] : BatchOK(g, i)'
  <2>1. CASE g \in DOMAIN series
    BY <1>2, <1>3, <1>4, <2>1
  <2>2. CASE g \in New(series, series')
    <3>1. << >> \in Seq(Sealed) /\ DOMAIN << >> = {}
      OBVIOUS
    <3> QED BY <1>1, <2>2, <3>1
  <2> QED BY <2>1, <2>2 DEF New
<1> QED BY <1>5 DEF SeriesOK
-----------------------------------------------------------------------------
(* Evaluations and snapshots keep saying of a series what they say.         *)
LEMMA EvaluationStays ==
    ASSUME LineOK, PolicyOK, SnapshotsOK, AlternativesOK, SeriesOK, [Next]_vars,
           NEW g, NEW i, <<g, i>> \in DOMAIN evaluations, EvaluationOK(g, i)
    PROVE  /\ <<g, i>> \in DOMAIN evaluations'
           /\ evaluations'[<<g, i>>] = evaluations[<<g, i>>]
           /\ series'[g][i] = series[g][i]
           /\ EvaluationOK(g, i)'
<1>1. <<g, i>> \in DOMAIN evaluations' /\ evaluations'[<<g, i>>] = evaluations[<<g, i>>]
  BY ReplicationTablesMove DEF ReplicationTablesStep, Grown
<1>2. g \in DOMAIN series' /\ i \in DOMAIN series'[g] /\ series'[g][i] = series[g][i]
  BY SeriesGrow DEF EvaluationOK
<1>3. PICK samples : samples = series[g][i].samples
  OBVIOUS
<1>4. DriftedOn(g, samples)' = DriftedOn(g, samples)
  BY AdvantageStays DEF EvaluationOK
<1> QED BY <1>1, <1>2, <1>3, <1>4 DEF EvaluationOK

LEMMA EvaluationsStep ==
    ASSUME LineOK, PolicyOK, SnapshotsOK, AlternativesOK, SeriesOK, EvaluationsOK, [Next]_vars
    PROVE  EvaluationsOK'
<1>1. ASSUME NEW x \in DOMAIN evaluations PROVE \E g, i : x = <<g, i>> /\ EvaluationOK(g, i)'
  BY <1>1, EvaluationStays DEF EvaluationsOK
<1>2. ASSUME NEW x \in New(evaluations, evaluations')
      PROVE  \E g, i : x = <<g, i>> /\ EvaluationOK(g, i)'
  <2>1. PICK g, i, evaluator : x = <<g, i>> /\ EvaluateReplication(g, i, evaluator)
    BY <1>2, ReplicationTablesMove DEF ReplicationTablesStep
  <2>2. /\ g \in DOMAIN series /\ i \in DOMAIN series[g]
        /\ series' = series
        /\ evaluations'[<<g, i>>].status = ReplicationStatus(g, series[g][i].samples)
    BY <2>1 DEF EvaluateReplication, With
  <2>3. PICK samples : samples = series[g][i].samples
    OBVIOUS
  <2>4. ReplicationStatus(g, samples) = "DRIFT_SIGNAL" => DriftedOn(g, samples)
    BY DEF ReplicationStatus, DriftedOn
  <2>5. DriftedOn(g, samples)' = DriftedOn(g, samples)
    BY <2>2, AdvantageStays
  <2>6. EvaluationOK(g, i)'
    BY <2>2, <2>3, <2>4, <2>5 DEF EvaluationOK
  <2> QED BY <2>1, <2>6
<1> QED BY <1>1, <1>2 DEF EvaluationsOK, New

LEMMA EvaluatedGrows ==
    ASSUME SeriesOK, [Next]_vars, NEW g \in DOMAIN series
    PROVE  /\ Evaluated(g) \subseteq Evaluated(g)'
           /\ Drifted(g) \subseteq Drifted(g)'
<1>1. \A i \in Evaluated(g) : i \in DOMAIN series'[g]
  BY SeriesGrow DEF Evaluated
<1>2. \A i \in Evaluated(g) :
        <<g, i>> \in DOMAIN evaluations' /\ evaluations'[<<g, i>>] = evaluations[<<g, i>>]
  BY ReplicationTablesMove DEF ReplicationTablesStep, Grown, Evaluated
<1>3. Evaluated(g) \subseteq Evaluated(g)'
  BY <1>1, <1>2 DEF Evaluated
<1> QED BY <1>2, <1>3 DEF Drifted

LEMMA CountsAreNumbers ==
    ASSUME SeriesOK, NEW g \in DOMAIN series
    PROVE  Cardinality(Evaluated(g)) \in Nat
<1>1. PICK n \in Nat : DOMAIN series[g] = 1 .. n
  BY DEF SeriesOK
<1>2. Evaluated(g) \in SUBSET (1 .. n) /\ IsFiniteSet(1 .. n)
  BY <1>1, FS_Interval DEF Evaluated
<1> QED BY <1>2, FS_Subset, FS_CardinalityType

LEMMA SnapshotsStep ==
    ASSUME LineOK, PolicyOK, SnapshotsOK, AlternativesOK, SeriesOK, [Next]_vars
    PROVE  SnapshotsOK'
<1>1. ASSUME NEW x \in DOMAIN snapshots PROVE \E g, n : x = <<g, n>> /\ SnapshotOK(g, n)'
  <2>1. PICK g, n : x = <<g, n>> /\ SnapshotOK(g, n)
    BY <1>1 DEF SnapshotsOK
  <2>2. snapshots'[<<g, n>>] = snapshots[<<g, n>>]
    BY <1>1, <2>1, ReplicationTablesMove DEF ReplicationTablesStep, Grown
  <2>3. g \in DOMAIN series' /\ replicationPolicy' = replicationPolicy
    BY <2>1, SeriesGrow, AdvantageStays DEF SnapshotOK
  <2>4. SnapshotOK(g, n)'
    BY <2>1, <2>2, <2>3, EvaluatedGrows DEF SnapshotOK
  <2> QED BY <2>1, <2>4
<1>2. ASSUME NEW x \in New(snapshots, snapshots') PROVE \E g, n : x = <<g, n>> /\ SnapshotOK(g, n)'
  <2>1. PICK g \in DOMAIN confirmations : x = <<g, Cardinality(Evaluated(g))>> /\ FinalizeSnapshot(g)
    BY <1>2, ReplicationTablesMove DEF ReplicationTablesStep
  <2>2. g \in DOMAIN series /\ Summarizable(g)
    BY <2>1 DEF FinalizeSnapshot
  <2>3. PICK n \in Nat : n = Cardinality(Evaluated(g))
    BY <2>2, CountsAreNumbers
  <2>4. n > 0 /\ Evaluated(g) = 1 .. n
    BY <2>2, <2>3 DEF Summarizable
  <2>5. snapshots'[<<g, n>>] = Summary(g) /\ UNCHANGED <<replicationPolicy, series, evaluations>>
    BY <2>1, <2>3 DEF FinalizeSnapshot, With
  <2>6. DOMAIN Summary(g).evaluations = 1 .. n /\ Summary(g).signal = Signal(g)
    BY <2>4 DEF Summary
  <2>7. Signal(g) = "PERSISTENT_DRIFT_SIGNAL" =>
          n >= replicationPolicy.epochs /\ n - replicationPolicy.epochs + 1 .. n \subseteq Drifted(g)
    BY <2>3 DEF Signal
  <2>8. Evaluated(g)' = Evaluated(g) /\ Drifted(g)' = Drifted(g)
    BY <2>5 DEF Evaluated, Drifted
  <2>9. SnapshotOK(g, n)'
    BY <2>2, <2>4, <2>5, <2>6, <2>7, <2>8 DEF SnapshotOK
  <2> QED BY <2>1, <2>3, <2>9
<1> QED BY <1>1, <1>2 DEF SnapshotsOK, New
-----------------------------------------------------------------------------
(* What is proposed, assessed and selected stays, and a rollback is selected*)
(* only if the confirmed edge has no advantage.                             *)
LEMMA ProposalStays ==
    ASSUME [Next]_vars, NEW p \in DOMAIN proposals
    PROVE  p \in DOMAIN proposals' /\ proposals'[p] = proposals[p]
BY RemediationTablesMove DEF RemediationTablesStep, Grown

LEMMA LastBatchStays ==
    ASSUME LineOK, PolicyOK, SnapshotsOK, AlternativesOK, SeriesOK, [Next]_vars, NEW x \in DOMAIN snapshots
    PROVE  /\ x \in DOMAIN snapshots'
           /\ series'[x[1]][x[2]] = series[x[1]][x[2]]
           /\ CurrentAdvantage(x[1], series[x[1]][x[2]].samples)'
                = CurrentAdvantage(x[1], series[x[1]][x[2]].samples)
<1>1. x[1] \in DOMAIN series /\ SnapshotOK(x[1], x[2])
  BY SnapshotExists
<1>2. x[2] \in DOMAIN series[x[1]]
  BY <1>1 DEF SnapshotOK, Evaluated
<1>3. series'[x[1]][x[2]] = series[x[1]][x[2]]
  BY <1>1, <1>2, SeriesGrow
<1>4. PICK g, samples : g = x[1] /\ samples = series[x[1]][x[2]].samples
  OBVIOUS
<1>5. CurrentAdvantage(g, samples)' = CurrentAdvantage(g, samples)
  BY <1>1, <1>4, AdvantageStays
<1>6. x \in DOMAIN snapshots'
  BY ReplicationTablesMove DEF ReplicationTablesStep, Grown
<1> QED BY <1>3, <1>4, <1>5, <1>6

LEMMA AlternativesStep ==
    ASSUME LineOK, PolicyOK, SnapshotsOK, AlternativesOK, SeriesOK, [Next]_vars
    PROVE  AlternativesOK'
<1>1. ASSUME NEW p \in DOMAIN proposals' PROVE proposals'[p].snapshot \in DOMAIN snapshots'
  <2>1. DOMAIN snapshots \subseteq DOMAIN snapshots'
    BY ReplicationTablesMove DEF ReplicationTablesStep, Grown
  <2>2. CASE p \in DOMAIN proposals
    BY <2>1, <2>2, ProposalStays DEF AlternativesOK
  <2>3. CASE p \in New(proposals, proposals')
    <3>1. PICK x \in DOMAIN snapshots : \E action, proposer : Propose(p, x, action, proposer)
      BY <2>3, RemediationTablesMove DEF RemediationTablesStep
    <3>2. proposals'[p].snapshot = x
      BY <3>1 DEF Propose, With
    <3> QED BY <2>1, <3>2
  <2> QED BY <1>1, <2>2, <2>3 DEF New
<1>2. ASSUME NEW p \in DOMAIN assessments PROVE p \in DOMAIN proposals' /\ AssessmentOK(p)'
  <2>1. p \in DOMAIN proposals /\ proposals[p].snapshot \in DOMAIN snapshots /\ AssessmentOK(p)
    BY DEF AlternativesOK
  <2>2. p \in DOMAIN proposals' /\ proposals'[p] = proposals[p] /\ assessments'[p] = assessments[p]
    BY <2>1, ProposalStays, RemediationTablesMove DEF RemediationTablesStep, Grown
  <2>3. PICK x : x = proposals[p].snapshot
    OBVIOUS
  <2>4. CurrentAdvantage(x[1], series[x[1]][x[2]].samples)'
          = CurrentAdvantage(x[1], series[x[1]][x[2]].samples)
    BY <2>1, <2>3, LastBatchStays
  <2> QED BY <2>1, <2>2, <2>3, <2>4 DEF AssessmentOK
<1>3. ASSUME NEW p \in New(assessments, assessments') PROVE p \in DOMAIN proposals' /\ AssessmentOK(p)'
  <2>1. PICK assessor : Assess(p, assessor)
    BY <1>3, RemediationTablesMove DEF RemediationTablesStep
  <2>2. /\ p \in DOMAIN proposals /\ proposals' = proposals
        /\ assessments'[p].status = AssessmentStatus(p)
        /\ proposals[p].snapshot \in DOMAIN snapshots
    BY <2>1 DEF Assess, With, AlternativesOK
  <2>3. PICK x : x = proposals[p].snapshot
    OBVIOUS
  <2>4. CurrentAdvantage(x[1], series[x[1]][x[2]].samples)'
          = CurrentAdvantage(x[1], series[x[1]][x[2]].samples)
    BY <2>2, <2>3, LastBatchStays
  <2>5. proposals[p].action = "SAFE_ROLLBACK" =>
          \/ AssessmentStatus(p) = "ROLLBACK_UNSUPPORTED"
          \/ CurrentAdvantage(x[1], series[x[1]][x[2]].samples) <= 0
    BY <2>3 DEF AssessmentStatus
  <2> QED BY <2>2, <2>3, <2>4, <2>5 DEF AssessmentOK
<1>4. Grown(assessments, assessments')
  BY RemediationTablesMove DEF RemediationTablesStep
<1>5. ASSUME NEW r \in DOMAIN selections'
      PROVE  /\ selections'[r].selected \in DOMAIN assessments
             /\ assessments[selections'[r].selected].status # "ROLLBACK_UNSUPPORTED"
             /\ selections'[r].alternatives \subseteq DOMAIN assessments
  <2>1. CASE r \in DOMAIN selections
    <3>1. selections'[r] = selections[r]
      BY <2>1, RemediationTablesMove DEF RemediationTablesStep, Grown
    <3> QED BY <2>1, <3>1 DEF AlternativesOK
  <2>2. CASE r \in New(selections, selections')
    <3>1. PICK p \in DOMAIN proposals : \E selector : Select(r, p, selector)
      BY <2>2, RemediationTablesMove DEF RemediationTablesStep
    <3>2. /\ selections'[r].selected = p
          /\ selections'[r].alternatives = Alternatives(proposals[p].snapshot)
          /\ Alternatives(proposals[p].snapshot) \subseteq DOMAIN assessments
          /\ assessments[p].status # "ROLLBACK_UNSUPPORTED"
      BY <3>1 DEF Select, With
    <3>3. p \in Alternatives(proposals[p].snapshot)
      BY DEF Alternatives
    <3> QED BY <3>2, <3>3
  <2> QED BY <1>5, <2>1, <2>2 DEF New
<1>6. \A r \in DOMAIN selections' :
        /\ selections'[r].selected \in DOMAIN assessments'
        /\ assessments'[selections'[r].selected].status # "ROLLBACK_UNSUPPORTED"
        /\ selections'[r].alternatives \subseteq DOMAIN assessments'
  BY <1>4, <1>5 DEF Grown
<1>7. DOMAIN selectionReviews' \subseteq DOMAIN selections'
  BY RemediationTablesMove DEF RemediationTablesStep, Grown, New, AlternativesOK
<1>8. \A p \in DOMAIN assessments' : p \in DOMAIN proposals' /\ AssessmentOK(p)'
  BY <1>2, <1>3 DEF New
<1> QED BY <1>1, <1>6, <1>7, <1>8 DEF AlternativesOK
-----------------------------------------------------------------------------
(* A rollback answered all that is known of the generation it went back     *)
(* from, and nothing can be added to that any more.                         *)
Answered(x) ==
    LET g == x[1] IN
    /\ Evaluated(g) = 1 .. x[2]
    /\ \A i \in Evaluated(g) : <<g, i>> \in DOMAIN reviews /\ reviews[<<g, i>>] = "ACKNOWLEDGE"
    /\ x[2] - replicationPolicy.epochs + 1 .. x[2] \subseteq Drifted(g)
    /\ CurrentAdvantage(g, series[g][x[2]].samples) <= 0

RollbackOK(x) ==
    /\ x[1] < Current
    /\ GraphAt(x[1] + 1) = GraphAt(x[1] - 1)
    /\ Answered(x)
    /\ Alternatives(x) \subseteq DOMAIN assessments
    /\ \A y \in DOMAIN executions : y[1] = x[1] => y[2] <= x[2]

ExecutionsOK ==
    /\ DOMAIN executions \subseteq DOMAIN snapshots
    /\ \A x \in Rollbacks : RollbackOK(x)

LEMMA NothingMoreIsEvaluated ==
    ASSUME LineOK, SeriesOK, EvaluationsOK, [Next]_vars, NEW g \in DOMAIN series, g # Current
    PROVE  Evaluated(g)' = Evaluated(g)
<1>1. series'[g] = series[g]
  BY ReplicationTablesMove DEF ReplicationTablesStep, SeriesStep, SealReplication
<1>2. ASSUME NEW i, <<g, i>> \in DOMAIN evaluations' PROVE <<g, i>> \in DOMAIN evaluations
  <2> SUFFICES ASSUME <<g, i>> \in New(evaluations, evaluations') PROVE FALSE
    BY <1>2 DEF New
  <2>1. PICK h, j, evaluator : <<g, i>> = <<h, j>> /\ EvaluateReplication(h, j, evaluator)
    BY ReplicationTablesMove DEF ReplicationTablesStep
  <2> QED BY <2>1 DEF EvaluateReplication
<1>3. DOMAIN evaluations \subseteq DOMAIN evaluations'
  BY ReplicationTablesMove DEF ReplicationTablesStep, Grown
<1> QED BY <1>1, <1>2, <1>3 DEF Evaluated

LEMMA AnsweredStays ==
    ASSUME LineOK, PolicyOK, SnapshotsOK, AlternativesOK, SeriesOK, EvaluationsOK, [Next]_vars,
           NEW x \in DOMAIN snapshots, x[1] < Current, Answered(x)
    PROVE  Answered(x)'
<1>1. PICK g, n : g = x[1] /\ n = x[2] /\ g \in DOMAIN series
  BY SnapshotExists
<1>2. Evaluated(g)' = Evaluated(g)
  <2>1. g # Current
    BY <1>1, SnapshotExists DEF Current, LineOK
  <2> QED BY <1>1, <2>1, NothingMoreIsEvaluated
<1>3. \A i \in Evaluated(g) : <<g, i>> \in DOMAIN reviews' /\ reviews'[<<g, i>>] = "ACKNOWLEDGE"
  BY <1>1, ReplicationTablesMove DEF ReplicationTablesStep, Grown, Answered
<1>4. Drifted(g) \subseteq Drifted(g)' /\ replicationPolicy' = replicationPolicy
  BY <1>1, EvaluatedGrows, AdvantageStays
<1>5. CurrentAdvantage(g, series[g][n].samples)' <= 0
  BY <1>1, LastBatchStays DEF Answered
<1> QED BY <1>1, <1>2, <1>3, <1>4, <1>5 DEF Answered

LEMMA LineLengthens ==
    ASSUME LineOK, PolicyOK, SnapshotsOK, AlternativesOK, [Next]_vars
    PROVE  Current \in Int /\ Current' \in Int /\ Current <= Current'
<1>1. line \in Seq(Graphs) /\ Len(line) \in Nat
  BY DEF LineOK
<1>2. line' = line \/ \E edges \in Graphs : line' = Append(line, edges)
  BY LineGrows
<1>3. Len(line') \in Nat /\ Len(line) <= Len(line')
  BY <1>1, <1>2
<1> QED BY <1>1, <1>3 DEF Current

LEMMA RollbackStays ==
    ASSUME LineOK, PolicyOK, SnapshotsOK, AlternativesOK, SeriesOK, EvaluationsOK, ExecutionsOK, [Next]_vars,
           NEW x \in Rollbacks
    PROVE  RollbackOK(x)'
<1>1. x \in DOMAIN executions /\ x \in DOMAIN snapshots /\ RollbackOK(x)
  BY DEF ExecutionsOK, Rollbacks
<1>2. PICK g \in Nat : g = x[1] /\ g \in 1 .. Len(line) - 1
  BY <1>1, SnapshotExists DEF LineOK
<1>3. x[1] < Current'
  BY <1>1, <1>2, LineLengthens DEF RollbackOK
<1>4. GraphAt(g + 1)' = GraphAt(g - 1)'
  <2>1. PICK h, k : h = g + 1 /\ k = g - 1
    OBVIOUS
  <2>2. h \in 0 .. Len(line) - 1 /\ k \in 0 .. Len(line) - 1
    BY <1>1, <1>2, <2>1 DEF RollbackOK, Current, LineOK
  <2>3. GraphAt(h)' = GraphAt(h) /\ GraphAt(k)' = GraphAt(k)
    BY <2>2, GraphStays
  <2> QED BY <1>1, <1>2, <2>1, <2>3 DEF RollbackOK
<1>5. Answered(x)'
  BY <1>1, AnsweredStays DEF RollbackOK
<1>6. Alternatives(x)' \subseteq DOMAIN assessments'
  <2>1. ASSUME NEW p \in New(proposals, proposals') PROVE proposals'[p].snapshot # x
    <3>1. PICK y, action, proposer : Propose(p, y, action, proposer)
      BY <2>1, RemediationTablesMove DEF RemediationTablesStep
    <3>2. y \notin DOMAIN executions /\ proposals'[p].snapshot = y
      BY <3>1 DEF Propose, With
    <3> QED BY <1>1, <3>2
  <2>2. Alternatives(x)' = Alternatives(x)
    BY <2>1, RemediationTablesMove DEF RemediationTablesStep, Grown, New, Alternatives
  <2>3. DOMAIN assessments \subseteq DOMAIN assessments'
    BY RemediationTablesMove DEF RemediationTablesStep, Grown
  <2> QED BY <1>1, <2>2, <2>3 DEF RollbackOK
<1>7. ASSUME NEW y \in DOMAIN executions', y[1] = x[1] PROVE y[2] <= x[2]
  <2>1. CASE y \in DOMAIN executions
    BY <1>1, <1>7, <2>1 DEF RollbackOK
  <2>2. CASE y \in New(executions, executions')
    <3>1. PICK r, applier : y = SnapshotOf(r) /\ Apply(r, applier)
      BY <2>2, RemediationTablesMove DEF RemediationTablesStep
    <3>2. y[1] = Current
      BY <3>1 DEF Apply, FreshSelection, FreshSnapshot
    <3> QED BY <1>1, <1>2, <1>7, <3>2, LineLengthens DEF RollbackOK
  <2> QED BY <1>7, <2>1, <2>2 DEF New
<1> QED BY <1>2, <1>3, <1>4, <1>5, <1>6, <1>7 DEF RollbackOK

(* The snapshot answered is the current one, of the whole series.           *)
LEMMA FreshIsAnswered ==
    ASSUME LineOK, PolicyOK, SnapshotsOK, AlternativesOK, SeriesOK,
           NEW r \in DOMAIN selections, FreshSelection(r),
           proposals[selections[r].selected].action = "SAFE_ROLLBACK"
    PROVE  /\ Answered(SnapshotOf(r))
           /\ Alternatives(SnapshotOf(r)) \subseteq DOMAIN assessments
<1> DEFINE x == SnapshotOf(r)
           g == x[1]
           n == x[2]
<1>1. x \in DOMAIN snapshots /\ g \in DOMAIN series /\ x = <<g, n>> /\ SnapshotOK(g, n)
  BY RollbackIsOneBack, SnapshotExists
<1>2. /\ Summarizable(g) /\ snapshots[x] = Summary(g)
      /\ snapshots[x].signal = "PERSISTENT_DRIFT_SIGNAL"
  BY DEF FreshSelection, FreshSnapshot
<1>3. Evaluated(g) = 1 .. n
  <2>1. DOMAIN Summary(g).evaluations = Evaluated(g)
    BY DEF Summary
  <2> QED BY <1>1, <1>2, <2>1 DEF SnapshotOK
<1>4. \A i \in Evaluated(g) : <<g, i>> \in DOMAIN reviews /\ reviews[<<g, i>>] = "ACKNOWLEDGE"
  BY <1>2 DEF Summarizable
<1>5. n - replicationPolicy.epochs + 1 .. n \subseteq Drifted(g)
  BY <1>1, <1>2 DEF SnapshotOK
<1>6. CurrentAdvantage(g, series[g][n].samples) <= 0
  <2>1. /\ selections[r].selected \in DOMAIN assessments
        /\ assessments[selections[r].selected].status # "ROLLBACK_UNSUPPORTED"
        /\ AssessmentOK(selections[r].selected)
    BY DEF AlternativesOK
  <2> QED BY <2>1 DEF AssessmentOK, SnapshotOf
<1>7. Alternatives(x) \subseteq DOMAIN assessments
  BY DEF FreshSelection, AlternativesOK
<1> QED BY <1>3, <1>4, <1>5, <1>6, <1>7 DEF Answered

LEMMA NewRollback ==
    ASSUME LineOK, PolicyOK, SnapshotsOK, AlternativesOK, SeriesOK, ExecutionsOK, [Next]_vars,
           NEW r, NEW applier, Apply(r, applier), NEW x, x = SnapshotOf(r),
           proposals[selections[r].selected].action = "SAFE_ROLLBACK"
    PROVE  RollbackOK(x)'
<1>1. r \in DOMAIN selections /\ FreshSelection(r)
  BY DEF Apply, AlternativesOK
<1>2. /\ x \in DOMAIN snapshots /\ x[1] = Current
      /\ Current \in 1 .. Len(line) - 1 /\ GraphAt(Current - 1) \in Graphs
  BY <1>1, RollbackIsOneBack
<1>3. Answered(x) /\ Alternatives(x) \subseteq DOMAIN assessments
  BY <1>1, FreshIsAnswered
<1>4. PICK n \in Nat, edges \in Graphs : n = Len(line) /\ edges = GraphAt(Current - 1)
  BY <1>2 DEF LineOK
<1>5. n >= 2 /\ Current = n - 1 /\ x[1] = n - 1 /\ line \in Seq(Graphs)
  BY <1>2, <1>4 DEF Current, LineOK
<1>6. line' = Append(line, edges)
  BY <1>4 DEF Apply, Revise
<1>7. /\ UNCHANGED <<confirmations, replicationPolicy, series, evaluations, reviews, snapshots,
                     proposals, assessments, selections>>
      /\ executions' = With(executions, x, [selection |-> r, action |-> "SAFE_ROLLBACK"])
  BY DEF Apply
<1>8. Len(line') = n + 1 /\ line'[n + 1] = edges /\ line'[n - 1] = edges
  <2>1. edges = line[n - 1]
    BY <1>4, <1>5 DEF GraphAt
  <2> QED BY <1>4, <1>5, <1>6, <2>1
<1>9. x[1] < Current' /\ GraphAt(x[1] + 1)' = GraphAt(x[1] - 1)'
  <2>1. Current' = n
    BY <1>8 DEF Current
  <2>2. GraphAt(n)' = edges /\ GraphAt(n - 2)' = edges
    BY <1>4, <1>8 DEF GraphAt
  <2> QED BY <1>5, <2>1, <2>2
<1>10. Answered(x)'
  <2>1. PICK g, m : g = x[1] /\ m = x[2] /\ g \in DOMAIN series
    BY <1>2, SnapshotExists
  <2>2. Evaluated(g)' = Evaluated(g) /\ Drifted(g)' = Drifted(g)
    BY <1>7 DEF Evaluated, Drifted
  <2>3. CurrentAdvantage(g, series[g][m].samples)' <= 0
    BY <1>2, <1>3, <2>1, LastBatchStays DEF Answered
  <2> QED BY <1>3, <1>7, <2>1, <2>2, <2>3 DEF Answered
<1>11. Alternatives(x)' \subseteq DOMAIN assessments'
  BY <1>3, <1>7 DEF Alternatives
<1>12. ASSUME NEW y \in DOMAIN executions', y[1] = x[1] PROVE y[2] <= x[2]
  <2>1. y \in DOMAIN snapshots
    BY <1>2, <1>7, <1>12 DEF With, ExecutionsOK
  <2>2. SnapshotOK(y[1], y[2]) /\ SnapshotOK(x[1], x[2])
    BY <1>2, <2>1, SnapshotExists
  <2>3. y[2] \in Nat \ {0} /\ x[2] \in Nat /\ y[2] \in Evaluated(x[1])
    BY <1>12, <2>2 DEF SnapshotOK
  <2> QED BY <1>3, <2>3 DEF Answered
<1> QED BY <1>9, <1>10, <1>11, <1>12 DEF RollbackOK

LEMMA ExecutionsStep ==
    ASSUME LineOK, PolicyOK, SnapshotsOK, AlternativesOK, SeriesOK, EvaluationsOK, ExecutionsOK, [Next]_vars
    PROVE  ExecutionsOK'
<1>1. Grown(executions, executions') /\ DOMAIN snapshots \subseteq DOMAIN snapshots'
  BY RemediationTablesMove, ReplicationTablesMove DEF RemediationTablesStep, ReplicationTablesStep, Grown
<1>2. ASSUME NEW x \in New(executions, executions')
      PROVE  x \in DOMAIN snapshots /\ (executions'[x].action = "SAFE_ROLLBACK" => RollbackOK(x)')
  <2>1. PICK r, applier : x = SnapshotOf(r) /\ Apply(r, applier)
    BY <1>2, RemediationTablesMove DEF RemediationTablesStep
  <2>2. r \in DOMAIN selections /\ FreshSelection(r)
    BY <2>1 DEF Apply, AlternativesOK
  <2>3. executions'[x].action = proposals[selections[r].selected].action
    BY <2>1 DEF Apply, With
  <2>4. x \in DOMAIN snapshots
    BY <2>1, <2>2, RollbackIsOneBack
  <2> QED BY <2>1, <2>3, <2>4, NewRollback
<1>3. DOMAIN executions' \subseteq DOMAIN snapshots'
  BY <1>1, <1>2 DEF New, ExecutionsOK
<1>4. ASSUME NEW x \in Rollbacks' PROVE RollbackOK(x)'
  <2>1. CASE x \in DOMAIN executions
    BY <1>1, <1>4, <2>1, RollbackStays DEF Rollbacks, Grown
  <2>2. CASE x \in New(executions, executions')
    BY <1>2, <1>4, <2>2 DEF Rollbacks
  <2> QED BY <1>4, <2>1, <2>2 DEF Rollbacks, New
<1> QED BY <1>3, <1>4 DEF ExecutionsOK
-----------------------------------------------------------------------------
(* The inductive invariant.                                                 *)
IInv ==
    /\ LineOK /\ PolicyOK
    /\ SeriesOK /\ EvaluationsOK /\ SnapshotsOK
    /\ AlternativesOK
    /\ ExecutionsOK

LEMMA Initially == Init => IInv
<1> SUFFICES ASSUME Init PROVE IInv
  OBVIOUS
<1>1. /\ line = << >> /\ confirmed = {} /\ confirmations = Nothing
      /\ replicationPolicy = Nothing /\ series = Nothing
      /\ evaluations = Nothing /\ reviews = Nothing /\ snapshots = Nothing
      /\ proposals = Nothing /\ assessments = Nothing /\ selections = Nothing
      /\ selectionReviews = Nothing /\ executions = Nothing
  BY DEF Init, ReplicationInit, LineInit
<1>2. << >> \in Seq(Graphs)
  OBVIOUS
<1>3. LineOK /\ PolicyOK /\ SeriesOK /\ EvaluationsOK /\ SnapshotsOK
  BY <1>1, <1>2, NothingIsEmpty DEF LineOK, PolicyOK, SeriesOK, EvaluationsOK, SnapshotsOK
<1>4. AlternativesOK /\ ExecutionsOK
  BY <1>1, NothingIsEmpty DEF AlternativesOK, ExecutionsOK, Rollbacks
<1> QED BY <1>3, <1>4 DEF IInv

LEMMA Inductive == IInv /\ [Next]_vars => IInv'
<1> SUFFICES ASSUME IInv, [Next]_vars PROVE IInv'
  OBVIOUS
<1> USE DEF IInv
<1>1. LineOK' /\ PolicyOK'
  BY LineGrows, PolicyStep
<1>2. SeriesOK' /\ EvaluationsOK' /\ SnapshotsOK'
  BY SeriesStaysOK, EvaluationsStep, SnapshotsStep
<1>3. AlternativesOK' /\ ExecutionsOK'
  BY AlternativesStep, ExecutionsStep
<1> QED BY <1>1, <1>2, <1>3

LEMMA Invariance == Spec => []IInv
BY Initially, Inductive, PTL DEF Spec
-----------------------------------------------------------------------------
(* A signal of persistent drift rests on as many evaluations in a row as the*)
(* policy asks for, on batches collected one after the other, after the     *)
(* confirmation, that share no resolution and no evidence with the batches  *)
(* of the series before them or with what the candidate was selected and    *)
(* confirmed on.                                                            *)
THEOREM DriftIsIndependent == Spec => []DriftOnIndependentData
<1>1. IInv => DriftOnIndependentData
  <2> SUFFICES ASSUME IInv PROVE DriftOnIndependentData
    OBVIOUS
  <2> DEFINE batches(x) == SubSeq(series[x[1]], 1, x[2])
             c(x)       == confirmations[x[1]]
  <2>1. ASSUME NEW x \in DOMAIN snapshots, snapshots[x].signal = "PERSISTENT_DRIFT_SIGNAL"
        PROVE  /\ x[2] >= replicationPolicy.epochs
               /\ \A i \in DOMAIN batches(x) :
                   /\ Apart(batches(x)[i].samples, c(x).training \cup c(x).batch)
                   /\ batches(x)[i].from >= c(x).evaluatedAt
                   /\ \A j \in 1 .. i - 1 :
                       /\ Apart(batches(x)[i].samples, batches(x)[j].samples)
                       /\ batches(x)[i].from > batches(x)[j].to
                   /\ i > x[2] - replicationPolicy.epochs => DriftedOn(x[1], batches(x)[i].samples)
    <3>1. PICK g, n : g = x[1] /\ n = x[2] /\ x = <<g, n>> /\ g \in DOMAIN series /\ SnapshotOK(g, n)
      BY SnapshotExists DEF IInv
    <3>2. /\ series[g] \in Seq(Sealed) /\ n \in Nat
          /\ \A i \in 1 .. n : i \in DOMAIN series[g] /\ BatchOK(g, i)
      BY <3>1 DEF IInv, SeriesOK, SnapshotOK, Evaluated
    <3>3. n <= Len(series[g])
      BY <3>2
    <3>4. DOMAIN batches(x) = 1 .. n /\ \A i \in 1 .. n : batches(x)[i] = series[g][i]
      BY <3>1, <3>2, <3>3
    <3>5. n >= replicationPolicy.epochs /\ n - replicationPolicy.epochs + 1 .. n \subseteq Drifted(g)
      BY <2>1, <3>1 DEF SnapshotOK
    <3>6. replicationPolicy.epochs \in Nat
      BY <3>1, ReplicationAssumption DEF IInv, PolicyOK
    <3>7. ASSUME NEW i \in 1 .. n, i > n - replicationPolicy.epochs PROVE DriftedOn(g, series[g][i].samples)
      <4>1. i \in Drifted(g)
        BY <3>2, <3>5, <3>6, <3>7
      <4>2. <<g, i>> \in DOMAIN evaluations /\ evaluations[<<g, i>>].status = "DRIFT_SIGNAL"
        BY <4>1 DEF Drifted, Evaluated
      <4>3. PICK h, j : <<g, i>> = <<h, j>> /\ EvaluationOK(h, j)
        BY <4>2 DEF IInv, EvaluationsOK
      <4> QED BY <4>2, <4>3 DEF EvaluationOK
    <3>8. \A i \in 1 .. n : \A j \in 1 .. i - 1 : j \in 1 .. n
      BY <3>2
    <3> QED BY <3>1, <3>2, <3>4, <3>5, <3>7, <3>8 DEF BatchOK, Data
  <2> QED BY <2>1 DEF DriftOnIndependentData, DriftedOn
<1> QED BY <1>1, Invariance, PTL

(* A rollback goes back by one generation, only from a confirmed graph whose*)
(* series of evaluations is acknowledged, ends in the drifts the policy asks*)
(* for and speaks against the confirmed edge at its end, and only once all  *)
(* alternatives were assessed; nothing that comes later changes that.       *)
THEOREM RollbacksAnswerDrift == Spec => []RollbackAnswersDrift
<1>1. IInv => RollbackAnswersDrift
  <2> SUFFICES ASSUME IInv PROVE RollbackAnswersDrift
    OBVIOUS
  <2>1. ASSUME NEW x \in Rollbacks PROVE x[1] \in confirmed /\ RollbackOK(x)
    <3>1. x \in DOMAIN snapshots /\ RollbackOK(x)
      BY DEF IInv, ExecutionsOK, Rollbacks
    <3> QED BY <3>1, SnapshotExists DEF IInv, LineOK
  <2> QED BY <2>1 DEF RollbackAnswersDrift, RollbackOK, Answered
<1> QED BY <1>1, Invariance, PTL
================================================================================
