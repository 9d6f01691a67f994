------------------------------ MODULE Replication ------------------------------
(***************************************************************************)
(* Replication of a confirmed graph (v1.18): as long as it is current, new  *)
(* data is sealed in batches, window after window; somebody else evaluates  *)
(* each of them once, others acknowledge or dispute what came out, and a    *)
(* snapshot says of the whole series whether the edge that was confirmed    *)
(* still earns its place.                                                   *)
(*                                                                         *)
(* The graph is what GraphLine promises of it.  A target is known by the    *)
(* generation that was confirmed, one target for each; a batch by its place *)
(* in the target's series.                                                  *)
(***************************************************************************)
EXTENDS GraphStructure, GraphLine, GenerationTable

CONSTANTS
    Confirmations,         \* [key, direction, training, batch, evaluatedAt, source,
                           \*  proposer, evaluator]: what v1.17 may have confirmed
    EdgePenalty,           \* of the v1.15 policy
    FirstHistory,          \* what the pairs' histories and confirmation batches hold at first
    NewSamples,            \* what may be added to them
    Collections,           \* [samples, from, to, source]: what may be sealed
    ReplicationPolicies,   \* [minSamples, minGap, minImprovement, maxDegradation, epochs]
    Holders                \* who holds each role

ASSUME ReplicationAssumption ==
    /\ EdgePenalty \in Nat
    /\ \A c \in Confirmations : \A s \in c.training \cup c.batch : s.key = c.key
    /\ \A p \in ReplicationPolicies :
        /\ {p.minSamples, p.epochs} \subseteq Nat \ {0}
        /\ {p.minGap, p.minImprovement, p.maxDegradation} \subseteq Nat
    /\ \A c \in Collections : c.samples # {} /\ {c.from, c.to} \subseteq Nat /\ c.from <= c.to

VARIABLES
    confirmations,      \* table protected_confirmation_revision_history, by generation
    used,               \* samples of the calibration plane and of confirmation batches
    replicationPolicy,  \* table replication_policy
    series,             \* tables replication_target, replication_batch: sequences by target
    evaluations,        \* table replication_evaluation, by <<target, batch>>
    reviews,            \* table replication_review, likewise
    snapshots           \* table replication_snapshot, by <<target, count>>

environmentVars == <<lineVars, confirmations, used>>
replicationVars == <<environmentVars, replicationPolicy, series, evaluations, reviews, snapshots>>

ReplicationInit ==
    /\ LineInit
    /\ confirmations = Nothing
    /\ used = FirstHistory
    /\ replicationPolicy = Nothing
    /\ series = Nothing
    /\ evaluations = Nothing
    /\ reviews = Nothing
    /\ snapshots = Nothing

GraphAt(generation) == line[generation + 1]

-----------------------------------------------------------------------------
(* What the protocols v1.14 to v1.17 and calibration do meanwhile.          *)
Confirm(c) ==
    /\ line # << >>
    /\ c.training \cup c.batch \subseteq used
    /\ LET edges == Toggled(GraphAt(Current), Edge(c.key, c.direction)) IN
        edges \in Graphs /\ ReviseConfirmed(edges)
    /\ confirmations' = With(confirmations, Current + 1, c)
    /\ UNCHANGED used

EnvironmentStep ==
    \/ /\ \E edges \in Graphs : Register(edges) \/ Revise(edges)
       /\ UNCHANGED <<confirmations, used>>
    \/ \E c \in Confirmations : Confirm(c)
    \/ \E s \in NewSamples \ used :
        used' = used \cup {s} /\ UNCHANGED <<lineVars, confirmations>>

-----------------------------------------------------------------------------
RegisterReplicationPolicy(policy) ==
    /\ replicationPolicy = Nothing
    /\ replicationPolicy' = policy
    /\ UNCHANGED <<environmentVars, series, evaluations, reviews, snapshots>>

RegisterTarget(g) ==
    /\ replicationPolicy # Nothing
    /\ g \in DOMAIN confirmations \ DOMAIN series
    /\ g = Current
    /\ series' = With(series, g, << >>)
    /\ UNCHANGED <<environmentVars, replicationPolicy, evaluations, reviews, snapshots>>

-----------------------------------------------------------------------------
Modes == {"TEMPORAL", "EXTERNAL", "TEMPORAL_EXTERNAL"}

(* make_replication_batch: when and where data may have been collected.     *)
InWindow(c, collection, earlier) ==
    /\ \A s \in collection.samples : s.at \in collection.from .. collection.to
    /\ collection.from >= c.evaluatedAt
    /\ earlier # << >> => collection.from > earlier[Len(earlier)].to

FitsMode(c, collection, mode) ==
    /\ mode # "EXTERNAL" => collection.from - c.evaluatedAt >= replicationPolicy.minGap
    /\ mode # "TEMPORAL" => collection.source # c.source

Seen(key) == {s \in used : s.key = key}

Holding(earlier) == UNION {earlier[i].samples : i \in DOMAIN earlier}

(* Mutant: what the target was replicated on before is not compared.        *)
FreshForThePair(key, contents, earlier) == Apart(contents, Seen(key))

(* assert_replication_freshness.                                            *)
FreshForReplication(key, contents, earlier) == Apart(contents, Seen(key) \cup Holding(earlier))

(* Who made the candidate and who confirmed it.                             *)
Interested(c) == {c.proposer, c.evaluator}

SealReplication(g, collection, mode, keeper) ==
    LET c == confirmations[g] IN
    /\ g \in DOMAIN series
    /\ g = Current
    /\ \A s \in collection.samples : s.key = c.key /\ Apart({s}, collection.samples \ {s})
    /\ InWindow(c, collection, series[g])
    /\ FitsMode(c, collection, mode)
    /\ keeper \notin Interested(c)
    /\ FreshForReplication(c.key, collection.samples, series[g])
    /\ series' = [series EXCEPT ![g] = Append(@,
          [samples |-> collection.samples, from |-> collection.from, to |-> collection.to,
           keeper |-> keeper])]
    /\ UNCHANGED <<environmentVars, replicationPolicy, evaluations, reviews, snapshots>>

-----------------------------------------------------------------------------
(* evaluate_replication: the model of the candidate, fitted to the data it  *)
(* was selected on, against the graph without the edge and against itself   *)
(* at its confirmation.                                                     *)
Fitted(c, samples) == TrainedOn(c.training, samples)

CurrentAdvantage(g, samples) ==
    Regularized(Improvement(Fitted(confirmations[g], samples), confirmations[g].direction, TRUE),
                GraphAt(g - 1), GraphAt(g), EdgePenalty)

Degradation(c, samples) ==
    MeanError(Fitted(c, samples), c.direction, TRUE) - MeanError(Fitted(c, c.batch), c.direction, TRUE)

ReplicationStatus(g, samples) ==
    IF Cardinality(Scorable(Fitted(confirmations[g], samples), confirmations[g].direction))
           < replicationPolicy.minSamples
    THEN "INSUFFICIENT_REPLICATION"
    ELSE IF \/ CurrentAdvantage(g, samples) <= replicationPolicy.minImprovement
            \/ Degradation(confirmations[g], samples) > replicationPolicy.maxDegradation
    THEN "DRIFT_SIGNAL"
    ELSE "REPLICATED"

(* The confirmed edge must be in the graph: that an edge was rightly removed*)
(* cannot be evaluated.                                                     *)
EvaluateReplication(g, i, evaluator) ==
    LET c == confirmations[g]
        b == series[g][i]
    IN /\ g \in DOMAIN series /\ i \in DOMAIN series[g]
       /\ <<g, i>> \notin DOMAIN evaluations
       /\ g = Current
       /\ FreshForReplication(c.key, b.samples, SubSeq(series[g], 1, i - 1))
       /\ evaluator \notin Interested(c) \cup {b.keeper}
       /\ Edge(c.key, c.direction) \in GraphAt(g)
       /\ evaluations' = With(evaluations, <<g, i>>,
             [status |-> ReplicationStatus(g, b.samples), evaluator |-> evaluator])
       /\ UNCHANGED <<environmentVars, replicationPolicy, series, reviews, snapshots>>

ReplicationDecisions == {"ACKNOWLEDGE", "HOLD", "DISPUTE"}

ReviewReplication(x, decision, reviewer) ==
    /\ x \in DOMAIN evaluations \ DOMAIN reviews
    /\ reviewer \notin {series[x[1]][x[2]].keeper, evaluations[x].evaluator}
    /\ reviews' = With(reviews, x, decision)
    /\ UNCHANGED <<environmentVars, replicationPolicy, series, evaluations, snapshots>>

-----------------------------------------------------------------------------
Evaluated(g) == {i \in DOMAIN series[g] : <<g, i>> \in DOMAIN evaluations}

(* What summarize_replication_series insists on.                            *)
Summarizable(g) ==
    LET count == Cardinality(Evaluated(g)) IN
    /\ count > 0 /\ Evaluated(g) = 1 .. count
    /\ \A i \in Evaluated(g) : <<g, i>> \in DOMAIN reviews /\ reviews[<<g, i>>] = "ACKNOWLEDGE"

Drifted(g) == {i \in Evaluated(g) : evaluations[<<g, i>>].status = "DRIFT_SIGNAL"}

Signal(g) ==
    LET count == Cardinality(Evaluated(g)) IN
    IF count >= replicationPolicy.epochs /\ count - replicationPolicy.epochs + 1 .. count \subseteq Drifted(g)
    THEN "PERSISTENT_DRIFT_SIGNAL"
    ELSE IF Drifted(g) # {} THEN "DRIFT_OBSERVED"
    ELSE "STABLE_HISTORY"

Summary(g) == [evaluations |-> [i \in Evaluated(g) |-> evaluations[<<g, i>>]], signal |-> Signal(g)]

FinalizeSnapshot(g) ==
    /\ g \in DOMAIN series
    /\ Summarizable(g)
    /\ <<g, Cardinality(Evaluated(g))>> \notin DOMAIN snapshots
    /\ snapshots' = With(snapshots, <<g, Cardinality(Evaluated(g))>>, Summary(g))
    /\ UNCHANGED <<environmentVars, replicationPolicy, series, evaluations, reviews>>

ReplicationStep ==
    \/ \E policy \in ReplicationPolicies : RegisterReplicationPolicy(policy)
    \/ \E g \in DOMAIN confirmations :
        \/ RegisterTarget(g)
        \/ \E collection \in Collections, mode \in Modes, keeper \in Holders.batchKeeper :
              SealReplication(g, collection, mode, keeper)
        \/ \E i \in 1 .. Cardinality(Collections), evaluator \in Holders.evaluator :
              EvaluateReplication(g, i, evaluator)
        \/ FinalizeSnapshot(g)
    \/ \E x \in DOMAIN evaluations, decision \in ReplicationDecisions, reviewer \in Holders.reviewer :
          ReviewReplication(x, decision, reviewer)

-----------------------------------------------------------------------------
(* I-345 to I-352, I-366: a signal of drift that persists is not one         *)
(* observation counted twice.  It rests on at least so many evaluations in   *)
(* a row as the policy asks for, on data collected after the confirmation,   *)
(* window after window, that neither what the candidate was selected or      *)
(* confirmed on nor an earlier batch of the series shares a resolution or a  *)
(* piece of evidence with, whatever calibration and other keepers added      *)
(* between sealing and evaluation.  Batches of other edges are not compared. *)
DriftOnIndependentData ==
    \A x \in DOMAIN snapshots : snapshots[x].signal = "PERSISTENT_DRIFT_SIGNAL" =>
        LET c       == confirmations[x[1]]
            batches == SubSeq(series[x[1]], 1, x[2])
        IN /\ x[2] >= replicationPolicy.epochs
           /\ \A i \in DOMAIN batches :
               /\ Apart(batches[i].samples, c.training \cup c.batch)
               /\ batches[i].from >= c.evaluatedAt
               /\ \A j \in 1 .. i - 1 :
                   /\ Apart(batches[i].samples, batches[j].samples)
                   /\ batches[i].from > batches[j].to
               /\ i > x[2] - replicationPolicy.epochs =>
                   \/ CurrentAdvantage(x[1], batches[i].samples) <= replicationPolicy.minImprovement
                   \/ Degradation(c, batches[i].samples) > replicationPolicy.maxDegradation
===============================================================================
