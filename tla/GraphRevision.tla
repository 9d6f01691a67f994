---------------------------- MODULE GraphRevision ----------------------------
(***************************************************************************)
(* Revising the dependency graph of a subject (v1.14): what calibration     *)
(* says of a pair of tests lets somebody propose to add or to remove one    *)
(* edge; the proposal is replayed on the pair's history, somebody else      *)
(* reviews the replay, and what was approved is applied if neither the      *)
(* graph nor the history has changed.                                       *)
(*                                                                         *)
(* One subject, whose graph the protocols v1.14 to v1.19 all write; every   *)
(* step is one BEGIN IMMEDIATE transaction.  A proposal's reference is never*)
(* used again and stands for its hash, and the hash chain of a graph is the *)
(* sequence of references that led to it.                                   *)
(***************************************************************************)
EXTENDS GraphStructure, GenerationTable, Sequences

CONSTANTS
    InitialEdges,  \* sets of edges a graph is registered with
    Keys,          \* keys of pairs: [left, right, mode, truth]
    Histories,     \* sets of samples the plane is first used on
    NewSamples,    \* samples calibration may still add
    GraphProposals,
    GraphSignals,  \* policies of requests: [minSamples, threshold]
    ReplayMinima,  \* how many cases replays ask for
    Holders        \* who holds each role

(* The primary key of the table of pairs.                                   *)
OneForEachResolution(pairs) ==
    \A s, t \in pairs : s.key = t.key /\ s.resolution = t.resolution => s = t

ASSUME GraphAssumption ==
    /\ \A p \in GraphSignals : p.minSamples \in Nat \ {0} /\ p.threshold \in 0 .. Scale
    /\ ReplayMinima \subseteq Nat \ {0, 1}
    /\ \A edges \in InitialEdges : Acyclic(edges)
    /\ \A history \in Histories : OneForEachResolution(history)

VARIABLES
    graph,          \* table dependency_graph_current
    samples,        \* table calibration_dependency_pair
    graphProposals, \* table dependency_graph_revision_proposal
    graphReplays,   \* table dependency_graph_revision_replay
    graphReviews,   \* table dependency_graph_revision_review
    graphRevisions  \* table dependency_graph_revision_history

graphTables == <<graphProposals, graphReplays, graphReviews, graphRevisions>>
graphVars == <<graph, samples, graphTables>>

GraphInit ==
    /\ graph = Nothing
    /\ samples \in Histories
    /\ graphProposals = Nothing
    /\ graphReplays = Nothing
    /\ graphReviews = Nothing
    /\ graphRevisions = Nothing

History(key) == {s \in samples : s.key = key}

(* The calibration plane records a pair, one for a key and a resolution.    *)
RecordSample(s) ==
    /\ \A t \in samples : t.key # s.key \/ t.resolution # s.resolution
    /\ samples' = samples \cup {s}
    /\ UNCHANGED <<graph, graphTables>>

RegisterGraph(edges) ==
    /\ graph = Nothing
    /\ graph' = [edges |-> edges, generation |-> 0, evidence |-> << >>]
    /\ UNCHANGED <<samples, graphTables>>

-----------------------------------------------------------------------------
(* StructuralGraphRevisionProposal.                                         *)
Proposal(key, direction, proposer) ==
    [key       |-> key,
     direction |-> direction,
     base      |-> graph,
     edges     |-> Toggled(graph.edges, Edge(key, direction)),
     proposer  |-> proposer]

Adds(proposal) == Edge(proposal.key, proposal.direction) \in proposal.edges

RegisterProposal(p, key, direction, policy, proposer) ==
    /\ graph # Nothing
    /\ p \notin DOMAIN graphProposals
    /\ History(key) # {}
    /\ Proposable(graph.edges, key, direction,
                  Assessment(History(key), key.mode, policy.minSamples, policy.threshold))
    /\ graphProposals' = With(graphProposals, p, Proposal(key, direction, proposer))
    /\ UNCHANGED <<graph, samples, graphReplays, graphReviews, graphRevisions>>

(* replay_structural_graph_revision.                                        *)
ReplayStatus(proposal, history, minCases) ==
    LET training == LeaveOneOut(history) IN
    IF Cardinality(Scorable(training, proposal.direction)) < minCases THEN "INSUFFICIENT_REPLAY"
    ELSE IF Improvement(training, proposal.direction, Adds(proposal)) > 0 THEN "STRUCTURE_IMPROVED"
    ELSE "NO_STRUCTURE_IMPROVEMENT"

Replay(proposal, minCases) ==
    LET history == History(proposal.key) IN
    [history  |-> history,
     minCases |-> minCases,
     status   |-> ReplayStatus(proposal, history, minCases)]

(* Mutant: whatever the graph is now.                                       *)
AnyBase(base) == graph # Nothing

(* The graph hash binds generation and evidence.                            *)
BaseIsCurrent(base) == graph = base

RecordReplay(p, minCases) ==
    /\ p \in DOMAIN graphProposals \ DOMAIN graphReplays
    /\ BaseIsCurrent(graphProposals[p].base)
    /\ graphReplays' = With(graphReplays, p, Replay(graphProposals[p], minCases))
    /\ UNCHANGED <<graph, samples, graphProposals, graphReviews, graphRevisions>>

RecordReview(p, decision, reviewer) ==
    /\ p \in DOMAIN graphReplays \ DOMAIN graphReviews
    /\ reviewer # graphProposals[p].proposer
    /\ decision = "APPROVE" => graphReplays[p].status = "STRUCTURE_IMPROVED"
    /\ graphReviews' = With(graphReviews, p, [decision |-> decision, reviewer |-> reviewer])
    /\ UNCHANGED <<graph, samples, graphProposals, graphReplays, graphRevisions>>

(* apply_structural_graph_revision: what every protocol makes of the graph. *)
Successor(edges, ref) ==
    [edges      |-> edges,
     generation |-> graph.generation + 1,
     evidence   |-> Append(graph.evidence, ref)]

Revision(edges, ref) == [base |-> graph, new |-> Successor(edges, ref)]

SameReplayState(p) == graphReplays[p] = Replay(graphProposals[p], graphReplays[p].minCases)

ApplyRevision(p) ==
    /\ p \in DOMAIN graphReviews \ DOMAIN graphRevisions
    /\ BaseIsCurrent(graphProposals[p].base)
    /\ SameReplayState(p)
    /\ graphReplays[p].status = "STRUCTURE_IMPROVED" /\ graphReviews[p].decision = "APPROVE"
    /\ graph' = Successor(graphProposals[p].edges, p)
    /\ graphRevisions' = With(graphRevisions, p, Revision(graphProposals[p].edges, p))
    /\ UNCHANGED <<samples, graphProposals, graphReplays, graphReviews>>

Decisions == {"APPROVE", "HOLD", "REJECT"}

GraphStep ==
    \/ \E edges \in InitialEdges : RegisterGraph(edges)
    \/ \E s \in NewSamples : RecordSample(s)
    \/ \E p \in GraphProposals :
        \/ \E key \in Keys, direction \in Directions, policy \in GraphSignals, proposer \in Holders.proposer :
              RegisterProposal(p, key, direction, policy, proposer)
        \/ \E minCases \in ReplayMinima : RecordReplay(p, minCases)
        \/ \E decision \in Decisions, reviewer \in Holders.reviewer : RecordReview(p, decision, reviewer)
        \/ ApplyRevision(p)
===============================================================================
