---------------------------- MODULE GraphStructure ----------------------------
(***************************************************************************)
(* Dependency graphs over models (v1.14 on) and the arithmetic by which a   *)
(* change of one edge is judged: how well the outcome of one model is       *)
(* predicted with and without knowing the outcome of another.               *)
(*                                                                         *)
(* A graph is a set of edges <<parent, child>>.  Samples are pairs of       *)
(* outcomes as calibration collects them; which of the two belongs to the   *)
(* parent depends on the direction a candidate edge is given.               *)
(***************************************************************************)
EXTENDS CalibrationScores

Directions == {"LEFT_TO_RIGHT", "RIGHT_TO_LEFT"}

Edge(key, direction) ==
    IF direction = "LEFT_TO_RIGHT" THEN <<key.left, key.right>> ELSE <<key.right, key.left>>

Nodes(edges) == UNION {{e[1], e[2]} : e \in edges}

(* Every set of nodes has one that none of them conditions.                 *)
Acyclic(edges) ==
    \A nodes \in SUBSET Nodes(edges) \ {{}} :
        \E n \in nodes : \A e \in edges : e[1] \in nodes => e[2] # n

(* One edge added if it is absent, removed if it is present.                *)
Toggled(edges, edge) == IF edge \in edges THEN edges \ {edge} ELSE edges \cup {edge}

(* Mutant: an edge may be added although it closes a cycle.                 *)
ProposableAnyway(edges, key, direction, assessment) ==
    \/ assessment = "INDEPENDENCE_CHALLENGED" /\ Edge(key, direction) \notin edges
    \/ /\ assessment = "CONDITIONAL_DEPENDENCY_NOT_OBSERVED"
       /\ direction = "LEFT_TO_RIGHT"
       /\ Edge(key, direction) \in edges

(* make_structural_graph_revision_proposal: what a calibration assessment   *)
(* lets one propose.                                                        *)
Proposable(edges, key, direction, assessment) ==
    LET edge == Edge(key, direction) IN
    \/ /\ assessment = "INDEPENDENCE_CHALLENGED"
       /\ edge \notin edges
       /\ Acyclic(Toggled(edges, edge))
    \/ /\ assessment = "CONDITIONAL_DEPENDENCY_NOT_OBSERVED"
       /\ direction = "LEFT_TO_RIGHT"
       /\ edge \in edges

-----------------------------------------------------------------------------
ParentPositive(s, direction) ==
    IF direction = "LEFT_TO_RIGHT" THEN s.leftPositive ELSE s.rightPositive

ChildPositive(s, direction) ==
    IF direction = "LEFT_TO_RIGHT" THEN s.rightPositive ELSE s.leftPositive

(* What the child of s is predicted from.                                   *)
Population(training, s, direction, conditional) ==
    {t \in training :
        conditional => ParentPositive(t, direction) = ParentPositive(s, direction)}

Prediction(training, s, direction, conditional) ==
    LET population == Population(training, s, direction, conditional) IN
    RoundRatio(Scale * Cardinality({t \in population : ChildPositive(t, direction)}),
               Cardinality(population))

(* Training is a function from the samples to be predicted.  Those are      *)
(* scored for which both predictions have a population; the conditional one *)
(* is a part of the other.                                                  *)
LeaveOneOut(samples) == [s \in samples |-> samples \ {s}]

TrainedOn(samples, cases) == [s \in cases |-> samples]

Scorable(training, direction) ==
    {s \in DOMAIN training : Population(training[s], s, direction, TRUE) # {}}

MeanError(training, direction, conditional) ==
    MeanOf([s \in Scorable(training, direction) |->
        BinaryBrier(Prediction(training[s], s, direction, conditional), ChildPositive(s, direction))])

(* By how much the mean error falls if the edge is toggled.                 *)
Improvement(training, direction, adds) ==
    MeanError(training, direction, ~adds) - MeanError(training, direction, adds)

(* The same less a penalty for each edge of a graph.                        *)
Regularized(improvement, base, edges, penalty) ==
    improvement + penalty * (Cardinality(base) - Cardinality(edges))

(* The ones with the highest score.                                         *)
Best(score) == {c \in DOMAIN score : \A d \in DOMAIN score : score[d] <= score[c]}
-----------------------------------------------------------------------------
(* Mutant: what is not the same sample is fresh.                            *)
SameSample(s, t) == s = t

(* Two samples of one resolution, or with evidence in common.               *)
SameProvenance(s, t) == s.resolution = t.resolution \/ s.evidence \cap t.evidence # {}

Apart(these, those) == \A s \in these, t \in those : ~SameProvenance(s, t)
===============================================================================
