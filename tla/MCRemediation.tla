----------------------------- MODULE MCRemediation -----------------------------
(* One pair of models and one direction in which an edge between them may be *)
(* confirmed: added to the graph, or, where it is the graph's first, removed.*)
EXTENDS Remediation, TLC

Key == [left |-> "a", right |-> "b", mode |-> "INDEPENDENT"]

Sample(n, left, right, at, evidence) ==
    [key |-> Key, resolution |-> n, leftPositive |-> left, rightPositive |-> right,
     at |-> at, evidence |-> evidence]

MCTraining ==
    {Sample(1, TRUE, TRUE, 0, {2, 3}),
     Sample(2, TRUE, TRUE, 0, {4, 5}),
     Sample(3, TRUE, FALSE, 0, {6, 7}),
     Sample(4, FALSE, FALSE, 0, {8, 9}),
     Sample(5, FALSE, FALSE, 0, {10, 11})}

MCConfirming == {Sample(6, TRUE, TRUE, 1, {12, 13})}

MCConfirmations ==
    {[key |-> Key, direction |-> "LEFT_TO_RIGHT", training |-> MCTraining, batch |-> MCConfirming,
      evaluatedAt |-> 2, source |-> "confirmed", proposer |-> "modeller", evaluator |-> "confirmer"]}

MCHistory == MCTraining \cup MCConfirming

Collection(s, source) == [samples |-> {s}, from |-> s.at, to |-> s.at, source |-> source]

(* Two drifts, the second of which speaks for a rollback; what was observed  *)
(* the second time again, resolved anew; a success; and what is too early.   *)
Weaker == Sample(7, FALSE, FALSE, 3, {14, 15})
Worse == Sample(8, FALSE, TRUE, 4, {16, 17})
Again == Sample(9, FALSE, TRUE, 5, {16, 18})
Stable == Sample(10, TRUE, TRUE, 5, {19, 20})
Early == Sample(11, FALSE, TRUE, 1, {21, 22})

MCCollections ==
    {Collection(Weaker, "confirmed"), Collection(Worse, "elsewhere"), Collection(Again, "elsewhere"),
     Collection(Stable, "elsewhere"), Collection(Early, "elsewhere")}

(* What calibration may add: a pair that the second drift is observed with.  *)
MCNewSamples == {Sample(12, TRUE, TRUE, 3, {17, 23})}

MCGraphs == {{}, {<<"a", "b">>}, {<<"b", "a">>}}

MCHolders ==
    [batchKeeper         |-> {"batchKeeper", "modeller"},
     evaluator           |-> {"evaluator", "batchKeeper"},
     reviewer            |-> {"reviewer", "evaluator"},
     proposer            |-> {"proposer"},
     assessor            |-> {"assessor", "evaluator"},
     selector            |-> {"selector", "assessor"},
     remediationReviewer |-> {"reviewer", "selector"},
     applier             |-> {"applier", "reviewer"}]

MCReplicationPolicies ==
    {[minSamples |-> 1, minGap |-> 1, minImprovement |-> 20, maxDegradation |-> 5, epochs |-> e] : e \in {1, 2}}

MCAllowedActions == {{"STRUCTURAL_REVISION", "SAFE_ROLLBACK"}}

Symmetry == Permutations(Proposals)

-----------------------------------------------------------------------------
(* TLC's bounds: policies are registered before the graph, which is revised  *)
(* at most twice; what is disputed or held and what calibration adds is      *)
(* combined with one proposal at most.                                       *)
Scope ==
    /\ line # << >> => replicationPolicy # Nothing /\ remediationPolicy # {}
    /\ Len(line) <= 3
    /\ \/ Cardinality(DOMAIN proposals) <= 1
       \/ /\ used = MCHistory
          /\ \A x \in DOMAIN reviews : reviews[x] = "ACKNOWLEDGE"
          /\ \A r \in DOMAIN selectionReviews : selectionReviews[r].decision = "APPROVE"
=================================================================================
