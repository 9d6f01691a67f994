--------------------------- MODULE MCStructureSearch ---------------------------
(* One pair of models, seen under two keys: what is taken for independent    *)
(* under the one goes together, and does not under the other, so that both   *)
(* directions of an edge may be proposed and an edge may be removed again.   *)
EXTENDS ProtectedConfirmation, TLC

Pair(mode) == [left |-> "a", right |-> "b", mode |-> mode]
Apparent == Pair("INDEPENDENT")
Assumed == Pair("CONDITIONAL")
MCKeys == {Apparent, Assumed}

(* Sample n; two outcomes, and whether it falls into the held-out part.      *)
Sample(key, n, left, right, heldOut) ==
    [key |-> key, resolution |-> n, leftPositive |-> left, rightPositive |-> right,
     heldOut |-> heldOut, evidence |-> {2 * n, 2 * n + 1}]

MCHistory ==
    {Sample(Apparent, 1, TRUE, TRUE, FALSE),
     Sample(Apparent, 2, TRUE, TRUE, FALSE),
     Sample(Apparent, 3, TRUE, FALSE, FALSE),
     Sample(Apparent, 4, FALSE, FALSE, FALSE),
     Sample(Apparent, 5, FALSE, FALSE, FALSE),
     Sample(Apparent, 6, TRUE, TRUE, TRUE),
     Sample(Assumed, 1, TRUE, TRUE, FALSE),
     Sample(Assumed, 2, TRUE, FALSE, FALSE),
     Sample(Assumed, 3, FALSE, TRUE, FALSE),
     Sample(Assumed, 4, FALSE, FALSE, FALSE)}

(* What calibration may add: it makes the other direction the better one.    *)
Later == Sample(Apparent, 7, FALSE, FALSE, TRUE)

(* Batches to seal: one that confirms, one that does not, one made of what   *)
(* calibration may add as well, resolved anew, and one made of old evidence. *)
Confirming == Sample(Apparent, 8, TRUE, TRUE, TRUE)
Rejecting == Sample(Apparent, 9, FALSE, TRUE, TRUE)
Leaked == [Later EXCEPT !.resolution = 10]
Old == [Confirming EXCEPT !.resolution = 11, !.evidence = {2, 20}]

MCHistories == {MCHistory}
MCNewSamples == {Later}
MCBatchContents == {{Confirming}, {Rejecting}, {Leaked}, {Old}}

MCHolders ==
    [proposer       |-> {"proposer"},
     validator      |-> {"validator", "proposer"},
     keeper         |-> {"keeper", "proposer"},
     selector       |-> {"selector"},
     batchKeeper    |-> {"batchKeeper"},
     exposureKeeper |-> {"exposureKeeper", "batchKeeper"},
     reviewer       |-> {"reviewer", "selector"}]

MCGraphSignals == {[minSamples |-> 2, threshold |-> 10]}
MCValidationPolicies == {[minSelection |-> 2, minEvaluation |-> 1, threshold |-> 10, penalty |-> 2]}
MCSearchPolicies == {[maxLooks |-> 2, base |-> 0, penalty |-> 16]}
MCConfirmationPolicies == {[minSamples |-> 1, minGain |-> 5]}
MCInitialEdges == {{}}

Symmetry == Permutations(Candidates) \cup Permutations(Batches)

-----------------------------------------------------------------------------
(* TLC's bounds: policies are registered in one order and before the graph,  *)
(* and then only some of the protocols meet: without confirmation, two       *)
(* candidates of v1.15 and v1.16, or one and a proposal of v1.14; with it,   *)
(* two candidates of v1.16, or one and a proposal of v1.14.                  *)
Prologue ==
    /\ searchPolicy # Nothing => validationPolicy # Nothing
    /\ confirmationPolicy # Nothing => searchPolicy # Nothing
    /\ graph # Nothing => confirmationPolicy # Nothing

Scope ==
    /\ Prologue
    /\ batches = Nothing \/ selections = Nothing
    /\ Cardinality(DOMAIN candidates) <= 1 \/ graphProposals = Nothing

(* One candidate, and a history that does not change.                        *)
RetryScope ==
    /\ Prologue
    /\ samples = MCHistory /\ graphProposals = Nothing /\ validations = Nothing
    /\ Cardinality(DOMAIN candidates) <= 1
    /\ \A c \in DOMAIN candidates : candidates[c].proposal.direction = "LEFT_TO_RIGHT"
=================================================================================
