--------------------------- MODULE MCModelRevision ---------------------------
(* Work of one subject that shares one distribution over two hypotheses.    *)
EXTENDS ModelRevision, TLC

CONSTANTS Refs, VerdictDecisions, Likely, Better

MCWorks == {[ref |-> r, subject |-> "s"] : r \in Refs}

MCVerdicts == [decision : VerdictDecisions, completedAt : Times]

Even == [h \in Hypotheses |-> Scale \div Cardinality(Hypotheses)]

MCPriors == {[ref |-> "d", subject |-> "s", generation |-> 0, probability |-> Even]}

(* How likely a positive outcome is if the first hypothesis is true.        *)
Likelihood(p) == [h \in Hypotheses |-> IF h = 1 THEN p ELSE 3]

MCTests == {[ref |-> "t", likelihood |-> Likelihood(p)] : p \in Likely}

MCProposed == {Likelihood(p) : p \in Better}

MCMeanings == {[PASS |-> "POSITIVE", HOLD |-> "INCONCLUSIVE", FAIL |-> "NEGATIVE"]}

MCSignals == {[minSamples |-> 1, threshold |-> 2]}

Symmetry == Permutations(Refs) \cup Permutations(Proposals) \cup Permutations(People)
===============================================================================
