------------------------ MODULE HypothesisDistribution ------------------------
(***************************************************************************)
(* The arithmetic of multi-hypothesis evidence (v1.11): belief is spread    *)
(* over competing hypotheses in Scale units (10 000 basis points in the     *)
(* code), and what the division of a posterior leaves over goes to the      *)
(* largest remainders.                                                      *)
(***************************************************************************)
EXTENDS Integers, FiniteSets, Functions

CONSTANTS
    Scale,      \* certainty
    Hypotheses  \* numbered in the order of their names

ASSUME DistributionAssumption ==
    /\ Scale \in Nat \ {0}
    /\ Hypotheses \subseteq Nat /\ IsFiniteSet(Hypotheses) /\ Cardinality(Hypotheses) >= 2

Outcomes == {"POSITIVE", "NEGATIVE", "INCONCLUSIVE"}

Total(weights) == SumFunction(weights)

Distributions == {p \in [Hypotheses -> 0 .. Scale] : Total(p) = Scale}

Likelihoods == [Hypotheses -> 0 .. Scale]

Floor(weights, h) == (weights[h] * Scale) \div Total(weights)

Remainder(weights, h) == (weights[h] * Scale) % Total(weights)

(* Units the floors leave over.                                             *)
LeftOver(weights) == Scale - Total([h \in Hypotheses |-> Floor(weights, h)])

(* Those that come before h when the units left over are given out.         *)
Ahead(weights, h) ==
    {k \in Hypotheses :
        \/ Remainder(weights, k) > Remainder(weights, h)
        \/ Remainder(weights, k) = Remainder(weights, h) /\ k < h}

(* Mutant: what the division leaves over is lost.                           *)
NormalizedDown(weights) == [h \in Hypotheses |-> Floor(weights, h)]

Normalized(weights) ==
    [h \in Hypotheses |->
        Floor(weights, h) +
        IF Cardinality(Ahead(weights, h)) < LeftOver(weights) THEN 1 ELSE 0]

Weights(prior, likelihood, outcome) ==
    [h \in Hypotheses |->
        prior[h] * IF outcome = "POSITIVE" THEN likelihood[h] ELSE Scale - likelihood[h]]

(* Some hypothesis gives the outcome a chance; otherwise it is refused.     *)
Possible(prior, likelihood, outcome) ==
    outcome = "INCONCLUSIVE" \/ Total(Weights(prior, likelihood, outcome)) > 0

Posterior(prior, likelihood, outcome) ==
    IF outcome = "INCONCLUSIVE" THEN prior ELSE Normalized(Weights(prior, likelihood, outcome))
===============================================================================
