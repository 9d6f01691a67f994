---------------------------- MODULE BayesianUpdate ----------------------------
(***************************************************************************)
(* The arithmetic of the Bayesian evidence loop (v1.10): probabilities and  *)
(* likelihoods are integers between 0 and Scale (10 000 basis points in the *)
(* code), and the posterior is a rounded quotient of integers.              *)
(***************************************************************************)
EXTENDS Integers

CONSTANT Scale   \* certainty

ASSUME ScaleAssumption == Scale \in Nat \ {0}

Outcomes == {"POSITIVE", "NEGATIVE", "INCONCLUSIVE"}

Probability == 0 .. Scale

(* Half a unit and more is rounded up.                                      *)
RoundRatio(numerator, denominator) == (numerator + denominator \div 2) \div denominator

(* How likely the outcome is if the hypothesis is true, and if it is not.   *)
IfTrue(test, outcome) ==
    IF outcome = "POSITIVE" THEN test.ifTrue ELSE Scale - test.ifTrue

IfFalse(test, outcome) ==
    IF outcome = "POSITIVE" THEN test.ifFalse ELSE Scale - test.ifFalse

TrueWeight(p, test, outcome) == p * IfTrue(test, outcome)

FalseWeight(p, test, outcome) == (Scale - p) * IfFalse(test, outcome)

(* The test gives the outcome some probability; otherwise the update is     *)
(* refused.                                                                 *)
Possible(p, test, outcome) ==
    outcome = "INCONCLUSIVE" \/ TrueWeight(p, test, outcome) + FalseWeight(p, test, outcome) > 0

(* Mutant: the negative outcome is weighed like the positive one.           *)
PosteriorOfPositive(p, test, outcome) ==
    IF outcome = "INCONCLUSIVE" THEN p
    ELSE RoundRatio(Scale * TrueWeight(p, test, "POSITIVE"),
                    TrueWeight(p, test, "POSITIVE") + FalseWeight(p, test, "POSITIVE"))

Posterior(p, test, outcome) ==
    IF outcome = "INCONCLUSIVE" THEN p
    ELSE LET true  == TrueWeight(p, test, outcome)
             ratio == RoundRatio(Scale * true, true + FalseWeight(p, test, outcome))
         IN IF ratio > Scale THEN Scale ELSE ratio
===============================================================================
