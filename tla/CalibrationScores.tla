-------------------------- MODULE CalibrationScores --------------------------
(***************************************************************************)
(* The arithmetic of calibration (v1.12): Brier scores, their means, and    *)
(* the gap between the joint rate of two outcomes and what independence     *)
(* would make it, all as rounded integers.                                  *)
(***************************************************************************)
EXTENDS HypothesisDistribution

CONSTANT Units   \* a Brier score of 1 (a million in the code)

ASSUME UnitsAssumption == Units \in Nat \ {0}

(* Half a unit and more is rounded away from zero.                          *)
RoundRatio(numerator, denominator) ==
    IF numerator >= 0
    THEN (numerator + denominator \div 2) \div denominator
    ELSE -((-numerator + denominator \div 2) \div denominator)

(* The square of the error of a prediction.                                 *)
BinaryBrier(predicted, positive) ==
    LET error == (IF positive THEN Scale ELSE 0) - predicted
    IN RoundRatio(error * error * Units, Scale * Scale)

MeanOf(f) == RoundRatio(Total(f), Cardinality(DOMAIN f))

Magnitude(n) == IF n < 0 THEN -n ELSE n

(* DependencyCalibrationSnapshot for the pairs with one key.                *)
IndependenceGap(samples) ==
    LET n     == Cardinality(samples)
        left  == Cardinality({s \in samples : s.leftPositive})
        right == Cardinality({s \in samples : s.rightPositive})
        both  == Cardinality({s \in samples : s.leftPositive /\ s.rightPositive})
    IN RoundRatio(Scale * (both * n - left * right), n * n)

Assessment(samples, mode, minSamples, threshold) ==
    IF Cardinality(samples) < minSamples THEN "INSUFFICIENT_SAMPLES"
    ELSE IF mode = "INDEPENDENT"
    THEN IF Magnitude(IndependenceGap(samples)) >= threshold
         THEN "INDEPENDENCE_CHALLENGED" ELSE "NO_DEPENDENCY_SIGNAL"
    ELSE IF Magnitude(IndependenceGap(samples)) >= threshold
         THEN "CONDITIONAL_DEPENDENCY_SUPPORTED" ELSE "CONDITIONAL_DEPENDENCY_NOT_OBSERVED"
===============================================================================
