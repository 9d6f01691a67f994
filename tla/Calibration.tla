----------------------------- MODULE Calibration -----------------------------
(***************************************************************************)
(* How well the observer predicted (v1.12).  Keepers freeze, before work is *)
(* completed, the model and the declaration its evidence is going to be     *)
(* judged by; a resolver later settles which hypothesis was true; recorders *)
(* score the frozen prediction against the accepted evidence and collect    *)
(* pairs of outcomes from which dependence between tests is estimated.      *)
(*                                                                         *)
(* Every operation is one BEGIN IMMEDIATE transaction; reports only read.   *)
(* All declarations belong to one dependency group.  The forecast receipt   *)
(* is written with the likelihood receipt and follows from the same target  *)
(* and resolution, so one score stands for both.                            *)
(***************************************************************************)
EXTENDS MultiEvidence, CalibrationScores

CONSTANT Families   \* calibration families targets are committed to

VARIABLES
    targets,      \* table calibration_target
    resolutions,  \* table calibration_resolution
    scores,       \* tables calibration_forecast_history, calibration_likelihood_history
    pairs         \* table calibration_dependency_pair

calibration == <<targets, resolutions, scores, pairs>>
calibrationVars == <<evidenceVars, calibration>>

-----------------------------------------------------------------------------
Conclusive(w) == accepted[w].outcome # "INCONCLUSIVE"

-----------------------------------------------------------------------------
CalibrationInit ==
    /\ EvidenceInit
    /\ targets = Nothing
    /\ resolutions = Nothing
    /\ scores = Nothing
    /\ pairs = {}

(* make_calibration_target: the declaration fits the model.                 *)
Freezable(w) ==
    /\ w \in DOMAIN models \cap DOMAIN dependencies
    /\ models[w].distribution = distributions[Bound(w)]
    /\ dependencies[w].mode = "INDEPENDENT" => models[w].conditioning = {}
    /\ dependencies[w].mode = "CONDITIONAL" => models[w].conditioning = dependencies[w].parents

Unresolved(w) == Open(w) /\ (w \in DOMAIN models => Bound(w) \notin DOMAIN resolutions)

Target(w, family, now) ==
    [family      |-> family,
     model       |-> models[w],
     declaration |-> dependencies[w],
     committedAt |-> now]

RegisterTarget(w, family, now) ==
    /\ Unresolved(w)
    /\ Freezable(w)
    /\ w \notin DOMAIN targets
    /\ targets' = With(targets, w, Target(w, family, now))
    /\ UNCHANGED <<evidenceVars, resolutions, scores, pairs>>

TargetOf(w) == targets[w].model.distribution.ref

Resolution(truth, now) == [truth |-> truth, resolvedAt |-> now]

(* The resolver names one target; what it resolves is the distribution.     *)
RegisterResolution(w, truth, now) ==
    /\ w \in DOMAIN targets
    /\ targets[w].committedAt <= now
    /\ TargetOf(w) \notin DOMAIN resolutions
    /\ resolutions' = With(resolutions, TargetOf(w), Resolution(truth, now))
    /\ UNCHANGED <<evidenceVars, targets, scores, pairs>>

(* Mutant: any accepted evidence of the work is scored.                     *)
SameCandidate(w) == TRUE

(* The evidence is what the target was committed for.                       *)
AsFrozen(w) ==
    /\ accepted[w].prior = targets[w].model.distribution
    /\ accepted[w].model = targets[w].model
    /\ accepted[w].declaration = targets[w].declaration

Score(w, now) ==
    LET truth == resolutions[TargetOf(w)].truth IN
    [family       |-> targets[w].family,
     ref          |-> targets[w].model.ref,
     truth        |-> truth,
     predicted    |-> targets[w].model.likelihood[truth],
     outcome      |-> accepted[w].outcome,
     calibratedAt |-> now]

RecordObservation(w, now) ==
    /\ w \in DOMAIN targets \cap DOMAIN accepted
    /\ TargetOf(w) \in DOMAIN resolutions
    /\ AsFrozen(w)
    /\ accepted[w].interpretedAt <= resolutions[TargetOf(w)].resolvedAt
    /\ resolutions[TargetOf(w)].resolvedAt <= now
    /\ w \notin DOMAIN scores
    /\ scores' = With(scores, w, Score(w, now))
    /\ UNCHANGED <<evidenceVars, targets, resolutions, pairs>>

(* Pairs are counted together if they have the same key.                    *)
PairKey(left, right) ==
    [left  |-> targets[left].model.ref,
     right |-> targets[right].model.ref,
     mode  |-> targets[right].declaration.mode,
     truth |-> resolutions[TargetOf(left)].truth]

Sample(left, right) ==
    [key           |-> PairKey(left, right),
     resolution    |-> TargetOf(left),
     left          |-> left,
     right         |-> right,
     leftPositive  |-> accepted[left].outcome = "POSITIVE",
     rightPositive |-> accepted[right].outcome = "POSITIVE"]

(* make_dependency_pair_sample; it looks at the declarations the targets    *)
(* have frozen.                                                             *)
Pairable(left, right) ==
    /\ {left, right} \subseteq DOMAIN targets \cap DOMAIN accepted
    /\ TargetOf(left) = TargetOf(right)
    /\ TargetOf(left) \in DOMAIN resolutions
    /\ left # right
    /\ Conclusive(left) /\ Conclusive(right)
    /\ targets[right].declaration.mode # "DUPLICATE"
    /\ targets[right].declaration.mode = "CONDITIONAL" => left \in targets[right].declaration.parents

RecordPair(left, right) ==
    /\ Pairable(left, right)
    /\ \A s \in pairs : s.key # PairKey(left, right) \/ s.resolution # TargetOf(left)
    /\ pairs' = pairs \cup {Sample(left, right)}
    /\ UNCHANGED <<evidenceVars, targets, resolutions, scores>>

CalibrationStep ==
    \E w \in Works, now \in Times :
        \/ \E family \in Families : RegisterTarget(w, family, now)
        \/ \E truth \in Hypotheses : RegisterResolution(w, truth, now)
        \/ RecordObservation(w, now)
        \/ \E right \in Works : RecordPair(w, right)

-----------------------------------------------------------------------------
(* Scored observations of a family.                                         *)
Observations(family) ==
    {w \in DOMAIN scores : scores[w].family = family /\ scores[w].outcome # "INCONCLUSIVE"}

(* Observed rate of positive outcomes less what was predicted.              *)
MarginalGap(family) ==
    LET sample == Observations(family) IN
    MeanOf([w \in sample |-> IF scores[w].outcome = "POSITIVE" THEN Scale ELSE 0]) -
    MeanOf([w \in sample |-> scores[w].predicted])

(* CalibrationFamilySnapshot.status is MISCALIBRATION_SIGNAL.               *)
Miscalibrated(family, policy) ==
    /\ Observations(family) # {}
    /\ Cardinality(Observations(family)) >= policy.minSamples
    /\ Magnitude(MarginalGap(family)) >= policy.threshold
===============================================================================
