-------------------------- MODULE EvidenceLoopProofs --------------------------
(***************************************************************************)
(* Theorems about EvidenceLoop, for every value of its constants, and so    *)
(* also without the bounds and for any number of keepers.                   *)
(*                                                                         *)
(* The rows of the tables are well formed and each plane builds on the one  *)
(* before it (TablesOK).  On this rest the four arguments:                  *)
(*  - the arithmetic of the posterior, which rounds to the nearest basis    *)
(*    point and still never crosses the prior;                              *)
(*  - a rule's model is never of a later generation than the current model  *)
(*    (RulesBehind), so a rule that has fallen behind stays behind;         *)
(*  - of each root and subject the beliefs are a line of evidence (Line):   *)
(*    any two are comparable, a trail has one belief, and every proper      *)
(*    prefix of a trail was the prior of an update.  As a prior is used     *)
(*    once, only the end of a line can be updated, which extends it;        *)
(*  - what a preview holds has since only become later (SightingsOK), so    *)
(*    that equal numbers of holders mean equal beliefs.                     *)
(***************************************************************************)
EXTENDS EvidenceLoop, SequenceTheorems, FiniteSetTheorems, TLAPS

-----------------------------------------------------------------------------
(* Arithmetic of the posterior.                                             *)

LEMMA RoundedAbove ==
    ASSUME NEW n \in Nat, NEW d \in Nat \ {0}, NEW p \in Nat, p * d <= n
    PROVE  RoundRatio(n, d) \in Nat /\ RoundRatio(n, d) >= p
<1>1. PICK h \in Nat : h = d \div 2
  OBVIOUS
<1>2. PICK m \in Nat : m = n + h /\ p * d <= m
  BY p * d \in Nat
<1>3. PICK x \in Nat : x = m \div d /\ d * x <= m /\ m < d * x + d
  OBVIOUS
<1>4. SUFFICES ASSUME x + 1 <= p PROVE FALSE
  BY <1>1, <1>2, <1>3 DEF RoundRatio
<1>5. PICK k \in Nat : k = p - (x + 1)
  BY <1>4
<1>6. p * d = d * x + d + k * d
  BY <1>5
<1>7. k * d \in Nat /\ d * x \in Nat
  OBVIOUS
<1> QED BY <1>2, <1>3, <1>6, <1>7

LEMMA RoundedBelow ==
    ASSUME NEW n \in Nat, NEW d \in Nat \ {0}, NEW p \in Nat, n <= p * d
    PROVE  RoundRatio(n, d) \in Nat /\ RoundRatio(n, d) <= p
<1>1. PICK h \in Nat : h = d \div 2 /\ h < d
  OBVIOUS
<1>2. PICK m \in Nat : m = n + h /\ m < p * d + d
  BY <1>1, p * d \in Nat
<1>3. PICK x \in Nat : x = m \div d /\ d * x <= m /\ m < d * x + d
  OBVIOUS
<1>4. SUFFICES ASSUME p + 1 <= x PROVE FALSE
  BY <1>1, <1>2, <1>3 DEF RoundRatio
<1>5. PICK k \in Nat : k = x - (p + 1)
  BY <1>4
<1>6. d * x = p * d + d + k * d
  BY <1>5
<1>7. k * d \in Nat /\ p * d \in Nat
  OBVIOUS
<1> QED BY <1>2, <1>3, <1>6, <1>7

(* posterior_probability_bps: the posterior is a probability, and however it *)
(* is rounded it lies on the side of the prior to which the evidence points. *)
LEMMA PosteriorOf ==
    ASSUME NEW p \in Probability, NEW test, NEW outcome \in Outcomes,
           test.ifTrue \in Probability, test.ifFalse \in Probability,
           Possible(p, test, outcome)
    PROVE  /\ Posterior(p, test, outcome) \in Probability
           /\ outcome # "INCONCLUSIVE" /\ IfTrue(test, outcome) >= IfFalse(test, outcome)
                => Posterior(p, test, outcome) >= p
           /\ outcome # "INCONCLUSIVE" /\ IfTrue(test, outcome) <= IfFalse(test, outcome)
                => Posterior(p, test, outcome) <= p
<1> USE ScaleAssumption DEF Probability
<1>1. CASE outcome = "INCONCLUSIVE"
  BY <1>1 DEF Posterior
<1>2. CASE outcome # "INCONCLUSIVE"
  <2>0. p \in Nat
    OBVIOUS
  <2>1. PICK t \in 0 .. Scale : t = IfTrue(test, outcome)
    BY DEF IfTrue
  <2>2. PICK f \in 0 .. Scale : f = IfFalse(test, outcome)
    BY DEF IfFalse
  <2>3. PICK s \in Nat \ {0} : s = Scale
    OBVIOUS
  <2>4. PICK q \in Nat : q = s - p
    BY <2>3
  <2>5. PICK a \in Nat : a = p * t
    OBVIOUS
  <2>6. PICK b \in Nat : b = q * f
    OBVIOUS
  <2>7. PICK d \in Nat \ {0} : d = a + b
    BY <1>2, <2>1, <2>2, <2>3, <2>4, <2>5, <2>6 DEF Possible, TrueWeight, FalseWeight
  <2>8. PICK n \in Nat : n = s * a
    OBVIOUS
  <2>9. PICK r \in Nat : r = RoundRatio(n, d)
    BY DEF RoundRatio
  <2>10. Posterior(p, test, outcome) = IF r > s THEN s ELSE r
    BY <1>2, <2>1, <2>2, <2>3, <2>4, <2>5, <2>6, <2>7, <2>8, <2>9
       DEF Posterior, TrueWeight, FalseWeight
  <2>11. s * t = a + q * t
    BY <2>3, <2>4, <2>5
  <2>12. ASSUME t >= f PROVE r >= p
    <3>1. b <= q * t
      BY <2>6, <2>12
    <3>2. d <= s * t
      BY <2>7, <2>11, <3>1, q * t \in Nat
    <3>3. p * d <= p * (s * t)
      BY <3>2, s * t \in Nat
    <3>4. p * (s * t) = n
      BY <2>5, <2>8
    <3>5. p * d <= n
      BY <3>3, <3>4
    <3> QED BY <2>0, <2>9, <3>5, RoundedAbove
  <2>13. ASSUME t <= f PROVE r <= p
    <3>1. q * t <= b
      BY <2>6, <2>13
    <3>2. s * t <= d
      BY <2>7, <2>11, <3>1, q * t \in Nat
    <3>3. p * (s * t) <= p * d
      BY <3>2, s * t \in Nat
    <3>4. p * (s * t) = n
      BY <2>5, <2>8
    <3>5. n <= p * d
      BY <3>3, <3>4
    <3> QED BY <2>0, <2>9, <3>5, RoundedBelow
  <2> QED BY <1>2, <2>1, <2>2, <2>3, <2>10, <2>12, <2>13
<1> QED BY <1>1, <1>2

-----------------------------------------------------------------------------
(* Well-formed tables.                                                      *)

Steps == [work : Works, model : Nat, outcome : Outcomes]

BeliefSet ==
    [hypothesis  : {r.hypothesis : r \in Roots},
     subject     : {w.subject : w \in Works},
     probability : Probability,
     root        : Roots,
     trail       : Seq(Steps),
     generation  : Nat]

ModelSet ==
    [work : Works, belief : BeliefSet, ifTrue : Probability, ifFalse : Probability,
     generation : Nat]

RuleSet ==
    [model : ModelSet, of : [Decisions -> Outcomes], generation : Nat, registeredAt : Times]

IsBelief(b) ==
    /\ b \in BeliefSet
    /\ b.generation = b.root.generation + Len(b.trail)

IsUpdate(u) ==
    /\ IsBelief(u.prior)
    /\ IsBelief(u.posterior)
    /\ u.model \in ModelSet
    /\ u.outcome \in Outcomes
    /\ Possible(u.prior.probability, u.model, u.outcome)
    /\ u.posterior.probability = Posterior(u.prior.probability, u.model, u.outcome)

DebtOK ==
    /\ DOMAIN debt \subseteq Works
    /\ \A w \in DOMAIN debt : debt[w] = Owed \/ debt[w] \in Verdicts

BeliefsOK ==
    /\ \A w \in DOMAIN hypotheses : IsBelief(hypotheses[w]) /\ hypotheses[w].subject = w.subject
    /\ \A w \in DOMAIN models : models[w] \in ModelSet /\ models[w].work = w
    /\ \A w \in DOMAIN rules : rules[w] \in RuleSet /\ rules[w].model.work = w
    /\ \A u \in updates : IsUpdate(u)

Layers ==
    /\ DOMAIN rules \subseteq DOMAIN models
    /\ DOMAIN models \subseteq DOMAIN hypotheses
    /\ DOMAIN hypotheses \subseteq DOMAIN candidates
    /\ DOMAIN candidates \subseteq DOMAIN debt
    /\ DOMAIN observations \subseteq {w \in DOMAIN candidates : Done(w)}

TablesOK == DebtOK /\ BeliefsOK /\ Layers

LEMMA InitTables == Init => TablesOK
BY DEF Init, Nothing, TablesOK, DebtOK, BeliefsOK, Layers, Done, Debt!DebtInit

LEMMA DebtSteps ==
    ASSUME TablesOK, Verification
    PROVE  /\ DOMAIN debt \subseteq DOMAIN debt'
           /\ \A w \in DOMAIN debt : debt[w] # Owed => debt'[w] = debt[w]
           /\ DebtOK'
<1>1. PICK w \in Works : Debt!Owe(w) \/ \E verdict \in Verdicts : Debt!Resolve(w, verdict)
  BY DEF Verification, Debt!DebtNext
<1>2. CASE Debt!Owe(w)
  BY <1>1, <1>2 DEF TablesOK, DebtOK, Debt!Owe
<1>3. CASE \E verdict \in Verdicts : Debt!Resolve(w, verdict)
  BY <1>1, <1>3 DEF TablesOK, DebtOK, Debt!Resolve
<1> QED BY <1>1, <1>2, <1>3

LEMMA NewBeliefOK ==
    ASSUME TablesOK, NEW w \in Works, NEW b \in Beliefs(w.subject)
    PROVE  IsBelief(b) /\ b.subject = w.subject
<1>1. CASE b \in {u.posterior : u \in updates} /\ b.subject = w.subject
  BY <1>1 DEF TablesOK, BeliefsOK, IsUpdate
<1>2. CASE \E root \in Roots : b = NewBelief(root, w.subject)
  <2>1. PICK root \in Roots : b = NewBelief(root, w.subject)
    BY <1>2
  <2>2. <<>> \in Seq(Steps) /\ Len(<<>>) = 0
    OBVIOUS
  <2> QED BY <2>1, <2>2, EvidenceAssumption DEF NewBelief, IsBelief, BeliefSet
<1> QED BY <1>1, <1>2 DEF Beliefs

LEMMA RebaseOK ==
    ASSUME NEW m \in ModelSet, NEW b \in BeliefSet
    PROVE  /\ Rebase(m, b) \in ModelSet
           /\ Rebase(m, b).work = m.work
           /\ Rebase(m, b).ifTrue = m.ifTrue
           /\ Rebase(m, b).ifFalse = m.ifFalse
           /\ Rebase(m, b).generation = m.generation + 1
<1>1. PICK g \in Nat : g = m.generation + 1
  BY DEF ModelSet
<1>2. Rebase(m, b) = [m EXCEPT !.belief = b, !.generation = g]
  BY <1>1 DEF Rebase
<1> QED BY <1>1, <1>2 DEF ModelSet

LEMMA LearnedOK ==
    ASSUME TablesOK, NEW w \in Works, NEW now, Interpretable(w, now)
    PROVE  /\ w \in DOMAIN candidates \cap DOMAIN hypotheses \cap DOMAIN models \cap DOMAIN rules
           /\ IsBelief(hypotheses[w])
           /\ Outcome(w) \in Outcomes
           /\ IsBelief(LearnedBelief(w))
           /\ LearnedBelief(w).probability =
                Posterior(hypotheses[w].probability, models[w], Outcome(w))
           /\ LearnedBelief(w).root = hypotheses[w].root
           /\ LearnedBelief(w).subject = hypotheses[w].subject
           /\ LearnedBelief(w).generation = hypotheses[w].generation + 1
           /\ \E e \in Steps : LearnedBelief(w).trail = Append(hypotheses[w].trail, e)
<1>1. w \in DOMAIN candidates \cap DOMAIN hypotheses \cap DOMAIN models \cap DOMAIN rules
  BY DEF Interpretable
<1>2. IsBelief(hypotheses[w]) /\ models[w] \in ModelSet /\ rules[w] \in RuleSet
  BY <1>1 DEF TablesOK, BeliefsOK
<1>3. w \in DOMAIN debt /\ debt[w].decision \in Decisions
  BY EvidenceAssumption DEF Interpretable, Done, TablesOK, DebtOK
<1>4. Outcome(w) \in Outcomes
  BY <1>2, <1>3 DEF Outcome, RuleSet
<1>5. PICK h \in BeliefSet : h = hypotheses[w] /\ h.generation = h.root.generation + Len(h.trail)
  BY <1>2 DEF IsBelief
<1>6. PICK p \in Probability : p = Posterior(h.probability, models[w], Outcome(w))
  BY <1>2, <1>4, <1>5, PosteriorOf DEF Interpretable, ModelSet, BeliefSet
<1>7. PICK e \in Steps : e = [work |-> w, model |-> models[w].generation, outcome |-> Outcome(w)]
  BY <1>2, <1>4 DEF Steps, ModelSet
<1>8. h.trail \in Seq(Steps) /\ Len(h.trail) \in Nat /\ h.root.generation \in Nat
  BY EvidenceAssumption DEF BeliefSet
<1>9. PICK s \in Seq(Steps) : s = Append(h.trail, e) /\ Len(s) = Len(h.trail) + 1
  <2>1. /\ Append(h.trail, e) \in Seq(Steps)
        /\ Len(Append(h.trail, e)) = Len(h.trail) + 1
    BY <1>5, AppendProperties DEF BeliefSet
  <2> QED BY <2>1
<1>10. PICK g \in Nat : g = h.generation + 1 /\ g = h.root.generation + Len(s)
  <2>1. /\ h.generation + 1 \in Nat
        /\ h.generation + 1 = h.root.generation + Len(s)
    <3>1. PICK l \in Nat : l = Len(h.trail)
      BY <1>8
    <3>2. PICK r \in Nat : r = h.root.generation
      BY <1>8
    <3>3. h.generation = r + l
      BY <1>5, <3>1, <3>2
    <3>4. Len(s) = l + 1
      BY <1>9, <3>1
    <3> QED BY <3>2, <3>3, <3>4
  <2> QED BY <2>1
<1>11. LearnedBelief(w) = [h EXCEPT !.probability = p, !.trail = s, !.generation = g]
  BY <1>5, <1>6, <1>7, <1>9, <1>10 DEF LearnedBelief
<1>12. IsBelief(LearnedBelief(w))
  BY <1>10, <1>11 DEF IsBelief, BeliefSet
<1> QED BY <1>1, <1>2, <1>4, <1>5, <1>6, <1>9, <1>10, <1>11, <1>12 DEF BeliefSet

(* No operation of these planes touches the debt.                           *)
LEMMA DebtUntouched ==
    ASSUME UNCHANGED debt
    PROVE  /\ DebtOK => DebtOK'
           /\ \A w : Done(w)' <=> Done(w)
BY DEF DebtOK, Done

LEMMA StepTables ==
    ASSUME TablesOK, [Next]_vars
    PROVE  TablesOK'
<1>1. CASE Verification
  <2>1. DebtOK'
    BY <1>1, DebtSteps
  <2>2. \A w : Done(w) => Done(w)'
    BY <1>1, DebtSteps DEF Done
  <2>3. UNCHANGED <<candidates, observations, hypotheses, models, rules, updates>>
    BY <1>1 DEF Verification, register, beliefs
  <2>4. BeliefsOK'
    BY <2>3 DEF TablesOK, BeliefsOK
  <2>5. Layers'
    BY <1>1, <2>2, <2>3, DebtSteps DEF TablesOK, Layers
  <2> QED BY <2>1, <2>4, <2>5 DEF TablesOK
<1>2. ASSUME NEW w \in Works, NEW key \in Estimators, SubmitCandidate(w, key)
      PROVE  TablesOK'
  <2>1. UNCHANGED <<debt, observations, hypotheses, models, rules, updates>>
    BY <1>2 DEF SubmitCandidate, beliefs
  <2>2. DOMAIN candidates' = DOMAIN candidates \cup {w} /\ w \in DOMAIN debt
    BY <1>2 DEF SubmitCandidate, With
  <2> QED BY <2>1, <2>2, DebtUntouched DEF TablesOK, BeliefsOK, Layers
<1>3. ASSUME NEW w \in Works, NEW cost \in Costs, NEW now \in Times, RecordCost(w, cost, now)
      PROVE  TablesOK'
  <2>1. UNCHANGED <<debt, candidates, hypotheses, models, rules, updates>>
    BY <1>3 DEF RecordCost, beliefs
  <2>2. DOMAIN observations' = DOMAIN observations \cup {w} /\ w \in DOMAIN candidates /\ Done(w)
    BY <1>3 DEF RecordCost, With, Measurable
  <2> QED BY <2>1, <2>2, DebtUntouched DEF TablesOK, BeliefsOK, Layers
<1>4. ASSUME NEW w \in Works, NEW belief \in Beliefs(w.subject), RegisterHypothesis(w, belief)
      PROVE  TablesOK'
  <2>1. UNCHANGED <<debt, candidates, observations, models, rules, updates>>
    BY <1>4 DEF RegisterHypothesis, register
  <2>2. /\ DOMAIN hypotheses' = DOMAIN hypotheses \cup {w}
        /\ hypotheses'[w] = belief
        /\ \A v \in DOMAIN hypotheses \ {w} : hypotheses'[v] = hypotheses[v]
        /\ w \in DOMAIN candidates
    BY <1>4 DEF RegisterHypothesis, With, Current
  <2>3. IsBelief(belief) /\ belief.subject = w.subject
    BY <1>4, NewBeliefOK
  <2>4. BeliefsOK'
    BY <2>1, <2>2, <2>3 DEF TablesOK, BeliefsOK
  <2>5. Layers'
    BY <2>1, <2>2, DebtUntouched DEF TablesOK, Layers
  <2> QED BY <2>1, <2>4, <2>5, DebtUntouched DEF TablesOK
<1>5. ASSUME NEW w \in Works, NEW test \in Tests, RegisterLikelihood(w, test)
      PROVE  TablesOK'
  <2>1. UNCHANGED <<debt, candidates, observations, hypotheses, rules, updates>>
    BY <1>5 DEF RegisterLikelihood, register
  <2>2. /\ DOMAIN models' = DOMAIN models \cup {w}
        /\ models'[w] = Model(w, hypotheses[w], test)
        /\ \A v \in DOMAIN models \ {w} : models'[v] = models[v]
        /\ w \in DOMAIN hypotheses
    BY <1>5 DEF RegisterLikelihood, With
  <2>3. hypotheses[w] \in BeliefSet
    BY <2>2 DEF TablesOK, BeliefsOK, IsBelief
  <2>4. models'[w] \in ModelSet /\ models'[w].work = w
    BY <2>2, <2>3, EvidenceAssumption DEF Model, ModelSet
  <2>5. BeliefsOK'
    BY <2>1, <2>2, <2>4 DEF TablesOK, BeliefsOK
  <2>6. Layers'
    BY <2>1, <2>2, DebtUntouched DEF TablesOK, Layers
  <2> QED BY <2>1, <2>5, <2>6, DebtUntouched DEF TablesOK
<1>6. ASSUME NEW w \in Works, NEW meaning \in Meanings, NEW now \in Times,
             RegisterRule(w, meaning, now)
      PROVE  TablesOK'
  <2>1. UNCHANGED <<debt, candidates, observations, hypotheses, models, updates>>
    BY <1>6 DEF RegisterRule, register
  <2>2. /\ DOMAIN rules' = DOMAIN rules \cup {w}
        /\ rules'[w] = Rule(w, meaning, now)
        /\ \A v \in DOMAIN rules \ {w} : rules'[v] = rules[v]
        /\ w \in DOMAIN models
    BY <1>6 DEF RegisterRule, With
  <2>3. models[w] \in ModelSet /\ models[w].work = w
    BY <2>2 DEF TablesOK, BeliefsOK
  <2>4. rules'[w] \in RuleSet /\ rules'[w].model.work = w
    BY <2>2, <2>3, EvidenceAssumption DEF Rule, RuleSet
  <2>5. BeliefsOK'
    BY <2>1, <2>2, <2>4 DEF TablesOK, BeliefsOK
  <2>6. Layers'
    BY <2>1, <2>2, DebtUntouched DEF TablesOK, Layers
  <2> QED BY <2>1, <2>5, <2>6, DebtUntouched DEF TablesOK
<1>7. ASSUME NEW w \in Works, NEW now \in Times, ApplyUpdate(w, now)
      PROVE  TablesOK'
  <2>1. UNCHANGED <<debt, candidates, observations, rules>>
    BY <1>7 DEF ApplyUpdate, register
  <2>2. PICK posterior : posterior = LearnedBelief(w)
    OBVIOUS
  <2>3. Interpretable(w, now)
    BY <1>7 DEF ApplyUpdate
  <2>4. /\ IsBelief(posterior)
        /\ posterior.subject = hypotheses[w].subject
        /\ w \in DOMAIN hypotheses \cap DOMAIN models
    BY <2>2, <2>3, LearnedOK
  <2>5. /\ DOMAIN hypotheses' = DOMAIN hypotheses
        /\ \A c \in DOMAIN hypotheses :
              \/ hypotheses'[c] = hypotheses[c]
              \/ hypotheses[c] = hypotheses[w] /\ hypotheses'[c] = posterior
    BY <1>7, <2>2 DEF ApplyUpdate, Cohort
  <2>6. /\ DOMAIN models' = DOMAIN models
        /\ \A c \in DOMAIN models :
              models'[c] = models[c] \/ models'[c] = Rebase(models[c], posterior)
    BY <1>7, <2>2 DEF ApplyUpdate
  <2>7. \A c \in DOMAIN hypotheses :
           IsBelief(hypotheses'[c]) /\ hypotheses'[c].subject = c.subject
    BY <2>4, <2>5 DEF TablesOK, BeliefsOK
  <2>8. \A c \in DOMAIN models : models'[c] \in ModelSet /\ models'[c].work = c
    <3> SUFFICES ASSUME NEW c \in DOMAIN models
                 PROVE  models'[c] \in ModelSet /\ models'[c].work = c
      OBVIOUS
    <3>1. models[c] \in ModelSet /\ models[c].work = c
      BY DEF TablesOK, BeliefsOK
    <3>2. posterior \in BeliefSet
      BY <2>4 DEF IsBelief
    <3>3. PICK m \in ModelSet : m = models[c]
      BY <3>1
    <3>4. Rebase(m, posterior) \in ModelSet /\ Rebase(m, posterior).work = m.work
      BY <3>2, RebaseOK
    <3> QED BY <2>6, <3>1, <3>3, <3>4
  <2>9. \A u \in updates' : IsUpdate(u)
    <3> SUFFICES ASSUME NEW u \in updates', u \notin updates
                 PROVE  IsUpdate(u)
      BY DEF TablesOK, BeliefsOK
    <3>1. /\ u.prior = hypotheses[w] /\ u.posterior = posterior /\ u.model = models[w]
          /\ u.outcome = Outcome(w)
      BY <1>7, <2>2 DEF ApplyUpdate
    <3>2. Possible(hypotheses[w].probability, models[w], Outcome(w))
      BY <2>3 DEF Interpretable
    <3>3. models[w] \in ModelSet
      BY <2>4 DEF TablesOK, BeliefsOK
    <3> QED BY <2>2, <2>3, <2>4, <3>1, <3>2, <3>3, LearnedOK DEF IsUpdate
  <2>10. BeliefsOK'
    BY <2>1, <2>5, <2>6, <2>7, <2>8, <2>9 DEF TablesOK, BeliefsOK
  <2>11. Layers'
    BY <2>1, <2>5, <2>6, DebtUntouched DEF TablesOK, Layers
  <2> QED BY <2>1, <2>10, <2>11, DebtUntouched DEF TablesOK
<1>8. ASSUME UNCHANGED <<debt, register, beliefs>>
      PROVE  TablesOK'
  <2>1. UNCHANGED <<debt, candidates, observations, hypotheses, models, rules, updates>>
    BY <1>8 DEF register, beliefs
  <2> QED BY <2>1, DebtUntouched DEF TablesOK, BeliefsOK, Layers
<1>9. ASSUME NEW k \in Keepers,
             ReadCandidates(k) \/ ReadObservations(k) \/ ReadHypotheses(k) \/ ReadModels(k)
      PROVE  TablesOK'
  BY <1>8, <1>9 DEF ReadCandidates, ReadObservations, ReadHypotheses, ReadModels
<1>10. ASSUME NEW policy, NEW preview, FinalizePlan(policy, preview)
       PROVE  TablesOK'
  BY <1>8, <1>10 DEF FinalizePlan
<1>11. CASE UNCHANGED vars
  BY <1>8, <1>11 DEF vars
<1> QED BY <1>1, <1>2, <1>3, <1>4, <1>5, <1>6, <1>7, <1>9, <1>10, <1>11 DEF Next

(* Each plane rests on the rows of the one before it, costs are those of     *)
(* completed work, and a belief's generation counts the evidence in it, for  *)
(* any work, roots, tests, meanings and clocks.                             *)
THEOREM TypeCorrect == Spec => []TypeOK
<1>1. Init => TablesOK
  BY InitTables
<1>2. TablesOK /\ [Next]_vars => TablesOK'
  BY StepTables
<1>3. TablesOK => TypeOK
  BY DEF TablesOK, BeliefsOK, Layers, TypeOK, IsBelief, BeliefSet, ModelSet, RuleSet
<1> QED BY <1>1, <1>2, <1>3, PTL DEF Spec

(* I-165, I-169: every applied update moved its belief the way the evidence  *)
(* points, for any scale, likelihoods and priors, rounding included.        *)
THEOREM EvidenceDirects == Spec => []EvidenceDirection
<1>1. TablesOK => EvidenceDirection
  <2> SUFFICES ASSUME TablesOK, NEW u \in updates
               PROVE  LET true  == IfTrue(u.model, u.outcome)
                          false == IfFalse(u.model, u.outcome)
                      IN /\ u.outcome = "INCONCLUSIVE" \/ true = false
                              => u.posterior.probability = u.prior.probability
                         /\ u.outcome # "INCONCLUSIVE" /\ true >= false
                              => u.posterior.probability >= u.prior.probability
                         /\ u.outcome # "INCONCLUSIVE" /\ true <= false
                              => u.posterior.probability <= u.prior.probability
    BY DEF EvidenceDirection
  <2>1. IsUpdate(u)
    BY DEF TablesOK, BeliefsOK
  <2>2. PICK p \in Probability, q \in Probability : p = u.prior.probability /\ q = u.posterior.probability
    BY <2>1 DEF IsUpdate, IsBelief, BeliefSet
  <2>3. PICK m \in ModelSet : m = u.model
    BY <2>1 DEF IsUpdate
  <2>4. PICK o \in Outcomes : o = u.outcome
    BY <2>1 DEF IsUpdate
  <2>5. Possible(p, m, o) /\ q = Posterior(p, m, o)
    BY <2>1, <2>2, <2>3, <2>4 DEF IsUpdate
  <2>6. /\ o # "INCONCLUSIVE" /\ IfTrue(m, o) >= IfFalse(m, o) => q >= p
        /\ o # "INCONCLUSIVE" /\ IfTrue(m, o) <= IfFalse(m, o) => q <= p
    BY <2>5, PosteriorOf DEF ModelSet
  <2>7. o = "INCONCLUSIVE" => q = p
    BY <2>5 DEF Posterior
  <2>8. IfTrue(m, o) \in Int /\ IfFalse(m, o) \in Int /\ p \in Int /\ q \in Int
    BY ScaleAssumption DEF IfTrue, IfFalse, ModelSet, Probability
  <2> QED BY <2>2, <2>3, <2>4, <2>6, <2>7, <2>8
<1>2. Init => TablesOK
  BY InitTables
<1>3. TablesOK /\ [Next]_vars => TablesOK'
  BY StepTables
<1> QED BY <1>1, <1>2, <1>3, PTL DEF Spec

-----------------------------------------------------------------------------
(* Replaced models.  Generations of the model of a candidate only grow, and *)
(* a rule is bound to a model that was current when it was registered.       *)

RulesBehind ==
    \A w \in DOMAIN rules :
        /\ rules[w].model.generation <= models[w].generation
        /\ rules[w].model.generation = models[w].generation => rules[w].model = models[w]

(* What a step may do to rules and models.                                  *)
ModelsAdvance ==
    /\ DOMAIN models \subseteq DOMAIN models'
    /\ \A c \in DOMAIN models :
          models'[c] = models[c] \/ models'[c].generation > models[c].generation
    /\ \A c \in DOMAIN rules' :
          \/ UNCHANGED models /\ c \in DOMAIN models /\ rules'[c].model = models[c]
          \/ c \in DOMAIN rules /\ rules'[c] = rules[c]

LEMMA ModelSteps ==
    ASSUME TablesOK, [Next]_vars
    PROVE  ModelsAdvance
<1>1. ASSUME UNCHANGED <<models, rules>> PROVE ModelsAdvance
  BY <1>1 DEF ModelsAdvance
<1>2. ASSUME NEW w \in Works, NEW test \in Tests, RegisterLikelihood(w, test) PROVE ModelsAdvance
  BY <1>2 DEF RegisterLikelihood, Advances, With, ModelsAdvance
<1>3. ASSUME NEW w \in Works, NEW meaning \in Meanings, NEW now \in Times,
             RegisterRule(w, meaning, now)
      PROVE  ModelsAdvance
  BY <1>3 DEF RegisterRule, Rule, With, ModelsAdvance
<1>4. ASSUME NEW w \in Works, NEW now \in Times, ApplyUpdate(w, now) PROVE ModelsAdvance
  <2>1. PICK b : b = LearnedBelief(w)
    OBVIOUS
  <2>2. /\ DOMAIN models' = DOMAIN models /\ UNCHANGED rules
        /\ \A c \in DOMAIN models :
              models'[c] = models[c] \/ models'[c] = Rebase(models[c], b)
    BY <1>4, <2>1 DEF ApplyUpdate
  <2>3. b \in BeliefSet
    BY <1>4, <2>1, LearnedOK DEF ApplyUpdate, IsBelief
  <2>4. ASSUME NEW c \in DOMAIN models
        PROVE  Rebase(models[c], b).generation > models[c].generation
    <3>1. PICK m \in ModelSet : m = models[c]
      BY DEF TablesOK, BeliefsOK
    <3> QED BY <2>3, <3>1, RebaseOK DEF ModelSet
  <2> QED BY <2>2, <2>4 DEF ModelsAdvance
<1>5. CASE Verification
  BY <1>1, <1>5 DEF Verification, beliefs
<1>6. ASSUME NEW w \in Works, NEW key \in Estimators, SubmitCandidate(w, key) PROVE ModelsAdvance
  BY <1>1, <1>6 DEF SubmitCandidate, beliefs
<1>7. ASSUME NEW w \in Works, NEW cost \in Costs, NEW now \in Times, RecordCost(w, cost, now)
      PROVE  ModelsAdvance
  BY <1>1, <1>7 DEF RecordCost, beliefs
<1>8. ASSUME NEW w \in Works, NEW belief \in Beliefs(w.subject), RegisterHypothesis(w, belief)
      PROVE  ModelsAdvance
  BY <1>1, <1>8 DEF RegisterHypothesis
<1>9. ASSUME NEW k \in Keepers,
             ReadCandidates(k) \/ ReadObservations(k) \/ ReadHypotheses(k) \/ ReadModels(k)
      PROVE  ModelsAdvance
  BY <1>1, <1>9 DEF ReadCandidates, ReadObservations, ReadHypotheses, ReadModels, beliefs
<1>10. ASSUME NEW policy, NEW preview, FinalizePlan(policy, preview) PROVE ModelsAdvance
  BY <1>1, <1>10 DEF FinalizePlan, beliefs
<1>11. CASE UNCHANGED vars
  BY <1>1, <1>11 DEF vars, beliefs
<1> QED BY <1>2, <1>3, <1>4, <1>5, <1>6, <1>7, <1>8, <1>9, <1>10, <1>11 DEF Next

LEMMA StepRules ==
    ASSUME TablesOK, RulesBehind, [Next]_vars
    PROVE  RulesBehind'
<1> SUFFICES ASSUME NEW w \in DOMAIN rules'
             PROVE  /\ rules'[w].model.generation <= models'[w].generation
                    /\ rules'[w].model.generation = models'[w].generation
                         => rules'[w].model = models'[w]
  BY DEF RulesBehind
<1> TablesOK'
  BY StepTables
<1>1. w \in DOMAIN models' /\ models'[w].generation \in Nat
  BY DEF TablesOK, Layers, BeliefsOK, ModelSet
<1>2. CASE UNCHANGED models /\ rules'[w].model = models[w]
  BY <1>1, <1>2
<1>3. CASE w \in DOMAIN rules /\ rules'[w] = rules[w]
  <2>1. w \in DOMAIN models
    BY <1>3 DEF TablesOK, Layers
  <2>2. models[w] \in ModelSet /\ rules[w].model \in ModelSet
    BY <1>3, <2>1 DEF TablesOK, BeliefsOK, RuleSet
  <2>3. models'[w] = models[w] \/ models'[w].generation > models[w].generation
    BY <2>1, ModelSteps DEF ModelsAdvance
  <2> QED BY <1>1, <1>3, <2>2, <2>3 DEF RulesBehind, ModelSet
<1> QED BY <1>2, <1>3, ModelSteps DEF ModelsAdvance

(* I-164: a rule that lost its model never fits again.                      *)
THEOREM StaleRulesStayStale == Spec => StaleRuleStaysStale
<1>1. Init => TablesOK /\ RulesBehind
  BY InitTables DEF Init, Nothing, RulesBehind
<1>2. TablesOK /\ RulesBehind /\ [Next]_vars => TablesOK' /\ RulesBehind'
  BY StepTables, StepRules
<1>3. ASSUME TablesOK, RulesBehind, [Next]_vars
      PROVE  \A w \in DOMAIN rules :
                /\ rules[w].model # models[w]
                /\ rules'[w] = rules[w]
                => rules[w].model # models'[w]
  <2> SUFFICES ASSUME NEW w \in DOMAIN rules, rules[w].model # models[w]
               PROVE  rules[w].model # models'[w]
    OBVIOUS
  <2>1. w \in DOMAIN models
    BY <1>3 DEF TablesOK, Layers
  <2>2. models[w] \in ModelSet /\ rules[w].model \in ModelSet
    BY <1>3, <2>1 DEF TablesOK, BeliefsOK, RuleSet
  <2>3. models'[w] = models[w] \/ models'[w].generation > models[w].generation
    BY <1>3, <2>1, ModelSteps DEF ModelsAdvance
  <2> QED BY <1>3, <2>2, <2>3 DEF RulesBehind, ModelSet
<1> QED BY <1>1, <1>2, <1>3, PTL DEF Spec, StaleRuleStaysStale

-----------------------------------------------------------------------------
(* Trails.                                                                  *)

LEMMA PrefixItself ==
    ASSUME NEW s \in Seq(Steps)
    PROVE  SubSeq(s, 1, Len(s)) = s
BY SubSeqFull

LEMMA PrefixNone ==
    ASSUME NEW s \in Seq(Steps)
    PROVE  SubSeq(s, 1, 0) = <<>>
BY SubSeqEmpty

LEMMA PrefixAppend ==
    ASSUME NEW s \in Seq(Steps), NEW e \in Steps, NEW k \in 0 .. Len(s)
    PROVE  SubSeq(Append(s, e), 1, k) = SubSeq(s, 1, k)
<1>1. Append(s, e) = s \o <<e>>
  BY AppendIsConcat
<1>2. <<e>> \in Seq(Steps)
  OBVIOUS
<1> QED BY <1>1, <1>2, SubSeqOfConcat1

LEMMA ExtendsLearned ==
    ASSUME TablesOK, NEW w \in Works, NEW now, Interpretable(w, now)
    PROVE  Extends(hypotheses[w], LearnedBelief(w))
<1>1. PICK s \in Seq(Steps) : s = hypotheses[w].trail
  BY LearnedOK DEF IsBelief, BeliefSet
<1>2. PICK e \in Steps : LearnedBelief(w).trail = Append(s, e)
  BY <1>1, LearnedOK
<1>3. Len(Append(s, e)) = Len(s) + 1 /\ Len(s) \in Nat
  BY AppendProperties
<1>4. SubSeq(Append(s, e), 1, Len(s)) = s
  BY <1>3, PrefixAppend, PrefixItself
<1> QED BY <1>1, <1>2, <1>3, <1>4, LearnedOK DEF Extends

LEMMA ExtendsItself ==
    ASSUME NEW b, IsBelief(b)
    PROVE  Extends(b, b)
<1>1. b.trail \in Seq(Steps) /\ Len(b.trail) \in Nat
  BY DEF IsBelief, BeliefSet
<1> QED BY <1>1, PrefixItself DEF Extends

-----------------------------------------------------------------------------
(* The meaning of a result.                                                 *)

Kept(w) ==
    /\ w \in DOMAIN rules' <=> w \in DOMAIN rules
    /\ w \in DOMAIN rules => rules'[w] = rules[w]
    /\ w \in DOMAIN models' <=> w \in DOMAIN models
    /\ w \in DOMAIN models =>
         models'[w].ifTrue = models[w].ifTrue /\ models'[w].ifFalse = models[w].ifFalse
    /\ w \in DOMAIN hypotheses' <=> w \in DOMAIN hypotheses
    /\ w \in DOMAIN hypotheses => Extends(hypotheses[w], hypotheses'[w])

LEMMA StepKeeps ==
    ASSUME TablesOK, [Next]_vars, NEW w \in DOMAIN candidates, Done(w)
    PROVE  Kept(w)
<1>0. w \in DOMAIN hypotheses => Extends(hypotheses[w], hypotheses[w])
  BY ExtendsItself DEF TablesOK, BeliefsOK
<1>1. ASSUME UNCHANGED <<hypotheses, models, rules>> PROVE Kept(w)
  BY <1>0, <1>1 DEF Kept
<1>2. ASSUME NEW v \in Works, NEW belief \in Beliefs(v.subject), RegisterHypothesis(v, belief)
      PROVE  Kept(w)
  BY <1>0, <1>2 DEF RegisterHypothesis, Current, With, Kept
<1>3. ASSUME NEW v \in Works, NEW test \in Tests, RegisterLikelihood(v, test) PROVE Kept(w)
  BY <1>0, <1>3 DEF RegisterLikelihood, Current, With, Kept
<1>4. ASSUME NEW v \in Works, NEW meaning \in Meanings, NEW now \in Times,
             RegisterRule(v, meaning, now)
      PROVE  Kept(w)
  BY <1>0, <1>4 DEF RegisterRule, With, Kept
<1>5. ASSUME NEW v \in Works, NEW now \in Times, ApplyUpdate(v, now) PROVE Kept(w)
  <2>1. PICK b : b = LearnedBelief(v)
    OBVIOUS
  <2>2. Interpretable(v, now)
    BY <1>5 DEF ApplyUpdate
  <2>3. b \in BeliefSet /\ Extends(hypotheses[v], b)
    BY <2>1, <2>2, LearnedOK, ExtendsLearned DEF IsBelief
  <2>4. /\ DOMAIN hypotheses' = DOMAIN hypotheses
        /\ \A c \in DOMAIN hypotheses :
              \/ hypotheses'[c] = hypotheses[c]
              \/ hypotheses[c] = hypotheses[v] /\ hypotheses'[c] = b
    BY <1>5, <2>1 DEF ApplyUpdate, Cohort
  <2>5. /\ DOMAIN models' = DOMAIN models /\ UNCHANGED rules
        /\ \A c \in DOMAIN models :
              models'[c] = models[c] \/ models'[c] = Rebase(models[c], b)
    BY <1>5, <2>1 DEF ApplyUpdate
  <2>6. w \in DOMAIN hypotheses => Extends(hypotheses[w], hypotheses'[w])
    BY <1>0, <2>3, <2>4
  <2>7. w \in DOMAIN models =>
          models'[w].ifTrue = models[w].ifTrue /\ models'[w].ifFalse = models[w].ifFalse
    BY <2>3, <2>5, RebaseOK DEF TablesOK, BeliefsOK
  <2> QED BY <2>4, <2>5, <2>6, <2>7 DEF Kept
<1>6. CASE Verification
  BY <1>1, <1>6 DEF Verification, beliefs
<1>7. ASSUME NEW v \in Works, NEW key \in Estimators, SubmitCandidate(v, key) PROVE Kept(w)
  BY <1>1, <1>7 DEF SubmitCandidate, beliefs
<1>8. ASSUME NEW v \in Works, NEW cost \in Costs, NEW now \in Times, RecordCost(v, cost, now)
      PROVE  Kept(w)
  BY <1>1, <1>8 DEF RecordCost, beliefs
<1>9. ASSUME NEW k \in Keepers,
             ReadCandidates(k) \/ ReadObservations(k) \/ ReadHypotheses(k) \/ ReadModels(k)
      PROVE  Kept(w)
  BY <1>1, <1>9 DEF ReadCandidates, ReadObservations, ReadHypotheses, ReadModels, beliefs
<1>10. ASSUME NEW policy, NEW preview, FinalizePlan(policy, preview) PROVE Kept(w)
  BY <1>1, <1>10 DEF FinalizePlan, beliefs
<1>11. CASE UNCHANGED vars
  BY <1>1, <1>11 DEF vars, beliefs
<1> QED BY <1>2, <1>3, <1>4, <1>5, <1>6, <1>7, <1>8, <1>9, <1>10, <1>11 DEF Next

(* I-162: nobody chooses what a verdict means once it is known: rule and     *)
(* test stay, and the belief moves only by evidence.                        *)
THEOREM MeaningsFixed == Spec => MeaningFixed
<1>1. Init => TablesOK
  BY InitTables
<1>2. TablesOK /\ [Next]_vars => TablesOK'
  BY StepTables
<1>3. TablesOK /\ [Next]_vars => \A w \in DOMAIN candidates : Done(w) => Kept(w)
  BY StepKeeps
<1> QED BY <1>1, <1>2, <1>3, PTL DEF Spec, MeaningFixed, Kept

-----------------------------------------------------------------------------
(* Linear knowledge.  K is a set of beliefs, U the updates that led to them: *)
(* each proper prefix of a belief's trail belongs to a prior that has been   *)
(* advanced.  As a prior is advanced once, an update always appends to the   *)
(* end of the longest belief of its line.                                   *)

SameLine(a, b) == a.root = b.root /\ a.subject = b.subject

Comparable(K) ==
    \A a, b \in K : SameLine(a, b) => Extends(a, b) \/ Extends(b, a)

OneByTrail(K) ==
    \A a, b \in K : SameLine(a, b) /\ a.trail = b.trail => a = b

Fresh(K) ==
    \A b \in K : b.trail = <<>> => b = NewBelief(b.root, b.subject)

Advanced(K, U) ==
    \A b \in K : \A k \in 0 .. Len(b.trail) - 1 :
        \E u \in U : SameLine(u.prior, b) /\ u.prior.trail = SubSeq(b.trail, 1, k)

Line(K, U) ==
    /\ \A b \in K : IsBelief(b)
    /\ \A u \in U : u.prior \in K
    /\ Comparable(K)
    /\ OneByTrail(K)
    /\ Fresh(K)
    /\ Advanced(K, U)

LEMMA TrailType ==
    ASSUME NEW b, IsBelief(b)
    PROVE  b.trail \in Seq(Steps) /\ Len(b.trail) \in Nat
BY DEF IsBelief, BeliefSet

(* A belief that has not been advanced is the end of its line.              *)
LEMMA EndOfLine ==
    ASSUME NEW K, NEW U, Line(K, U), NEW p \in K, NEW b \in K, SameLine(b, p),
           \A u \in U : u.prior # p
    PROVE  Extends(b, p)
<1>1. /\ p.trail \in Seq(Steps) /\ Len(p.trail) \in Nat
      /\ b.trail \in Seq(Steps) /\ Len(b.trail) \in Nat
  BY TrailType DEF Line
<1>2. SUFFICES ASSUME Extends(p, b) PROVE Extends(b, p)
  BY DEF Line, Comparable
<1>3. CASE Len(p.trail) = Len(b.trail)
  <2>1. b.trail = p.trail
    BY <1>1, <1>2, <1>3, PrefixItself DEF Extends
  <2>2. b = p
    BY <2>1 DEF Line, OneByTrail
  <2> QED BY <1>2, <2>2
<1>4. CASE Len(p.trail) # Len(b.trail)
  <2>1. Len(p.trail) \in 0 .. Len(b.trail) - 1
    BY <1>1, <1>2, <1>4 DEF Extends
  <2>2. PICK u \in U : SameLine(u.prior, b) /\ u.prior.trail = SubSeq(b.trail, 1, Len(p.trail))
    BY <2>1 DEF Line, Advanced
  <2>3. u.prior.trail = p.trail /\ SameLine(u.prior, p) /\ u.prior \in K
    BY <1>2, <2>2 DEF Extends, SameLine, Line
  <2>4. u.prior = p
    BY <2>3 DEF Line, OneByTrail
  <2> QED BY <2>2, <2>4
<1> QED BY <1>3, <1>4

LEMMA LineLearns ==
    ASSUME NEW K, NEW U, Line(K, U), NEW p \in K, \A u \in U : u.prior # p,
           NEW q, IsBelief(q), SameLine(q, p), NEW e \in Steps, q.trail = Append(p.trail, e),
           NEW v, v.prior = p
    PROVE  Line(K \cup {q}, U \cup {v})
<1>1. p.trail \in Seq(Steps) /\ Len(p.trail) \in Nat
  BY TrailType DEF Line
<1>2. Len(q.trail) = Len(p.trail) + 1 /\ q.trail # <<>>
  BY <1>1, AppendProperties
<1>3. \A k \in 0 .. Len(p.trail) : SubSeq(q.trail, 1, k) = SubSeq(p.trail, 1, k)
  BY <1>1, PrefixAppend
<1>4. ASSUME NEW b \in K, SameLine(b, q)
      PROVE  Extends(b, q) /\ b.trail # q.trail
  <2>1. Extends(b, p)
    BY <1>4, EndOfLine DEF SameLine
  <2>2. Len(b.trail) \in Nat
    BY TrailType DEF Line
  <2>3. Len(b.trail) \in 0 .. Len(p.trail)
    BY <1>1, <2>1, <2>2 DEF Extends
  <2>4. SubSeq(q.trail, 1, Len(b.trail)) = b.trail
    BY <1>3, <2>1, <2>3 DEF Extends
  <2> QED BY <1>1, <1>2, <1>4, <2>3, <2>4 DEF Extends, SameLine
<1>5. Extends(q, q)
  BY ExtendsItself
<1>6. Comparable(K \cup {q})
  BY <1>4, <1>5 DEF Line, Comparable, SameLine
<1>7. OneByTrail(K \cup {q})
  BY <1>4 DEF Line, OneByTrail, SameLine
<1>8. Fresh(K \cup {q})
  BY <1>2 DEF Line, Fresh
<1>9. Advanced(K \cup {q}, U \cup {v})
  <2>1. ASSUME NEW k \in 0 .. Len(q.trail) - 1
        PROVE  \E u \in U \cup {v} :
                  SameLine(u.prior, q) /\ u.prior.trail = SubSeq(q.trail, 1, k)
    <3>1. CASE k = Len(p.trail)
      <4>1. SubSeq(q.trail, 1, k) = SubSeq(p.trail, 1, k)
        BY <1>1, <1>3, <3>1
      <4>2. SubSeq(p.trail, 1, k) = p.trail
        BY <1>1, <3>1, PrefixItself
      <4>3. v \in U \cup {v} /\ v.prior.trail = SubSeq(q.trail, 1, k)
        BY <4>1, <4>2
      <4>4. SameLine(v.prior, q)
        BY DEF SameLine
      <4> QED BY <4>3, <4>4
    <3>2. CASE k # Len(p.trail)
      <4>1. k \in 0 .. Len(p.trail) - 1 /\ k \in 0 .. Len(p.trail)
        BY <1>1, <1>2, <2>1, <3>2
      <4>2. PICK u \in U : SameLine(u.prior, p) /\ u.prior.trail = SubSeq(p.trail, 1, k)
        BY <4>1 DEF Line, Advanced
      <4> QED BY <1>3, <4>1, <4>2 DEF SameLine
    <3> QED BY <3>1, <3>2
  <2> QED BY <2>1 DEF Line, Advanced
<1> QED BY <1>6, <1>7, <1>8, <1>9 DEF Line

LEMMA LineSubset ==
    ASSUME NEW K, NEW U, Line(K, U), NEW L, L \subseteq K, \A u \in U : u.prior \in L
    PROVE  Line(L, U)
BY DEF Line, Comparable, OneByTrail, Fresh, Advanced

(* A belief registered from a root begins its line.                         *)
LEMMA LineBegins ==
    ASSUME NEW K, NEW U, Line(K, U), NEW r, NEW s, NEW q,
           q = NewBelief(r, s), IsBelief(q)
    PROVE  Line(K \cup {q}, U)
<1>1. q.root = r /\ q.subject = s /\ q.trail = <<>> /\ Len(q.trail) = 0
  BY DEF NewBelief
<1>2. ASSUME NEW b \in K, SameLine(q, b) PROVE Extends(q, b)
  <2>1. b.trail \in Seq(Steps) /\ Len(b.trail) \in Nat
    BY TrailType DEF Line
  <2> QED BY <1>1, <1>2, <2>1, PrefixNone DEF Extends, SameLine
<1>3. Extends(q, q)
  BY ExtendsItself
<1>4. Comparable(K \cup {q})
  BY <1>2, <1>3 DEF Line, Comparable, SameLine
<1>5. Fresh(K \cup {q})
  BY <1>1 DEF Line, Fresh
<1>6. OneByTrail(K \cup {q})
  BY <1>1 DEF Line, OneByTrail, Fresh, SameLine
<1>7. Advanced(K \cup {q}, U)
  BY <1>1 DEF Line, Advanced
<1> QED BY <1>4, <1>5, <1>6, <1>7 DEF Line

(* All beliefs there are or were.                                           *)
Known ==
    {hypotheses[w] : w \in DOMAIN hypotheses}
        \cup {u.prior : u \in updates} \cup {u.posterior : u \in updates}

LEMMA StepLine ==
    ASSUME TablesOK, Line(Known, updates), [Next]_vars
    PROVE  Line(Known, updates)'
<1>0. SUFFICES Line(Known', updates')
  BY DEF Line, Comparable, OneByTrail, Fresh, Advanced
<1>1. ASSUME UNCHANGED <<hypotheses, updates>> PROVE Line(Known', updates')
  BY <1>1 DEF Known
<1>2. ASSUME NEW w \in Works, NEW b \in Beliefs(w.subject), RegisterHypothesis(w, b)
      PROVE  Line(Known', updates')
  <2>1. UNCHANGED updates /\ Known' \subseteq Known \cup {b} /\ \A u \in updates : u.prior \in Known'
    BY <1>2 DEF RegisterHypothesis, With, Known
  <2>2. IsBelief(b)
    BY NewBeliefOK
  <2>3. Line(Known \cup {b}, updates)
    <3>1. CASE b \in Known
      <4>1. Known \cup {b} = Known
        BY <3>1
      <4> QED BY <4>1
    <3>2. CASE b \notin Known
      <4>1. PICK r \in Roots : b = NewBelief(r, w.subject)
        BY <3>2 DEF Beliefs, Known
      <4> QED BY <2>2, <4>1, LineBegins
    <3> QED BY <3>1, <3>2
  <2>4. PICK L : L = Known'
    OBVIOUS
  <2> QED BY <2>1, <2>3, <2>4, LineSubset
<1>3. ASSUME NEW w \in Works, NEW now \in Times, ApplyUpdate(w, now)
      PROVE  Line(Known', updates')
  <2>1. PICK p : p = hypotheses[w]
    OBVIOUS
  <2>2. PICK q : q = LearnedBelief(w)
    OBVIOUS
  <2>3. PICK v : v.prior = p /\ v.posterior = q /\ updates' = updates \cup {v}
    BY <1>3, <2>1, <2>2 DEF ApplyUpdate
  <2>4. Interpretable(w, now) /\ Unused(w, p)
    BY <1>3, <2>1 DEF ApplyUpdate
  <2>5. /\ w \in DOMAIN hypotheses /\ IsBelief(q) /\ SameLine(q, p)
        /\ \E e \in Steps : q.trail = Append(p.trail, e)
    BY <2>1, <2>2, <2>4, LearnedOK DEF SameLine
  <2>6. p \in Known /\ \A u \in updates : u.prior # p
    BY <2>1, <2>4, <2>5 DEF Known, Unused
  <2>7. Line(Known \cup {q}, updates \cup {v})
    BY <2>3, <2>5, <2>6, LineLearns
  <2>8. /\ DOMAIN hypotheses' = DOMAIN hypotheses
        /\ \A c \in DOMAIN hypotheses : hypotheses'[c] \in {hypotheses[c], q}
    BY <1>3, <2>2 DEF ApplyUpdate
  <2>9. Known' \subseteq Known \cup {q}
    BY <2>3, <2>6, <2>8 DEF Known
  <2>10. \A u \in updates' : u.prior \in Known'
    BY DEF Known
  <2>11. PICK L : L = Known'
    OBVIOUS
  <2>12. PICK V : V = updates'
    OBVIOUS
  <2> QED BY <2>3, <2>7, <2>9, <2>10, <2>11, <2>12, LineSubset
<1>4. CASE Verification
  BY <1>1, <1>4 DEF Verification, beliefs
<1>5. ASSUME NEW v \in Works, NEW key \in Estimators, SubmitCandidate(v, key)
      PROVE  Line(Known', updates')
  BY <1>1, <1>5 DEF SubmitCandidate, beliefs
<1>6. ASSUME NEW v \in Works, NEW cost \in Costs, NEW now \in Times, RecordCost(v, cost, now)
      PROVE  Line(Known', updates')
  BY <1>1, <1>6 DEF RecordCost, beliefs
<1>7. ASSUME NEW w \in Works, NEW test \in Tests, RegisterLikelihood(w, test)
      PROVE  Line(Known', updates')
  BY <1>1, <1>7 DEF RegisterLikelihood
<1>8. ASSUME NEW w \in Works, NEW meaning \in Meanings, NEW now \in Times,
             RegisterRule(w, meaning, now)
      PROVE  Line(Known', updates')
  BY <1>1, <1>8 DEF RegisterRule
<1>9. ASSUME NEW k \in Keepers,
             ReadCandidates(k) \/ ReadObservations(k) \/ ReadHypotheses(k) \/ ReadModels(k)
      PROVE  Line(Known', updates')
  BY <1>1, <1>9 DEF ReadCandidates, ReadObservations, ReadHypotheses, ReadModels, beliefs
<1>10. ASSUME NEW policy, NEW preview, FinalizePlan(policy, preview)
       PROVE  Line(Known', updates')
  BY <1>1, <1>10 DEF FinalizePlan, beliefs
<1>11. CASE UNCHANGED vars
  BY <1>1, <1>11 DEF vars, beliefs
<1> QED BY <1>2, <1>3, <1>4, <1>5, <1>6, <1>7, <1>8, <1>9, <1>10, <1>11 DEF Next

(* I-170, I-172: what is known of a root is one line of evidence, for any    *)
(* number of candidates, updates and registrations.                         *)
THEOREM KnowledgeIsLinear == Spec => []NoForkedKnowledge
<1>1. Init => TablesOK /\ Line(Known, updates)
  <2> SUFFICES ASSUME Init PROVE Line(Known, updates)
    BY InitTables
  <2>1. Known = {} /\ updates = {}
    BY DEF Init, Nothing, Known
  <2> QED BY <2>1 DEF Line, Comparable, OneByTrail, Fresh, Advanced
<1>2. TablesOK /\ Line(Known, updates) /\ [Next]_vars => TablesOK' /\ Line(Known, updates)'
  BY StepTables, StepLine
<1>3. Line(Known, updates) => NoForkedKnowledge
  BY DEF Line, Comparable, Known, NoForkedKnowledge, SameLine
<1> QED BY <1>1, <1>2, <1>3, PTL DEF Spec

-----------------------------------------------------------------------------
(* What a finalized plan confirms.  The state hash counts the holders of a   *)
(* belief and does not name them.  If anybody's belief had changed since, of *)
(* those who changed take one whose belief is of the latest generation: that *)
(* belief has gained a holder, and it has lost none, as beliefs are replaced *)
(* only by later ones.                                                      *)

LEMMA LatestExists ==
    ASSUME NEW S, IsFiniteSet(S), S # {}, NEW f, \A x \in S : f[x] \in Nat
    PROVE  \E w \in S : \A x \in S : f[x] <= f[w]
<1> DEFINE Above(w) == {x \in S : f[x] > f[w]}
           T == {Above(w) : w \in S}
<1>1. \A w \in S : Above(w) \in FiniteSubsetsOf(S)
  <2> SUFFICES ASSUME NEW w \in S PROVE Above(w) \in FiniteSubsetsOf(S)
    OBVIOUS
  <2>1. Above(w) \in SUBSET S
    OBVIOUS
  <2> QED BY <2>1, FS_Subset DEF FiniteSubsetsOf
<1>2. T \subseteq FiniteSubsetsOf(S) /\ T # {}
  BY <1>1
<1>3. \E U \in T : \A V \in T : ~ (<<V, U>> \in StrictSubsetOrdering(S))
  <2> HIDE DEF T
  <2> QED BY <1>2, WFMin, FS_StrictSubsetOrderingWellFounded
<1>4. PICK w \in S : \A V \in T : ~ (<<V, Above(w)>> \in StrictSubsetOrdering(S))
  BY <1>3
<1>5. ASSUME NEW y \in S, f[y] > f[w] PROVE FALSE
  <2>1. Above(y) \subseteq Above(w) /\ y \in Above(w) /\ y \notin Above(y)
    BY <1>5
  <2>2. <<Above(y), Above(w)>> \in StrictSubsetOrdering(S)
    BY <2>1 DEF StrictSubsetOrdering
  <2> QED BY <1>4, <2>2
<1> QED BY <1>5

Holders(C, F, b) == {w \in C \cap DOMAIN F : F[w] = b}

(* F is what H, read earlier, has become.                                   *)
Later(F, H) ==
    /\ DOMAIN H \subseteq DOMAIN F
    /\ \A w \in DOMAIN F : F[w].generation \in Nat
    /\ \A w \in DOMAIN H :
          F[w] = H[w] \/ (H[w].generation \in Nat /\ F[w].generation > H[w].generation)

LEMMA SameHolders ==
    ASSUME NEW C, IsFiniteSet(C), NEW H, NEW F, Later(F, H),
           \A b : Cardinality(Holders(C, H, b)) = Cardinality(Holders(C, F, b))
    PROVE  \A w \in C \cap DOMAIN F : w \in DOMAIN H /\ H[w] = F[w]
<1> DEFINE D == {w \in C \cap DOMAIN F : w \notin DOMAIN H \/ H[w] # F[w]}
<1>1. SUFFICES ASSUME D # {} PROVE FALSE
  OBVIOUS
<1>2. IsFiniteSet(D)
  <2>1. D \in SUBSET C
    OBVIOUS
  <2> QED BY <2>1, FS_Subset
<1>3. PICK w \in D : \A x \in D : F[x].generation <= F[w].generation
  <2>1. PICK f : f = [x \in D |-> F[x].generation]
    OBVIOUS
  <2>2. \A x \in D : f[x] \in Nat
    BY <2>1 DEF Later
  <2>3. \E v \in D : \A x \in D : f[x] <= f[v]
    <3> HIDE DEF D
    <3> QED BY <1>1, <1>2, <2>2, LatestExists
  <2> QED BY <2>1, <2>3
<1>4. PICK b : b = F[w]
  OBVIOUS
<1>5. Holders(C, H, b) \subseteq Holders(C, F, b)
  <2> SUFFICES ASSUME NEW c \in C, c \in DOMAIN H, H[c] = b, F[c] # b
               PROVE  FALSE
    BY DEF Holders, Later
  <2>1. c \in D
    BY DEF Later
  <2>2. F[c].generation > F[w].generation
    BY <1>4 DEF Later
  <2>3. F[c].generation <= F[w].generation
    BY <1>3, <2>1
  <2>4. F[c].generation \in Nat /\ F[w].generation \in Nat
    BY <2>1 DEF Later
  <2> QED BY <2>2, <2>3, <2>4
<1>6. w \in Holders(C, F, b) /\ w \notin Holders(C, H, b)
  BY <1>3, <1>4 DEF Holders
<1>7. IsFiniteSet(Holders(C, F, b))
  <2>1. Holders(C, F, b) \in SUBSET C
    BY DEF Holders
  <2> QED BY <2>1, FS_Subset
<1> QED BY <1>5, <1>6, <1>7, FS_Subset

(* What previewing processes and previews hold was read from the tables.     *)
SightingsOK ==
    /\ DOMAIN keepers = Keepers
    /\ \A k \in Keepers :
          "hypotheses" \in DOMAIN keepers[k] => Later(hypotheses, keepers[k]["hypotheses"])
    /\ \A seen \in previews :
          /\ Later(hypotheses, seen["hypotheses"])
          /\ \A w \in DOMAIN seen["models"] : seen["models"][w].work = w

BeliefsAdvance ==
    /\ DOMAIN hypotheses \subseteq DOMAIN hypotheses'
    /\ \A c \in DOMAIN hypotheses :
          hypotheses'[c] = hypotheses[c] \/ hypotheses'[c].generation > hypotheses[c].generation

LEMMA BeliefSteps ==
    ASSUME TablesOK, [Next]_vars
    PROVE  BeliefsAdvance
<1>1. ASSUME UNCHANGED hypotheses PROVE BeliefsAdvance
  BY <1>1 DEF BeliefsAdvance
<1>2. ASSUME NEW w \in Works, NEW b \in Beliefs(w.subject), RegisterHypothesis(w, b)
      PROVE  BeliefsAdvance
  BY <1>2 DEF RegisterHypothesis, Advances, With, BeliefsAdvance
<1>3. ASSUME NEW w \in Works, NEW now \in Times, ApplyUpdate(w, now) PROVE BeliefsAdvance
  <2>1. PICK b : b = LearnedBelief(w)
    OBVIOUS
  <2>2. /\ DOMAIN hypotheses' = DOMAIN hypotheses
        /\ \A c \in DOMAIN hypotheses :
              \/ hypotheses'[c] = hypotheses[c]
              \/ hypotheses[c] = hypotheses[w] /\ hypotheses'[c] = b
    BY <1>3, <2>1 DEF ApplyUpdate, Cohort
  <2>3. b.generation = hypotheses[w].generation + 1 /\ hypotheses[w].generation \in Nat
    BY <1>3, <2>1, LearnedOK DEF ApplyUpdate, IsBelief, BeliefSet
  <2> QED BY <2>2, <2>3 DEF BeliefsAdvance
<1>4. CASE Verification
  BY <1>1, <1>4 DEF Verification, beliefs
<1>5. ASSUME NEW v \in Works, NEW key \in Estimators, SubmitCandidate(v, key)
      PROVE  BeliefsAdvance
  BY <1>1, <1>5 DEF SubmitCandidate, beliefs
<1>6. ASSUME NEW v \in Works, NEW cost \in Costs, NEW now \in Times, RecordCost(v, cost, now)
      PROVE  BeliefsAdvance
  BY <1>1, <1>6 DEF RecordCost, beliefs
<1>7. ASSUME NEW w \in Works, NEW test \in Tests, RegisterLikelihood(w, test)
      PROVE  BeliefsAdvance
  BY <1>1, <1>7 DEF RegisterLikelihood
<1>8. ASSUME NEW w \in Works, NEW meaning \in Meanings, NEW now \in Times,
             RegisterRule(w, meaning, now)
      PROVE  BeliefsAdvance
  BY <1>1, <1>8 DEF RegisterRule
<1>9. ASSUME NEW k \in Keepers,
             ReadCandidates(k) \/ ReadObservations(k) \/ ReadHypotheses(k) \/ ReadModels(k)
      PROVE  BeliefsAdvance
  BY <1>1, <1>9 DEF ReadCandidates, ReadObservations, ReadHypotheses, ReadModels, beliefs
<1>10. ASSUME NEW policy, NEW preview, FinalizePlan(policy, preview) PROVE BeliefsAdvance
  BY <1>1, <1>10 DEF FinalizePlan, beliefs
<1>11. CASE UNCHANGED vars
  BY <1>1, <1>11 DEF vars, beliefs
<1> QED BY <1>2, <1>3, <1>4, <1>5, <1>6, <1>7, <1>8, <1>9, <1>10, <1>11 DEF Next

LEMMA Generations ==
    ASSUME TablesOK
    PROVE  \A w \in DOMAIN hypotheses : hypotheses[w].generation \in Nat
BY DEF TablesOK, BeliefsOK, IsBelief, BeliefSet

LEMMA StillLater ==
    ASSUME TablesOK, [Next]_vars, NEW H, Later(hypotheses, H)
    PROVE  Later(hypotheses', H)
<1>1. BeliefsAdvance
  BY BeliefSteps
<1>2. \A w \in DOMAIN hypotheses' : hypotheses'[w].generation \in Nat
  <2>1. TablesOK'
    BY StepTables
  <2> QED BY <2>1 DEF TablesOK, BeliefsOK, IsBelief, BeliefSet
<1>3. DOMAIN H \subseteq DOMAIN hypotheses'
  BY <1>1 DEF Later, BeliefsAdvance
<1>4. ASSUME NEW w \in DOMAIN H, hypotheses'[w] # H[w]
      PROVE  H[w].generation \in Nat /\ hypotheses'[w].generation > H[w].generation
  <2>1. w \in DOMAIN hypotheses /\ w \in DOMAIN hypotheses'
    BY <1>3 DEF Later
  <2>2. PICK g \in Nat : g = hypotheses[w].generation
    BY <2>1 DEF Later
  <2>3. PICK n \in Nat : n = hypotheses'[w].generation
    BY <1>2, <2>1
  <2>4. hypotheses'[w] = hypotheses[w] \/ n > g
    BY <1>1, <2>1, <2>2, <2>3 DEF BeliefsAdvance
  <2>5. hypotheses[w] = H[w] \/ (H[w].generation \in Nat /\ g > H[w].generation)
    BY <2>2 DEF Later
  <2>6. CASE hypotheses'[w] = hypotheses[w]
    BY <1>4, <2>2, <2>5, <2>6
  <2>7. CASE n > g
    BY <2>2, <2>3, <2>5, <2>7
  <2> QED BY <2>4, <2>6, <2>7
<1> QED BY <1>2, <1>3, <1>4 DEF Later

LEMMA StepSightings ==
    ASSUME TablesOK, SightingsOK, [Next]_vars
    PROVE  SightingsOK'
<1>1. \A H : Later(hypotheses, H) => Later(hypotheses', H)
  BY StillLater
<1>2. ASSUME UNCHANGED <<keepers, previews>> PROVE SightingsOK'
  BY <1>1, <1>2 DEF SightingsOK, Later
<1>3. ASSUME NEW k \in Keepers, NEW what \in {"current", "observations"}, NEW x,
             keepers' = [keepers EXCEPT ![k] = With(keepers[k], what, x)],
             UNCHANGED <<hypotheses, previews>>
      PROVE  SightingsOK'
  <2>1. /\ DOMAIN keepers' = Keepers
        /\ \A j \in Keepers \ {k} : keepers'[j] = keepers[j]
        /\ keepers'[k] = With(keepers[k], what, x)
    BY <1>3 DEF SightingsOK
  <2>2. "hypotheses" \in DOMAIN keepers'[k] =>
           /\ "hypotheses" \in DOMAIN keepers[k]
           /\ keepers'[k]["hypotheses"] = keepers[k]["hypotheses"]
    BY <2>1 DEF With
  <2> QED BY <1>3, <2>1, <2>2 DEF SightingsOK, Later
<1>4. ASSUME NEW k \in Keepers, ReadHypotheses(k) PROVE SightingsOK'
  <2>1. /\ DOMAIN keepers' = Keepers
        /\ \A j \in Keepers \ {k} : keepers'[j] = keepers[j]
        /\ keepers'[k]["hypotheses"] = hypotheses
        /\ UNCHANGED <<hypotheses, previews>>
    BY <1>4 DEF ReadHypotheses, SightingsOK, With, beliefs
  <2>2. Later(hypotheses, hypotheses)
    BY Generations DEF Later
  <2> QED BY <2>1, <2>2 DEF SightingsOK, Later
<1>5. ASSUME NEW k \in Keepers, ReadModels(k) PROVE SightingsOK'
  <2>1. /\ DOMAIN keepers' = Keepers
        /\ \A j \in Keepers \ {k} : keepers'[j] = keepers[j]
        /\ keepers'[k] = Nothing
        /\ previews' = previews \cup {With(keepers[k], "models", models)}
        /\ UNCHANGED <<hypotheses, models>>
        /\ "hypotheses" \in DOMAIN keepers[k]
    BY <1>5 DEF ReadModels, SightingsOK, HasRead, beliefs
  <2>2. PICK seen : seen = With(keepers[k], "models", models)
    OBVIOUS
  <2>3. /\ seen["hypotheses"] = keepers[k]["hypotheses"]
        /\ seen["models"] = models
    BY <2>1, <2>2 DEF With
  <2>4. Later(hypotheses, seen["hypotheses"])
    BY <2>1, <2>3 DEF SightingsOK
  <2>5. \A w \in DOMAIN seen["models"] : seen["models"][w].work = w
    BY <2>3 DEF TablesOK, BeliefsOK
  <2>6. "hypotheses" \notin DOMAIN keepers'[k]
    BY <2>1 DEF Nothing
  <2>7. \A x \in previews' :
          Later(hypotheses, x["hypotheses"]) /\ \A w \in DOMAIN x["models"] : x["models"][w].work = w
    BY <2>1, <2>2, <2>4, <2>5 DEF SightingsOK
  <2> QED BY <2>1, <2>6, <2>7 DEF SightingsOK, Later
<1>6. CASE Verification
  BY <1>2, <1>6 DEF Verification, planning
<1>7. ASSUME NEW w \in Works, NEW key \in Estimators, SubmitCandidate(w, key)
      PROVE  SightingsOK'
  BY <1>2, <1>7 DEF SubmitCandidate, planning
<1>8. ASSUME NEW w \in Works, NEW cost \in Costs, NEW now \in Times, RecordCost(w, cost, now)
      PROVE  SightingsOK'
  BY <1>2, <1>8 DEF RecordCost, planning
<1>9. ASSUME NEW w \in Works, NEW b \in Beliefs(w.subject), RegisterHypothesis(w, b)
      PROVE  SightingsOK'
  BY <1>2, <1>9 DEF RegisterHypothesis, planning
<1>10. ASSUME NEW w \in Works, NEW test \in Tests, RegisterLikelihood(w, test)
       PROVE  SightingsOK'
  BY <1>2, <1>10 DEF RegisterLikelihood, planning
<1>11. ASSUME NEW w \in Works, NEW meaning \in Meanings, NEW now \in Times,
              RegisterRule(w, meaning, now)
       PROVE  SightingsOK'
  BY <1>2, <1>11 DEF RegisterRule, planning
<1>12. ASSUME NEW w \in Works, NEW now \in Times, ApplyUpdate(w, now) PROVE SightingsOK'
  BY <1>2, <1>12 DEF ApplyUpdate, planning
<1>13. ASSUME NEW k \in Keepers, ReadCandidates(k) PROVE SightingsOK'
  BY <1>3, <1>13 DEF ReadCandidates, beliefs
<1>14. ASSUME NEW k \in Keepers, ReadObservations(k) PROVE SightingsOK'
  BY <1>3, <1>14 DEF ReadObservations, beliefs
<1>15. ASSUME NEW policy, NEW preview, FinalizePlan(policy, preview) PROVE SightingsOK'
  BY <1>2, <1>15 DEF FinalizePlan
<1>16. CASE UNCHANGED vars
  BY <1>2, <1>16 DEF vars, planning
<1> QED BY <1>4, <1>5, <1>6, <1>7, <1>8, <1>9, <1>10, <1>11, <1>12, <1>13, <1>14, <1>15,
           <1>16 DEF Next

(* Only finitely much work is owed at any time.                             *)
FiniteDebt == IsFiniteSet(DOMAIN debt)

LEMMA StepFiniteDebt ==
    ASSUME FiniteDebt, [Next]_vars
    PROVE  FiniteDebt'
<1>1. ASSUME UNCHANGED debt PROVE FiniteDebt'
  BY <1>1 DEF FiniteDebt
<1>2. CASE Verification
  <2>1. PICK w \in Works : Debt!Owe(w) \/ \E verdict \in Verdicts : Debt!Resolve(w, verdict)
    BY <1>2 DEF Verification, Debt!DebtNext
  <2>2. DOMAIN debt' = DOMAIN debt \/ DOMAIN debt' = DOMAIN debt \cup {w}
    BY <2>1 DEF Debt!Owe, Debt!Resolve
  <2>3. PICK D : D = DOMAIN debt /\ IsFiniteSet(D)
    BY DEF FiniteDebt
  <2>4. IsFiniteSet(D \cup {w})
    BY <2>3, FS_AddElement
  <2> QED BY <2>2, <2>3, <2>4 DEF FiniteDebt
<1>3. CASE ~ Verification
  BY <1>1, <1>3 DEF Next, vars, SubmitCandidate, RecordCost, RegisterHypothesis,
     RegisterLikelihood, RegisterRule, ApplyUpdate, ReadCandidates, ReadObservations,
     ReadHypotheses, ReadModels, FinalizePlan
<1> QED BY <1>2, <1>3

LEMMA HashCountsHolders ==
    ASSUME NEW policy, NEW seen, PlanState(policy, seen) = PlanState(policy, Tables)
    PROVE  /\ seen.current = CurrentCandidates
           /\ \A b : Cardinality(Holders(CurrentCandidates, seen.hypotheses, b))
                       = Cardinality(Holders(CurrentCandidates, hypotheses, b))
           /\ {seen.models[w] : w \in CurrentCandidates \cap DOMAIN seen.models}
                = {models[w] : w \in CurrentCandidates \cap DOMAIN models}
<1>1. PICK C : C = CurrentCandidates
  OBVIOUS
<1>2. PICK H : H = seen.hypotheses
  OBVIOUS
<1>3. /\ Tables.current = C /\ Tables.hypotheses = hypotheses /\ Tables.models = models
  BY <1>1 DEF Tables
<1>4. seen.current = C
  BY <1>3 DEF PlanState
<1>5. {seen.models[w] : w \in C \cap DOMAIN seen.models}
        = {models[w] : w \in C \cap DOMAIN models}
  BY <1>3, <1>4 DEF PlanState
<1>6. PICK c : c = PlanState(policy, seen).hypotheses
  OBVIOUS
<1>7. c = [b \in {H[w] : w \in C \cap DOMAIN H} |-> Cardinality(Holders(C, H, b))]
  BY <1>2, <1>4, <1>6 DEF PlanState, Holders
<1>8. c = [b \in {hypotheses[w] : w \in C \cap DOMAIN hypotheses} |->
              Cardinality(Holders(C, hypotheses, b))]
  <2>1. PICK t : t = Tables
    OBVIOUS
  <2>2. PICK F : F = hypotheses /\ t.hypotheses = F /\ t.current = C
    BY <1>3, <2>1
  <2>3. c = PlanState(policy, t).hypotheses
    BY <1>6, <2>1
  <2>4. c = [b \in {F[w] : w \in C \cap DOMAIN F} |-> Cardinality(Holders(C, F, b))]
    BY <2>2, <2>3 DEF PlanState, Holders
  <2> QED BY <2>2, <2>4
<1>9. ASSUME NEW b PROVE Cardinality(Holders(C, H, b)) = Cardinality(Holders(C, hypotheses, b))
  <2>1. CASE b \in DOMAIN c
    BY <1>7, <1>8, <2>1
  <2>2. CASE b \notin DOMAIN c
    <3>1. Holders(C, H, b) = {}
      BY <1>7, <2>2 DEF Holders
    <3>2. Holders(C, hypotheses, b) = {}
      BY <1>8, <2>2 DEF Holders
    <3> QED BY <3>1, <3>2
  <2> QED BY <2>1, <2>2
<1> QED BY <1>1, <1>2, <1>4, <1>5, <1>9

(* I-158: a plan is finalized only if the preview that was confirmed saw, of *)
(* every candidate, what the finalization sees.                             *)
THEOREM PlansConfirmPreviews == Spec => []PlanConfirmsPreview
<1> DEFINE Inv == TablesOK /\ SightingsOK /\ FiniteDebt
<1>1. Init => Inv
  <2> SUFFICES ASSUME Init PROVE SightingsOK /\ FiniteDebt
    BY InitTables
  <2>1. SightingsOK
    BY DEF Init, Nothing, SightingsOK
  <2>2. FiniteDebt
    BY FS_EmptySet DEF Init, Debt!DebtInit, FiniteDebt
  <2> QED BY <2>1, <2>2
<1>2. Inv /\ [Next]_vars => Inv'
  BY StepTables, StepSightings, StepFiniteDebt
<1>3. Inv => PlanConfirmsPreview
  <2> SUFFICES ASSUME TablesOK, SightingsOK, FiniteDebt, NEW seen \in previews, NEW policy,
                      PlanState(policy, seen) = PlanState(policy, Tables),
                      NEW w \in CurrentCandidates
               PROVE  /\ w \in DOMAIN seen.hypotheses <=> w \in DOMAIN hypotheses
                      /\ w \in DOMAIN seen.models <=> w \in DOMAIN models
                      /\ w \in DOMAIN hypotheses => seen.hypotheses[w] = hypotheses[w]
                      /\ w \in DOMAIN models => seen.models[w] = models[w]
    BY DEF PlanConfirmsPreview
  <2>1. PICK C : C = CurrentCandidates /\ IsFiniteSet(C)
    <3>1. CurrentCandidates \in SUBSET DOMAIN debt
      BY DEF CurrentCandidates, TablesOK, Layers
    <3> QED BY <3>1, FS_Subset DEF FiniteDebt
  <2>2. PICK H : H = seen.hypotheses /\ Later(hypotheses, H)
    BY DEF SightingsOK
  <2>3. PICK M : M = seen.models /\ \A v \in DOMAIN M : M[v].work = v
    BY DEF SightingsOK
  <2>4. /\ \A b : Cardinality(Holders(C, H, b)) = Cardinality(Holders(C, hypotheses, b))
        /\ {M[v] : v \in C \cap DOMAIN M} = {models[v] : v \in C \cap DOMAIN models}
    BY <2>1, <2>2, <2>3, HashCountsHolders
  <2>5. \A v \in C \cap DOMAIN hypotheses : v \in DOMAIN H /\ H[v] = hypotheses[v]
    <3>1. PICK F : F = hypotheses
      OBVIOUS
    <3> QED BY <2>1, <2>2, <2>4, <3>1, SameHolders
  <2>6. \A v \in DOMAIN models : models[v].work = v
    BY DEF TablesOK, BeliefsOK
  <2>7. \A v \in C \cap DOMAIN models : v \in DOMAIN M /\ M[v] = models[v]
    <3> SUFFICES ASSUME NEW v \in C \cap DOMAIN models PROVE v \in DOMAIN M /\ M[v] = models[v]
      OBVIOUS
    <3>1. PICK x \in C \cap DOMAIN M : M[x] = models[v]
      BY <2>4
    <3> QED BY <2>3, <2>6, <3>1
  <2>8. \A v \in C \cap DOMAIN M : v \in DOMAIN models
    <3> SUFFICES ASSUME NEW v \in C \cap DOMAIN M PROVE v \in DOMAIN models
      OBVIOUS
    <3>1. PICK x \in C \cap DOMAIN models : models[x] = M[v]
      BY <2>4
    <3> QED BY <2>3, <2>6, <3>1
  <2>9. DOMAIN H \subseteq DOMAIN hypotheses
    BY <2>2 DEF Later
  <2> QED BY <2>1, <2>2, <2>3, <2>5, <2>7, <2>8, <2>9
<1> QED BY <1>1, <1>2, <1>3, PTL DEF Spec
===============================================================================
