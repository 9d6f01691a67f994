----------------------------- MODULE EvidenceLoop -----------------------------
(***************************************************************************)
(* The planes that learn from verification: economic candidates and cost    *)
(* observations (v1.8), hypotheses, likelihood models and active plans      *)
(* (v1.9), interpretation rules and Bayesian updates (v1.10).  They share   *)
(* the database with the verification plane, which appears here as the debt *)
(* register it implements; a verdict comes with its completion time.        *)
(*                                                                         *)
(* Every operation that writes is one BEGIN IMMEDIATE transaction.  The     *)
(* preview of an active plan reads four tables in four SELECTs of an        *)
(* autocommit connection.  Processes have unrelated clocks.  Grants are     *)
(* checked as in RuntimeWorker and are left out; previews of an update are  *)
(* too, as its transaction computes everything again.                       *)
(*                                                                         *)
(* There is one candidate per piece of work and it never changes, so work   *)
(* stands for its candidate.  A belief (HypothesisState) commits by its     *)
(* hash to all evidence it was moved by: root is what a keeper registered,  *)
(* trail what was learned since.                                            *)
(***************************************************************************)
EXTENDS BayesianUpdate, GenerationTable, FiniteSets, Sequences

CONSTANTS
    Works,       \* verification work: [ref, subject]
    Verdicts,    \* how work may be completed: [decision, completedAt]
    Estimators,  \* keys under which costs are estimated
    Costs,       \* what meters may report
    Roots,       \* beliefs keepers bring in: [hypothesis, probability, generation]
    Tests,       \* likelihoods they bring in: [ifTrue, ifFalse, generation]
    Meanings,    \* interpretations they bring in: [of, generation]
    Policies,    \* policies in the environments of processes
    Times,       \* values ATMAN_RUNTIME_NOW may have
    Keepers,     \* processes that may be previewing a plan together
    MaxUpdates,  \* bound: Bayesian updates in a behaviour
    MaxPlans,    \* bound: plans finalized in a behaviour
    MaxPreviews  \* bound: different previews keepers hold

Decisions == {"PASS", "HOLD", "FAIL"}
Owed == [decision |-> "OWED"]

ASSUME EvidenceAssumption ==
    /\ \A v \in Verdicts : v.decision \in Decisions /\ v.completedAt \in Times
    /\ \A r \in Roots : r.probability \in Probability /\ r.generation \in Nat
    /\ \A t \in Tests : {t.ifTrue, t.ifFalse} \subseteq Probability /\ t.generation \in Nat
    /\ \A m \in Meanings : m.of \in [Decisions -> Outcomes] /\ m.generation \in Nat
    /\ Times \subseteq Nat

VARIABLES
    debt,          \* the verification plane's register of work and verdicts
    candidates,    \* table verification_economy_candidate: from work to its estimator
    observations,  \* table verification_cost_observation
    hypotheses,    \* table active_hypothesis
    models,        \* table active_likelihood_model
    rules,         \* table bayesian_interpretation_rule
    updates,       \* the interpretation and update histories
    plan,          \* table active_verification_plan
    keepers,       \* what each previewing process has read so far
    previews       \* the previews keepers hold

register == <<candidates, observations>>
beliefs == <<hypotheses, models, rules, updates>>
planning == <<plan, keepers, previews>>
vars == <<debt, register, beliefs, planning>>

Debt == INSTANCE VerificationDebt WITH Unresolved <- Owed

-----------------------------------------------------------------------------
Done(w) == w \in DOMAIN debt /\ debt[w] # Owed

(* Mutant: completed work keeps its candidate.                              *)
AnyCandidate(w) == w \in DOMAIN candidates

Current(w) == w \in DOMAIN candidates /\ ~ Done(w)

CurrentCandidates == {w \in DOMAIN candidates : Current(w)}

(* The belief registered from a root for a subject.                         *)
NewBelief(root, subject) ==
    [hypothesis  |-> root.hypothesis,
     subject     |-> subject,
     probability |-> root.probability,
     root        |-> root,
     trail       |-> <<>>,
     generation  |-> root.generation]

(* Keepers may register what they like, also what was learned elsewhere.    *)
Beliefs(subject) ==
    {NewBelief(root, subject) : root \in Roots} \cup
    {b \in {u.posterior : u \in updates} : b.subject = subject}

Model(w, belief, test) ==
    [work       |-> w,
     belief     |-> belief,
     ifTrue     |-> test.ifTrue,
     ifFalse    |-> test.ifFalse,
     generation |-> test.generation]

Rule(w, meaning, now) ==
    [model        |-> models[w],
     of           |-> meaning.of,
     generation   |-> meaning.generation,
     registeredAt |-> now]

-----------------------------------------------------------------------------
Init ==
    /\ Debt!DebtInit
    /\ candidates = Nothing
    /\ observations = Nothing
    /\ hypotheses = Nothing
    /\ models = Nothing
    /\ rules = Nothing
    /\ updates = {}
    /\ plan = [generation |-> 0]
    /\ keepers = [k \in Keepers |-> Nothing]
    /\ previews = {}

(* The verification plane.                                                  *)
Verification ==
    /\ Debt!DebtNext
    /\ UNCHANGED <<register, beliefs, planning>>

(* The same candidate again is answered with the stored one, another one    *)
(* for the same work is refused.                                            *)
SubmitCandidate(w, key) ==
    /\ w \in DOMAIN debt /\ ~ Done(w)
    /\ w \notin DOMAIN candidates
    /\ candidates' = With(candidates, w, key)
    /\ UNCHANGED <<debt, observations, beliefs, planning>>

(* Mutant: the cost of unfinished work is recorded.                         *)
MeasurableAnyTime(w) == w \in DOMAIN candidates

Measurable(w) == w \in DOMAIN candidates /\ Done(w)

RecordCost(w, cost, now) ==
    /\ Measurable(w)
    /\ w \notin DOMAIN observations
    /\ observations' = With(observations, w,
          [key |-> candidates[w], cost |-> cost, measuredAt |-> now])
    /\ UNCHANGED <<debt, candidates, beliefs, planning>>

RegisterHypothesis(w, belief) ==
    /\ Current(w)
    /\ Advances(hypotheses, w, belief)
    /\ hypotheses' = With(hypotheses, w, belief)
    /\ UNCHANGED <<debt, register, models, rules, updates, planning>>

RegisterLikelihood(w, test) ==
    /\ Current(w)
    /\ w \in DOMAIN hypotheses
    /\ LET model == Model(w, hypotheses[w], test) IN
        /\ Advances(models, w, model)
        /\ models' = With(models, w, model)
    /\ UNCHANGED <<debt, register, hypotheses, rules, updates, planning>>

RegisterRule(w, meaning, now) ==
    /\ w \in DOMAIN candidates /\ ~ Done(w)
    /\ w \in DOMAIN hypotheses \cap DOMAIN models
    /\ models[w].belief = hypotheses[w]
    /\ LET rule == Rule(w, meaning, now) IN
        /\ Advances(rules, w, rule)
        /\ rules' = With(rules, w, rule)
    /\ UNCHANGED <<debt, register, hypotheses, models, updates, planning>>

-----------------------------------------------------------------------------
(* Bayesian update.                                                         *)
Outcome(w) == rules[w].of[debt[w].decision]

(* interpret_completion, and the impossible observation.                    *)
Interpretable(w, now) ==
    /\ w \in DOMAIN candidates \cap DOMAIN hypotheses \cap DOMAIN models \cap DOMAIN rules
    /\ Done(w)
    /\ models[w].belief = hypotheses[w]
    /\ rules[w].model = models[w]
    /\ rules[w].registeredAt <= debt[w].completedAt
    /\ debt[w].completedAt <= now
    /\ Possible(hypotheses[w].probability, models[w], Outcome(w))

LearnedBelief(w) ==
    LET prior == hypotheses[w] IN
    [prior EXCEPT !.probability = Posterior(prior.probability, models[w], Outcome(w)),
                  !.trail       = Append(prior.trail, [work    |-> w,
                                                       model   |-> models[w].generation,
                                                       outcome |-> Outcome(w)]),
                  !.generation  = prior.generation + 1]

Cohort(prior) == {w \in DOMAIN hypotheses : hypotheses[w] = prior}

Rebase(model, posterior) ==
    [model EXCEPT !.belief     = posterior,
                  !.generation = model.generation + 1]

(* Mutant: only the completion's interpretation is checked.                 *)
UninterpretedOnly(w, prior) == \A u \in updates : u.work # w

(* Neither the completion nor the belief has been used before.              *)
Unused(w, prior) == \A u \in updates : u.work # w /\ u.prior # prior

ApplyUpdate(w, now) ==
    /\ Cardinality(updates) < MaxUpdates
    /\ Interpretable(w, now)
    /\ LET prior     == hypotheses[w]
           posterior == LearnedBelief(w)
           cohort    == Cohort(prior)
       IN
        /\ Unused(w, prior)
        /\ hypotheses' = [c \in DOMAIN hypotheses |->
                             IF c \in cohort THEN posterior ELSE hypotheses[c]]
        /\ models' = [c \in DOMAIN models |->
                         IF c \in cohort /\ models[c].belief = prior
                         THEN Rebase(models[c], posterior) ELSE models[c]]
        /\ updates' = updates \cup
              {[work |-> w, prior |-> prior, model |-> models[w], rule |-> rules[w],
                outcome |-> Outcome(w), posterior |-> posterior]}
    /\ UNCHANGED <<debt, register, rules, planning>>

-----------------------------------------------------------------------------
(* Active plan.                                                             *)

(* What state_hash commits to: hypotheses as a sorted list of hashes, which *)
(* does not say whose they are.                                             *)
PlanState(policy, seen) ==
    LET holders(b) == {w \in seen.current \cap DOMAIN seen.hypotheses : seen.hypotheses[w] = b}
        held == {seen.hypotheses[w] : w \in seen.current \cap DOMAIN seen.hypotheses}
    IN [policy       |-> policy,
        current      |-> seen.current,
        observations |-> seen.observations,
        hypotheses   |-> [b \in held |-> Cardinality(holders(b))],
        models       |-> {seen.models[w] : w \in seen.current \cap DOMAIN seen.models}]

(* What a process reads that has a transaction of its own.                  *)
Tables ==
    [current      |-> CurrentCandidates,
     observations |-> observations,
     hypotheses   |-> hypotheses,
     models       |-> models]

(* preview_active_plan, one SELECT after the other; keepers[k] is what the  *)
(* process has read so far.                                                 *)
HasRead(k, what) == DOMAIN keepers[k] = what

ReadCandidates(k) ==
    /\ HasRead(k, {})
    /\ keepers' = [keepers EXCEPT ![k] = With(keepers[k], "current", CurrentCandidates)]
    /\ UNCHANGED <<debt, register, beliefs, plan, previews>>

ReadObservations(k) ==
    /\ HasRead(k, {"current"})
    /\ keepers' = [keepers EXCEPT ![k] = With(keepers[k], "observations", observations)]
    /\ UNCHANGED <<debt, register, beliefs, plan, previews>>

ReadHypotheses(k) ==
    /\ HasRead(k, {"current", "observations"})
    /\ keepers' = [keepers EXCEPT ![k] = With(keepers[k], "hypotheses", hypotheses)]
    /\ UNCHANGED <<debt, register, beliefs, plan, previews>>

ReadModels(k) ==
    /\ HasRead(k, {"current", "observations", "hypotheses"})
    /\ previews' = previews \cup {With(keepers[k], "models", models)}
    /\ Cardinality(previews') <= MaxPreviews
    /\ keepers' = [keepers EXCEPT ![k] = Nothing]
    /\ UNCHANGED <<debt, register, beliefs, plan>>

(* finalize_active_plan: the state must be the one the keeper was shown.    *)
(* The plan computed from it must agree as well, which is left out here:    *)
(* the state alone is shown to be enough.                                   *)
FinalizePlan(policy, preview) ==
    /\ plan.generation < MaxPlans
    /\ PlanState(policy, Tables) = PlanState(policy, preview)
    /\ plan' = [generation |-> plan.generation + 1, state |-> PlanState(policy, Tables)]
    /\ UNCHANGED <<debt, register, beliefs, keepers, previews>>

Next ==
    \/ Verification
    \/ \E w \in Works :
        \/ \E key \in Estimators : SubmitCandidate(w, key)
        \/ \E cost \in Costs, now \in Times : RecordCost(w, cost, now)
        \/ \E belief \in Beliefs(w.subject) : RegisterHypothesis(w, belief)
        \/ \E test \in Tests : RegisterLikelihood(w, test)
        \/ \E meaning \in Meanings, now \in Times : RegisterRule(w, meaning, now)
        \/ \E now \in Times : ApplyUpdate(w, now)
    \/ \E k \in Keepers :
        ReadCandidates(k) \/ ReadObservations(k) \/ ReadHypotheses(k) \/ ReadModels(k)
    \/ \E policy \in Policies, preview \in previews : FinalizePlan(policy, preview)

Spec == Init /\ [][Next]_vars

-----------------------------------------------------------------------------
(* Types: each plane builds on the rows of the one before it, costs are     *)
(* recorded for completed work only (I-133), and beliefs are probabilities  *)
(* whose generation counts the evidence they rest on (I-166).               *)
TypeOK ==
    /\ DOMAIN rules \subseteq DOMAIN models
    /\ DOMAIN models \subseteq DOMAIN hypotheses
    /\ DOMAIN hypotheses \subseteq DOMAIN candidates
    /\ DOMAIN candidates \subseteq DOMAIN debt
    /\ DOMAIN observations \subseteq {w \in DOMAIN candidates : Done(w)}
    /\ \A w \in DOMAIN hypotheses :
        /\ hypotheses[w].subject = w.subject
        /\ hypotheses[w].probability \in Probability
        /\ hypotheses[w].generation = hypotheses[w].root.generation + Len(hypotheses[w].trail)
    /\ \A w \in DOMAIN models : models[w].work = w /\ models[w].generation \in Nat
    /\ \A w \in DOMAIN rules : rules[w].model.work = w /\ rules[w].generation \in Nat

(* b was learned from a, or is a.                                           *)
Extends(a, b) ==
    /\ a.root = b.root /\ a.subject = b.subject
    /\ Len(a.trail) <= Len(b.trail)
    /\ SubSeq(b.trail, 1, Len(a.trail)) = a.trail

(* I-170, I-172: knowledge is linear.  However candidates join, leave and   *)
(* share a hypothesis, and also when a keeper brings back a belief that was *)
(* advanced long ago, two candidates that began with the same belief never  *)
(* hold knowledge of which neither contains the other.                      *)
NoForkedKnowledge ==
    \A v, w \in DOMAIN hypotheses :
        /\ hypotheses[v].root = hypotheses[w].root
        /\ hypotheses[v].subject = hypotheses[w].subject
        => Extends(hypotheses[v], hypotheses[w]) \/ Extends(hypotheses[w], hypotheses[v])

(* I-162: a result cannot choose its interpretation.  Once work is          *)
(* completed no plane lets anybody change what its verdict will mean: not   *)
(* the rule, not the test's characteristics, and not the belief except by   *)
(* evidence of its cohort.                                                  *)
MeaningFixed ==
    [][\A w \in DOMAIN candidates : Done(w) =>
        /\ w \in DOMAIN rules' <=> w \in DOMAIN rules
        /\ w \in DOMAIN rules => rules'[w] = rules[w]
        /\ w \in DOMAIN models' <=> w \in DOMAIN models
        /\ w \in DOMAIN models =>
             models'[w].ifTrue = models[w].ifTrue /\ models'[w].ifFalse = models[w].ifFalse
        /\ w \in DOMAIN hypotheses' <=> w \in DOMAIN hypotheses
        /\ w \in DOMAIN hypotheses => Extends(hypotheses[w], hypotheses'[w])]_vars

(* I-164: a rule bound to a model that was replaced or refreshed never      *)
(* fits again, whatever is registered later.  For completed work this means *)
(* that evidence overtaken by an update of its cohort stays unused.         *)
StaleRuleStaysStale ==
    [][\A w \in DOMAIN rules :
        /\ rules[w].model # models[w]
        /\ rules'[w] = rules[w]
        => rules[w].model # models'[w]]_vars

(* I-165, I-169: evidence moves a belief the way it points, and never out   *)
(* of range, although the posterior is rounded: an outcome that is likelier *)
(* if the hypothesis is true does not lower its probability, one that is    *)
(* likelier if it is false does not raise it.                               *)
EvidenceDirection ==
    \A u \in updates :
        LET true  == IfTrue(u.model, u.outcome)
            false == IfFalse(u.model, u.outcome)
        IN /\ u.outcome = "INCONCLUSIVE" \/ true = false
                => u.posterior.probability = u.prior.probability
           /\ u.outcome # "INCONCLUSIVE" /\ true >= false
                => u.posterior.probability >= u.prior.probability
           /\ u.outcome # "INCONCLUSIVE" /\ true <= false
                => u.posterior.probability <= u.prior.probability

(* I-158: the state hash lists hypotheses without saying whose they are and *)
(* the preview reads its tables one by one; yet a preview whose hash is the *)
(* current one saw exactly what the finalization sees: the same hypothesis  *)
(* and the same model for every candidate.                                  *)
PlanConfirmsPreview ==
    \A seen \in previews, policy \in Policies :
        PlanState(policy, seen) = PlanState(policy, Tables) =>
            \A w \in CurrentCandidates :
                /\ w \in DOMAIN seen.hypotheses <=> w \in DOMAIN hypotheses
                /\ w \in DOMAIN seen.models <=> w \in DOMAIN models
                /\ w \in DOMAIN hypotheses => seen.hypotheses[w] = hypotheses[w]
                /\ w \in DOMAIN models => seen.models[w] = models[w]
================================================================================
