---------------------------- MODULE MultiEvidence ----------------------------
(***************************************************************************)
(* Evidence about competing hypotheses (v1.11).  Keepers open distributions,*)
(* bind likelihood models for pieces of work to them, and declare before a  *)
(* work's completion what source its evidence has, on what other evidence   *)
(* it depends and what each verdict will mean.  An update moves the         *)
(* distribution, rebinds every model of the cohort and records the receipt; *)
(* evidence declared a duplicate is recorded and moves nothing.             *)
(*                                                                         *)
(* Every operation is one BEGIN IMMEDIATE transaction.  A preview is        *)
(* computed again when it is applied and must agree in everything it shows, *)
(* so previews are left out, and so are grants and read operations.         *)
(*                                                                         *)
(* Work stands for its economic candidate, which is submitted before the    *)
(* work is completed and never changes; work without one does not show here.*)
(* A completion is accepted once, so work stands for its evidence too.  A   *)
(* distribution's hash commits to all its evidence: reference and generation*)
(* tell as much, as a reference is opened once.  Registering what is stored *)
(* already changes nothing and is left out.                                 *)
(***************************************************************************)
EXTENDS HypothesisDistribution, GenerationTable, Sequences

CONSTANTS
    Works,        \* verification work: [ref, subject]
    Verdicts,     \* how work may be completed: [decision, completedAt]
    Priors,       \* distributions keepers open: [ref, subject, probability, generation]
    Tests,        \* tests they bring in: [ref, likelihood of a positive outcome]
    Sources,      \* source events they name
    Meanings,     \* what they let verdicts mean: from decisions to outcomes
    Times,        \* values ATMAN_RUNTIME_NOW may have
    MaxGeneration \* bound: generations of models, declarations and rules

Decisions == {"PASS", "HOLD", "FAIL"}
Owed == [decision |-> "OWED"]

ASSUME MultiEvidenceAssumption ==
    /\ Times \subseteq Nat
    /\ \A v \in Verdicts : v.decision \in Decisions /\ v.completedAt \in Times
    /\ Priors \subseteq [ref : {p.ref : p \in Priors}, subject : {p.subject : p \in Priors},
                        probability : Distributions, generation : Nat]
    /\ \A t \in Tests : t.likelihood \in Likelihoods
    /\ Meanings \subseteq [Decisions -> Outcomes]
    /\ MaxGeneration \in Nat

VARIABLES
    debt,           \* the verification plane's register of work and verdicts
    distributions,  \* table multi_hypothesis_distribution
    models,         \* tables multi_likelihood_model and multi_candidate_binding
    dependencies,   \* table multi_evidence_dependency
    rules,          \* table multi_evidence_rule
    accepted,       \* tables multi_evidence_history and multi_update_history
    duplicates      \* table multi_duplicate_history

semantics == <<models, dependencies, rules>>
history == <<accepted, duplicates>>
evidenceVars == <<debt, distributions, semantics, history>>

Debt == INSTANCE VerificationDebt WITH Unresolved <- Owed

Done(w) == w \in DOMAIN debt /\ debt[w] # Owed

Open(w) == w \in DOMAIN debt /\ ~ Done(w)

Generations == 0 .. MaxGeneration

Model(w, distribution, test, conditioning, generation) ==
    [work         |-> w,
     distribution |-> distribution,
     ref          |-> test.ref,
     likelihood   |-> test.likelihood,
     conditioning |-> conditioning,
     generation   |-> generation]

Declaration(w, source, mode, parents, generation, now) ==
    [work       |-> w,
     source     |-> source,
     mode       |-> mode,
     parents    |-> parents,
     generation |-> generation,
     declaredAt |-> now]

Rule(w, of, generation, now) ==
    [model        |-> models[w],
     of           |-> of,
     generation   |-> generation,
     registeredAt |-> now]

(* Distributions are bound to work by reference.                            *)
Bound(w) == models[w].distribution.ref

Counted == {accepted[w].declaration.source : w \in DOMAIN accepted}

-----------------------------------------------------------------------------
EvidenceInit ==
    /\ Debt!DebtInit
    /\ distributions = Nothing
    /\ models = Nothing
    /\ dependencies = Nothing
    /\ rules = Nothing
    /\ accepted = Nothing
    /\ duplicates = Nothing

Verification ==
    /\ Debt!DebtNext
    /\ UNCHANGED <<distributions, semantics, history>>

RegisterDistribution(prior) ==
    /\ prior.ref \notin DOMAIN distributions
    /\ distributions' = With(distributions, prior.ref, prior)
    /\ UNCHANGED <<debt, semantics, history>>

(* Also for completed work.                                                 *)
RegisterModel(w, ref, test, conditioning, generation) ==
    /\ w \in DOMAIN debt
    /\ ref \in DOMAIN distributions
    /\ distributions[ref].subject = w.subject
    /\ w \in DOMAIN models => Bound(w) = ref
    /\ LET model == Model(w, distributions[ref], test, conditioning, generation) IN
        /\ Advances(models, w, model)
        /\ models' = With(models, w, model)
    /\ UNCHANGED <<debt, distributions, dependencies, rules, history>>

(* EvidenceDependencyDeclaration.validate.                                  *)
WellDeclared(mode, parents) ==
    \/ mode = "INDEPENDENT" /\ parents = {}
    \/ mode = "CONDITIONAL" /\ parents # {}
    \/ mode = "DUPLICATE" /\ Cardinality(parents) = 1

(* A duplicate repeats its parent's source, other evidence brings a new one.*)
SourceDeclarable(source, mode, parents) ==
    IF mode = "DUPLICATE"
    THEN \A p \in parents : accepted[p].declaration.source = source
    ELSE source \notin Counted

RegisterDependency(w, source, mode, parents, generation, now) ==
    /\ Open(w)
    /\ WellDeclared(mode, parents)
    /\ SourceDeclarable(source, mode, parents)
    /\ LET declaration == Declaration(w, source, mode, parents, generation, now) IN
        /\ Advances(dependencies, w, declaration)
        /\ dependencies' = With(dependencies, w, declaration)
    /\ UNCHANGED <<debt, distributions, models, rules, history>>

RegisterRule(w, of, generation, now) ==
    /\ Open(w)
    /\ w \in DOMAIN models
    /\ models[w].distribution = distributions[Bound(w)]
    /\ LET rule == Rule(w, of, generation, now) IN
        /\ Advances(rules, w, rule)
        /\ rules' = With(rules, w, rule)
    /\ UNCHANGED <<debt, distributions, models, dependencies, history>>

-----------------------------------------------------------------------------
Outcome(w) == rules[w].of[debt[w].decision]

(* Mutant: the rule may have been written for another model of the work.    *)
InterpretableByAnyModel(w, now) ==
    /\ w \in DOMAIN models \cap DOMAIN dependencies \cap DOMAIN rules
    /\ Done(w)
    /\ models[w].distribution = distributions[Bound(w)]
    /\ dependencies[w].declaredAt <= debt[w].completedAt
    /\ rules[w].registeredAt <= debt[w].completedAt
    /\ debt[w].completedAt <= now
    /\ dependencies[w].mode = "INDEPENDENT" => models[w].conditioning = {}
    /\ dependencies[w].mode = "CONDITIONAL" => models[w].conditioning = dependencies[w].parents

(* interpret_multi_completion: what the verdict means was settled, for this *)
(* model and in view of this distribution, before the work was completed.   *)
Interpretable(w, now) ==
    /\ w \in DOMAIN models \cap DOMAIN dependencies \cap DOMAIN rules
    /\ Done(w)
    /\ models[w].distribution = distributions[Bound(w)]
    /\ rules[w].model = models[w]
    /\ dependencies[w].declaredAt <= debt[w].completedAt
    /\ rules[w].registeredAt <= debt[w].completedAt
    /\ debt[w].completedAt <= now
    /\ dependencies[w].mode = "INDEPENDENT" => models[w].conditioning = {}
    /\ dependencies[w].mode = "CONDITIONAL" => models[w].conditioning = dependencies[w].parents

(* The completion has not been used, neither as evidence nor as a duplicate.*)
Unused(w) == w \notin DOMAIN accepted \cup DOMAIN duplicates

Evidence(w, now) ==
    [declaration   |-> dependencies[w],
     model         |-> models[w],
     prior         |-> distributions[Bound(w)],
     outcome       |-> Outcome(w),
     interpretedAt |-> now]

RecordDuplicate(w, now) ==
    /\ Interpretable(w, now)
    /\ dependencies[w].mode = "DUPLICATE"
    /\ Unused(w)
    /\ duplicates' = With(duplicates, w, Evidence(w, now))
    /\ UNCHANGED <<debt, distributions, semantics, accepted>>

PosteriorDistribution(prior, model, outcome) ==
    [prior EXCEPT !.probability = Posterior(prior.probability, model.likelihood, outcome),
                  !.generation  = prior.generation + 1]

Rebase(model, posterior) ==
    [model EXCEPT !.distribution = posterior,
                  !.generation   = model.generation + 1]

(* Mutant: only the models of work that is still open move on.              *)
RebaseOpen(table, prior, posterior) ==
    [c \in DOMAIN table |->
        IF table[c].distribution = prior /\ Open(c)
        THEN Rebase(table[c], posterior) ELSE table[c]]

(* All models bound to the prior move on, those of completed work too.      *)
RebaseCohort(table, prior, posterior) ==
    [c \in DOMAIN table |->
        IF table[c].distribution = prior THEN Rebase(table[c], posterior) ELSE table[c]]

(* Mutant: what a source was counted for is checked at declaration only.    *)
FreshWhenDeclared(w, prior) == \A u \in DOMAIN accepted : accepted[u].prior # prior

(* Neither the source nor the prior has been used.                          *)
Fresh(w, prior) ==
    /\ dependencies[w].source \notin Counted
    /\ \A u \in DOMAIN accepted : accepted[u].prior # prior

ApplyUpdate(w, now) ==
    /\ Interpretable(w, now)
    /\ dependencies[w].mode # "DUPLICATE"
    /\ Unused(w)
    /\ LET prior     == distributions[Bound(w)]
           posterior == PosteriorDistribution(prior, models[w], Outcome(w))
       IN
        /\ Fresh(w, prior)
        /\ Possible(prior.probability, models[w].likelihood, Outcome(w))
        /\ distributions' = [distributions EXCEPT ![prior.ref] = posterior]
        /\ models' = RebaseCohort(models, prior, posterior)
        /\ accepted' = With(accepted, w, Evidence(w, now))
    /\ UNCHANGED <<debt, dependencies, rules, duplicates>>

EvidenceNext ==
    \/ Verification
    \/ \E prior \in Priors : RegisterDistribution(prior)
    \/ \E w \in Works, now \in Times :
        \/ \E source \in Sources, mode \in {"INDEPENDENT", "CONDITIONAL", "DUPLICATE"},
              parents \in SUBSET DOMAIN accepted, generation \in Generations :
              RegisterDependency(w, source, mode, parents, generation, now)
        \/ \E of \in Meanings, generation \in Generations : RegisterRule(w, of, generation, now)
        \/ RecordDuplicate(w, now)
        \/ ApplyUpdate(w, now)
    \/ \E w \in Works, ref \in DOMAIN distributions, test \in Tests,
          conditioning \in SUBSET DOMAIN accepted, generation \in Generations :
          RegisterModel(w, ref, test, conditioning, generation)

-----------------------------------------------------------------------------
(* Types: evidence is about completed work whose semantics are on record,   *)
(* and it names what was accepted before it.                                *)
EvidenceTypeOK ==
    /\ DOMAIN models \cup DOMAIN dependencies \subseteq DOMAIN debt
    /\ DOMAIN rules \subseteq DOMAIN models
    /\ DOMAIN accepted \cup DOMAIN duplicates \subseteq
         {w \in DOMAIN rules \cap DOMAIN dependencies : Done(w)}
    /\ DOMAIN accepted \cap DOMAIN duplicates = {}
    /\ \A r \in DOMAIN distributions :
         distributions[r].ref = r /\ distributions[r].probability \in Distributions
    /\ \A w \in DOMAIN models :
         /\ models[w].work = w /\ models[w].likelihood \in Likelihoods
         /\ models[w].conditioning \subseteq DOMAIN accepted
    /\ \A w \in DOMAIN dependencies :
         /\ dependencies[w].parents \subseteq DOMAIN accepted
         /\ WellDeclared(dependencies[w].mode, dependencies[w].parents)

(* I-191, I-193: whatever is registered, completed or learned in between,   *)
(* no model is left bound to a distribution that has moved on, and none     *)
(* changes its distribution.                                                *)
ModelsFollow ==
    \A w \in DOMAIN models :
        /\ Bound(w) \in DOMAIN distributions
        /\ models[w].distribution = distributions[Bound(w)]
        /\ models[w].distribution.subject = w.subject

(* What the evidence of completed work would do if it were applied now.     *)
Effects(w) ==
    IF \E now \in Times : Interpretable(w, now) /\ Unused(w)
    THEN IF dependencies[w].mode = "DUPLICATE"
         THEN {[duplicate |-> dependencies[w].parents]}
         ELSE {[source |-> dependencies[w].source, posterior |->
                   PosteriorDistribution(distributions[Bound(w)], models[w], Outcome(w))] :
               x \in {y \in {1} : Fresh(w, distributions[Bound(w)])}}
    ELSE {}

(* I-182, I-193: a result cannot choose what it is evidence of.  From the   *)
(* moment work is completed until its evidence is used there is at most one *)
(* posterior it can lead to, that one is settled, and once registrations,   *)
(* updates of its cohort or another use of its source have put it out of    *)
(* reach nothing brings it or any other back.                               *)
EffectsOnlyFade ==
    [][\A w \in Works : Done(w) => Effects(w)' \subseteq Effects(w)]_evidenceVars
================================================================================
