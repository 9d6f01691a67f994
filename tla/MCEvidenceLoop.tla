---------------------------- MODULE MCEvidenceLoop ----------------------------
(* Two or more pieces of work of one subject, one hypothesis that keepers may *)
(* bring in with two generations, two tests (one of them perfect when the    *)
(* hypothesis is true) and two opposite meanings of a verdict.               *)
EXTENDS EvidenceLoop, TLC

CONSTANTS Refs, RootGenerations, TestGenerations, MeaningGenerations, VerdictDecisions

MCWorks == {[ref |-> r, subject |-> "s"] : r \in Refs}

MCVerdicts == [decision : VerdictDecisions, completedAt : Times]

MCRoots == [hypothesis : {"h"}, probability : {Scale \div 2}, generation : RootGenerations]

MCTests ==
    {t \in [ifTrue : {Scale, (8 * Scale) \div 10}, ifFalse : {Scale \div 5}, generation : TestGenerations] :
        t.ifTrue = Scale <=> t.generation = 0}

Straight == [PASS |-> "POSITIVE", HOLD |-> "INCONCLUSIVE", FAIL |-> "NEGATIVE"]
Reversed == [PASS |-> "NEGATIVE", HOLD |-> "INCONCLUSIVE", FAIL |-> "POSITIVE"]

MCMeanings ==
    {m \in [of : {Straight, Reversed}, generation : MeaningGenerations] :
        m.of = Straight <=> m.generation = 0}

Symmetry == Permutations(Refs)
(* TLC's bounds.  Beliefs are taken through all generations, verdicts and   *)
(* times while nobody measures costs or previews a plan; otherwise there is *)
(* one test, one meaning, one verdict, one time and one update, or a second *)
(* root instead of rules, the update and the costs.                        *)
Undisturbed ==
    /\ observations = Nothing /\ plan.generation = 0 /\ previews = {}
    /\ \A k \in Keepers : keepers[k] = Nothing

Plain ==
    /\ (\E s \in DOMAIN hypotheses : hypotheses[s].root.generation = 1) =>
        updates = {} /\ observations = Nothing /\ rules = Nothing
    /\ Cardinality(updates) <= 1
    /\ \A w \in DOMAIN debt : Done(w) => debt[w] = [decision |-> "PASS", completedAt |-> 1]
    /\ \A w \in DOMAIN observations : observations[w].measuredAt = 1
    /\ \A w \in DOMAIN models : models[w].ifTrue = Scale
    /\ \A w \in DOMAIN rules : rules[w].generation = 0 /\ rules[w].registeredAt = 1

Scope == Undisturbed \/ Plain
===============================================================================
