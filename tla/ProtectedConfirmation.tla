------------------------- MODULE ProtectedConfirmation -------------------------
(***************************************************************************)
(* Confirmation on protected data (v1.17): a batch of samples nobody has    *)
(* used is sealed, a third person lets one selection of v1.16 see it, once, *)
(* and only what gains on it too, and is reviewed again, is applied.        *)
(*                                                                         *)
(* This module composes all protocols that revise the graph of a subject:   *)
(* v1.14 to v1.17 remain open side by side.                                 *)
(***************************************************************************)
EXTENDS SearchBudget

CONSTANTS
    Batches,               \* references of batches
    BatchContents,         \* sets of samples that may be sealed
    ConfirmationPolicies   \* [minSamples, minGain]

ASSUME ConfirmationAssumption ==
    /\ \A p \in ConfirmationPolicies : p.minSamples \in Nat \ {0} /\ p.minGain \in Nat
    /\ {} \notin BatchContents

VARIABLES
    confirmationPolicy,       \* table protected_confirmation_policy
    batches,                  \* table protected_confirmation_batch
    exposures,                \* table protected_confirmation_exposure, by selection
    confirmationEvaluations,  \* table protected_confirmation_evaluation, likewise
    confirmationReviews,      \* table protected_confirmation_review
    confirmedRevisions        \* table protected_confirmation_revision_history

confirmationTables == <<confirmationPolicy, batches, exposures, confirmationEvaluations,
                        confirmationReviews, confirmedRevisions>>
vars == <<searchVars, confirmationTables>>

Init ==
    /\ SearchInit
    /\ confirmationPolicy = Nothing
    /\ batches = Nothing
    /\ exposures = Nothing
    /\ confirmationEvaluations = Nothing
    /\ confirmationReviews = Nothing
    /\ confirmedRevisions = Nothing

RegisterConfirmationPolicy(policy) ==
    /\ confirmationPolicy = Nothing
    /\ confirmationPolicy' = policy
    /\ UNCHANGED <<searchVars, batches, exposures, confirmationEvaluations,
                   confirmationReviews, confirmedRevisions>>

-----------------------------------------------------------------------------
OtherBatches(b, key) == UNION {batches[d].samples : d \in {d \in DOMAIN batches \ {b} : batches[d].key = key}}

(* assert_confirmation_freshness.                                           *)
BatchFresh(b, key, contents) == Apart(contents, History(key) \cup OtherBatches(b, key))

SealBatch(b, key, contents, keeper) ==
    /\ confirmationPolicy # Nothing
    /\ b \notin DOMAIN batches
    /\ \A s \in contents : s.key = key /\ Apart({s}, contents \ {s})
    /\ History(key) # {}
    /\ BatchFresh(b, key, contents)
    /\ batches' = With(batches, b, [key |-> key, samples |-> contents, keeper |-> keeper])
    /\ UNCHANGED <<searchVars, confirmationPolicy, exposures, confirmationEvaluations,
                   confirmationReviews, confirmedRevisions>>

Winner(r) == searchSelections[r].winner
Parties(r) == {candidates[Winner(r)].proposal.proposer, searchSelections[r].selector}

(* _fresh_search_selection, and the batch is still fresh.                   *)
Confirmable(r, b) == SearchFresh(r) /\ BatchFresh(b, batches[b].key, batches[b].samples)

AuthorizeExposure(r, b, keeper) ==
    /\ r \in DOMAIN searchReviews \ DOMAIN exposures
    /\ b \in DOMAIN batches \ {exposures[s].batch : s \in DOMAIN exposures}
    /\ batches[b].key = searchSelections[r].key
    /\ Confirmable(r, b)
    /\ searchReviews[r] = "APPROVE"
    /\ batches[b].keeper \notin Parties(r)
    /\ keeper \notin Parties(r) \cup {batches[b].keeper}
    /\ exposures' = With(exposures, r, [batch |-> b, keeper |-> keeper])
    /\ UNCHANGED <<searchVars, confirmationPolicy, batches, confirmationEvaluations,
                   confirmationReviews, confirmedRevisions>>

ExposedBatch(r) == exposures[r].batch

(* evaluate_confirmation.                                                   *)
ConfirmationStatus(r) ==
    LET candidate == candidates[Winner(r)]
        cases     == batches[ExposedBatch(r)].samples
    IN IF ~Covers(candidate, cases, confirmationPolicy.minSamples) THEN "INSUFFICIENT_CONFIRMATION"
       ELSE IF Gain(candidate, cases) > confirmationPolicy.minGain THEN "CONFIRMED"
       ELSE "CONFIRMATION_REJECTED"

EvaluateConfirmation(r, evaluator) ==
    /\ r \in DOMAIN exposures \ DOMAIN confirmationEvaluations
    /\ Confirmable(r, ExposedBatch(r))
    /\ evaluator \notin Parties(r) \cup {batches[ExposedBatch(r)].keeper, exposures[r].keeper}
    /\ confirmationEvaluations' = With(confirmationEvaluations, r,
          [status |-> ConfirmationStatus(r), evaluator |-> evaluator])
    /\ UNCHANGED <<searchVars, confirmationPolicy, batches, exposures, confirmationReviews,
                   confirmedRevisions>>

ReviewConfirmation(r, decision, reviewer) ==
    /\ r \in DOMAIN confirmationEvaluations \ DOMAIN confirmationReviews
    /\ reviewer \notin Parties(r) \cup {confirmationEvaluations[r].evaluator}
    /\ decision = "APPROVE" => confirmationEvaluations[r].status = "CONFIRMED"
    /\ confirmationReviews' = With(confirmationReviews, r, decision)
    /\ UNCHANGED <<searchVars, confirmationPolicy, batches, exposures, confirmationEvaluations,
                   confirmedRevisions>>

(* Whether the held-out part was also looked at outside the budget is not   *)
(* asked again.                                                             *)
ApplyConfirmed(r) ==
    /\ r \in DOMAIN confirmationReviews \ DOMAIN confirmedRevisions
    /\ Confirmable(r, ExposedBatch(r))
    /\ confirmationEvaluations[r].status = "CONFIRMED" /\ confirmationReviews[r] = "APPROVE"
    /\ graph' = Successor(candidates[Winner(r)].proposal.edges, Winner(r))
    /\ confirmedRevisions' = With(confirmedRevisions, r, CandidateRevision(Winner(r)))
    /\ UNCHANGED <<samples, graphTables, validationTables, searchTables, confirmationPolicy,
                   batches, exposures, confirmationEvaluations, confirmationReviews>>

ConfirmationStep ==
    \/ \E policy \in ConfirmationPolicies : RegisterConfirmationPolicy(policy)
    \/ \E b \in Batches, key \in Keys, contents \in BatchContents, keeper \in Holders.batchKeeper :
          SealBatch(b, key, contents, keeper)
    \/ \E r \in SearchSelections :
        \/ \E b \in Batches, keeper \in Holders.exposureKeeper : AuthorizeExposure(r, b, keeper)
        \/ \E evaluator \in Holders.validator : EvaluateConfirmation(r, evaluator)
        \/ \E decision \in Decisions, reviewer \in Holders.reviewer :
              ReviewConfirmation(r, decision, reviewer)
        \/ ApplyConfirmed(r)

-----------------------------------------------------------------------------
Next ==
    \/ GraphStep /\ UNCHANGED <<validationTables, searchTables, confirmationTables>>
    \/ ValidationStep /\ UNCHANGED <<searchTables, confirmationTables>>
    \/ SearchStep /\ UNCHANGED confirmationTables
    \/ ConfirmationStep

Spec == Init /\ [][Next]_vars

-----------------------------------------------------------------------------
Entries(table) == {table[x] : x \in DOMAIN table}

(* Types: the graph has no cycle and one piece of evidence for each of its  *)
(* generations, each record rests on the one before it in its protocol, and *)
(* scores of a pair come from different resolutions.                        *)
TypeOK ==
    /\ graph # Nothing => Acyclic(graph.edges) /\ graph.generation = Len(graph.evidence)
    /\ OneForEachResolution(samples)
    /\ DOMAIN graphRevisions \subseteq DOMAIN graphReviews
    /\ DOMAIN graphReviews \subseteq DOMAIN graphReplays
    /\ DOMAIN graphReplays \subseteq DOMAIN graphProposals
    /\ DOMAIN validations \cup DOMAIN reservations \subseteq DOMAIN candidates
    /\ DOMAIN searchEvaluations \subseteq DOMAIN reservations
    /\ DOMAIN validatedRevisions \subseteq DOMAIN selectionReviews
    /\ DOMAIN selectionReviews \subseteq DOMAIN selections
    /\ DOMAIN searchRevisions \cup DOMAIN exposures \subseteq DOMAIN searchReviews
    /\ DOMAIN searchReviews \subseteq DOMAIN searchSelections
    /\ DOMAIN confirmedRevisions \subseteq DOMAIN confirmationReviews
    /\ DOMAIN confirmationReviews \subseteq DOMAIN confirmationEvaluations
    /\ DOMAIN confirmationEvaluations \subseteq DOMAIN exposures

(* I-244, I-259, I-277, I-303: five histories and one current graph, which  *)
(* all protocols write.  Read by generation, the graphs that were replaced  *)
(* and the current one are one line in which every graph is acyclic and one *)
(* edge away from the one before it, whichever protocol revised it.         *)
Revisions ==
    Entries(graphRevisions) \cup Entries(validatedRevisions) \cup
    Entries(searchRevisions) \cup Entries(confirmedRevisions)

GraphOf(generation) ==
    IF generation = graph.generation THEN graph.edges
    ELSE (CHOOSE r \in Revisions : r.base.generation = generation).base.edges

Edges == {Edge(key, direction) : key \in Keys, direction \in Directions} \cup UNION InitialEdges

Line == INSTANCE GraphLine WITH
    Graphs    <- {edges \in SUBSET Edges : Acyclic(edges)},
    line      <- IF graph = Nothing THEN << >>
                 ELSE [i \in 1 .. graph.generation + 1 |-> GraphOf(i - 1)],
    confirmed <- {r.new.generation : r \in Entries(confirmedRevisions)}

ImplementsGraphLine == Line!LineSpec

(* I-273 to I-277, I-299 to I-303: what was applied was the best of what its*)
(* own protocol had tried on the graph and the history it was applied to,   *)
(* whatever is registered, validated, reserved, recorded or applied by any  *)
(* protocol between selection and application.                              *)
(* - v1.15: of the candidates of the pair that were validated on that graph *)
(*   and history and improved, none had a greater gain.                     *)
(* - v1.16 and v1.17: all looks reserved for the pair on that graph and     *)
(*   history had been taken, and of those that improved under the budget    *)
(*   none had a greater margin, which is gain less what the policy asks of  *)
(*   a look of its ordinal: a later look may have gained more.              *)
(* Nothing is said of a validation against a look, nor of v1.14.            *)
Rivals(among, winner, revision) ==
    {c \in among :
        /\ KeyOf(c) = KeyOf(winner)
        /\ candidates[c].proposal.base = revision.base
        /\ candidates[c].history = candidates[winner].history}

Applied(r, revision) ==
    [winner |-> Winner(r), revision |-> revision, family |-> searchSelections[r].family]

BudgetedRevisions ==
    {Applied(r, searchRevisions[r]) : r \in DOMAIN searchRevisions} \cup
    {Applied(r, confirmedRevisions[r]) : r \in DOMAIN confirmedRevisions}

BestOfWhatWasSeen ==
    /\ \A r \in DOMAIN validatedRevisions :
        LET winner == selections[r].winner IN
        winner \in Best(ValidationScores(Rivals(DOMAIN validations, winner, validatedRevisions[r])))
    /\ \A a \in BudgetedRevisions :
        LET rivals == Rivals(DOMAIN reservations, a.winner, a.revision) IN
        /\ rivals \subseteq DOMAIN searchEvaluations
        /\ a.winner \in Best(SearchScores(rivals))

(* I-287 to I-292, I-300, I-301: the budget of a pair is counted over all   *)
(* graphs and histories.  The looks at held-out parts are numbered without  *)
(* gaps and never more than the policy allows, and what was applied had     *)
(* gained more than the policy asks of a look with as many before it.  No   *)
(* look at the graph it replaced was left out of its selection.             *)
Looks(key) == {c \in DOMAIN reservations : KeyOf(c) = key}

Before(c) ==
    {d \in Looks(KeyOf(c)) : reservations[d].ordinal < reservations[c].ordinal}

LooksStayInBudget ==
    /\ \A key \in {KeyOf(c) : c \in DOMAIN reservations} :
        /\ {reservations[c].ordinal : c \in Looks(key)} = 1 .. Cardinality(Looks(key))
        /\ Cardinality(Looks(key)) <= searchPolicy.maxLooks
    /\ \A a \in BudgetedRevisions :
        /\ Gain(candidates[a.winner], HeldOut(candidates[a.winner].history)) -
             (searchPolicy.base + searchPolicy.penalty * Cardinality(Before(a.winner))) > 0
        /\ \A c \in Looks(KeyOf(a.winner)) \ a.family : candidates[c].proposal.base # a.revision.base

(* I-311 to I-317, I-322, I-332: what is applied as confirmed had gained on *)
(* data that nothing it was chosen with, and no other batch of the pair,    *)
(* shares a resolution or a piece of evidence with, although calibration    *)
(* and other keepers kept adding data between sealing and application.      *)
ConfirmedOnUnseenData ==
    \A r \in DOMAIN confirmedRevisions :
        LET batch     == batches[ExposedBatch(r)]
            candidate == candidates[Winner(r)]
            others    == {b \in DOMAIN batches \ {ExposedBatch(r)} : batches[b].key = batch.key}
        IN /\ Gain(candidate, batch.samples) > confirmationPolicy.minGain
           /\ \A s \in batch.samples :
               /\ \A t \in candidate.history \cup UNION {batches[b].samples : b \in others} :
                    s.resolution # t.resolution /\ s.evidence \cap t.evidence = {}
           /\ \A q \in DOMAIN exposures \ {r} : ExposedBatch(q) # ExposedBatch(r)

(* v1.17, one-shot exposure: a failed final check is not followed by opening*)
(* a fresh batch for the same candidate.                                    *)
RejectedStaysRejected ==
    [][\A r \in DOMAIN exposures' \ DOMAIN exposures, q \in DOMAIN confirmationEvaluations :
        Winner(q) = Winner(r) => confirmationEvaluations[q].status # "CONFIRMATION_REJECTED"]_vars
===============================================================================
