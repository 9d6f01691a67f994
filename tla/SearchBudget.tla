----------------------------- MODULE SearchBudget -----------------------------
(***************************************************************************)
(* A budget for looks at the held-out part (v1.16): before a candidate is   *)
(* evaluated a keeper reserves one of a limited number of looks for it, and *)
(* the later the look, the more the candidate has to gain.  A selection     *)
(* names every look ever reserved for the pair and is void when one more is *)
(* reserved before it is applied.                                           *)
(*                                                                         *)
(* The candidates are those of v1.15.  As there, the one policy never       *)
(* changes, so that a family of looks is given by the pair's key, and the   *)
(* context of a candidate (graph and history) is current when it is fresh.  *)
(***************************************************************************)
EXTENDS StructuralValidation

CONSTANTS
    SearchSelections,  \* references of selections
    SearchPolicies     \* [maxLooks, base, penalty]

ASSUME SearchAssumption ==
    \A p \in SearchPolicies : p.maxLooks \in Nat \ {0} /\ {p.base, p.penalty} \subseteq Nat

VARIABLES
    searchPolicy,       \* table heldout_search_budget_policy
    reservations,       \* table heldout_search_reservation
    searchEvaluations,  \* table heldout_search_evaluation
    searchSelections,   \* table heldout_search_selection
    searchReviews,      \* table heldout_search_review
    searchRevisions     \* table heldout_search_revision_history

searchTables == <<searchPolicy, reservations, searchEvaluations, searchSelections,
                  searchReviews, searchRevisions>>
searchVars == <<validationVars, searchTables>>

SearchInit ==
    /\ ValidationInit
    /\ searchPolicy = Nothing
    /\ reservations = Nothing
    /\ searchEvaluations = Nothing
    /\ searchSelections = Nothing
    /\ searchReviews = Nothing
    /\ searchRevisions = Nothing

RegisterSearchPolicy(policy) ==
    /\ searchPolicy = Nothing
    /\ searchPolicy' = policy
    /\ UNCHANGED <<validationVars, reservations, searchEvaluations, searchSelections,
                   searchReviews, searchRevisions>>

-----------------------------------------------------------------------------
KeyOf(c) == candidates[c].proposal.key

(* Mutant: only looks at the present graph and history count.               *)
FamilyInContext(key) == CurrentOf(DOMAIN reservations, key)

(* All looks ever reserved for a pair.                                      *)
Family(key) == {c \in DOMAIN reservations : KeyOf(c) = key}

Threshold(ordinal) == searchPolicy.base + searchPolicy.penalty * (ordinal - 1)

(* The held-out part must not have been looked at outside the budget.       *)
Unexposed(c) == CandidateFresh(c) /\ c \notin DOMAIN validations

Reserve(c, keeper) ==
    /\ searchPolicy # Nothing
    /\ c \in DOMAIN candidates \ DOMAIN reservations
    /\ Unexposed(c)
    /\ Cardinality(Family(KeyOf(c))) < searchPolicy.maxLooks
    /\ keeper # candidates[c].proposal.proposer
    /\ LET ordinal == Cardinality(Family(KeyOf(c))) + 1 IN
        reservations' = With(reservations, c,
            [ordinal |-> ordinal, threshold |-> Threshold(ordinal), keeper |-> keeper])
    /\ UNCHANGED <<validationVars, searchPolicy, searchEvaluations, searchSelections,
                   searchReviews, searchRevisions>>

(* evaluate_reserved_candidate.                                             *)
Margin(c) == Gain(candidates[c], HeldOut(candidates[c].history)) - reservations[c].threshold

SearchStatus(c) ==
    IF HeldOutStatus(candidates[c]) # "HELDOUT_IMPROVED" THEN "UNDERLYING_HELDOUT_REJECTED"
    ELSE IF Margin(c) > 0 THEN "SEARCH_CORRECTED_IMPROVED"
    ELSE "MULTIPLICITY_REJECTED"

Evaluate(c, evaluator) ==
    /\ c \in DOMAIN reservations \ DOMAIN searchEvaluations
    /\ Unexposed(c)
    /\ evaluator \notin {candidates[c].proposal.proposer, reservations[c].keeper}
    /\ searchEvaluations' = With(searchEvaluations, c, SearchStatus(c))
    /\ UNCHANGED <<validationVars, searchPolicy, reservations, searchSelections,
                   searchReviews, searchRevisions>>

-----------------------------------------------------------------------------
SearchScores(among) ==
    [c \in {d \in among : searchEvaluations[d] = "SEARCH_CORRECTED_IMPROVED"} |-> Margin(c)]

(* _current_search_state: every look reserved in the present context must   *)
(* have been taken.                                                         *)
FinalizeSearch(r, key, winner, selector) ==
    LET among == CurrentOf(DOMAIN reservations, key) IN
    /\ r \notin DOMAIN searchSelections
    /\ among # {} /\ among \subseteq DOMAIN searchEvaluations
    /\ winner \in WinnersBy(SearchScores(among))
    /\ searchSelections' = With(searchSelections, r, [key      |-> key,
                                                      among    |-> among,
                                                      family   |-> Family(key),
                                                      winner   |-> winner,
                                                      selector |-> selector])
    /\ UNCHANGED <<validationVars, searchPolicy, reservations, searchEvaluations,
                   searchReviews, searchRevisions>>

ReviewSearch(r, decision, reviewer) ==
    /\ r \in DOMAIN searchSelections \ DOMAIN searchReviews
    /\ Reviewable(searchSelections[r], decision, reviewer)
    /\ searchReviews' = With(searchReviews, r, decision)
    /\ UNCHANGED <<validationVars, searchPolicy, reservations, searchEvaluations,
                   searchSelections, searchRevisions>>

(* Selecting again would give the same receipt, and a winner.               *)
SearchFresh(r) ==
    LET selection == searchSelections[r] IN
    /\ selection.winner # NoWinner
    /\ selection.among = CurrentOf(DOMAIN reservations, selection.key)
    /\ selection.family = Family(selection.key)

ApplySearched(r) ==
    LET winner == searchSelections[r].winner IN
    /\ r \in DOMAIN searchReviews \ DOMAIN searchRevisions
    /\ SearchFresh(r)
    /\ winner \notin DOMAIN validations
    /\ searchReviews[r] = "APPROVE"
    /\ graph' = Successor(candidates[winner].proposal.edges, winner)
    /\ searchRevisions' = With(searchRevisions, r, CandidateRevision(winner))
    /\ UNCHANGED <<samples, graphTables, validationTables, searchPolicy, reservations,
                   searchEvaluations, searchSelections, searchReviews>>

SearchStep ==
    \/ \E policy \in SearchPolicies : RegisterSearchPolicy(policy)
    \/ \E c \in Candidates :
        \/ \E keeper \in Holders.keeper : Reserve(c, keeper)
        \/ \E evaluator \in Holders.validator : Evaluate(c, evaluator)
    \/ \E r \in SearchSelections :
        \/ \E key \in Keys, winner \in Candidates \cup {NoWinner}, selector \in Holders.selector :
              FinalizeSearch(r, key, winner, selector)
        \/ \E decision \in Decisions, reviewer \in Holders.reviewer : ReviewSearch(r, decision, reviewer)
        \/ ApplySearched(r)
===============================================================================
