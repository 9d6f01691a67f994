------------------------- MODULE StructuralValidation -------------------------
(***************************************************************************)
(* Held-out validation of structural candidates (v1.15): a candidate is     *)
(* proposed and replayed on one part of the pair's history and validated by *)
(* somebody else on the other; the best of all that were validated on the   *)
(* same graph and history is selected, reviewed and applied, if nothing of  *)
(* this has changed.                                                        *)
(*                                                                         *)
(* The part a sample belongs to is a hash of the sample: its field heldOut. *)
(* There is one policy, which never changes, so that whether a record was   *)
(* made under the current one is not a question.  Ties are settled by the   *)
(* lowest hash, here by any of the best, once for each set they are the     *)
(* best of.                                                                 *)
(***************************************************************************)
EXTENDS GraphRevision

CONSTANTS
    Candidates,          \* references of candidates
    Selections,          \* references of selections
    ValidationPolicies   \* [minSelection, minEvaluation, threshold, penalty]

ASSUME ValidationAssumption ==
    \A p \in ValidationPolicies :
        /\ p.minSelection \in Nat \ {0, 1} /\ p.minEvaluation \in Nat \ {0}
        /\ p.threshold \in 0 .. Scale /\ p.penalty \in Nat

VARIABLES
    validationPolicy,    \* table structural_validation_policy
    candidates,          \* table structural_validation_candidate
    validations,         \* table structural_validation_receipt
    selections,          \* table structural_selection_receipt
    selectionReviews,    \* table structural_selection_review
    validatedRevisions   \* table structural_validation_history

validationTables == <<validationPolicy, candidates, validations, selections,
                      selectionReviews, validatedRevisions>>
validationVars == <<graphVars, validationTables>>

ValidationInit ==
    /\ GraphInit
    /\ validationPolicy = Nothing
    /\ candidates = Nothing
    /\ validations = Nothing
    /\ selections = Nothing
    /\ selectionReviews = Nothing
    /\ validatedRevisions = Nothing

RegisterPolicy(policy) ==
    /\ validationPolicy = Nothing
    /\ validationPolicy' = policy
    /\ UNCHANGED <<graphVars, candidates, validations, selections, selectionReviews, validatedRevisions>>

-----------------------------------------------------------------------------
(* partition_dependency_samples.                                            *)
HeldOut(history) == {s \in history : s.heldOut}
Selected(history) == history \ HeldOut(history)

(* A v1.14 proposal made on the selection part of the history.              *)
Candidate(key, direction, proposer) ==
    [proposal |-> Proposal(key, direction, proposer),
     history  |-> History(key)]

(* make_structural_validation_candidate.                                    *)
Admissible(candidate) ==
    LET proposal == candidate.proposal
        training == Selected(candidate.history)
        policy   == validationPolicy
    IN /\ Cardinality(training) >= policy.minSelection
       /\ Proposable(graph.edges, proposal.key, proposal.direction,
                     Assessment(training, proposal.key.mode, policy.minSelection, policy.threshold))
       /\ ReplayStatus(proposal, training, policy.minSelection) = "STRUCTURE_IMPROVED"

RegisterCandidate(c, key, direction, proposer) ==
    /\ validationPolicy # Nothing /\ graph # Nothing
    /\ c \notin DOMAIN candidates
    /\ Admissible(Candidate(key, direction, proposer))
    /\ candidates' = With(candidates, c, Candidate(key, direction, proposer))
    /\ UNCHANGED <<graphVars, validationPolicy, validations, selections, selectionReviews, validatedRevisions>>

(* Neither the graph nor the history has changed since then.                *)
CandidateFresh(c) ==
    /\ BaseIsCurrent(candidates[c].proposal.base)
    /\ candidates[c].history = History(candidates[c].proposal.key)

(* What a candidate gains on cases it was not selected on.                  *)
Training(candidate, cases) == TrainedOn(Selected(candidate.history), cases)

Raw(candidate, cases) ==
    Improvement(Training(candidate, cases), candidate.proposal.direction, Adds(candidate.proposal))

Gain(candidate, cases) ==
    Regularized(Raw(candidate, cases), candidate.proposal.base.edges, candidate.proposal.edges,
                validationPolicy.penalty)

Covers(candidate, cases, minimum) ==
    Cardinality(Scorable(Training(candidate, cases), candidate.proposal.direction)) >= minimum

(* validate_structural_candidate.                                           *)
HeldOutStatus(candidate) ==
    LET cases == HeldOut(candidate.history) IN
    IF ~Covers(candidate, cases, validationPolicy.minEvaluation) THEN "INSUFFICIENT_HELDOUT"
    ELSE IF Raw(candidate, cases) <= 0 THEN "OVERFIT_SIGNAL"
    ELSE IF Gain(candidate, cases) <= 0 THEN "COMPLEXITY_REJECTED"
    ELSE "HELDOUT_IMPROVED"

RecordValidation(c, validator) ==
    /\ c \in DOMAIN candidates \ DOMAIN validations
    /\ CandidateFresh(c)
    /\ validator # candidates[c].proposal.proposer
    /\ validations' = With(validations, c, HeldOutStatus(candidates[c]))
    /\ UNCHANGED <<graphVars, validationPolicy, candidates, selections, selectionReviews, validatedRevisions>>

-----------------------------------------------------------------------------
(* Fresh candidates for one pair.                                           *)
CurrentOf(cs, key) == {c \in cs : candidates[c].proposal.key = key /\ CandidateFresh(c)}

(* select_structural_candidate: the best of them, or none.                  *)
ValidationScores(among) ==
    [c \in {d \in among : validations[d] = "HELDOUT_IMPROVED"} |->
        Gain(candidates[c], HeldOut(candidates[c].history))]

NoWinner == "NO_ELIGIBLE_CANDIDATE"

WinnersBy(score) == IF Best(score) = {} THEN {NoWinner} ELSE Best(score)

FinalizeSelection(r, key, winner, selector) ==
    LET among == CurrentOf(DOMAIN validations, key) IN
    /\ r \notin DOMAIN selections
    /\ among # {}
    /\ winner \in WinnersBy(ValidationScores(among))
    /\ selections' = With(selections, r, [key      |-> key,
                                          among    |-> among,
                                          winner   |-> winner,
                                          selector |-> selector])
    /\ UNCHANGED <<graphVars, validationPolicy, candidates, validations, selectionReviews, validatedRevisions>>

(* Both kinds of selection are reviewed by somebody who neither selected nor*)
(* proposed the winner.                                                     *)
Reviewable(selection, decision, reviewer) ==
    /\ reviewer # selection.selector
    /\ selection.winner = NoWinner => decision # "APPROVE"
    /\ selection.winner # NoWinner => reviewer # candidates[selection.winner].proposal.proposer

ReviewSelection(r, decision, reviewer) ==
    /\ r \in DOMAIN selections \ DOMAIN selectionReviews
    /\ Reviewable(selections[r], decision, reviewer)
    /\ selectionReviews' = With(selectionReviews, r, decision)
    /\ UNCHANGED <<graphVars, validationPolicy, candidates, validations, selections, validatedRevisions>>

(* Mutant: that the winner is fresh is enough.                              *)
WinnerFresh(r) == CandidateFresh(selections[r].winner)

(* Selecting again would give the same receipt.                             *)
SelectionFresh(r) ==
    /\ CandidateFresh(selections[r].winner)
    /\ selections[r].among = CurrentOf(DOMAIN validations, selections[r].key)

CandidateRevision(c) == Revision(candidates[c].proposal.edges, c)

ApplyValidated(r) ==
    LET winner == selections[r].winner IN
    /\ r \in DOMAIN selectionReviews \ DOMAIN validatedRevisions
    /\ winner # NoWinner
    /\ SelectionFresh(r)
    /\ selectionReviews[r] = "APPROVE"
    /\ graph' = Successor(candidates[winner].proposal.edges, winner)
    /\ validatedRevisions' = With(validatedRevisions, r, CandidateRevision(winner))
    /\ UNCHANGED <<samples, graphTables, validationPolicy, candidates, validations, selections,
                   selectionReviews>>

ValidationStep ==
    \/ \E policy \in ValidationPolicies : RegisterPolicy(policy)
    \/ \E c \in Candidates :
        \/ \E key \in Keys, direction \in Directions, proposer \in Holders.proposer :
              RegisterCandidate(c, key, direction, proposer)
        \/ \E validator \in Holders.validator : RecordValidation(c, validator)
    \/ \E r \in Selections :
        \/ \E key \in Keys, winner \in Candidates \cup {NoWinner}, selector \in Holders.selector :
              FinalizeSelection(r, key, winner, selector)
        \/ \E decision \in Decisions, reviewer \in Holders.reviewer : ReviewSelection(r, decision, reviewer)
        \/ ApplyValidated(r)
===============================================================================
