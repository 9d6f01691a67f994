---------------------------- MODULE ModelRevision ----------------------------
(***************************************************************************)
(* Revising a likelihood model because of its calibration (v1.13): a signal *)
(* lets somebody propose other likelihoods, the proposal is replayed on the *)
(* scored history, somebody else reviews the replay, and what was approved  *)
(* is applied if neither model, distribution nor history have changed.      *)
(*                                                                         *)
(* Composed with the evidence and calibration planes, whose tables it reads *)
(* and whose models it replaces.  Every step is one BEGIN IMMEDIATE         *)
(* transaction.  A proposal's reference is never used again and stands for  *)
(* its hash.                                                                *)
(***************************************************************************)
EXTENDS Calibration

CONSTANTS
    Proposals,  \* references of proposals
    Proposed,   \* likelihoods people propose
    Signals,    \* policies of requests: [minSamples, threshold]
    MinCases,   \* how many cases replays ask for
    People      \* who proposes and reviews

ASSUME RevisionAssumption ==
    /\ \A p \in Signals : p.minSamples \in Nat \ {0} /\ p.threshold \in 0 .. Scale
    /\ Proposed \subseteq Likelihoods
    /\ MinCases \subseteq Nat \ {0}

VARIABLES
    proposals,  \* table model_revision_proposal
    replays,    \* table model_revision_replay
    reviews,    \* table model_revision_review
    revisions   \* table model_revision_history

revision == <<proposals, replays, reviews, revisions>>
revisionVars == <<calibrationVars, revision>>

RevisionInit ==
    /\ CalibrationInit
    /\ proposals = Nothing
    /\ replays = Nothing
    /\ reviews = Nothing
    /\ revisions = Nothing

Proposal(w, family, likelihood, proposer) ==
    [base       |-> models[w],
     family     |-> family,
     likelihood |-> likelihood,
     proposer   |-> proposer]

RegisterProposal(p, w, family, likelihood, policy, proposer) ==
    /\ p \notin DOMAIN proposals
    /\ w \in DOMAIN models
    /\ models[w].distribution = distributions[Bound(w)]
    /\ Miscalibrated(family, policy)
    /\ proposals' = With(proposals, p, Proposal(w, family, likelihood, proposer))
    /\ UNCHANGED <<calibrationVars, replays, reviews, revisions>>

(* The scored history of the proposal's family and model reference.         *)
Cases(p) ==
    {w \in Observations(proposals[p].family) : scores[w].ref = proposals[p].base.ref}

Positive(w) == scores[w].outcome = "POSITIVE"

OldBrier(p) ==
    MeanOf([w \in Cases(p) |-> BinaryBrier(scores[w].predicted, Positive(w))])

NewBrier(p) ==
    MeanOf([w \in Cases(p) |-> BinaryBrier(proposals[p].likelihood[scores[w].truth], Positive(w))])

ReplayStatus(p, minCases) ==
    IF Cardinality(Cases(p)) < minCases THEN "INSUFFICIENT_SCORABLE_CASES"
    ELSE IF NewBrier(p) < OldBrier(p) THEN "IMPROVED" ELSE "NO_IMPROVEMENT"

Replay(p, minCases) ==
    [cases    |-> Cases(p),
     minCases |-> minCases,
     status   |-> ReplayStatus(p, minCases)]

RecordReplay(p, minCases) ==
    /\ p \in DOMAIN proposals
    /\ p \notin DOMAIN replays
    /\ replays' = With(replays, p, Replay(p, minCases))
    /\ UNCHANGED <<calibrationVars, proposals, reviews, revisions>>

(* review_revision.                                                         *)
Reviewable(p, decision, reviewer) ==
    /\ reviewer # proposals[p].proposer
    /\ decision = "APPROVE" => replays[p].status = "IMPROVED"

Review(decision, reviewer, now) ==
    [decision |-> decision, reviewer |-> reviewer, reviewedAt |-> now]

RecordReview(p, decision, reviewer, now) ==
    /\ p \in DOMAIN replays
    /\ p \notin DOMAIN reviews
    /\ Reviewable(p, decision, reviewer)
    /\ reviews' = With(reviews, p, Review(decision, reviewer, now))
    /\ UNCHANGED <<calibrationVars, proposals, replays, revisions>>

(* Mutant: a replay is good for ever.                                       *)
SameStatus(p) == replays[p].status = "IMPROVED"

(* The recorded replay describes the history as it is now.                  *)
SameReplayState(p) == replays[p] = Replay(p, replays[p].minCases)

(* Mutant: the model may have been replaced since the proposal.             *)
SameWork(p) == TRUE

(* Neither the model nor, with it, its distribution has changed.            *)
BaseIsCurrent(p) ==
    LET base == proposals[p].base IN
    models[base.work] = base /\ base.distribution = distributions[base.distribution.ref]

Revised(p) ==
    [proposals[p].base EXCEPT !.likelihood = proposals[p].likelihood,
                              !.generation = proposals[p].base.generation + 1]

ApplyRevision(p, now) ==
    /\ p \in DOMAIN reviews \ DOMAIN revisions
    /\ SameReplayState(p)
    /\ BaseIsCurrent(p)
    /\ replays[p].status = "IMPROVED" /\ reviews[p].decision = "APPROVE"
    /\ reviews[p].reviewedAt <= now
    /\ models' = [models EXCEPT ![proposals[p].base.work] = Revised(p)]
    /\ revisions' = With(revisions, p, [base    |-> proposals[p].base,
                                        new     |-> Revised(p),
                                        against |-> Cases(p)])
    /\ UNCHANGED <<debt, distributions, dependencies, rules, history, calibration,
                   proposals, replays, reviews>>

RevisionNext ==
    \/ EvidenceNext /\ UNCHANGED <<calibration, revision>>
    \/ CalibrationStep /\ UNCHANGED revision
    \/ \E p \in Proposals, now \in Times :
        \/ \E w \in Works, family \in Families, likelihood \in Proposed, policy \in Signals, proposer \in People :
              RegisterProposal(p, w, family, likelihood, policy, proposer)
        \/ \E minCases \in MinCases : RecordReplay(p, minCases)
        \/ \E decision \in {"APPROVE", "HOLD", "REJECT"}, reviewer \in People :
              RecordReview(p, decision, reviewer, now)
        \/ ApplyRevision(p, now)

RevisionSpec == RevisionInit /\ [][RevisionNext]_revisionVars
-----------------------------------------------------------------------------
(* Types: every record of a plane rests on one of the plane before it.      *)
RevisionTypeOK ==
    /\ EvidenceTypeOK
    /\ DOMAIN scores \subseteq DOMAIN targets \cap DOMAIN accepted
    /\ \A w \in DOMAIN targets : targets[w].model.work = w /\ TargetOf(w) \in DOMAIN distributions
    /\ \A s \in pairs : {s.left, s.right} \subseteq DOMAIN targets \cap DOMAIN accepted
    /\ DOMAIN revisions \subseteq DOMAIN reviews
    /\ DOMAIN reviews \subseteq DOMAIN replays
    /\ DOMAIN replays \subseteq DOMAIN proposals
    /\ \A p \in DOMAIN replays : replays[p].cases \subseteq DOMAIN scores

(* I-195, I-198, I-199: what is scored is the prediction that moved the     *)
(* belief: models may be registered anew, rebound by an update or revised   *)
(* after a target has frozen one, but then the evidence is not scored by it.*)
ScoresWhatWasUsed ==
    \A w \in DOMAIN scores :
        /\ accepted[w].prior.ref \in DOMAIN resolutions
        /\ scores[w].truth = resolutions[accepted[w].prior.ref].truth
        /\ scores[w].predicted = accepted[w].model.likelihood[scores[w].truth]
        /\ scores[w].ref = accepted[w].model.ref

(* I-224, I-225, I-233: a model was revised only on the history its reviewer*)
(* saw, complete at that time, and because the proposal errs less on it.    *)
RevisedOnReviewedHistory ==
    \A p \in DOMAIN revisions :
        LET cases == revisions[p].against IN
        /\ replays[p].cases = cases
        /\ Cardinality(cases) >= replays[p].minCases
        /\ reviews[p].decision = "APPROVE" /\ reviews[p].reviewer # proposals[p].proposer
        /\ MeanOf([w \in cases |-> BinaryBrier(revisions[p].new.likelihood[scores[w].truth], Positive(w))])
             < MeanOf([w \in cases |-> BinaryBrier(scores[w].predicted, Positive(w))])

(* I-219, I-220, I-232, I-234: the revisions of a model are one line, in    *)
(* which none starts from a model that another one, an update or a keeper   *)
(* had already replaced.                                                    *)
RevisionsInLine ==
    \A p, q \in DOMAIN revisions :
        LET first == revisions[p] second == revisions[q] IN
        /\ first.new.generation <= models[first.base.work].generation
        /\ p # q /\ first.base.work = second.base.work =>
             \/ first.new.generation <= second.base.generation
             \/ second.new.generation <= first.base.generation

(* I-183 to I-191, I-216: whatever is registered, rebound, scored and       *)
(* revised around them, beliefs are a ledger of evidence.                   *)
Ledger == INSTANCE BeliefLedger WITH
    Beliefs  <- {p.ref : p \in Priors},
    Openings <- {p.probability : p \in Priors},
    Tests    <- {t.likelihood : t \in Tests} \cup Proposed,
    belief   <- [r \in DOMAIN distributions |-> distributions[r].probability],
    counted  <- Counted

ImplementsLedger == Ledger!LedgerSpec
===============================================================================
