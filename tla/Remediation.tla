------------------------------ MODULE Remediation ------------------------------
(***************************************************************************)
(* What may be done about persistent drift (v1.19): alternatives are        *)
(* proposed for one snapshot and all of them assessed; one is selected,     *)
(* reviewed and applied, each step by somebody else and only as long as the *)
(* snapshot and the set of alternatives are still what they were.  Only a   *)
(* rollback changes the graph, and it does so by one more generation with   *)
(* the edges the graph had before the confirmation.                         *)
(***************************************************************************)
EXTENDS Replication

CONSTANTS
    Proposals,            \* references of proposals
    RemediationSelections,\* references of selections
    AllowedActions        \* sets of actions a policy may allow

RemediationActions ==
    {"HOLD", "COLLECT_MORE_DATA", "PARAMETER_REVISION", "STRUCTURAL_REVISION", "SAFE_ROLLBACK"}

ASSUME RemediationAssumption == AllowedActions \subseteq SUBSET RemediationActions \ {{}}

VARIABLES
    remediationPolicy,  \* table remediation_policy: the set of allowed actions
    proposals,          \* table remediation_proposal
    assessments,        \* table remediation_assessment, by proposal
    selections,         \* table remediation_selection
    selectionReviews,   \* table remediation_review, by selection
    executions          \* table remediation_execution, by snapshot

remediationTables == <<remediationPolicy, proposals, assessments, selections,
                       selectionReviews, executions>>
vars == <<replicationVars, remediationTables>>

Init ==
    /\ ReplicationInit
    /\ remediationPolicy = {}
    /\ proposals = Nothing
    /\ assessments = Nothing
    /\ selections = Nothing
    /\ selectionReviews = Nothing
    /\ executions = Nothing

RegisterRemediationPolicy(allowed) ==
    /\ remediationPolicy = {}
    /\ remediationPolicy' = allowed
    /\ UNCHANGED <<replicationVars, proposals, assessments, selections, selectionReviews, executions>>

-----------------------------------------------------------------------------
(* Mutant: that the target is current is enough.                            *)
TargetCurrent(x) ==
    /\ x[1] = Current
    /\ snapshots[x].signal = "PERSISTENT_DRIFT_SIGNAL"

(* _fresh_snapshot: summarizing again would give the same snapshot.         *)
FreshSnapshot(x) ==
    /\ x[1] = Current
    /\ Summarizable(x[1])
    /\ snapshots[x] = Summary(x[1])
    /\ snapshots[x].signal = "PERSISTENT_DRIFT_SIGNAL"

LatestEvaluator(x) == evaluations[x].evaluator

Propose(p, x, action, proposer) ==
    /\ remediationPolicy # {}
    /\ p \notin DOMAIN proposals
    /\ FreshSnapshot(x)
    /\ x \notin DOMAIN executions
    /\ action \in remediationPolicy
    /\ proposals' = With(proposals, p, [snapshot |-> x, action |-> action, proposer |-> proposer])
    /\ UNCHANGED <<replicationVars, remediationPolicy, assessments, selections, selectionReviews, executions>>

AssessmentStatus(p) ==
    LET g == proposals[p].snapshot[1]
        i == proposals[p].snapshot[2]
    IN IF proposals[p].action = "SAFE_ROLLBACK"
       THEN IF CurrentAdvantage(g, series[g][i].samples) <= 0
            THEN "ROLLBACK_SUPPORTED" ELSE "ROLLBACK_UNSUPPORTED"
       ELSE IF proposals[p].action \in {"PARAMETER_REVISION", "STRUCTURAL_REVISION"}
       THEN "DOWNSTREAM_GOVERNANCE_REQUIRED"
       ELSE "NON_MUTATING_SAFE"

Assess(p, assessor) ==
    /\ p \in DOMAIN proposals \ DOMAIN assessments
    /\ FreshSnapshot(proposals[p].snapshot)
    /\ assessor \notin {proposals[p].proposer, LatestEvaluator(proposals[p].snapshot)}
    /\ assessments' = With(assessments, p, [status |-> AssessmentStatus(p), assessor |-> assessor])
    /\ UNCHANGED <<replicationVars, remediationPolicy, proposals, selections, selectionReviews, executions>>

-----------------------------------------------------------------------------
Alternatives(x) == {p \in DOMAIN proposals : proposals[p].snapshot = x}

Select(r, p, selector) ==
    LET x == proposals[p].snapshot IN
    /\ r \notin DOMAIN selections
    /\ p \in DOMAIN proposals
    /\ FreshSnapshot(x)
    /\ Alternatives(x) \subseteq DOMAIN assessments
    /\ assessments[p].status # "ROLLBACK_UNSUPPORTED"
    /\ selector \notin {proposals[p].proposer, assessments[p].assessor, LatestEvaluator(x)}
    /\ selections' = With(selections, r, [alternatives |-> Alternatives(x), selected |-> p,
                                          selector |-> selector])
    /\ UNCHANGED <<replicationVars, remediationPolicy, proposals, assessments, selectionReviews, executions>>

SnapshotOf(r) == proposals[selections[r].selected].snapshot

(* Who took part in a selection so far.                                     *)
Deciders(r) ==
    LET p == selections[r].selected IN
    {proposals[p].proposer, assessments[p].assessor, selections[r].selector}

(* _fresh_selection: selecting again would give the same receipt.           *)
FreshSelection(r) ==
    /\ FreshSnapshot(SnapshotOf(r))
    /\ Alternatives(SnapshotOf(r)) = selections[r].alternatives

ReviewSelection(r, decision, reviewer) ==
    /\ r \in DOMAIN selections \ DOMAIN selectionReviews
    /\ FreshSelection(r)
    /\ reviewer \notin Deciders(r)
    /\ selectionReviews' = With(selectionReviews, r, [decision |-> decision, reviewer |-> reviewer])
    /\ UNCHANGED <<replicationVars, remediationPolicy, proposals, assessments, selections, executions>>

(* execute_remediation.  That a rollback is supported follows from its      *)
(* having been selected.                                                    *)
Apply(r, applier) ==
    LET x      == SnapshotOf(r)
        action == proposals[selections[r].selected].action
    IN /\ r \in DOMAIN selectionReviews
       /\ FreshSelection(r)
       /\ selectionReviews[r].decision = "APPROVE"
       /\ applier \notin Deciders(r) \cup {LatestEvaluator(x), selectionReviews[r].reviewer}
       /\ x \notin DOMAIN executions
       /\ executions' = With(executions, x, [selection |-> r, action |-> action])
       /\ IF action = "SAFE_ROLLBACK" THEN Revise(GraphAt(Current - 1)) ELSE UNCHANGED lineVars
       /\ UNCHANGED <<confirmations, used, replicationPolicy, series, evaluations, reviews, snapshots,
                      remediationPolicy, proposals, assessments, selections, selectionReviews>>

RemediationDecisions == {"APPROVE", "HOLD", "REJECT"}

RemediationStep ==
    \/ \E allowed \in AllowedActions : RegisterRemediationPolicy(allowed)
    \/ \E p \in Proposals :
        \/ \E x \in DOMAIN snapshots, action \in RemediationActions, proposer \in Holders.proposer :
              Propose(p, x, action, proposer)
        \/ \E assessor \in Holders.assessor : Assess(p, assessor)
    \/ \E r \in RemediationSelections :
        \/ \E p \in DOMAIN proposals, selector \in Holders.selector : Select(r, p, selector)
        \/ \E decision \in RemediationDecisions, reviewer \in Holders.remediationReviewer :
              ReviewSelection(r, decision, reviewer)
        \/ \E applier \in Holders.applier : Apply(r, applier)

Next ==
    \/ EnvironmentStep /\ UNCHANGED <<replicationPolicy, series, evaluations, reviews, snapshots,
                                      remediationTables>>
    \/ ReplicationStep /\ UNCHANGED remediationTables
    \/ RemediationStep

Spec == Init /\ [][Next]_vars

-----------------------------------------------------------------------------
(* I-371 to I-374, I-377, I-381, I-390, I-395, I-399: a rollback answers the *)
(* drift there is, not one there was.  Whatever is evaluated, reviewed,      *)
(* proposed or revised between the snapshot and the application, the graph   *)
(* goes back by one generation only from a confirmed one whose whole series  *)
(* of evaluations is acknowledged and ends in as many drifts as the policy   *)
(* asks for, the last of which shows no advantage of the confirmed edge, and *)
(* only once every alternative then proposed was assessed.                   *)
Rollbacks == {x \in DOMAIN executions : executions[x].action = "SAFE_ROLLBACK"}

RollbackAnswersDrift ==
    \A x \in Rollbacks :
        LET g == x[1] IN
        /\ g \in confirmed
        /\ GraphAt(g + 1) = GraphAt(g - 1)
        /\ Evaluated(g) = 1 .. x[2]
        /\ \A i \in Evaluated(g) : <<g, i>> \in DOMAIN reviews /\ reviews[<<g, i>>] = "ACKNOWLEDGE"
        /\ x[2] - replicationPolicy.epochs + 1 .. x[2] \subseteq Drifted(g)
        /\ CurrentAdvantage(g, series[g][x[2]].samples) <= 0
        /\ Alternatives(x) \subseteq DOMAIN assessments
        /\ \A y \in DOMAIN executions : y[1] = g => y[2] <= x[2]
===============================================================================
