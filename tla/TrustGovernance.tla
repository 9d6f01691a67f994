---------------------------- MODULE TrustGovernance ----------------------------
(***************************************************************************)
(* Trust-root governance (ATMAN-TRUST/1.2): current roots sign an exact     *)
(* transition of the trust policy, worker processes submit the signatures  *)
(* and one SQLite transaction verifies them and replaces the policy.        *)
(*                                                                         *)
(* A worker process is launched for one request, with its own environment: *)
(* a bootstrap configuration (BootOf) and a time.  Processes run            *)
(* concurrently and may die at any point; only a COMMIT leaves a trace.     *)
(* The time of a process is whatever its launcher put into the environment, *)
(* so the model lets it be any element of Times: nothing orders the clocks  *)
(* of two processes.                                                        *)
(***************************************************************************)
EXTENDS PolicyRegister

CONSTANTS
    Procs,         \* worker processes
    BootOf,        \* the bootstrap configuration in each process's environment
    Foreseen,      \* policies that signers expect to be made
    MaxApprovals,  \* bound: signatures made in a behaviour
    Idle           \* a process with no request

ASSUME BootOfAssumption == BootOf \in [Procs -> BootConfigs]
ASSUME ApprovalsBound == MaxApprovals \in Nat

VARIABLES
    receipts,   \* table trust_transition_receipts
    approvals,  \* every signature made so far: clients may send any of them, again
    rotating    \* what each process is executing: Idle or a rotate_trust_roots request

vars == <<policy, receipts, approvals, rotating>>

-----------------------------------------------------------------------------
(* The action a rotation is about; its digest is taken to be injective.    *)
(* reason_ref is one more field the digest binds and is left out.          *)
TransitionAction(current, proposal, transitionedAt) ==
    [current        |-> current,
     proposal       |-> proposal,
     transitionedAt |-> transitionedAt]

(* Mutants: a proposal nobody could ever replace; a policy activated before *)
(* the one it replaces.                                                     *)
AnyProposalAllowed(current, proposal, transitionedAt) ==
    transitionedAt >= current.activatedAt
AnyTimeAllowed(current, proposal, transitionedAt) ==
    ValidRoots(proposal.roots, proposal.threshold)

(* trust_transition_action: what a rotation must satisfy before any         *)
(* signature is looked at.                                                  *)
TransitionAllowed(current, proposal, transitionedAt) ==
    /\ ValidRoots(proposal.roots, proposal.threshold)
    /\ transitionedAt >= current.activatedAt

(* The policies a signer can hold a copy of: the current one, any it        *)
(* replaced, the bootstrap policy of a configuration (which anybody who     *)
(* knows the configuration can compute), and one that is not there yet.     *)
KnownPolicies ==
    {r.from : r \in receipts} \cup ({policy} \ {NoPolicy})
        \cup {CreateBootstrapPolicy(b) : b \in BootConfigs} \cup Foreseen

SignTrustTransition(current, signer, proposal, transitionedAt, signedAt) ==
    /\ Cardinality(approvals) < MaxApprovals
    /\ signer \in DOMAIN current.roots
    /\ signedAt <= transitionedAt
    /\ TransitionAllowed(current, proposal, transitionedAt)
    /\ approvals' = approvals \cup
         {[signer   |-> signer,
           key      |-> current.roots[signer],
           current  |-> current,
           action   |-> TransitionAction(current, proposal, transitionedAt),
           signedAt |-> signedAt]}
    /\ UNCHANGED <<policy, receipts, rotating>>

(* Mutant: an approval names the proposal, not the policy it replaces.      *)
ApprovalOfProposal(a, current, action) ==
    /\ a.action.proposal = action.proposal
    /\ a.action.transitionedAt = action.transitionedAt
    /\ a.signedAt <= action.transitionedAt
    /\ a.signer \in DOMAIN current.roots
    /\ a.key = current.roots[a.signer]

(* One invalid approval refuses the whole request.                         *)
ApprovalValid(a, current, action) ==
    /\ a.current = current
    /\ a.action = action
    /\ a.signedAt <= action.transitionedAt
    /\ a.signer \in DOMAIN current.roots
    /\ a.key = current.roots[a.signer]

Signers(as) == {a.signer : a \in as}

(* Mutant: the proposed threshold decides about its own adoption.           *)
ProposedQuorumReached(current, action, as) ==
    /\ \A a \in as : ApprovalValid(a, current, action)
    /\ \A a, b \in as : a.signer = b.signer => a = b
    /\ Cardinality(Signers(as)) >= action.proposal.threshold

QuorumReached(current, action, as) ==
    /\ \A a \in as : ApprovalValid(a, current, action)
    /\ \A a, b \in as : a.signer = b.signer => a = b
    /\ Cardinality(Signers(as)) >= current.threshold

Receipt(current, updated, as) ==
    [from      |-> current,
     to        |-> updated,
     required  |-> current.threshold,
     approvals |-> as]

-----------------------------------------------------------------------------
Init ==
    /\ PolicyInit
    /\ receipts = {}
    /\ approvals = {}
    /\ rotating = [p \in Procs |-> Idle]

(* get_trust_policy, and the policy read every other plane's worker makes  *)
(* before it does anything else.                                           *)
GetTrustPolicy(p) ==
    /\ rotating[p] = Idle
    /\ ReadOrBootstrap(BootOf[p])
    /\ UNCHANGED <<receipts, approvals, rotating>>

(* A process is launched with a rotation request: decoding happens before  *)
(* the transaction, so other processes may commit in between.              *)
ReceiveRotation(p, proposal, as, now) ==
    /\ rotating[p] = Idle
    /\ rotating' = [rotating EXCEPT ![p] =
                        [proposal |-> proposal, approvals |-> as, now |-> now]]
    /\ UNCHANGED <<policy, receipts, approvals>>

(* The transaction: bootstrap if the table is empty, verify the approvals  *)
(* against the locked policy, write both tables.                           *)
RotateTrustRoots(p) ==
    /\ rotating[p] # Idle
    /\ LET request == rotating[p]
           current == Locked(BootOf[p])
           updated == SuccessorPolicy(current, request.proposal, request.now)
           action  == TransitionAction(current, request.proposal, request.now)
       IN /\ current.generation < MaxGeneration
          /\ TransitionAllowed(current, request.proposal, request.now)
          /\ QuorumReached(current, action, request.approvals)
          /\ policy' = updated
          /\ receipts' = receipts \cup {Receipt(current, updated, request.approvals)}
    /\ rotating' = [rotating EXCEPT ![p] = Idle]
    /\ UNCHANGED approvals

(* A refused request rolls back (the bootstrap row included), and so does  *)
(* a process that dies before COMMIT.                                      *)
AbortRotation(p) ==
    /\ rotating[p] # Idle
    /\ rotating' = [rotating EXCEPT ![p] = Idle]
    /\ UNCHANGED <<policy, receipts, approvals>>

Sign ==
    \E current \in KnownPolicies, proposal \in Proposals, t, s \in Times :
        \E signer \in DOMAIN current.roots :
            SignTrustTransition(current, signer, proposal, t, s)

Receive(p) ==
    \E proposal \in Proposals, as \in SUBSET approvals, now \in Times :
        ReceiveRotation(p, proposal, as, now)

Next ==
    \/ Sign
    \/ \E p \in Procs :
        \/ GetTrustPolicy(p)
        \/ Receive(p)
        \/ RotateTrustRoots(p)
        \/ AbortRotation(p)

Spec == Init /\ [][Next]_vars

-----------------------------------------------------------------------------
IsPolicy(p) ==
    /\ p.generation \in Nat
    /\ p.activatedAt \in Nat
    /\ ValidRoots(p.roots, p.threshold)

ASSUME ForeseenAssumption == \A p \in Foreseen : IsPolicy(p)

(* Types: the persisted policy is a valid policy, requests and signatures   *)
(* have the fields the code decodes.                                        *)
TypeOK ==
    /\ policy = NoPolicy \/ IsPolicy(policy)
    /\ \A r \in receipts : IsPolicy(r.from) /\ IsPolicy(r.to)
    /\ \A a \in approvals : IsPolicy(a.current) /\ a.signedAt \in Times
    /\ DOMAIN rotating = Procs
    /\ \A p \in Procs :
        \/ rotating[p] = Idle
        \/ /\ rotating[p].proposal \in Proposals
           /\ rotating[p].approvals \subseteq approvals
           /\ rotating[p].now \in Times

(* I-68, I-69: every generation that took over was approved, signature by   *)
(* signature, by current roots of the generation it replaced, as many of    *)
(* them as the REPLACED policy demanded, and for exactly the policy that    *)
(* took over: no signature collected for another proposal, another time, a  *)
(* sibling bootstrap or an earlier generation was counted.                  *)
QuorumOfPredecessor ==
    \A r \in receipts :
        /\ Cardinality(Signers(r.approvals)) >= r.from.threshold
        /\ \A a \in r.approvals :
            /\ a \in approvals
            /\ a.signer \in DOMAIN r.from.roots
            /\ a.key = r.from.roots[a.signer]
            /\ a.action = TransitionAction(r.from,
                             [roots |-> r.to.roots, threshold |-> r.to.threshold],
                             r.to.activatedAt)

(* I-71, I-72, I-74: the receipts form one line from one bootstrap to the   *)
(* current policy.  No policy was ever replaced twice (two processes that   *)
(* verified against the same generation), and no restart with another       *)
(* environment began a second line.                                         *)
OneLineOfSuccession ==
    /\ \A r, s \in receipts : r.from.generation = s.from.generation => r = s
    /\ \A r \in receipts :
        /\ r.to = policy \/ \E s \in receipts : s.from = r.to
        /\ r.from.previous = NoPolicy \/ \E s \in receipts : s.to = r.from
    /\ policy = NoPolicy => receipts = {}
    /\ policy # NoPolicy =>
        policy.previous = NoPolicy \/ \E r \in receipts : r.to = policy

(* I-69, I-74: a signature is counted in at most one committed transition,  *)
(* however often clients resubmit it.                                       *)
ApprovalSpentOnce ==
    \A r, s \in receipts : r # s => r.approvals \cap s.approvals = {}

(* I-70, I-72: governance implements the policy register: whatever the      *)
(* processes and their environments do, the policy is bootstrapped once and *)
(* then only replaced by its direct successor, never activated before it.   *)
ImplementsRegister == PolicySpec

===============================================================================
