------------------------- MODULE TrustGovernanceProofs -------------------------
(***************************************************************************)
(* Proofs about TrustGovernance, for any number of processes, any           *)
(* environments, any proposals and any clocks.                              *)
(*                                                                         *)
(* The receipts alone do not tell why no policy is replaced twice.  What    *)
(* makes the safety properties inductive is Lineage: a committed policy is  *)
(* the successor of exactly what it replaced, and no receipt is ahead of    *)
(* the persisted policy.                                                    *)
(***************************************************************************)
EXTENDS TrustGovernance, TLAPS

ProposalOf(p) == [roots |-> p.roots, threshold |-> p.threshold]

Lineage ==
    \A r \in receipts :
        /\ r.to = SuccessorPolicy(r.from, ProposalOf(r.to), r.to.activatedAt)
        /\ policy # NoPolicy
        /\ r.to.generation <= policy.generation

IInv == TypeOK /\ Lineage /\ QuorumOfPredecessor /\ OneLineOfSuccession

-----------------------------------------------------------------------------
(* A bootstrap policy is a valid policy that replaced nothing.              *)
LEMMA BootstrapIsPolicy ==
    ASSUME NEW b \in BootConfigs
    PROVE  /\ IsPolicy(CreateBootstrapPolicy(b))
           /\ CreateBootstrapPolicy(b).previous = NoPolicy
           /\ CreateBootstrapPolicy(b) # NoPolicy
BY BootAssumption DEF IsPolicy, CreateBootstrapPolicy, NoPolicy, ValidRoots

(* A policy is never the mark of an empty table.                            *)
LEMMA PolicyIsSomething ==
    ASSUME NEW p, IsPolicy(p)
    PROVE  p # NoPolicy
BY DEF IsPolicy, NoPolicy

(* What a transaction works on is a valid policy, the persisted one if      *)
(* there is one.                                                            *)
LEMMA LockedIsPolicy ==
    ASSUME TypeOK, NEW b \in BootConfigs
    PROVE  /\ IsPolicy(Locked(b))
           /\ policy # NoPolicy => Locked(b) = policy
           /\ policy = NoPolicy => Locked(b).previous = NoPolicy
BY BootstrapIsPolicy DEF Locked, TypeOK

(* The successor of a valid policy is one, if the transition was allowed.   *)
LEMMA SuccessorIsPolicy ==
    ASSUME NEW current, IsPolicy(current),
           NEW proposal \in Proposals, NEW now \in Times,
           TransitionAllowed(current, proposal, now)
    PROVE  /\ IsPolicy(SuccessorPolicy(current, proposal, now))
           /\ SuccessorPolicy(current, proposal, now).generation = current.generation + 1
           /\ ProposalOf(SuccessorPolicy(current, proposal, now)) = proposal
           /\ SuccessorPolicy(current, proposal, now).activatedAt = now
BY TimesAssumption, ProposalsAssumption
   DEF IsPolicy, SuccessorPolicy, TransitionAllowed, ValidRoots, ProposalOf

(* Every copy of a policy a signer may hold is a valid policy.              *)
LEMMA KnownArePolicies ==
    ASSUME TypeOK, NEW current \in KnownPolicies
    PROVE  IsPolicy(current)
BY BootstrapIsPolicy, ForeseenAssumption DEF KnownPolicies, TypeOK

-----------------------------------------------------------------------------
(* The four properties hold of the empty database.                          *)
LEMMA InitIInv == Init => IInv
BY DEF Init, PolicyInit, IInv, TypeOK, Lineage, QuorumOfPredecessor, OneLineOfSuccession

(* Signing adds a signature; nothing that is stored changes.                *)
LEMMA SignIInv == IInv /\ Sign => IInv'
<1> SUFFICES ASSUME IInv, NEW current \in KnownPolicies, NEW proposal \in Proposals,
                    NEW t \in Times, NEW s \in Times, NEW signer \in DOMAIN current.roots,
                    SignTrustTransition(current, signer, proposal, t, s)
             PROVE  IInv'
  BY DEF Sign
<1> USE DEF SignTrustTransition
<1>1. TypeOK'
  BY KnownArePolicies DEF IInv, TypeOK, IsPolicy
<1>2. Lineage'
  BY DEF IInv, Lineage, SuccessorPolicy, ProposalOf
<1>3. QuorumOfPredecessor'
  BY DEF IInv, QuorumOfPredecessor, Signers, TransitionAction
<1>4. OneLineOfSuccession'
  BY DEF IInv, OneLineOfSuccession
<1> QED BY <1>1, <1>2, <1>3, <1>4 DEF IInv

(* Reading the policy stores at most a bootstrap policy, and only while     *)
(* there are no receipts.                                                   *)
LEMMA GetTrustPolicyIInv == ASSUME NEW p \in Procs PROVE IInv /\ GetTrustPolicy(p) => IInv'
<1> SUFFICES ASSUME IInv, GetTrustPolicy(p) PROVE IInv'
  OBVIOUS
<1> DEFINE b == BootOf[p]
<1>1. b \in BootConfigs
  BY BootOfAssumption
<1>2. policy' = Locked(b) /\ UNCHANGED <<receipts, approvals, rotating>>
  BY DEF GetTrustPolicy, ReadOrBootstrap
<1>3. /\ IsPolicy(policy')
      /\ policy # NoPolicy => policy' = policy
      /\ policy = NoPolicy => policy'.previous = NoPolicy /\ receipts = {}
  BY <1>1, <1>2, LockedIsPolicy DEF IInv, OneLineOfSuccession
<1>4. TypeOK'
  BY <1>2, <1>3 DEF IInv, TypeOK, IsPolicy
<1>5. Lineage'
  BY <1>2, <1>3 DEF IInv, Lineage, SuccessorPolicy, ProposalOf
<1>6. QuorumOfPredecessor'
  BY <1>2 DEF IInv, QuorumOfPredecessor, Signers, TransitionAction
<1>7. OneLineOfSuccession'
  BY <1>2, <1>3, PolicyIsSomething DEF IInv, OneLineOfSuccession
<1> QED BY <1>4, <1>5, <1>6, <1>7 DEF IInv

(* The rotation transaction.                                                *)
LEMMA RotateIInv == ASSUME NEW p \in Procs PROVE IInv /\ RotateTrustRoots(p) => IInv'
<1> SUFFICES ASSUME IInv, RotateTrustRoots(p) PROVE IInv'
  OBVIOUS
<1> DEFINE request == rotating[p]
           current == Locked(BootOf[p])
           updated == SuccessorPolicy(current, request.proposal, request.now)
           action  == TransitionAction(current, request.proposal, request.now)
           receipt == Receipt(current, updated, request.approvals)
<1>1. /\ request.proposal \in Proposals
      /\ request.now \in Times
      /\ request.approvals \subseteq approvals
  BY DEF IInv, TypeOK, RotateTrustRoots
<1>2. /\ TransitionAllowed(current, request.proposal, request.now)
      /\ QuorumReached(current, action, request.approvals)
      /\ policy' = updated
      /\ receipts' = receipts \cup {receipt}
      /\ rotating' = [rotating EXCEPT ![p] = Idle]
      /\ approvals' = approvals
  BY DEF RotateTrustRoots
<1>3. /\ IsPolicy(current)
      /\ policy # NoPolicy => current = policy
      /\ policy = NoPolicy => current.previous = NoPolicy /\ receipts = {}
  BY LockedIsPolicy, BootOfAssumption DEF IInv, OneLineOfSuccession
<1>4. /\ IsPolicy(updated)
      /\ updated.generation = current.generation + 1
      /\ ProposalOf(updated) = request.proposal
      /\ updated.activatedAt = request.now
      /\ updated # NoPolicy
  BY <1>1, <1>2, <1>3, SuccessorIsPolicy, PolicyIsSomething
<1>5. receipt.from = current /\ receipt.to = updated /\ receipt.approvals = request.approvals
  BY DEF Receipt
<1> HIDE DEF current, updated, receipt, request
<1>6. TypeOK'
  <2>1. \A r \in receipts' : IsPolicy(r.from) /\ IsPolicy(r.to)
    BY <1>2, <1>3, <1>4, <1>5 DEF IInv, TypeOK
  <2> QED BY <2>1, <1>2, <1>4 DEF IInv, TypeOK, IsPolicy
<1>7. Lineage'
  <2> SUFFICES ASSUME NEW r \in receipts'
               PROVE  /\ r.to = SuccessorPolicy(r.from, ProposalOf(r.to), r.to.activatedAt)
                      /\ r.to.generation <= updated.generation
    BY <1>2, <1>4 DEF Lineage, SuccessorPolicy, ProposalOf
  <2>1. CASE r = receipt
    BY <2>1, <1>4, <1>5 DEF updated, IsPolicy
  <2>2. CASE r \in receipts
    <3>1. current = policy
      BY <2>2, <1>3
    <3> QED BY <2>2, <3>1, <1>3, <1>4 DEF IInv, Lineage, TypeOK, IsPolicy
  <2> QED BY <1>2, <2>1, <2>2
<1>8. QuorumOfPredecessor'
  <2> SUFFICES ASSUME NEW r \in receipts'
               PROVE  /\ Cardinality(Signers(r.approvals)) >= r.from.threshold
                      /\ \A a \in r.approvals :
                          /\ a \in approvals
                          /\ a.signer \in DOMAIN r.from.roots
                          /\ a.key = r.from.roots[a.signer]
                          /\ a.action = TransitionAction(r.from, ProposalOf(r.to), r.to.activatedAt)
    BY <1>2 DEF QuorumOfPredecessor, ProposalOf, Signers, TransitionAction
  <2>1. CASE r = receipt
    BY <2>1, <1>1, <1>2, <1>4, <1>5 DEF QuorumReached, ApprovalValid
  <2>2. CASE r \in receipts
    BY <2>2 DEF IInv, QuorumOfPredecessor, ProposalOf
  <2> QED BY <1>2, <2>1, <2>2
<1>9. OneLineOfSuccession'
  <2>1. \A r \in receipts : r.from.generation # current.generation
    <3> SUFFICES ASSUME NEW r \in receipts PROVE r.from.generation # current.generation
      OBVIOUS
    <3>1. current = policy
      BY <1>3 DEF IInv, Lineage
    <3>2. r.to.generation = r.from.generation + 1
      <4>1. r.to = SuccessorPolicy(r.from, ProposalOf(r.to), r.to.activatedAt)
        BY DEF IInv, Lineage
      <4>2. \A c, q, t : SuccessorPolicy(c, q, t).generation = c.generation + 1
        BY DEF SuccessorPolicy
      <4> QED BY <4>1, <4>2
    <3>3. r.to.generation <= policy.generation
      BY DEF IInv, Lineage
    <3>4. r.from.generation \in Nat /\ current.generation \in Nat
      BY <1>3 DEF IInv, TypeOK, IsPolicy
    <3> QED BY <3>1, <3>2, <3>3, <3>4
  <2>2. \A r, s \in receipts' : r.from.generation = s.from.generation => r = s
    BY <2>1, <1>2, <1>5 DEF IInv, OneLineOfSuccession
  <2>3. \A r \in receipts' : r.to = policy' \/ \E s \in receipts' : s.from = r.to
    BY <1>2, <1>3, <1>5 DEF IInv, OneLineOfSuccession
  <2>4. \A r \in receipts' : r.from.previous = NoPolicy \/ \E s \in receipts' : s.to = r.from
    BY <1>2, <1>3, <1>5 DEF IInv, OneLineOfSuccession
  <2> QED BY <2>2, <2>3, <2>4, <1>2, <1>4, <1>5 DEF OneLineOfSuccession
<1> QED BY <1>6, <1>7, <1>8, <1>9 DEF IInv

(* What the tables say stays true while they stay the same.                 *)
LEMMA SameTables ==
    ASSUME IInv, UNCHANGED <<policy, receipts, approvals>>
    PROVE  Lineage' /\ QuorumOfPredecessor' /\ OneLineOfSuccession'
<1>1. Lineage'
  BY DEF IInv, Lineage, SuccessorPolicy, ProposalOf
<1>2. QuorumOfPredecessor'
  BY DEF IInv, QuorumOfPredecessor, Signers, TransitionAction
<1>3. OneLineOfSuccession'
  BY DEF IInv, OneLineOfSuccession
<1> QED BY <1>1, <1>2, <1>3

(* A request that is received or dropped changes no table.                  *)
LEMMA RequestIInv ==
    ASSUME NEW p \in Procs
    PROVE  IInv /\ (Receive(p) \/ AbortRotation(p)) => IInv'
<1> SUFFICES ASSUME IInv, Receive(p) \/ AbortRotation(p) PROVE IInv'
  OBVIOUS
<1>1. UNCHANGED <<policy, receipts, approvals>>
  BY DEF Receive, ReceiveRotation, AbortRotation
<1>2. TypeOK'
  <2>1. CASE AbortRotation(p)
    BY <2>1 DEF AbortRotation, IInv, TypeOK, IsPolicy
  <2>2. CASE Receive(p)
    <3>1. PICK proposal \in Proposals, as \in SUBSET approvals, now \in Times :
            ReceiveRotation(p, proposal, as, now)
      BY <2>2 DEF Receive
    <3>2. rotating' = [rotating EXCEPT ![p] =
                          [proposal |-> proposal, approvals |-> as, now |-> now]]
      BY <3>1 DEF ReceiveRotation
    <3>3. \A q \in Procs :
            \/ rotating'[q] = Idle
            \/ /\ rotating'[q].proposal \in Proposals
               /\ rotating'[q].approvals \subseteq approvals
               /\ rotating'[q].now \in Times
      BY <3>2 DEF IInv, TypeOK
    <3> QED BY <1>1, <3>2, <3>3 DEF IInv, TypeOK, IsPolicy
  <2> QED BY <2>1, <2>2
<1> QED BY <1>1, <1>2, SameTables DEF IInv

(* No step of any process, and no stuttering step, leaves the invariant.    *)
LEMMA NextIInv == IInv /\ [Next]_vars => IInv'
<1> SUFFICES ASSUME IInv, [Next]_vars PROVE IInv'
  OBVIOUS
<1>1. CASE Sign
  BY <1>1, SignIInv
<1>2. ASSUME NEW p \in Procs, GetTrustPolicy(p) PROVE IInv'
  BY <1>2, GetTrustPolicyIInv
<1>3. ASSUME NEW p \in Procs, RotateTrustRoots(p) PROVE IInv'
  BY <1>3, RotateIInv
<1>4. ASSUME NEW p \in Procs, Receive(p) \/ AbortRotation(p) PROVE IInv'
  BY <1>4, RequestIInv
<1>5. CASE UNCHANGED vars
  <2>1. TypeOK'
    BY <1>5 DEF vars, IInv, TypeOK, IsPolicy
  <2> QED BY <1>5, <2>1, SameTables DEF vars, IInv
<1> QED BY <1>1, <1>2, <1>3, <1>4, <1>5 DEF Next

-----------------------------------------------------------------------------
(* The inductive invariant holds in every reachable state.                  *)
THEOREM Invariance == Spec => []IInv
BY InitIInv, NextIInv, PTL DEF Spec

(* Persisted policies are valid and requests carry decodable fields.        *)
THEOREM TypeCorrect == Spec => []TypeOK
<1>1. IInv => TypeOK
  BY DEF IInv
<1> QED BY <1>1, Invariance, PTL

(* I-68, I-69: every rotation had the quorum of the policy it replaced, by  *)
(* signatures over exactly the policy that took over.                       *)
THEOREM QuorumAlways == Spec => []QuorumOfPredecessor
<1>1. IInv => QuorumOfPredecessor
  BY DEF IInv
<1> QED BY <1>1, Invariance, PTL

(* I-71, I-72, I-74: one unbroken line of succession, no matter how many    *)
(* processes race or restart with other environments.                       *)
THEOREM SuccessionAlways == Spec => []OneLineOfSuccession
<1>1. IInv => OneLineOfSuccession
  BY DEF IInv
<1> QED BY <1>1, Invariance, PTL

(* I-69, I-74: no signature is counted in two rotations.                    *)
THEOREM ApprovalsSpentOnce == Spec => []ApprovalSpentOnce
<1>1. IInv => ApprovalSpentOnce
  <2> SUFFICES ASSUME IInv, NEW r \in receipts, NEW s \in receipts, r # s,
                      NEW a \in r.approvals, a \in s.approvals
               PROVE  FALSE
    BY DEF ApprovalSpentOnce
  <2>1. a.action.current = r.from /\ a.action.current = s.from
    <3>1. \A q \in receipts : a \in q.approvals =>
            a.action = TransitionAction(q.from, ProposalOf(q.to), q.to.activatedAt)
      BY DEF IInv, QuorumOfPredecessor, ProposalOf
    <3>2. \A q \in receipts :
            TransitionAction(q.from, ProposalOf(q.to), q.to.activatedAt).current = q.from
      BY DEF TransitionAction
    <3> QED BY <3>1, <3>2
  <2>2. r.from.generation = s.from.generation
    BY <2>1
  <2>3. \A q, t \in receipts : q.from.generation = t.from.generation => q = t
    BY DEF IInv, OneLineOfSuccession
  <2> QED BY <2>2, <2>3
<1> QED BY <1>1, Invariance, PTL

(* I-70, I-72: governance implements the policy register every other part   *)
(* of the system relies on.                                                 *)
THEOREM RefinesRegister == Spec => ImplementsRegister
<1>1. Init => PolicyInit
  BY DEF Init
<1>2. IInv /\ [Next]_vars => [PolicyNext]_policy
  <2> SUFFICES ASSUME IInv, [Next]_vars, policy' # policy PROVE PolicyNext
    OBVIOUS
  <2>1. PICK p \in Procs : GetTrustPolicy(p) \/ RotateTrustRoots(p)
    BY DEF Next, vars, Sign, SignTrustTransition, Receive, ReceiveRotation, AbortRotation
  <2>2. BootOf[p] \in BootConfigs
    BY BootOfAssumption
  <2>3. CASE GetTrustPolicy(p)
    BY <2>2, <2>3 DEF GetTrustPolicy, PolicyNext
  <2>4. CASE RotateTrustRoots(p)
    <3>1. rotating[p].proposal \in Proposals /\ rotating[p].now \in Times
      BY <2>4 DEF RotateTrustRoots, IInv, TypeOK
    <3>2. Advance(BootOf[p], rotating[p].proposal, rotating[p].now)
      BY <2>4 DEF RotateTrustRoots, Advance, TransitionAllowed
    <3> QED BY <2>2, <3>1, <3>2 DEF PolicyNext
  <2> QED BY <2>1, <2>3, <2>4
<1> QED BY <1>1, <1>2, Invariance, PTL DEF Spec, ImplementsRegister, PolicySpec
================================================================================
