---------------------------- MODULE PolicyRegister ----------------------------
(***************************************************************************)
(* The trust policy of one runtime database, as the rest of the system     *)
(* sees it: a single register that is bootstrapped once and then replaced  *)
(* only by the direct successor of the policy it holds.                    *)
(*                                                                         *)
(* Who may replace it (the quorum) is the business of TrustGovernance,     *)
(* which implements this register; the authorization plane (RuntimeWorker) *)
(* is composed with it.                                                    *)
(*                                                                         *)
(* policy_hash is a SHA-256 of the policy's content, which contains the    *)
(* hash of its predecessor.  The model takes the hash to be injective and  *)
(* lets a policy stand for its own hash, so previous is the predecessor.   *)
(***************************************************************************)
EXTENDS Integers, FiniteSets

CONSTANTS
    Proposals,      \* [roots, threshold] a rotation may ask for
    BootConfigs,    \* [roots, threshold, generation, activatedAt] of the environment
    Times,          \* values ATMAN_RUNTIME_NOW may have
    MaxGeneration   \* bound: no rotation beyond this generation

(* An empty trust_policy_state table: no policy has a negative generation.  *)
NoPolicy == [generation |-> -1]

(* roots is the mapping key_id -> public key: key ids are unique by        *)
(* construction, as _canonical_roots makes them.                           *)
ValidRoots(roots, threshold) ==
    /\ DOMAIN roots # {}
    /\ threshold \in 1 .. Cardinality(DOMAIN roots)

ASSUME TimesAssumption == Times \subseteq Nat
ASSUME BoundAssumption == MaxGeneration \in Nat
ASSUME ProposalsAssumption ==
    \A q \in Proposals : q = [roots |-> q.roots, threshold |-> q.threshold]
ASSUME BootAssumption ==
    \A b \in BootConfigs : /\ ValidRoots(b.roots, b.threshold)
                           /\ b.generation \in Nat
                           /\ b.activatedAt \in Nat

VARIABLE policy

CreateBootstrapPolicy(b) ==
    [generation  |-> b.generation,
     threshold   |-> b.threshold,
     roots       |-> b.roots,
     previous    |-> NoPolicy,
     activatedAt |-> b.activatedAt]

SuccessorPolicy(current, proposal, now) ==
    [generation  |-> current.generation + 1,
     threshold   |-> proposal.threshold,
     roots       |-> proposal.roots,
     previous    |-> current,
     activatedAt |-> now]

(* Mutant: the environment of a restarted process wins over the database.   *)
LockedFromEnvironment(b) == CreateBootstrapPolicy(b)

(* The policy a transaction works on: the persisted one, or the caller's   *)
(* bootstrap policy when nothing has been persisted yet.                   *)
Locked(b) == IF policy = NoPolicy THEN CreateBootstrapPolicy(b) ELSE policy

-----------------------------------------------------------------------------
PolicyInit == policy = NoPolicy

ReadOrBootstrap(b) == policy' = Locked(b)

Advance(b, proposal, now) ==
    LET current == Locked(b) IN
    /\ current.generation < MaxGeneration
    /\ ValidRoots(proposal.roots, proposal.threshold)
    /\ now >= current.activatedAt
    /\ policy' = SuccessorPolicy(current, proposal, now)

PolicyNext ==
    \E b \in BootConfigs :
        \/ ReadOrBootstrap(b)
        \/ \E proposal \in Proposals, now \in Times : Advance(b, proposal, now)

PolicySpec == PolicyInit /\ [][PolicyNext]_policy
===============================================================================
