---------------------------- MODULE MCTrustGovernance ----------------------------
(* Instance of TrustGovernance for TLC: three key ids, one of which is       *)
(* re-keyed; a two-of-two deployment, and a process restarted with another   *)
(* bootstrap environment, whose first rotation is foreseen.                  *)
EXTENDS TrustGovernance, TLC

CONSTANTS r1, r2, k1, k2, k3, p1, p2

MCBoot  == [roots |-> (r1 :> k1 @@ r2 :> k2), threshold |-> 2, generation |-> 0, activatedAt |-> 0]
MCStale == [roots |-> (r2 :> k3), threshold |-> 1, generation |-> 0, activatedAt |-> 0]

MCBootConfigs == {MCBoot, MCStale}
MCBootOf      == (p1 :> MCBoot @@ p2 :> MCStale)
MCProcs       == {p1, p2}

MCProposals ==
    {[roots |-> (r2 :> k2), threshold |-> 1],
     [roots |-> (r2 :> k2), threshold |-> 2],
     [roots |-> (r1 :> k3 @@ r2 :> k2), threshold |-> 1]}

MCForeseen == {SuccessorPolicy(CreateBootstrapPolicy(MCStale), [roots |-> (r2 :> k2), threshold |-> 1], 0)}
==================================================================================
