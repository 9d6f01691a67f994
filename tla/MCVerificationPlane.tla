-------------------------- MODULE MCVerificationPlane --------------------------
(* Instance of VerificationPlane for TLC: a gate on hold with two pieces of  *)
(* work, one of them resubmitted at another time, and a second gate whose    *)
(* work is larger, more urgent, and competes for the same capacity.          *)
EXTENDS VerificationPlane, TLC

CONSTANTS g, h, a, b, x, c1, c2

Work(ref, gate, cost, priority, submittedAt, hash) ==
    [ref |-> ref, gate |-> gate, cost |-> cost, priority |-> priority,
     submittedAt |-> submittedAt, hash |-> hash]

MCGates == {g, h}
MCBase == (g :> "HOLD" @@ h :> "PASS")

WorkA == Work(a, g, 1, 0, 0, 3)
WorkB == Work(b, g, 1, 0, 1, 2)
WorkX == Work(x, h, 2, 1, 1, 4)

QueueWorks == {WorkA, Work(a, g, 1, 0, 1, 1), WorkX}
FinalizeWorks == {WorkA, WorkB}
MCWorks == QueueWorks \cup FinalizeWorks

Ample == [capacity |-> 2, maxItems |-> 2, quantum |-> 1]
Tight == [capacity |-> 1, maxItems |-> 2, quantum |-> 1]
Closed == [capacity |-> 0, maxItems |-> 2, quantum |-> 1]
MCPolicies == {Ample, Tight, Closed}
MCClients == {c1, c2}

Symmetry == Permutations(MCClients)

-----------------------------------------------------------------------------
(* TLC's bounds.  Either the queue alone, with every work but B and no       *)
(* closed window; or one request at a time reads about the gate g, whose two *)
(* works are completed meanwhile: in three windows, of which some may be     *)
(* closed, for one piece of work; for both, in two open windows and until a  *)
(* finalization is recorded.  Then A is never failed, and B never held.      *)
Uses(policies) == \A i \in DOMAIN windows : windows[i].policy \in policies

Deciding(w) ==
    {clients[c].decision : c \in {c \in Clients : Doing(c, "complete") /\ clients[c].work = w}}

Decisive == \A w \in Works : Deciding(w) \subseteq {"PASS", "FAIL"}

Reading(c) == clients[c] # Idle /\ clients[c].operation # "complete"

GateOf(client) ==
    IF client.operation = "preview" THEN client.gate ELSE client.expected.gate

QueueScope ==
    /\ DOMAIN rows \subseteq QueueWorks
    /\ Uses({Ample, Tight}) /\ Decisive
    /\ previews = {}
    /\ \A c \in Clients : ~ Reading(c)

FinalizeScope ==
    /\ \A c \in Clients : Reading(c) =>
        GateOf(clients[c]) = g /\ \A d \in Clients \ {c} : ~ Reading(d)
    /\ \A preview \in previews : preview.gate = g
    /\ \/ DOMAIN rows \subseteq {WorkA} /\ Uses({Ample, Closed}) /\ Decisive
       \/ /\ DOMAIN rows \subseteq FinalizeWorks /\ Len(windows) <= 2 /\ Uses({Ample})
          /\ Deciding(WorkA) \subseteq {"PASS", "HOLD"}
          /\ Deciding(WorkB) \subseteq {"PASS", "FAIL"}
          /\ finals # {} => \A c \in Clients : ~ Reading(c)

Scope == QueueScope \/ FinalizeScope
=================================================================================
