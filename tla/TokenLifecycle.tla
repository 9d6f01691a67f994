---------------------------- MODULE TokenLifecycle ----------------------------
(***************************************************************************)
(* What the authorization plane promises of a use token: it is issued once, *)
(* and then spent at most once, either by being consumed or by being        *)
(* revoked.  Each subject has one serial history of what was spent.         *)
(***************************************************************************)
EXTENDS Sequences, Naturals

CONSTANTS Tokens, Subjects

VARIABLES
    issued,   \* tokens handed out
    history   \* per subject, the <<token, kind>> spent so far, in order

Kinds == {"CONSUMED", "REVOKED"}

Spent(s) == {history[s][i][1] : i \in 1 .. Len(history[s])}

LifecycleInit ==
    /\ issued = {}
    /\ history = [s \in Subjects |-> <<>>]

Issue(t) ==
    /\ issued' = issued \cup {t}
    /\ UNCHANGED history

Spend(s, t, kind) ==
    /\ t \in issued
    /\ \A any \in Subjects : t \notin Spent(any)
    /\ history' = [history EXCEPT ![s] = Append(@, <<t, kind>>)]
    /\ UNCHANGED issued

LifecycleNext ==
    \E t \in Tokens :
        \/ Issue(t)
        \/ \E s \in Subjects, kind \in Kinds : Spend(s, t, kind)

LifecycleSpec == LifecycleInit /\ [][LifecycleNext]_<<issued, history>>
===============================================================================
