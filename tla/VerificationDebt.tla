--------------------------- MODULE VerificationDebt ---------------------------
(***************************************************************************)
(* What the verification plane promises about required work: once a piece   *)
(* of work is submitted it is owed until somebody records one verdict for   *)
(* it.  Work is not lost, not replaced by other work of the same name, and  *)
(* a verdict is not withdrawn, changed or given twice.                      *)
(***************************************************************************)
CONSTANTS Works, Verdicts, Unresolved

VARIABLE debt   \* from submitted work to its verdict, or Unresolved

DebtInit == debt = [w \in {} |-> Unresolved]

Owe(w) ==
    /\ \A v \in DOMAIN debt : v.ref # w.ref
    /\ debt' = [v \in DOMAIN debt \cup {w} |->
                   IF v = w THEN Unresolved ELSE debt[v]]

Resolve(w, verdict) ==
    /\ w \in DOMAIN debt
    /\ debt[w] = Unresolved
    /\ debt' = [debt EXCEPT ![w] = verdict]

DebtNext ==
    \E w \in Works :
        \/ Owe(w)
        \/ \E verdict \in Verdicts : Resolve(w, verdict)

DebtSpec == DebtInit /\ [][DebtNext]_debt
===============================================================================
