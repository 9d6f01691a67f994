------------------------------ MODULE MCMultiverse ------------------------------
(* One conflict: settled by what a side has, by something new, or for        *)
(* something else than the sides have.                                       *)
EXTENDS Multiverse

Settlement(right, strategy, result) ==
    [conflicts   |-> [route |-> [left |-> "l", right |-> "r"]],
     resolutions |-> [route |-> [left |-> "l", right |-> right, strategy |-> strategy, result |-> result]]]

MCSettlements == {Settlement("r", "SYNTHESIZED", "both"), Settlement("other", "LEFT", "l")}

Symmetry == Permutations(Branches)

-----------------------------------------------------------------------------
(* TLC's bounds: how many artifacts there are.  Of more than three, they are *)
(* either of what is restored, merged and assessed, with one receipt that    *)
(* continues another, or of what is proposed and committed; and callers      *)
(* issue one or two of the first receipts, without provenance.               *)
Artifacts == Len(receipts) + Cardinality(potentials) + Cardinality(incursions) + Cardinality(composites)

Continued == {h \in Hashes : receipts[h].sequence > 0}

Begun == Hashes \ (Continued \cup {artifact.target : artifact \in restores \cup merges \cup commits})

Plain(hs) == \A h \in hs : receipts[h].provenance = {} /\ receipts[h].content \in Contents

Scope ==
    \/ Artifacts <= 3
    \/ /\ potentials = {} /\ Cardinality(Begun) = 1 /\ Cardinality(Continued) <= 1
       /\ Plain(Begun \cup Continued)
       /\ Cardinality(restores) <= 2 /\ Len(receipts) <= 5
       /\ Cardinality(incursions) <= 1 /\ Cardinality(composites) <= 1
       /\ incursions # {} => merges # {}
    \/ /\ restores = {} /\ incursions = {}
       /\ Plain(Begun \cup Continued) \/ (Artifacts <= 4 /\ commits # {})
       /\ Cardinality(Begun) <= 2 /\ Cardinality(potentials) <= 2 /\ Artifacts <= 6
================================================================================
