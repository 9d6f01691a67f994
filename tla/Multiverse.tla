------------------------------- MODULE Multiverse -------------------------------
(***************************************************************************)
(* Potential futures (v1.3), which are proposed beside the lineage and      *)
(* become part of it when they are committed; incursions of two branches    *)
(* and the composites that bind a merge to what was assessed before; and    *)
(* the observers A1 to A4 (v0.3), who say which receipts are of one         *)
(* lineage.                                                                 *)
(***************************************************************************)
EXTENDS Lineage

CONSTANTS
    PotentialIds

VARIABLES
    potentials,
    commits,
    incursions,
    composites

multiverseVars == <<potentials, commits, incursions, composites>>

vars == <<lineageVars, multiverseVars>>

Init ==
    /\ LineageInit
    /\ potentials = {} /\ commits = {} /\ incursions = {} /\ composites = {}

-----------------------------------------------------------------------------
(* propose_branch: no receipt is issued.                                    *)
ProposeBranch(source, id, branch, generation, payload) ==
    /\ branch # receipts[source].branch
    /\ generation > receipts[source].generation
    /\ potentials' = potentials \cup
          {[id |-> id, source |-> source, branch |-> branch, generation |-> generation, payload |-> payload]}
    /\ UNCHANGED <<lineageVars, commits, incursions, composites>>

(* commit_potential, with the receipt that the potential is of.  The state  *)
(* that is committed names the potential by its id.                         *)
CommitPotential(source, potential) ==
    LET target == Genesis(potential.branch, potential.generation,
                          [commit |-> potential.id, payload |-> potential.payload],
                          {<<"potential", potential>>, <<"potential-source", source>>})
    IN /\ potential.source = source
       /\ Issue(target)
       /\ commits' = commits \cup {[potential |-> potential, source |-> source, target |-> HashOf(target)]}
       /\ UNCHANGED <<restores, merges, potentials, incursions, composites>>

VerifyBranchCommit(source, potential, target, commit) ==
    /\ potential.source = source
    /\ commit = [potential |-> potential, source |-> source, target |-> target]
    /\ receipts[target].branch = potential.branch /\ receipts[target].generation = potential.generation
    /\ receipts[target].root # receipts[source].root
    /\ <<"potential", potential>> \in receipts[target].provenance

-----------------------------------------------------------------------------
(* assess_incursion.                                                        *)
AssessIncursion(left, right, verdict) ==
    /\ receipts[left].branch # receipts[right].branch
    /\ receipts[left].root # receipts[right].root
    /\ incursions' = incursions \cup {[left |-> left, right |-> right, verdict |-> verdict]}
    /\ UNCHANGED <<lineageVars, potentials, commits, composites>>

(* bind_composite_reality, whatever the verdict of the incursion.           *)
BindCompositeReality(left, right, target, incursion, merge) ==
    /\ incursion.left = left /\ incursion.right = right
    /\ merge.left = left /\ merge.right = right /\ merge.target = target
    /\ composites' = composites \cup
          {[left |-> left, right |-> right, target |-> target, incursion |-> incursion, merge |-> merge]}
    /\ UNCHANGED <<lineageVars, potentials, commits, incursions>>

VerifyCompositeReality(left, right, target, incursion, merge, composite) ==
    /\ composite = [left |-> left, right |-> right, target |-> target, incursion |-> incursion, merge |-> merge]
    /\ merge.left = left /\ merge.right = right /\ merge.target = target
    /\ receipts[target].root \notin {receipts[left].root, receipts[right].root}

Next ==
    \/ LineageStep /\ UNCHANGED multiverseVars
    \/ \E source \in Hashes, id \in PotentialIds, branch \in Branches,
          generation \in Generations, payload \in Contents :
          ProposeBranch(source, id, branch, generation, payload)
    \/ \E source \in Hashes, potential \in potentials : CommitPotential(source, potential)
    \/ \E left, right \in Hashes, verdict \in {"COEXIST", "INCOMPATIBLE"} : AssessIncursion(left, right, verdict)
    \/ \E left, right, target \in Hashes, incursion \in incursions, merge \in merges :
          BindCompositeReality(left, right, target, incursion, merge)

Spec == Init /\ [][Next]_vars

-----------------------------------------------------------------------------
(* observe_space and observe_time (observe_axis).                           *)
ObserveAxis(left, right) ==
    [branch     |-> left.branch,
     generation |-> left.generation,
     root       |-> left.root,
     pass       |-> /\ left.branch = right.branch
                    /\ left.generation = right.generation
                    /\ left.root = right.root]

SameSubject(x, y) == x.branch = y.branch /\ x.generation = y.generation /\ x.root = y.root

(* A3 is about what A1 is about, and A4 about what the first of all is.     *)
CrossAxisBind(a1, a2) == [a1 EXCEPT !.pass = a1.pass /\ a2.pass /\ SameSubject(a1, a2)]

GlobalCoherence(observers) ==
    [observers[1] EXCEPT !.pass = \A i \in DOMAIN observers :
                                     observers[i].pass /\ SameSubject(observers[i], observers[1])]

(* A4 on the three others.                                                  *)
Coherent(a1, a2) == GlobalCoherence(<<a1, a2, CrossAxisBind(a1, a2)>>).pass

-----------------------------------------------------------------------------
(* What a receipt comes from: its parent or, if a lineage begins with it,   *)
(* the receipts that its provenance names.  No check reads the provenance   *)
(* of a receipt that has a parent.                                          *)
Sources(h) ==
    IF receipts[h].parent # NoHash
    THEN {receipts[h].parent}
    ELSE {edge[2] : edge \in {e \in receipts[h].provenance : e[1] \notin {"potential", "evidence"}}}

History[h \in Hashes] == {h} \cup UNION {History[s] : s \in Sources(h)}

(* Two lineages of one beginning: all that their first receipts say is the  *)
(* same but for the provenance, and no two restores, no two merges, and no  *)
(* commits of different potentials made them.                               *)
SameBeginning(g, h) ==
    /\ [receipts[g] EXCEPT !.provenance = {}] = [receipts[h] EXCEPT !.provenance = {}]
    /\ \A x, y \in restores : x.target = g /\ y.target = h => x = y
    /\ \A x, y \in merges : x.target = g /\ y.target = h => x = y
    /\ \A x, y \in commits :
          /\ VerifyBranchCommit(x.source, x.potential, g, x)
          /\ VerifyBranchCommit(y.source, y.potential, h, y)
          => x.potential.id = y.potential.id /\ x.potential.payload = y.potential.payload

(* The heads of the branches that a merge is verified with.                 *)
Accepted(merge, settlement) ==
    UNION {{<<Last(chains[1]), Last(chains[2])>> :
               chains \in {c \in ChainsFrom(leftRestore.target) \X ChainsFrom(rightRestore.target) :
                   VerifyMerge(merge.ancestor, c[1], leftRestore, c[2], rightRestore,
                               merge.target, merge, settlement)}} :
           leftRestore, rightRestore \in restores}

(* Every merge can be verified; and whatever the artifacts it is verified   *)
(* with, its history is that of its two parents and nothing more, and all   *)
(* that the parents have in common is the history of the ancestor named: it *)
(* is where they split, neither an older receipt nor one that only one of   *)
(* them continues.  A composite that is verified with it has erased neither *)
(* parent.                                                                  *)
MergesJoinFutures ==
    LET history == History
    IN \A merge \in merges :
        /\ \E settlement \in Settlements : Accepted(merge, settlement) # {}
        /\ \A settlement \in Settlements : \A heads \in Accepted(merge, settlement) :
             /\ history[merge.target] = {merge.target} \cup history[heads[1]] \cup history[heads[2]]
             /\ history[heads[1]] \cap history[heads[2]] = history[merge.ancestor]
        /\ \A composite \in composites :
             (\E incursion \in incursions :
                 VerifyCompositeReality(composite.left, composite.right, merge.target,
                                        incursion, merge, composite))
             => {composite.left, composite.right} \subseteq history[merge.target]

(* What the observers accept as one lineage began alike: labels do not join *)
(* histories that began with different states or payloads, nor two restored *)
(* or two merged ones (I-6, I-18).  The root covers no provenance: receipts *)
(* that callers issue, or commit, with the same content and another         *)
(* provenance are accepted as one lineage, though none is the other.        *)
OneOrigin ==
    LET seen == {[as |-> ObserveAxis(receipts[g], receipts[h]), from |-> {Chain[g][1], Chain[h][1]}] :
                    g, h \in Hashes}
    IN \A space, time \in {s \in seen : s.as.pass} :
          Coherent(space.as, time.as) =>
              \A g, h \in space.from \cup time.from : SameBeginning(g, h)
================================================================================
