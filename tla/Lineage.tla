-------------------------------- MODULE Lineage --------------------------------
(***************************************************************************)
(* Identity receipts: histories that are continued receipt by receipt       *)
(* (v0.3), checkpoints restored as new branches (v0.5), and branches that   *)
(* split at a checkpoint merged into a third one (v0.6).                    *)
(*                                                                         *)
(* Receipts are documents: nobody keeps a register of them, and everybody   *)
(* may apply any operation to the ones at hand, at any time and again.  The *)
(* state is all that was ever issued, and the hash of a receipt is its      *)
(* place in the order of issue: to issue the same receipt again adds        *)
(* nothing.  A content stands for the state reference and the payload.      *)
(* Callers may give what any receipt has, one that was restored, merged or  *)
(* committed included, and any provenance: evidence that is no receipt, and *)
(* receipts under the tags that the code itself uses.  The order of the     *)
(* references is left out.  There is one identity; times are recorded and   *)
(* not compared.                                                            *)
(***************************************************************************)
EXTENDS Integers, FiniteSets, SequencesExt

CONSTANTS
    Branches,
    Generations,
    Contents,
    Evidence,     \* what a provenance may name besides receipts
    Tags,         \* the tags under which callers name receipts
    MaxRefs,      \* bound: the references that a caller gives
    MaxNamed,     \* bound: receipts issued when a caller copies a content or
                  \* gives a provenance
    Settlements   \* [conflicts, resolutions]: functions from what is in conflict

ASSUME LineageAssumption == Generations \subseteq Nat

VARIABLES
    receipts,     \* the sequence of the receipts issued
    restores,
    merges

lineageVars == <<receipts, restores, merges>>

LineageInit == receipts = << >> /\ restores = {} /\ merges = {}

Hashes == DOMAIN receipts

NoHash == 0

(* The hash a receipt has or, if it is not issued yet, will have.           *)
HashOf(receipt) ==
    IF receipt \in Range(receipts) THEN CHOOSE h \in Hashes : receipts[h] = receipt
                                   ELSE Len(receipts) + 1

Issue(receipt) ==
    receipts' = IF receipt \in Range(receipts) THEN receipts ELSE Append(receipts, receipt)

-----------------------------------------------------------------------------
(* Mutant: the root of a lineage does not cover what it began with.         *)
RootOfBranch(branch, generation, content) ==
    [branch |-> branch, generation |-> generation]

(* _root_commitment: it does not cover provenance.                          *)
Root(branch, generation, content) ==
    [branch |-> branch, generation |-> generation, content |-> content]

(* issue_genesis_receipt, issue_successor_receipt.                          *)
Genesis(branch, generation, content, provenance) ==
    [branch     |-> branch,
     generation |-> generation,
     sequence   |-> 0,
     content    |-> content,
     parent     |-> NoHash,
     root       |-> Root(branch, generation, content),
     provenance |-> provenance]

Successor(parent, content, provenance) ==
    [receipts[parent] EXCEPT !.sequence   = @ + 1,
                             !.content    = content,
                             !.parent     = parent,
                             !.provenance = provenance]

IssueGenesis(branch, generation, content, provenance) ==
    /\ Issue(Genesis(branch, generation, content, provenance))
    /\ UNCHANGED <<restores, merges>>

IssueSuccessor(parent, content, provenance) ==
    /\ Issue(Successor(parent, content, provenance))
    /\ UNCHANGED <<restores, merges>>

(* What callers give: contents of their own or ones they copy, and what     *)
(* they say it comes from, which nothing checks.                            *)
MayName == Len(receipts) <= MaxNamed

GivenContents == Contents \cup {receipts[h].content : h \in {x \in Hashes : MayName}}

References == {ref \in ({"evidence"} \X Evidence) \cup (Tags \X Hashes) : MayName}

GivenProvenances == {Range(refs) : refs \in SeqOf(References, MaxRefs)}

(* verify_lineage_chain.                                                    *)
ValidChain(chain) ==
    /\ chain # << >> /\ receipts[chain[1]].sequence = 0
    /\ \A i \in 1 .. Len(chain) - 1 :
        LET previous == receipts[chain[i]]
            current == receipts[chain[i + 1]]
        IN /\ current.sequence = previous.sequence + 1
           /\ current.parent = chain[i]
           /\ current.root = previous.root
           /\ current.branch = previous.branch
           /\ current.generation = previous.generation

(* A receipt names its parent: one chain ends with it.                      *)
Chain[h \in Hashes] ==
    IF receipts[h].parent = NoHash THEN <<h>> ELSE Append(Chain[receipts[h].parent], h)

ChainsFrom(first) == {chain \in {Chain[h] : h \in Hashes} : chain[1] = first}

-----------------------------------------------------------------------------
(* restore_checkpoint.                                                      *)
RestoreCheckpoint(source, branch, generation) ==
    LET target == Genesis(branch, generation, [restored |-> source], {<<"restore-source", source>>})
    IN /\ branch # receipts[source].branch
       /\ generation > receipts[source].generation
       /\ Issue(target)
       /\ restores' = restores \cup {[source |-> source, target |-> HashOf(target)]}
       /\ UNCHANGED merges

VerifyRestore(source, target, restore) ==
    /\ restore.source = source
    /\ restore.target = target
    /\ receipts[target].branch # receipts[source].branch
    /\ receipts[target].generation > receipts[source].generation
    /\ receipts[target].root # receipts[source].root
    /\ <<"restore-source", source>> \in receipts[target].provenance

-----------------------------------------------------------------------------
(* digest_resolution_set: each conflict is resolved, and nothing else.      *)
Settled(settlement) ==
    LET conflicts == settlement.conflicts
        resolutions == settlement.resolutions
    IN /\ DOMAIN resolutions = DOMAIN conflicts
       /\ \A ref \in DOMAIN conflicts :
           /\ conflicts[ref].left # conflicts[ref].right
           /\ resolutions[ref].left = conflicts[ref].left
           /\ resolutions[ref].right = conflicts[ref].right
           /\ resolutions[ref].strategy = "LEFT" => resolutions[ref].result = conflicts[ref].left
           /\ resolutions[ref].strategy = "RIGHT" => resolutions[ref].result = conflicts[ref].right

(* Mutant: any restored branch will do.                                     *)
RestoredFromAnywhere(ancestor, chain, restore) == restore.target = chain[1]

(* _verify_branch_origin.                                                   *)
FromAncestor(ancestor, chain, restore) == VerifyRestore(ancestor, chain[1], restore)

(* What a merge has in common with its verification: two different futures  *)
(* of one checkpoint, and a place that neither they nor it have.            *)
Joinable(ancestor, left, leftRestore, right, rightRestore, branch, generation) ==
    LET l == receipts[Last(left)]
        r == receipts[Last(right)]
    IN /\ ValidChain(left) /\ ValidChain(right)
       /\ FromAncestor(ancestor, left, leftRestore)
       /\ FromAncestor(ancestor, right, rightRestore)
       /\ l.branch # r.branch
       /\ l.root # r.root
       /\ branch \notin {receipts[ancestor].branch, l.branch, r.branch}
       /\ generation > l.generation /\ generation > r.generation

(* _merge_seed, with the digest of the resolutions.                         *)
Seed(ancestor, left, right, settlement, payload) ==
    [ancestor |-> ancestor, left |-> Last(left), right |-> Last(right),
     resolutions |-> settlement.resolutions, payload |-> payload]

MergeEdges(ancestor, left, right) ==
    {<<"merge-ancestor", ancestor>>, <<"merge-left", Last(left)>>, <<"merge-right", Last(right)>>}

MergeReceipt(ancestor, left, right, target, settlement, payload) ==
    [ancestor |-> ancestor, left |-> Last(left), right |-> Last(right), target |-> target,
     resolutions |-> settlement.resolutions, payload |-> payload]

(* merge_branches.                                                          *)
MergeBranches(ancestor, left, leftRestore, right, rightRestore, branch, generation, settlement, payload) ==
    LET target == Genesis(branch, generation, Seed(ancestor, left, right, settlement, payload),
                          MergeEdges(ancestor, left, right))
    IN /\ Joinable(ancestor, left, leftRestore, right, rightRestore, branch, generation)
       /\ Settled(settlement)
       /\ Issue(target)
       /\ merges' = merges \cup {MergeReceipt(ancestor, left, right, HashOf(target), settlement, payload)}
       /\ UNCHANGED restores

VerifyMerge(ancestor, left, leftRestore, right, rightRestore, target, merge, settlement) ==
    /\ Settled(settlement)
    /\ Joinable(ancestor, left, leftRestore, right, rightRestore,
                receipts[target].branch, receipts[target].generation)
    /\ receipts[target].root \notin {receipts[Last(left)].root, receipts[Last(right)].root}
    /\ merge = MergeReceipt(ancestor, left, right, target, settlement, merge.payload)
    /\ MergeEdges(ancestor, left, right) \subseteq receipts[target].provenance
    /\ receipts[target].content = Seed(ancestor, left, right, settlement, merge.payload)

LineageStep ==
    \/ \E branch \in Branches, generation \in Generations, content \in GivenContents,
          provenance \in GivenProvenances :
          IssueGenesis(branch, generation, content, provenance)
    \/ \E parent \in Hashes, content \in GivenContents, provenance \in GivenProvenances :
          IssueSuccessor(parent, content, provenance)
    \/ \E source \in Hashes, branch \in Branches, generation \in Generations :
          RestoreCheckpoint(source, branch, generation)
    \/ \E leftRestore, rightRestore \in restores :
       \E left \in ChainsFrom(leftRestore.target), right \in ChainsFrom(rightRestore.target),
          branch \in Branches, generation \in Generations, settlement \in Settlements, payload \in Contents :
          MergeBranches(leftRestore.source, left, leftRestore, right, rightRestore,
                        branch, generation, settlement, payload)
================================================================================
