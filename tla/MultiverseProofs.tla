---------------------------- MODULE MultiverseProofs ----------------------------
(***************************************************************************)
(* What module Multiverse states of merges and of origins, for any number   *)
(* of receipts, branches and generations.                                   *)
(*                                                                         *)
(* A receipt is issued once, it names only receipts that were issued before *)
(* it, and what it was issued as can be read from it: that is the inductive *)
(* invariant.  Chains and histories are functions that are defined by       *)
(* recursion over the receipts; what is said of them is shown for the       *)
(* receipts in the order of issue, as there is no first one for which it is *)
(* false.                                                                   *)
(***************************************************************************)
EXTENDS Multiverse, WellFoundedInduction, TLAPS

(* A receipt has these fields, and no other.                                *)
HasFields(h) ==
    /\ receipts[h] = [branch     |-> receipts[h].branch,
                      generation |-> receipts[h].generation,
                      sequence   |-> receipts[h].sequence,
                      content    |-> receipts[h].content,
                      parent     |-> receipts[h].parent,
                      root       |-> receipts[h].root,
                      provenance |-> receipts[h].provenance]
    /\ receipts[h].sequence \in Nat /\ receipts[h].generation \in Nat
    /\ receipts[h].root.branch = receipts[h].branch

(* What a reference of a first receipt names: an older receipt, or none.    *)
NamesOlder(ref, h) == ref[1] \in {"potential", "evidence"} \/ ref[2] \in 1 .. h - 1

Begins(h) ==
    LET r == receipts[h]
    IN /\ r.parent = NoHash /\ r.sequence = 0
       /\ r.root = Root(r.branch, r.generation, r.content)
       /\ \A ref \in r.provenance : NamesOlder(ref, h)

Continues(h) ==
    LET r == receipts[h]
        parent == receipts[r.parent]
    IN /\ r.parent \in 1 .. h - 1
       /\ r.sequence = parent.sequence + 1
       /\ r.branch = parent.branch /\ r.generation = parent.generation /\ r.root = parent.root

ReceiptOK(h) == HasFields(h) /\ (Begins(h) \/ Continues(h))

IsLine == receipts \in Seq(Range(receipts))

IssuedOnce == \A g, h \in Hashes : receipts[g] = receipts[h] => g = h

LineOK == IsLine /\ IssuedOnce /\ \A h \in Hashes : ReceiptOK(h)

(* What is proposed is proposed for another branch than the one it is of.   *)
PotentialOK(potential) ==
    /\ potential.source \in Hashes
    /\ potential.branch # receipts[potential.source].branch
    /\ potential.generation \in Nat

PotentialsOK == \A potential \in potentials : PotentialOK(potential)

IsChain(chain) == chain \in Seq(Hashes) /\ ValidChain(chain)

(* What a restore, a merge or a commit issued is what its artifact says.    *)
IssuedAs(h, content, provenance) ==
    /\ h \in Hashes
    /\ receipts[h].parent = NoHash
    /\ receipts[h].content = content
    /\ receipts[h].provenance = provenance

RestoreOK(x) == IssuedAs(x.target, [restored |-> x.source], {<<"restore-source", x.source>>})

RestoresOK == \A x \in restores : /\ x = [source |-> x.source, target |-> x.target]
                                  /\ RestoreOK(x)

CommitOK(x) ==
    /\ x.target \in Hashes
    /\ receipts[x.target].content = [commit |-> x.potential.id, payload |-> x.potential.payload]

CommitsOK == \A x \in commits : CommitOK(x)

(* And what a merge was made with still verifies it.                        *)
MergeOK(merge) ==
    /\ merge = [ancestor |-> merge.ancestor, left |-> merge.left, right |-> merge.right,
                target |-> merge.target, resolutions |-> merge.resolutions, payload |-> merge.payload]
    /\ IssuedAs(merge.target,
                [ancestor |-> merge.ancestor, left |-> merge.left, right |-> merge.right,
                 resolutions |-> merge.resolutions, payload |-> merge.payload],
                {<<"merge-ancestor", merge.ancestor>>, <<"merge-left", merge.left>>,
                 <<"merge-right", merge.right>>})
    /\ \E settlement \in Settlements, leftRestore, rightRestore \in restores, left, right \in Seq(Hashes) :
          /\ IsChain(left) /\ IsChain(right)
          /\ VerifyMerge(merge.ancestor, left, leftRestore, right, rightRestore, merge.target, merge, settlement)

MergesOK == \A merge \in merges : MergeOK(merge)

IInv == LineOK /\ PotentialsOK /\ RestoresOK /\ CommitsOK /\ MergesOK

-----------------------------------------------------------------------------
(* A set of natural numbers that is not empty has a least element.          *)
LEMMA NatMin ==
    ASSUME NEW T \in SUBSET Nat, T # {}
    PROVE  \E m \in T : \A k \in T : m <= k
<1> DEFINE R == OpToRel(<, Nat)
<1>1. IsWellFoundedOn(R, Nat)
  BY NatLessThanWellFounded
<1>2. PICK m \in T : \A k \in T : ~(<<k, m>> \in R)
  <2> HIDE DEF R
  <2> QED BY <1>1, WFMin, Zenon
<1>3. \A k \in T : ~(k < m)
  BY <1>2 DEF OpToRel
<1> QED BY <1>3

LEMMA HashesAre == IsLine => /\ Len(receipts) \in Nat /\ Hashes = 1 .. Len(receipts)
                             /\ DOMAIN receipts = Hashes
BY DEF IsLine, Hashes

(* What a lineage begins with and what continues it, told by the parent.    *)
LEMMA Kinds ==
    ASSUME LineOK, NEW h \in Hashes
    PROVE  /\ ReceiptOK(h)
           /\ receipts[h].sequence = 0 <=> receipts[h].parent = NoHash
           /\ receipts[h].parent = NoHash => Begins(h)
           /\ receipts[h].parent # NoHash => Continues(h) /\ receipts[h].parent \in Hashes
<1>1. Len(receipts) \in Nat /\ Hashes = 1 .. Len(receipts)
  BY HashesAre DEF LineOK
<1>2. ReceiptOK(h)
  BY DEF LineOK
<1>3. CASE Begins(h)
  BY <1>2, <1>3 DEF Begins
<1>4. CASE Continues(h)
  <2>1. receipts[h].parent \in 1 .. h - 1 /\ receipts[h].parent \in Hashes
    BY <1>1, <1>4 DEF Continues
  <2>2. receipts[receipts[h].parent].sequence \in Nat
    BY <2>1 DEF LineOK, ReceiptOK, HasFields
  <2> QED BY <1>1, <1>2, <1>4, <2>1, <2>2 DEF Continues, NoHash
<1> QED BY <1>2, <1>3, <1>4 DEF ReceiptOK

LEMMA SourcesAreOlder ==
    ASSUME LineOK, NEW h \in Hashes
    PROVE  Sources(h) \subseteq 1 .. h - 1
<1>1. h \in Nat
  BY HashesAre DEF LineOK
<1>2. CASE receipts[h].parent # NoHash
  BY <1>1, <1>2, Kinds DEF Continues, Sources
<1>3. CASE receipts[h].parent = NoHash
  <2>1. Sources(h) = {edge[2] : edge \in {e \in receipts[h].provenance : e[1] \notin {"potential", "evidence"}}}
    BY <1>3 DEF Sources
  <2>2. \A ref \in receipts[h].provenance : NamesOlder(ref, h)
    BY <1>3, Kinds DEF Begins
  <2> QED BY <2>1, <2>2 DEF NamesOlder
<1> QED BY <1>2, <1>3

-----------------------------------------------------------------------------
(* The recursive definitions define: parents and sources are older.         *)
LEMMA ChainExists ==
    ASSUME LineOK
    PROVE  Chain = [h \in Hashes |-> IF receipts[h].parent = NoHash
                                        THEN <<h>> ELSE Append(Chain[receipts[h].parent], h)]
<1> DEFINE Body(F, h) == IF receipts[h].parent = NoHash THEN <<h>> ELSE Append(F[receipts[h].parent], h)
           Defined(n) == \E F : F = [h \in 1 .. n |-> Body(F, h)]
           T == {n \in 0 .. Len(receipts) : ~Defined(n)}
<1>1. Len(receipts) \in Nat /\ Hashes = 1 .. Len(receipts)
  BY HashesAre DEF LineOK
<1>2. T = {}
  <2> SUFFICES ASSUME T # {} PROVE FALSE
    OBVIOUS
  <2>1. PICK m \in T : \A k \in T : m <= k
    <3>1. T \in SUBSET Nat
      BY <1>1
    <3> HIDE DEF T
    <3> QED BY <3>1, NatMin
  <2>2. m # 0
    <3>1. Defined(0)
      <4> DEFINE F == [h \in 1 .. 0 |-> <<h>>]
      <4>1. F = [h \in 1 .. 0 |-> Body(F, h)]
        OBVIOUS
      <4> HIDE DEF F, Body
      <4> QED BY <4>1
    <3> QED BY <3>1
  <2>3. m \in Hashes /\ m - 1 \in 0 .. Len(receipts) /\ m - 1 \notin T
    <3>1. m \in 0 .. Len(receipts)
      BY <2>1
    <3> HIDE DEF T
    <3> QED BY <1>1, <2>1, <2>2, <3>1
  <2>4. PICK F : F = [h \in 1 .. m - 1 |-> Body(F, h)]
    BY <2>3
  <2> DEFINE G == [h \in 1 .. m |-> IF h = m THEN Body(F, m) ELSE F[h]]
  <2>5. ASSUME NEW h \in 1 .. m PROVE G[h] = Body(G, h)
    <3>1. h \in Hashes
      BY <1>1, <2>3
    <3>2. receipts[h].parent # NoHash => G[receipts[h].parent] = F[receipts[h].parent]
      <4> SUFFICES ASSUME receipts[h].parent # NoHash PROVE G[receipts[h].parent] = F[receipts[h].parent]
        OBVIOUS
      <4>1. PICK k \in 1 .. h - 1 : k = receipts[h].parent
        BY <3>1, Kinds DEF Continues
      <4>2. m \in Nat
        BY <1>1, <2>3
      <4>3. k \in 1 .. m /\ k # m
        BY <4>2
      <4>4. G[k] = F[k]
        BY <4>3
      <4> QED BY <4>1, <4>4
    <3>3. Body(G, h) = Body(F, h)
      <4> HIDE DEF G
      <4> QED BY <3>2
    <3>4. G[h] = Body(F, h)
      <4> HIDE DEF Body
      <4>1. CASE h = m
        BY <4>1
      <4>2. CASE h # m
        <5>1. h \in 1 .. m - 1 /\ G[h] = F[h]
          BY <1>1, <2>3, <4>2
        <5> HIDE DEF G
        <5> QED BY <2>4, <5>1
      <4> QED BY <4>1, <4>2
    <3> QED BY <3>3, <3>4
  <2>6. G = [h \in 1 .. m |-> Body(G, h)]
    <3> HIDE DEF Body
    <3>1. G = [h \in 1 .. m |-> G[h]]
      OBVIOUS
    <3> HIDE DEF G
    <3> QED BY <2>5, <3>1
  <2>7. Defined(m)
    <3> HIDE DEF G, Body
    <3> QED BY <2>6
  <2> QED BY <2>1, <2>7
<1>3. Defined(Len(receipts))
  <2> HIDE DEF Defined
  <2> QED BY <1>1, <1>2
<1> QED
  <2> HIDE DEF Body
  <2>1. PICK C : C = Chain
    OBVIOUS
  <2>2. C = CHOOSE F : F = [h \in Hashes |-> Body(F, h)]
    BY <2>1 DEF Chain, Body
  <2>3. \E F : F = [h \in Hashes |-> Body(F, h)]
    BY <1>1, <1>3
  <2>4. C = [h \in Hashes |-> Body(C, h)]
    BY <2>2, <2>3
  <2> QED BY <2>1, <2>4 DEF Body

LEMMA HistoryExists ==
    ASSUME LineOK
    PROVE  History = [h \in Hashes |-> {h} \cup UNION {History[s] : s \in Sources(h)}]
<1> DEFINE Body(F, h) == {h} \cup UNION {F[s] : s \in Sources(h)}
           Defined(n) == \E F : F = [h \in 1 .. n |-> Body(F, h)]
           T == {n \in 0 .. Len(receipts) : ~Defined(n)}
<1>1. Len(receipts) \in Nat /\ Hashes = 1 .. Len(receipts)
  BY HashesAre DEF LineOK
<1>2. T = {}
  <2> SUFFICES ASSUME T # {} PROVE FALSE
    OBVIOUS
  <2>1. PICK m \in T : \A k \in T : m <= k
    <3>1. T \in SUBSET Nat
      BY <1>1
    <3> HIDE DEF T
    <3> QED BY <3>1, NatMin
  <2>2. m # 0
    <3>1. Defined(0)
      <4> DEFINE F == [h \in 1 .. 0 |-> <<h>>]
      <4>1. F = [h \in 1 .. 0 |-> Body(F, h)]
        OBVIOUS
      <4> HIDE DEF F, Body
      <4> QED BY <4>1
    <3> QED BY <3>1
  <2>3. m \in Hashes /\ m - 1 \in 0 .. Len(receipts) /\ m - 1 \notin T
    <3>1. m \in 0 .. Len(receipts)
      BY <2>1
    <3> HIDE DEF T
    <3> QED BY <1>1, <2>1, <2>2, <3>1
  <2>4. PICK F : F = [h \in 1 .. m - 1 |-> Body(F, h)]
    BY <2>3
  <2> DEFINE G == [h \in 1 .. m |-> IF h = m THEN Body(F, m) ELSE F[h]]
  <2>5. ASSUME NEW h \in 1 .. m PROVE G[h] = Body(G, h)
    <3>1. h \in Hashes
      BY <1>1, <2>3
    <3>2. \A s \in Sources(h) : s \in 1 .. h - 1
      BY <3>1, SourcesAreOlder
    <3>3. \A s \in Sources(h) : G[s] = F[s]
      BY <1>1, <2>3, <3>2
    <3>4. Body(G, h) = Body(F, h)
      <4> HIDE DEF G
      <4> QED BY <3>3
    <3>5. G[h] = Body(F, h)
      <4> HIDE DEF Body
      <4>1. CASE h = m
        BY <4>1
      <4>2. CASE h # m
        <5>1. h \in 1 .. m - 1 /\ G[h] = F[h]
          BY <1>1, <2>3, <4>2
        <5> HIDE DEF G
        <5> QED BY <2>4, <5>1
      <4> QED BY <4>1, <4>2
    <3> QED BY <3>4, <3>5
  <2>6. G = [h \in 1 .. m |-> Body(G, h)]
    <3> HIDE DEF Body
    <3>1. G = [h \in 1 .. m |-> G[h]]
      OBVIOUS
    <3> HIDE DEF G
    <3> QED BY <2>5, <3>1
  <2>7. Defined(m)
    <3> HIDE DEF G, Body
    <3> QED BY <2>6
  <2> QED BY <2>1, <2>7
<1>3. Defined(Len(receipts))
  <2> HIDE DEF Defined
  <2> QED BY <1>1, <1>2
<1> QED BY <1>1, <1>3 DEF History

-----------------------------------------------------------------------------
(* In a valid chain each receipt continues the one before it.               *)
LEMMA ChainStep ==
    ASSUME LineOK, NEW c \in Seq(Hashes), ValidChain(c)
    PROVE  /\ Len(c) \in Nat /\ 1 \in 1 .. Len(c) /\ c[1] \in Hashes
           /\ receipts[c[1]].parent = NoHash /\ Begins(c[1])
           /\ \A i \in 1 .. Len(c) - 1 :
                 /\ c[i] \in Hashes /\ c[i + 1] \in Hashes /\ c[i] < c[i + 1]
                 /\ receipts[c[i + 1]].parent = c[i] /\ Continues(c[i + 1])
<1>1. Len(c) \in Nat /\ 1 \in 1 .. Len(c) /\ \A i \in 1 .. Len(c) : c[i] \in Hashes
  BY DEF ValidChain
<1>2. receipts[c[1]].parent = NoHash /\ Begins(c[1])
  BY <1>1, Kinds DEF ValidChain
<1>3. ASSUME NEW i \in 1 .. Len(c) - 1
      PROVE  /\ c[i] \in Hashes /\ c[i + 1] \in Hashes /\ c[i] < c[i + 1]
             /\ receipts[c[i + 1]].parent = c[i] /\ Continues(c[i + 1])
  <2>1. c[i] \in Hashes /\ c[i + 1] \in Hashes
    BY <1>1
  <2>2. receipts[c[i + 1]].parent = c[i]
    BY DEF ValidChain
  <2>3. c[i] \in Nat /\ c[i + 1] \in Nat /\ c[i] # NoHash
    BY <2>1, HashesAre DEF LineOK, NoHash
  <2>4. Continues(c[i + 1])
    BY <2>1, <2>2, <2>3, Kinds
  <2> QED BY <2>1, <2>2, <2>3, <2>4 DEF Continues
<1> QED BY <1>1, <1>2, <1>3

LEMMA AlongChain ==
    ASSUME LineOK, NEW c \in Seq(Hashes), ValidChain(c), NEW n \in 1 .. Len(c)
    PROVE  /\ c[n] \in Hashes /\ c[1] <= c[n]
           /\ receipts[c[n]].branch = receipts[c[1]].branch
           /\ receipts[c[n]].generation = receipts[c[1]].generation
           /\ receipts[c[n]].root = receipts[c[1]].root
<1> DEFINE Same(i) == /\ c[i] \in Hashes /\ c[1] <= c[i]
                      /\ receipts[c[i]].branch = receipts[c[1]].branch
                      /\ receipts[c[i]].generation = receipts[c[1]].generation
                      /\ receipts[c[i]].root = receipts[c[1]].root
           T == {i \in 1 .. Len(c) : ~Same(i)}
<1>1. Len(c) \in Nat /\ Hashes \subseteq Nat
  BY ChainStep, HashesAre DEF LineOK
<1> SUFFICES ASSUME T # {} PROVE FALSE
  OBVIOUS
<1>2. PICK m \in T : \A k \in T : m <= k
  <2>1. T \in SUBSET Nat
    BY <1>1
  <2> HIDE DEF T
  <2> QED BY <2>1, NatMin
<1>3. m \in 1 .. Len(c) /\ ~Same(m)
  BY <1>2
<1>4. m # 1
  <2>1. c[1] \in Hashes /\ c[1] <= c[1]
    <3>1. c[1] \in Hashes
      BY ChainStep
    <3>2. c[1] \in Nat
      <4> HIDE DEF T
      <4> QED BY <1>1, <3>1
    <3>3. c[1] <= c[1]
      <4> HIDE DEF T
      <4> QED BY <3>2
    <3> QED BY <3>1, <3>3
  <2> QED BY <1>3, <2>1
<1>5. Same(m - 1)
  <2>1. m - 1 \in 1 .. Len(c) /\ m - 1 \notin T
    <3> HIDE DEF T
    <3> QED BY <1>1, <1>2, <1>3, <1>4
  <2> QED BY <2>1
<1>6. /\ c[m] \in Hashes /\ c[m - 1] < c[m]
      /\ receipts[c[m]].parent = c[m - 1] /\ Continues(c[m])
  <2>1. PICK i \in 1 .. Len(c) - 1 : i = m - 1 /\ i + 1 = m
    BY <1>1, <1>3, <1>4
  <2> QED BY <2>1, ChainStep
<1>7. c[1] \in Nat /\ c[m - 1] \in Nat /\ c[m] \in Nat
  BY <1>1, <1>5, <1>6, ChainStep
<1>8. Same(m)
  BY <1>5, <1>6, <1>7 DEF Continues
<1> QED BY <1>3, <1>8

(* There is one chain that ends with a receipt.                             *)
LEMMA ChainIs ==
    ASSUME LineOK, NEW c \in Seq(Hashes), ValidChain(c), NEW n \in 1 .. Len(c)
    PROVE  Chain[c[n]] = [i \in 1 .. n |-> c[i]]
<1> DEFINE T == {k \in 1 .. Len(c) : Chain[c[k]] # [i \in 1 .. k |-> c[i]]}
<1>1. Len(c) \in Nat
  BY ChainStep
<1> SUFFICES ASSUME T # {} PROVE FALSE
  OBVIOUS
<1>2. PICK m \in T : \A k \in T : m <= k
  <2>1. T \in SUBSET Nat
    BY <1>1
  <2> HIDE DEF T
  <2> QED BY <2>1, NatMin
<1>3. m \in 1 .. Len(c) /\ Chain[c[m]] # [i \in 1 .. m |-> c[i]]
  BY <1>2
<1>4. \A h \in Hashes : Chain[h] = IF receipts[h].parent = NoHash
                                     THEN <<h>> ELSE Append(Chain[receipts[h].parent], h)
  BY ChainExists
<1>5. m # 1
  <2> SUFFICES ASSUME m = 1 PROVE FALSE
    OBVIOUS
  <2>1. Chain[c[1]] = <<c[1]>>
    BY <1>4, ChainStep
  <2>2. <<c[1]>> = [i \in 1 .. 1 |-> c[i]]
    OBVIOUS
  <2> QED BY <1>3, <2>1, <2>2
<1>6. Chain[c[m - 1]] = [i \in 1 .. m - 1 |-> c[i]]
  <2>1. m - 1 \in 1 .. Len(c) /\ m - 1 \notin T
    <3> HIDE DEF T
    <3> QED BY <1>1, <1>2, <1>3, <1>5
  <2> QED BY <2>1
<1>7. c[m] \in Hashes /\ receipts[c[m]].parent = c[m - 1] /\ receipts[c[m]].parent # NoHash
  <2>1. PICK i \in 1 .. Len(c) - 1 : i = m - 1 /\ i + 1 = m
    BY <1>1, <1>3, <1>5
  <2>2. c[i] \in Hashes /\ c[i + 1] \in Hashes /\ receipts[c[i + 1]].parent = c[i]
    BY <2>1, ChainStep
  <2>3. c[i] # NoHash
    BY <2>2, HashesAre DEF LineOK, NoHash
  <2> QED BY <2>1, <2>2, <2>3
<1>8. Chain[c[m]] = Append([i \in 1 .. m - 1 |-> c[i]], c[m])
  BY <1>4, <1>6, <1>7
<1>9. Append([i \in 1 .. m - 1 |-> c[i]], c[m]) = [i \in 1 .. m |-> c[i]]
  <2> DEFINE d == [i \in 1 .. m - 1 |-> c[i]]
  <2>1. d \in Seq(Hashes) /\ Len(d) = m - 1
    BY <1>1, <1>3
  <2>2. \A i \in 1 .. m - 1 : d[i] = c[i]
    OBVIOUS
  <2> HIDE DEF d
  <2>3. Append(d, c[m]) = [i \in 1 .. m |-> c[i]]
    BY <1>1, <1>3, <1>7, <2>1, <2>2
  <2> QED BY <2>3 DEF d
<1> QED BY <1>3, <1>8, <1>9

LEMMA ChainOfHead ==
    ASSUME LineOK, NEW c \in Seq(Hashes), ValidChain(c)
    PROVE  Last(c) \in Hashes /\ Chain[Last(c)] = c
<1>1. Len(c) \in 1 .. Len(c) /\ Last(c) = c[Len(c)]
  BY ChainStep DEF Last
<1>2. Chain[c[Len(c)]] = [i \in 1 .. Len(c) |-> c[i]]
  BY <1>1, ChainIs
<1> QED BY <1>1, <1>2

(* And it is valid.                                                         *)
LEMMA ChainIsValid ==
    ASSUME LineOK, NEW h \in Hashes
    PROVE  Chain[h] \in Seq(Hashes) /\ ValidChain(Chain[h]) /\ Last(Chain[h]) = h
<1> DEFINE Good(k) == Chain[k] \in Seq(Hashes) /\ ValidChain(Chain[k]) /\ Last(Chain[k]) = k
           T == {k \in Hashes : ~Good(k)}
<1>1. Len(receipts) \in Nat /\ Hashes = 1 .. Len(receipts)
  BY HashesAre DEF LineOK
<1> SUFFICES ASSUME T # {} PROVE FALSE
  OBVIOUS
<1>2. PICK m \in T : \A k \in T : m <= k
  <2>1. T \in SUBSET Nat
    BY <1>1
  <2> HIDE DEF T
  <2> QED BY <2>1, NatMin
<1>3. m \in Hashes /\ ~Good(m)
  BY <1>2
<1> HIDE DEF T
<1>4. Chain[m] = IF receipts[m].parent = NoHash THEN <<m>> ELSE Append(Chain[receipts[m].parent], m)
  BY <1>3, ChainExists
<1>5. CASE receipts[m].parent = NoHash
  <2>1. Chain[m] = <<m>> /\ receipts[m].sequence = 0
    BY <1>3, <1>4, <1>5, Kinds
  <2>2. <<m>> \in Seq(Hashes) /\ Last(<<m>>) = m /\ <<m>> # << >>
    BY <1>3 DEF Last
  <2>3. ValidChain(<<m>>)
    BY <2>1 DEF ValidChain
  <2> QED BY <1>3, <2>1, <2>2, <2>3
<1>6. CASE receipts[m].parent # NoHash
  <2>1. PICK p : p = receipts[m].parent
    OBVIOUS
  <2>2. p \in Hashes /\ p < m /\ Continues(m)
    BY <1>1, <1>3, <1>6, <2>1, Kinds DEF Continues
  <2>3. Good(p)
    <3>1. p \notin T
      BY <1>1, <1>2, <1>3, <2>2
    <3> QED BY <2>2, <3>1 DEF T
  <2>4. PICK d : d = Chain[p]
    OBVIOUS
  <2>5. d \in Seq(Hashes) /\ d # << >> /\ d[Len(d)] = p /\ receipts[d[1]].sequence = 0 /\ Len(d) >= 1
    BY <2>3, <2>4 DEF Last, ValidChain
  <2>6. Chain[m] = Append(d, m)
    BY <1>4, <1>6, <2>1, <2>4
  <2> DEFINE e == Append(d, m)
  <2>7. /\ e \in Seq(Hashes) /\ Len(e) = Len(d) + 1 /\ e[Len(e)] = m /\ e # << >>
        /\ \A i \in 1 .. Len(d) : e[i] = d[i]
    BY <1>3, <2>5
  <2> HIDE DEF e
  <2>8. PICK n \in Nat \ {0} :
           n = Len(d) /\ Len(e) = n + 1 /\ e[n + 1] = m /\ d[n] = p /\ \A i \in 1 .. n : e[i] = d[i]
    BY <2>5, <2>7
  <2>9. ASSUME NEW i \in 1 .. Len(e) - 1
        PROVE  /\ receipts[e[i + 1]].sequence = receipts[e[i]].sequence + 1
               /\ receipts[e[i + 1]].parent = e[i]
               /\ receipts[e[i + 1]].root = receipts[e[i]].root
               /\ receipts[e[i + 1]].branch = receipts[e[i]].branch
               /\ receipts[e[i + 1]].generation = receipts[e[i]].generation
    <3> HIDE DEF Good
    <3>1. CASE i = n
      <4>1. e[i] = p /\ e[i + 1] = m
        BY <2>8, <3>1
      <4> QED BY <4>1, <2>1, <2>2 DEF Continues
    <3>2. CASE i # n
      <4>1. i \in 1 .. n - 1 /\ e[i] = d[i] /\ e[i + 1] = d[i + 1]
        BY <2>8, <3>2
      <4> QED BY <4>1, <2>3, <2>4, <2>8 DEF Good, ValidChain
    <3> QED BY <3>1, <3>2
  <2>10. e[1] = d[1]
    BY <2>8
  <2>11. ValidChain(e)
    BY <2>5, <2>7, <2>9, <2>10 DEF ValidChain
  <2>12. Good(m)
    BY <2>6, <2>7, <2>11 DEF e, Last
  <2> QED BY <1>3, <2>12
<1> QED BY <1>5, <1>6

-----------------------------------------------------------------------------
(* A history holds nothing younger than what it is the history of.          *)
LEMMA HistoryIs ==
    ASSUME LineOK, NEW h \in Hashes
    PROVE  /\ History[h] = {h} \cup UNION {History[s] : s \in Sources(h)}
           /\ Sources(h) \subseteq 1 .. h - 1 /\ Sources(h) \subseteq Hashes
<1>1. Len(receipts) \in Nat /\ Hashes = 1 .. Len(receipts)
  BY HashesAre DEF LineOK
<1>2. Sources(h) \subseteq 1 .. h - 1
  BY SourcesAreOlder
<1>3. \A s \in Sources(h) : s \in Hashes
  BY <1>1, <1>2
<1> QED BY <1>2, <1>3, HistoryExists

LEMMA HistoryIsOlder ==
    ASSUME LineOK, NEW h \in Hashes
    PROVE  h \in History[h] /\ History[h] \subseteq 1 .. h
<1> DEFINE T == {k \in Hashes : ~(History[k] \subseteq 1 .. k)}
<1>1. Len(receipts) \in Nat /\ Hashes = 1 .. Len(receipts)
  BY HashesAre DEF LineOK
<1>2. T = {}
  <2> SUFFICES ASSUME T # {} PROVE FALSE
    OBVIOUS
  <2>1. PICK m \in T : \A k \in T : m <= k
    <3>1. T \in SUBSET Nat
      BY <1>1
    <3> HIDE DEF T
    <3> QED BY <3>1, NatMin
  <2>2. m \in Hashes /\ ~(History[m] \subseteq 1 .. m)
    BY <2>1
  <2>3. ASSUME NEW s \in Sources(m) PROVE History[s] \subseteq 1 .. m
    <3>1. s \in 1 .. m - 1 /\ s \in Hashes
      BY <2>2, HistoryIs
    <3>2. s \notin T
      <4> HIDE DEF T
      <4> QED BY <1>1, <2>1, <2>2, <3>1
    <3>3. History[s] \subseteq 1 .. s
      BY <3>1, <3>2
    <3>4. 1 .. s \subseteq 1 .. m
      BY <1>1, <2>2, <3>1
    <3> QED BY <3>3, <3>4
  <2>4. History[m] = {m} \cup UNION {History[s] : s \in Sources(m)}
    BY <2>2, HistoryIs
  <2>5. m \in 1 .. m
    BY <1>1, <2>2
  <2> QED BY <2>2, <2>3, <2>4, <2>5
<1> QED BY <1>2, HistoryIs

(* The history of a branch that was restored: the branch, and the history   *)
(* of the checkpoint.                                                       *)
LEMMA HistoryOfBranch ==
    ASSUME LineOK, NEW c \in Seq(Hashes), ValidChain(c), NEW a,
           receipts[c[1]].provenance = {<<"restore-source", a>>}, NEW n \in 1 .. Len(c)
    PROVE  History[c[n]] = {c[i] : i \in 1 .. n} \cup History[a]
<1> DEFINE T == {k \in 1 .. Len(c) : History[c[k]] # {c[i] : i \in 1 .. k} \cup History[a]}
<1>1. Len(c) \in Nat
  BY ChainStep
<1> SUFFICES ASSUME T # {} PROVE FALSE
  OBVIOUS
<1>2. PICK m \in T : \A k \in T : m <= k
  <2>1. T \in SUBSET Nat
    BY <1>1
  <2> HIDE DEF T
  <2> QED BY <2>1, NatMin
<1>3. m \in 1 .. Len(c) /\ History[c[m]] # {c[i] : i \in 1 .. m} \cup History[a]
  BY <1>2
<1>4. c[m] \in Hashes /\ History[c[m]] = {c[m]} \cup UNION {History[s] : s \in Sources(c[m])}
  BY <1>3, AlongChain, HistoryIs
<1>5. m # 1
  <2> SUFFICES ASSUME m = 1 PROVE FALSE
    OBVIOUS
  <2>1. receipts[c[1]].parent = NoHash
    BY ChainStep
  <2>2. Sources(c[1]) = {a}
    <3>1. {e \in receipts[c[1]].provenance : e[1] \notin {"potential", "evidence"}} = {<<"restore-source", a>>}
      OBVIOUS
    <3>2. {edge[2] : edge \in {<<"restore-source", a>>}} = {a}
      OBVIOUS
    <3> QED BY <2>1, <3>1, <3>2 DEF Sources
  <2>3. {c[i] : i \in 1 .. 1} = {c[1]}
    OBVIOUS
  <2> QED BY <1>3, <1>4, <2>2, <2>3
<1>6. History[c[m - 1]] = {c[i] : i \in 1 .. m - 1} \cup History[a]
  <2>1. m - 1 \in 1 .. Len(c) /\ m - 1 \notin T
    <3> HIDE DEF T
    <3> QED BY <1>1, <1>2, <1>3, <1>5
  <2> QED BY <2>1
<1>7. Sources(c[m]) = {c[m - 1]}
  <2>1. PICK i \in 1 .. Len(c) - 1 : i = m - 1 /\ i + 1 = m
    BY <1>1, <1>3, <1>5
  <2>2. c[m - 1] \in Hashes /\ receipts[c[m]].parent = c[m - 1]
    BY <2>1, ChainStep
  <2>3. c[m - 1] # NoHash
    BY <2>2, HashesAre DEF LineOK, NoHash
  <2> QED BY <2>2, <2>3 DEF Sources
<1>8. {c[i] : i \in 1 .. m} = {c[i] : i \in 1 .. m - 1} \cup {c[m]}
  BY <1>1, <1>3
<1> QED BY <1>3, <1>4, <1>6, <1>7, <1>8

(* A chain that was restored from a receipt: it began with the copy.        *)
LEMMA RestoredBranch ==
    ASSUME LineOK, RestoresOK, NEW c \in Seq(Hashes), ValidChain(c), NEW a,
           NEW restore \in restores, FromAncestor(a, c, restore)
    PROVE  /\ receipts[c[1]].provenance = {<<"restore-source", a>>}
           /\ a \in Hashes /\ a < c[1]
           /\ Last(c) \in Hashes
           /\ receipts[Last(c)].branch = receipts[c[1]].branch
           /\ History[Last(c)] = {c[i] : i \in 1 .. Len(c)} \cup History[a]
           /\ \A i \in 1 .. Len(c) : /\ c[i] \notin History[a]
                                     /\ receipts[c[i]].branch = receipts[c[1]].branch
<1>1. c[1] \in Hashes /\ Begins(c[1]) /\ 1 \in 1 .. Len(c) /\ Len(c) \in Nat /\ Len(c) \in 1 .. Len(c)
  BY ChainStep
<1>2. restore.source = a /\ restore.target = c[1]
  BY DEF FromAncestor, VerifyRestore
<1>3. receipts[c[1]].provenance = {<<"restore-source", a>>}
  BY <1>2 DEF RestoresOK, RestoreOK, IssuedAs
<1>4. receipts[c[1]].provenance = {<<"restore-source", a>>} /\ a \in 1 .. c[1] - 1
  <2>1. NamesOlder(<<"restore-source", a>>, c[1])
    BY <1>1, <1>3 DEF Begins
  <2> QED BY <1>3, <2>1 DEF NamesOlder
<1>5. Len(receipts) \in Nat /\ Hashes = 1 .. Len(receipts)
  BY HashesAre DEF LineOK
<1>6. a \in Hashes /\ a < c[1]
  BY <1>1, <1>4, <1>5
<1>7. ASSUME NEW i \in 1 .. Len(c)
      PROVE  c[i] \notin History[a] /\ receipts[c[i]].branch = receipts[c[1]].branch
  <2>1. c[i] \in Hashes /\ c[1] <= c[i] /\ receipts[c[i]].branch = receipts[c[1]].branch
    BY AlongChain
  <2>2. History[a] \subseteq 1 .. a
    BY <1>6, HistoryIsOlder
  <2> QED BY <1>1, <1>5, <1>6, <2>1, <2>2
<1>8. Last(c) = c[Len(c)]
  BY DEF Last
<1>9. History[c[Len(c)]] = {c[i] : i \in 1 .. Len(c)} \cup History[a]
  BY <1>1, <1>4, HistoryOfBranch
<1> QED BY <1>1, <1>4, <1>6, <1>7, <1>8, <1>9, ChainOfHead

-----------------------------------------------------------------------------
(* What a merge that is verified says of the heads it joins.                *)
Joins(merge, g, h) ==
    /\ merge.left = g /\ merge.right = h
    /\ History[merge.target] = {merge.target} \cup History[g] \cup History[h]
    /\ History[g] \cap History[h] = History[merge.ancestor]

LEMMA VerifiedMerge ==
    ASSUME LineOK, RestoresOK, NEW l, IsChain(l), NEW r, IsChain(r), NEW lr \in restores, NEW rr \in restores,
           NEW merge, MergeOK(merge), NEW settlement,
           VerifyMerge(merge.ancestor, l, lr, r, rr, merge.target, merge, settlement)
    PROVE  Joins(merge, Last(l), Last(r))
<1>0. PICK a, t : a = merge.ancestor /\ t = merge.target /\ t \in Hashes
  BY DEF MergeOK, IssuedAs
<1>1. /\ ValidChain(l) /\ ValidChain(r)
      /\ FromAncestor(a, l, lr) /\ FromAncestor(a, r, rr)
      /\ receipts[Last(l)].branch # receipts[Last(r)].branch
      /\ MergeEdges(a, l, r) \subseteq receipts[t].provenance
      /\ l \in Seq(Hashes) /\ r \in Seq(Hashes)
  BY <1>0 DEF IsChain, VerifyMerge, Joinable
<1>2. merge.left = Last(l) /\ merge.right = Last(r)
  BY DEF VerifyMerge, MergeReceipt
<1>3. /\ Last(l) \in Hashes /\ receipts[Last(l)].branch = receipts[l[1]].branch
      /\ History[Last(l)] = {l[i] : i \in 1 .. Len(l)} \cup History[a]
      /\ \A i \in 1 .. Len(l) : l[i] \notin History[a] /\ receipts[l[i]].branch = receipts[l[1]].branch
  BY <1>1, RestoredBranch
<1>4. /\ Last(r) \in Hashes /\ receipts[Last(r)].branch = receipts[r[1]].branch
      /\ History[Last(r)] = {r[i] : i \in 1 .. Len(r)} \cup History[a]
      /\ \A i \in 1 .. Len(r) : r[i] \notin History[a] /\ receipts[r[i]].branch = receipts[r[1]].branch
  BY <1>1, RestoredBranch
<1>5. History[Last(l)] \cap History[Last(r)] = History[a]
  BY <1>1, <1>3, <1>4
<1>6. receipts[t].provenance = MergeEdges(a, l, r) /\ receipts[t].parent = NoHash
  BY <1>0, <1>2 DEF MergeOK, IssuedAs, MergeEdges
<1>7. Sources(t) = {a, Last(l), Last(r)}
  <2> DEFINE E == {<<"merge-ancestor", a>>, <<"merge-left", Last(l)>>, <<"merge-right", Last(r)>>}
  <2>1. {e \in E : e[1] \notin {"potential", "evidence"}} = E
    OBVIOUS
  <2>2. {edge[2] : edge \in E} = {a, Last(l), Last(r)}
    OBVIOUS
  <2>3. receipts[t].parent = NoHash /\ receipts[t].provenance = E
    BY <1>6 DEF MergeEdges
  <2> HIDE DEF E
  <2> QED BY <2>1, <2>2, <2>3 DEF Sources
<1>8. History[t] = {t} \cup UNION {History[s] : s \in Sources(t)}
  BY <1>0, HistoryIs
<1>9. History[t] = {t} \cup History[Last(l)] \cup History[Last(r)]
  BY <1>5, <1>7, <1>8
<1> QED BY <1>0, <1>2, <1>5, <1>9 DEF Joins

LEMMA JoinsFutures == IInv => MergesJoinFutures
<1> SUFFICES ASSUME IInv PROVE MergesJoinFutures
  OBVIOUS
<1> USE DEF IInv
<1>1. ASSUME NEW c \in {Chain[h] : h \in Hashes} PROVE c \in Seq(Hashes) /\ ValidChain(c)
  BY ChainIsValid
<1>2. ASSUME NEW merge \in merges, NEW settlement \in Settlements, NEW heads \in Accepted(merge, settlement)
      PROVE  /\ merge.left = heads[1] /\ merge.right = heads[2]
             /\ History[merge.target] = {merge.target} \cup History[heads[1]] \cup History[heads[2]]
             /\ History[heads[1]] \cap History[heads[2]] = History[merge.ancestor]
             /\ heads[1] \in Hashes /\ heads[2] \in Hashes
  <2>1. PICK lr \in restores, rr \in restores :
            heads \in {<<Last(chains[1]), Last(chains[2])>> :
               chains \in {c \in ChainsFrom(lr.target) \X ChainsFrom(rr.target) :
                   VerifyMerge(merge.ancestor, c[1], lr, c[2], rr, merge.target, merge, settlement)}}
    BY DEF Accepted
  <2>2. PICK chains \in ChainsFrom(lr.target) \X ChainsFrom(rr.target) :
            /\ VerifyMerge(merge.ancestor, chains[1], lr, chains[2], rr, merge.target, merge, settlement)
            /\ heads = <<Last(chains[1]), Last(chains[2])>>
    BY <2>1
  <2>3. PICK l, r : l = chains[1] /\ r = chains[2]
    OBVIOUS
  <2>4. l \in {Chain[h] : h \in Hashes} /\ r \in {Chain[h] : h \in Hashes}
    BY <2>2, <2>3 DEF ChainsFrom
  <2>5. l \in Seq(Hashes) /\ r \in Seq(Hashes) /\ ValidChain(l) /\ ValidChain(r)
    BY <1>1, <2>4
  <2>6. VerifyMerge(merge.ancestor, l, lr, r, rr, merge.target, merge, settlement)
    BY <2>2, <2>3
  <2>7. heads[1] = Last(l) /\ heads[2] = Last(r)
    BY <2>2, <2>3
  <2>8. MergeOK(merge)
    BY DEF MergesOK
  <2>9. Last(l) \in Hashes /\ Last(r) \in Hashes
    BY <2>5, ChainOfHead
  <2>10. Joins(merge, Last(l), Last(r))
    <3>1. IsChain(l) /\ IsChain(r)
      BY <2>5 DEF IsChain
    <3> QED BY <2>6, <2>8, <3>1, VerifiedMerge
  <2> QED BY <2>7, <2>9, <2>10 DEF Joins
<1>3. ASSUME NEW merge \in merges PROVE \E settlement \in Settlements : Accepted(merge, settlement) # {}
  <2>1. PICK settlement \in Settlements, lr \in restores, rr \in restores, l \in Seq(Hashes), r \in Seq(Hashes) :
            /\ IsChain(l) /\ IsChain(r)
            /\ VerifyMerge(merge.ancestor, l, lr, r, rr, merge.target, merge, settlement)
    BY DEF MergesOK, MergeOK
  <2>2. l = Chain[Last(l)] /\ r = Chain[Last(r)] /\ Last(l) \in Hashes /\ Last(r) \in Hashes
    BY <2>1, ChainOfHead DEF IsChain
  <2>3. l[1] = lr.target /\ r[1] = rr.target
    BY <2>1 DEF VerifyMerge, Joinable, FromAncestor, VerifyRestore
  <2>4. l \in ChainsFrom(lr.target) /\ r \in ChainsFrom(rr.target)
    BY <2>2, <2>3 DEF ChainsFrom
  <2>5. PICK c : c = <<l, r>>
    OBVIOUS
  <2>6. c \in ChainsFrom(lr.target) \X ChainsFrom(rr.target) /\ c[1] = l /\ c[2] = r
    BY <2>4, <2>5
  <2>7. VerifyMerge(merge.ancestor, c[1], lr, c[2], rr, merge.target, merge, settlement)
    BY <2>1, <2>6
  <2>8. <<Last(c[1]), Last(c[2])>> \in Accepted(merge, settlement)
    <3> DEFINE Heads(x, y) ==
          {<<Last(chains[1]), Last(chains[2])>> :
               chains \in {d \in ChainsFrom(x.target) \X ChainsFrom(y.target) :
                   VerifyMerge(merge.ancestor, d[1], x, d[2], y, merge.target, merge, settlement)}}
    <3>1. <<Last(c[1]), Last(c[2])>> \in Heads(lr, rr)
      BY <2>6, <2>7
    <3>2. Accepted(merge, settlement) = UNION {Heads(x, y) : x, y \in restores}
      BY DEF Accepted
    <3> HIDE DEF Heads
    <3> QED BY <3>1, <3>2
  <2> QED BY <2>8
<1>4. ASSUME NEW merge \in merges, NEW composite \in composites, NEW incursion \in incursions,
             VerifyCompositeReality(composite.left, composite.right, merge.target, incursion, merge, composite)
      PROVE  {composite.left, composite.right} \subseteq History[merge.target]
  <2>1. merge.left = composite.left /\ merge.right = composite.right
    BY <1>4 DEF VerifyCompositeReality
  <2>2. PICK settlement \in Settlements : Accepted(merge, settlement) # {}
    BY <1>3
  <2>3. PICK heads : heads \in Accepted(merge, settlement)
    BY <2>2
  <2>4. /\ merge.left \in History[merge.left] /\ merge.right \in History[merge.right]
        /\ History[merge.target] = {merge.target} \cup History[merge.left] \cup History[merge.right]
    BY <1>2, <2>3, HistoryIsOlder
  <2> QED BY <2>1, <2>4
<1>5. PICK history : history = History
  OBVIOUS
<1> QED BY <1>2, <1>3, <1>4 DEF MergesJoinFutures

-----------------------------------------------------------------------------
(* Two first receipts that say the same are one.                             *)
LEMMA SameReceipt ==
    ASSUME LineOK, NEW g \in Hashes, NEW h \in Hashes, receipts[g].branch = receipts[h].branch,
           receipts[g].generation = receipts[h].generation, receipts[g].content = receipts[h].content,
           receipts[g].parent = receipts[h].parent, receipts[g].sequence = receipts[h].sequence,
           receipts[g].root = receipts[h].root, receipts[g].provenance = receipts[h].provenance
    PROVE  g = h
<1>1. HasFields(g) /\ HasFields(h)
  BY DEF LineOK, ReceiptOK
<1>2. PICK r, q : r = receipts[g] /\ q = receipts[h]
  OBVIOUS
<1>3. /\ r = [branch |-> r.branch, generation |-> r.generation, sequence |-> r.sequence,
              content |-> r.content, parent |-> r.parent, root |-> r.root, provenance |-> r.provenance]
      /\ q = [branch |-> q.branch, generation |-> q.generation, sequence |-> q.sequence,
              content |-> q.content, parent |-> q.parent, root |-> q.root, provenance |-> q.provenance]
  BY <1>1, <1>2 DEF HasFields
<1>4. /\ r.branch = q.branch /\ r.generation = q.generation /\ r.content = q.content
      /\ r.parent = q.parent /\ r.sequence = q.sequence /\ r.root = q.root /\ r.provenance = q.provenance
  BY <1>2
<1>5. r = q
  BY <1>3, <1>4, Zenon
<1> QED BY <1>2, <1>5 DEF LineOK, IssuedOnce

(* Two lineages of one root: the root covers what their first receipts say   *)
(* but for the provenance, and the artifacts say the same as the receipts.  *)
LEMMA RootsAgree ==
    ASSUME LineOK, RestoresOK, CommitsOK, MergesOK, NEW g \in Hashes, NEW h \in Hashes, Begins(g), Begins(h),
           receipts[g].root = receipts[h].root
    PROVE  SameBeginning(g, h)
<1>1. /\ receipts[g].branch = receipts[h].branch /\ receipts[g].generation = receipts[h].generation
      /\ receipts[g].content = receipts[h].content
      /\ receipts[g].parent = receipts[h].parent /\ receipts[g].sequence = receipts[h].sequence
  BY DEF Begins, Root
<1>2. [receipts[g] EXCEPT !.provenance = {}] = [receipts[h] EXCEPT !.provenance = {}]
  <2>1. HasFields(g) /\ HasFields(h)
    BY DEF LineOK, ReceiptOK
  <2>2. PICK r, q : r = receipts[g] /\ q = receipts[h]
    OBVIOUS
  <2>3. /\ r = [branch |-> r.branch, generation |-> r.generation, sequence |-> r.sequence,
                content |-> r.content, parent |-> r.parent, root |-> r.root,
                provenance |-> r.provenance]
        /\ q = [branch |-> q.branch, generation |-> q.generation, sequence |-> q.sequence,
                content |-> q.content, parent |-> q.parent, root |-> q.root,
                provenance |-> q.provenance]
    BY <2>1, <2>2 DEF HasFields
  <2>4. /\ r.branch = q.branch /\ r.generation = q.generation /\ r.content = q.content
        /\ r.parent = q.parent /\ r.sequence = q.sequence /\ r.root = q.root
    BY <1>1, <2>2
  <2>5. /\ [r EXCEPT !.provenance = {}] =
             [branch |-> r.branch, generation |-> r.generation, sequence |-> r.sequence,
              content |-> r.content, parent |-> r.parent, root |-> r.root, provenance |-> {}]
        /\ [q EXCEPT !.provenance = {}] =
             [branch |-> q.branch, generation |-> q.generation, sequence |-> q.sequence,
              content |-> q.content, parent |-> q.parent, root |-> q.root, provenance |-> {}]
    BY <2>3
  <2> QED BY <2>2, <2>4, <2>5
<1>3. ASSUME NEW x \in restores, NEW y \in restores, x.target = g, y.target = h PROVE x = y
  <2>1. /\ receipts[g].content = [restored |-> x.source]
        /\ receipts[h].content = [restored |-> y.source]
        /\ receipts[g].provenance = {<<"restore-source", x.source>>}
        /\ receipts[h].provenance = {<<"restore-source", y.source>>}
    BY <1>3 DEF RestoresOK, RestoreOK, IssuedAs
  <2>2. x.source = y.source
    <3>1. PICK c, d : c = [restored |-> x.source] /\ d = [restored |-> y.source]
      OBVIOUS
    <3>2. c = d
      BY <1>1, <2>1, <3>1, Zenon
    <3> QED BY <3>1, <3>2
  <2>3. receipts[g].provenance = receipts[h].provenance
    BY <2>1, <2>2, Zenon
  <2>4. g = h
    BY <1>1, <2>3, SameReceipt
  <2> QED BY <1>3, <2>2, <2>4 DEF RestoresOK
<1>4. ASSUME NEW x \in merges, NEW y \in merges, x.target = g, y.target = h PROVE x = y
  <2>1. MergeOK(x) /\ MergeOK(y)
    BY DEF MergesOK
  <2>2. /\ x.ancestor = y.ancestor /\ x.left = y.left /\ x.right = y.right
        /\ x.resolutions = y.resolutions /\ x.payload = y.payload
    <3>1. PICK c, d : /\ c = [ancestor |-> x.ancestor, left |-> x.left, right |-> x.right,
                              resolutions |-> x.resolutions, payload |-> x.payload]
                      /\ d = [ancestor |-> y.ancestor, left |-> y.left, right |-> y.right,
                              resolutions |-> y.resolutions, payload |-> y.payload]
      OBVIOUS
    <3>2. c = d
      BY <1>1, <1>4, <2>1, <3>1 DEF MergeOK, IssuedAs
    <3> QED BY <3>1, <3>2
  <2>3. receipts[g].provenance = receipts[h].provenance
    BY <1>4, <2>1, <2>2 DEF MergeOK, IssuedAs
  <2>4. g = h
    BY <1>1, <2>3, SameReceipt
  <2> QED BY <1>4, <2>1, <2>2, <2>4 DEF MergeOK
<1>5. ASSUME NEW x \in commits, NEW y \in commits,
             VerifyBranchCommit(x.source, x.potential, g, x),
             VerifyBranchCommit(y.source, y.potential, h, y)
      PROVE  x.potential.id = y.potential.id /\ x.potential.payload = y.potential.payload
  <2>1. x.target = g /\ y.target = h
    BY <1>5 DEF VerifyBranchCommit
  <2>2. /\ receipts[g].content = [commit |-> x.potential.id, payload |-> x.potential.payload]
        /\ receipts[h].content = [commit |-> y.potential.id, payload |-> y.potential.payload]
    BY <2>1 DEF CommitsOK, CommitOK
  <2>3. PICK c, d : /\ c = [commit |-> x.potential.id, payload |-> x.potential.payload]
                    /\ d = [commit |-> y.potential.id, payload |-> y.potential.payload]
    OBVIOUS
  <2>4. c = d
    BY <1>1, <2>2, <2>3, Zenon
  <2> QED BY <2>3, <2>4
<1> QED BY <1>2, <1>3, <1>4, <1>5 DEF SameBeginning

LEMMA OriginsAgree == IInv => OneOrigin
<1> SUFFICES ASSUME IInv PROVE OneOrigin
  OBVIOUS
<1> USE DEF IInv
<1> DEFINE seen == {[as |-> ObserveAxis(receipts[g], receipts[h]), from |-> {Chain[g][1], Chain[h][1]}] :
                       g, h \in Hashes}
<1>1. ASSUME NEW g \in Hashes
      PROVE  Chain[g][1] \in Hashes /\ Begins(Chain[g][1]) /\ receipts[Chain[g][1]].root = receipts[g].root
  <2>1. PICK c : c = Chain[g]
    OBVIOUS
  <2>2. c \in Seq(Hashes) /\ ValidChain(c) /\ Last(c) = g
    BY <2>1, ChainIsValid
  <2>3. c[1] \in Hashes /\ Begins(c[1]) /\ 1 \in 1 .. Len(c) /\ Len(c) \in Nat
    BY <2>2, ChainStep
  <2>4. Len(c) \in 1 .. Len(c) /\ g = c[Len(c)]
    BY <2>2, <2>3 DEF Last
  <2>5. receipts[c[Len(c)]].root = receipts[c[1]].root
    BY <2>2, <2>4, AlongChain
  <2> QED BY <2>1, <2>3, <2>4, <2>5
<1>2. ASSUME NEW s \in seen, s.as.pass, NEW x \in s.from
      PROVE  x \in Hashes /\ Begins(x) /\ receipts[x].root = s.as.root
  <2>1. PICK g \in Hashes, h \in Hashes :
           s = [as |-> ObserveAxis(receipts[g], receipts[h]), from |-> {Chain[g][1], Chain[h][1]}]
    OBVIOUS
  <2>2. receipts[g].root = receipts[h].root /\ s.as.root = receipts[g].root
    BY <1>2, <2>1 DEF ObserveAxis
  <2>3. x = Chain[g][1] \/ x = Chain[h][1]
    BY <2>1
  <2> QED BY <1>1, <2>2, <2>3
<1>3. ASSUME NEW s \in seen, NEW t \in seen, s.as.pass, t.as.pass, Coherent(s.as, t.as)
      PROVE  s.as.root = t.as.root
  <2>1. PICK g \in Hashes, h \in Hashes : s.as = ObserveAxis(receipts[g], receipts[h])
    OBVIOUS
  <2> HIDE DEF seen
  <2>2. PICK a, b, d : a = s.as /\ b = t.as /\ d = CrossAxisBind(a, b)
    OBVIOUS
  <2>3. PICK o : o = <<a, b, d>>
    OBVIOUS
  <2>4. o[1] = a /\ o[2] = b /\ 2 \in DOMAIN o
    BY <2>3
  <2>5. GlobalCoherence(o).pass
    BY <1>3, <2>2, <2>3 DEF Coherent
  <2>6. PICK all \in BOOLEAN : all = \A i \in DOMAIN o : o[i].pass /\ SameSubject(o[i], o[1])
    OBVIOUS
  <2>7. GlobalCoherence(o) = [a EXCEPT !.pass = all]
    BY <2>4, <2>6 DEF GlobalCoherence
  <2>8. "pass" \in DOMAIN a
    BY <2>1, <2>2 DEF ObserveAxis
  <2>9. all
    BY <2>5, <2>7, <2>8
  <2>10. SameSubject(b, a)
    BY <2>4, <2>6, <2>9
  <2> QED BY <2>2, <2>10 DEF SameSubject
<1>4. ASSUME NEW s \in {u \in seen : u.as.pass}, NEW t \in {u \in seen : u.as.pass}, Coherent(s.as, t.as),
             NEW g \in s.from \cup t.from, NEW h \in s.from \cup t.from
      PROVE  SameBeginning(g, h)
  <2>1. s \in seen /\ t \in seen /\ s.as.pass /\ t.as.pass
    OBVIOUS
  <2> HIDE DEF seen
  <2>2. s.as.root = t.as.root
    BY <1>3, <1>4, <2>1
  <2>3. g \in Hashes /\ Begins(g) /\ receipts[g].root = s.as.root
    BY <1>2, <2>1, <2>2
  <2>4. h \in Hashes /\ Begins(h) /\ receipts[h].root = s.as.root
    BY <1>2, <2>1, <2>2
  <2> QED BY <2>3, <2>4, RootsAgree
<1> QED BY <1>4 DEF OneOrigin

-----------------------------------------------------------------------------
(* What was issued stays, and what was committed.                           *)
Kept ==
    /\ Hashes \subseteq Hashes'
    /\ \A h \in Hashes : receipts'[h] = receipts[h]
    /\ commits \subseteq commits' /\ restores \subseteq restores'

(* To issue a receipt is to have it under its hash.                         *)
LEMMA Issued ==
    ASSUME IsLine, IssuedOnce, NEW r, NEW n, n = HashOf(r), Issue(r)
    PROVE  /\ IsLine' /\ IssuedOnce'
           /\ Hashes \subseteq Hashes' /\ \A h \in Hashes : receipts'[h] = receipts[h]
           /\ n \in Hashes' /\ receipts'[n] = r
           /\ Hashes' = Hashes \cup {n}
           /\ n \notin Hashes => Hashes = 1 .. n - 1 /\ n \in Nat
<1>1. Len(receipts) \in Nat /\ Hashes = 1 .. Len(receipts) /\ receipts \in Seq(Range(receipts))
  BY HashesAre DEF IsLine
<1>2. CASE r \in Range(receipts)
  <2>1. receipts' = receipts
    BY <1>2 DEF Issue
  <2>2. n \in Hashes /\ receipts[n] = r
    BY <1>2 DEF HashOf, Range, Hashes
  <2> QED BY <2>1, <2>2 DEF IsLine, IssuedOnce, Hashes
<1>3. CASE r \notin Range(receipts)
  <2>1. receipts' = Append(receipts, r) /\ n = Len(receipts) + 1
    BY <1>3 DEF Issue, HashOf
  <2>2. /\ Len(receipts') = n /\ DOMAIN receipts' = 1 .. n /\ receipts'[n] = r
        /\ \A h \in 1 .. n - 1 : receipts'[h] = receipts[h]
    BY <1>1, <2>1
  <2>3. Hashes' = 1 .. n /\ Hashes = 1 .. n - 1 /\ n \in Nat \ {0}
    BY <1>1, <2>1, <2>2 DEF Hashes
  <2>4. IsLine'
    <3>1. \A h \in 1 .. n : receipts'[h] \in Range(receipts')
      BY <2>2 DEF Range
    <3>2. PICK old, new : old = Range(receipts) /\ new = Range(receipts')
      OBVIOUS
    <3>3. receipts \in Seq(old \cup {r})
      BY <1>1, <3>2
    <3>4. receipts' \in Seq(old \cup {r})
      BY <2>1, <3>3
    <3>5. receipts' \in Seq(new)
      BY <2>2, <3>1, <3>2, <3>4
    <3> QED BY <3>2, <3>5 DEF IsLine
  <2>5. ASSUME NEW g \in Hashes', NEW h \in Hashes', receipts'[g] = receipts'[h] PROVE g = h
    <3>1. \A k \in 1 .. n - 1 : receipts[k] # r
      BY <1>3, <2>3 DEF Range, Hashes
    <3>2. CASE g = n
      BY <2>2, <2>3, <2>5, <3>1, <3>2
    <3>3. CASE h = n
      BY <2>2, <2>3, <2>5, <3>1, <3>3
    <3>4. CASE g # n /\ h # n
      <4>1. g \in Hashes /\ h \in Hashes /\ receipts[g] = receipts[h]
        BY <2>2, <2>3, <2>5, <3>4
      <4> QED BY <4>1 DEF IssuedOnce
    <3> QED BY <3>2, <3>3, <3>4
  <2>6. IssuedOnce'
    BY <2>5 DEF IssuedOnce
  <2> QED BY <2>2, <2>3, <2>4, <2>6
<1> QED BY <1>2, <1>3

LEMMA ReceiptStays ==
    ASSUME LineOK, Kept, NEW h \in Hashes
    PROVE  ReceiptOK(h)'
<1>1. ReceiptOK(h) /\ receipts'[h] = receipts[h]
  BY DEF LineOK, Kept
<1>2. \A g \in 1 .. h - 1 : g \in Hashes /\ receipts'[g] = receipts[g]
  BY HashesAre DEF LineOK, Kept
<1>3. HasFields(h)'
  BY <1>1 DEF ReceiptOK, HasFields
<1>4. CASE Continues(h)
  <2>1. Continues(h)'
    BY <1>1, <1>2, <1>4 DEF Continues
  <2> QED BY <1>3, <2>1 DEF ReceiptOK
<1>5. CASE Begins(h)
  <2>1. Begins(h)'
    BY <1>1, <1>5 DEF Begins
  <2> QED BY <1>3, <2>1 DEF ReceiptOK
<1> QED BY <1>1, <1>4, <1>5 DEF ReceiptOK

(* A receipt that is issued for the first time has to be one.               *)
LEMMA LineStep ==
    ASSUME LineOK, Kept, NEW r, NEW n, n = HashOf(r), Issue(r), n \notin Hashes => ReceiptOK(n)'
    PROVE  LineOK'
<1>1. IsLine' /\ IssuedOnce' /\ Hashes' = Hashes \cup {n}
  BY Issued DEF LineOK
<1>2. ASSUME NEW h \in Hashes' PROVE ReceiptOK(h)'
  <2>1. h \in Hashes \/ h = n
    BY <1>1
  <2> QED BY <2>1, ReceiptStays
<1> QED BY <1>1, <1>2 DEF LineOK

LEMMA PotentialStays ==
    ASSUME Kept, NEW potential, PotentialOK(potential)
    PROVE  PotentialOK(potential)'
BY DEF Kept, PotentialOK

LEMMA ArtifactStays ==
    ASSUME Kept, NEW x
    PROVE  /\ RestoreOK(x) => RestoreOK(x)'
           /\ CommitOK(x) => CommitOK(x)'
BY DEF Kept, RestoreOK, CommitOK, IssuedAs

(* What made a merge still verifies it when more is issued.                 *)
LEMMA JoinableStays ==
    ASSUME LineOK, RestoresOK, Kept, NEW a, NEW l, NEW r, NEW lr \in restores, NEW rr \in restores,
           NEW branch, NEW generation,
           IsChain(l), IsChain(r), Joinable(a, l, lr, r, rr, branch, generation)
    PROVE  /\ IsChain(l)' /\ IsChain(r)' /\ Joinable(a, l, lr, r, rr, branch, generation)'
           /\ a \in Hashes /\ Last(l) \in Hashes /\ Last(r) \in Hashes
<1>1. ASSUME NEW c, IsChain(c) PROVE IsChain(c)' /\ ValidChain(c)' /\ Last(c) \in Hashes
  <2>1. c \in Seq(Hashes) /\ ValidChain(c) /\ Len(c) \in Nat /\ 1 \in 1 .. Len(c)
    BY <1>1, ChainStep DEF IsChain
  <2>2. \A i \in 1 .. Len(c) : c[i] \in Hashes /\ receipts'[c[i]] = receipts[c[i]]
    BY <2>1 DEF Kept
  <2>3. ValidChain(c)'
    <3>1. \A i \in 1 .. Len(c) - 1 : i \in 1 .. Len(c) /\ i + 1 \in 1 .. Len(c)
      BY <2>1
    <3> QED BY <2>1, <2>2, <3>1 DEF ValidChain
  <2>4. c \in Seq(Hashes')
    <3>1. PICK old, new : old = Hashes /\ new = Hashes' /\ old \subseteq new
      BY DEF Kept
    <3> QED BY <2>1, <3>1
  <2> QED BY <2>1, <2>3, <2>4, ChainOfHead DEF IsChain
<1>2. ASSUME NEW c, IsChain(c), NEW restore \in restores, FromAncestor(a, c, restore)
      PROVE  FromAncestor(a, c, restore)' /\ a \in Hashes
  <2>1. c \in Seq(Hashes) /\ ValidChain(c) /\ c[1] \in Hashes
    BY <1>2, ChainStep DEF IsChain
  <2>2. a \in Hashes
    BY <1>2, <2>1, RestoredBranch
  <2>3. receipts'[a] = receipts[a] /\ receipts'[c[1]] = receipts[c[1]]
    BY <2>1, <2>2 DEF Kept
  <2> QED BY <1>2, <2>2, <2>3 DEF FromAncestor, VerifyRestore
<1>3. /\ ValidChain(l)' /\ ValidChain(r)' /\ IsChain(l)' /\ IsChain(r)'
      /\ Last(l) \in Hashes /\ Last(r) \in Hashes
  BY <1>1
<1>4. FromAncestor(a, l, lr)' /\ FromAncestor(a, r, rr)' /\ a \in Hashes
  BY <1>2 DEF Joinable
<1>5. /\ receipts'[Last(l)] = receipts[Last(l)] /\ receipts'[Last(r)] = receipts[Last(r)]
      /\ receipts'[a] = receipts[a]
  BY <1>3, <1>4 DEF Kept
<1> QED BY <1>3, <1>4, <1>5 DEF Joinable

LEMMA MergeStays ==
    ASSUME LineOK, RestoresOK, Kept, NEW merge, MergeOK(merge)
    PROVE  MergeOK(merge)'
<1>1. PICK settlement \in Settlements, lr \in restores, rr \in restores, l \in Seq(Hashes), r \in Seq(Hashes) :
          /\ IsChain(l) /\ IsChain(r)
          /\ VerifyMerge(merge.ancestor, l, lr, r, rr, merge.target, merge, settlement)
  BY DEF MergeOK
<1>2. PICK a, t : a = merge.ancestor /\ t = merge.target /\ t \in Hashes
  BY DEF MergeOK, IssuedAs
<1>3. PICK branch, generation : branch = receipts[t].branch /\ generation = receipts[t].generation
  OBVIOUS
<1>4. VerifyMerge(a, l, lr, r, rr, t, merge, settlement) /\ Joinable(a, l, lr, r, rr, branch, generation)
  BY <1>1, <1>2, <1>3 DEF VerifyMerge
<1>5. /\ IsChain(l)' /\ IsChain(r)' /\ Joinable(a, l, lr, r, rr, branch, generation)'
      /\ Last(l) \in Hashes /\ Last(r) \in Hashes
  BY <1>1, <1>4, JoinableStays
<1>6. /\ receipts'[t] = receipts[t] /\ receipts'[Last(l)] = receipts[Last(l)]
      /\ receipts'[Last(r)] = receipts[Last(r)] /\ t \in Hashes' /\ lr \in restores' /\ rr \in restores'
  BY <1>2, <1>5 DEF Kept
<1>7. Joinable(a, l, lr, r, rr, receipts[t].branch, receipts[t].generation)'
  BY <1>3, <1>5, <1>6 DEF Joinable
<1>8. VerifyMerge(a, l, lr, r, rr, t, merge, settlement)'
  BY <1>4, <1>6, <1>7 DEF VerifyMerge
<1>9. IssuedAs(merge.target,
               [ancestor |-> merge.ancestor, left |-> merge.left, right |-> merge.right,
                resolutions |-> merge.resolutions, payload |-> merge.payload],
               {<<"merge-ancestor", merge.ancestor>>, <<"merge-left", merge.left>>,
                <<"merge-right", merge.right>>})'
  BY DEF MergeOK, IssuedAs, Kept
<1> QED BY <1>1, <1>2, <1>5, <1>6, <1>8, <1>9 DEF MergeOK, IsChain

LEMMA RestStays ==
    ASSUME IInv, Kept
    PROVE  /\ potentials' = potentials => PotentialsOK'
           /\ restores' = restores => RestoresOK'
           /\ commits' = commits => CommitsOK'
           /\ merges' = merges => MergesOK'
<1>1. ASSUME potentials' = potentials PROVE PotentialsOK'
  BY <1>1, PotentialStays DEF IInv, PotentialsOK
<1>2. ASSUME restores' = restores PROVE RestoresOK'
  BY <1>2, ArtifactStays DEF IInv, RestoresOK
<1>3. ASSUME commits' = commits PROVE CommitsOK'
  BY <1>3, ArtifactStays DEF IInv, CommitsOK
<1>4. ASSUME merges' = merges PROVE MergesOK'
  BY <1>4, MergeStays DEF IInv, MergesOK
<1> QED BY <1>1, <1>2, <1>3, <1>4

-----------------------------------------------------------------------------
(* What callers say a receipt comes from names receipts that are issued.    *)
LEMMA GivenNames ==
    ASSUME NEW provenance \in GivenProvenances
    PROVE  \A ref \in provenance : ref[1] \in {"potential", "evidence"} \/ ref[2] \in Hashes
<1>1. PICK refs \in SeqOf(References, MaxRefs) : provenance = Range(refs)
  BY DEF GivenProvenances
<1>2. PICK n : refs \in [1 .. n -> References]
  BY DEF SeqOf
<1>3. provenance \subseteq References
  BY <1>1, <1>2 DEF Range
<1> QED BY <1>3 DEF References

(* A lineage that begins: it is left to show that it names what is issued.  *)
LEMMA GenesisStep ==
    ASSUME LineOK, Kept, NEW branch, NEW generation \in Nat, NEW content, NEW provenance, NEW n,
           n = HashOf(Genesis(branch, generation, content, provenance)),
           Issue(Genesis(branch, generation, content, provenance)),
           \A ref \in provenance : ref[1] \in {"potential", "evidence"} \/ ref[2] \in Hashes
    PROVE  LineOK' /\ IssuedAs(n, content, provenance)'
<1>1. PICK r : r = Genesis(branch, generation, content, provenance)
  OBVIOUS
<1>2. Issue(r) /\ n = HashOf(r)
  BY <1>1
<1>3. receipts'[n] = r /\ n \in Hashes' /\ (n \notin Hashes => Hashes = 1 .. n - 1)
  BY <1>2, Issued DEF LineOK
<1>4. HasFields(n)'
  BY <1>1, <1>3 DEF HasFields, Genesis, Root
<1>5. receipts'[n].parent = NoHash /\ receipts'[n].sequence = 0
  BY <1>1, <1>3 DEF Genesis
<1>6. receipts'[n].root = Root(receipts'[n].branch, receipts'[n].generation, receipts'[n].content)
  BY <1>1, <1>3 DEF Genesis
<1>7. receipts'[n].provenance = provenance /\ receipts'[n].content = content
  BY <1>1, <1>3 DEF Genesis
<1>8. n \notin Hashes => ReceiptOK(n)'
  BY <1>3, <1>4, <1>5, <1>6, <1>7 DEF ReceiptOK, Begins, NamesOlder
<1>9. LineOK'
  BY <1>2, <1>8, LineStep
<1> QED BY <1>3, <1>5, <1>7, <1>9 DEF IssuedAs

LEMMA IssueGenesisStep ==
    ASSUME IInv, NEW branch, NEW generation \in Generations, NEW content, NEW provenance \in GivenProvenances,
           IssueGenesis(branch, generation, content, provenance), UNCHANGED multiverseVars
    PROVE  IInv'
<1>1. PICK n : n = HashOf(Genesis(branch, generation, content, provenance))
  OBVIOUS
<1>2. Issue(Genesis(branch, generation, content, provenance)) /\ UNCHANGED <<restores, merges, potentials, commits>>
  BY DEF IssueGenesis, multiverseVars
<1>3. Kept
  BY <1>2, Issued DEF IInv, LineOK, Kept
<1>4. LineOK'
  BY <1>1, <1>2, <1>3, GenesisStep, GivenNames, LineageAssumption DEF IInv
<1> QED BY <1>2, <1>3, <1>4, RestStays DEF IInv

LEMMA IssueSuccessorStep ==
    ASSUME IInv, NEW parent \in Hashes, NEW content, NEW provenance,
           IssueSuccessor(parent, content, provenance), UNCHANGED multiverseVars
    PROVE  IInv'
<1>1. PICK n, r : n = HashOf(r) /\ r = Successor(parent, content, provenance)
  OBVIOUS
<1>2. Issue(r) /\ UNCHANGED <<restores, merges, potentials, commits>>
  BY <1>1 DEF IssueSuccessor, multiverseVars
<1>3. /\ receipts'[n] = r /\ Kept
      /\ n \notin Hashes => Hashes = 1 .. n - 1
  BY <1>1, <1>2, Issued DEF IInv, LineOK, Kept
<1>4. HasFields(parent) /\ receipts'[parent] = receipts[parent]
  BY <1>3 DEF IInv, LineOK, ReceiptOK, Kept
<1>5. r = [branch     |-> receipts[parent].branch,
           generation |-> receipts[parent].generation,
           sequence   |-> receipts[parent].sequence + 1,
           content    |-> content,
           parent     |-> parent,
           root       |-> receipts[parent].root,
           provenance |-> provenance]
  BY <1>1, <1>4 DEF Successor, HasFields
<1>6. HasFields(n)'
  BY <1>3, <1>4, <1>5 DEF HasFields
<1>7. n \notin Hashes => Continues(n)'
  BY <1>3, <1>4, <1>5 DEF Continues
<1>8. LineOK'
  BY <1>1, <1>2, <1>3, <1>6, <1>7, LineStep DEF IInv, ReceiptOK
<1> QED BY <1>2, <1>3, <1>8, RestStays DEF IInv

LEMMA RestoreStep ==
    ASSUME IInv, NEW source \in Hashes, NEW branch, NEW generation \in Generations,
           RestoreCheckpoint(source, branch, generation), UNCHANGED multiverseVars
    PROVE  IInv'
<1>1. PICK n, c, p : /\ c = [restored |-> source] /\ p = {<<"restore-source", source>>}
                     /\ n = HashOf(Genesis(branch, generation, c, p))
  OBVIOUS
<1>2. PICK x : x = [source |-> source, target |-> n]
  OBVIOUS
<1>3. /\ Issue(Genesis(branch, generation, c, p)) /\ UNCHANGED <<merges, potentials, commits>>
      /\ restores' = restores \cup {x}
  BY <1>1, <1>2 DEF RestoreCheckpoint, multiverseVars
<1>4. Kept
  BY <1>1, <1>3, Issued DEF IInv, LineOK, Kept
<1>5. LineOK' /\ IssuedAs(n, c, p)'
  BY <1>1, <1>3, <1>4, GenesisStep, LineageAssumption DEF IInv
<1>6. x = [source |-> x.source, target |-> x.target] /\ RestoreOK(x)'
  BY <1>1, <1>2, <1>5 DEF RestoreOK, IssuedAs
<1>7. RestoresOK'
  BY <1>3, <1>4, <1>6, ArtifactStays DEF IInv, RestoresOK
<1> QED BY <1>3, <1>4, <1>5, <1>7, RestStays DEF IInv

LEMMA MergeStep ==
    ASSUME IInv, NEW lr \in restores, NEW rr \in restores,
           NEW l \in ChainsFrom(lr.target), NEW r \in ChainsFrom(rr.target),
           NEW branch, NEW generation \in Generations, NEW settlement \in Settlements, NEW payload,
           MergeBranches(lr.source, l, lr, r, rr, branch, generation, settlement, payload),
           UNCHANGED multiverseVars
    PROVE  IInv'
<1>1. PICK a, n, c, p : /\ a = lr.source /\ c = Seed(a, l, r, settlement, payload) /\ p = MergeEdges(a, l, r)
                        /\ n = HashOf(Genesis(branch, generation, c, p))
  OBVIOUS
<1>2. PICK m : m = MergeReceipt(a, l, r, n, settlement, payload)
  OBVIOUS
<1>3. /\ Joinable(a, l, lr, r, rr, branch, generation) /\ Settled(settlement)
      /\ Issue(Genesis(branch, generation, c, p)) /\ merges' = merges \cup {m}
      /\ UNCHANGED <<restores, potentials, commits>>
  BY <1>1, <1>2 DEF MergeBranches, multiverseVars
<1>4. receipts'[n] = Genesis(branch, generation, c, p) /\ Kept
  BY <1>1, <1>3, Issued DEF IInv, LineOK, Kept
<1>5. IsChain(l) /\ IsChain(r)
  BY ChainIsValid DEF ChainsFrom, IsChain, IInv
<1>6. /\ IsChain(l)' /\ IsChain(r)' /\ Joinable(a, l, lr, r, rr, branch, generation)'
      /\ a \in Hashes /\ Last(l) \in Hashes /\ Last(r) \in Hashes
  BY <1>3, <1>4, <1>5, JoinableStays DEF IInv
<1>7. \A ref \in p : ref[1] \in {"potential", "evidence"} \/ ref[2] \in Hashes
  BY <1>1, <1>6 DEF MergeEdges
<1>8. LineOK' /\ IssuedAs(n, c, p)'
  BY <1>1, <1>3, <1>4, <1>7, GenesisStep, LineageAssumption DEF IInv
<1>9. MergeOK(m)'
  <2>1. /\ receipts'[n].branch = branch /\ receipts'[n].generation = generation
        /\ receipts'[n].content = c /\ receipts'[n].provenance = p /\ receipts'[n].root.branch = branch
    BY <1>4 DEF Genesis, Root
  <2>2. Joinable(a, l, lr, r, rr, receipts[n].branch, receipts[n].generation)'
    BY <1>6, <2>1 DEF Joinable
  <2>3. Last(l) \in Hashes' /\ Last(r) \in Hashes'
    BY <1>4, <1>6 DEF Kept
  <2>4. /\ receipts'[Last(l)].root.branch = receipts'[Last(l)].branch
        /\ receipts'[Last(r)].root.branch = receipts'[Last(r)].branch
    BY <1>8, <2>3 DEF LineOK, ReceiptOK, HasFields
  <2>5. branch # receipts'[Last(l)].branch /\ branch # receipts'[Last(r)].branch
    BY <1>6 DEF Joinable
  <2>6. receipts'[n].root \notin {receipts'[Last(l)].root, receipts'[Last(r)].root}
    BY <2>1, <2>4, <2>5
  <2>7. /\ m = [ancestor |-> a, left |-> Last(l), right |-> Last(r), target |-> n,
                resolutions |-> settlement.resolutions, payload |-> payload]
        /\ m.payload = payload /\ m.ancestor = a /\ m.target = n
        /\ m.left = Last(l) /\ m.right = Last(r) /\ m.resolutions = settlement.resolutions
    BY <1>2 DEF MergeReceipt
  <2>8. VerifyMerge(a, l, lr, r, rr, n, m, settlement)'
    BY <1>1, <1>2, <1>3, <2>1, <2>2, <2>6, <2>7 DEF VerifyMerge
  <2>9. lr \in restores' /\ rr \in restores'
    BY <1>3
  <2>10. IssuedAs(m.target,
                  [ancestor |-> m.ancestor, left |-> m.left, right |-> m.right,
                   resolutions |-> m.resolutions, payload |-> m.payload],
                  {<<"merge-ancestor", m.ancestor>>, <<"merge-left", m.left>>,
                   <<"merge-right", m.right>>})'
    <3>1. c = [ancestor |-> m.ancestor, left |-> m.left, right |-> m.right,
               resolutions |-> m.resolutions, payload |-> m.payload]
      BY <1>1, <2>7 DEF Seed
    <3>2. p = {<<"merge-ancestor", m.ancestor>>, <<"merge-left", m.left>>, <<"merge-right", m.right>>}
      BY <1>1, <2>7 DEF MergeEdges
    <3> QED BY <1>8, <2>7, <3>1, <3>2 DEF IssuedAs
  <2>11. m = [ancestor |-> m.ancestor, left |-> m.left, right |-> m.right, target |-> m.target,
              resolutions |-> m.resolutions, payload |-> m.payload]
    BY <2>7
  <2> QED BY <1>6, <2>7, <2>8, <2>9, <2>10, <2>11 DEF MergeOK, IsChain
<1>10. MergesOK'
  BY <1>3, <1>4, <1>9, MergeStays DEF IInv, MergesOK
<1> QED BY <1>3, <1>4, <1>8, <1>10, RestStays DEF IInv

LEMMA CommitStep ==
    ASSUME IInv, NEW source \in Hashes, NEW potential \in potentials, CommitPotential(source, potential)
    PROVE  IInv'
<1>1. PICK n, b, g, c, p : /\ b = potential.branch /\ g = potential.generation
                           /\ c = [commit |-> potential.id, payload |-> potential.payload]
                           /\ p = {<<"potential", potential>>, <<"potential-source", source>>}
                           /\ n = HashOf(Genesis(b, g, c, p))
  OBVIOUS
<1>2. PICK x : x = [potential |-> potential, source |-> source, target |-> n]
  OBVIOUS
<1>3. /\ Issue(Genesis(b, g, c, p)) /\ commits' = commits \cup {x}
      /\ UNCHANGED <<restores, merges, potentials>>
  BY <1>1, <1>2 DEF CommitPotential
<1>4. Kept
  BY <1>1, <1>3, Issued DEF IInv, LineOK, Kept
<1>5. g \in Nat
  BY <1>1 DEF IInv, PotentialsOK, PotentialOK
<1>6. \A ref \in p : ref[1] \in {"potential", "evidence"} \/ ref[2] \in Hashes
  BY <1>1
<1>7. LineOK' /\ IssuedAs(n, c, p)'
  BY <1>1, <1>3, <1>4, <1>5, <1>6, GenesisStep DEF IInv
<1>8. CommitOK(x)'
  BY <1>1, <1>2, <1>7 DEF CommitOK, IssuedAs
<1>9. CommitsOK'
  BY <1>3, <1>4, <1>8, ArtifactStays DEF IInv, CommitsOK
<1> QED BY <1>3, <1>4, <1>7, <1>9, RestStays DEF IInv

-----------------------------------------------------------------------------
(* The invariant is inductive: what a step issues names what was issued.    *)
THEOREM Inductive == IInv /\ [Next]_vars => IInv'
<1> SUFFICES ASSUME IInv, [Next]_vars PROVE IInv'
  OBVIOUS
<1>1. ASSUME UNCHANGED <<receipts, restores, merges, commits>>, PotentialsOK' PROVE IInv'
  <2>1. Kept /\ Hashes' = Hashes
    BY <1>1 DEF Kept, Hashes
  <2>2. IsLine' /\ IssuedOnce'
    BY <1>1 DEF IInv, LineOK, IsLine, IssuedOnce, Hashes
  <2>3. LineOK'
    BY <2>1, <2>2, ReceiptStays DEF IInv, LineOK
  <2> QED BY <1>1, <2>1, <2>3, RestStays DEF IInv
<1>2. CASE UNCHANGED vars
  <2>1. UNCHANGED <<receipts, restores, merges, potentials, commits>>
    BY <1>2 DEF vars, lineageVars, multiverseVars
  <2>2. Kept
    BY <2>1 DEF Kept, Hashes
  <2> QED BY <1>1, <2>1, <2>2, RestStays
<1>3. CASE LineageStep /\ UNCHANGED multiverseVars
  BY <1>3, IssueGenesisStep, IssueSuccessorStep, RestoreStep, MergeStep DEF LineageStep
<1>4. ASSUME NEW source \in Hashes, NEW id \in PotentialIds, NEW branch \in Branches,
             NEW generation \in Generations, NEW payload \in Contents,
             ProposeBranch(source, id, branch, generation, payload)
      PROVE  IInv'
  <2>1. PICK x : x = [id |-> id, source |-> source, branch |-> branch, generation |-> generation,
                      payload |-> payload]
    OBVIOUS
  <2>2. /\ UNCHANGED <<receipts, restores, merges, commits>> /\ potentials' = potentials \cup {x}
        /\ branch # receipts[source].branch
    BY <1>4, <2>1 DEF ProposeBranch, lineageVars
  <2>3. Kept
    BY <2>2 DEF Kept, Hashes
  <2>4. x.source = source /\ x.branch = branch /\ x.generation = generation
    BY <2>1
  <2>5. PotentialOK(x)
    BY <2>2, <2>4, LineageAssumption DEF PotentialOK
  <2>6. PotentialsOK'
    BY <2>2, <2>3, <2>5, PotentialStays DEF IInv, PotentialsOK
  <2> QED BY <1>1, <2>2, <2>6
<1>5. ASSUME NEW source \in Hashes, NEW potential \in potentials, CommitPotential(source, potential)
      PROVE  IInv'
  BY <1>5, CommitStep
<1>6. ASSUME UNCHANGED <<receipts, restores, merges, potentials, commits>> PROVE IInv'
  <2>1. Kept
    BY <1>6 DEF Kept, Hashes
  <2> QED BY <1>1, <1>6, <2>1, RestStays
<1>7. ASSUME NEW left \in Hashes, NEW right \in Hashes, NEW verdict, AssessIncursion(left, right, verdict)
      PROVE  IInv'
  BY <1>6, <1>7 DEF AssessIncursion, lineageVars
<1>8. ASSUME NEW left \in Hashes, NEW right \in Hashes, NEW target \in Hashes,
             NEW incursion \in incursions, NEW merge \in merges,
             BindCompositeReality(left, right, target, incursion, merge)
      PROVE  IInv'
  BY <1>6, <1>8 DEF BindCompositeReality, lineageVars
<1> QED BY <1>2, <1>3, <1>4, <1>5, <1>7, <1>8 DEF Next

(* Nothing is issued at first.                                              *)
THEOREM Initially == Init => IInv
<1> SUFFICES ASSUME Init PROVE IInv
  OBVIOUS
<1>1. /\ receipts = << >> /\ Hashes = {}
      /\ potentials = {} /\ restores = {} /\ commits = {} /\ merges = {}
  BY DEF Init, LineageInit, Hashes
<1>2. IsLine
  BY <1>1 DEF IsLine
<1> QED BY <1>1, <1>2 DEF IInv, LineOK, IssuedOnce, PotentialsOK, RestoresOK, CommitsOK, MergesOK

(* So the invariant always holds.                                           *)
THEOREM Invariance == Spec => []IInv
BY Initially, Inductive, PTL DEF Spec

(* Every merge that was issued can be verified; whatever it is verified     *)
(* with, it continues both of its parents, which have in common what led to *)
(* the ancestor named and nothing else.                                     *)
THEOREM MergesJoin == Spec => []MergesJoinFutures
BY JoinsFutures, Invariance, PTL

(* What the observers take for one lineage has first receipts that say the  *)
(* same but for their provenance, and at most one restore and one merge     *)
(* among them.                                                              *)
THEOREM LineagesHaveOneOrigin == Spec => []OneOrigin
BY OriginsAgree, Invariance, PTL
================================================================================
