-------------------------- MODULE ModelRevisionProofs --------------------------
(***************************************************************************)
(* Proofs about the evidence, calibration and revision planes together      *)
(* (v1.11 to v1.13), for any number of hypotheses and any scale, work,      *)
(* tests, sources, keepers and clocks.                                      *)
(*                                                                         *)
(* Arithmetic first: the largest remainders give out what the floors of a   *)
(* posterior leave over, neither more nor less, so that Bayes' rule leads   *)
(* from distributions to distributions.  Sums over a set of hypotheses are  *)
(* defined by recursion; what holds of them is proved from a minimal        *)
(* counterexample.                                                          *)
(*                                                                         *)
(* Then the planes: rows are added and never changed, except that a model   *)
(* gives way to one of a later generation and a distribution to what was    *)
(* learned of it (Grows).  A row that names another one therefore goes on   *)
(* saying the truth about it, and what completed work may still do rests on *)
(* a model that cannot come back once it is gone.                           *)
(***************************************************************************)
EXTENDS ModelRevision, FiniteSetTheorems, WellFoundedInduction, TLAPS

(* A set of natural numbers that is not empty has a least element, and one  *)
(* of subsets of a finite set a minimal one.                                *)
LEMMA NatMin ==
    ASSUME NEW T \in SUBSET Nat, T # {}
    PROVE  \E m \in T : \A k \in T : m <= k
<1> DEFINE R == OpToRel(<, Nat)
<1>1. IsWellFoundedOn(R, Nat)
  BY NatLessThanWellFounded
<1>2. PICK m \in T : \A k \in T : ~(<<k, m>> \in R)
  <2> HIDE DEF R
  <2> QED BY <1>1, WFMin, Zenon
<1>3. \A k \in T : ~(k < m)
  BY <1>2 DEF OpToRel
<1> QED BY <1>3

LEMMA SetMin ==
    ASSUME NEW S, IsFiniteSet(S), NEW T \in SUBSET SUBSET S, T # {}
    PROVE  \E m \in T : \A k \in T : k \subseteq m => k = m
<1> DEFINE R == StrictSubsetOrdering(S)
<1>1. IsWellFoundedOn(R, SUBSET S)
  BY FS_StrictSubsetOrderingWellFounded, FS_FiniteSubsetsOfFinite
<1>2. PICK m \in T : \A k \in T : ~(<<k, m>> \in R)
  <2> HIDE DEF R
  <2> QED BY <1>1, WFMin, Zenon
<1>3. ASSUME NEW k \in T, k \subseteq m PROVE k = m
  BY <1>2, <1>3 DEF StrictSubsetOrdering
<1> QED BY <1>3

-----------------------------------------------------------------------------
(* The sum of a function over a finite set, by taking one element out.      *)
Taken(s) == CHOOSE x \in s : TRUE

Summed(f, F, s) == IF s = {} THEN 0 ELSE f[Taken(s)] + F[s \ {Taken(s)}]

Sums(f, S) == CHOOSE F : F = [s \in SUBSET S |-> Summed(f, F, s)]

LEMMA SumIs ==
    ASSUME NEW f, NEW S
    PROVE  SumFunctionOnSet(f, S) = Sums(f, S)[S]
BY DEF SumFunctionOnSet, FoldFunctionOnSet, MapThenFoldSet, Sums, Summed, Taken

LEMMA SumsAt ==
    ASSUME NEW f, NEW S, IsFiniteSet(S)
    PROVE  \A s \in SUBSET S : Sums(f, S)[s] = Summed(f, Sums(f, S), s)
<1> DEFINE Small(n) == {s \in SUBSET S : Cardinality(s) <= n}
           Good(n) == \E F : F = [s \in Small(n) |-> Summed(f, F, s)]
           T == {n \in Nat : ~Good(n)}
<1>1. \A s \in SUBSET S : /\ IsFiniteSet(s) /\ Cardinality(s) \in Nat
                          /\ Cardinality(s) = 0 <=> s = {}
                          /\ Cardinality(s) <= Cardinality(S)
  BY FS_Subset, FS_CardinalityType, FS_EmptySet
<1>2. ASSUME NEW s \in SUBSET S, s # {}
      PROVE  s \ {Taken(s)} \in SUBSET S /\ Cardinality(s \ {Taken(s)}) = Cardinality(s) - 1
  BY <1>1, <1>2, FS_RemoveElement DEF Taken
<1>3. T = {}
  <2> SUFFICES ASSUME T # {} PROVE FALSE
    OBVIOUS
  <2>1. PICK m \in T : \A k \in T : m <= k
    <3>1. T \in SUBSET Nat
      OBVIOUS
    <3> HIDE DEF T
    <3> QED BY <3>1, NatMin
  <2>2. m \in Nat /\ ~Good(m)
    BY <2>1
  <2>3. m # 0
    <3> SUFFICES ASSUME m = 0 PROVE FALSE
      OBVIOUS
    <3>1. Small(0) = {{}}
      BY <1>1
    <3>2. PICK F : F = [s \in {{}} |-> 0]
      OBVIOUS
    <3>3. F = [s \in {{}} |-> Summed(f, F, s)]
      BY <3>2 DEF Summed
    <3> QED BY <2>2, <3>1, <3>3
  <2>4. Good(m - 1)
    <3>1. m - 1 \in Nat /\ m - 1 \notin T
      <4> HIDE DEF T
      <4> QED BY <2>1, <2>2, <2>3
    <3> HIDE DEF Good
    <3> QED BY <3>1
  <2>5. PICK F : F = [s \in Small(m - 1) |-> Summed(f, F, s)]
    BY <2>4
  <2> DEFINE G == [s \in Small(m) |-> IF Cardinality(s) = m THEN Summed(f, F, s) ELSE F[s]]
  <2>6. ASSUME NEW s \in Small(m) PROVE G[s] = Summed(f, G, s)
    <3>1. s \in SUBSET S /\ Cardinality(s) \in Nat /\ Cardinality(s) <= m
      BY <1>1
    <3>2. s # {} => G[s \ {Taken(s)}] = F[s \ {Taken(s)}]
      <4> SUFFICES ASSUME s # {} PROVE G[s \ {Taken(s)}] = F[s \ {Taken(s)}]
        OBVIOUS
      <4>1. PICK u : u = s \ {Taken(s)}
        OBVIOUS
      <4>2. u \in SUBSET S /\ Cardinality(u) = Cardinality(s) - 1
        BY <1>2, <3>1, <4>1
      <4>3. u \in Small(m) /\ Cardinality(u) # m
        BY <2>2, <3>1, <4>2
      <4> QED BY <4>1, <4>3
    <3>3. Summed(f, G, s) = Summed(f, F, s)
      <4> HIDE DEF G
      <4> QED BY <3>2 DEF Summed
    <3>4. G[s] = Summed(f, F, s)
      <4>1. CASE Cardinality(s) = m
        BY <4>1
      <4>2. CASE Cardinality(s) # m
        <5>1. s \in Small(m - 1) /\ G[s] = F[s]
          BY <2>2, <3>1, <4>2
        <5> HIDE DEF Small, G
        <5> QED BY <2>5, <5>1
      <4> QED BY <4>1, <4>2
    <3> QED BY <3>3, <3>4
  <2>7. G = [s \in Small(m) |-> Summed(f, G, s)]
    <3>1. G = [s \in Small(m) |-> G[s]]
      OBVIOUS
    <3> HIDE DEF G, Small
    <3> QED BY <2>6, <3>1
  <2>8. Good(m)
    <3> HIDE DEF G, Small
    <3> QED BY <2>7
  <2> QED BY <2>2, <2>8
<1>4. Good(Cardinality(S))
  <2>1. Cardinality(S) \in Nat
    BY FS_CardinalityType
  <2> HIDE DEF Good
  <2> QED BY <1>3, <2>1
<1>5. Small(Cardinality(S)) = SUBSET S
  BY <1>1
<1>6. PICK F : F = Sums(f, S)
  OBVIOUS
<1>7. F = [s \in SUBSET S |-> Summed(f, F, s)]
  BY <1>4, <1>5, <1>6 DEF Sums
<1>8. \A s \in SUBSET S : F[s] = Summed(f, F, s)
  BY <1>7
<1> QED BY <1>6, <1>8

(* What the sums over the subsets are does not depend on the set.           *)
LEMMA SumsAgree ==
    ASSUME NEW f, NEW S, IsFiniteSet(S), NEW R \in SUBSET S
    PROVE  Sums(f, S)[R] = SumFunctionOnSet(f, R)
<1> DEFINE T == {s \in SUBSET R : Sums(f, S)[s] # Sums(f, R)[s]}
<1>1. IsFiniteSet(R)
  BY FS_Subset
<1>2. /\ \A s \in SUBSET S : Sums(f, S)[s] = Summed(f, Sums(f, S), s)
      /\ \A s \in SUBSET R : Sums(f, R)[s] = Summed(f, Sums(f, R), s)
  BY <1>1, SumsAt
<1>3. T = {}
  <2> SUFFICES ASSUME T # {} PROVE FALSE
    OBVIOUS
  <2>1. PICK m \in T : \A k \in T : k \subseteq m => k = m
    <3>1. T \in SUBSET SUBSET R
      OBVIOUS
    <3> HIDE DEF T
    <3> QED BY <1>1, <3>1, SetMin
  <2>2. m \in SUBSET R /\ m \in SUBSET S /\ Sums(f, S)[m] # Sums(f, R)[m]
    BY <2>1
  <2>3. PICK u : u = m \ {Taken(m)}
    OBVIOUS
  <2>4. m # {} => Sums(f, S)[u] = Sums(f, R)[u]
    <3> SUFFICES ASSUME m # {} PROVE Sums(f, S)[u] = Sums(f, R)[u]
      OBVIOUS
    <3>1. u \in SUBSET R /\ u \subseteq m /\ u # m
      BY <2>2, <2>3 DEF Taken
    <3>2. u \notin T
      <4> HIDE DEF T
      <4> QED BY <2>1, <3>1
    <3> QED BY <3>1, <3>2
  <2>5. Summed(f, Sums(f, S), m) = Summed(f, Sums(f, R), m)
    BY <2>3, <2>4 DEF Summed
  <2> QED BY <1>2, <2>2, <2>5
<1> QED BY <1>3, SumIs

LEMMA SumStep ==
    ASSUME NEW f, NEW S, IsFiniteSet(S)
    PROVE  SumFunctionOnSet(f, S) =
             IF S = {} THEN 0 ELSE f[Taken(S)] + SumFunctionOnSet(f, S \ {Taken(S)})
<1>1. SumFunctionOnSet(f, S) = Summed(f, Sums(f, S), S)
  BY SumIs, SumsAt
<1>2. PICK u \in SUBSET S : u = S \ {Taken(S)}
  OBVIOUS
<1>3. Sums(f, S)[u] = SumFunctionOnSet(f, u)
  BY SumsAgree
<1> QED BY <1>1, <1>2, <1>3 DEF Summed

(* Any element may be taken out first.                                      *)
LEMMA SumTakes ==
    ASSUME NEW f, NEW S, IsFiniteSet(S), \A x \in S : f[x] \in Int
    PROVE  /\ SumFunctionOnSet(f, S) \in Int
           /\ \A x \in S : SumFunctionOnSet(f, S) = f[x] + SumFunctionOnSet(f, S \ {x})
<1> DEFINE Sum(s) == SumFunctionOnSet(f, s)
           Good(s) == Sum(s) \in Int /\ \A x \in s : Sum(s) = f[x] + Sum(s \ {x})
           T == {s \in SUBSET S : ~Good(s)}
<1>1. \A s \in SUBSET S : IsFiniteSet(s)
  BY FS_Subset
<1>2. \A s \in SUBSET S : Sum(s) = IF s = {} THEN 0 ELSE f[Taken(s)] + Sum(s \ {Taken(s)})
  BY <1>1, SumStep
<1>3. T = {}
  <2> SUFFICES ASSUME T # {} PROVE FALSE
    OBVIOUS
  <2>1. PICK m \in T : \A k \in T : k \subseteq m => k = m
    <3>1. T \in SUBSET SUBSET S
      OBVIOUS
    <3> HIDE DEF T
    <3> QED BY <3>1, SetMin
  <2>2. m \in SUBSET S /\ ~Good(m)
    BY <2>1
  <2> HIDE DEF Sum
  <2>3. m # {}
    <3> SUFFICES ASSUME m = {} PROVE FALSE
      OBVIOUS
    <3>1. Sum(m) = 0
      BY <1>2, <2>2
    <3> QED BY <2>2, <3>1
  <2>4. PICK c \in m : c = Taken(m)
    BY <2>3 DEF Taken
  <2>5. Sum(m) = f[c] + Sum(m \ {c})
    BY <1>2, <2>2, <2>3, <2>4
  <2>6. ASSUME NEW x \in m PROVE Good(m \ {x})
    <3>1. m \ {x} \in SUBSET S /\ m \ {x} \subseteq m /\ m \ {x} # m
      BY <2>2
    <3>2. m \ {x} \notin T
      <4> HIDE DEF T
      <4> QED BY <2>1, <3>1
    <3> QED BY <3>1, <3>2
  <2>7. Sum(m) \in Int
    BY <2>2, <2>4, <2>5, <2>6
  <2>8. ASSUME NEW x \in m, x # c PROVE Sum(m) = f[x] + Sum(m \ {x})
    <3>1. PICK u : u = (m \ {c}) \ {x} /\ u = (m \ {x}) \ {c}
      OBVIOUS
    <3>2. Good(m \ {c}) /\ Good(m \ {x})
      BY <2>4, <2>6
    <3>3. x \in m \ {c} /\ c \in m \ {x}
      BY <2>8
    <3>4. Sum(m \ {c}) = f[x] + Sum(u)
      BY <3>1, <3>2, <3>3
    <3>5. Sum(m \ {x}) = f[c] + Sum(u)
      BY <3>1, <3>2, <3>3
    <3>6. Good(u)
      <4>1. u \in SUBSET S /\ u \subseteq m /\ u # m
        BY <2>2, <3>1
      <4>2. u \notin T
        <5> HIDE DEF T
        <5> QED BY <2>1, <4>1
      <4> QED BY <4>1, <4>2
    <3>7. f[x] \in Int /\ f[c] \in Int /\ Sum(u) \in Int
      BY <2>2, <3>6
    <3> QED BY <2>5, <3>4, <3>5, <3>7
  <2>9. Good(m)
    BY <2>5, <2>7, <2>8
  <2> QED BY <2>2, <2>9
<1>4. Good(S)
  <2> HIDE DEF Good
  <2> QED BY <1>3
<1> QED BY <1>4

Numbers(f, S) == \A x \in S : f[x] \in Int

LEMMA SumWithout ==
    ASSUME NEW f, NEW S, IsFiniteSet(S), Numbers(f, S), NEW c \in S, NEW u, u = S \ {c}
    PROVE  /\ SumFunctionOnSet(f, S) = f[c] + SumFunctionOnSet(f, u)
           /\ SumFunctionOnSet(f, u) \in Int /\ f[c] \in Int
<1>1. \A x \in S : f[x] \in Int
  BY DEF Numbers
<1>2. SumFunctionOnSet(f, S) = f[c] + SumFunctionOnSet(f, S \ {c})
  BY <1>1, SumTakes
<1>3. IsFiniteSet(u) /\ \A x \in u : f[x] \in Int
  BY <1>1, FS_Subset
<1>4. SumFunctionOnSet(f, u) \in Int
  BY <1>3, SumTakes
<1> QED BY <1>1, <1>2, <1>4

(* Sums are linear.                                                         *)
Linear(h, a, f, g, S) == \A x \in S : f[x] \in Int /\ g[x] \in Int /\ h[x] = a * f[x] + g[x]

LEMMA SumIsLinear ==
    ASSUME NEW S, IsFiniteSet(S), NEW a \in Int, NEW f, NEW g, NEW h, Linear(h, a, f, g, S)
    PROVE  SumFunctionOnSet(h, S) = a * SumFunctionOnSet(f, S) + SumFunctionOnSet(g, S)
<1> DEFINE Good(s) == SumFunctionOnSet(h, s) = a * SumFunctionOnSet(f, s) + SumFunctionOnSet(g, s)
           T == {s \in SUBSET S : ~Good(s)}
<1>1. \A s \in SUBSET S : IsFiniteSet(s)
  BY FS_Subset
<1>2. T = {}
  <2> SUFFICES ASSUME T # {} PROVE FALSE
    OBVIOUS
  <2>1. PICK m \in T : \A k \in T : k \subseteq m => k = m
    <3>1. T \in SUBSET SUBSET S
      OBVIOUS
    <3> HIDE DEF T
    <3> QED BY <3>1, SetMin
  <2>2. m \in SUBSET S /\ ~Good(m) /\ IsFiniteSet(m)
    BY <1>1, <2>1
  <2>3. m # {}
    <3>1. /\ SumFunctionOnSet(h, {}) = 0 /\ SumFunctionOnSet(f, {}) = 0
          /\ SumFunctionOnSet(g, {}) = 0
      BY SumStep, FS_EmptySet
    <3>2. 0 = a * 0 + 0
      OBVIOUS
    <3> QED BY <2>2, <3>1, <3>2
  <2>4. PICK c \in m : TRUE
    BY <2>3
  <2>5. PICK u : u = m \ {c}
    OBVIOUS
  <2>6. Good(u) /\ u \in SUBSET S
    <3>1. u \in SUBSET S /\ u \subseteq m /\ u # m
      BY <2>2, <2>4, <2>5
    <3>2. u \notin T
      <4> HIDE DEF T
      <4> QED BY <2>1, <3>1
    <3> QED BY <3>1, <3>2
  <2>7. Numbers(h, m) /\ Numbers(f, m) /\ Numbers(g, m)
    BY <2>2 DEF Linear, Numbers
  <2>8. /\ SumFunctionOnSet(h, m) = h[c] + SumFunctionOnSet(h, u)
        /\ SumFunctionOnSet(f, m) = f[c] + SumFunctionOnSet(f, u)
        /\ SumFunctionOnSet(g, m) = g[c] + SumFunctionOnSet(g, u)
    BY <2>2, <2>5, <2>7, SumWithout
  <2>9. /\ SumFunctionOnSet(f, u) \in Int /\ SumFunctionOnSet(g, u) \in Int
        /\ f[c] \in Int /\ g[c] \in Int
    BY <2>2, <2>5, <2>7, SumWithout
  <2>10. h[c] = a * f[c] + g[c]
    BY <2>2 DEF Linear
  <2>11. PICK x \in Int, y \in Int, z \in Int, w \in Int :
            x = f[c] /\ y = SumFunctionOnSet(f, u) /\ z = g[c] /\ w = SumFunctionOnSet(g, u)
    BY <2>9
  <2>12. (a * x + z) + (a * y + w) = a * (x + y) + (z + w)
    OBVIOUS
  <2> QED BY <2>2, <2>6, <2>8, <2>10, <2>11, <2>12
<1>3. Good(S)
  <2> HIDE DEF Good
  <2> QED BY <1>2
<1> QED BY <1>3

(* A sum is bounded by bounds of its terms.                                 *)
LEMMA SumIsBounded ==
    ASSUME NEW S, IsFiniteSet(S), NEW b \in Nat, NEW f, \A x \in S : f[x] \in 0 .. b
    PROVE  SumFunctionOnSet(f, S) \in 0 .. b * Cardinality(S)
<1> DEFINE Good(s) == SumFunctionOnSet(f, s) \in 0 .. b * Cardinality(s)
           T == {s \in SUBSET S : ~Good(s)}
<1>1. \A s \in SUBSET S : IsFiniteSet(s)
  BY FS_Subset
<1>2. T = {}
  <2> SUFFICES ASSUME T # {} PROVE FALSE
    OBVIOUS
  <2>1. PICK m \in T : \A k \in T : k \subseteq m => k = m
    <3>1. T \in SUBSET SUBSET S
      OBVIOUS
    <3> HIDE DEF T
    <3> QED BY <3>1, SetMin
  <2>2. m \in SUBSET S /\ ~Good(m) /\ IsFiniteSet(m)
    BY <1>1, <2>1
  <2>3. m # {}
    <3>1. SumFunctionOnSet(f, {}) = 0 /\ Cardinality({}) = 0
      BY SumStep, FS_EmptySet
    <3>2. b * 0 = 0
      OBVIOUS
    <3> QED BY <2>2, <3>1, <3>2
  <2>4. PICK c \in m : TRUE
    BY <2>3
  <2>5. PICK u : u = m \ {c}
    OBVIOUS
  <2>6. Good(u) /\ u \in SUBSET S
    <3>1. u \in SUBSET S /\ u \subseteq m /\ u # m
      BY <2>2, <2>4, <2>5
    <3>2. u \notin T
      <4> HIDE DEF T
      <4> QED BY <2>1, <3>1
    <3> QED BY <3>1, <3>2
  <2>7. SumFunctionOnSet(f, m) = f[c] + SumFunctionOnSet(f, u)
    BY <2>2, <2>5, SumTakes
  <2>8. PICK n \in Nat : n = Cardinality(u) /\ Cardinality(m) = n + 1
    <3>1. IsFiniteSet(u) /\ Cardinality(u) = Cardinality(m) - 1 /\ Cardinality(u) \in Nat
      BY <2>2, <2>4, <2>5, FS_RemoveElement, FS_CardinalityType
    <3>2. Cardinality(m) \in Nat
      BY <2>2, FS_CardinalityType
    <3> QED BY <3>1, <3>2
  <2>9. b * (n + 1) = b * n + b /\ b * n \in Nat
    OBVIOUS
  <2>10. f[c] \in 0 .. b
    BY <2>2
  <2>11. PICK x, y : x = SumFunctionOnSet(f, u) /\ y = b * n
    OBVIOUS
  <2>12. x \in 0 .. y /\ y \in Nat /\ ~(f[c] + x \in 0 .. y + b)
    BY <2>2, <2>6, <2>7, <2>8, <2>9, <2>11
  <2> QED BY <2>10, <2>12
<1>3. Good(S)
  <2> HIDE DEF Good
  <2> QED BY <1>2
<1> QED BY <1>3

(* The sum of a mark is the number of the marked.                           *)
LEMMA SumCounts ==
    ASSUME NEW S, IsFiniteSet(S), NEW U, NEW f, \A x \in S : f[x] = IF x \in U THEN 1 ELSE 0
    PROVE  SumFunctionOnSet(f, S) = Cardinality(S \cap U)
<1> DEFINE Good(s) == SumFunctionOnSet(f, s) = Cardinality(s \cap U)
           T == {s \in SUBSET S : ~Good(s)}
<1>1. \A s \in SUBSET S : IsFiniteSet(s)
  BY FS_Subset
<1>2. T = {}
  <2> SUFFICES ASSUME T # {} PROVE FALSE
    OBVIOUS
  <2>1. PICK m \in T : \A k \in T : k \subseteq m => k = m
    <3>1. T \in SUBSET SUBSET S
      OBVIOUS
    <3> HIDE DEF T
    <3> QED BY <3>1, SetMin
  <2>2. m \in SUBSET S /\ ~Good(m) /\ IsFiniteSet(m)
    BY <1>1, <2>1
  <2>3. m # {}
    <3>1. SumFunctionOnSet(f, {}) = 0 /\ Cardinality({}) = 0
      BY SumStep, FS_EmptySet
    <3> QED BY <2>2, <3>1
  <2>4. PICK c \in m : TRUE
    BY <2>3
  <2>5. PICK u : u = m \ {c}
    OBVIOUS
  <2>6. Good(u) /\ u \in SUBSET S
    <3>1. u \in SUBSET S /\ u \subseteq m /\ u # m
      BY <2>2, <2>4, <2>5
    <3>2. u \notin T
      <4> HIDE DEF T
      <4> QED BY <2>1, <3>1
    <3> QED BY <3>1, <3>2
  <2>7. SumFunctionOnSet(f, m) = f[c] + SumFunctionOnSet(f, u)
    BY <2>2, <2>5, SumTakes
  <2>8. IsFiniteSet(m \cap U) /\ Cardinality(m \cap U) \in Nat
    BY <2>2, FS_Intersection, FS_CardinalityType
  <2>9. CASE c \in U
    <3>1. u \cap U = (m \cap U) \ {c} /\ c \in m \cap U
      BY <2>4, <2>5, <2>9
    <3>2. Cardinality((m \cap U) \ {c}) = Cardinality(m \cap U) - 1
      BY <2>8, <3>1, FS_RemoveElement
    <3>4. Cardinality(u \cap U) = Cardinality((m \cap U) \ {c})
      BY <3>1, Zenon
    <3>3. f[c] = 1
      BY <2>2, <2>9
    <3> QED BY <2>2, <2>6, <2>7, <2>8, <3>2, <3>3, <3>4
  <2>10. CASE c \notin U
    <3>1. u \cap U = m \cap U
      BY <2>4, <2>5, <2>10
    <3>2. Cardinality(u \cap U) = Cardinality(m \cap U)
      BY <3>1, Zenon
    <3>3. f[c] = 0
      BY <2>2, <2>10
    <3> QED BY <2>2, <2>6, <2>7, <2>8, <3>2, <3>3
  <2> QED BY <2>9, <2>10
<1>3. Good(S)
  <2> HIDE DEF Good
  <2> QED BY <1>2
<1> QED BY <1>3

(* A sum of natural numbers is one, and no term exceeds it.                 *)
LEMMA SumOfNaturals ==
    ASSUME NEW S, IsFiniteSet(S), NEW f, \A x \in S : f[x] \in Nat
    PROVE  SumFunctionOnSet(f, S) \in Nat /\ \A x \in S : f[x] <= SumFunctionOnSet(f, S)
<1> DEFINE Good(s) == SumFunctionOnSet(f, s) \in Nat
           T == {s \in SUBSET S : ~Good(s)}
<1>1. \A s \in SUBSET S : IsFiniteSet(s)
  BY FS_Subset
<1>2. T = {}
  <2> SUFFICES ASSUME T # {} PROVE FALSE
    OBVIOUS
  <2>1. PICK m \in T : \A k \in T : k \subseteq m => k = m
    <3>1. T \in SUBSET SUBSET S
      OBVIOUS
    <3> HIDE DEF T
    <3> QED BY <3>1, SetMin
  <2>2. m \in SUBSET S /\ ~Good(m) /\ IsFiniteSet(m)
    BY <1>1, <2>1
  <2>3. m # {}
    <3>1. SumFunctionOnSet(f, {}) = 0
      BY SumStep, FS_EmptySet
    <3> QED BY <2>2, <3>1
  <2>4. PICK c \in m : TRUE
    BY <2>3
  <2>5. PICK u : u = m \ {c}
    OBVIOUS
  <2>6. Good(u)
    <3>1. u \in SUBSET S /\ u \subseteq m /\ u # m
      BY <2>2, <2>4, <2>5
    <3>2. u \notin T
      <4> HIDE DEF T
      <4> QED BY <2>1, <3>1
    <3> QED BY <3>1, <3>2
  <2>7. SumFunctionOnSet(f, m) = f[c] + SumFunctionOnSet(f, u)
    BY <2>2, <2>5, SumTakes
  <2>8. f[c] \in Nat
    BY <2>2
  <2> QED BY <2>2, <2>6, <2>7, <2>8
<1>3. \A s \in SUBSET S : Good(s)
  BY <1>2
<1>4. ASSUME NEW x \in S PROVE f[x] <= SumFunctionOnSet(f, S)
  <2>1. PICK u \in SUBSET S : u = S \ {x}
    OBVIOUS
  <2>2. SumFunctionOnSet(f, S) = f[x] + SumFunctionOnSet(f, u)
    BY <2>1, SumTakes
  <2>3. SumFunctionOnSet(f, u) \in Nat /\ f[x] \in Nat
    BY <1>3
  <2> QED BY <2>2, <2>3
<1> QED BY <1>3, <1>4

-----------------------------------------------------------------------------
(* Of the elements of a finite set in strict order, as many have fewer than *)
(* k before them as k says.                                                 *)
LEMMA RanksCount ==
    ASSUME NEW S, IsFiniteSet(S), NEW before \in [S -> SUBSET S],
           \A x \in S : x \notin before[x],
           \A x, y \in S : x \in before[y] => before[x] \subseteq before[y],
           \A x, y \in S : x # y => x \in before[y] \/ y \in before[x],
           NEW n \in 0 .. Cardinality(S)
    PROVE  Cardinality({x \in S : Cardinality(before[x]) < n}) = n
<1> DEFINE rank(x) == Cardinality(before[x])
           Low(k) == {x \in S : rank(x) < k}
           T == {k \in 0 .. Cardinality(S) : Cardinality(Low(k)) # k}
<1>1. Cardinality(S) \in Nat
  BY FS_CardinalityType
<1>2. \A x \in S : before[x] \in SUBSET S /\ IsFiniteSet(before[x]) /\ rank(x) \in Nat
  BY FS_Subset, FS_CardinalityType
<1>3. ASSUME NEW x \in S, NEW y \in S, x \in before[y] PROVE rank(x) < rank(y)
  <2>1. before[x] \subseteq before[y] /\ before[x] # before[y]
    BY <1>3
  <2>2. before[x] \in SUBSET before[y] /\ IsFiniteSet(before[y])
    BY <1>2, <2>1
  <2>3. rank(x) <= rank(y) /\ rank(x) # rank(y)
    BY <2>1, <2>2, FS_Subset
  <2> QED BY <1>2, <2>3
<1>4. ASSUME NEW x \in S, NEW y \in S, rank(x) = rank(y) PROVE x = y
  BY <1>2, <1>3, <1>4
<1>5. T = {}
  <2> SUFFICES ASSUME T # {} PROVE FALSE
    OBVIOUS
  <2>1. PICK m \in T : \A k \in T : m <= k
    <3>1. T \in SUBSET Nat
      BY <1>1
    <3> HIDE DEF T
    <3> QED BY <3>1, NatMin
  <2>2. m \in 0 .. Cardinality(S) /\ Cardinality(Low(m)) # m
    BY <2>1
  <2>3. m # 0
    <3> SUFFICES ASSUME m = 0 PROVE FALSE
      OBVIOUS
    <3>1. Low(m) = {}
      BY <1>2
    <3>2. Cardinality(Low(m)) = 0
      BY <3>1, FS_EmptySet, Zenon
    <3> QED BY <2>2, <3>2
  <2>4. PICK k \in 0 .. Cardinality(S) : m = k + 1
    BY <1>1, <2>2, <2>3
  <2>5. Cardinality(Low(k)) = k
    <3>1. k \notin T
      <4> HIDE DEF T
      <4> QED BY <1>1, <2>1, <2>4
    <3> QED BY <3>1
  <2>6. Low(k) \in SUBSET S /\ IsFiniteSet(Low(k))
    BY FS_Subset
  <2>7. S \ Low(k) # {}
    <3> SUFFICES ASSUME S \ Low(k) = {} PROVE FALSE
      OBVIOUS
    <3>1. S = Low(k)
      OBVIOUS
    <3>2. Cardinality(S) = Cardinality(Low(k))
      BY <3>1, Zenon
    <3> QED BY <1>1, <2>2, <2>4, <2>5, <3>2
  <2>8. PICK x \in S \ Low(k) : \A y \in S \ Low(k) : rank(x) <= rank(y)
    <3> DEFINE R == {rank(y) : y \in S \ Low(k)}
    <3>1. R \in SUBSET Nat /\ R # {}
      BY <1>2, <2>7
    <3>2. PICK r \in R : \A q \in R : r <= q
      <4> HIDE DEF R
      <4> QED BY <3>1, NatMin
    <3> QED BY <3>2
  <2>9. x \in S /\ rank(x) >= k
    BY <1>2, <2>4
  <2>10. before[x] = Low(k)
    <3>1. ASSUME NEW y \in before[x] PROVE y \in Low(k)
      <4>1. y \in S /\ rank(y) < rank(x)
        BY <1>2, <1>3, <2>9, <3>1
      <4> QED BY <1>2, <2>8, <2>9, <4>1
    <3>2. ASSUME NEW y \in Low(k) PROVE y \in before[x]
      <4>1. y \in S /\ rank(y) < k /\ y # x
        BY <2>9
      <4>2. ~(x \in before[y])
        BY <1>2, <1>3, <2>4, <2>9, <4>1
      <4> QED BY <2>9, <4>1, <4>2
    <3> QED BY <3>1, <3>2
  <2>11. rank(x) = k
    BY <2>5, <2>10, Zenon
  <2>12. Low(m) = Low(k) \cup {x} /\ x \notin Low(k)
    <3>1. ASSUME NEW y \in S PROVE y \in Low(m) <=> y \in Low(k) \/ y = x
      <4>1. rank(y) < m <=> rank(y) < k \/ rank(y) = k
        BY <1>2, <2>4
      <4>2. rank(y) = k <=> y = x
        BY <1>4, <2>9, <2>11
      <4> QED BY <4>1, <4>2
    <3>2. x \in S /\ x \notin Low(k)
      OBVIOUS
    <3> HIDE DEF rank
    <3> QED BY <3>1, <3>2
  <2>13. Cardinality(Low(k) \cup {x}) = k + 1
    BY <2>5, <2>6, <2>12, FS_AddElement
  <2>14. Cardinality(Low(m)) = Cardinality(Low(k) \cup {x})
    BY <2>12, Zenon
  <2> QED BY <2>2, <2>4, <2>13, <2>14
<1> QED
  <2>1. n \notin T
    BY <1>5
  <2> QED BY <2>1

-----------------------------------------------------------------------------
LEMMA Division ==
    ASSUME NEW a \in Nat, NEW q \in Nat \ {0}
    PROVE  a \div q \in Nat /\ a % q \in 0 .. q - 1 /\ a = q * (a \div q) + (a % q)
<1>1. a \div q \in Nat
  OBVIOUS
<1>2. a % q \in 0 .. q - 1
  OBVIOUS
<1>3. a = q * (a \div q) + (a % q)
  OBVIOUS
<1> QED BY <1>1, <1>2, <1>3

LEMMA TotalIs == ASSUME NEW f PROVE Total(f) = SumFunctionOnSet(f, DOMAIN f)
BY DEF Total, SumFunction

(* The order in which the units left over are given out.                    *)
LEMMA AheadIsOrder ==
    ASSUME NEW w, \A h \in Hypotheses : Remainder(w, h) \in Nat
    PROVE  /\ \A x \in Hypotheses : Ahead(w, x) \in SUBSET Hypotheses /\ x \notin Ahead(w, x)
           /\ \A x, y \in Hypotheses : x \in Ahead(w, y) => Ahead(w, x) \subseteq Ahead(w, y)
           /\ \A x, y \in Hypotheses : x # y => x \in Ahead(w, y) \/ y \in Ahead(w, x)
<1>1. Hypotheses \subseteq Nat
  BY DistributionAssumption
<1>2. PICK rest : rest = [h \in Hypotheses |-> Remainder(w, h)]
  OBVIOUS
<1>3. \A h \in Hypotheses : rest[h] = Remainder(w, h) /\ rest[h] \in Nat /\ h \in Nat
  BY <1>1, <1>2
<1>4. ASSUME NEW x \in Hypotheses, NEW y \in Hypotheses
      PROVE  x \in Ahead(w, y) <=> rest[x] > rest[y] \/ (rest[x] = rest[y] /\ x < y)
  BY <1>3 DEF Ahead
<1>5. \A y : Ahead(w, y) \subseteq Hypotheses
  BY DEF Ahead
<1>6. \A x \in Hypotheses : Ahead(w, x) \in SUBSET Hypotheses /\ x \notin Ahead(w, x)
  BY <1>3, <1>4, <1>5
<1>7. ASSUME NEW x \in Hypotheses, NEW y \in Hypotheses, x \in Ahead(w, y), NEW z \in Ahead(w, x)
      PROVE  z \in Ahead(w, y)
  <2>1. z \in Hypotheses
    BY <1>5
  <2>2. rest[x] \in Nat /\ rest[y] \in Nat /\ rest[z] \in Nat /\ x \in Nat /\ y \in Nat /\ z \in Nat
    BY <1>3, <2>1
  <2> QED BY <1>4, <1>7, <2>1, <2>2
<1>8. \A x, y \in Hypotheses : x # y => x \in Ahead(w, y) \/ y \in Ahead(w, x)
  BY <1>3, <1>4
<1> QED BY <1>6, <1>7, <1>8

(* What the floors leave over is less than a unit for each hypothesis.      *)
LEMMA LeftOverIs ==
    ASSUME NEW w \in [Hypotheses -> Nat], Total(w) > 0
    PROVE  /\ \A h \in Hypotheses : Floor(w, h) \in Nat /\ Remainder(w, h) \in Nat
           /\ LeftOver(w) \in 0 .. Cardinality(Hypotheses)
           /\ Total([h \in Hypotheses |-> Floor(w, h)]) \in Nat
<1>1. Scale \in Nat \ {0} /\ IsFiniteSet(Hypotheses) /\ Cardinality(Hypotheses) \in Nat
  BY DistributionAssumption, FS_CardinalityType
<1>2. PICK t \in Nat \ {0} : t = Total(w) /\ t = SumFunctionOnSet(w, Hypotheses)
  <2>1. Total(w) = SumFunctionOnSet(w, Hypotheses)
    BY TotalIs
  <2>2. SumFunctionOnSet(w, Hypotheses) \in Nat
    BY <1>1, SumOfNaturals
  <2> QED BY <2>1, <2>2
<1>3. PICK v, floor, rest, zero :
         /\ v = [h \in Hypotheses |-> w[h] * Scale]
         /\ floor = [h \in Hypotheses |-> Floor(w, h)]
         /\ rest = [h \in Hypotheses |-> Remainder(w, h)]
         /\ zero = [h \in Hypotheses |-> 0]
  OBVIOUS
<1>4. ASSUME NEW h \in Hypotheses
      PROVE  /\ v[h] \in Nat /\ w[h] \in Nat /\ zero[h] = 0 /\ v[h] = Scale * w[h] + zero[h]
             /\ floor[h] = Floor(w, h) /\ rest[h] = Remainder(w, h)
             /\ floor[h] \in Nat /\ rest[h] \in 0 .. t - 1 /\ v[h] = t * floor[h] + rest[h]
  <2>1. v[h] = w[h] * Scale /\ w[h] \in Nat /\ zero[h] = 0
    BY <1>3
  <2>2. v[h] \in Nat /\ v[h] = Scale * w[h] + 0
    BY <1>1, <2>1
  <2>3. floor[h] = v[h] \div t /\ rest[h] = v[h] % t
    BY <1>2, <1>3, <2>1 DEF Floor, Remainder
  <2>4. floor[h] = Floor(w, h) /\ rest[h] = Remainder(w, h)
    BY <1>3
  <2>5. PICK x \in Nat : x = v[h]
    BY <2>2
  <2>6. x \div t \in Nat /\ x % t \in 0 .. t - 1 /\ x = t * (x \div t) + (x % t)
    BY Division
  <2>7. floor[h] \in Nat /\ rest[h] \in 0 .. t - 1 /\ v[h] = t * floor[h] + rest[h]
    BY <2>3, <2>5, <2>6
  <2> QED BY <2>1, <2>2, <2>4, <2>7
<1>5. PICK F \in Nat : F = SumFunctionOnSet(floor, Hypotheses)
  BY <1>1, <1>4, SumOfNaturals
<1>6. PICK n \in Nat : n = Cardinality(Hypotheses) /\ n >= 2
  BY DistributionAssumption, <1>1
<1>7. PICK R \in 0 .. (t - 1) * n : R = SumFunctionOnSet(rest, Hypotheses)
  <2>1. t - 1 \in Nat /\ \A h \in Hypotheses : rest[h] \in 0 .. t - 1
    BY <1>4
  <2> QED BY <1>1, <1>6, <2>1, SumIsBounded
<1>8. Scale * t = t * F + R
  <2>1. SumFunctionOnSet(v, Hypotheses) = t * F + R
    <3>1. Linear(v, t, floor, rest, Hypotheses)
      BY <1>4 DEF Linear
    <3> QED BY <1>1, <1>5, <1>7, <3>1, SumIsLinear
  <2>2. SumFunctionOnSet(zero, Hypotheses) = 0
    <3>1. \A h \in Hypotheses : zero[h] = IF h \in {} THEN 1 ELSE 0
      BY <1>4
    <3>2. SumFunctionOnSet(zero, Hypotheses) = Cardinality(Hypotheses \cap {})
      BY <1>1, <3>1, SumCounts
    <3>3. Hypotheses \cap {} = {}
      OBVIOUS
    <3>4. Cardinality(Hypotheses \cap {}) = 0
      BY <3>3, FS_EmptySet, Zenon
    <3> QED BY <3>2, <3>4
  <2>3. SumFunctionOnSet(v, Hypotheses) = Scale * t + 0
    <3>1. Linear(v, Scale, w, zero, Hypotheses)
      BY <1>4 DEF Linear
    <3>2. SumFunctionOnSet(v, Hypotheses) =
            Scale * SumFunctionOnSet(w, Hypotheses) + SumFunctionOnSet(zero, Hypotheses)
      BY <1>1, <3>1, SumIsLinear
    <3> QED BY <1>2, <2>2, <3>2
  <2>4. Scale * t \in Nat
    BY <1>1
  <2> QED BY <2>1, <2>3, <2>4
<1>9. PICK left \in Int : left = Scale - F
  BY <1>1
<1>10. t * left = R
  <2>1. t * (Scale - F) = Scale * t - t * F /\ t * F \in Nat /\ Scale * t \in Nat
    BY <1>1
  <2> QED BY <1>8, <1>9, <2>1
<1>11. left >= 0
  <2> SUFFICES ASSUME left < 0 PROVE FALSE
    OBVIOUS
  <2>1. PICK j \in Nat \ {0} : left = -j
    OBVIOUS
  <2>2. t * (-j) = -(t * j) /\ t * j > 0
    OBVIOUS
  <2> QED BY <1>10, <2>1, <2>2
<1>12. left <= n
  <2> SUFFICES ASSUME left > n PROVE FALSE
    OBVIOUS
  <2>1. PICK j \in Nat : left = n + j
    OBVIOUS
  <2>2. t * (n + j) = t * n + t * j /\ t * j \in Nat /\ t * n \in Nat /\ (t - 1) * n = t * n - n
    OBVIOUS
  <2> QED BY <1>6, <1>10, <2>1, <2>2
<1>13. Total(floor) = F
  <2>1. DOMAIN floor = Hypotheses
    BY <1>3
  <2> QED BY <1>5, <2>1, TotalIs
<1>14. LeftOver(w) = left
  BY <1>3, <1>9, <1>13 DEF LeftOver
<1> QED BY <1>3, <1>4, <1>6, <1>11, <1>12, <1>13, <1>14

(* Normalized hands out all of Scale: no unit is lost and none is made.     *)
LEMMA NormalizedIsDistribution ==
    ASSUME NEW w \in [Hypotheses -> Nat], Total(w) > 0
    PROVE  Normalized(w) \in Distributions
<1>1. Scale \in Nat \ {0} /\ IsFiniteSet(Hypotheses) /\ Cardinality(Hypotheses) \in Nat
  BY DistributionAssumption, FS_CardinalityType
<1>2. /\ \A h \in Hypotheses : Floor(w, h) \in Nat /\ Remainder(w, h) \in Nat
      /\ LeftOver(w) \in 0 .. Cardinality(Hypotheses)
      /\ Total([h \in Hypotheses |-> Floor(w, h)]) \in Nat
  BY LeftOverIs
<1>3. PICK before : before = [h \in Hypotheses |-> Ahead(w, h)]
  OBVIOUS
<1>4. PICK left \in 0 .. Cardinality(Hypotheses) : left = LeftOver(w)
  BY <1>2
<1>5. PICK U : U = {h \in Hypotheses : Cardinality(before[h]) < left}
  OBVIOUS
<1>6. Cardinality(U) = left
  <2>1. before \in [Hypotheses -> SUBSET Hypotheses]
    BY <1>2, <1>3, AheadIsOrder
  <2>2. \A x \in Hypotheses : x \notin before[x]
    BY <1>2, <1>3, AheadIsOrder
  <2>3. \A x, y \in Hypotheses : x \in before[y] => before[x] \subseteq before[y]
    BY <1>2, <1>3, AheadIsOrder
  <2>4. \A x, y \in Hypotheses : x # y => x \in before[y] \/ y \in before[x]
    BY <1>2, <1>3, AheadIsOrder
  <2>5. Cardinality({h \in Hypotheses : Cardinality(before[h]) < left}) = left
    BY <1>1, <2>1, <2>2, <2>3, <2>4, RanksCount
  <2>6. Cardinality(U) = Cardinality({h \in Hypotheses : Cardinality(before[h]) < left})
    BY <1>5, Zenon
  <2> QED BY <2>5, <2>6
<1>7. PICK floor, mark : /\ floor = [h \in Hypotheses |-> Floor(w, h)]
                         /\ mark = [h \in Hypotheses |-> IF h \in U THEN 1 ELSE 0]
  OBVIOUS
<1>8. PICK p : p = Normalized(w)
  OBVIOUS
<1>9. ASSUME NEW h \in Hypotheses
      PROVE  /\ floor[h] \in Nat /\ mark[h] = (IF h \in U THEN 1 ELSE 0)
             /\ p[h] = floor[h] + mark[h] /\ p[h] \in Nat
  <2>1. before[h] = Ahead(w, h) /\ floor[h] = Floor(w, h) /\ mark[h] = IF h \in U THEN 1 ELSE 0
    BY <1>3, <1>7
  <2>2. Cardinality(before[h]) = Cardinality(Ahead(w, h))
    BY <2>1, Zenon
  <2>3. p[h] = Floor(w, h) + IF Cardinality(before[h]) < left THEN 1 ELSE 0
    BY <1>4, <1>8, <2>2 DEF Normalized
  <2>4. h \in U <=> Cardinality(before[h]) < left
    BY <1>5
  <2> QED BY <1>2, <2>1, <2>3, <2>4
<1>10. SumFunctionOnSet(mark, Hypotheses) = left
  <2>1. SumFunctionOnSet(mark, Hypotheses) = Cardinality(Hypotheses \cap U)
    BY <1>1, <1>9, SumCounts
  <2>2. Hypotheses \cap U = U
    BY <1>5
  <2>3. Cardinality(Hypotheses \cap U) = Cardinality(U)
    BY <2>2, Zenon
  <2> QED BY <1>6, <2>1, <2>3
<1>11. DOMAIN p = Hypotheses /\ DOMAIN floor = Hypotheses /\ p = [h \in Hypotheses |-> p[h]]
  BY <1>7, <1>8 DEF Normalized
<1>12. Total(floor) = SumFunctionOnSet(floor, Hypotheses) /\ Total(p) = SumFunctionOnSet(p, Hypotheses)
  BY <1>11, TotalIs
<1>13. PICK F \in Nat : F = Total(floor) /\ left = Scale - F
  BY <1>2, <1>4, <1>7 DEF LeftOver
<1>14. SumFunctionOnSet(p, Hypotheses) = 1 * F + left
  <2>1. Linear(p, 1, floor, mark, Hypotheses)
    BY <1>9 DEF Linear
  <2>2. SumFunctionOnSet(p, Hypotheses) =
          1 * SumFunctionOnSet(floor, Hypotheses) + SumFunctionOnSet(mark, Hypotheses)
    BY <1>1, <2>1, SumIsLinear
  <2> QED BY <1>10, <1>12, <1>13, <2>2
<1>15. Total(p) = Scale
  BY <1>1, <1>12, <1>13, <1>14
<1>16. \A h \in Hypotheses : p[h] \in 0 .. Scale
  <2>1. \A h \in Hypotheses : p[h] \in Nat /\ p[h] <= SumFunctionOnSet(p, Hypotheses)
    BY <1>1, <1>9, SumOfNaturals
  <2> QED BY <1>1, <1>12, <1>15, <2>1
<1>17. p \in [Hypotheses -> 0 .. Scale]
  BY <1>11, <1>16
<1> QED BY <1>8, <1>15, <1>17 DEF Distributions

(* Bayes' rule leads from distributions to distributions: whatever a test   *)
(* says that it could say, belief is moved and neither lost nor created.    *)
THEOREM PosteriorIsDistribution ==
    ASSUME NEW prior \in Distributions, NEW likelihood \in Likelihoods, NEW outcome \in Outcomes,
           Possible(prior, likelihood, outcome)
    PROVE  Posterior(prior, likelihood, outcome) \in Distributions
<1>1. CASE outcome = "INCONCLUSIVE"
  BY <1>1 DEF Posterior
<1>2. CASE outcome # "INCONCLUSIVE"
  <2>1. PICK w : w = Weights(prior, likelihood, outcome)
    OBVIOUS
  <2>2. Total(w) > 0 /\ Posterior(prior, likelihood, outcome) = Normalized(w)
    BY <1>2, <2>1 DEF Possible, Posterior
  <2>3. ASSUME NEW h \in Hypotheses
        PROVE  prior[h] * (IF outcome = "POSITIVE" THEN likelihood[h] ELSE Scale - likelihood[h]) \in Nat
    <3>1. PICK x \in Nat, y \in Nat :
             x = prior[h] /\ y = IF outcome = "POSITIVE" THEN likelihood[h] ELSE Scale - likelihood[h]
      BY DistributionAssumption DEF Distributions, Likelihoods
    <3>2. x * y \in Nat
      OBVIOUS
    <3> QED BY <3>1, <3>2
  <2>4. w \in [Hypotheses -> Nat]
    BY <2>1, <2>3 DEF Weights
  <2> QED BY <2>2, <2>4, NormalizedIsDistribution
<1> QED BY <1>1, <1>2

-----------------------------------------------------------------------------
(* The inductive invariant.                                                 *)
References == {p.ref : p \in Priors}

Offered == {t.likelihood : t \in Tests} \cup Proposed

IsBelief(d) ==
    /\ d = [ref |-> d.ref, subject |-> d.subject, probability |-> d.probability,
            generation |-> d.generation]
    /\ d.ref \in References /\ d.probability \in Distributions /\ d.generation \in Nat

IsModel(m) ==
    /\ m = [work |-> m.work, distribution |-> m.distribution, ref |-> m.ref,
            likelihood |-> m.likelihood, conditioning |-> m.conditioning,
            generation |-> m.generation]
    /\ m.likelihood \in Offered /\ m.generation \in Nat

DebtOK == \A w \in DOMAIN debt : debt[w] # Owed => debt[w] \in Verdicts

BeliefsOK ==
    \A r \in DOMAIN distributions : IsBelief(distributions[r]) /\ distributions[r].ref = r

ModelsOK ==
    /\ DOMAIN models \subseteq DOMAIN debt
    /\ \A w \in DOMAIN models :
         /\ IsModel(models[w]) /\ models[w].work = w
         /\ models[w].conditioning \subseteq DOMAIN accepted

DependenciesOK ==
    /\ DOMAIN dependencies \subseteq DOMAIN debt
    /\ \A w \in DOMAIN dependencies :
         /\ dependencies[w].source \in Sources
         /\ dependencies[w].parents \subseteq DOMAIN accepted
         /\ WellDeclared(dependencies[w].mode, dependencies[w].parents)

(* A rule is not about a model its work has not had yet.                    *)
RulesOK ==
    /\ DOMAIN rules \subseteq DOMAIN models
    /\ \A w \in DOMAIN rules :
         /\ rules[w].of \in Meanings
         /\ rules[w].model.generation \in Nat
         /\ rules[w].model.generation <= models[w].generation

HistoryOK ==
    /\ \A w \in DOMAIN accepted \cup DOMAIN duplicates :
         w \in DOMAIN rules /\ w \in DOMAIN dependencies /\ Done(w)
    /\ DOMAIN accepted \cap DOMAIN duplicates = {}

TargetsOK ==
    /\ \A w \in DOMAIN targets : targets[w].model.work = w /\ TargetOf(w) \in DOMAIN distributions
    /\ \A s \in pairs : {s.left, s.right} \subseteq DOMAIN targets \cap DOMAIN accepted

ScoresOK ==
    /\ IsFiniteSet(DOMAIN scores)
    /\ DOMAIN scores \subseteq DOMAIN targets \cap DOMAIN accepted
    /\ ScoresWhatWasUsed

ProposalsOK ==
    /\ \A p \in DOMAIN proposals :
         proposals[p].base.work \in DOMAIN models /\ proposals[p].likelihood \in Proposed
    /\ \A p \in DOMAIN replays :
         /\ p \in DOMAIN proposals
         /\ replays[p].cases \subseteq DOMAIN scores /\ replays[p].minCases \in MinCases
    /\ \A p \in DOMAIN reviews : p \in DOMAIN replays /\ reviews[p].reviewer # proposals[p].proposer

LineOK ==
    /\ \A p \in DOMAIN revisions :
         /\ p \in DOMAIN reviews
         /\ revisions[p].base.work \in DOMAIN models
         /\ revisions[p].base.generation \in Nat /\ revisions[p].new.generation \in Nat
    /\ RevisionsInLine

IInv ==
    /\ DebtOK /\ BeliefsOK /\ ModelsOK /\ ModelsFollow /\ DependenciesOK /\ RulesOK /\ HistoryOK
    /\ TargetsOK /\ ScoresOK /\ ProposalsOK /\ LineOK /\ RevisedOnReviewedHistory

-----------------------------------------------------------------------------
(* Who writes which table.                                                  *)
LEMMA Writers ==
    ASSUME [RevisionNext]_revisionVars
    PROVE  /\ debt' = debt \/ Debt!DebtNext
           /\ \/ distributions' = distributions
              \/ \E prior \in Priors : RegisterDistribution(prior)
              \/ \E w \in Works, now \in Times : ApplyUpdate(w, now)
           /\ \/ models' = models
              \/ \E w \in Works, ref \in DOMAIN distributions, test \in Tests,
                    conditioning \in SUBSET DOMAIN accepted, generation \in Generations :
                    RegisterModel(w, ref, test, conditioning, generation)
              \/ \E w \in Works, now \in Times : ApplyUpdate(w, now)
              \/ \E p \in Proposals, now \in Times : ApplyRevision(p, now)
           /\ \/ dependencies' = dependencies
              \/ \E w \in Works, now \in Times, source \in Sources,
                    mode \in {"INDEPENDENT", "CONDITIONAL", "DUPLICATE"},
                    parents \in SUBSET DOMAIN accepted, generation \in Generations :
                    RegisterDependency(w, source, mode, parents, generation, now)
           /\ \/ rules' = rules
              \/ \E w \in Works, now \in Times, of \in Meanings, generation \in Generations :
                    RegisterRule(w, of, generation, now)
           /\ accepted' = accepted \/ \E w \in Works, now \in Times : ApplyUpdate(w, now)
           /\ duplicates' = duplicates \/ \E w \in Works, now \in Times : RecordDuplicate(w, now)
           /\ \/ targets' = targets
              \/ \E w \in Works, now \in Times, family \in Families : RegisterTarget(w, family, now)
           /\ \/ resolutions' = resolutions
              \/ \E w \in Works, now \in Times, truth \in Hypotheses : RegisterResolution(w, truth, now)
           /\ scores' = scores \/ \E w \in Works, now \in Times : RecordObservation(w, now)
           /\ pairs' = pairs \/ \E w \in Works, right \in Works : RecordPair(w, right)
           /\ \/ proposals' = proposals
              \/ \E p \in Proposals, w \in Works, family \in Families, likelihood \in Proposed,
                    policy \in Signals, proposer \in People :
                    RegisterProposal(p, w, family, likelihood, policy, proposer)
           /\ \/ replays' = replays
              \/ \E p \in Proposals, minCases \in MinCases : RecordReplay(p, minCases)
           /\ \/ reviews' = reviews
              \/ \E p \in Proposals, now \in Times, decision \in {"APPROVE", "HOLD", "REJECT"},
                    reviewer \in People : RecordReview(p, decision, reviewer, now)
           /\ \/ revisions' = revisions
              \/ \E p \in Proposals, now \in Times : ApplyRevision(p, now)
<1>1. CASE EvidenceNext /\ UNCHANGED <<calibration, revision>>
  <2> USE DEF semantics, history, calibration, revision
  <2>1. CASE Verification
    BY <1>1, <2>1 DEF Verification
  <2>2. ASSUME NEW prior \in Priors, RegisterDistribution(prior)
        PROVE  UNCHANGED <<debt, models, dependencies, rules, accepted, duplicates, targets, resolutions,
                           scores, pairs, proposals, replays, reviews, revisions>>
    BY <1>1, <2>2 DEF RegisterDistribution
  <2>3. ASSUME NEW w \in Works, NEW now \in Times, NEW source, NEW mode, NEW parents, NEW generation,
               RegisterDependency(w, source, mode, parents, generation, now)
        PROVE  UNCHANGED <<debt, distributions, models, rules, accepted, duplicates, targets, resolutions,
                           scores, pairs, proposals, replays, reviews, revisions>>
    BY <1>1, <2>3 DEF RegisterDependency
  <2>4. ASSUME NEW w \in Works, NEW now \in Times, NEW of, NEW generation,
               RegisterRule(w, of, generation, now)
        PROVE  UNCHANGED <<debt, distributions, models, dependencies, accepted, duplicates, targets,
                           resolutions, scores, pairs, proposals, replays, reviews, revisions>>
    BY <1>1, <2>4 DEF RegisterRule
  <2>5. ASSUME NEW w \in Works, NEW now \in Times, RecordDuplicate(w, now)
        PROVE  UNCHANGED <<debt, distributions, models, dependencies, rules, accepted, targets,
                           resolutions, scores, pairs, proposals, replays, reviews, revisions>>
    BY <1>1, <2>5 DEF RecordDuplicate
  <2>6. ASSUME NEW w \in Works, NEW now \in Times, ApplyUpdate(w, now)
        PROVE  UNCHANGED <<debt, dependencies, rules, duplicates, targets,
                           resolutions, scores, pairs, proposals, replays, reviews, revisions>>
    BY <1>1, <2>6 DEF ApplyUpdate
  <2>7. ASSUME NEW w \in Works, NEW ref, NEW test, NEW conditioning, NEW generation,
               RegisterModel(w, ref, test, conditioning, generation)
        PROVE  UNCHANGED <<debt, distributions, dependencies, rules, accepted, duplicates, targets,
                           resolutions, scores, pairs, proposals, replays, reviews, revisions>>
    BY <1>1, <2>7 DEF RegisterModel
  <2> QED BY <1>1, <2>1, <2>2, <2>3, <2>4, <2>5, <2>6, <2>7 DEF EvidenceNext
<1>2. CASE CalibrationStep /\ UNCHANGED revision
  <2> USE DEF semantics, history, evidenceVars, revision
  <2>1. ASSUME NEW w \in Works, NEW now \in Times, NEW family, RegisterTarget(w, family, now)
        PROVE  UNCHANGED <<debt, distributions, models, dependencies, rules, accepted, duplicates,
                           resolutions, scores, pairs, proposals, replays, reviews, revisions>>
    BY <1>2, <2>1 DEF RegisterTarget
  <2>2. ASSUME NEW w \in Works, NEW now \in Times, NEW truth, RegisterResolution(w, truth, now)
        PROVE  UNCHANGED <<debt, distributions, models, dependencies, rules, accepted, duplicates,
                           targets, scores, pairs, proposals, replays, reviews, revisions>>
    BY <1>2, <2>2 DEF RegisterResolution
  <2>3. ASSUME NEW w \in Works, NEW now \in Times, RecordObservation(w, now)
        PROVE  UNCHANGED <<debt, distributions, models, dependencies, rules, accepted, duplicates,
                           targets, resolutions, pairs, proposals, replays, reviews, revisions>>
    BY <1>2, <2>3 DEF RecordObservation
  <2>4. ASSUME NEW w \in Works, NEW right \in Works, RecordPair(w, right)
        PROVE  UNCHANGED <<debt, distributions, models, dependencies, rules, accepted, duplicates,
                           targets, resolutions, scores, proposals, replays, reviews, revisions>>
    BY <1>2, <2>4 DEF RecordPair
  <2> QED BY <1>2, <2>1, <2>2, <2>3, <2>4 DEF CalibrationStep
<1>3. ASSUME NEW p \in Proposals, NEW w \in Works, NEW family, NEW likelihood, NEW policy, NEW proposer,
             RegisterProposal(p, w, family, likelihood, policy, proposer)
      PROVE  UNCHANGED <<debt, distributions, models, dependencies, rules, accepted, duplicates,
                         targets, resolutions, scores, pairs, replays, reviews, revisions>>
  BY <1>3 DEF RegisterProposal, calibrationVars, evidenceVars, semantics, history, calibration
<1>4. ASSUME NEW p \in Proposals, NEW minCases, RecordReplay(p, minCases)
      PROVE  UNCHANGED <<debt, distributions, models, dependencies, rules, accepted, duplicates,
                         targets, resolutions, scores, pairs, proposals, reviews, revisions>>
  BY <1>4 DEF RecordReplay, calibrationVars, evidenceVars, semantics, history, calibration
<1>5. ASSUME NEW p \in Proposals, NEW now \in Times, NEW decision, NEW reviewer,
             RecordReview(p, decision, reviewer, now)
      PROVE  UNCHANGED <<debt, distributions, models, dependencies, rules, accepted, duplicates,
                         targets, resolutions, scores, pairs, proposals, replays, revisions>>
  BY <1>5 DEF RecordReview, calibrationVars, evidenceVars, semantics, history, calibration
<1>6. ASSUME NEW p \in Proposals, NEW now \in Times, ApplyRevision(p, now)
      PROVE  UNCHANGED <<debt, distributions, dependencies, rules, accepted, duplicates,
                         targets, resolutions, scores, pairs, proposals, replays, reviews>>
  BY <1>6 DEF ApplyRevision, history, calibration
<1>7. CASE UNCHANGED revisionVars
  BY <1>7 DEF revisionVars, revision, calibrationVars, evidenceVars, semantics, history, calibration
<1> QED BY <1>1, <1>2, <1>3, <1>4, <1>5, <1>6, <1>7 DEF RevisionNext

-----------------------------------------------------------------------------
(* Rows are added and, but for models, distributions and what is declared   *)
(* of open work, never changed; a model gives way to one of a later         *)
(* generation only.                                                         *)
Kept(f, g) == \A x \in DOMAIN f : x \in DOMAIN g /\ g[x] = f[x]

Grows ==
    /\ \A w \in DOMAIN debt : w \in DOMAIN debt' /\ (debt[w] # Owed => debt'[w] = debt[w])
    /\ DOMAIN distributions \subseteq DOMAIN distributions'
    /\ \A w \in DOMAIN models :
         /\ w \in DOMAIN models'
         /\ models'[w] = models[w] \/ models'[w].generation > models[w].generation
    /\ \A w : Done(w) => /\ w \in DOMAIN rules' <=> w \in DOMAIN rules
                         /\ w \in DOMAIN rules => rules'[w] = rules[w]
                         /\ w \in DOMAIN dependencies' <=> w \in DOMAIN dependencies
                         /\ w \in DOMAIN dependencies => dependencies'[w] = dependencies[w]
    /\ DOMAIN rules \subseteq DOMAIN rules' /\ DOMAIN dependencies \subseteq DOMAIN dependencies'
    /\ Kept(accepted, accepted') /\ Kept(duplicates, duplicates')
    /\ Kept(targets, targets') /\ Kept(resolutions, resolutions') /\ Kept(scores, scores')
    /\ Kept(proposals, proposals') /\ Kept(replays, replays') /\ Kept(reviews, reviews')
    /\ Kept(revisions, revisions')

Adds(f, g, x, y) ==
    /\ \A z : z \in DOMAIN g <=> z \in DOMAIN f \/ z = x
    /\ g[x] = y
    /\ \A z \in DOMAIN f : z # x => g[z] = f[z]

LEMMA WithAdds == ASSUME NEW f, NEW g, NEW x, NEW y, g = With(f, x, y) PROVE Adds(f, g, x, y)
BY DEF With, Adds

LEMMA WithKeeps ==
    ASSUME NEW f, NEW g, NEW x, NEW y, g = With(f, x, y), x \notin DOMAIN f
    PROVE  Adds(f, g, x, y) /\ Kept(f, g)
BY WithAdds DEF Adds, Kept

LEMMA KeptSame == ASSUME NEW f PROVE Kept(f, f)
BY DEF Kept

(* What an update and a revision write.                                     *)
LEMMA PosteriorIsBelief ==
    ASSUME NEW prior, IsBelief(prior), NEW model, IsModel(model), NEW outcome \in Outcomes,
           Possible(prior.probability, model.likelihood, outcome)
    PROVE  LET posterior == PosteriorDistribution(prior, model, outcome)
           IN  /\ IsBelief(posterior) /\ posterior.ref = prior.ref /\ posterior.subject = prior.subject
               /\ posterior.probability = Posterior(prior.probability, model.likelihood, outcome)
<1>1. PICK q : q = Posterior(prior.probability, model.likelihood, outcome)
  OBVIOUS
<1>2. model.likelihood \in Likelihoods
  BY MultiEvidenceAssumption, RevisionAssumption DEF IsModel, Offered
<1>3. q \in Distributions
  BY <1>1, <1>2, PosteriorIsDistribution DEF IsBelief
<1>4. PICK d : d = PosteriorDistribution(prior, model, outcome)
  OBVIOUS
<1>5. d = [ref |-> prior.ref, subject |-> prior.subject, probability |-> q,
           generation |-> prior.generation + 1]
  BY <1>1, <1>4 DEF PosteriorDistribution, IsBelief
<1>6. prior.generation + 1 \in Nat
  BY DEF IsBelief
<1> QED BY <1>1, <1>3, <1>4, <1>5, <1>6 DEF IsBelief

LEMMA RebaseIsModel ==
    ASSUME NEW model, IsModel(model), NEW posterior
    PROVE  LET m == Rebase(model, posterior)
           IN  /\ IsModel(m) /\ m.work = model.work /\ m.conditioning = model.conditioning
               /\ m.distribution = posterior /\ m.generation = model.generation + 1
<1>1. PICK m : m = Rebase(model, posterior)
  OBVIOUS
<1>2. m = [work |-> model.work, distribution |-> posterior, ref |-> model.ref,
           likelihood |-> model.likelihood, conditioning |-> model.conditioning,
           generation |-> model.generation + 1]
  BY <1>1 DEF Rebase, IsModel
<1>3. model.generation + 1 \in Nat
  BY DEF IsModel
<1> QED BY <1>1, <1>2, <1>3 DEF IsModel

LEMMA RevisedIsModel ==
    ASSUME NEW p, IsModel(proposals[p].base), proposals[p].likelihood \in Proposed
    PROVE  LET m == Revised(p)
           IN  /\ IsModel(m) /\ m.work = proposals[p].base.work
               /\ m.conditioning = proposals[p].base.conditioning
               /\ m.distribution = proposals[p].base.distribution
               /\ m.likelihood = proposals[p].likelihood
               /\ m.generation = proposals[p].base.generation + 1
<1>1. PICK m, base : m = Revised(p) /\ base = proposals[p].base
  OBVIOUS
<1>2. m = [work |-> base.work, distribution |-> base.distribution, ref |-> base.ref,
           likelihood |-> proposals[p].likelihood, conditioning |-> base.conditioning,
           generation |-> base.generation + 1]
  BY <1>1 DEF Revised, IsModel
<1>3. base.generation + 1 \in Nat
  BY <1>1 DEF IsModel
<1> QED BY <1>1, <1>2, <1>3 DEF IsModel, Offered

(* What an update needs to know of the work it is about.                    *)
LEMMA InterpretableKnows ==
    ASSUME IInv, NEW w, NEW now, Interpretable(w, now)
    PROVE  /\ w \in DOMAIN models /\ w \in DOMAIN dependencies /\ w \in DOMAIN rules /\ Done(w)
           /\ Bound(w) \in DOMAIN distributions
           /\ IsBelief(distributions[Bound(w)]) /\ distributions[Bound(w)].ref = Bound(w)
           /\ IsModel(models[w]) /\ Outcome(w) \in Outcomes
           /\ dependencies[w].source \in Sources
<1>1. /\ w \in DOMAIN models /\ w \in DOMAIN dependencies /\ w \in DOMAIN rules /\ Done(w)
      /\ dependencies[w].source \in Sources
  BY DEF Interpretable, IInv, DependenciesOK
<1>2. Bound(w) \in DOMAIN distributions
  BY <1>1 DEF IInv, ModelsFollow
<1>3. IsBelief(distributions[Bound(w)]) /\ distributions[Bound(w)].ref = Bound(w)
  BY <1>2 DEF IInv, BeliefsOK
<1>4. IsModel(models[w])
  BY <1>1 DEF IInv, ModelsOK
<1>5. rules[w].of \in [Decisions -> Outcomes]
  BY <1>1, MultiEvidenceAssumption DEF IInv, RulesOK
<1>6. debt[w].decision \in Decisions
  BY <1>1, MultiEvidenceAssumption DEF IInv, DebtOK, Done
<1> QED BY <1>1, <1>2, <1>3, <1>4, <1>5, <1>6 DEF Outcome

LEMMA RevisionKnows ==
    ASSUME IInv, NEW p, NEW now, ApplyRevision(p, now)
    PROVE  /\ p \in DOMAIN proposals /\ p \in DOMAIN replays /\ p \in DOMAIN reviews
           /\ p \notin DOMAIN revisions
           /\ proposals[p].base.work \in DOMAIN models
           /\ models[proposals[p].base.work] = proposals[p].base
           /\ IsModel(proposals[p].base) /\ proposals[p].likelihood \in Proposed
BY DEF IInv, ProposalsOK, ModelsOK, ApplyRevision, BaseIsCurrent

LEMMA ModelsAdvance ==
    ASSUME IInv, [RevisionNext]_revisionVars, NEW w \in DOMAIN models
    PROVE  /\ w \in DOMAIN models'
           /\ models'[w] = models[w] \/ models'[w].generation > models[w].generation
<1>1. CASE models' = models
  BY <1>1
<1>2. ASSUME NEW v \in Works, NEW ref \in DOMAIN distributions, NEW test \in Tests,
             NEW conditioning \in SUBSET DOMAIN accepted, NEW generation \in Generations,
             RegisterModel(v, ref, test, conditioning, generation)
      PROVE  /\ w \in DOMAIN models'
             /\ models'[w] = models[w] \/ models'[w].generation > models[w].generation
  <2>1. PICK m : m = Model(v, distributions[ref], test, conditioning, generation)
    OBVIOUS
  <2>2. models' = With(models, v, m) /\ Advances(models, v, m)
    BY <1>2, <2>1 DEF RegisterModel
  <2>3. Adds(models, models', v, m)
    BY <2>2, WithAdds
  <2> QED BY <2>2, <2>3 DEF Adds, Advances
<1>3. ASSUME NEW v \in Works, NEW now \in Times, ApplyUpdate(v, now)
      PROVE  /\ w \in DOMAIN models'
             /\ models'[w] = models[w] \/ models'[w].generation > models[w].generation
  <2>1. PICK prior, posterior : models' = RebaseCohort(models, prior, posterior)
    BY <1>3 DEF ApplyUpdate
  <2>2. IsModel(models[w])
    BY DEF IInv, ModelsOK
  <2>3. models'[w] = models[w] \/ models'[w] = Rebase(models[w], posterior)
    BY <2>1 DEF RebaseCohort
  <2>4. Rebase(models[w], posterior).generation = models[w].generation + 1
    BY <2>2, RebaseIsModel
  <2>5. models[w].generation \in Nat
    BY <2>2 DEF IsModel
  <2> QED BY <2>1, <2>3, <2>4, <2>5 DEF RebaseCohort
<1>4. ASSUME NEW p \in Proposals, NEW now \in Times, ApplyRevision(p, now)
      PROVE  /\ w \in DOMAIN models'
             /\ models'[w] = models[w] \/ models'[w].generation > models[w].generation
  <2>1. /\ models[proposals[p].base.work] = proposals[p].base
        /\ IsModel(proposals[p].base) /\ proposals[p].likelihood \in Proposed
    BY <1>4, RevisionKnows
  <2>2. models' = [models EXCEPT ![proposals[p].base.work] = Revised(p)]
    BY <1>4 DEF ApplyRevision
  <2>3. Revised(p).generation = proposals[p].base.generation + 1
    BY <2>1, RevisedIsModel
  <2>4. proposals[p].base.generation \in Nat
    BY <2>1 DEF IsModel
  <2> QED BY <2>1, <2>2, <2>3, <2>4
<1> QED BY <1>1, <1>2, <1>3, <1>4, Writers

LEMMA StepGrows == ASSUME IInv, [RevisionNext]_revisionVars PROVE Grows
<1>1. \A w \in DOMAIN debt : w \in DOMAIN debt' /\ (debt[w] # Owed => debt'[w] = debt[w])
  <2>1. ASSUME NEW v \in Works, Debt!Owe(v) \/ \E verdict \in Verdicts : Debt!Resolve(v, verdict)
        PROVE  \A w \in DOMAIN debt : w \in DOMAIN debt' /\ (debt[w] # Owed => debt'[w] = debt[w])
    BY <2>1 DEF Debt!Owe, Debt!Resolve
  <2> QED BY <2>1, Writers DEF Debt!DebtNext
<1>2. DOMAIN distributions \subseteq DOMAIN distributions'
  <2>1. ASSUME NEW prior \in Priors, RegisterDistribution(prior)
        PROVE  DOMAIN distributions \subseteq DOMAIN distributions'
    <3>1. Adds(distributions, distributions', prior.ref, prior)
      BY <2>1, WithAdds DEF RegisterDistribution
    <3> QED BY <3>1 DEF Adds
  <2>2. ASSUME NEW w \in Works, NEW now \in Times, ApplyUpdate(w, now)
        PROVE  DOMAIN distributions \subseteq DOMAIN distributions'
    BY <2>2 DEF ApplyUpdate
  <2> QED BY <2>1, <2>2, Writers
<1>3. /\ \A w : Done(w) => /\ w \in DOMAIN rules' <=> w \in DOMAIN rules
                           /\ w \in DOMAIN rules => rules'[w] = rules[w]
      /\ DOMAIN rules \subseteq DOMAIN rules'
  <2>1. ASSUME NEW v \in Works, NEW now \in Times, NEW of \in Meanings, NEW generation \in Generations,
               RegisterRule(v, of, generation, now)
        PROVE  /\ \A w : w # v => /\ w \in DOMAIN rules' <=> w \in DOMAIN rules
                                  /\ w \in DOMAIN rules => rules'[w] = rules[w]
               /\ DOMAIN rules \subseteq DOMAIN rules'
               /\ ~Done(v)
    <3>1. PICK y : rules' = With(rules, v, y)
      BY <2>1 DEF RegisterRule
    <3>2. Adds(rules, rules', v, y) /\ ~Done(v)
      BY <2>1, <3>1, WithAdds DEF RegisterRule, Open
    <3> QED BY <3>2 DEF Adds
  <2> QED BY <2>1, Writers
<1>4. /\ \A w : Done(w) => /\ w \in DOMAIN dependencies' <=> w \in DOMAIN dependencies
                           /\ w \in DOMAIN dependencies => dependencies'[w] = dependencies[w]
      /\ DOMAIN dependencies \subseteq DOMAIN dependencies'
  <2>1. ASSUME NEW v \in Works, NEW now \in Times, NEW source \in Sources,
               NEW mode \in {"INDEPENDENT", "CONDITIONAL", "DUPLICATE"},
               NEW parents \in SUBSET DOMAIN accepted, NEW generation \in Generations,
               RegisterDependency(v, source, mode, parents, generation, now)
        PROVE  /\ \A w : w # v => /\ w \in DOMAIN dependencies' <=> w \in DOMAIN dependencies
                                  /\ w \in DOMAIN dependencies => dependencies'[w] = dependencies[w]
               /\ DOMAIN dependencies \subseteq DOMAIN dependencies'
               /\ ~Done(v)
    <3>1. PICK y : dependencies' = With(dependencies, v, y)
      BY <2>1 DEF RegisterDependency
    <3>2. Adds(dependencies, dependencies', v, y) /\ ~Done(v)
      BY <2>1, <3>1, WithAdds DEF RegisterDependency, Open
    <3> QED BY <3>2 DEF Adds
  <2> QED BY <2>1, Writers
<1>5. Kept(accepted, accepted')
  <2>1. ASSUME NEW w \in Works, NEW now \in Times, ApplyUpdate(w, now)
        PROVE  Kept(accepted, accepted')
    <3>1. PICK y : accepted' = With(accepted, w, y)
      BY <2>1 DEF ApplyUpdate
    <3>2. w \notin DOMAIN accepted
      BY <2>1 DEF ApplyUpdate, Unused
    <3> QED BY <3>1, <3>2, WithKeeps
  <2> QED BY <2>1, Writers, KeptSame
<1>6. Kept(duplicates, duplicates')
  <2>1. ASSUME NEW w \in Works, NEW now \in Times, RecordDuplicate(w, now)
        PROVE  Kept(duplicates, duplicates')
    <3>1. PICK y : duplicates' = With(duplicates, w, y)
      BY <2>1 DEF RecordDuplicate
    <3>2. w \notin DOMAIN duplicates
      BY <2>1 DEF RecordDuplicate, Unused
    <3> QED BY <3>1, <3>2, WithKeeps
  <2> QED BY <2>1, Writers, KeptSame
<1>7. Kept(targets, targets')
  <2>1. ASSUME NEW w \in Works, NEW now \in Times, NEW family \in Families, RegisterTarget(w, family, now)
        PROVE  Kept(targets, targets')
    <3>1. PICK y : targets' = With(targets, w, y)
      BY <2>1 DEF RegisterTarget
    <3>2. w \notin DOMAIN targets
      BY <2>1 DEF RegisterTarget
    <3> QED BY <3>1, <3>2, WithKeeps
  <2> QED BY <2>1, Writers, KeptSame
<1>8. Kept(resolutions, resolutions')
  <2>1. ASSUME NEW w \in Works, NEW now \in Times, NEW truth \in Hypotheses, RegisterResolution(w, truth, now)
        PROVE  Kept(resolutions, resolutions')
    <3>1. PICK y : resolutions' = With(resolutions, TargetOf(w), y)
      BY <2>1 DEF RegisterResolution
    <3>2. TargetOf(w) \notin DOMAIN resolutions
      BY <2>1 DEF RegisterResolution
    <3> QED BY <3>1, <3>2, WithKeeps
  <2> QED BY <2>1, Writers, KeptSame
<1>9. Kept(scores, scores')
  <2>1. ASSUME NEW w \in Works, NEW now \in Times, RecordObservation(w, now)
        PROVE  Kept(scores, scores')
    <3>1. PICK y : scores' = With(scores, w, y)
      BY <2>1 DEF RecordObservation
    <3>2. w \notin DOMAIN scores
      BY <2>1 DEF RecordObservation
    <3> QED BY <3>1, <3>2, WithKeeps
  <2> QED BY <2>1, Writers, KeptSame
<1>10. Kept(proposals, proposals')
  <2>1. ASSUME NEW p \in Proposals, NEW w \in Works, NEW family \in Families, NEW likelihood \in Proposed,
               NEW policy \in Signals, NEW proposer \in People,
               RegisterProposal(p, w, family, likelihood, policy, proposer)
        PROVE  Kept(proposals, proposals')
    <3>1. PICK y : proposals' = With(proposals, p, y)
      BY <2>1 DEF RegisterProposal
    <3>2. p \notin DOMAIN proposals
      BY <2>1 DEF RegisterProposal
    <3> QED BY <3>1, <3>2, WithKeeps
  <2> QED BY <2>1, Writers, KeptSame
<1>11. Kept(replays, replays')
  <2>1. ASSUME NEW p \in Proposals, NEW minCases \in MinCases, RecordReplay(p, minCases)
        PROVE  Kept(replays, replays')
    <3>1. PICK y : replays' = With(replays, p, y)
      BY <2>1 DEF RecordReplay
    <3>2. p \notin DOMAIN replays
      BY <2>1 DEF RecordReplay
    <3> QED BY <3>1, <3>2, WithKeeps
  <2> QED BY <2>1, Writers, KeptSame
<1>12. Kept(reviews, reviews')
  <2>1. ASSUME NEW p \in Proposals, NEW now \in Times, NEW decision \in {"APPROVE", "HOLD", "REJECT"},
               NEW reviewer \in People, RecordReview(p, decision, reviewer, now)
        PROVE  Kept(reviews, reviews')
    <3>1. PICK y : reviews' = With(reviews, p, y)
      BY <2>1 DEF RecordReview
    <3>2. p \notin DOMAIN reviews
      BY <2>1 DEF RecordReview
    <3> QED BY <3>1, <3>2, WithKeeps
  <2> QED BY <2>1, Writers, KeptSame
<1>13. Kept(revisions, revisions')
  <2>1. ASSUME NEW p \in Proposals, NEW now \in Times, ApplyRevision(p, now)
        PROVE  Kept(revisions, revisions')
    <3>1. PICK y : revisions' = With(revisions, p, y)
      BY <2>1 DEF ApplyRevision
    <3>2. p \notin DOMAIN revisions
      BY <2>1 DEF ApplyRevision
    <3> QED BY <3>1, <3>2, WithKeeps
  <2> QED BY <2>1, Writers, KeptSame
<1>14. \A w \in DOMAIN models :
         /\ w \in DOMAIN models'
         /\ models'[w] = models[w] \/ models'[w].generation > models[w].generation
  BY ModelsAdvance
<1> QED BY <1>1, <1>2, <1>3, <1>4, <1>5, <1>6, <1>7, <1>8, <1>9, <1>10, <1>11, <1>12, <1>13, <1>14 DEF Grows

-----------------------------------------------------------------------------
(* Every part of the invariant is kept by every step.                       *)
LEMMA DebtKept == ASSUME IInv, [RevisionNext]_revisionVars PROVE DebtOK'
<1>1. ASSUME NEW v \in Works, Debt!Owe(v) PROVE DebtOK'
  BY <1>1 DEF Debt!Owe, IInv, DebtOK
<1>2. ASSUME NEW v \in Works, NEW verdict \in Verdicts, Debt!Resolve(v, verdict) PROVE DebtOK'
  BY <1>2 DEF Debt!Resolve, IInv, DebtOK
<1>3. CASE debt' = debt
  BY <1>3 DEF IInv, DebtOK
<1> QED BY <1>1, <1>2, <1>3, Writers DEF Debt!DebtNext

(* The step of an update.                                                   *)
LEMMA UpdateKnows ==
    ASSUME IInv, NEW w, NEW now, ApplyUpdate(w, now)
    PROVE  \E prior, posterior :
             /\ w \in DOMAIN models /\ w \in DOMAIN dependencies /\ w \in DOMAIN rules /\ Done(w)
             /\ w \notin DOMAIN accepted /\ w \notin DOMAIN duplicates
             /\ dependencies[w].source \in Sources /\ dependencies[w].source \notin Counted
             /\ Bound(w) \in DOMAIN distributions /\ prior = distributions[Bound(w)]
             /\ IsBelief(prior) /\ prior.ref = Bound(w)
             /\ IsModel(models[w]) /\ Outcome(w) \in Outcomes
             /\ Possible(prior.probability, models[w].likelihood, Outcome(w))
             /\ IsBelief(posterior) /\ posterior.ref = prior.ref /\ posterior.subject = prior.subject
             /\ posterior.probability = Posterior(prior.probability, models[w].likelihood, Outcome(w))
             /\ distributions' = [distributions EXCEPT ![prior.ref] = posterior]
             /\ models' = RebaseCohort(models, prior, posterior)
             /\ accepted' = With(accepted, w, Evidence(w, now))
<1>1. PICK prior, posterior :
         /\ prior = distributions[Bound(w)]
         /\ posterior = PosteriorDistribution(prior, models[w], Outcome(w))
  OBVIOUS
<1>2. /\ Interpretable(w, now) /\ Unused(w) /\ Fresh(w, prior)
      /\ Possible(prior.probability, models[w].likelihood, Outcome(w))
      /\ distributions' = [distributions EXCEPT ![prior.ref] = posterior]
      /\ models' = RebaseCohort(models, prior, posterior)
      /\ accepted' = With(accepted, w, Evidence(w, now))
  BY <1>1 DEF ApplyUpdate
<1>3. /\ w \in DOMAIN models /\ w \in DOMAIN dependencies /\ w \in DOMAIN rules /\ Done(w)
      /\ Bound(w) \in DOMAIN distributions
      /\ IsBelief(prior) /\ prior.ref = Bound(w)
      /\ IsModel(models[w]) /\ Outcome(w) \in Outcomes
      /\ dependencies[w].source \in Sources
  BY <1>1, <1>2, InterpretableKnows
<1>4. /\ IsBelief(posterior) /\ posterior.ref = prior.ref /\ posterior.subject = prior.subject
      /\ posterior.probability = Posterior(prior.probability, models[w].likelihood, Outcome(w))
  BY <1>1, <1>2, <1>3, PosteriorIsBelief
<1>5. w \notin DOMAIN accepted /\ w \notin DOMAIN duplicates /\ dependencies[w].source \notin Counted
  BY <1>2 DEF Unused, Fresh
<1> QED BY <1>1, <1>2, <1>3, <1>4, <1>5

LEMMA BeliefsKept == ASSUME IInv, [RevisionNext]_revisionVars PROVE BeliefsOK'
<1>1. BeliefsOK
  BY DEF IInv
<1>2. ASSUME NEW prior \in Priors, RegisterDistribution(prior) PROVE BeliefsOK'
  <2>1. IsBelief(prior)
    BY MultiEvidenceAssumption DEF IsBelief, References
  <2>2. Adds(distributions, distributions', prior.ref, prior)
    BY <1>2, WithAdds DEF RegisterDistribution
  <2> QED BY <1>1, <2>1, <2>2 DEF BeliefsOK, Adds
<1>3. ASSUME NEW w \in Works, NEW now \in Times, ApplyUpdate(w, now) PROVE BeliefsOK'
  <2>1. PICK prior, posterior :
           /\ IsBelief(posterior) /\ posterior.ref = prior.ref
           /\ distributions' = [distributions EXCEPT ![prior.ref] = posterior]
    BY <1>3, UpdateKnows
  <2> QED BY <1>1, <2>1 DEF BeliefsOK
<1>4. CASE distributions' = distributions
  BY <1>1, <1>4 DEF BeliefsOK
<1> QED BY <1>2, <1>3, <1>4, Writers

LEMMA ModelsKept == ASSUME IInv, [RevisionNext]_revisionVars PROVE ModelsOK'
<1>1. ModelsOK
  BY DEF IInv
<1>2. DOMAIN debt \subseteq DOMAIN debt' /\ DOMAIN accepted \subseteq DOMAIN accepted'
  BY StepGrows DEF Grows, Kept
<1>3. ASSUME \A w \in DOMAIN models' :
               /\ w \in DOMAIN debt
               /\ IsModel(models'[w]) /\ models'[w].work = w
               /\ models'[w].conditioning \subseteq DOMAIN accepted
      PROVE  ModelsOK'
  BY <1>2, <1>3 DEF ModelsOK, IsModel
<1>4. ASSUME NEW v \in Works, NEW ref \in DOMAIN distributions, NEW test \in Tests,
             NEW conditioning \in SUBSET DOMAIN accepted, NEW generation \in Generations,
             RegisterModel(v, ref, test, conditioning, generation)
      PROVE  ModelsOK'
  <2>1. PICK m : m = Model(v, distributions[ref], test, conditioning, generation)
    OBVIOUS
  <2>2. IsModel(m) /\ m.work = v /\ m.conditioning = conditioning
    BY <2>1, MultiEvidenceAssumption DEF Model, IsModel, Generations, Offered
  <2>3. Adds(models, models', v, m) /\ v \in DOMAIN debt
    BY <1>4, <2>1, WithAdds DEF RegisterModel
  <2>4. ASSUME NEW w \in DOMAIN models'
        PROVE  /\ w \in DOMAIN debt
               /\ IsModel(models'[w]) /\ models'[w].work = w
               /\ models'[w].conditioning \subseteq DOMAIN accepted
    BY <1>1, <2>2, <2>3 DEF Adds, ModelsOK
  <2> QED BY <1>3, <2>4
<1>5. ASSUME NEW v \in Works, NEW now \in Times, ApplyUpdate(v, now) PROVE ModelsOK'
  <2>1. PICK prior, posterior : models' = RebaseCohort(models, prior, posterior)
    BY <1>5, UpdateKnows
  <2>2. ASSUME NEW w \in DOMAIN models'
        PROVE  /\ w \in DOMAIN debt
               /\ IsModel(models'[w]) /\ models'[w].work = w
               /\ models'[w].conditioning \subseteq DOMAIN accepted
    <3>1. w \in DOMAIN models /\ (models'[w] = models[w] \/ models'[w] = Rebase(models[w], posterior))
      BY <2>1 DEF RebaseCohort
    <3>2. /\ w \in DOMAIN debt /\ IsModel(models[w]) /\ models[w].work = w
          /\ models[w].conditioning \subseteq DOMAIN accepted
      BY <1>1, <3>1 DEF ModelsOK
    <3>3. /\ IsModel(Rebase(models[w], posterior)) /\ Rebase(models[w], posterior).work = w
          /\ Rebase(models[w], posterior).conditioning \subseteq DOMAIN accepted
      BY <3>2, RebaseIsModel
    <3> QED BY <3>1, <3>2, <3>3
  <2> QED BY <1>3, <2>2
<1>6. ASSUME NEW p \in Proposals, NEW now \in Times, ApplyRevision(p, now) PROVE ModelsOK'
  <2>1. PICK base : base = proposals[p].base
    OBVIOUS
  <2>2. /\ base.work \in DOMAIN models /\ models[base.work] = base /\ IsModel(base)
        /\ proposals[p].likelihood \in Proposed
    BY <1>6, <2>1, RevisionKnows
  <2>3. /\ IsModel(Revised(p)) /\ Revised(p).work = base.work
        /\ Revised(p).conditioning = base.conditioning
    BY <2>1, <2>2, RevisedIsModel
  <2>4. models' = [models EXCEPT ![base.work] = Revised(p)]
    BY <1>6, <2>1 DEF ApplyRevision
  <2>5. ASSUME NEW w \in DOMAIN models'
        PROVE  /\ w \in DOMAIN debt
               /\ IsModel(models'[w]) /\ models'[w].work = w
               /\ models'[w].conditioning \subseteq DOMAIN accepted
    BY <1>1, <2>2, <2>3, <2>4 DEF ModelsOK
  <2> QED BY <1>3, <2>5
<1>7. CASE models' = models
  BY <1>1, <1>3, <1>7 DEF ModelsOK
<1> QED BY <1>4, <1>5, <1>6, <1>7, Writers

LEMMA FollowKept == ASSUME IInv, [RevisionNext]_revisionVars PROVE ModelsFollow'
<1>1. ModelsFollow
  BY DEF IInv
<1>2. \A r \in DOMAIN distributions : distributions[r].ref = r
  BY DEF IInv, BeliefsOK
<1>3. ASSUME NEW prior \in Priors, RegisterDistribution(prior) PROVE ModelsFollow'
  <2>1. Adds(distributions, distributions', prior.ref, prior) /\ prior.ref \notin DOMAIN distributions
    BY <1>3, WithAdds DEF RegisterDistribution
  <2>2. models' = models
    BY <1>3 DEF RegisterDistribution, semantics
  <2> QED BY <1>1, <2>1, <2>2 DEF ModelsFollow, Bound, Adds
<1>4. ASSUME NEW v \in Works, NEW now \in Times, ApplyUpdate(v, now) PROVE ModelsFollow'
  <2>1. PICK prior, posterior :
           /\ Bound(v) \in DOMAIN distributions /\ prior = distributions[Bound(v)] /\ prior.ref = Bound(v)
           /\ posterior.ref = prior.ref /\ posterior.subject = prior.subject
           /\ distributions' = [distributions EXCEPT ![prior.ref] = posterior]
           /\ models' = RebaseCohort(models, prior, posterior)
    BY <1>4, UpdateKnows
  <2>2. ASSUME NEW w \in DOMAIN models'
        PROVE  /\ models'[w].distribution.ref \in DOMAIN distributions'
               /\ models'[w].distribution = distributions'[models'[w].distribution.ref]
               /\ models'[w].distribution.subject = w.subject
    <3>1. w \in DOMAIN models
      BY <2>1 DEF RebaseCohort
    <3>2. /\ models[w].distribution.ref \in DOMAIN distributions
          /\ models[w].distribution = distributions[models[w].distribution.ref]
          /\ models[w].distribution.subject = w.subject
      BY <1>1, <3>1 DEF ModelsFollow, Bound
    <3>3. CASE models[w].distribution = prior
      <4>1. models'[w] = Rebase(models[w], posterior)
        BY <2>1, <3>1, <3>3 DEF RebaseCohort
      <4>2. IsModel(models[w])
        BY <3>1 DEF IInv, ModelsOK
      <4>3. models'[w].distribution = posterior
        BY <4>1, <4>2, RebaseIsModel
      <4> QED BY <2>1, <3>2, <3>3, <4>3
    <3>4. CASE models[w].distribution # prior
      <4>1. models'[w] = models[w]
        BY <2>1, <3>1, <3>4 DEF RebaseCohort
      <4>2. models[w].distribution.ref # prior.ref
        BY <2>1, <3>2, <3>4
      <4> QED BY <2>1, <3>2, <4>1, <4>2
    <3> QED BY <3>3, <3>4
  <2> QED BY <2>2 DEF ModelsFollow, Bound
<1>5. ASSUME NEW v \in Works, NEW ref \in DOMAIN distributions, NEW test \in Tests,
             NEW conditioning \in SUBSET DOMAIN accepted, NEW generation \in Generations,
             RegisterModel(v, ref, test, conditioning, generation)
      PROVE  ModelsFollow'
  <2>1. PICK m : m = Model(v, distributions[ref], test, conditioning, generation)
    OBVIOUS
  <2>2. m.distribution = distributions[ref] /\ m.distribution.ref = ref
    BY <1>2, <2>1 DEF Model
  <2>3. Adds(models, models', v, m) /\ distributions' = distributions /\ distributions[ref].subject = v.subject
    BY <1>5, <2>1, WithAdds DEF RegisterModel
  <2> QED BY <1>1, <2>2, <2>3 DEF ModelsFollow, Bound, Adds
<1>6. ASSUME NEW p \in Proposals, NEW now \in Times, ApplyRevision(p, now) PROVE ModelsFollow'
  <2>1. PICK base : base = proposals[p].base
    OBVIOUS
  <2>2. /\ base.work \in DOMAIN models /\ models[base.work] = base /\ IsModel(base)
        /\ proposals[p].likelihood \in Proposed
    BY <1>6, <2>1, RevisionKnows
  <2>3. Revised(p).distribution = base.distribution
    BY <2>1, <2>2, RevisedIsModel
  <2>4. models' = [models EXCEPT ![base.work] = Revised(p)] /\ distributions' = distributions
    BY <1>6, <2>1 DEF ApplyRevision
  <2> QED BY <1>1, <2>2, <2>3, <2>4 DEF ModelsFollow, Bound
<1>7. CASE models' = models /\ distributions' = distributions
  BY <1>1, <1>7 DEF ModelsFollow, Bound
<1> QED BY <1>3, <1>4, <1>5, <1>6, <1>7, Writers

LEMMA DependenciesKept == ASSUME IInv, [RevisionNext]_revisionVars PROVE DependenciesOK'
<1>1. DependenciesOK
  BY DEF IInv
<1>2. DOMAIN debt \subseteq DOMAIN debt' /\ DOMAIN accepted \subseteq DOMAIN accepted'
  BY StepGrows DEF Grows, Kept
<1>3. ASSUME NEW v \in Works, NEW now \in Times, NEW source \in Sources,
             NEW mode \in {"INDEPENDENT", "CONDITIONAL", "DUPLICATE"},
             NEW parents \in SUBSET DOMAIN accepted, NEW generation \in Generations,
             RegisterDependency(v, source, mode, parents, generation, now)
      PROVE  DependenciesOK'
  <2>1. PICK d : d = Declaration(v, source, mode, parents, generation, now)
    OBVIOUS
  <2>2. Adds(dependencies, dependencies', v, d) /\ v \in DOMAIN debt /\ WellDeclared(mode, parents)
    BY <1>3, <2>1, WithAdds DEF RegisterDependency, Open
  <2>3. d.source = source /\ d.mode = mode /\ d.parents = parents
    BY <2>1 DEF Declaration
  <2> QED BY <1>1, <1>2, <2>2, <2>3 DEF DependenciesOK, Adds, WellDeclared
<1>4. CASE dependencies' = dependencies
  BY <1>1, <1>2, <1>4 DEF DependenciesOK, WellDeclared
<1> QED BY <1>3, <1>4, Writers

LEMMA RulesKept == ASSUME IInv, [RevisionNext]_revisionVars PROVE RulesOK'
<1>1. RulesOK
  BY DEF IInv
<1>2. \A w \in DOMAIN models : models[w].generation \in Nat
  BY DEF IInv, ModelsOK, IsModel
<1>3. \A w \in DOMAIN models' : models'[w].generation \in Nat
  BY ModelsKept DEF ModelsOK, IsModel
<1>4. ASSUME NEW w \in DOMAIN models
      PROVE  w \in DOMAIN models' /\ models[w].generation <= models'[w].generation
  BY <1>2, <1>3, ModelsAdvance
<1>5. ASSUME NEW v \in Works, NEW now \in Times, NEW of \in Meanings, NEW generation \in Generations,
             RegisterRule(v, of, generation, now)
      PROVE  RulesOK'
  <2>1. PICK r : r = Rule(v, of, generation, now)
    OBVIOUS
  <2>2. Adds(rules, rules', v, r) /\ v \in DOMAIN models /\ models' = models
    BY <1>5, <2>1, WithAdds DEF RegisterRule
  <2>3. r.of = of /\ r.model = models[v]
    BY <2>1 DEF Rule
  <2> QED BY <1>1, <1>2, <2>2, <2>3 DEF RulesOK, Adds
<1>6. CASE rules' = rules
  <2>1. ASSUME NEW w \in DOMAIN rules'
        PROVE  /\ w \in DOMAIN models' /\ rules'[w].of \in Meanings
               /\ rules'[w].model.generation \in Nat
               /\ rules'[w].model.generation <= models'[w].generation
    <3>1. /\ w \in DOMAIN models /\ rules[w].of \in Meanings /\ rules'[w] = rules[w]
          /\ rules[w].model.generation \in Nat /\ rules[w].model.generation <= models[w].generation
      BY <1>1, <1>6 DEF RulesOK
    <3> QED BY <1>2, <1>3, <1>4, <3>1
  <2> QED BY <2>1 DEF RulesOK
<1> QED BY <1>5, <1>6, Writers

LEMMA HistoryKept == ASSUME IInv, [RevisionNext]_revisionVars PROVE HistoryOK'
<1>1. HistoryOK
  BY DEF IInv
<1>2. ASSUME NEW w, w \in DOMAIN rules, w \in DOMAIN dependencies, Done(w)
      PROVE  w \in DOMAIN rules' /\ w \in DOMAIN dependencies' /\ Done(w)'
  <2>1. w \in DOMAIN debt /\ debt[w] # Owed
    BY <1>2 DEF Done
  <2>2. w \in DOMAIN debt' /\ debt'[w] = debt[w]
    BY <2>1, StepGrows DEF Grows
  <2> QED BY <1>2, <2>1, <2>2, StepGrows DEF Grows, Done
<1>3. ASSUME NEW v \in Works, NEW now \in Times, ApplyUpdate(v, now) PROVE HistoryOK'
  <2>1. PICK y : accepted' = With(accepted, v, y)
    BY <1>3 DEF ApplyUpdate
  <2>2. Adds(accepted, accepted', v, y)
    BY <2>1, WithAdds
  <2>3. /\ v \in DOMAIN rules /\ v \in DOMAIN dependencies /\ Done(v) /\ v \notin DOMAIN duplicates
        /\ duplicates' = duplicates
    BY <1>3 DEF ApplyUpdate, Interpretable, Unused
  <2> QED BY <1>1, <1>2, <2>2, <2>3 DEF HistoryOK, Adds
<1>4. ASSUME NEW v \in Works, NEW now \in Times, RecordDuplicate(v, now) PROVE HistoryOK'
  <2>1. PICK y : duplicates' = With(duplicates, v, y)
    BY <1>4 DEF RecordDuplicate
  <2>2. Adds(duplicates, duplicates', v, y)
    BY <2>1, WithAdds
  <2>3. /\ v \in DOMAIN rules /\ v \in DOMAIN dependencies /\ Done(v) /\ v \notin DOMAIN accepted
        /\ accepted' = accepted
    BY <1>4 DEF RecordDuplicate, Interpretable, Unused
  <2> QED BY <1>1, <1>2, <2>2, <2>3 DEF HistoryOK, Adds
<1>5. CASE accepted' = accepted /\ duplicates' = duplicates
  BY <1>1, <1>2, <1>5 DEF HistoryOK
<1> QED BY <1>3, <1>4, <1>5, Writers

LEMMA TargetsKept == ASSUME IInv, [RevisionNext]_revisionVars PROVE TargetsOK'
<1>1. TargetsOK
  BY DEF IInv
<1>2. /\ DOMAIN distributions \subseteq DOMAIN distributions' /\ DOMAIN accepted \subseteq DOMAIN accepted'
      /\ \A w \in DOMAIN targets : w \in DOMAIN targets' /\ targets'[w] = targets[w]
  BY StepGrows DEF Grows, Kept
<1>3. \A w \in DOMAIN targets' : /\ targets'[w].model.work = w
                                 /\ targets'[w].model.distribution.ref \in DOMAIN distributions'
  <2>1. ASSUME NEW v \in Works, NEW now \in Times, NEW family \in Families, RegisterTarget(v, family, now)
        PROVE  \A w \in DOMAIN targets' : /\ targets'[w].model.work = w
                                          /\ targets'[w].model.distribution.ref \in DOMAIN distributions
    <3>1. PICK t : t = Target(v, family, now)
      OBVIOUS
    <3>2. Adds(targets, targets', v, t) /\ v \in DOMAIN models
      BY <2>1, <3>1, WithAdds DEF RegisterTarget, Freezable
    <3>3. t.model = models[v]
      BY <3>1 DEF Target
    <3>4. models[v].work = v /\ models[v].distribution.ref \in DOMAIN distributions
      BY <3>2 DEF IInv, ModelsOK, ModelsFollow, Bound
    <3> QED BY <1>1, <3>2, <3>3, <3>4 DEF TargetsOK, TargetOf, Adds
  <2>2. CASE targets' = targets
    BY <1>1, <1>2, <2>2 DEF TargetsOK, TargetOf
  <2> QED BY <1>2, <2>1, <2>2, Writers
<1>4. \A s \in pairs' : {s.left, s.right} \subseteq DOMAIN targets' \cap DOMAIN accepted'
  <2>1. \A s \in pairs : {s.left, s.right} \subseteq DOMAIN targets' \cap DOMAIN accepted'
    BY <1>1, <1>2 DEF TargetsOK
  <2>2. ASSUME NEW w \in Works, NEW right \in Works, RecordPair(w, right), NEW s \in pairs', s \notin pairs
        PROVE  {s.left, s.right} \subseteq DOMAIN targets' \cap DOMAIN accepted'
    <3>1. s = Sample(w, right) /\ Pairable(w, right)
      BY <2>2 DEF RecordPair
    <3>2. s.left = w /\ s.right = right
      BY <3>1 DEF Sample
    <3> QED BY <1>2, <3>1, <3>2 DEF Pairable
  <2> QED BY <2>1, <2>2, Writers
<1> QED BY <1>3, <1>4 DEF TargetsOK, TargetOf

LEMMA ScoresKept == ASSUME IInv, [RevisionNext]_revisionVars PROVE ScoresOK'
<1>1. ScoresOK
  BY DEF IInv
<1>2. /\ \A w \in DOMAIN accepted : w \in DOMAIN accepted' /\ accepted'[w] = accepted[w]
      /\ \A w \in DOMAIN targets : w \in DOMAIN targets' /\ targets'[w] = targets[w]
      /\ \A r \in DOMAIN resolutions : r \in DOMAIN resolutions' /\ resolutions'[r] = resolutions[r]
      /\ \A w \in DOMAIN scores : w \in DOMAIN scores' /\ scores'[w] = scores[w]
  BY StepGrows DEF Grows, Kept
<1>3. IsFiniteSet(DOMAIN scores')
  <2>1. ASSUME NEW v \in Works, NEW now \in Times, RecordObservation(v, now)
        PROVE  IsFiniteSet(DOMAIN scores')
    <3>1. PICK D : D = DOMAIN scores
      OBVIOUS
    <3>2. DOMAIN scores' = D \cup {v}
      BY <2>1, <3>1 DEF RecordObservation, With
    <3>3. IsFiniteSet(D \cup {v})
      BY <1>1, <3>1, FS_AddElement DEF ScoresOK
    <3> QED BY <3>2, <3>3, Zenon
  <2>2. CASE scores' = scores
    BY <1>1, <2>2 DEF ScoresOK
  <2> QED BY <2>1, <2>2, Writers
<1>4. ASSUME NEW w \in DOMAIN scores
      PROVE  /\ w \in DOMAIN targets' /\ w \in DOMAIN accepted'
             /\ accepted'[w].prior.ref \in DOMAIN resolutions'
             /\ scores'[w].truth = resolutions'[accepted'[w].prior.ref].truth
             /\ scores'[w].predicted = accepted'[w].model.likelihood[scores'[w].truth]
             /\ scores'[w].ref = accepted'[w].model.ref
  <2>1. /\ w \in DOMAIN targets /\ w \in DOMAIN accepted
        /\ accepted[w].prior.ref \in DOMAIN resolutions
        /\ scores[w].truth = resolutions[accepted[w].prior.ref].truth
        /\ scores[w].predicted = accepted[w].model.likelihood[scores[w].truth]
        /\ scores[w].ref = accepted[w].model.ref
    BY <1>1 DEF ScoresOK, ScoresWhatWasUsed
  <2> QED BY <1>2, <2>1
<1>5. ASSUME NEW w \in DOMAIN scores', w \notin DOMAIN scores
      PROVE  /\ w \in DOMAIN targets' /\ w \in DOMAIN accepted'
             /\ accepted'[w].prior.ref \in DOMAIN resolutions'
             /\ scores'[w].truth = resolutions'[accepted'[w].prior.ref].truth
             /\ scores'[w].predicted = accepted'[w].model.likelihood[scores'[w].truth]
             /\ scores'[w].ref = accepted'[w].model.ref
  <2>1. PICK v \in Works, now \in Times : RecordObservation(v, now)
    BY <1>5, Writers
  <2>2. PICK s : s = Score(v, now)
    OBVIOUS
  <2>3. /\ Adds(scores, scores', v, s) /\ AsFrozen(v)
        /\ v \in DOMAIN targets /\ v \in DOMAIN accepted /\ TargetOf(v) \in DOMAIN resolutions
    BY <2>1, <2>2, WithAdds DEF RecordObservation
  <2>4. w = v /\ scores'[w] = s
    BY <1>5, <2>3 DEF Adds
  <2>5. /\ s.truth = resolutions[TargetOf(v)].truth
        /\ s.predicted = targets[v].model.likelihood[s.truth]
        /\ s.ref = targets[v].model.ref
    BY <2>2 DEF Score
  <2>6. accepted[v].prior.ref = TargetOf(v) /\ accepted[v].model = targets[v].model
    BY <2>3 DEF AsFrozen, TargetOf
  <2> QED BY <1>2, <2>3, <2>4, <2>5, <2>6
<1>6. DOMAIN scores' \subseteq DOMAIN targets' \cap DOMAIN accepted'
  BY <1>4, <1>5
<1>7. ScoresWhatWasUsed'
  BY <1>4, <1>5 DEF ScoresWhatWasUsed
<1> QED BY <1>3, <1>6, <1>7 DEF ScoresOK

LEMMA ProposalsKept == ASSUME IInv, [RevisionNext]_revisionVars PROVE ProposalsOK'
<1>1. ProposalsOK
  BY DEF IInv
<1>2. /\ DOMAIN models \subseteq DOMAIN models' /\ DOMAIN scores \subseteq DOMAIN scores'
      /\ \A p \in DOMAIN proposals : p \in DOMAIN proposals' /\ proposals'[p] = proposals[p]
      /\ \A p \in DOMAIN replays : p \in DOMAIN replays' /\ replays'[p] = replays[p]
      /\ \A p \in DOMAIN reviews : p \in DOMAIN reviews' /\ reviews'[p] = reviews[p]
  BY StepGrows DEF Grows, Kept
<1>3. ASSUME NEW p \in DOMAIN proposals'
      PROVE  proposals'[p].base.work \in DOMAIN models' /\ proposals'[p].likelihood \in Proposed
  <2>1. CASE p \in DOMAIN proposals
    <3>1. proposals[p].base.work \in DOMAIN models /\ proposals[p].likelihood \in Proposed
      BY <1>1, <2>1 DEF ProposalsOK
    <3> QED BY <1>2, <2>1, <3>1
  <2>2. CASE p \notin DOMAIN proposals
    <3>1. PICK q \in Proposals, w \in Works, family \in Families, likelihood \in Proposed,
               policy \in Signals, proposer \in People :
             RegisterProposal(q, w, family, likelihood, policy, proposer)
      BY <2>2, Writers
    <3>2. PICK y : y = Proposal(w, family, likelihood, proposer)
      OBVIOUS
    <3>3. Adds(proposals, proposals', q, y) /\ w \in DOMAIN models
      BY <3>1, <3>2, WithAdds DEF RegisterProposal
    <3>4. proposals'[p] = y
      BY <2>2, <3>3 DEF Adds
    <3>5. y.base = models[w] /\ y.likelihood = likelihood
      BY <3>2 DEF Proposal
    <3>6. models[w].work = w
      BY <3>3 DEF IInv, ModelsOK
    <3> QED BY <1>2, <3>3, <3>4, <3>5, <3>6
  <2> QED BY <2>1, <2>2
<1>4. ASSUME NEW p \in DOMAIN replays'
      PROVE  /\ p \in DOMAIN proposals'
             /\ replays'[p].cases \subseteq DOMAIN scores' /\ replays'[p].minCases \in MinCases
  <2>1. CASE p \in DOMAIN replays
    <3>1. /\ p \in DOMAIN proposals
          /\ replays[p].cases \subseteq DOMAIN scores /\ replays[p].minCases \in MinCases
      BY <1>1, <2>1 DEF ProposalsOK
    <3> QED BY <1>2, <2>1, <3>1
  <2>2. CASE p \notin DOMAIN replays
    <3>1. PICK q \in Proposals, minCases \in MinCases : RecordReplay(q, minCases)
      BY <2>2, Writers
    <3>2. PICK y : y = Replay(q, minCases)
      OBVIOUS
    <3>3. Adds(replays, replays', q, y) /\ q \in DOMAIN proposals
      BY <3>1, <3>2, WithAdds DEF RecordReplay
    <3>4. p = q /\ replays'[p] = y
      BY <2>2, <3>3 DEF Adds
    <3>5. y.cases = Cases(q) /\ y.minCases = minCases
      BY <3>2 DEF Replay
    <3>6. Cases(q) \subseteq DOMAIN scores
      BY DEF Cases, Observations
    <3> QED BY <1>2, <3>3, <3>4, <3>5, <3>6
  <2> QED BY <2>1, <2>2
<1>5. ASSUME NEW p \in DOMAIN reviews'
      PROVE  p \in DOMAIN replays' /\ reviews'[p].reviewer # proposals'[p].proposer
  <2>1. CASE p \in DOMAIN reviews
    <3>1. /\ p \in DOMAIN replays /\ p \in DOMAIN proposals
          /\ reviews[p].reviewer # proposals[p].proposer
      BY <1>1, <2>1 DEF ProposalsOK
    <3> QED BY <1>2, <2>1, <3>1
  <2>2. CASE p \notin DOMAIN reviews
    <3>1. PICK q \in Proposals, now \in Times, decision \in {"APPROVE", "HOLD", "REJECT"},
               reviewer \in People : RecordReview(q, decision, reviewer, now)
      BY <2>2, Writers
    <3>2. PICK y : y = Review(decision, reviewer, now)
      OBVIOUS
    <3>3. Adds(reviews, reviews', q, y) /\ q \in DOMAIN replays /\ reviewer # proposals[q].proposer
      BY <3>1, <3>2, WithAdds DEF RecordReview, Reviewable
    <3>4. p = q /\ reviews'[p] = y
      BY <2>2, <3>3 DEF Adds
    <3>5. y.reviewer = reviewer
      BY <3>2 DEF Review
    <3>6. q \in DOMAIN proposals
      BY <1>1, <3>3 DEF ProposalsOK
    <3> QED BY <1>2, <3>3, <3>4, <3>5, <3>6
  <2> QED BY <2>1, <2>2
<1> QED BY <1>3, <1>4, <1>5 DEF ProposalsOK

(* The step of a revision.                                                  *)
LEMMA RevisionStep ==
    ASSUME IInv, NEW p, NEW now, ApplyRevision(p, now)
    PROVE  \E base, new, row :
             /\ base = proposals[p].base /\ base.work \in DOMAIN models /\ models[base.work] = base
             /\ base.generation \in Nat /\ new.generation = base.generation + 1
             /\ new.likelihood = proposals[p].likelihood
             /\ models' = [models EXCEPT ![base.work] = new]
             /\ row.base = base /\ row.new = new /\ row.against = Cases(p)
             /\ Adds(revisions, revisions', p, row) /\ p \notin DOMAIN revisions
             /\ p \in DOMAIN reviews
<1>1. PICK base, new, row :
         /\ base = proposals[p].base /\ new = Revised(p)
         /\ row = [base |-> base, new |-> new, against |-> Cases(p)]
  OBVIOUS
<1>2. /\ base.work \in DOMAIN models /\ models[base.work] = base /\ IsModel(base)
      /\ p \in DOMAIN reviews /\ p \notin DOMAIN revisions /\ proposals[p].likelihood \in Proposed
  BY <1>1, RevisionKnows
<1>3. new.likelihood = proposals[p].likelihood /\ new.generation = base.generation + 1
  BY <1>1, <1>2, RevisedIsModel
<1>4. models' = [models EXCEPT ![base.work] = new] /\ revisions' = With(revisions, p, row)
  BY <1>1 DEF ApplyRevision
<1>5. Adds(revisions, revisions', p, row)
  BY <1>4, WithAdds
<1>6. base.generation \in Nat
  BY <1>2 DEF IsModel
<1>7. row.base = base /\ row.new = new /\ row.against = Cases(p)
  BY <1>1
<1> QED BY <1>1, <1>2, <1>3, <1>4, <1>5, <1>6, <1>7

LEMMA LineKept == ASSUME IInv, [RevisionNext]_revisionVars PROVE LineOK'
<1>1. LineOK
  BY DEF IInv
<1>2. /\ \A p \in DOMAIN reviews : p \in DOMAIN reviews'
      /\ \A p \in DOMAIN revisions : p \in DOMAIN revisions' /\ revisions'[p] = revisions[p]
  BY StepGrows DEF Grows, Kept
<1>3. \A w \in DOMAIN models' : models'[w].generation \in Nat
  BY ModelsKept DEF ModelsOK, IsModel
<1>4. ASSUME NEW w \in DOMAIN models
      PROVE  /\ w \in DOMAIN models' /\ models[w].generation <= models'[w].generation
             /\ models[w].generation \in Nat /\ models'[w].generation \in Nat
  <2>1. models[w].generation \in Nat
    BY DEF IInv, ModelsOK, IsModel
  <2> QED BY <1>3, <2>1, ModelsAdvance
<1>5. ASSUME NEW p \in DOMAIN revisions
      PROVE  /\ p \in DOMAIN reviews'
             /\ revisions'[p] = revisions[p]
             /\ revisions[p].base.work \in DOMAIN models /\ revisions[p].base.work \in DOMAIN models'
             /\ revisions[p].base.generation \in Nat /\ revisions[p].new.generation \in Nat
             /\ revisions[p].new.generation <= models[revisions[p].base.work].generation
             /\ revisions[p].new.generation <= models'[revisions[p].base.work].generation
  <2>1. /\ p \in DOMAIN reviews /\ revisions[p].base.work \in DOMAIN models
        /\ revisions[p].base.generation \in Nat /\ revisions[p].new.generation \in Nat
        /\ revisions[p].new.generation <= models[revisions[p].base.work].generation
    BY <1>1 DEF LineOK, RevisionsInLine
  <2> QED BY <1>2, <1>4, <2>1
<1>6. ASSUME NEW p \in DOMAIN revisions, NEW q \in DOMAIN revisions, p # q,
             revisions[p].base.work = revisions[q].base.work
      PROVE  \/ revisions[p].new.generation <= revisions[q].base.generation
             \/ revisions[q].new.generation <= revisions[p].base.generation
  BY <1>1, <1>6 DEF LineOK, RevisionsInLine
<1>7. CASE revisions' = revisions
  BY <1>5, <1>6, <1>7 DEF LineOK, RevisionsInLine
<1>8. ASSUME NEW p \in Proposals, NEW now \in Times, ApplyRevision(p, now) PROVE LineOK'
  <2>1. PICK base, new, row :
             /\ base = proposals[p].base /\ base.work \in DOMAIN models /\ models[base.work] = base
             /\ base.generation \in Nat /\ new.generation = base.generation + 1
             /\ new.likelihood = proposals[p].likelihood
             /\ models' = [models EXCEPT ![base.work] = new]
             /\ row.base = base /\ row.new = new /\ row.against = Cases(p)
             /\ Adds(revisions, revisions', p, row) /\ p \notin DOMAIN revisions
             /\ p \in DOMAIN reviews
    BY <1>8, RevisionStep
  <2>2. p \in DOMAIN revisions' /\ revisions'[p] = row /\ p \in DOMAIN reviews'
    BY <1>2, <2>1 DEF Adds
  <2>3. \A q \in DOMAIN revisions' : q = p \/ q \in DOMAIN revisions
    BY <2>1 DEF Adds
  <2>4. /\ base.work \in DOMAIN models' /\ new.generation \in Nat
        /\ new.generation <= models'[base.work].generation
    BY <2>1
  <2>5. ASSUME NEW q \in DOMAIN revisions, revisions[q].base.work = base.work
        PROVE  revisions[q].new.generation <= base.generation
    BY <1>5, <2>1, <2>5
  <2>6. ASSUME NEW q \in DOMAIN revisions'
        PROVE  /\ q \in DOMAIN reviews'
               /\ revisions'[q].base.work \in DOMAIN models'
               /\ revisions'[q].base.generation \in Nat /\ revisions'[q].new.generation \in Nat
               /\ revisions'[q].new.generation <= models'[revisions'[q].base.work].generation
    BY <1>5, <2>1, <2>2, <2>3, <2>4
  <2>7. ASSUME NEW q \in DOMAIN revisions', NEW r \in DOMAIN revisions', q # r,
               revisions'[q].base.work = revisions'[r].base.work
        PROVE  \/ revisions'[q].new.generation <= revisions'[r].base.generation
               \/ revisions'[r].new.generation <= revisions'[q].base.generation
    <3>1. CASE q = p
      <4>1. r \in DOMAIN revisions /\ revisions'[r] = revisions[r]
        BY <1>2, <2>3, <2>7, <3>1
      <4> QED BY <2>1, <2>2, <2>5, <2>7, <3>1, <4>1
    <3>2. CASE r = p
      <4>1. q \in DOMAIN revisions /\ revisions'[q] = revisions[q]
        BY <1>2, <2>3, <2>7, <3>2
      <4> QED BY <2>1, <2>2, <2>5, <2>7, <3>2, <4>1
    <3>3. CASE q # p /\ r # p
      <4>1. /\ q \in DOMAIN revisions /\ revisions'[q] = revisions[q]
            /\ r \in DOMAIN revisions /\ revisions'[r] = revisions[r]
        BY <1>2, <2>3, <3>3
      <4> QED BY <1>6, <2>7, <4>1
    <3> QED BY <3>1, <3>2, <3>3
  <2> QED BY <2>6, <2>7 DEF LineOK, RevisionsInLine
<1> QED BY <1>7, <1>8, Writers

(* How a revision improves on the model it replaces.                        *)
Improves(new, cases, table) ==
    MeanOf([w \in cases |-> BinaryBrier(new.likelihood[table[w].truth], table[w].outcome = "POSITIVE")])
      < MeanOf([w \in cases |-> BinaryBrier(table[w].predicted, table[w].outcome = "POSITIVE")])

LEMMA ImprovesStill ==
    ASSUME NEW new, NEW f, NEW g, Kept(f, g), NEW cases \in SUBSET DOMAIN f, Improves(new, cases, f)
    PROVE  Improves(new, cases, g)
<1>1. PICK a, b :
         /\ a = [w \in cases |-> BinaryBrier(new.likelihood[f[w].truth], f[w].outcome = "POSITIVE")]
         /\ b = [w \in cases |-> BinaryBrier(f[w].predicted, f[w].outcome = "POSITIVE")]
  OBVIOUS
<1>2. \A w \in cases : g[w] = f[w]
  BY DEF Kept
<1>3. /\ a = [w \in cases |-> BinaryBrier(new.likelihood[g[w].truth], g[w].outcome = "POSITIVE")]
      /\ b = [w \in cases |-> BinaryBrier(g[w].predicted, g[w].outcome = "POSITIVE")]
  BY <1>1, <1>2
<1>4. MeanOf(a) < MeanOf(b)
  BY <1>1 DEF Improves
<1> QED BY <1>3, <1>4 DEF Improves

ReviewedOn(p) ==
    /\ replays[p].cases = revisions[p].against
    /\ Cardinality(revisions[p].against) >= replays[p].minCases
    /\ reviews[p].decision = "APPROVE" /\ reviews[p].reviewer # proposals[p].proposer
    /\ Improves(revisions[p].new, revisions[p].against, scores)

LEMMA ReviewedIs == RevisedOnReviewedHistory <=> \A p \in DOMAIN revisions : ReviewedOn(p)
BY DEF RevisedOnReviewedHistory, ReviewedOn, Improves, Positive

LEMMA ReviewedKept == ASSUME IInv, [RevisionNext]_revisionVars PROVE RevisedOnReviewedHistory'
<1>1. \A p \in DOMAIN revisions : ReviewedOn(p)
  BY ReviewedIs DEF IInv
<1>2. /\ Kept(scores, scores') /\ DOMAIN scores \subseteq DOMAIN scores'
      /\ \A p \in DOMAIN proposals : p \in DOMAIN proposals' /\ proposals'[p] = proposals[p]
      /\ \A p \in DOMAIN replays : p \in DOMAIN replays' /\ replays'[p] = replays[p]
      /\ \A p \in DOMAIN reviews : p \in DOMAIN reviews' /\ reviews'[p] = reviews[p]
      /\ \A p \in DOMAIN revisions : p \in DOMAIN revisions' /\ revisions'[p] = revisions[p]
  BY StepGrows DEF Grows, Kept
<1>3. ASSUME NEW p \in DOMAIN revisions PROVE ReviewedOn(p)'
  <2>1. /\ p \in DOMAIN reviews /\ p \in DOMAIN replays /\ p \in DOMAIN proposals
        /\ replays[p].cases \subseteq DOMAIN scores
    BY DEF IInv, LineOK, ProposalsOK
  <2>2. ReviewedOn(p)
    BY <1>1
  <2>3. Improves(revisions[p].new, revisions[p].against, scores')
    BY <1>2, <2>1, <2>2, ImprovesStill DEF ReviewedOn
  <2> QED BY <1>2, <2>1, <2>2, <2>3 DEF ReviewedOn
<1>4. ASSUME NEW p \in DOMAIN revisions', p \notin DOMAIN revisions PROVE ReviewedOn(p)'
  <2>1. PICK q \in Proposals, now \in Times : ApplyRevision(q, now)
    BY <1>4, Writers
  <2>2. PICK base, new, row :
             /\ base = proposals[q].base
             /\ new.likelihood = proposals[q].likelihood
             /\ row.base = base /\ row.new = new /\ row.against = Cases(q)
             /\ Adds(revisions, revisions', q, row) /\ q \notin DOMAIN revisions
    BY <2>1, RevisionStep
  <2>3. p = q /\ revisions'[p] = row
    BY <1>4, <2>2 DEF Adds
  <2>4. /\ replays[q] = Replay(q, replays[q].minCases)
        /\ replays[q].status = "IMPROVED" /\ reviews[q].decision = "APPROVE"
        /\ replays' = replays /\ reviews' = reviews /\ proposals' = proposals /\ scores' = scores
    BY <2>1 DEF ApplyRevision, SameReplayState, calibration
  <2>5. /\ q \in DOMAIN reviews /\ q \in DOMAIN replays
    BY <2>1, RevisionKnows
  <2>6. reviews[q].reviewer # proposals[q].proposer /\ replays[q].minCases \in MinCases
    BY <2>5 DEF IInv, ProposalsOK
  <2>7. PICK k, status : k = replays[q].minCases /\ status = ReplayStatus(q, k)
    OBVIOUS
  <2>8. replays[q].cases = Cases(q) /\ status = "IMPROVED"
    BY <2>4, <2>7 DEF Replay
  <2>9. ~(Cardinality(Cases(q)) < k) /\ NewBrier(q) < OldBrier(q)
    BY <2>7, <2>8 DEF ReplayStatus
  <2>10. Cardinality(Cases(q)) >= k
    <3>1. IsFiniteSet(Cases(q))
      <4>1. Cases(q) \subseteq DOMAIN scores
        BY DEF Cases, Observations
      <4> QED BY <4>1, FS_Subset DEF IInv, ScoresOK
    <3>2. Cardinality(Cases(q)) \in Nat
      BY <3>1, FS_CardinalityType
    <3>3. k \in Nat
      BY <2>6, <2>7, RevisionAssumption
    <3> QED BY <2>9, <3>2, <3>3
  <2>11. Improves(new, Cases(q), scores)
    BY <2>2, <2>9 DEF Improves, NewBrier, OldBrier, Positive
  <2> QED BY <2>2, <2>3, <2>4, <2>6, <2>7, <2>8, <2>10, <2>11 DEF ReviewedOn
<1>5. (\A p \in DOMAIN revisions : ReviewedOn(p))'
  BY <1>3, <1>4
<1> QED BY <1>5 DEF RevisedOnReviewedHistory, ReviewedOn, Improves, Positive

LEMMA InitIInv == RevisionInit => IInv
<1> SUFFICES ASSUME RevisionInit PROVE IInv
  OBVIOUS
<1>1. /\ distributions = Nothing /\ models = Nothing /\ dependencies = Nothing /\ rules = Nothing
      /\ accepted = Nothing /\ duplicates = Nothing /\ targets = Nothing /\ resolutions = Nothing
      /\ scores = Nothing /\ pairs = {} /\ proposals = Nothing /\ replays = Nothing
      /\ reviews = Nothing /\ revisions = Nothing /\ debt = [w \in {} |-> Owed]
  BY DEF RevisionInit, CalibrationInit, EvidenceInit, Debt!DebtInit
<1>2. DOMAIN Nothing = {} /\ DOMAIN [w \in {} |-> Owed] = {}
  BY DEF Nothing
<1>3. DebtOK /\ BeliefsOK /\ ModelsOK /\ ModelsFollow /\ DependenciesOK /\ RulesOK
  BY <1>1, <1>2 DEF DebtOK, BeliefsOK, ModelsOK, ModelsFollow, DependenciesOK, RulesOK
<1>4. HistoryOK /\ TargetsOK /\ ProposalsOK /\ LineOK /\ RevisedOnReviewedHistory
  BY <1>1, <1>2 DEF HistoryOK, TargetsOK, ProposalsOK, LineOK, RevisionsInLine, RevisedOnReviewedHistory
<1>5. ScoresOK
  <2>1. DOMAIN scores = {}
    BY <1>1, <1>2
  <2>2. IsFiniteSet(DOMAIN scores)
    BY <2>1, FS_EmptySet, Zenon
  <2> QED BY <2>1, <2>2 DEF ScoresOK, ScoresWhatWasUsed
<1> QED BY <1>3, <1>4, <1>5 DEF IInv

LEMMA NextIInv == IInv /\ [RevisionNext]_revisionVars => IInv'
<1> SUFFICES ASSUME IInv, [RevisionNext]_revisionVars PROVE IInv'
  OBVIOUS
<1> QED BY DebtKept, BeliefsKept, ModelsKept, FollowKept, DependenciesKept, RulesKept, HistoryKept,
           TargetsKept, ScoresKept, ProposalsKept, LineKept, ReviewedKept DEF IInv

(* The invariant holds of everything the three planes can do together.      *)
THEOREM Invariance == RevisionSpec => []IInv
<1> QED BY InitIInv, NextIInv, PTL DEF RevisionSpec

-----------------------------------------------------------------------------
(* Types: every record of a plane rests on one of the plane before it.      *)
THEOREM TypeCorrect == RevisionSpec => []RevisionTypeOK
<1>1. IInv => RevisionTypeOK
  <2> SUFFICES ASSUME IInv PROVE RevisionTypeOK
    OBVIOUS
  <2>1. EvidenceTypeOK
    <3>1. \A w \in DOMAIN models : models[w].likelihood \in Likelihoods
      <4>1. \A w \in DOMAIN models : models[w].likelihood \in Offered
        BY DEF IInv, ModelsOK, IsModel
      <4>2. Offered \subseteq Likelihoods
        BY MultiEvidenceAssumption, RevisionAssumption DEF Offered
      <4> QED BY <4>1, <4>2
    <3>2. \A r \in DOMAIN distributions :
            distributions[r].ref = r /\ distributions[r].probability \in Distributions
      BY DEF IInv, BeliefsOK, IsBelief
    <3>3. DOMAIN accepted \cup DOMAIN duplicates \subseteq {w \in DOMAIN rules \cap DOMAIN dependencies : Done(w)}
      BY DEF IInv, HistoryOK
    <3> QED BY <3>1, <3>2, <3>3 DEF EvidenceTypeOK, IInv, ModelsOK, DependenciesOK, RulesOK, HistoryOK
  <2> QED BY <2>1 DEF RevisionTypeOK, IInv, TargetsOK, ScoresOK, ProposalsOK, LineOK
<1> QED BY <1>1, Invariance, PTL

(* I-191, I-193: no model is left behind its distribution.                  *)
THEOREM ModelsStayBound == RevisionSpec => []ModelsFollow
<1>1. IInv => ModelsFollow
  BY DEF IInv
<1> QED BY <1>1, Invariance, PTL

(* I-195, I-198, I-199: a score is of the truth that was resolved and of the*)
(* prediction that was used.                                                *)
THEOREM UsedIsScored == RevisionSpec => []ScoresWhatWasUsed
<1>1. IInv => ScoresWhatWasUsed
  BY DEF IInv, ScoresOK
<1> QED BY <1>1, Invariance, PTL

(* I-224, I-225, I-233: a revision errs less on the history reviewed.       *)
THEOREM RevisionsImprove == RevisionSpec => []RevisedOnReviewedHistory
<1>1. IInv => RevisedOnReviewedHistory
  BY DEF IInv
<1> QED BY <1>1, Invariance, PTL

(* I-219, I-220, I-232, I-234: the revisions of a model are one line.       *)
THEOREM RevisionsAreALine == RevisionSpec => []RevisionsInLine
<1>1. IInv => RevisionsInLine
  BY DEF IInv, LineOK
<1> QED BY <1>1, Invariance, PTL

-----------------------------------------------------------------------------
(* What completed work can still do is settled.                             *)
LEMMA StillInterpretable ==
    ASSUME IInv, [RevisionNext]_revisionVars, NEW w, Done(w), NEW now,
           Interpretable(w, now)', Unused(w)'
    PROVE  /\ Interpretable(w, now) /\ Unused(w)
           /\ dependencies'[w] = dependencies[w] /\ models'[w] = models[w]
           /\ Bound(w)' = Bound(w) /\ distributions'[Bound(w)] = distributions[Bound(w)]
           /\ Outcome(w)' = Outcome(w)
<1>1. Grows
  BY StepGrows
<1>2. /\ w \in DOMAIN models' /\ w \in DOMAIN dependencies' /\ w \in DOMAIN rules'
      /\ rules'[w].model = models'[w] /\ models'[w].distribution = distributions'[models'[w].distribution.ref]
      /\ dependencies'[w].declaredAt <= debt'[w].completedAt
      /\ rules'[w].registeredAt <= debt'[w].completedAt /\ debt'[w].completedAt <= now
      /\ dependencies'[w].mode = "INDEPENDENT" => models'[w].conditioning = {}
      /\ dependencies'[w].mode = "CONDITIONAL" => models'[w].conditioning = dependencies'[w].parents
  BY DEF Interpretable, Bound
<1>3. w \in DOMAIN debt /\ debt[w] # Owed /\ debt'[w] = debt[w]
  BY <1>1 DEF Done, Grows
<1>4. /\ w \in DOMAIN dependencies /\ dependencies'[w] = dependencies[w]
      /\ w \in DOMAIN rules /\ rules'[w] = rules[w]
  BY <1>1, <1>2 DEF Grows
<1>5. /\ w \in DOMAIN models /\ models[w].generation \in Nat
      /\ rules[w].model.generation <= models[w].generation
  BY <1>4 DEF IInv, RulesOK, ModelsOK, IsModel
<1>6. models'[w] = models[w]
  <2>1. models'[w].generation \in Nat /\ models'[w].generation <= models[w].generation
    BY <1>2, <1>4, <1>5 DEF IInv, RulesOK
  <2>2. models'[w] = models[w] \/ models'[w].generation > models[w].generation
    BY <1>5, ModelsAdvance
  <2> QED BY <1>5, <2>1, <2>2
<1>7. Bound(w)' = Bound(w) /\ distributions'[Bound(w)] = models[w].distribution
  BY <1>2, <1>6 DEF Bound
<1>8. models[w].distribution = distributions[Bound(w)]
  BY <1>5 DEF IInv, ModelsFollow
<1>9. Unused(w)
  BY <1>1 DEF Unused, Grows, Kept
<1>10. Interpretable(w, now)
  BY <1>2, <1>3, <1>4, <1>5, <1>6, <1>8 DEF Interpretable, Done
<1>11. Outcome(w)' = Outcome(w)
  BY <1>3, <1>4 DEF Outcome
<1> QED BY <1>4, <1>6, <1>7, <1>8, <1>9, <1>10, <1>11

LEMMA StillFresh ==
    ASSUME IInv, [RevisionNext]_revisionVars, NEW w, NEW prior,
           dependencies'[w] = dependencies[w],
           dependencies'[w].source \notin Counted', \A u \in DOMAIN accepted' : accepted'[u].prior # prior
    PROVE  Fresh(w, prior)
<1>1. \A u \in DOMAIN accepted : u \in DOMAIN accepted' /\ accepted'[u] = accepted[u]
  BY StepGrows DEF Grows, Kept
<1>2. Counted \subseteq Counted'
  BY <1>1 DEF Counted
<1> QED BY <1>1, <1>2 DEF Fresh

(* I-182, I-193: from completion to use there is at most one posterior the  *)
(* evidence can lead to, and what is out of reach stays so.                 *)
THEOREM EffectsFade == RevisionSpec => EffectsOnlyFade
<1>1. ASSUME IInv, [RevisionNext]_revisionVars, NEW w \in Works, Done(w), NEW e \in Effects(w)'
      PROVE  e \in Effects(w)
  <2>1. PICK now \in Times : Interpretable(w, now)' /\ Unused(w)'
    BY <1>1 DEF Effects
  <2>2. /\ Interpretable(w, now) /\ Unused(w)
        /\ dependencies'[w] = dependencies[w] /\ models'[w] = models[w]
        /\ Bound(w)' = Bound(w) /\ distributions'[Bound(w)] = distributions[Bound(w)]
        /\ Outcome(w)' = Outcome(w)
    BY <1>1, <2>1, StillInterpretable
  <2>3. CASE dependencies[w].mode = "DUPLICATE"
    <3>1. e = [duplicate |-> dependencies'[w].parents]
      BY <1>1, <2>1, <2>2, <2>3 DEF Effects
    <3>2. [duplicate |-> dependencies[w].parents] \in Effects(w)
      BY <2>2, <2>3 DEF Effects
    <3> QED BY <2>2, <3>1, <3>2
  <2>4. CASE dependencies[w].mode # "DUPLICATE"
    <3>1. PICK prior, posterior :
             /\ prior = distributions[Bound(w)]
             /\ posterior = PosteriorDistribution(prior, models[w], Outcome(w))
      OBVIOUS
    <3>2. distributions'[Bound(w)'] = prior
      BY <2>2, <3>1
    <3>3. PosteriorDistribution(distributions[Bound(w)], models[w], Outcome(w))' = posterior
      BY <2>2, <3>1, <3>2 DEF PosteriorDistribution
    <3>4. /\ e = [source |-> dependencies'[w].source, posterior |-> posterior]
          /\ Fresh(w, distributions[Bound(w)])'
      BY <1>1, <2>1, <2>2, <2>4, <3>3 DEF Effects
    <3>5. Fresh(w, prior)
      <4>1. dependencies'[w].source \notin Counted' /\ \A u \in DOMAIN accepted' : accepted'[u].prior # prior
        BY <3>2, <3>4 DEF Fresh
      <4> QED BY <1>1, <2>2, <4>1, StillFresh
    <3>6. [source |-> dependencies[w].source, posterior |-> posterior] \in Effects(w)
      BY <2>2, <2>4, <3>1, <3>5 DEF Effects
    <3> QED BY <2>2, <3>4, <3>6
  <2> QED BY <2>3, <2>4
<1>2. IInv /\ [RevisionNext]_revisionVars =>
        [\A w \in Works : Done(w) => Effects(w)' \subseteq Effects(w)]_evidenceVars
  BY <1>1
<1> QED BY <1>2, Invariance, PTL DEF RevisionSpec, EffectsOnlyFade

-----------------------------------------------------------------------------
(* The arithmetic of the ledger is that of the planes.                      *)
LEMMA SameTotal == ASSUME NEW f PROVE Ledger!Total(f) = Total(f)
BY DEF Ledger!Total, Total,
       Ledger!SumFunction, SumFunction, Ledger!SumFunctionOnSet, SumFunctionOnSet,
       Ledger!FoldFunctionOnSet, FoldFunctionOnSet, Ledger!MapThenFoldSet, MapThenFoldSet

LEMMA SameCardinality == ASSUME NEW S PROVE Ledger!Cardinality(S) = Cardinality(S)
BY DEF Ledger!Cardinality, Cardinality

LEMMA SameNormalized == ASSUME NEW w PROVE Ledger!Normalized(w) = Normalized(w)
<1>1. /\ \A h : Ledger!Floor(w, h) = Floor(w, h)
      /\ \A h : Ledger!Remainder(w, h) = Remainder(w, h)
  BY SameTotal DEF Ledger!Floor, Floor, Ledger!Remainder, Remainder
<1>2. Ledger!LeftOver(w) = LeftOver(w)
  <2>1. [h \in Hypotheses |-> Ledger!Floor(w, h)] = [h \in Hypotheses |-> Floor(w, h)]
    BY <1>1
  <2>2. PICK f : f = [h \in Hypotheses |-> Floor(w, h)]
    OBVIOUS
  <2>3. Ledger!LeftOver(w) = Scale - Ledger!Total(f) /\ LeftOver(w) = Scale - Total(f)
    BY <2>1, <2>2 DEF Ledger!LeftOver, LeftOver
  <2> QED BY <2>3, SameTotal
<1>3. ASSUME NEW h PROVE Ledger!Cardinality(Ledger!Ahead(w, h)) = Cardinality(Ahead(w, h))
  <2>1. Ledger!Ahead(w, h) = Ahead(w, h)
    BY <1>1 DEF Ledger!Ahead, Ahead
  <2>2. Ledger!Cardinality(Ledger!Ahead(w, h)) = Ledger!Cardinality(Ahead(w, h))
    BY <2>1, Zenon
  <2> QED BY <2>2, SameCardinality
<1> QED BY <1>1, <1>2, <1>3 DEF Ledger!Normalized, Normalized

LEMMA SameArithmetic ==
    ASSUME NEW prior, NEW likelihood, NEW outcome
    PROVE  /\ Ledger!Possible(prior, likelihood, outcome) <=> Possible(prior, likelihood, outcome)
           /\ Ledger!Posterior(prior, likelihood, outcome) = Posterior(prior, likelihood, outcome)
<1>1. Ledger!Weights(prior, likelihood, outcome) = Weights(prior, likelihood, outcome)
  BY DEF Ledger!Weights, Weights
<1>2. PICK w : w = Weights(prior, likelihood, outcome)
  OBVIOUS
<1> QED BY <1>1, <1>2, SameTotal, SameNormalized
        DEF Ledger!Possible, Possible, Ledger!Posterior, Posterior

LEMMA LedgerOpens ==
    ASSUME IInv, [RevisionNext]_revisionVars, NEW prior \in Priors, RegisterDistribution(prior)
    PROVE  Ledger!Open(prior.ref, prior.probability)
<1>1. /\ Adds(distributions, distributions', prior.ref, prior)
      /\ prior.ref \notin DOMAIN distributions /\ accepted' = accepted
  BY WithAdds DEF RegisterDistribution, history
<1>2. Counted' = Counted
  BY <1>1 DEF Counted
<1>3. PICK b : b = [r \in DOMAIN distributions |-> distributions[r].probability]
  OBVIOUS
<1>4. DOMAIN b = DOMAIN distributions /\ \A r \in DOMAIN distributions : b[r] = distributions[r].probability
  BY <1>3
<1>5. [r \in DOMAIN distributions' |-> distributions'[r].probability] =
        [z \in DOMAIN b \cup {prior.ref} |-> IF z = prior.ref THEN prior.probability ELSE b[z]]
  <2>1. DOMAIN distributions' = DOMAIN b \cup {prior.ref}
    BY <1>1, <1>4 DEF Adds
  <2>2. \A z \in DOMAIN distributions' :
          distributions'[z].probability = IF z = prior.ref THEN prior.probability ELSE b[z]
    BY <1>1, <1>4 DEF Adds
  <2> QED BY <2>1, <2>2
<1> QED BY <1>1, <1>2, <1>3, <1>5 DEF Ledger!Open, Ledger!With

LEMMA LedgerLearns ==
    ASSUME IInv, [RevisionNext]_revisionVars, NEW w, NEW now, ApplyUpdate(w, now)
    PROVE  Ledger!LedgerNext
<1>1. PICK prior, posterior :
             /\ w \notin DOMAIN accepted /\ dependencies[w].source \in Sources
             /\ dependencies[w].source \notin Counted
             /\ Bound(w) \in DOMAIN distributions /\ prior = distributions[Bound(w)]
             /\ IsBelief(prior) /\ prior.ref = Bound(w)
             /\ IsModel(models[w]) /\ Outcome(w) \in Outcomes
             /\ Possible(prior.probability, models[w].likelihood, Outcome(w))
             /\ posterior.probability = Posterior(prior.probability, models[w].likelihood, Outcome(w))
             /\ distributions' = [distributions EXCEPT ![prior.ref] = posterior]
             /\ accepted' = With(accepted, w, Evidence(w, now))
  BY UpdateKnows
<1>2. PICK ref, source, likelihood, outcome, y :
         /\ ref = prior.ref /\ source = dependencies[w].source /\ likelihood = models[w].likelihood
         /\ outcome = Outcome(w) /\ y = Evidence(w, now)
  OBVIOUS
<1>3. /\ ref \in References /\ source \in Sources /\ likelihood \in Offered /\ outcome \in Outcomes
      /\ ref \in DOMAIN distributions /\ prior = distributions[ref]
  BY <1>1, <1>2 DEF IsBelief, IsModel
<1>4. Adds(accepted, accepted', w, y)
  BY <1>1, <1>2, WithAdds
<1>5. Counted' = Counted \cup {source}
  <2>1. y.declaration.source = source
    BY <1>2 DEF Evidence
  <2>2. \A u \in DOMAIN accepted : accepted'[u] = accepted[u]
    BY <1>1, <1>4 DEF Adds
  <2>3. \A x : x \in Counted' <=> x \in Counted \/ x = source
    BY <1>4, <2>1, <2>2 DEF Counted, Adds
  <2> QED BY <2>3
<1>6. PICK b : b = [r \in DOMAIN distributions |-> distributions[r].probability]
  OBVIOUS
<1>7. /\ DOMAIN b = DOMAIN distributions
      /\ \A r \in DOMAIN distributions : b[r] = distributions[r].probability
  BY <1>6
<1>8. /\ Ledger!Possible(b[ref], likelihood, outcome)
      /\ posterior.probability = Ledger!Posterior(b[ref], likelihood, outcome)
  BY <1>1, <1>2, <1>3, <1>7, SameArithmetic
<1>9. [r \in DOMAIN distributions' |-> distributions'[r].probability] =
        [b EXCEPT ![ref] = Ledger!Posterior(b[ref], likelihood, outcome)]
  <2>1. DOMAIN distributions' = DOMAIN b
    BY <1>1, <1>7
  <2>2. ASSUME NEW r \in DOMAIN distributions'
        PROVE  distributions'[r].probability =
                 IF r = ref THEN Ledger!Posterior(b[ref], likelihood, outcome) ELSE b[r]
    BY <1>1, <1>2, <1>3, <1>7, <1>8
  <2> QED BY <2>1, <2>2
<1>10. Ledger!Learn(ref, source, likelihood, outcome)
  BY <1>1, <1>2, <1>3, <1>5, <1>6, <1>7, <1>8, <1>9 DEF Ledger!Learn
<1>11. Outcomes = Ledger!Outcomes
  BY DEF Outcomes, Ledger!Outcomes
<1> QED BY <1>3, <1>10, <1>11 DEF Ledger!LedgerNext, References, Offered

(* I-183 to I-191, I-216: beliefs are a ledger of evidence.                 *)
THEOREM RefinesLedger == RevisionSpec => ImplementsLedger
<1>1. RevisionInit => Ledger!LedgerInit
  <2> SUFFICES ASSUME RevisionInit PROVE Ledger!LedgerInit
    OBVIOUS
  <2>1. distributions = Nothing /\ accepted = Nothing
    BY DEF RevisionInit, CalibrationInit, EvidenceInit
  <2>2. DOMAIN Nothing = {}
    BY DEF Nothing
  <2>3. Counted = {}
    BY <2>1, <2>2 DEF Counted
  <2>4. [r \in DOMAIN distributions |-> distributions[r].probability] = [x \in {} |-> {}]
    BY <2>1, <2>2
  <2> QED BY <2>3, <2>4 DEF Ledger!LedgerInit, Ledger!Nothing
<1>2. IInv /\ [RevisionNext]_revisionVars => [Ledger!LedgerNext]_(Ledger!ledger)
  <2> SUFFICES ASSUME IInv, [RevisionNext]_revisionVars PROVE [Ledger!LedgerNext]_(Ledger!ledger)
    OBVIOUS
  <2>1. ASSUME NEW prior \in Priors, RegisterDistribution(prior) PROVE Ledger!LedgerNext
    BY <2>1, LedgerOpens DEF Ledger!LedgerNext
  <2>2. ASSUME NEW w \in Works, NEW now \in Times, ApplyUpdate(w, now) PROVE Ledger!LedgerNext
    BY <2>2, LedgerLearns
  <2>3. CASE distributions' = distributions /\ accepted' = accepted
    BY <2>3 DEF Ledger!ledger, Counted
  <2> QED BY <2>1, <2>2, <2>3, Writers
<1> QED BY <1>1, <1>2, Invariance, PTL DEF RevisionSpec, ImplementsLedger, Ledger!LedgerSpec
================================================================================
