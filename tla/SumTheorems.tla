----------------------------- MODULE SumTheorems -----------------------------
(***************************************************************************)
(* Sums over finite sets: the existence and the recursion equation of the  *)
(* fold SumFunctionOnSet, and the laws of sums that the proofs about cash  *)
(* use.                                                                    *)
(*                                                                         *)
(* The fold is a recursive function, and induction over it is by a least   *)
(* counterexample: the library's induction theorems, which take an         *)
(* operator, cannot be used.                                               *)
(***************************************************************************)
EXTENDS Integers, FiniteSets, Functions, FiniteSetTheorems, WellFoundedInduction, TLAPS

(* A non-empty set of numbers has a least one. *)
LEMMA LeastNumber ==
    ASSUME NEW N \in SUBSET Nat, N # {} PROVE \E n \in N : \A k \in N : ~(k < n)
<1>1. IsWellFoundedOn(OpToRel(<, Nat), Nat)
  BY NatLessThanWellFounded
<1>2. PICK n \in N : \A k \in N : ~(<<k, n>> \in OpToRel(<, Nat))
  BY <1>1, WFMin
<1>3. \A k \in N : k < n => <<k, n>> \in OpToRel(<, Nat)
  BY DEF OpToRel
<1> QED
  BY <1>2, <1>3

(* A family of subsets of a finite set has a member that is not in it any  *)
(* more without one of its elements.                                       *)
LEMMA SmallestMember ==
    ASSUME NEW S, IsFiniteSet(S), NEW B \in SUBSET SUBSET S, B # {}
    PROVE  \E T \in B : \A x \in T : T \ {x} \notin B
<1> DEFINE N == {n \in Nat : \E T \in B : Cardinality(T) = n}
<1>1. \A T \in SUBSET S : IsFiniteSet(T) /\ Cardinality(T) \in Nat
  BY FS_Subset, FS_CardinalityType
<1>2. N # {} /\ N \in SUBSET Nat
  BY <1>1
<1>3. PICK n \in N : \A k \in N : ~(k < n)
  <2> HIDE DEF N
  <2> QED
    BY <1>2, LeastNumber
<1>4. PICK T \in B : Cardinality(T) = n
  OBVIOUS
<1>5. ASSUME NEW x \in T, T \ {x} \in B PROVE FALSE
  <2>1. Cardinality(T \ {x}) = Cardinality(T) - 1
    BY <1>1, FS_RemoveElement
  <2>2. Cardinality(T \ {x}) \in N
    BY <1>1, <1>5
  <2>3. Cardinality(T) \in Nat
    BY <1>1
  <2> HIDE DEF N
  <2> QED
    BY <1>3, <1>4, <2>1, <2>2, <2>3
<1> QED
  BY <1>5

Chosen(T) == CHOOSE x \in T : TRUE

(* The equation of the fold, at one subset, for a candidate g. *)
SumAt(F, g, T) == IF T = {} THEN 0 ELSE F[Chosen(T)] + g[T \ {Chosen(T)}]

(* The fold picks a member of the set. *)
LEMMA ChosenIsMember == ASSUME NEW T, T # {} PROVE Chosen(T) \in T
BY DEF Chosen

(* The recursion has a solution: one that is right up to n elements can be *)
(* made right up to n + 1.                                                 *)
LEMMA SumExists ==
    ASSUME NEW S, IsFiniteSet(S), NEW F \in [S -> Int]
    PROVE  \E g \in [SUBSET S -> Int] : \A T \in SUBSET S : g[T] = SumAt(F, g, T)
<1> DEFINE Right(g, n) == \A T \in SUBSET S : Cardinality(T) <= n => g[T] = SumAt(F, g, T)
           N == {n \in Nat : ~\E g \in [SUBSET S -> Int] : Right(g, n)}
<1>0. \A T \in SUBSET S : IsFiniteSet(T) /\ Cardinality(T) \in Nat /\ Cardinality(T) <= Cardinality(S)
  BY FS_Subset, FS_CardinalityType
<1>1. ASSUME N # {} PROVE FALSE
  <2>1. PICK n \in N : \A k \in N : ~(k < n)
    <3>1. N \in SUBSET Nat
      OBVIOUS
    <3> HIDE DEF N
    <3> QED
      BY <1>1, <3>1, LeastNumber
  <2>2. CASE n = 0
    <3> DEFINE g == [T \in SUBSET S |-> 0]
    <3>1. g \in [SUBSET S -> Int]
      OBVIOUS
    <3>2. \A T \in SUBSET S : Cardinality(T) <= 0 => T = {}
      BY <1>0, FS_EmptySet
    <3>3. Right(g, 0)
      BY <3>2 DEF SumAt
    <3> QED
      BY <2>2, <3>1, <3>3
  <2>3. CASE n # 0
    <3>1. n \in Nat /\ n - 1 \in Nat /\ n - 1 < n
      BY <2>3
    <3>2. PICK g \in [SUBSET S -> Int] : Right(g, n - 1)
      BY <2>1, <3>1
    <3> DEFINE h == [T \in SUBSET S |-> SumAt(F, g, T)]
    <3>3. ASSUME NEW T \in SUBSET S PROVE SumAt(F, g, T) \in Int
      <4>1. CASE T # {}
        <5>1. Chosen(T) \in S /\ T \ {Chosen(T)} \in SUBSET S
          BY <4>1, ChosenIsMember
        <5> QED
          BY <4>1, <5>1 DEF SumAt
      <4> QED
        BY <4>1 DEF SumAt
    <3>4. h \in [SUBSET S -> Int]
      BY <3>3
    <3>5. ASSUME NEW T \in SUBSET S, Cardinality(T) <= n PROVE h[T] = SumAt(F, h, T)
      <4>1. CASE T # {}
        <5> DEFINE c == Chosen(T)
                   U == T \ {c}
        <5>1. c \in T /\ U \in SUBSET S
          BY <4>1, ChosenIsMember
        <5>2. Cardinality(U) <= n - 1
          <6>1. Cardinality(U) = Cardinality(T) - 1
            BY <1>0, <5>1, FS_RemoveElement
          <6> QED
            BY <1>0, <3>1, <3>5, <6>1
        <5>3. g[U] = SumAt(F, g, U)
          BY <3>2, <5>1, <5>2
        <5>4. h[U] = g[U]
          BY <5>1, <5>3
        <5> QED
          BY <4>1, <5>4 DEF SumAt
      <4> QED
        BY <4>1 DEF SumAt
    <3>6. Right(h, n)
      BY <3>5
    <3> QED
      BY <3>4, <3>6
  <2> QED
    BY <2>2, <2>3
<1>2. Cardinality(S) \in Nat
  BY FS_CardinalityType
<1>3. PICK g \in [SUBSET S -> Int] : Right(g, Cardinality(S))
  BY <1>1, <1>2
<1> QED
  BY <1>0, <1>3

(* The sum of the model, at each subset: it is an integer and follows the  *)
(* recursion.                                                              *)
LEMMA SumRecursion ==
    ASSUME NEW S, IsFiniteSet(S), NEW F \in [S -> Int]
    PROVE  \A T \in SUBSET S :
             /\ SumFunctionOnSet(F, T) \in Int
             /\ T = {} => SumFunctionOnSet(F, T) = 0
             /\ T # {} => SumFunctionOnSet(F, T)
                            = F[Chosen(T)] + SumFunctionOnSet(F, T \ {Chosen(T)})
<1> DEFINE G(T, g) == [U \in SUBSET T |->
              IF U = {} THEN 0
              ELSE F[CHOOSE x \in U : TRUE] + g[U \ {CHOOSE x \in U : TRUE}]]
           it(T) == CHOOSE g : g = G(T, g)
<1>1. \A T : SumFunctionOnSet(F, T) = it(T)[T]
  BY DEF SumFunctionOnSet, FoldFunctionOnSet, MapThenFoldSet
<1>2. PICK s \in [SUBSET S -> Int] : \A T \in SUBSET S : s[T] = SumAt(F, s, T)
  BY SumExists
<1>3. ASSUME NEW T \in SUBSET S PROVE it(T) = G(T, it(T))
  <2> DEFINE r == [U \in SUBSET T |-> s[U]]
  <2>1. ASSUME NEW U \in SUBSET T PROVE r[U] = G(T, r)[U]
    <3>1. s[U] = SumAt(F, s, U)
      BY <1>2
    <3>2. CASE U # {}
      <4>1. U \ {Chosen(U)} \in SUBSET T
        OBVIOUS
      <4>2. r[U \ {Chosen(U)}] = s[U \ {Chosen(U)}]
        BY <4>1
      <4> QED
        BY <3>1, <3>2, <4>2 DEF SumAt, Chosen
    <3> QED
      BY <3>1, <3>2 DEF SumAt
  <2>2. G(T, r) = [U \in SUBSET T |-> G(T, r)[U]]
    OBVIOUS
  <2>3. r = G(T, r)
    <3> HIDE DEF G
    <3> QED
      BY <2>1, <2>2
  <2> HIDE DEF r, G
  <2> QED
    BY <2>3
<1>4. ASSUME NEW T \in SUBSET S, NEW U \in SUBSET T PROVE it(T)[U] = SumAt(F, it(T), U)
  <2>1. it(T)[U] = G(T, it(T))[U]
    BY <1>3
  <2> HIDE DEF it
  <2> QED
    BY <2>1 DEF SumAt, Chosen
<1> HIDE DEF it, G
<1>5. ASSUME NEW T \in SUBSET S PROVE \A U \in SUBSET T : it(T)[U] = s[U]
  <2> DEFINE B == {U \in SUBSET T : it(T)[U] # s[U]}
  <2> SUFFICES ASSUME B # {} PROVE FALSE
    OBVIOUS
  <2>1. IsFiniteSet(T)
    BY FS_Subset
  <2>2. PICK U \in B : \A x \in U : U \ {x} \notin B
    <3>1. B \in SUBSET SUBSET T
      OBVIOUS
    <3> HIDE DEF B
    <3> QED
      BY <2>1, <3>1, SmallestMember
  <2>3. it(T)[U] = SumAt(F, it(T), U) /\ s[U] = SumAt(F, s, U)
    BY <1>2, <1>4
  <2>4. U # {} => Chosen(U) \in U
    BY ChosenIsMember
  <2>5. U # {} => it(T)[U \ {Chosen(U)}] = s[U \ {Chosen(U)}]
    BY <2>2, <2>4
  <2> QED
    BY <2>2, <2>3, <2>5 DEF SumAt
<1>6. \A T \in SUBSET S : SumFunctionOnSet(F, T) = s[T]
  BY <1>1, <1>5
<1>7. ASSUME NEW T \in SUBSET S
      PROVE  /\ SumFunctionOnSet(F, T) = s[T] /\ s[T] = SumAt(F, s, T)
             /\ SumFunctionOnSet(F, T \ {Chosen(T)}) = s[T \ {Chosen(T)}]
  BY <1>2, <1>6
<1> QED
  BY <1>7 DEF SumAt

(* The empty sum. *)
LEMMA SumEmpty ==
    ASSUME NEW S, IsFiniteSet(S), NEW F \in [S -> Int] PROVE SumFunctionOnSet(F, {}) = 0
<1>1. {} \in SUBSET S
  OBVIOUS
<1> QED
  BY <1>1, SumRecursion

(* Any element may be taken out first. *)
LEMMA SumRemove ==
    ASSUME NEW S, IsFiniteSet(S), NEW F \in [S -> Int]
    PROVE  \A T \in SUBSET S : \A x \in T :
             SumFunctionOnSet(F, T) = F[x] + SumFunctionOnSet(F, T \ {x})
<1> DEFINE Sum(T) == SumFunctionOnSet(F, T)
           B == {T \in SUBSET S : \E x \in T : Sum(T) # F[x] + Sum(T \ {x})}
<1> SUFFICES ASSUME B # {} PROVE FALSE
  OBVIOUS
<1>1. PICK T \in B : \A x \in T : T \ {x} \notin B
  <2>1. B \in SUBSET SUBSET S
    OBVIOUS
  <2> HIDE DEF B
  <2> QED
    BY <2>1, SmallestMember
<1>2. PICK x \in T : Sum(T) # F[x] + Sum(T \ {x})
  OBVIOUS
<1>3. \A U \in SUBSET S : Sum(U) \in Int
  BY SumRecursion
<1> DEFINE c == Chosen(T)
<1>4. c \in T /\ Sum(T) = F[c] + Sum(T \ {c})
  BY <1>2, SumRecursion, ChosenIsMember
<1> HIDE DEF c
<1>5. c # x
  BY <1>2, <1>4
<1>6. Sum(T \ {c}) = F[x] + Sum((T \ {c}) \ {x})
  BY <1>1, <1>4, <1>5
<1>7. (T \ {x}) \ {c} = (T \ {c}) \ {x}
  OBVIOUS
<1>8. Sum(T \ {x}) = F[c] + Sum((T \ {c}) \ {x})
  <2>1. Sum(T \ {x}) = F[c] + Sum((T \ {x}) \ {c})
    BY <1>1, <1>2, <1>4, <1>5
  <2> QED
    BY <1>7, <2>1
<1>9. F[x] \in Int /\ F[c] \in Int /\ Sum((T \ {c}) \ {x}) \in Int
  BY <1>2, <1>3, <1>4
<1> DEFINE d == Sum((T \ {c}) \ {x})
<1>10. Sum(T) = F[c] + (F[x] + d) /\ Sum(T \ {x}) = F[c] + d /\ d \in Int
  BY <1>4, <1>6, <1>8, <1>9
<1>11. F[c] + (F[x] + d) = F[x] + (F[c] + d)
  BY <1>9, <1>10
<1> HIDE DEF Sum, B, d
<1> QED
  BY <1>2, <1>10, <1>11

(* The sum of a function is the sum of its parts. *)
LEMMA SumAdd ==
    ASSUME NEW S, IsFiniteSet(S), NEW F \in [S -> Int], NEW G \in [S -> Int], NEW H \in [S -> Int],
           NEW T \in SUBSET S, \A x \in T : F[x] = G[x] + H[x]
    PROVE  SumFunctionOnSet(F, T) = SumFunctionOnSet(G, T) + SumFunctionOnSet(H, T)
<1> DEFINE B == {U \in SUBSET T :
                   SumFunctionOnSet(F, U) # SumFunctionOnSet(G, U) + SumFunctionOnSet(H, U)}
<1> SUFFICES ASSUME B # {} PROVE FALSE
  OBVIOUS
<1>0. IsFiniteSet(T)
  BY FS_Subset
<1>1. PICK U \in B : \A x \in U : U \ {x} \notin B
  <2>1. B \in SUBSET SUBSET T
    OBVIOUS
  <2> HIDE DEF B
  <2> QED
    BY <1>0, <2>1, SmallestMember
<1>2. U \in SUBSET S /\ U \in SUBSET T
  OBVIOUS
<1>3. CASE U = {}
  <2>1. SumFunctionOnSet(F, U) = 0 /\ SumFunctionOnSet(G, U) = 0 /\ SumFunctionOnSet(H, U) = 0
    BY <1>3, SumEmpty
  <2> QED
    BY <2>1
<1>4. ASSUME NEW x \in U PROVE FALSE
  <2> DEFINE V == U \ {x}
  <2>1. V \in SUBSET S /\ V \in SUBSET T /\ V \notin B
    BY <1>1, <1>2
  <2>2. SumFunctionOnSet(F, V) = SumFunctionOnSet(G, V) + SumFunctionOnSet(H, V)
    BY <2>1
  <2>3. /\ SumFunctionOnSet(F, U) = F[x] + SumFunctionOnSet(F, V)
        /\ SumFunctionOnSet(G, U) = G[x] + SumFunctionOnSet(G, V)
        /\ SumFunctionOnSet(H, U) = H[x] + SumFunctionOnSet(H, V)
    BY <1>2, SumRemove
  <2>4. SumFunctionOnSet(G, V) \in Int /\ SumFunctionOnSet(H, V) \in Int
    BY <2>1, SumRecursion
  <2>5. G[x] \in Int /\ H[x] \in Int /\ F[x] = G[x] + H[x]
    BY <1>2
  <2>6. SumFunctionOnSet(F, U) # SumFunctionOnSet(G, U) + SumFunctionOnSet(H, U)
    OBVIOUS
  <2> HIDE DEF V, B
  <2> QED
    BY <2>2, <2>3, <2>4, <2>5, <2>6
<1> QED
  BY <1>3, <1>4

(* The sum over a set is the sum over a part of it and over the rest. *)
LEMMA SumSplit ==
    ASSUME NEW S, IsFiniteSet(S), NEW F \in [S -> Int], NEW T \in SUBSET S, NEW A \in SUBSET T
    PROVE  SumFunctionOnSet(F, T) = SumFunctionOnSet(F, A) + SumFunctionOnSet(F, T \ A)
<1> DEFINE Sum(U) == SumFunctionOnSet(F, U)
           B == {U \in SUBSET A : Sum(T \ (A \ U)) # Sum(U) + Sum(T \ A)}
<1>0. IsFiniteSet(A)
  BY FS_Subset
<1>1. ASSUME B # {} PROVE FALSE
  <2>1. PICK U \in B : \A x \in U : U \ {x} \notin B
    <3>1. B \in SUBSET SUBSET A
      OBVIOUS
    <3> HIDE DEF B
    <3> QED
      BY <1>0, <1>1, <3>1, SmallestMember
  <2>2. U \in SUBSET A /\ Sum(T \ (A \ U)) # Sum(U) + Sum(T \ A)
    OBVIOUS
  <2>3. \A W \in SUBSET S : Sum(W) \in Int
    BY SumRecursion
  <2>4. CASE U = {}
    <3>1. T \ (A \ U) = T \ A /\ Sum(U) = 0
      BY <2>2, <2>4, SumEmpty
    <3>2. Sum(T \ A) \in Int
      BY <2>3
    <3>3. Sum(T \ (A \ U)) = Sum(T \ A)
      BY <3>1
    <3> HIDE DEF Sum, B
    <3> QED
      BY <2>2, <3>1, <3>2, <3>3
  <2>5. ASSUME NEW x \in U PROVE FALSE
    <3> DEFINE V == U \ {x}
    <3>1. Sum(T \ (A \ V)) = Sum(V) + Sum(T \ A)
      BY <2>1, <2>2
    <3>2. (T \ (A \ U)) \ {x} = T \ (A \ V) /\ x \in T \ (A \ U)
      BY <2>2
    <3>3. Sum(T \ (A \ U)) = F[x] + Sum(T \ (A \ V)) /\ Sum(U) = F[x] + Sum(V)
      BY <2>2, <3>2, SumRemove
    <3>4. F[x] \in Int /\ Sum(V) \in Int /\ Sum(T \ A) \in Int
      BY <2>2, <2>3
    <3> HIDE DEF V, Sum, B
    <3> QED
      BY <2>2, <3>1, <3>3, <3>4
  <2> QED
    BY <2>4, <2>5
<1>2. A \notin B
  BY <1>1
<1>3. T \ (A \ A) = T
  OBVIOUS
<1> QED
  BY <1>2, <1>3

(* A sum of natural numbers is one. *)
LEMMA SumNatural ==
    ASSUME NEW S, IsFiniteSet(S), NEW F \in [S -> Int], NEW T \in SUBSET S, \A x \in T : F[x] >= 0
    PROVE  SumFunctionOnSet(F, T) >= 0
<1> DEFINE B == {U \in SUBSET T : ~(SumFunctionOnSet(F, U) >= 0)}
<1> SUFFICES ASSUME B # {} PROVE FALSE
  OBVIOUS
<1>0. IsFiniteSet(T)
  BY FS_Subset
<1>1. PICK U \in B : \A x \in U : U \ {x} \notin B
  <2>1. B \in SUBSET SUBSET T
    OBVIOUS
  <2> HIDE DEF B
  <2> QED
    BY <1>0, <2>1, SmallestMember
<1>2. U \in SUBSET S /\ U \in SUBSET T /\ ~(SumFunctionOnSet(F, U) >= 0)
  OBVIOUS
<1>3. CASE U = {}
  <2>1. SumFunctionOnSet(F, U) = 0
    BY <1>3, SumEmpty
  <2> QED
    BY <1>2, <2>1
<1>4. ASSUME NEW x \in U PROVE FALSE
  <2>1. SumFunctionOnSet(F, U \ {x}) >= 0
    BY <1>1, <1>2
  <2>2. SumFunctionOnSet(F, U) = F[x] + SumFunctionOnSet(F, U \ {x})
    BY <1>2, SumRemove
  <2>3. SumFunctionOnSet(F, U \ {x}) \in Int /\ F[x] \in Int /\ F[x] >= 0
    BY <1>2, SumRecursion
  <2> HIDE DEF B
  <2> QED
    BY <1>2, <2>1, <2>2, <2>3
<1> QED
  BY <1>3, <1>4

(* Only the values on the set count, whatever the functions' domains. *)
LEMMA SumSame ==
    ASSUME NEW S, IsFiniteSet(S), NEW F \in [S -> Int],
           NEW R, IsFiniteSet(R), NEW G \in [R -> Int],
           NEW T \in SUBSET (S \cap R), \A x \in T : F[x] = G[x]
    PROVE  SumFunctionOnSet(F, T) = SumFunctionOnSet(G, T)
<1> DEFINE B == {U \in SUBSET T : SumFunctionOnSet(F, U) # SumFunctionOnSet(G, U)}
<1> SUFFICES ASSUME B # {} PROVE FALSE
  OBVIOUS
<1>0. IsFiniteSet(T)
  BY FS_Subset
<1>1. PICK U \in B : \A x \in U : U \ {x} \notin B
  <2>1. B \in SUBSET SUBSET T
    OBVIOUS
  <2> HIDE DEF B
  <2> QED
    BY <1>0, <2>1, SmallestMember
<1>2. /\ U \in SUBSET S /\ U \in SUBSET R /\ U \in SUBSET T
      /\ SumFunctionOnSet(F, U) # SumFunctionOnSet(G, U)
  OBVIOUS
<1>3. CASE U = {}
  <2>1. SumFunctionOnSet(F, U) = 0 /\ SumFunctionOnSet(G, U) = 0
    BY <1>3, SumEmpty
  <2> QED
    BY <1>2, <2>1
<1>4. ASSUME NEW x \in U PROVE FALSE
  <2>1. SumFunctionOnSet(F, U \ {x}) = SumFunctionOnSet(G, U \ {x})
    BY <1>1, <1>2
  <2>2. SumFunctionOnSet(F, U) = F[x] + SumFunctionOnSet(F, U \ {x})
    BY <1>2, SumRemove
  <2>3. SumFunctionOnSet(G, U) = G[x] + SumFunctionOnSet(G, U \ {x})
    BY <1>2, SumRemove
  <2> HIDE DEF B
  <2> QED
    BY <1>2, <2>1, <2>2, <2>3
<1> QED
  BY <1>3, <1>4

(* A sum of zeros. *)
LEMMA SumZero ==
    ASSUME NEW S, IsFiniteSet(S), NEW F \in [S -> Int], NEW T \in SUBSET S, \A x \in T : F[x] = 0
    PROVE  SumFunctionOnSet(F, T) = 0
<1>1. \A x \in T : F[x] = F[x] + F[x]
  OBVIOUS
<1>2. SumFunctionOnSet(F, T) = SumFunctionOnSet(F, T) + SumFunctionOnSet(F, T)
  BY <1>1, SumAdd
<1>3. SumFunctionOnSet(F, T) \in Int
  BY SumRecursion
<1>4. \A n \in Int : n = n + n => n = 0
  OBVIOUS
<1> QED
  BY <1>2, <1>3, <1>4

(* A sum over less, of no larger numbers, is no larger. *)
LEMMA SumShrinks ==
    ASSUME NEW S, IsFiniteSet(S), NEW F \in [S -> Int], NEW G \in [S -> Int],
           NEW A \in SUBSET S, NEW B \in SUBSET S, A \subseteq B,
           \A x \in B : G[x] >= 0, \A x \in A : F[x] <= G[x]
    PROVE  SumFunctionOnSet(F, A) <= SumFunctionOnSet(G, B)
<1> DEFINE H == [x \in S |-> G[x] - F[x]]
<1>1. H \in [S -> Int] /\ \A x \in A : G[x] = F[x] + H[x] /\ H[x] >= 0
  OBVIOUS
<1> HIDE DEF H
<1>2. SumFunctionOnSet(G, A) = SumFunctionOnSet(F, A) + SumFunctionOnSet(H, A)
  BY <1>1, SumAdd
<1>3. SumFunctionOnSet(H, A) >= 0
  BY <1>1, SumNatural
<1>4. SumFunctionOnSet(G, B) = SumFunctionOnSet(G, A) + SumFunctionOnSet(G, B \ A)
  BY SumSplit
<1>5. SumFunctionOnSet(G, B \ A) >= 0
  BY SumNatural
<1>6. /\ SumFunctionOnSet(F, A) \in Int /\ SumFunctionOnSet(G, A) \in Int
      /\ SumFunctionOnSet(H, A) \in Int
      /\ SumFunctionOnSet(G, B) \in Int /\ SumFunctionOnSet(G, B \ A) \in Int
  BY <1>1, SumRecursion
<1> QED
  BY <1>2, <1>3, <1>4, <1>5, <1>6

=============================================================================
