--------------------------------- MODULE Sums ---------------------------------
(***************************************************************************)
(* Facts about sums over finite sets, for the proofs about outputs that    *)
(* are added up.  The definition of a sum picks its elements one by one;   *)
(* here it is shown that the order does not matter and that a sum may be   *)
(* split by any key.  The induction is over the subsets of a finite set.   *)
(***************************************************************************)
EXTENDS Integers, FiniteSets, Functions, FiniteSetTheorems, TLAPS

(* A set of numbers has every number if it has 0 and the next of each.     *)
Less == {p \in Nat \X Nat : p[1] < p[2]}
LEMMA Counting ==
  ASSUME NEW T, 0 \in T, \A n \in Nat : n \in T => n + 1 \in T
  PROVE  \A n \in Nat : n \in T
  <1> SUFFICES ASSUME Nat \ T # {} PROVE FALSE
    OBVIOUS
  <1>1. IsWellFoundedOn(Less, Nat)
    BY NatLessThanWellFounded DEF OpToRel, Less
  <1>2. PICK n \in Nat \ T : \A m \in Nat \ T : ~(<<m, n>> \in Less)
    BY <1>1, WFMin
  <1>3. n # 0 /\ n - 1 \in Nat /\ <<n - 1, n>> \in Less
    BY <1>2 DEF Less
  <1> QED BY <1>2, <1>3

(* A set of subsets has every subset if each is in it whose own strict     *)
(* subsets are.                                                            *)
LEMMA StrongSubsets ==
  ASSUME NEW D, IsFiniteSet(D), NEW T,
         \A U \in SUBSET D : (\A V \in SUBSET U : V # U => V \in T) => U \in T
  PROVE  \A U \in SUBSET D : U \in T
  <1> SUFFICES ASSUME (SUBSET D) \ T # {} PROVE FALSE
    OBVIOUS
  <1>1. IsWellFoundedOn(StrictSubsetOrdering(D), SUBSET D)
    <2>1. FiniteSubsetsOf(D) = SUBSET D
      BY FS_FiniteSubsetsOfFinite
    <2>2. IsWellFoundedOn(StrictSubsetOrdering(D), FiniteSubsetsOf(D))
      BY FS_StrictSubsetOrderingWellFounded
    <2> QED BY <2>1, <2>2
  <1>2. PICK U \in (SUBSET D) \ T :
          \A V \in (SUBSET D) \ T : ~(<<V, U>> \in StrictSubsetOrdering(D))
    <2> DEFINE X == (SUBSET D) \ T
    <2>1. X \subseteq SUBSET D /\ X # {}
      OBVIOUS
    <2> HIDE DEF X
    <2>2. \E U \in X : \A V \in X : ~(<<V, U>> \in StrictSubsetOrdering(D))
      BY <1>1, <2>1, WFMin
    <2> QED BY <2>2 DEF X
  <1>3. \A V \in SUBSET U : V # U => V \in T
    BY <1>2 DEF StrictSubsetOrdering
  <1> QED BY <1>2, <1>3

(* A set of subsets has every subset if the empty one is in it and it is   *)
(* closed under adding an element.                                         *)
LEMMA GrowingSubsets ==
  ASSUME NEW D, IsFiniteSet(D), NEW T, {} \in T,
         \A V \in SUBSET D : \A x \in D \ V : V \in T => V \cup {x} \in T
  PROVE  D \in T
  <1>1. ASSUME NEW U \in SUBSET D, \A V \in SUBSET U : V # U => V \in T
        PROVE  U \in T
    <2>1. CASE U = {}
      BY <2>1
    <2>2. CASE U # {}
      <3>1. PICK x \in U : TRUE
        BY <2>2
      <3>2. U \ {x} \in SUBSET D /\ x \in D \ (U \ {x}) /\ U \ {x} \in T
        BY <1>1
      <3>3. (U \ {x}) \cup {x} \in T
        BY <3>2
      <3>4. (U \ {x}) \cup {x} = U
        OBVIOUS
      <3> QED BY <3>3, <3>4
    <2> QED BY <2>1, <2>2
  <1>2. \A U \in SUBSET D : U \in T
    BY <1>1, StrongSubsets
  <1> QED BY <1>2

-----------------------------------------------------------------------------
(* The function that the definition of a sum chooses.                      *)
Picked(s) == CHOOSE x \in s : TRUE
Sums(g, f, A) ==
  g = [s \in SUBSET A |-> IF s = {} THEN 0 ELSE f[Picked(s)] + g[s \ {Picked(s)}]]

LEMMA SumIsChosen ==
  ASSUME NEW f, NEW A
  PROVE  SumFunctionOnSet(f, A) = (CHOOSE g : Sums(g, f, A))[A]
  BY DEF SumFunctionOnSet, FoldFunctionOnSet, MapThenFoldSet, Sums, Picked

LEMMA PickedIn ==
  ASSUME NEW s, s # {}
  PROVE  Picked(s) \in s
  BY DEF Picked

(* The same for the subsets of at most n elements.                         *)
Upto(A, n) == {s \in SUBSET A : Cardinality(s) <= n}
SumsUpto(g, f, A, n) ==
  g = [s \in Upto(A, n) |-> IF s = {} THEN 0 ELSE f[Picked(s)] + g[s \ {Picked(s)}]]

LEMMA SumsExist ==
  ASSUME NEW f, NEW A, IsFiniteSet(A)
  PROVE  \E g : Sums(g, f, A)
  <1> DEFINE T == {n \in Nat : \E g : SumsUpto(g, f, A, n)}
  <1>1. 0 \in T
    <2> DEFINE g == [s \in Upto(A, 0) |-> 0]
    <2>1. \A s \in Upto(A, 0) : s = {}
      BY FS_EmptySet, FS_Subset, FS_CardinalityType DEF Upto
    <2>2. g = [s \in Upto(A, 0) |-> IF s = {} THEN 0 ELSE f[Picked(s)] + g[s \ {Picked(s)}]]
      BY <2>1
    <2>3. SumsUpto(g, f, A, 0)
      BY <2>2 DEF SumsUpto
    <2> HIDE DEF g
    <2> QED BY <2>3
  <1>2. ASSUME NEW n \in Nat, n \in T
        PROVE  n + 1 \in T
    <2>1. PICK g : SumsUpto(g, f, A, n)
      BY <1>2
    <2> DEFINE h == [s \in Upto(A, n + 1) |->
                       IF s = {} THEN 0 ELSE f[Picked(s)] + g[s \ {Picked(s)}]]
               k == [s \in Upto(A, n + 1) |->
                       IF s = {} THEN 0 ELSE f[Picked(s)] + h[s \ {Picked(s)}]]
    <2>2. \A s \in Upto(A, n) : s \in Upto(A, n + 1) /\ h[s] = g[s]
      <3> SUFFICES ASSUME NEW s \in Upto(A, n)
                   PROVE  s \in Upto(A, n + 1) /\ h[s] = g[s]
        OBVIOUS
      <3>1. Cardinality(s) \in Nat
        BY FS_Subset, FS_CardinalityType DEF Upto
      <3>2. s \in Upto(A, n + 1)
        BY <3>1 DEF Upto
      <3>3. g[s] = IF s = {} THEN 0 ELSE f[Picked(s)] + g[s \ {Picked(s)}]
        BY <2>1 DEF SumsUpto
      <3> QED BY <3>2, <3>3
    <2>3. \A s \in Upto(A, n + 1) : s # {} => s \ {Picked(s)} \in Upto(A, n)
      <3> SUFFICES ASSUME NEW s \in Upto(A, n + 1), s # {}
                   PROVE  s \ {Picked(s)} \in Upto(A, n)
        OBVIOUS
      <3>1. IsFiniteSet(s) /\ Cardinality(s) \in Nat /\ Picked(s) \in s
        BY FS_Subset, FS_CardinalityType, PickedIn DEF Upto
      <3>2. Cardinality(s \ {Picked(s)}) = Cardinality(s) - 1
        BY <3>1, FS_RemoveElement
      <3> QED BY <3>1, <3>2 DEF Upto
    <2>4. \A s \in Upto(A, n + 1) : h[s] = k[s]
      BY <2>2, <2>3
    <2>5. /\ h = [s \in Upto(A, n + 1) |-> h[s]]
          /\ k = [s \in Upto(A, n + 1) |-> k[s]]
      OBVIOUS
    <2>6. h = k
      <3> HIDE DEF h, k
      <3> QED BY <2>4, <2>5
    <2>7. SumsUpto(h, f, A, n + 1)
      BY <2>6 DEF SumsUpto
    <2> HIDE DEF h
    <2> QED BY <2>7
  <1>3. Cardinality(A) \in Nat /\ Upto(A, Cardinality(A)) = SUBSET A
    BY FS_CardinalityType, FS_Subset DEF Upto
  <1>4. Cardinality(A) \in T
    <2> HIDE DEF T
    <2> QED BY <1>1, <1>2, <1>3, Counting
  <1> QED BY <1>3, <1>4 DEF Sums, SumsUpto

(* Two such functions agree where both are defined.                        *)
LEMMA SumsAgree ==
  ASSUME NEW f, NEW A, NEW B, IsFiniteSet(A), B \subseteq A,
         NEW g, Sums(g, f, A), NEW h, Sums(h, f, B)
  PROVE  g[B] = h[B]
  <1> DEFINE T == {s \in SUBSET B : g[s] = h[s]}
  <1>1. IsFiniteSet(B)
    BY FS_Subset
  <1>2. ASSUME NEW s \in SUBSET B, \A t \in SUBSET s : t # s => t \in T
        PROVE  s \in T
    <2>1. /\ g[s] = IF s = {} THEN 0 ELSE f[Picked(s)] + g[s \ {Picked(s)}]
          /\ h[s] = IF s = {} THEN 0 ELSE f[Picked(s)] + h[s \ {Picked(s)}]
      BY DEF Sums
    <2>2. s # {} => s \ {Picked(s)} \in T
      BY <1>2, PickedIn
    <2> QED BY <2>1, <2>2
  <1>3. \A s \in SUBSET B : s \in T
    <2> HIDE DEF T
    <2> QED BY <1>1, <1>2, StrongSubsets
  <1> QED BY <1>3

(* The equations of a sum.                                                 *)
LEMMA SumPicks ==
  ASSUME NEW f, NEW A, IsFiniteSet(A)
  PROVE  SumFunctionOnSet(f, A) =
           IF A = {} THEN 0 ELSE f[Picked(A)] + SumFunctionOnSet(f, A \ {Picked(A)})
  <1> DEFINE B == A \ {Picked(A)}
             g == CHOOSE x : Sums(x, f, A)
             h == CHOOSE x : Sums(x, f, B)
  <1>1. IsFiniteSet(B) /\ B \subseteq A
    BY FS_RemoveElement
  <1>2. Sums(g, f, A) /\ Sums(h, f, B)
    BY <1>1, SumsExist
  <1>3. SumFunctionOnSet(f, A) = g[A] /\ SumFunctionOnSet(f, B) = h[B]
    BY SumIsChosen
  <1>4. g[A] = IF A = {} THEN 0 ELSE f[Picked(A)] + g[B]
    BY <1>2 DEF Sums
  <1> HIDE DEF g, h
  <1>5. g[B] = h[B]
    BY <1>1, <1>2, SumsAgree
  <1> QED BY <1>3, <1>4, <1>5

Numeric(f, A) == \A x \in A : f[x] \in Nat

LEMMA SumNatural ==
  ASSUME NEW f, NEW A, IsFiniteSet(A), Numeric(f, A)
  PROVE  SumFunctionOnSet(f, A) \in Nat
  <1> DEFINE T == {s \in SUBSET A : SumFunctionOnSet(f, s) \in Nat}
  <1>1. ASSUME NEW s \in SUBSET A, \A t \in SUBSET s : t # s => t \in T
        PROVE  s \in T
    <2>1. SumFunctionOnSet(f, s) =
            IF s = {} THEN 0 ELSE f[Picked(s)] + SumFunctionOnSet(f, s \ {Picked(s)})
      BY SumPicks, FS_Subset
    <2>2. s # {} => s \ {Picked(s)} \in T /\ f[Picked(s)] \in Nat
      BY <1>1, PickedIn DEF Numeric
    <2> QED BY <2>1, <2>2
  <1>2. \A s \in SUBSET A : s \in T
    <2> HIDE DEF T
    <2> QED BY <1>1, StrongSubsets
  <1> QED BY <1>2

(* Any element may be taken out first.                                     *)
LEMMA SumWithout ==
  ASSUME NEW f, NEW A, IsFiniteSet(A), Numeric(f, A), NEW x \in A
  PROVE  SumFunctionOnSet(f, A) = f[x] + SumFunctionOnSet(f, A \ {x})
  <1> DEFINE S(s) == SumFunctionOnSet(f, s)
             T == {s \in SUBSET A : \A y \in s : S(s) = f[y] + S(s \ {y})}
  <1>1. ASSUME NEW s \in SUBSET A, \A t \in SUBSET s : t # s => t \in T
        PROVE  s \in T
    <2> SUFFICES ASSUME NEW y \in s
                 PROVE  S(s) = f[y] + S(s \ {y})
      OBVIOUS
    <2> DEFINE p == Picked(s)
    <2>1. p \in s
      BY PickedIn
    <2> HIDE DEF p
    <2>2. IsFiniteSet(s) /\ S(s) = f[p] + S(s \ {p})
      <3>1. IsFiniteSet(s)
        BY FS_Subset
      <3>2. S(s) = IF s = {} THEN 0 ELSE f[p] + S(s \ {p})
        BY <3>1, SumPicks DEF p
      <3> QED BY <2>1, <3>1, <3>2
    <2>3. CASE p = y
      BY <2>2, <2>3
    <2>4. CASE p # y
      <3>1. /\ s \ {p} \in T /\ y \in s \ {p}
            /\ s \ {y} \in T /\ p \in s \ {y}
        BY <1>1, <2>1, <2>4
      <3> DEFINE rest == (s \ {y}) \ {p}
      <3>2. (s \ {p}) \ {y} = rest
        OBVIOUS
      <3>3. f[y] \in Nat /\ f[p] \in Nat /\ S(rest) \in Nat
        <4>1. IsFiniteSet(rest) /\ Numeric(f, rest)
          BY <2>2, FS_RemoveElement DEF Numeric
        <4> QED BY <2>1, <4>1, SumNatural DEF Numeric
      <3>4. S(s \ {p}) = f[y] + S(rest) /\ S(s \ {y}) = f[p] + S(rest)
        BY <3>1, <3>2
      <3> HIDE DEF S, rest
      <3> QED BY <2>2, <3>3, <3>4
    <2> QED BY <2>3, <2>4
  <1>2. \A s \in SUBSET A : s \in T
    <2> HIDE DEF T
    <2> QED BY <1>1, StrongSubsets
  <1> QED BY <1>2

LEMMA SumOfNone ==
  ASSUME NEW f
  PROVE  SumFunctionOnSet(f, {}) = 0
  BY SumPicks, FS_EmptySet

LEMMA SumWith ==
  ASSUME NEW f, NEW A, IsFiniteSet(A), NEW x, x \notin A, Numeric(f, A \cup {x})
  PROVE  SumFunctionOnSet(f, A \cup {x}) = f[x] + SumFunctionOnSet(f, A)
  <1>1. IsFiniteSet(A \cup {x}) /\ (A \cup {x}) \ {x} = A
    BY FS_AddElement
  <1> QED BY <1>1, SumWithout

(* Only the values on the set count.                                       *)
LEMMA SumSame ==
  ASSUME NEW f, NEW g, NEW A, IsFiniteSet(A), \A x \in A : f[x] = g[x]
  PROVE  SumFunctionOnSet(f, A) = SumFunctionOnSet(g, A)
  <1> DEFINE T == {s \in SUBSET A : SumFunctionOnSet(f, s) = SumFunctionOnSet(g, s)}
  <1>1. ASSUME NEW s \in SUBSET A, \A t \in SUBSET s : t # s => t \in T
        PROVE  s \in T
    <2>1. IsFiniteSet(s)
      BY FS_Subset
    <2>2. SumFunctionOnSet(f, s) =
            IF s = {} THEN 0 ELSE f[Picked(s)] + SumFunctionOnSet(f, s \ {Picked(s)})
      BY <2>1, SumPicks
    <2>3. SumFunctionOnSet(g, s) =
            IF s = {} THEN 0 ELSE g[Picked(s)] + SumFunctionOnSet(g, s \ {Picked(s)})
      BY <2>1, SumPicks
    <2>4. s # {} => s \ {Picked(s)} \in T /\ Picked(s) \in A
      BY <1>1, PickedIn
    <2> QED BY <2>2, <2>3, <2>4
  <1>2. \A s \in SUBSET A : s \in T
    <2> HIDE DEF T
    <2> QED BY <1>1, StrongSubsets
  <1> QED BY <1>2

(* The sum over two sets that are apart.                                   *)
LEMMA SumOfBoth ==
  ASSUME NEW f, NEW A, NEW B, IsFiniteSet(A), IsFiniteSet(B), A \cap B = {},
         Numeric(f, A \cup B)
  PROVE  SumFunctionOnSet(f, A \cup B) = SumFunctionOnSet(f, A) + SumFunctionOnSet(f, B)
  <1> DEFINE S(s) == SumFunctionOnSet(f, s)
             T == {s \in SUBSET B : S(A \cup s) = S(A) + S(s)}
  <1>1. {} \in T
    <2>1. S({}) = 0 /\ A \cup {} = A
      BY SumOfNone
    <2>2. S(A) \in Nat
      BY SumNatural DEF Numeric
    <2> HIDE DEF S
    <2> QED BY <2>1, <2>2
  <1>2. ASSUME NEW s \in SUBSET B, NEW x \in B \ s, s \in T
        PROVE  s \cup {x} \in T
    <2>1. IsFiniteSet(s) /\ IsFiniteSet(A \cup s)
      BY FS_Subset, FS_Union
    <2>2. x \notin A \cup s /\ (A \cup s) \cup {x} = A \cup (s \cup {x})
      OBVIOUS
    <2>3. Numeric(f, (A \cup s) \cup {x}) /\ Numeric(f, s \cup {x}) /\ Numeric(f, A) /\ Numeric(f, s)
      BY DEF Numeric
    <2>4. S((A \cup s) \cup {x}) = f[x] + S(A \cup s)
      BY <2>1, <2>2, <2>3, SumWith
    <2>5. S(s \cup {x}) = f[x] + S(s)
      BY <2>1, <2>3, SumWith
    <2>6. S(A) \in Nat /\ S(s) \in Nat /\ f[x] \in Nat
      BY <2>1, <2>3, SumNatural DEF Numeric
    <2>7. S(A \cup s) = S(A) + S(s)
      BY <1>2
    <2>8. S(A \cup (s \cup {x})) = f[x] + S(A \cup s)
      BY <2>2, <2>4
    <2> HIDE DEF S
    <2> QED BY <2>5, <2>6, <2>7, <2>8
  <1>3. B \in T
    <2> HIDE DEF T
    <2> QED BY <1>1, <1>2, GrowingSubsets
  <1> QED BY <1>3

(* A sum of values up to m, and the values in a sum.                       *)
LEMMA SumBounded ==
  ASSUME NEW f, NEW A, IsFiniteSet(A), NEW m \in Nat, \A x \in A : f[x] \in 0..m
  PROVE  SumFunctionOnSet(f, A) \in 0..(m * Cardinality(A))
  <1> DEFINE T == {s \in SUBSET A : SumFunctionOnSet(f, s) \in 0..(m * Cardinality(s))}
  <1>1. {} \in T
    BY SumOfNone, FS_EmptySet
  <1>2. ASSUME NEW s \in SUBSET A, NEW x \in A \ s, s \in T
        PROVE  s \cup {x} \in T
    <2>1. IsFiniteSet(s) /\ Numeric(f, s \cup {x})
      BY FS_Subset DEF Numeric
    <2>2. SumFunctionOnSet(f, s \cup {x}) = f[x] + SumFunctionOnSet(f, s)
      BY <2>1, SumWith
    <2>3. Cardinality(s \cup {x}) = Cardinality(s) + 1 /\ Cardinality(s) \in Nat
      BY <2>1, FS_AddElement, FS_CardinalityType
    <2>4. m * (Cardinality(s) + 1) = m * Cardinality(s) + m /\ m * Cardinality(s) \in Nat
      BY <2>3
    <2>5. f[x] \in 0..m /\ SumFunctionOnSet(f, s) \in 0..(m * Cardinality(s))
      BY <1>2
    <2> QED BY <2>2, <2>3, <2>4, <2>5
  <1>3. A \in T
    <2> HIDE DEF T
    <2> QED BY <1>1, <1>2, GrowingSubsets
  <1> QED BY <1>3

LEMMA InSum ==
  ASSUME NEW f, NEW A, IsFiniteSet(A), Numeric(f, A), NEW x \in A
  PROVE  f[x] <= SumFunctionOnSet(f, A)
  <1>1. IsFiniteSet(A \ {x}) /\ Numeric(f, A \ {x})
    BY FS_RemoveElement DEF Numeric
  <1>2. SumFunctionOnSet(f, A \ {x}) \in Nat /\ f[x] \in Nat
    BY <1>1, SumNatural DEF Numeric
  <1> QED BY <1>2, SumWithout

(* Zeros do not count.                                                     *)
LEMMA SumOfRest ==
  ASSUME NEW f, NEW A, IsFiniteSet(A), NEW B, B \subseteq A, Numeric(f, B),
         \A x \in A \ B : f[x] = 0
  PROVE  SumFunctionOnSet(f, A) = SumFunctionOnSet(f, B)
  <1> DEFINE C == A \ B
  <1>1. IsFiniteSet(B) /\ IsFiniteSet(C) /\ B \cup C = A /\ B \cap C = {}
    BY FS_Subset
  <1>2. Numeric(f, B \cup C) /\ \A x \in C : f[x] \in 0..0
    BY DEF Numeric
  <1>3. Cardinality(C) \in Nat
    BY <1>1, FS_CardinalityType
  <1> HIDE DEF C
  <1>4. SumFunctionOnSet(f, C) \in 0..(0 * Cardinality(C))
    BY <1>1, <1>2, SumBounded
  <1>5. SumFunctionOnSet(f, C) = 0
    BY <1>3, <1>4
  <1>6. SumFunctionOnSet(f, B \cup C) = SumFunctionOnSet(f, B) + SumFunctionOnSet(f, C)
    BY <1>1, <1>2, SumOfBoth
  <1>7. SumFunctionOnSet(f, B) \in Nat
    BY <1>1, SumNatural
  <1> QED BY <1>1, <1>5, <1>6, <1>7

(* The elements of a set are as many as the sum of a one for each.         *)
LEMMA SumOfOnes ==
  ASSUME NEW f, NEW A, IsFiniteSet(A), \A x \in A : f[x] = 1
  PROVE  SumFunctionOnSet(f, A) = Cardinality(A)
  <1> DEFINE T == {s \in SUBSET A : SumFunctionOnSet(f, s) = Cardinality(s)}
  <1>1. {} \in T
    BY SumOfNone, FS_EmptySet
  <1>2. ASSUME NEW s \in SUBSET A, NEW x \in A \ s, s \in T
        PROVE  s \cup {x} \in T
    <2>1. IsFiniteSet(s) /\ Numeric(f, s \cup {x})
      BY FS_Subset DEF Numeric
    <2>2. SumFunctionOnSet(f, s \cup {x}) = f[x] + SumFunctionOnSet(f, s)
      BY <2>1, SumWith
    <2>3. Cardinality(s \cup {x}) = Cardinality(s) + 1 /\ Cardinality(s) \in Nat
      BY <2>1, FS_AddElement, FS_CardinalityType
    <2> QED BY <1>2, <2>2, <2>3
  <1>3. A \in T
    <2> HIDE DEF T
    <2> QED BY <1>1, <1>2, GrowingSubsets
  <1> QED BY <1>3

-----------------------------------------------------------------------------
(* A function whose value at one key grows by n.                           *)
LEMMA SumGrows ==
  ASSUME NEW K, IsFiniteSet(K), NEW f, NEW g, Numeric(f, K), NEW k \in K, NEW n \in Nat,
         g[k] = n + f[k], \A j \in K \ {k} : g[j] = f[j]
  PROVE  SumFunctionOnSet(g, K) = n + SumFunctionOnSet(f, K)
  <1> DEFINE R == K \ {k}
  <1>1. IsFiniteSet(R) /\ Numeric(f, R) /\ Numeric(g, K)
    BY FS_RemoveElement DEF Numeric
  <1>2. SumFunctionOnSet(f, R) = SumFunctionOnSet(g, R)
    BY <1>1, SumSame
  <1>3. /\ SumFunctionOnSet(f, K) = f[k] + SumFunctionOnSet(f, R)
        /\ SumFunctionOnSet(g, K) = g[k] + SumFunctionOnSet(g, R)
    BY <1>1, SumWithout
  <1>4. f[k] \in Nat /\ SumFunctionOnSet(f, R) \in Nat
    BY <1>1, SumNatural DEF Numeric
  <1> QED BY <1>2, <1>3, <1>4

(* A sum is the sum of its parts by a key.                                 *)
ByKey(f, A, key, K) == [k \in K |-> SumFunctionOnSet(f, {x \in A : key[x] = k})]
LEMMA SumByKey ==
  ASSUME NEW f, NEW A, IsFiniteSet(A), Numeric(f, A),
         NEW K, IsFiniteSet(K), NEW key, \A x \in A : key[x] \in K
  PROVE  SumFunctionOnSet(ByKey(f, A, key, K), K) = SumFunctionOnSet(f, A)
  <1> DEFINE T == {s \in SUBSET A :
                     SumFunctionOnSet(ByKey(f, s, key, K), K) = SumFunctionOnSet(f, s)}
  <1>1. {} \in T
    <2> DEFINE g == ByKey(f, {}, key, K)
    <2>1. \A k \in K : g[k] \in 0..0
      BY SumOfNone DEF ByKey
    <2> HIDE DEF g
    <2>2. SumFunctionOnSet(g, K) \in 0..(0 * Cardinality(K)) /\ Cardinality(K) \in Nat
      BY <2>1, SumBounded, FS_CardinalityType
    <2>3. SumFunctionOnSet(g, K) = 0
      BY <2>2
    <2> QED BY <2>3, SumOfNone DEF g
  <1>2. ASSUME NEW s \in SUBSET A, NEW x \in A \ s, s \in T
        PROVE  s \cup {x} \in T
    <2> DEFINE t == s \cup {x}
               g == ByKey(f, s, key, K)
               h == ByKey(f, t, key, K)
               k == key[x]
               P(j) == {y \in s : key[y] = j}
    <2>1. IsFiniteSet(s) /\ Numeric(f, t) /\ k \in K /\ f[x] \in Nat
      BY FS_Subset DEF Numeric
    <2>2. \A j \in K : IsFiniteSet(P(j)) /\ Numeric(f, P(j)) /\ g[j] = SumFunctionOnSet(f, P(j))
      BY <2>1, FS_Subset DEF Numeric, ByKey
    <2>3. Numeric(g, K)
      <3> HIDE DEF P, g
      <3>1. \A j \in K : SumFunctionOnSet(f, P(j)) \in Nat
        BY <2>2, SumNatural
      <3> QED BY <2>2, <3>1 DEF Numeric
    <2>4. h[k] = f[x] + g[k]
      <3>1. {y \in t : key[y] = k} = P(k) \cup {x} /\ x \notin P(k)
        OBVIOUS
      <3>2. Numeric(f, P(k) \cup {x})
        BY <2>1 DEF Numeric
      <3>3. h[k] = SumFunctionOnSet(f, {y \in t : key[y] = k})
        BY <2>1 DEF ByKey
      <3>4. h[k] = SumFunctionOnSet(f, P(k) \cup {x})
        BY <3>1, <3>3
      <3> HIDE DEF P, g, h, k
      <3>5. IsFiniteSet(P(k)) /\ g[k] = SumFunctionOnSet(f, P(k))
        BY <2>1, <2>2
      <3>6. SumFunctionOnSet(f, P(k) \cup {x}) = f[x] + SumFunctionOnSet(f, P(k))
        BY <3>1, <3>2, <3>5, SumWith
      <3> QED BY <3>4, <3>5, <3>6
    <2>5. \A j \in K \ {k} : h[j] = g[j]
      <3> SUFFICES ASSUME NEW j \in K \ {k}
                   PROVE  h[j] = g[j]
        OBVIOUS
      <3>1. {y \in t : key[y] = j} = P(j)
        OBVIOUS
      <3> QED BY <3>1 DEF ByKey
    <2> HIDE DEF g, h, k, P
    <2>6. SumFunctionOnSet(h, K) = f[x] + SumFunctionOnSet(g, K)
      BY <2>1, <2>3, <2>4, <2>5, SumGrows
    <2>7. SumFunctionOnSet(f, t) = f[x] + SumFunctionOnSet(f, s)
      BY <2>1, SumWith
    <2>8. SumFunctionOnSet(g, K) = SumFunctionOnSet(f, s)
      BY <1>2 DEF g
    <2> QED BY <2>6, <2>7, <2>8 DEF h
  <1>3. A \in T
    <2> HIDE DEF T
    <2> QED BY <1>1, <1>2, GrowingSubsets
  <1> QED BY <1>3

(* Numbers that are added up one by one.                                   *)
LEMMA SumPlus ==
  ASSUME NEW K, IsFiniteSet(K), NEW f, NEW g, NEW h, Numeric(f, K), Numeric(g, K),
         \A k \in K : h[k] = f[k] + g[k]
  PROVE  SumFunctionOnSet(h, K) = SumFunctionOnSet(f, K) + SumFunctionOnSet(g, K)
  <1> DEFINE T == {s \in SUBSET K :
                     SumFunctionOnSet(h, s) = SumFunctionOnSet(f, s) + SumFunctionOnSet(g, s)}
  <1>1. {} \in T
    BY SumOfNone
  <1>2. ASSUME NEW s \in SUBSET K, NEW x \in K \ s, s \in T
        PROVE  s \cup {x} \in T
    <2>1. /\ IsFiniteSet(s) /\ Numeric(f, s \cup {x}) /\ Numeric(g, s \cup {x})
          /\ Numeric(h, s \cup {x}) /\ Numeric(f, s) /\ Numeric(g, s)
      BY FS_Subset DEF Numeric
    <2>2. /\ SumFunctionOnSet(f, s \cup {x}) = f[x] + SumFunctionOnSet(f, s)
          /\ SumFunctionOnSet(g, s \cup {x}) = g[x] + SumFunctionOnSet(g, s)
          /\ SumFunctionOnSet(h, s \cup {x}) = h[x] + SumFunctionOnSet(h, s)
      BY <2>1, SumWith
    <2>3. SumFunctionOnSet(f, s) \in Nat /\ SumFunctionOnSet(g, s) \in Nat
      BY <2>1, SumNatural
    <2>4. f[x] \in Nat /\ g[x] \in Nat /\ h[x] = f[x] + g[x]
      BY DEF Numeric
    <2>5. SumFunctionOnSet(h, s) = SumFunctionOnSet(f, s) + SumFunctionOnSet(g, s)
      BY <1>2
    <2> QED BY <2>2, <2>3, <2>4, <2>5
  <1>3. K \in T
    <2> HIDE DEF T
    <2> QED BY <1>1, <1>2, GrowingSubsets
  <1> QED BY <1>3

(* A table of numbers has the same sum by columns and by rows: w is a      *)
(* function whose values are the rows, each with some of the columns K.    *)
Column(w, A, k) == {e \in A : k \in DOMAIN w[e]}
Entry(w, A, k) == [e \in A |-> w[e][k]]
ByColumn(w, A, K) == [k \in K |-> SumFunctionOnSet(Entry(w, A, k), Column(w, A, k))]
LEMMA SumByColumn ==
  ASSUME NEW A, IsFiniteSet(A), NEW K, IsFiniteSet(K), NEW w, NEW rows,
         \A e \in A : /\ DOMAIN w[e] \subseteq K /\ Numeric(w[e], DOMAIN w[e])
                      /\ rows[e] = SumFunctionOnSet(w[e], DOMAIN w[e])
  PROVE  SumFunctionOnSet(ByColumn(w, A, K), K) = SumFunctionOnSet(rows, A)
  <1> DEFINE T == {s \in SUBSET A :
                     SumFunctionOnSet(ByColumn(w, s, K), K) = SumFunctionOnSet(rows, s)}
  <1>1. {} \in T
    <2> DEFINE g == ByColumn(w, {}, K)
    <2>1. \A k \in K : g[k] \in 0..0
      <3> SUFFICES ASSUME NEW k \in K
                   PROVE  g[k] \in 0..0
        OBVIOUS
      <3>1. Column(w, {}, k) = {}
        BY DEF Column
      <3> QED BY <3>1, SumOfNone DEF ByColumn
    <2> HIDE DEF g
    <2>2. SumFunctionOnSet(g, K) \in 0..(0 * Cardinality(K)) /\ Cardinality(K) \in Nat
      BY <2>1, SumBounded, FS_CardinalityType
    <2>3. SumFunctionOnSet(g, K) = 0
      BY <2>2
    <2> QED BY <2>3, SumOfNone DEF g
  <1>2. ASSUME NEW s \in SUBSET A, NEW x \in A \ s, s \in T
        PROVE  s \cup {x} \in T
    <2> DEFINE t == s \cup {x}
               g == ByColumn(w, s, K)
               h == ByColumn(w, t, K)
               z == [k \in K |-> IF k \in DOMAIN w[x] THEN w[x][k] ELSE 0]
    <2>1. IsFiniteSet(s) /\ DOMAIN w[x] \subseteq K /\ Numeric(w[x], DOMAIN w[x])
      BY FS_Subset
    <2>2. ASSUME NEW k \in K
          PROVE  g[k] \in Nat /\ z[k] \in Nat /\ h[k] = g[k] + z[k]
      <3> DEFINE C == Column(w, s, k)
                 a == Entry(w, s, k)
                 b == Entry(w, t, k)
      <3>1. /\ IsFiniteSet(C) /\ C \subseteq s /\ Numeric(a, C) /\ \A e \in C : b[e] = a[e]
            /\ g[k] = SumFunctionOnSet(a, C)
            /\ h[k] = SumFunctionOnSet(b, Column(w, t, k))
        <4>1. C \subseteq s
          BY DEF Column
        <4>2. IsFiniteSet(C)
          BY <2>1, <4>1, FS_Subset
        <4>3. Numeric(a, C) /\ \A e \in C : b[e] = a[e]
          BY DEF Column, Entry, Numeric
        <4> QED BY <4>1, <4>2, <4>3 DEF ByColumn
      <3>2. z[k] \in Nat
        BY <2>1 DEF Numeric
      <3>3. g[k] \in Nat
        <4> HIDE DEF C, a, b, g, h
        <4> QED BY <3>1, SumNatural
      <3>4. SumFunctionOnSet(b, C) = SumFunctionOnSet(a, C)
        <4> HIDE DEF C, a, b, g, h
        <4> QED BY <3>1, SumSame
      <3>5. CASE k \in DOMAIN w[x]
        <4>1. Column(w, t, k) = C \cup {x} /\ x \notin C
          BY <3>5 DEF Column
        <4>2. b[x] = w[x][k] /\ z[k] = w[x][k]
          BY <3>5 DEF Entry
        <4>3. Numeric(b, C \cup {x})
          BY <3>1, <3>2, <4>2 DEF Numeric
        <4>4. h[k] = SumFunctionOnSet(b, C \cup {x})
          BY <3>1, <4>1
        <4> HIDE DEF C, a, b, g, h, z
        <4>5. SumFunctionOnSet(b, C \cup {x}) = b[x] + SumFunctionOnSet(b, C)
          BY <3>1, <4>1, <4>3, SumWith
        <4> QED BY <3>1, <3>2, <3>3, <3>4, <4>2, <4>4, <4>5
      <3>6. CASE k \notin DOMAIN w[x]
        <4>1. Column(w, t, k) = C
          BY <3>6 DEF Column
        <4>2. z[k] = 0
          BY <3>6
        <4>3. h[k] = SumFunctionOnSet(b, C)
          BY <3>1, <4>1
        <4> HIDE DEF C, a, b, g, h, z
        <4> QED BY <3>1, <3>3, <3>4, <4>2, <4>3
      <3> QED BY <3>2, <3>3, <3>5, <3>6
    <2>3. Numeric(g, K) /\ Numeric(z, K) /\ \A k \in K : h[k] = g[k] + z[k]
      BY <2>2 DEF Numeric
    <2>4. Numeric(z, DOMAIN w[x]) /\ \A k \in K \ DOMAIN w[x] : z[k] = 0
      BY <2>1, <2>3 DEF Numeric
    <2>5. \A k \in DOMAIN w[x] : z[k] = w[x][k]
      BY <2>1
    <2>6. SumFunctionOnSet(g, K) = SumFunctionOnSet(rows, s)
      BY <1>2
    <2>7. \A e \in A : rows[e] \in Nat
      <3>1. \A e \in A : IsFiniteSet(DOMAIN w[e])
        BY FS_Subset
      <3> QED BY <3>1, SumNatural
    <2> HIDE DEF g, h, z
    <2>8. SumFunctionOnSet(h, K) = SumFunctionOnSet(g, K) + SumFunctionOnSet(z, K)
      BY <2>3, SumPlus
    <2>9. SumFunctionOnSet(z, K) = SumFunctionOnSet(z, DOMAIN w[x])
      BY <2>1, <2>4, SumOfRest
    <2>10. SumFunctionOnSet(z, DOMAIN w[x]) = rows[x]
      <3>1. IsFiniteSet(DOMAIN w[x])
        BY <2>1, FS_Subset
      <3> QED BY <2>5, <3>1, SumSame
    <2>11. SumFunctionOnSet(rows, t) = rows[x] + SumFunctionOnSet(rows, s)
      <3>1. Numeric(rows, s \cup {x})
        BY <2>7 DEF Numeric
      <3> QED BY <2>1, <3>1, SumWith
    <2>12. rows[x] \in Nat /\ SumFunctionOnSet(rows, s) \in Nat
      <3>1. Numeric(rows, s)
        BY <2>7 DEF Numeric
      <3> QED BY <2>1, <2>7, <3>1, SumNatural
    <2>13. SumFunctionOnSet(h, K) = SumFunctionOnSet(rows, t)
      BY <2>6, <2>8, <2>9, <2>10, <2>11, <2>12
    <2> QED BY <2>13 DEF h
  <1>3. A \in T
    <2> HIDE DEF T
    <2> QED BY <1>1, <1>2, GrowingSubsets
  <1> QED BY <1>3
=============================================================================
