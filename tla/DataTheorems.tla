---------------------------- MODULE DataTheorems ----------------------------
(***************************************************************************)
(* Facts about data that the other proofs rest on: the least and greatest  *)
(* of a set of numbers, and sums over finite sets.  SumFunction of the     *)
(* module Functions is defined by recursion on the set that is summed: it  *)
(* picks an element, and adds its value to the sum of the others.  That    *)
(* such a recursion defines anything is proved here first, by well-founded *)
(* induction: there is no smallest subset on which it would fail.          *)
(***************************************************************************)
EXTENDS Functions, FiniteSetTheorems, WellFoundedInduction, TLAPS

LEMMA LeastNatural ==
  ASSUME NEW S, S \subseteq Nat, S # {}
  PROVE  \E n \in S : \A m \in S : n <= m
<1> DEFINE R == OpToRel(<, Nat)
<1>1. \A x, y \in Nat : x < y => <<x, y>> \in R
  BY DEF OpToRel
<1>2. IsWellFoundedOn(R, Nat)
  BY NatLessThanWellFounded
<1> HIDE DEF R
<1>3. PICK n \in S : \A m \in S : <<m, n>> \notin R
  BY <1>2, WFMin, Zenon
<1>4. ASSUME NEW m \in S
      PROVE  n <= m
  <2>1. m \in Nat /\ n \in Nat
    OBVIOUS
  <2>2. ~(m < n)
    BY <1>1, <1>3, <2>1
  <2> QED
    BY <2>1, <2>2
<1> QED
  BY <1>4

(* A set of numbers with an upper bound is empty or has a greatest member. *)
LEMMA GreatestNatural ==
  ASSUME NEW S, S \subseteq Nat, S # {}, NEW b \in Nat, \A n \in S : n <= b
  PROVE  \E n \in S : \A m \in S : m <= n
<1> DEFINE Bounds == {n \in Nat : \A m \in S : m <= n}
<1>1. Bounds \subseteq Nat /\ Bounds # {}
  OBVIOUS
<1>2. PICK n \in Bounds : \A m \in Bounds : n <= m
  <2> HIDE DEF Bounds
  <2> QED
    BY <1>1, LeastNatural
<1>3. n \in S
  <2> SUFFICES ASSUME n \notin S PROVE FALSE
    OBVIOUS
  <2>1. n \in Nat /\ \A m \in S : m <= n /\ m # n
    OBVIOUS
  <2>2. PICK k \in S : k \in Nat
    OBVIOUS
  <2>3. n - 1 \in Bounds
    BY <2>1, <2>2
  <2>4. n <= n - 1
    BY <1>2, <2>3
  <2> QED
    BY <2>1, <2>4
<1> QED
  BY <1>3

-----------------------------------------------------------------------------
Pick(S) == CHOOSE x \in S : TRUE

(* g is what the recursion defines on the subsets of S. *)
Sums(g, f, S) ==
    g = [T \in SUBSET S |->
            IF T = {} THEN 0 ELSE f[Pick(T)] + g[T \ {Pick(T)}]]

LEMMA SumChosen ==
  ASSUME NEW f, NEW S
  PROVE  SumFunctionOnSet(f, S) = (CHOOSE g : Sums(g, f, S))[S]
BY Zenon DEF SumFunctionOnSet, FoldFunctionOnSet, MapThenFoldSet, Sums, Pick

LEMMA PickIn ==
  ASSUME NEW S, S # {}
  PROVE  Pick(S) \in S
BY DEF Pick

LEMMA SumsAt ==
  ASSUME NEW g, NEW f, NEW S, Sums(g, f, S), NEW T \in SUBSET S
  PROVE  g[T] = IF T = {} THEN 0 ELSE f[Pick(T)] + g[T \ {Pick(T)}]
<1> DEFINE h == [U \in SUBSET S |->
                    IF U = {} THEN 0 ELSE f[Pick(U)] + g[U \ {Pick(U)}]]
<1>1. g = h
  BY Zenon DEF Sums
<1>2. h[T] = IF T = {} THEN 0 ELSE f[Pick(T)] + g[T \ {Pick(T)}]
  OBVIOUS
<1> HIDE DEF h
<1> QED
  BY <1>1, <1>2

(* A collection of subsets of a finite set has a smallest member. *)
LEMMA SmallestSubset ==
  ASSUME NEW S, IsFiniteSet(S), NEW C, C \subseteq SUBSET S, C # {}
  PROVE  \E T \in C : \A U \in C : ~(U \subseteq T /\ U # T)
<1>1. IsWellFoundedOn(StrictSubsetOrdering(S), SUBSET S)
  BY FS_StrictSubsetOrderingWellFounded, FS_FiniteSubsetsOfFinite
<1>2. \E T \in C : \A U \in C : <<U, T>> \notin StrictSubsetOrdering(S)
  BY <1>1, WFMin, Zenon
<1>3. PICK T \in C : \A U \in C : <<U, T>> \notin StrictSubsetOrdering(S)
  BY <1>2
<1>4. ASSUME NEW U \in C, U \subseteq T, U # T
      PROVE  FALSE
  <2>1. <<U, T>> \in StrictSubsetOrdering(S)
    BY <1>4 DEF StrictSubsetOrdering
  <2> QED
    BY <1>3, <2>1
<1> QED
  BY <1>4

(* Two such functions agree on the sets they share. *)
LEMMA SumsAgree ==
  ASSUME NEW f, NEW A, NEW B, NEW g, NEW h, IsFiniteSet(A),
         Sums(g, f, A), Sums(h, f, B)
  PROVE  \A T \in SUBSET (A \cap B) : g[T] = h[T]
<1> DEFINE Bad == {T \in SUBSET (A \cap B) : g[T] # h[T]}
<1> SUFFICES ASSUME Bad # {} PROVE FALSE
  OBVIOUS
<1>1. PICK T \in Bad : \A U \in Bad : ~(U \subseteq T /\ U # T)
  <2>1. Bad \subseteq SUBSET A
    OBVIOUS
  <2> HIDE DEF Bad
  <2> QED
    BY <2>1, SmallestSubset
<1>2. T \in SUBSET A /\ T \in SUBSET B
  OBVIOUS
<1>3. g[T] = IF T = {} THEN 0 ELSE f[Pick(T)] + g[T \ {Pick(T)}]
  BY <1>2, SumsAt
<1>4. h[T] = IF T = {} THEN 0 ELSE f[Pick(T)] + h[T \ {Pick(T)}]
  BY <1>2, SumsAt
<1>5. T # {}
  BY <1>3, <1>4
<1> DEFINE U == T \ {Pick(T)}
<1>6. U \subseteq T /\ U # T
  BY <1>5, PickIn
<1>7. g[U] = h[U]
  BY <1>1, <1>6
<1> QED
  BY <1>3, <1>4, <1>5, <1>7

(* The recursion defines a function on the subsets of every finite set. *)
LEMMA SumsExist ==
  ASSUME NEW f, NEW S, IsFiniteSet(S)
  PROVE  \E g : Sums(g, f, S)
<1> DEFINE Bad == {T \in SUBSET S : ~\E g : Sums(g, f, T)}
<1> SUFFICES ASSUME Bad # {} PROVE FALSE
  OBVIOUS
<1>1. PICK T \in Bad : \A U \in Bad : ~(U \subseteq T /\ U # T)
  <2>1. Bad \subseteq SUBSET S
    OBVIOUS
  <2> HIDE DEF Bad
  <2> QED
    BY <2>1, SmallestSubset
<1> DEFINE On(U) == CHOOSE g : Sums(g, f, U)
<1> HIDE DEF Bad
<1>t. T \in SUBSET S
  BY <1>1 DEF Bad
<1>2. ASSUME NEW U \in SUBSET T, U # T
      PROVE  Sums(On(U), f, U)
  <2>1. U \notin Bad /\ U \in SUBSET S
    BY <1>1, <1>2, <1>t
  <2>2. \E g : Sums(g, f, U)
    BY <2>1 DEF Bad
  <2> HIDE DEF Sums
  <2> QED
    BY <2>2, Zenon
<1> DEFINE Value(U) == On(U)[U]
<1> DEFINE h == [U \in SUBSET T |->
                    IF U = {} THEN 0 ELSE f[Pick(U)] + Value(U \ {Pick(U)})]
<1> HIDE DEF On
<1>3. ASSUME NEW U \in SUBSET T, U # T
      PROVE  h[U] = Value(U)
  <2>1. CASE U = {}
    <3>1. Value(U) = 0
      BY <1>2, <1>3, <2>1, SumsAt
    <3> QED
      BY <2>1, <3>1
  <2>2. CASE U # {}
    <3> DEFINE W == U \ {Pick(U)}
    <3>1. W \in SUBSET U /\ W # U /\ W # T /\ W \in SUBSET T
      BY <2>2, PickIn
    <3>2. h[U] = f[Pick(U)] + On(W)[W]
      BY <2>2
    <3>3. On(U)[U] = f[Pick(U)] + On(U)[W]
      BY <1>2, <1>3, <2>2, SumsAt
    <3>4. Sums(On(U), f, U) /\ Sums(On(W), f, W)
      BY <1>2, <1>3, <3>1
    <3>5. IsFiniteSet(W)
      BY <1>t, <3>1, FS_Subset
    <3>6. On(W)[W] = On(U)[W]
      <4> DEFINE small == On(W)
      <4> DEFINE large == On(U)
      <4>1. W \in SUBSET (W \cap U)
        BY <3>1
      <4>2. Sums(small, f, W) /\ Sums(large, f, U)
        BY <3>4
      <4> HIDE DEF W, small, large
      <4>3. \A V \in SUBSET (W \cap U) : small[V] = large[V]
        BY <3>5, <4>2, SumsAgree
      <4>4. small[W] = large[W]
        BY <4>1, <4>3
      <4> QED
        BY <4>4 DEF small, large
    <3> QED
      BY <3>2, <3>3, <3>6
  <2> QED
    BY <2>1, <2>2
<1>4. h = [U \in SUBSET T |-> IF U = {} THEN 0 ELSE f[Pick(U)] + h[U \ {Pick(U)}]]
  <2>1. ASSUME NEW U \in SUBSET T, U # {}
        PROVE  Value(U \ {Pick(U)}) = h[U \ {Pick(U)}]
    <3>1. U \ {Pick(U)} \in SUBSET T /\ U \ {Pick(U)} # T
      BY <2>1, PickIn
    <3> HIDE DEF h, Value
    <3> QED
      BY <1>3, <3>1
  <2> HIDE DEF Value
  <2> QED
    BY <2>1
<1>5. Sums(h, f, T)
  BY <1>4, Zenon DEF Sums
<1>6. ~\E g : Sums(g, f, T)
  BY <1>1 DEF Bad
<1> HIDE DEF h, Sums
<1> QED
  BY <1>5, <1>6

-----------------------------------------------------------------------------
(* What a sum over a finite set is. *)

LEMMA SumOfNone ==
  ASSUME NEW f
  PROVE  SumFunctionOnSet(f, {}) = 0
<1> DEFINE g == CHOOSE h : Sums(h, f, {})
<1>1. \E h : Sums(h, f, {})
  BY SumsExist, FS_EmptySet
<1>2. Sums(g, f, {})
  <2> HIDE DEF Sums
  <2> QED
    BY <1>1, Zenon
<1> HIDE DEF g
<1>3. g[{}] = 0
  BY <1>2, SumsAt
<1> QED
  BY <1>3, SumChosen DEF g

LEMMA SumPicked ==
  ASSUME NEW f, NEW S, IsFiniteSet(S), S # {}
  PROVE  SumFunctionOnSet(f, S)
             = f[Pick(S)] + SumFunctionOnSet(f, S \ {Pick(S)})
<1> DEFINE T == S \ {Pick(S)}
<1> DEFINE g == CHOOSE h : Sums(h, f, S)
<1> DEFINE k == CHOOSE h : Sums(h, f, T)
<1>1. IsFiniteSet(T) /\ T \subseteq S
  BY FS_Subset
<1> HIDE DEF T
<1>2. Sums(g, f, S) /\ Sums(k, f, T)
  <2>1. (\E h : Sums(h, f, S)) /\ (\E h : Sums(h, f, T))
    BY <1>1, SumsExist
  <2> HIDE DEF Sums
  <2> QED
    BY <2>1, Zenon
<1>3. SumFunctionOnSet(f, S) = g[S] /\ SumFunctionOnSet(f, T) = k[T]
  BY SumChosen
<1> HIDE DEF g, k
<1>4. g[S] = f[Pick(S)] + g[T]
  BY <1>2, SumsAt DEF T
<1>5. g[T] = k[T]
  <2>1. \A U \in SUBSET (T \cap S) : k[U] = g[U]
    BY <1>1, <1>2, SumsAgree
  <2> QED
    BY <1>1, <2>1
<1> QED
  BY <1>3, <1>4, <1>5 DEF T

LEMMA SumNat ==
  ASSUME NEW S, IsFiniteSet(S), NEW f, \A s \in S : f[s] \in Nat
  PROVE  SumFunctionOnSet(f, S) \in Nat
<1> DEFINE Bad == {T \in SUBSET S : SumFunctionOnSet(f, T) \notin Nat}
<1> SUFFICES ASSUME Bad # {} PROVE FALSE
  OBVIOUS
<1>1. Bad \subseteq SUBSET S
  OBVIOUS
<1>2. PICK T \in Bad : \A U \in Bad : ~(U \subseteq T /\ U # T)
  <2> HIDE DEF Bad
  <2> QED
    BY <1>1, SmallestSubset
<1>3. T # {}
  BY SumOfNone
<1> DEFINE U == T \ {Pick(T)}
<1>4. U \subseteq T /\ U # T /\ U \in SUBSET S /\ Pick(T) \in S
  BY <1>3, PickIn
<1>5. SumFunctionOnSet(f, U) \in Nat
  BY <1>2, <1>4
<1>6. SumFunctionOnSet(f, T) = f[Pick(T)] + SumFunctionOnSet(f, U)
  <2>1. IsFiniteSet(T)
    BY FS_Subset
  <2> QED
    BY <1>3, <2>1, SumPicked
<1>7. f[Pick(T)] \in Nat
  BY <1>4
<1> HIDE DEF U
<1>8. SumFunctionOnSet(f, T) \in Nat
  BY <1>5, <1>6, <1>7
<1> QED
  BY <1>8

(* The order of a sum does not matter: any element may be taken out first. *)
LEMMA SumWithout ==
  ASSUME NEW S, IsFiniteSet(S), NEW f, \A s \in S : f[s] \in Nat, NEW x \in S
  PROVE  SumFunctionOnSet(f, S) = f[x] + SumFunctionOnSet(f, S \ {x})
<1> DEFINE Holds(T, y) ==
        SumFunctionOnSet(f, T) = f[y] + SumFunctionOnSet(f, T \ {y})
<1> DEFINE Bad == {T \in SUBSET S : \E y \in T : ~Holds(T, y)}
<1> SUFFICES ASSUME Bad # {} PROVE FALSE
  <2>1. S \notin Bad
    OBVIOUS
  <2> QED
    BY <2>1
<1>1. Bad \subseteq SUBSET S
  OBVIOUS
<1>2. PICK T \in Bad : \A U \in Bad : ~(U \subseteq T /\ U # T)
  <2> HIDE DEF Bad
  <2> QED
    BY <1>1, SmallestSubset
<1>3. PICK y \in T : ~Holds(T, y)
  OBVIOUS
<1> DEFINE p == Pick(T)
<1>4. T \in SUBSET S /\ p \in T
  BY <1>3, PickIn
<1>5. ASSUME NEW U, U \subseteq T, U # T, NEW z \in U
      PROVE  Holds(U, z)
  <2>1. U \notin Bad /\ U \in SUBSET S
    BY <1>2, <1>4, <1>5
  <2> HIDE DEF Holds
  <2> QED
    BY <2>1, <1>5
<1>6. Holds(T, p)
  <2>1. IsFiniteSet(T)
    BY <1>4, FS_Subset
  <2> QED
    BY <1>3, <2>1, SumPicked
<1>7. y # p
  BY <1>3, <1>6
<1> HIDE DEF Bad, p
<1>8. Holds(T \ {p}, y) /\ Holds(T \ {y}, p)
  <2> HIDE DEF Holds
  <2>1. T \ {p} \subseteq T /\ T \ {p} # T /\ y \in T \ {p}
    BY <1>3, <1>4, <1>7
  <2>2. T \ {y} \subseteq T /\ T \ {y} # T /\ p \in T \ {y}
    BY <1>3, <1>4, <1>7
  <2> QED
    BY <1>5, <2>1, <2>2
<1> DEFINE R == SumFunctionOnSet(f, (T \ {p}) \ {y})
<1>9. (T \ {y}) \ {p} = (T \ {p}) \ {y}
  OBVIOUS
<1>10. R \in Nat /\ f[y] \in Nat /\ f[p] \in Nat
  <2>1. (T \ {p}) \ {y} \in SUBSET S
    BY <1>4
  <2>2. IsFiniteSet((T \ {p}) \ {y})
    BY <2>1, FS_Subset
  <2> QED
    BY <1>3, <1>4, <2>1, <2>2, SumNat
<1>11. SumFunctionOnSet(f, T) = f[p] + (f[y] + R)
  BY <1>6, <1>8
<1>12. SumFunctionOnSet(f, T \ {y}) = f[p] + R
  BY <1>8, <1>9
<1> HIDE DEF R
<1>13. Holds(T, y)
  BY <1>10, <1>11, <1>12
<1> QED
  BY <1>3, <1>13

(* Functions that agree on a set have the same sum over it. *)
LEMMA SumSame ==
  ASSUME NEW S, IsFiniteSet(S), NEW f, NEW g, \A s \in S : f[s] = g[s]
  PROVE  SumFunctionOnSet(f, S) = SumFunctionOnSet(g, S)
<1> DEFINE Bad ==
        {T \in SUBSET S : SumFunctionOnSet(f, T) # SumFunctionOnSet(g, T)}
<1> SUFFICES ASSUME Bad # {} PROVE FALSE
  OBVIOUS
<1>1. Bad \subseteq SUBSET S
  OBVIOUS
<1>2. PICK T \in Bad : \A U \in Bad : ~(U \subseteq T /\ U # T)
  <2> HIDE DEF Bad
  <2> QED
    BY <1>1, SmallestSubset
<1>3. T # {}
  BY SumOfNone
<1> DEFINE U == T \ {Pick(T)}
<1>4. U \subseteq T /\ U # T /\ U \in SUBSET S /\ Pick(T) \in S
  BY <1>3, PickIn
<1>5. SumFunctionOnSet(f, U) = SumFunctionOnSet(g, U)
  BY <1>2, <1>4
<1>6. /\ SumFunctionOnSet(f, T) = f[Pick(T)] + SumFunctionOnSet(f, U)
      /\ SumFunctionOnSet(g, T) = g[Pick(T)] + SumFunctionOnSet(g, U)
  <2>1. IsFiniteSet(T)
    BY FS_Subset
  <2> QED
    BY <1>3, <2>1, SumPicked
<1> QED
  BY <1>4, <1>5, <1>6

(* A part of a sum of natural numbers is no more than all of it. *)
LEMMA SumOfPart ==
  ASSUME NEW S, IsFiniteSet(S), NEW f, \A s \in S : f[s] \in Nat,
         NEW P \in SUBSET S
  PROVE  SumFunctionOnSet(f, P) <= SumFunctionOnSet(f, S)
<1> DEFINE Bad == {T \in SUBSET S :
        P \subseteq T /\ ~(SumFunctionOnSet(f, P) <= SumFunctionOnSet(f, T))}
<1> SUFFICES ASSUME Bad # {} PROVE FALSE
  OBVIOUS
<1>1. Bad \subseteq SUBSET S
  OBVIOUS
<1>2. PICK T \in Bad : \A U \in Bad : ~(U \subseteq T /\ U # T)
  <2> HIDE DEF Bad
  <2> QED
    BY <1>1, SmallestSubset
<1>3. IsFiniteSet(T) /\ IsFiniteSet(P)
  BY FS_Subset
<1>4. SumFunctionOnSet(f, P) \in Nat
  BY <1>3, SumNat
<1>5. T # P
  BY <1>4
<1>6. PICK x \in T : x \notin P
  BY <1>5
<1> DEFINE U == T \ {x}
<1>7. U \subseteq T /\ U # T /\ U \in SUBSET S /\ P \subseteq U /\ x \in S
  BY <1>6
<1>8. SumFunctionOnSet(f, P) <= SumFunctionOnSet(f, U)
  BY <1>2, <1>7
<1>9. SumFunctionOnSet(f, T) = f[x] + SumFunctionOnSet(f, U)
  BY <1>3, SumWithout
<1>10. SumFunctionOnSet(f, U) \in Nat /\ SumFunctionOnSet(f, T) \in Nat
       /\ f[x] \in Nat
  <2>1. IsFiniteSet(U)
    BY <1>7, FS_Subset
  <2> QED
    BY <1>3, <1>7, <2>1, SumNat
<1> HIDE DEF U
<1>11. SumFunctionOnSet(f, P) <= SumFunctionOnSet(f, T)
  BY <1>4, <1>8, <1>9, <1>10
<1> QED
  BY <1>11

(* Changing one value changes the sum by the difference. *)
LEMMA SumChanged ==
  ASSUME NEW S, IsFiniteSet(S), NEW f, NEW g, NEW x \in S,
         \A s \in S : f[s] \in Nat /\ g[s] \in Nat,
         \A s \in S \ {x} : f[s] = g[s]
  PROVE  SumFunctionOnSet(g, S) = SumFunctionOnSet(f, S) - f[x] + g[x]
<1> DEFINE R == S \ {x}
<1>1. IsFiniteSet(R)
  BY FS_Subset
<1>2. SumFunctionOnSet(f, R) = SumFunctionOnSet(g, R)
  BY <1>1, SumSame
<1>3. SumFunctionOnSet(f, S) = f[x] + SumFunctionOnSet(f, R)
  BY SumWithout
<1>4. SumFunctionOnSet(g, S) = g[x] + SumFunctionOnSet(g, R)
  BY SumWithout
<1>5. SumFunctionOnSet(f, R) \in Nat /\ f[x] \in Nat /\ g[x] \in Nat
  BY <1>1, SumNat
<1> HIDE DEF R
<1> QED
  BY <1>2, <1>3, <1>4, <1>5
=============================================================================
