---------------------------- MODULE SumTheorems ----------------------------
(***************************************************************************)
(* What a sum over a finite set of integers obeys.  SumFunction folds its  *)
(* function in an order CHOOSE picks, and the fold is a recursive function *)
(* on the subsets of the domain: so every fact below is shown for all      *)
(* subsets, by peeling off the element that the fold picks next.           *)
(*                                                                         *)
(* The induction is over sets (WFMin on the natural numbers), because the  *)
(* library's induction rules take an operator that no prover instantiates. *)
(***************************************************************************)
EXTENDS Integers, FiniteSets, Functions, FiniteSetTheorems, WellFoundedInduction, TLAPS

(* The element the fold takes off a set, and the fold itself: g is its value *)
(* on every subset of S.                                                    *)
Pick(s) == CHOOSE x \in s : TRUE
Iterates(g, f, S) ==
  g = [s \in SUBSET S |-> IF s = {} THEN 0 ELSE f[Pick(s)] + g[s \ {Pick(s)}]]

(* A sum is the fold over the whole domain.                                 *)
LEMMA Unfold ==
  ASSUME NEW f, NEW S, DOMAIN f = S
  PROVE  SumFunction(f) = (CHOOSE g : Iterates(g, f, S))[S]
  BY Zenon DEF SumFunction, SumFunctionOnSet, FoldFunctionOnSet, MapThenFoldSet, Iterates, Pick

(* Induction over the natural numbers, for a set in place of a predicate: a  *)
(* number outside it would have a least one beside it.                      *)
LEMMA NatSetInduction ==
  ASSUME NEW T, 0 \in T, \A n \in Nat : n \in T => n + 1 \in T
  PROVE  Nat \subseteq T
  <1> DEFINE C == {n \in Nat : n \notin T}
  <1>1. SUFFICES ASSUME C # {} PROVE FALSE
    OBVIOUS
  <1>2. C \subseteq Nat
    OBVIOUS
  <1>3. PICK m \in C : \A k \in C : ~(<<k, m>> \in OpToRel(<, Nat))
    <2> HIDE DEF C
    <2> QED  BY <1>1, <1>2, NatLessThanWellFounded, WFMin
  <1>4. m \in Nat /\ m \notin T
    OBVIOUS
  <1>5. m - 1 \in Nat /\ m - 1 \in C
    <2>1. m # 0
      BY <1>4
    <2>2. m - 1 \in Nat /\ (m - 1) + 1 = m
      BY <2>1, <1>4
    <2> QED  BY <2>2, <1>4
  <1>6. <<m - 1, m>> \in OpToRel(<, Nat)
    BY <1>5, <1>4 DEF OpToRel
  <1> QED  BY <1>3, <1>5, <1>6

(* What is picked is there, and the rest is a subset again.                 *)
LEMMA Picked ==
  ASSUME NEW S, NEW s \in SUBSET S, s # {}
  PROVE  Pick(s) \in s /\ s \ {Pick(s)} \in SUBSET S
  BY DEF Pick

(* Whatever holds of {} and survives putting a picked element back holds of *)
(* every subset of a finite set.                                            *)
LEMMA PeelInduction ==
  ASSUME NEW S, IsFiniteSet(S), NEW G, {} \in G,
         \A s \in SUBSET S : s # {} /\ s \ {Pick(s)} \in G => s \in G
  PROVE  SUBSET S \subseteq G
  <1> DEFINE T == {n \in Nat : \A s \in SUBSET S : Cardinality(s) = n => s \in G}
  <1>1. \A s \in SUBSET S : IsFiniteSet(s) /\ Cardinality(s) \in Nat
    BY FS_Subset, FS_CardinalityType
  <1>2. 0 \in T
    BY <1>1, FS_EmptySet
  <1>3. ASSUME NEW n \in Nat, n \in T
        PROVE  n + 1 \in T
    <2>1. ASSUME NEW s \in SUBSET S, Cardinality(s) = n + 1
          PROVE  s \in G
      <3>1. s # {}
        BY <1>1, <2>1, FS_EmptySet
      <3>2. Cardinality(s \ {Pick(s)}) = n
        <4>1. IsFiniteSet(s) /\ Pick(s) \in s
          BY <1>1, <3>1, Picked
        <4>2. Cardinality(s \ {Pick(s)}) = Cardinality(s) - 1
          BY <4>1, FS_RemoveElement
        <4> QED  BY <2>1, <4>2
      <3> QED  BY <1>3, <3>1, <3>2, Picked
    <2> QED  BY <2>1
  <1>4. Nat \subseteq T
    <2> HIDE DEF T
    <2> QED  BY <1>2, <1>3, NatSetInduction
  <1> QED  BY <1>1, <1>4

(* The recursion defines a function: it is built for the subsets of up to n  *)
(* elements, one n after the other.                                         *)
LEMMA IterExists ==
  ASSUME NEW f, NEW S, IsFiniteSet(S)
  PROVE  \E g : Iterates(g, f, S)
  <1> DEFINE B(n) == {s \in SUBSET S : Cardinality(s) <= n}
             A(n, g) == g = [s \in B(n) |-> IF s = {} THEN 0
                                          ELSE f[Pick(s)] + g[s \ {Pick(s)}]]
             T == {n \in Nat : \E g : A(n, g)}
  <1>1. \A s \in SUBSET S : IsFiniteSet(s) /\ Cardinality(s) \in Nat
    BY FS_Subset, FS_CardinalityType
  <1>6. \A s \in SUBSET S : s # {} =>
           /\ s \ {Pick(s)} \in SUBSET S
           /\ Cardinality(s \ {Pick(s)}) = Cardinality(s) - 1
    BY <1>1, Picked, FS_RemoveElement
  <1>7. \A s \in SUBSET S : Cardinality(s) = 0 => s = {}
    BY <1>1, FS_EmptySet
  <1>2. 0 \in T
    <2>1. \A s \in B(0) : s = {}
      BY <1>1, <1>7
    <2>2. A(0, [s \in B(0) |-> 0])
      BY <2>1
    <2> QED  BY <2>2
  <1>3. ASSUME NEW n \in Nat, n \in T
        PROVE  n + 1 \in T
    <2>1. PICK g : A(n, g)
      BY <1>3
    <2> DEFINE h == [s \in B(n + 1) |-> IF s = {} THEN 0
                                    ELSE f[Pick(s)] + g[s \ {Pick(s)}]]
    <2>2. ASSUME NEW s \in B(n + 1), s # {}
          PROVE  s \ {Pick(s)} \in B(n)
      BY <1>1, <1>6, <2>2
    <2>3. \A s \in B(n) : s \in B(n + 1) /\ h[s] = g[s]
      <3>1. \A s \in B(n) : s \in B(n + 1)
        BY <1>1
      <3>2. \A s \in B(n) : g[s] = IF s = {} THEN 0
                                   ELSE f[Pick(s)] + g[s \ {Pick(s)}]
        <4> HIDE DEF B
        <4> QED  BY <2>1
      <3>3. \A s \in B(n + 1) : h[s] = IF s = {} THEN 0
                                   ELSE f[Pick(s)] + g[s \ {Pick(s)}]
        <4> HIDE DEF B
        <4> QED  OBVIOUS
      <3> HIDE DEF B, h
      <3> QED  BY <3>1, <3>2, <3>3
    <2>4. A(n + 1, h)
      <3>1. \A s \in B(n + 1) : s # {} => g[s \ {Pick(s)}] = h[s \ {Pick(s)}]
        <4> HIDE DEF B, h
        <4> QED  BY <2>2, <2>3
      <3> HIDE DEF B
      <3> QED  BY <3>1, Zenon
    <2>5. \E x : A(n + 1, x)
      <3> HIDE DEF h
      <3> QED  BY <2>4
    <2>6. n + 1 \in Nat
      OBVIOUS
    <2> QED
      <3> HIDE DEF A
      <3> QED  BY <2>5, <2>6
  <1>4. Nat \subseteq T
    <2> HIDE DEF T
    <2> QED  BY <1>2, <1>3, NatSetInduction
  <1>5. PICK g : A(Cardinality(S), g)
    BY <1>1, <1>4
  <1>8. B(Cardinality(S)) = SUBSET S
    BY FS_Subset
  <1> QED  BY <1>5, <1>8 DEF Iterates

(* The recursion as an equation for each subset, and the sum through it.    *)
Unrolled(g, f, S) ==
  \A s \in SUBSET S :
     g[s] = IF s = {} THEN 0 ELSE f[Pick(s)] + g[s \ {Pick(s)}]

LEMMA Iterate ==
  ASSUME NEW f, NEW S, IsFiniteSet(S)
  PROVE  \E g : /\ Unrolled(g, f, S)
                /\ DOMAIN f = S => SumFunction(f) = g[S]
  <1> DEFINE g == CHOOSE x : Iterates(x, f, S)
  <1>1. Iterates(g, f, S)
    BY IterExists
  <1>2. DOMAIN f = S => SumFunction(f) = g[S]
    BY Unfold
  <1>3. Unrolled(g, f, S)
    <2> HIDE DEF g
    <2> QED  BY <1>1 DEF Iterates, Unrolled
  <1> HIDE DEF g
  <1> QED  BY <1>2, <1>3

(* A sum of integers is one; of nonnegative terms it is nonnegative, and of  *)
(* zeros zero.                                                              *)
LEMMA SumType ==
  ASSUME NEW S, IsFiniteSet(S), NEW f \in [S -> Int]
  PROVE  /\ SumFunction(f) \in Int
         /\ (\A x \in S : f[x] >= 0) => SumFunction(f) >= 0
         /\ (\A x \in S : f[x] = 0) => SumFunction(f) = 0
  <1>1. PICK g : Unrolled(g, f, S) /\ SumFunction(f) = g[S]
    BY Iterate
  <1> DEFINE G == {s \in SUBSET S : /\ g[s] \in Int
                                    /\ (\A x \in S : f[x] >= 0) => g[s] >= 0
                                    /\ (\A x \in S : f[x] = 0) => g[s] = 0}
  <1>2. {} \in G
    <2>1. {} \in SUBSET S
      OBVIOUS
    <2>2. g[{}] = 0
      BY <1>1, <2>1, Zenon DEF Unrolled
    <2> QED  BY <2>1, <2>2
  <1>3. ASSUME NEW s \in SUBSET S, s # {}, s \ {Pick(s)} \in G
        PROVE  s \in G
    <2>1. g[s] = f[Pick(s)] + g[s \ {Pick(s)}]
      BY <1>1, <1>3 DEF Unrolled
    <2>2. f[Pick(s)] \in Int /\ Pick(s) \in S
      BY Picked, <1>3
    <2> QED  BY <2>1, <2>2, <1>3
  <1>4. SUBSET S \subseteq G
    <2> HIDE DEF G
    <2> QED  BY <1>2, <1>3, PeelInduction
  <1> QED  BY <1>1, <1>4

(* Changing one term changes the sum by the difference.                     *)
LEMMA SumUpdate ==
  ASSUME NEW S, IsFiniteSet(S), NEW f \in [S -> Int], NEW h \in [S -> Int],
         NEW x \in S, \A y \in S \ {x} : h[y] = f[y]
  PROVE  SumFunction(h) = SumFunction(f) + h[x] - f[x]
  <1>1. PICK g : Unrolled(g, f, S) /\ SumFunction(f) = g[S]
    BY Iterate
  <1>2. PICK k : Unrolled(k, h, S) /\ SumFunction(h) = k[S]
    BY Iterate
  <1> DEFINE G == {s \in SUBSET S :
                     /\ g[s] \in Int /\ k[s] \in Int
                     /\ k[s] = g[s] + (IF x \in s THEN h[x] - f[x] ELSE 0)}
  <1>3. {} \in G
    <2>1. {} \in SUBSET S
      OBVIOUS
    <2>2. g[{}] = 0 /\ k[{}] = 0
      BY <1>1, <1>2, <2>1, Zenon DEF Unrolled
    <2> QED  BY <2>1, <2>2
  <1>4. ASSUME NEW s \in SUBSET S, s # {}, s \ {Pick(s)} \in G
        PROVE  s \in G
    <2>1. g[s] = f[Pick(s)] + g[s \ {Pick(s)}]
      BY <1>1, <1>4 DEF Unrolled
    <2>2. k[s] = h[Pick(s)] + k[s \ {Pick(s)}]
      BY <1>2, <1>4 DEF Unrolled
    <2>3. /\ f[Pick(s)] \in Int /\ h[Pick(s)] \in Int
          /\ Pick(s) \in S /\ Pick(s) \in s
      BY Picked, <1>4
    <2>4. CASE Pick(s) = x
      BY <2>1, <2>2, <2>3, <2>4, <1>4
    <2>5. CASE Pick(s) # x
      BY <2>1, <2>2, <2>3, <2>5, <1>4
    <2> QED  BY <2>4, <2>5
  <1>5. SUBSET S \subseteq G
    <2> HIDE DEF G
    <2> QED  BY <1>3, <1>4, PeelInduction
  <1> QED  BY <1>1, <1>2, <1>5

(* Larger terms, larger sum.                                                *)
LEMMA SumMonotone ==
  ASSUME NEW S, IsFiniteSet(S), NEW f \in [S -> Int], NEW h \in [S -> Int],
         \A x \in S : f[x] <= h[x]
  PROVE  SumFunction(f) <= SumFunction(h)
  <1>1. PICK g : Unrolled(g, f, S) /\ SumFunction(f) = g[S]
    BY Iterate
  <1>2. PICK k : Unrolled(k, h, S) /\ SumFunction(h) = k[S]
    BY Iterate
  <1> DEFINE G == {s \in SUBSET S :
                     g[s] \in Int /\ k[s] \in Int /\ g[s] <= k[s]}
  <1>3. {} \in G
    <2>1. {} \in SUBSET S
      OBVIOUS
    <2>2. g[{}] = 0 /\ k[{}] = 0
      BY <1>1, <1>2, <2>1, Zenon DEF Unrolled
    <2> QED  BY <2>1, <2>2
  <1>4. ASSUME NEW s \in SUBSET S, s # {}, s \ {Pick(s)} \in G
        PROVE  s \in G
    <2>1. g[s] = f[Pick(s)] + g[s \ {Pick(s)}]
      BY <1>1, <1>4 DEF Unrolled
    <2>2. k[s] = h[Pick(s)] + k[s \ {Pick(s)}]
      BY <1>2, <1>4 DEF Unrolled
    <2>3. f[Pick(s)] \in Int /\ h[Pick(s)] \in Int /\ f[Pick(s)] <= h[Pick(s)]
      BY Picked, <1>4
    <2> QED  BY <2>1, <2>2, <2>3, <1>4
  <1>5. SUBSET S \subseteq G
    <2> HIDE DEF G
    <2> QED  BY <1>3, <1>4, PeelInduction
  <1> QED  BY <1>1, <1>2, <1>5

(* Adding c to each term of T adds c per element of T to the sum.           *)
LEMMA SumShift ==
  ASSUME NEW S, IsFiniteSet(S), NEW f \in [S -> Int], NEW h \in [S -> Int],
         NEW T \in SUBSET S, NEW c \in Nat,
         \A x \in S : h[x] = f[x] + (IF x \in T THEN c ELSE 0)
  PROVE  SumFunction(h) = SumFunction(f) + Cardinality(T) * c
  <1>1. PICK g : Unrolled(g, f, S) /\ SumFunction(f) = g[S]
    BY Iterate
  <1>2. PICK k : Unrolled(k, h, S) /\ SumFunction(h) = k[S]
    BY Iterate
  <1> DEFINE G == {s \in SUBSET S :
                     /\ g[s] \in Int /\ k[s] \in Int
                     /\ k[s] = g[s] + Cardinality(T \cap s) * c}
  <1>3. {} \in G
    <2>1. {} \in SUBSET S
      OBVIOUS
    <2>2. g[{}] = 0 /\ k[{}] = 0
      BY <1>1, <1>2, <2>1, Zenon DEF Unrolled
    <2>3. Cardinality(T \cap {}) = 0
      BY FS_EmptySet
    <2>4. Cardinality(T \cap {}) * c = 0
      BY <2>3
    <2> QED  BY <2>1, <2>2, <2>4
  <1>4. ASSUME NEW s \in SUBSET S, s # {}, s \ {Pick(s)} \in G
        PROVE  s \in G
    <2> DEFINE p == Pick(s)
               m == Cardinality(T \cap (s \ {p}))
    <2>1. g[s] = f[p] + g[s \ {p}]
      BY <1>1, <1>4 DEF Unrolled
    <2>2. k[s] = h[p] + k[s \ {p}]
      BY <1>2, <1>4 DEF Unrolled
    <2>3. /\ f[p] \in Int /\ h[p] \in Int /\ p \in S /\ p \in s
          /\ h[p] = f[p] + (IF p \in T THEN c ELSE 0)
      BY Picked, <1>4
    <2>4. IsFiniteSet(T \cap (s \ {p}))
      BY FS_Subset
    <2>5. m \in Nat
      BY <2>4, FS_CardinalityType
    <2>6. /\ g[s \ {p}] \in Int /\ k[s \ {p}] \in Int
          /\ k[s \ {p}] = g[s \ {p}] + m * c
      BY <1>4
    <2>7. m * c \in Int /\ (m + 1) * c = m * c + c
      BY <2>5
    <2>8. CASE p \in T
      <3>1. T \cap s = (T \cap (s \ {p})) \cup {p}
        BY <2>3, <2>8
      <3>2. Cardinality(T \cap s) = m + 1
        BY <2>4, <3>1, FS_AddElement
      <3>3. Cardinality(T \cap s) * c = m * c + c
        BY <3>2, <2>7
      <3> HIDE DEF p, m
      <3>4. k[s] = g[s] + (m * c + c)
        BY <2>1, <2>2, <2>3, <2>6, <2>7, <2>8
      <3>5. g[s] \in Int /\ k[s] \in Int
        BY <2>1, <2>2, <2>3, <2>6
      <3> QED  BY <3>3, <3>4, <3>5
    <2>9. CASE p \notin T
      <3>1. T \cap s = T \cap (s \ {p})
        BY <2>3, <2>9
      <3>2. Cardinality(T \cap s) * c = m * c
        BY <3>1
      <3> HIDE DEF p, m
      <3>3. k[s] = g[s] + m * c /\ g[s] \in Int /\ k[s] \in Int
        BY <2>1, <2>2, <2>3, <2>6, <2>7, <2>9
      <3> QED  BY <3>2, <3>3
    <2> QED  BY <2>8, <2>9
  <1>5. SUBSET S \subseteq G
    <2> HIDE DEF G
    <2> QED  BY <1>3, <1>4, PeelInduction
  <1>6. T \cap S = T
    OBVIOUS
  <1> QED  BY <1>1, <1>2, <1>5, <1>6

(* A sum of nonnegative terms is no less than any of them.                  *)
LEMMA SumAtLeast ==
  ASSUME NEW S, IsFiniteSet(S), NEW f \in [S -> Int], \A x \in S : f[x] >= 0, NEW y \in S
  PROVE  f[y] <= SumFunction(f)
  <1> DEFINE h == [f EXCEPT ![y] = 0]
  <1>1. h \in [S -> Int] /\ h[y] = 0 /\ \A x \in S \ {y} : h[x] = f[x]
    OBVIOUS
  <1>2. SumFunction(h) \in Int /\ SumFunction(h) >= 0
    <2>1. \A x \in S : h[x] >= 0
      OBVIOUS
    <2> HIDE DEF h
    <2> QED  BY <1>1, <2>1, SumType
  <1>3. SumFunction(h) = SumFunction(f) + h[y] - f[y]
    <2> HIDE DEF h
    <2> QED  BY <1>1, SumUpdate
  <1>4. SumFunction(f) \in Int /\ f[y] \in Int
    BY SumType
  <1> HIDE DEF h
  <1> QED  BY <1>1, <1>2, <1>3, <1>4

(* f where it counts, and zero elsewhere.                                   *)
Masked(f, S, s) == [x \in S |-> IF x \in s THEN f[x] ELSE 0]

(* The sum over a subset is the sum over the whole of f masked: the order   *)
(* in which the two folds take the elements off does not matter.            *)
LEMMA SumMasked ==
  ASSUME NEW S, IsFiniteSet(S), NEW f \in [S -> Int], NEW T \in SUBSET S,
         NEW h \in [T -> Int], \A x \in T : h[x] = f[x]
  PROVE  SumFunction(h) = SumFunction(Masked(f, S, T))
  <1>0. IsFiniteSet(T)
    BY FS_Subset
  <1>1. PICK g : Unrolled(g, h, T) /\ SumFunction(h) = g[T]
    BY <1>0, Iterate
  <1>2. \A s \in SUBSET S : Masked(f, S, s) \in [S -> Int]
    BY DEF Masked
  <1> DEFINE G == {s \in SUBSET T : g[s] = SumFunction(Masked(f, S, s))}
  <1>3. {} \in G
    <2>1. {} \in SUBSET T /\ {} \in SUBSET S
      OBVIOUS
    <2>2. g[{}] = 0
      BY <1>1, <2>1, Zenon DEF Unrolled
    <2>3. \A x \in S : Masked(f, S, {})[x] = 0
      BY DEF Masked
    <2>4. SumFunction(Masked(f, S, {})) = 0
      BY <1>2, <2>1, <2>3, SumType
    <2> QED  BY <2>1, <2>2, <2>4
  <1>4. ASSUME NEW s \in SUBSET T, s # {}, s \ {Pick(s)} \in G
        PROVE  s \in G
    <2> DEFINE p == Pick(s)
               u == s \ {p}
    <2>1. g[s] = h[p] + g[u]
      BY <1>1, <1>4 DEF Unrolled
    <2>2. p \in s /\ p \in S /\ u \in SUBSET S /\ s \in SUBSET S /\ h[p] = f[p] /\ f[p] \in Int
      BY Picked, <1>4
    <2>3. g[u] = SumFunction(Masked(f, S, u))
      BY <1>4
    <2>4. /\ Masked(f, S, s)[p] = f[p] /\ Masked(f, S, u)[p] = 0
          /\ \A y \in S \ {p} : Masked(f, S, s)[y] = Masked(f, S, u)[y]
      BY <2>2 DEF Masked
    <2> HIDE DEF p, u
    <2>5. SumFunction(Masked(f, S, s)) = SumFunction(Masked(f, S, u)) + f[p] - 0
      BY <1>2, <2>2, <2>4, SumUpdate
    <2>6. SumFunction(Masked(f, S, u)) \in Int
      BY <1>2, <2>2, SumType
    <2> QED  BY <2>1, <2>2, <2>3, <2>5, <2>6
  <1>5. SUBSET T \subseteq G
    <2> HIDE DEF G
    <2> QED  BY <1>0, <1>3, <1>4, PeelInduction
  <1> QED  BY <1>1, <1>5

(* Fewer nonnegative terms, smaller sum.                                    *)
LEMMA SumSubset ==
  ASSUME NEW S, IsFiniteSet(S), NEW f \in [S -> Nat], NEW T \in SUBSET S,
         NEW h \in [T -> Nat], \A x \in T : h[x] = f[x]
  PROVE  SumFunction(h) <= SumFunction(f)
  <1>1. f \in [S -> Int] /\ h \in [T -> Int] /\ Masked(f, S, T) \in [S -> Int]
    BY DEF Masked
  <1>2. \A x \in S : Masked(f, S, T)[x] <= f[x]
    BY DEF Masked
  <1> QED  BY <1>1, <1>2, SumMasked, SumMonotone

(* One more term.                                                           *)
LEMMA SumInsert ==
  ASSUME NEW S, IsFiniteSet(S), NEW x, x \notin S, NEW f \in [S \cup {x} -> Int],
         NEW h \in [S -> Int], \A y \in S : h[y] = f[y]
  PROVE  SumFunction(f) = SumFunction(h) + f[x]
  <1> DEFINE U == S \cup {x}
  <1>0. IsFiniteSet(U)
    BY FS_AddElement
  <1>1. S \in SUBSET U /\ x \in U /\ f \in [U -> Int]
    OBVIOUS
  <1> HIDE DEF U
  <1>2. SumFunction(h) = SumFunction(Masked(f, U, S))
    BY <1>0, <1>1, SumMasked
  <1>3. Masked(f, U, S) \in [U -> Int] /\ Masked(f, U, S)[x] = 0
    BY <1>1 DEF Masked
  <1>4. \A y \in U \ {x} : Masked(f, U, S)[y] = f[y]
    BY DEF Masked, U
  <1>5. SumFunction(f) = SumFunction(Masked(f, U, S)) + f[x] - 0
    BY <1>0, <1>1, <1>3, <1>4, SumUpdate
  <1>6. SumFunction(Masked(f, U, S)) \in Int /\ f[x] \in Int
    BY <1>0, <1>1, <1>3, SumType
  <1> QED  BY <1>2, <1>5, <1>6
=============================================================================
