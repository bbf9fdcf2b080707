----------------------------- MODULE TipProofs -----------------------------
(***************************************************************************)
(* The tip on its way, for any accounts, amounts and numbers of transfers: *)
(* what the check before the send says (TipInspection), what the report of *)
(* a landing says (Landing), and that the two agree (TipPath), which is    *)
(* proved from the invariants of the two sides. Sums over finite sets come *)
(* first: an amount is such a sum, which the library defines by recursion  *)
(* over the set.                                                           *)
(***************************************************************************)
EXTENDS TipPath, Functions, FiniteSetTheorems, SequenceTheorems,
        WellFoundedInduction, NaturalsInduction, TLAPS

-----------------------------------------------------------------------------
(* Sums over finite sets. *)

\* A set of natural numbers has a least element.
LEMMA LeastNatural ==
    ASSUME NEW T, T \subseteq Nat, T # {}
    PROVE  \E m \in T : \A k \in T : m <= k
<1>1. PICK m \in T : \A k \in T : <<k, m>> \notin OpToRel(<, Nat)
  BY WFMin, NatLessThanWellFounded, Zenon
<1>2. \A k \in Nat : k < m => <<k, m>> \in OpToRel(<, Nat)
  BY Zenon DEF OpToRel
<1>3. \A k \in T : ~(k < m)
  BY <1>1, <1>2, Zenon
<1>. QED
  BY <1>3

\* Strong induction over the subsets of a finite set: whatever holds of a subset
\* once it holds of all the smaller ones holds of all.
LEMMA SubsetInduction ==
    ASSUME NEW S, IsFiniteSet(S), NEW P,
           \A T \in SUBSET S :
              (\A U \in SUBSET S : Cardinality(U) < Cardinality(T) => U \in P) => T \in P
    PROVE  \A T \in SUBSET S : T \in P
<1>. DEFINE Bad == {n \in Nat : \E T \in SUBSET S : T \notin P /\ Cardinality(T) = n}
<1>1. \A T \in SUBSET S : Cardinality(T) \in Nat
  BY FS_Subset, FS_CardinalityType
<1>2. SUFFICES ASSUME NEW T \in SUBSET S, T \notin P PROVE FALSE
  OBVIOUS
<1>3. Bad # {}
  BY <1>1, <1>2
<1>4. PICK m \in Bad : \A k \in Bad : m <= k
  <2>. HIDE DEF Bad
  <2>1. Bad \subseteq Nat
    BY DEF Bad
  <2>. QED
    BY <1>3, <2>1, LeastNatural
<1>5. PICK U \in SUBSET S : U \notin P /\ Cardinality(U) = m
  BY <1>4
<1>6. \A V \in SUBSET S : Cardinality(V) < Cardinality(U) => V \in P
  BY <1>1, <1>4, <1>5
<1>. QED
  BY <1>5, <1>6

\* The element that the sum over a set begins with.
First(s) == CHOOSE x \in s : TRUE

\* g maps each set in D to the sum of f over it.
IsSum(f, D, g) ==
    g = [s \in D |-> IF s = {} THEN 0 ELSE f[First(s)] + g[s \ {First(s)}]]

Small(S, n) == {s \in SUBSET S : Cardinality(s) <= n}

\* The first element is one.
LEMMA FirstIn == ASSUME NEW s, s # {} PROVE First(s) \in s
BY DEF First

\* Without it the set is one smaller.
LEMMA FirstSmaller ==
    ASSUME NEW s, IsFiniteSet(s), s # {}
    PROVE  /\ IsFiniteSet(s \ {First(s)})
           /\ Cardinality(s) \in Nat \ {0}
           /\ Cardinality(s \ {First(s)}) = Cardinality(s) - 1
BY FirstIn, FS_RemoveElement, FS_CardinalityType, FS_EmptySet

\* A set gets smaller by the removal of an element.
LEMMA RemovedSmaller ==
    ASSUME NEW s, IsFiniteSet(s), NEW x \in s
    PROVE  IsFiniteSet(s \ {x}) /\ Cardinality(s \ {x}) < Cardinality(s)
<1>1. Cardinality(s) \in Nat /\ Cardinality(s \ {x}) = Cardinality(s) - 1
  BY FS_RemoveElement, FS_CardinalityType
<1>. QED
  BY <1>1, FS_RemoveElement

\* The recursion that defines a sum has a solution.
LEMMA SumExists ==
    ASSUME NEW f, NEW S, IsFiniteSet(S)
    PROVE  \E g : IsSum(f, SUBSET S, g)
<1>. DEFINE Bad == {n \in Nat : ~ \E g : IsSum(f, Small(S, n), g)}
<1>1. \A T \in SUBSET S : IsFiniteSet(T) /\ Cardinality(T) \in Nat
  BY FS_Subset, FS_CardinalityType
<1>2. ASSUME NEW n \in Nat, NEW g, IsSum(f, Small(S, n), g)
      PROVE  \E h : IsSum(f, Small(S, n + 1), h)
  <2>. DEFINE h == [s \in Small(S, n + 1) |->
                      IF s = {} THEN 0 ELSE f[First(s)] + g[s \ {First(s)}]]
  <2>1. ASSUME NEW s \in Small(S, n + 1), s # {}
        PROVE  /\ s \ {First(s)} \in Small(S, n)
               /\ s \ {First(s)} \in Small(S, n + 1)
    BY <2>1, <1>1, FirstSmaller DEF Small
  <2>2. \A s \in Small(S, n) : s \in Small(S, n + 1)
    BY <1>1 DEF Small
  <2>3. \A s \in Small(S, n) : h[s] = g[s]
    BY <1>2, <2>2 DEF IsSum
  <2>4. h = [s \in Small(S, n + 1) |->
               IF s = {} THEN 0 ELSE f[First(s)] + h[s \ {First(s)}]]
    <3>. HIDE DEF h
    <3>1. h = [s \in Small(S, n + 1) |->
                      IF s = {} THEN 0 ELSE f[First(s)] + g[s \ {First(s)}]]
      BY DEF h
    <3>. QED
      BY <2>1, <2>3, <3>1
  <2>. QED
    BY <2>4 DEF IsSum
<1>3. \E g : IsSum(f, Small(S, 0), g)
  <2>1. \A s \in Small(S, 0) : s = {}
    BY <1>1, FS_EmptySet DEF Small
  <2>. DEFINE g == [s \in Small(S, 0) |-> 0]
  <2>2. IsSum(f, Small(S, 0), g)
    BY <2>1 DEF IsSum
  <2>. QED
    BY <2>2
<1>4. Bad = {}
  <2>1. SUFFICES ASSUME Bad # {} PROVE FALSE
    OBVIOUS
  <2>2. PICK m \in Bad : \A k \in Bad : m <= k
    <3>. HIDE DEF Bad
    <3>1. Bad \subseteq Nat
      BY DEF Bad
    <3>. QED
      BY <2>1, <3>1, LeastNatural
  <2>3. m # 0 /\ m - 1 \in Nat /\ m - 1 + 1 = m
    BY <1>3, <2>2
  <2>4. PICK g : IsSum(f, Small(S, m - 1), g)
    BY <2>2, <2>3
  <2>. QED
    BY <1>2, <2>2, <2>3, <2>4
<1>5. Small(S, Cardinality(S)) = SUBSET S
  BY FS_Subset DEF Small
<1>6. PICK g : IsSum(f, Small(S, Cardinality(S)), g)
  <2>1. Cardinality(S) \in Nat
    BY FS_CardinalityType
  <2>2. Cardinality(S) \notin Bad
    BY <1>4
  <2>. QED
    BY <2>1, <2>2
<1>7. IsSum(f, SUBSET S, g)
  BY <1>5, <1>6
<1>. QED
  BY <1>7

\* Two solutions agree where both are defined.
LEMMA SumUnique ==
    ASSUME NEW f, NEW S, IsFiniteSet(S), NEW T \in SUBSET S,
           NEW g, IsSum(f, SUBSET S, g), NEW h, IsSum(f, SUBSET T, h)
    PROVE  h[T] = g[T]
<1>. DEFINE P == {U \in SUBSET T : h[U] = g[U]}
<1>1. IsFiniteSet(T)
  BY FS_Subset
<1>2. ASSUME NEW U \in SUBSET T,
             \A V \in SUBSET T : Cardinality(V) < Cardinality(U) => V \in P
      PROVE  U \in P
  <2>1. CASE U = {}
    BY <2>1 DEF IsSum
  <2>2. CASE U # {}
    <3>1. h[U \ {First(U)}] = g[U \ {First(U)}]
      BY <1>1, <1>2, <2>2, FirstSmaller, FS_Subset
    <3>. QED
      BY <2>2, <3>1 DEF IsSum
  <2>. QED
    BY <2>1, <2>2
<1>3. \A U \in SUBSET T : U \in P
  <2>. HIDE DEF P
  <2>. QED
    BY <1>1, <1>2, SubsetInduction
<1>. QED
  BY <1>3

\* The sum of a set is the sum of one element and of the rest.
LEMMA SumUnfold ==
    ASSUME NEW f, NEW S, IsFiniteSet(S)
    PROVE  SumFunctionOnSet(f, S) =
              IF S = {} THEN 0
              ELSE f[First(S)] + SumFunctionOnSet(f, S \ {First(S)})
<1>. DEFINE g(T) == CHOOSE g : IsSum(f, SUBSET T, g)
<1>1. \A T : SumFunctionOnSet(f, T) = g(T)[T]
  BY DEF SumFunctionOnSet, FoldFunctionOnSet, MapThenFoldSet, IsSum, First
<1>2. ASSUME NEW T, IsFiniteSet(T)
      PROVE  IsSum(f, SUBSET T, g(T))
  BY <1>2, SumExists
<1>. HIDE DEF g
<1>3. CASE S = {}
  BY <1>1, <1>2, <1>3 DEF IsSum
<1>4. CASE S # {}
  <2>. DEFINE T == S \ {First(S)}
  <2>1. IsFiniteSet(T) /\ T \in SUBSET S
    BY <1>4, FirstSmaller
  <2>2. g(S)[S] = f[First(S)] + g(S)[T]
    BY <1>2, <1>4 DEF IsSum
  <2>. HIDE DEF T
  <2>3. IsSum(f, SUBSET T, g(T)) /\ IsSum(f, SUBSET S, g(S))
    BY <1>2, <2>1
  <2>4. g(T)[T] = g(S)[T]
    BY <2>1, <2>3, SumUnique
  <2>. QED
    BY <1>1, <1>4, <2>2, <2>4 DEF T
<1>. QED
  BY <1>3, <1>4

\* There is nothing to add up over no index.
LEMMA SumEmpty == ASSUME NEW f PROVE SumFunctionOnSet(f, {}) = 0
BY SumUnfold, FS_EmptySet

\* A sum of natural numbers is one.
LEMMA SumNatural ==
    ASSUME NEW f, NEW S, IsFiniteSet(S), \A x \in S : f[x] \in Nat
    PROVE  SumFunctionOnSet(f, S) \in Nat
<1>. DEFINE P == {T \in SUBSET S : SumFunctionOnSet(f, T) \in Nat}
<1>1. ASSUME NEW T \in SUBSET S,
             \A U \in SUBSET S : Cardinality(U) < Cardinality(T) => U \in P
      PROVE  T \in P
  <2>1. CASE T = {}
    BY <2>1, SumEmpty
  <2>2. CASE T # {}
    <3>1. IsFiniteSet(T)
      BY FS_Subset
    <3>2. T \ {First(T)} \in P /\ f[First(T)] \in Nat
      BY <1>1, <2>2, <3>1, FirstSmaller, FirstIn
    <3>3. SumFunctionOnSet(f, T) = f[First(T)] + SumFunctionOnSet(f, T \ {First(T)})
      BY <2>2, <3>1, SumUnfold
    <3>. QED
      BY <3>2, <3>3
  <2>. QED
    BY <2>1, <2>2
<1>2. \A T \in SUBSET S : T \in P
  <2>. HIDE DEF P
  <2>. QED
    BY <1>1, SubsetInduction
<1>. QED
  BY <1>2

\* Any element may be taken out first.
LEMMA SumRemove ==
    ASSUME NEW f, NEW S, IsFiniteSet(S), \A x \in S : f[x] \in Nat, NEW x \in S
    PROVE  SumFunctionOnSet(f, S) = f[x] + SumFunctionOnSet(f, S \ {x})
<1>. DEFINE P == {T \in SUBSET S : \A y \in T :
                     SumFunctionOnSet(f, T) = f[y] + SumFunctionOnSet(f, T \ {y})}
<1>1. ASSUME NEW T \in SUBSET S,
             \A U \in SUBSET S : Cardinality(U) < Cardinality(T) => U \in P
      PROVE  T \in P
  <2>. SUFFICES ASSUME NEW y \in T
       PROVE  SumFunctionOnSet(f, T) = f[y] + SumFunctionOnSet(f, T \ {y})
    OBVIOUS
  <2>. DEFINE a == First(T)
  <2>1. IsFiniteSet(T)
    BY FS_Subset
  <2>2. a \in T
    BY FirstIn
  <2>3. SumFunctionOnSet(f, T) = f[a] + SumFunctionOnSet(f, T \ {a})
    BY <2>1, SumUnfold
  <2>. HIDE DEF a
  <2>4. CASE y = a
    BY <2>3, <2>4
  <2>5. CASE y # a
    <3>1. ASSUME NEW z \in T PROVE T \ {z} \in P
      <4>1. Cardinality(T \ {z}) < Cardinality(T)
        BY <2>1, RemovedSmaller
      <4>. QED
        BY <1>1, <4>1
    <3>2. SumFunctionOnSet(f, T \ {a}) = f[y] + SumFunctionOnSet(f, (T \ {a}) \ {y})
      BY <2>2, <2>5, <3>1
    <3>3. SumFunctionOnSet(f, T \ {y}) = f[a] + SumFunctionOnSet(f, (T \ {y}) \ {a})
      BY <2>2, <2>5, <3>1
    <3>4. (T \ {a}) \ {y} = (T \ {y}) \ {a}
      OBVIOUS
    <3>5. SumFunctionOnSet(f, (T \ {y}) \ {a}) \in Nat
      <4>1. IsFiniteSet((T \ {y}) \ {a})
        BY <2>1, FS_Subset
      <4>. QED
        BY <4>1, SumNatural
    <3>. QED
      BY <2>2, <2>3, <3>2, <3>3, <3>4, <3>5
  <2>. QED
    BY <2>4, <2>5
<1>2. \A T \in SUBSET S : T \in P
  <2>. HIDE DEF P
  <2>. QED
    BY <1>1, SubsetInduction
<1>. QED
  BY <1>2

\* Functions that agree on a set have the same sum over it.
LEMMA SumEqual ==
    ASSUME NEW f, NEW g, NEW S, IsFiniteSet(S),
           \A x \in S : f[x] \in Nat /\ g[x] = f[x]
    PROVE  SumFunctionOnSet(g, S) = SumFunctionOnSet(f, S)
<1>. DEFINE P == {T \in SUBSET S : SumFunctionOnSet(g, T) = SumFunctionOnSet(f, T)}
<1>1. ASSUME NEW T \in SUBSET S,
             \A U \in SUBSET S : Cardinality(U) < Cardinality(T) => U \in P
      PROVE  T \in P
  <2>1. CASE T = {}
    BY <2>1, SumEmpty
  <2>2. CASE T # {}
    <3>1. IsFiniteSet(T)
      BY FS_Subset
    <3>2. First(T) \in T
      BY <2>2, FirstIn
    <3>. HIDE DEF P
    <3>3. T \ {First(T)} \in P
      BY <1>1, <3>1, <3>2, RemovedSmaller
    <3>4. SumFunctionOnSet(g, T \ {First(T)}) = SumFunctionOnSet(f, T \ {First(T)})
      BY <3>3 DEF P
    <3>5. SumFunctionOnSet(g, T) = g[First(T)] + SumFunctionOnSet(g, T \ {First(T)})
      BY <2>2, <3>1, SumUnfold
    <3>6. SumFunctionOnSet(f, T) = f[First(T)] + SumFunctionOnSet(f, T \ {First(T)})
      BY <2>2, <3>1, SumUnfold
    <3>7. SumFunctionOnSet(g, T) = SumFunctionOnSet(f, T)
      BY <3>2, <3>4, <3>5, <3>6
    <3>. QED
      BY <3>7 DEF P
  <2>. QED
    BY <2>1, <2>2
<1>2. \A T \in SUBSET S : T \in P
  <2>. HIDE DEF P
  <2>. QED
    BY <1>1, SubsetInduction
<1>. QED
  BY <1>2

\* Zeros add up to zero.
LEMMA SumZero ==
    ASSUME NEW f, NEW S, IsFiniteSet(S), \A x \in S : f[x] = 0
    PROVE  SumFunctionOnSet(f, S) = 0
<1>. DEFINE P == {T \in SUBSET S : SumFunctionOnSet(f, T) = 0}
<1>1. ASSUME NEW T \in SUBSET S,
             \A U \in SUBSET S : Cardinality(U) < Cardinality(T) => U \in P
      PROVE  T \in P
  <2>1. CASE T = {}
    BY <2>1, SumEmpty
  <2>2. CASE T # {}
    <3>1. IsFiniteSet(T)
      BY FS_Subset
    <3>2. First(T) \in T
      BY <2>2, FirstIn
    <3>3. SumFunctionOnSet(f, T \ {First(T)}) = 0
      BY <1>1, <3>1, <3>2, RemovedSmaller
    <3>4. SumFunctionOnSet(f, T) = f[First(T)] + SumFunctionOnSet(f, T \ {First(T)})
      BY <2>2, <3>1, SumUnfold
    <3>. QED
      BY <3>2, <3>3, <3>4
  <2>. QED
    BY <2>1, <2>2
<1>2. \A T \in SUBSET S : T \in P
  <2>. HIDE DEF P
  <2>. QED
    BY <1>1, SubsetInduction
<1>. QED
  BY <1>2

\* The sum over two sets with no element in common.
LEMMA SumDisjoint ==
    ASSUME NEW f, NEW A, NEW B, IsFiniteSet(A), IsFiniteSet(B), A \cap B = {},
           \A x \in A \cup B : f[x] \in Nat
    PROVE  SumFunctionOnSet(f, A \cup B) = SumFunctionOnSet(f, A) + SumFunctionOnSet(f, B)
<1>. DEFINE P == {T \in SUBSET B : SumFunctionOnSet(f, A \cup T)
                                   = SumFunctionOnSet(f, A) + SumFunctionOnSet(f, T)}
<1>0. SumFunctionOnSet(f, A) \in Nat
  BY SumNatural
<1>1. ASSUME NEW T \in SUBSET B,
             \A U \in SUBSET B : Cardinality(U) < Cardinality(T) => U \in P
      PROVE  T \in P
  <2>1. CASE T = {}
    <3>1. A \cup T = A
      BY <2>1
    <3>. QED
      BY <1>0, <2>1, <3>1, SumEmpty
  <2>2. CASE T # {}
    <3>1. IsFiniteSet(T) /\ IsFiniteSet(A \cup T)
      BY FS_Subset, FS_Union
    <3>2. PICK y \in T : TRUE
      BY <2>2
    <3>3. Cardinality(T \ {y}) < Cardinality(T)
      BY <3>1, RemovedSmaller
    <3>4. SumFunctionOnSet(f, A \cup (T \ {y}))
             = SumFunctionOnSet(f, A) + SumFunctionOnSet(f, T \ {y})
      BY <1>1, <3>3
    <3>5. (A \cup T) \ {y} = A \cup (T \ {y})
      BY <3>2
    <3>6. SumFunctionOnSet(f, A \cup T) = f[y] + SumFunctionOnSet(f, A \cup (T \ {y}))
      BY <3>1, <3>2, <3>5, SumRemove
    <3>7. SumFunctionOnSet(f, T) = f[y] + SumFunctionOnSet(f, T \ {y})
      BY <3>1, <3>2, SumRemove
    <3>8. f[y] \in Nat /\ SumFunctionOnSet(f, T \ {y}) \in Nat
      <4>1. IsFiniteSet(T \ {y})
        BY <3>1, FS_Subset
      <4>. QED
        BY <3>2, <4>1, SumNatural
    <3>. QED
      BY <1>0, <3>4, <3>6, <3>7, <3>8
  <2>. QED
    BY <2>1, <2>2
<1>2. \A T \in SUBSET B : T \in P
  <2>. HIDE DEF P
  <2>. QED
    BY <1>1, SubsetInduction
<1>. QED
  BY <1>2

\* More terms, no smaller a sum.
LEMMA SumMonotone ==
    ASSUME NEW f, NEW S, IsFiniteSet(S), \A x \in S : f[x] \in Nat, NEW T \in SUBSET S
    PROVE  SumFunctionOnSet(f, T) <= SumFunctionOnSet(f, S)
<1>1. IsFiniteSet(T) /\ IsFiniteSet(S \ T) /\ T \cup (S \ T) = S
  BY FS_Subset
<1>2. SumFunctionOnSet(f, S) = SumFunctionOnSet(f, T) + SumFunctionOnSet(f, S \ T)
  BY <1>1, SumDisjoint
<1>3. SumFunctionOnSet(f, T) \in Nat /\ SumFunctionOnSet(f, S \ T) \in Nat
  BY <1>1, SumNatural
<1>. QED
  BY <1>2, <1>3

\* Summing up by a key: part[a] is what has the key a, and whole what has any of
\* them.
LEMMA SumByKey ==
    ASSUME NEW f, NEW K, IsFiniteSet(K), \A x \in K : f[x] \in Nat,
           NEW key, NEW T, IsFiniteSet(T),
           NEW part, \A a \in T : part[a] \subseteq K /\ \A x \in K : x \in part[a] <=> key[x] = a,
           NEW whole \in SUBSET K, \A x \in K : x \in whole <=> key[x] \in T,
           NEW g, \A a \in T : g[a] = SumFunctionOnSet(f, part[a])
    PROVE  SumFunctionOnSet(g, T) = SumFunctionOnSet(f, whole)
<1>. DEFINE Of(U) == {x \in K : key[x] \in U}
            P == {U \in SUBSET T : SumFunctionOnSet(g, U) = SumFunctionOnSet(f, Of(U))}
<1>0. \A U : IsFiniteSet(Of(U)) /\ \A x \in Of(U) : f[x] \in Nat
  BY FS_Subset
<1>1. \A a \in T : g[a] \in Nat
  <2>. SUFFICES ASSUME NEW a \in T PROVE g[a] \in Nat
    OBVIOUS
  <2>1. IsFiniteSet(part[a]) /\ \A x \in part[a] : f[x] \in Nat
    BY FS_Subset
  <2>. QED
    BY <2>1, SumNatural
<1>2. ASSUME NEW U \in SUBSET T,
             \A V \in SUBSET T : Cardinality(V) < Cardinality(U) => V \in P
      PROVE  U \in P
  <2>1. CASE U = {}
    <3>1. Of(U) = {}
      BY <2>1
    <3>. QED
      BY <2>1, <3>1, SumEmpty
  <2>2. CASE U # {}
    <3>1. IsFiniteSet(U)
      BY FS_Subset
    <3>2. PICK a \in U : TRUE
      BY <2>2
    <3>. DEFINE Part == part[a]
                Rest == Of(U \ {a})
    <3>3. Part \cup Rest = Of(U) /\ Part \cap Rest = {}
      BY <3>2
    <3>4. IsFiniteSet(Part) /\ IsFiniteSet(Rest) /\ \A x \in Part \cup Rest : f[x] \in Nat
      BY FS_Subset
    <3>5. SumFunctionOnSet(g, U \ {a}) = SumFunctionOnSet(f, Rest)
      <4>1. Cardinality(U \ {a}) < Cardinality(U)
        BY <3>1, <3>2, RemovedSmaller
      <4>. QED
        BY <1>2, <4>1
    <3>6. g[a] = SumFunctionOnSet(f, Part)
      OBVIOUS
    <3>7. SumFunctionOnSet(g, U) = g[a] + SumFunctionOnSet(g, U \ {a})
      <4>1. \A b \in U : g[b] \in Nat
        BY <1>1
      <4>. QED
        BY <3>1, <3>2, <4>1, SumRemove
    <3>. HIDE DEF Part, Rest
    <3>8. SumFunctionOnSet(f, Part \cup Rest)
             = SumFunctionOnSet(f, Part) + SumFunctionOnSet(f, Rest)
      BY <3>3, <3>4, SumDisjoint
    <3>. QED
      BY <3>3, <3>5, <3>6, <3>7, <3>8
  <2>. QED
    BY <2>1, <2>2
<1>3. \A U \in SUBSET T : U \in P
  <2>. HIDE DEF P
  <2>. QED
    BY <1>2, SubsetInduction
<1>4. whole = Of(T)
  OBVIOUS
<1>. QED
  BY <1>3, <1>4

-----------------------------------------------------------------------------
(* The check by itself: any transaction, any tables, any part of them known. *)

\* The limits are numbers, and no verdict or account is None.
LEMMA Constants ==
    /\ MinTip \in Nat \ {0} /\ Width \in Nat \ {0} /\ Supply \in Nat /\ Supply < Width
    /\ Lamports \subseteq Nat
    /\ None \notin Nat /\ None \notin Account
    /\ None \notin {"ok", "unresolved", "missing", "below"}
<1>1. /\ MinTip \in Nat \ {0} /\ Supply \in Nat /\ Supply < Width /\ Width \in Nat
      /\ Lamports \subseteq 0..Width - 1
  BY AmountAssumption
<1>2. Width # 0 /\ 0..Width - 1 \subseteq Nat
  BY <1>1
<1>3. None \notin Nat \cup Account \cup {"ok", "unresolved", "missing", "below"}
  BY NoneAssumption
<1>. QED
  BY <1>1, <1>2, <1>3

\* A 64-bit sum is the sum if that fits, and less otherwise.
LEMMA Wrapped ==
    ASSUME NEW n \in Nat
    PROVE  n % Width \in Nat /\ n % Width <= n /\ (n < Width => n % Width = n)
BY Constants

Instructions == Transfer \cup {[kind |-> "else"]}

\* What the caller passes is a part of the tables from their start.
Shape ==
    /\ static \in Seq(Account) /\ table \in Seq(Account)
    /\ \E n \in 0..Len(table) : loaded = SubSeq(table, 1, n)
    /\ instructions \in Seq(Instructions)

Judged ==
    /\ resolved = Amount(Tips) % Width
    /\ unresolved = Amount(Unresolved) % Width
    /\ verdict = "ok" => resolved >= MinTip
    /\ verdict \in {"missing", "below"} =>
          resolved < MinTip /\ Unresolved = {}
    /\ verdict = "unresolved" => Unresolved # {}

InspectionInv == Shape /\ (verdict # None => Judged)

\* The transfers among the instructions are finitely many, each of some lamports.
LEMMA DirectedFacts ==
    ASSUME Shape
    PROVE  /\ IsFiniteSet(Directed)
           /\ \A k \in Directed :
                 /\ k \in DOMAIN instructions
                 /\ instructions[k].to \in Nat
                 /\ instructions[k].lamports \in Nat
<1>1. DOMAIN instructions = 1..Len(instructions) /\ Len(instructions) \in Nat
  BY DEF Shape
<1>2. IsFiniteSet(1..Len(instructions))
  BY <1>1, FS_Interval
<1>3. Directed \subseteq DOMAIN instructions
  BY DEF Directed
<1>4. ASSUME NEW k \in Directed
      PROVE  instructions[k].to \in Nat /\ instructions[k].lamports \in Nat
  <2>1. /\ instructions[k] \in Instructions
        /\ instructions[k].kind = "transfer" /\ instructions[k].to # None
    BY <1>1 DEF Shape, Directed
  <2>2. instructions[k] \in Transfer
    BY <2>1 DEF Instructions
  <2>3. instructions[k].to \in Nat \cup {None} /\ instructions[k].lamports \in Lamports
    BY <2>2 DEF Transfer
  <2>. QED
    BY <2>1, <2>3, Constants
<1>. QED
  BY <1>1, <1>2, <1>3, <1>4, FS_Subset

\* Their sums are monotone, and add up when apart.
LEMMA AmountFacts ==
    ASSUME Shape, NEW S \in SUBSET Directed
    PROVE  /\ Amount(S) \in Nat
           /\ \A T \in SUBSET S : Amount(T) <= Amount(S)
           /\ \A T \in SUBSET Directed :
                 S \cap T = {} => Amount(S \cup T) = Amount(S) + Amount(T)
<1>. DEFINE f == [k \in DOMAIN instructions |-> instructions[k].lamports]
<1>1. IsFiniteSet(S) /\ \A k \in Directed : f[k] \in Nat
  BY DirectedFacts, FS_Subset
<1>2. \A T : Amount(T) = SumFunctionOnSet(f, T)
  BY DEF Amount
<1>. HIDE DEF f
<1>3. SumFunctionOnSet(f, S) \in Nat
  BY <1>1, SumNatural
<1>4. ASSUME NEW T \in SUBSET S
      PROVE  SumFunctionOnSet(f, T) <= SumFunctionOnSet(f, S)
  BY <1>1, SumMonotone
<1>5. ASSUME NEW T \in SUBSET Directed, S \cap T = {}
      PROVE  SumFunctionOnSet(f, S \cup T) = SumFunctionOnSet(f, S) + SumFunctionOnSet(f, T)
  <2>1. IsFiniteSet(T) /\ \A k \in S \cup T : f[k] \in Nat
    BY <1>1, DirectedFacts, FS_Subset
  <2>. QED
    BY <1>1, <1>5, <2>1, SumDisjoint
<1>. QED
  BY <1>2, <1>3, <1>4, <1>5

\* Resolve against the runtime's numbering of the accounts.
LEMMA ResolvesAsOnChain ==
    ASSUME Shape, NEW i \in Nat
    PROVE  /\ Len(OnChain) \in Nat
           /\ \/ /\ i < Len(OnChain)
                 /\ Resolve(i) = OnChain[i + 1]
                 /\ Resolve(i) # None
              \/ /\ Resolve(i) = None
                 /\ i < Len(OnChain) => UsesLookups
                 /\ i < Len(OnChain) => loaded # table
<1>1. /\ static \in Seq(Account) /\ table \in Seq(Account)
      /\ Len(static) \in Nat /\ Len(table) \in Nat
  BY DEF Shape
<1>2. PICK n \in 0..Len(table) : loaded = SubSeq(table, 1, n)
  BY DEF Shape
<1>3. Len(loaded) = n /\ \A j \in 1..n : loaded[j] = table[j]
  BY <1>1, <1>2
<1>. DEFINE keys == static \o table
<1>4. /\ OnChain = keys /\ Len(keys) = Len(static) + Len(table)
      /\ \A j \in 1..Len(static) : keys[j] = static[j]
      /\ \A j \in 1..Len(table) : keys[Len(static) + j] = table[j]
  BY <1>1 DEF OnChain
<1>. HIDE DEF keys
<1>5. /\ \A j \in 1..Len(static) : static[j] # None
      /\ \A j \in 1..Len(table) : table[j] # None
  BY <1>1, Constants
<1>6. CASE i < Len(static)
  <2>1. i + 1 \in 1..Len(static) /\ i < Len(keys)
    BY <1>1, <1>4, <1>6
  <2>2. Resolve(i) = static[i + 1]
    BY <1>6 DEF Resolve
  <2>. QED
    BY <1>1, <1>4, <1>5, <2>1, <2>2
<1>7. CASE i >= Len(static) /\ i - Len(static) < n
  <2>. DEFINE j == i - Len(static) + 1
  <2>1. /\ j \in 1..n /\ j \in 1..Len(table) /\ i + 1 = Len(static) + j
        /\ i < Len(keys) /\ ~(i < Len(static))
    BY <1>1, <1>4, <1>7
  <2>2. Resolve(i) = loaded[j]
    BY <1>3, <1>7, <2>1 DEF Resolve
  <2>. HIDE DEF j
  <2>. QED
    BY <1>1, <1>3, <1>4, <1>5, <2>1, <2>2
<1>8. CASE i >= Len(static) /\ ~(i - Len(static) < n)
  <2>1. ~(i < Len(static))
    BY <1>1, <1>8
  <2>2. Resolve(i) = None
    BY <1>3, <1>8, <2>1 DEF Resolve
  <2>3. ASSUME i < Len(keys)
        PROVE  Len(table) # 0 /\ n # Len(table)
    BY <1>1, <1>4, <1>8, <2>3
  <2>4. i < Len(keys) => UsesLookups /\ loaded # table
    BY <1>3, <2>3 DEF UsesLookups
  <2>. QED
    BY <1>1, <1>4, <2>2, <2>4
<1>. QED
  BY <1>1, <1>6, <1>7, <1>8

\* The tips on chain are the resolved ones and some of the unresolved ones.
LEMMA TipsOnChain ==
    ASSUME Shape
    PROVE  /\ Tips \subseteq ChainTips
           /\ ChainTips \subseteq Tips \cup Unresolved
           /\ Tips \cap Unresolved = {}
           /\ Tips \in SUBSET Directed
           /\ Unresolved \in SUBSET Directed
           /\ ChainTips \in SUBSET Directed
<1>1. ASSUME NEW k \in Directed
      PROVE  /\ k \in Tips => k \in ChainTips
             /\ k \in ChainTips => k \in Tips \cup Unresolved
  <2>. DEFINE i == instructions[k].to
  <2>1. i \in Nat
    BY DirectedFacts
  <2>2. /\ k \in Tips <=> Resolve(i) = "tip"
        /\ k \in ChainTips <=> /\ i < Len(OnChain)
                                          /\ OnChain[i + 1] = "tip"
        /\ k \in Unresolved <=>
              UsesLookups /\ Resolve(i) = None
    BY DEF Tips, ChainTips, Unresolved
  <2>. HIDE DEF i
  <2>. QED
    BY <2>1, <2>2, ResolvesAsOnChain, Constants DEF Account
<1>2. /\ Tips \in SUBSET Directed
      /\ Unresolved \in SUBSET Directed
      /\ ChainTips \in SUBSET Directed
      /\ Tips \cap Unresolved = {}
  BY Constants DEF Account, Tips, ChainTips, Unresolved
<1>. QED
  BY <1>1, <1>2

\* The verdict follows from what the loop added up.
LEMMA Judges ==
    ASSUME Shape, Send
    PROVE  Judged'
<1>1. /\ verdict' = Verdict
      /\ resolved' = WrappedSum(Tips)
      /\ unresolved' = WrappedSum(Unresolved)
      /\ UNCHANGED <<static, table, loaded, instructions>>
  BY DEF Send, CheckTip
<1>2. \A S : WrappedSum(S) = Amount(S) % Width
  BY DEF WrappedSum
<1>3. /\ Tips' = Tips
      /\ Unresolved' = Unresolved
      /\ Amount(Tips)' = Amount(Tips)
      /\ Amount(Unresolved)' = Amount(Unresolved)
  BY <1>1 DEF Amount, Tips, Unresolved, Directed,
     Resolve, UsesLookups
<1>4. verdict' = IF resolved' >= MinTip THEN "ok"
                 ELSE IF Unresolved # {} THEN "unresolved"
                 ELSE IF Tips = {} THEN "missing" ELSE "below"
  BY <1>1 DEF Verdict
<1>5. resolved' \in Nat
  <2>1. Amount(Tips) \in Nat
    BY TipsOnChain, AmountFacts
  <2>. QED
    BY <1>1, <1>2, <2>1, Wrapped
<1>6. ~(resolved' >= MinTip) => resolved' < MinTip
  BY <1>5, Constants
<1>. QED
  BY <1>1, <1>2, <1>3, <1>4, <1>6 DEF Judged

\* Each step of an inspection keeps the shape of what is inspected, and the
\* verdict that was given.
LEMMA InspectionStep ==
    ASSUME InspectionInv, [Next]_vars
    PROVE  InspectionInv'
<1>1. ASSUME NEW ix \in Instructions, Add(ix)
      PROVE  InspectionInv'
  <2>1. Shape'
    BY <1>1 DEF InspectionInv, Shape, Add
  <2>. QED
    BY <1>1, <2>1 DEF InspectionInv, Add
<1>2. CASE Send
  <2>1. Shape'
    BY <1>2 DEF InspectionInv, Shape, Send
  <2>2. Judged'
    BY <1>2, Judges DEF InspectionInv
  <2>. QED
    BY <2>1, <2>2 DEF InspectionInv
<1>3. CASE Returned \/ UNCHANGED vars
  <2>1. UNCHANGED <<static, table, loaded, instructions, verdict, resolved, unresolved>>
    BY <1>3 DEF Returned, vars
  <2>2. Shape' = Shape
    BY <2>1 DEF Shape
  <2>3. Judged' = Judged
    BY <2>1 DEF Judged, Amount, Tips, Unresolved,
       Directed, Resolve, UsesLookups
  <2>. QED
    BY <2>1, <2>2, <2>3 DEF InspectionInv
<1>4. ASSUME NEW to \in Indices \cup {None}, NEW n \in Lamports
      PROVE  [kind |-> "transfer", to |-> to, lamports |-> n] \in Instructions
  <2>1. Indices \subseteq Nat
    BY DEF Indices
  <2>. QED
    BY <2>1 DEF Instructions, Transfer
<1>. QED
  BY <1>1, <1>2, <1>3, <1>4 DEF Next, Instructions

\* The invariant holds in every reachable state of an inspection (inspect_with_loaded
\* and check, with any number of instructions, keys and tables).
THEOREM InspectionInductive == Spec => []InspectionInv
<1>1. Init => InspectionInv
  <2>. SUFFICES ASSUME Init PROVE InspectionInv
    OBVIOUS
  <2>1. static \in Seq(Account) /\ instructions \in Seq(Instructions) /\ verdict = None
    <3>1. PICK a \in Account : static = <<"other", a>>
      BY DEF Init
    <3>2. "other" \in Account
      BY DEF Account
    <3>. QED
      BY <3>1, <3>2 DEF Init
  <2>2. table \in Seq(Account)
    <3>1. PICK n \in 0..2 : table \in [1..n -> Account]
      BY DEF Init
    <3>. QED
      BY <3>1
  <2>3. \E n \in 0..Len(table) : loaded = SubSeq(table, 1, n)
    BY DEF Init
  <2>. QED
    BY <2>1, <2>2, <2>3 DEF InspectionInv, Shape
<1>2. InspectionInv /\ [Next]_vars => InspectionInv'
  BY InspectionStep
<1>. QED
  BY <1>1, <1>2, PTL DEF Spec

\* A transaction that the check lets through pays the minimum if it executes:
\* what is resolved is on chain, and a sum that wraps only gets smaller.
THEOREM CheckedIsTipped == Spec => []SentIsTipped
<1>1. ASSUME InspectionInv, verdict = "ok"
      PROVE  Amount(ChainTips) >= MinTip
  <2>. DEFINE tips == Amount(Tips)
              paid == Amount(ChainTips)
  <2>1. Shape /\ Judged
    BY <1>1, Constants DEF InspectionInv
  <2>2. tips \in Nat /\ paid \in Nat /\ tips <= paid
    BY <2>1, TipsOnChain, AmountFacts
  <2>3. resolved = tips % Width /\ resolved >= MinTip
    BY <1>1, <2>1 DEF Judged
  <2>4. Amount(ChainTips) = paid
    OBVIOUS
  <2>. HIDE DEF tips, paid
  <2>5. tips % Width \in Nat /\ tips % Width <= tips
    BY <2>2, Wrapped
  <2>. QED
    BY <2>2, <2>3, <2>4, <2>5, Constants
<1>2. InspectionInv => SentIsTipped
  BY <1>1 DEF SentIsTipped
<1>. QED
  BY <1>2, InspectionInductive, PTL

\* TipMissing and TipBelowMinimum are true of the transaction on chain, not only
\* of what the client could see of it.
THEOREM RefusedPaysTooLittle == Spec => []RefusedIsShort
<1>1. ASSUME InspectionInv, verdict \in {"missing", "below"},
             Amount(ChainTips) <= Supply
      PROVE  Amount(ChainTips) < MinTip
  <2>. DEFINE tips == Amount(Tips)
  <2>1. Shape /\ Judged
    BY <1>1, Constants DEF InspectionInv
  <2>2. Unresolved = {} /\ resolved = tips % Width /\ resolved < MinTip
    BY <1>1, <2>1 DEF Judged
  <2>3. ChainTips = Tips
    BY <2>1, <2>2, TipsOnChain
  <2>4. Amount(ChainTips) = tips
    BY <2>3
  <2>5. tips \in Nat
    BY <2>1, TipsOnChain, AmountFacts
  <2>. HIDE DEF tips
  <2>6. Supply \in Nat /\ Supply < Width /\ Width \in Nat
    BY Constants
  <2>7. tips < Width
    BY <1>1, <2>4, <2>5, <2>6
  <2>. QED
    BY <2>2, <2>4, <2>5, <2>7, Wrapped
<1>2. InspectionInv => RefusedIsShort
  BY <1>1 DEF RefusedIsShort
<1>. QED
  BY <1>2, InspectionInductive, PTL

\* TipUnresolved brackets what the transaction pays, and is only said of indices
\* that do not exist when the caller passes all the loaded addresses.
THEOREM UnresolvedBrackets == Spec => []UnresolvedEncloses
<1>1. ASSUME InspectionInv, verdict = "unresolved",
             Amount(Directed) < Width
      PROVE  /\ resolved <= Amount(ChainTips)
             /\ Amount(ChainTips) <= resolved + unresolved
             /\ loaded = table =>
                  \E k \in Directed :
                     instructions[k].to >= Len(OnChain)
  <2>. DEFINE tips == Amount(Tips)
              open == Amount(Unresolved)
              paid == Amount(ChainTips)
              most == Amount(Tips \cup Unresolved)
              all == Amount(Directed)
  <2>1. Shape /\ Judged
    BY <1>1, Constants DEF InspectionInv
  <2>2. /\ tips \in Nat /\ open \in Nat /\ paid \in Nat /\ most \in Nat /\ all \in Nat
        /\ tips <= paid /\ paid <= most /\ tips <= all /\ open <= all
        /\ most = tips + open
    BY <2>1, TipsOnChain, AmountFacts
  <2>3. resolved = tips % Width /\ unresolved = open % Width
    BY <2>1 DEF Judged
  <2>4. Amount(ChainTips) = paid /\ all < Width
    BY <1>1
  <2>5. ASSUME loaded = table
        PROVE  \E k \in Directed :
                  instructions[k].to >= Len(OnChain)
    <3>1. PICK k \in Unresolved : TRUE
      BY <1>1, <2>1 DEF Judged
    <3>2. k \in Directed /\ Resolve(instructions[k].to) = None
      BY DEF Unresolved
    <3>3. instructions[k].to \in Nat
      BY <2>1, <3>2, DirectedFacts
    <3>4. ~(instructions[k].to < Len(OnChain)) /\ Len(OnChain) \in Nat
      BY <2>1, <2>5, <3>2, <3>3, ResolvesAsOnChain
    <3>5. instructions[k].to >= Len(OnChain)
      BY <3>3, <3>4
    <3>. QED
      BY <3>2, <3>5
  <2>. HIDE DEF tips, open, paid, most, all
  <2>6. tips < Width /\ open < Width
    BY <2>2, <2>4, Constants
  <2>7. resolved = tips /\ unresolved = open
    BY <2>2, <2>3, <2>6, Wrapped
  <2>. QED
    BY <2>2, <2>4, <2>5, <2>7
<1>2. InspectionInv => UnresolvedEncloses
  BY <1>1 DEF UnresolvedEncloses
<1>. QED
  BY <1>2, InspectionInductive, PTL

-----------------------------------------------------------------------------
(* The report of a landing. *)

\* Accounts and amounts of the chain.
LEMMA ChainConstants ==
    /\ IsFiniteSet(TipAccount) /\ Other \notin TipAccount /\ None \notin TipAccount
    /\ Lamports \subseteq Nat /\ Balance \subseteq Nat
BY ChainAssumption
   DEF Chain!AccountAssumption, Chain!LamportAssumption, Chain!IsFiniteSet, IsFiniteSet

\* The sums of Landing are those of TipInspection.
LEMMA SameSum ==
    ASSUME NEW f, NEW S
    PROVE  Chain!SumFunctionOnSet(f, S) = SumFunctionOnSet(f, S)
BY DEF Chain!SumFunctionOnSet, Chain!FoldFunctionOnSet, Chain!MapThenFoldSet,
       SumFunctionOnSet, FoldFunctionOnSet, MapThenFoldSet

\* An amount of Landing is a sum over transfers.
LEMMA ChainAmount ==
    ASSUME NEW S
    PROVE  Chain!Amount(S)
              = SumFunctionOnSet([k \in DOMAIN transfers |-> transfers[k].lamports], S)
BY SameSum DEF Chain!Amount

TransferTypes ==
    /\ transfers \in Seq(Chain!Transfer)
    /\ landed \in {"no", "ok", "reverted"}
    /\ pre \in [TipAccount -> Nat]

\* A transaction has finitely many transfers, each of some lamports to an account.
LEMMA TransferFacts ==
    ASSUME TransferTypes
    PROVE  /\ IsFiniteSet(DOMAIN transfers)
           /\ \A k \in DOMAIN transfers :
                 /\ transfers[k].lamports \in Nat
                 /\ transfers[k].to \in TipAccount \cup {Other}
                 /\ transfers[k].via \in Chain!Via
                 /\ transfers[k] \in Chain!Transfer
<1>1. DOMAIN transfers = 1..Len(transfers) /\ Len(transfers) \in Nat
  BY DEF TransferTypes
<1>2. IsFiniteSet(1..Len(transfers))
  BY <1>1, FS_Interval
<1>3. \A k \in DOMAIN transfers : transfers[k] \in Chain!Transfer
  BY <1>1 DEF TransferTypes
<1>. QED
  BY <1>1, <1>2, <1>3, ChainConstants DEF Chain!Transfer

\* What transfers add up to is a natural number.
LEMMA ChainNatural ==
    ASSUME TransferTypes, NEW S \in SUBSET DOMAIN transfers
    PROVE  IsFiniteSet(S) /\ Chain!Amount(S) \in Nat
<1>. DEFINE f == [k \in DOMAIN transfers |-> transfers[k].lamports]
<1>1. IsFiniteSet(S) /\ \A k \in S : f[k] \in Nat
  BY TransferFacts, FS_Subset
<1>. HIDE DEF f
<1>2. SumFunctionOnSet(f, S) \in Nat
  BY <1>1, SumNatural
<1>. QED
  BY <1>1, <1>2, ChainAmount DEF f

\* Fewer transfers add up to no more.
LEMMA ChainMonotone ==
    ASSUME TransferTypes, NEW S \in SUBSET DOMAIN transfers, NEW T \in SUBSET S
    PROVE  Chain!Amount(T) <= Chain!Amount(S)
<1>. DEFINE f == [k \in DOMAIN transfers |-> transfers[k].lamports]
<1>1. IsFiniteSet(S) /\ \A k \in S : f[k] \in Nat
  BY TransferFacts, FS_Subset
<1>. HIDE DEF f
<1>2. SumFunctionOnSet(f, T) <= SumFunctionOnSet(f, S)
  BY <1>1, SumMonotone
<1>. QED
  BY <1>2, ChainAmount DEF f

\* Transfers apart from each other add up one with the other.
LEMMA ChainDisjoint ==
    ASSUME TransferTypes, NEW S \in SUBSET DOMAIN transfers,
           NEW T \in SUBSET DOMAIN transfers, S \cap T = {}
    PROVE  Chain!Amount(S \cup T) = Chain!Amount(S) + Chain!Amount(T)
<1>. DEFINE f == [k \in DOMAIN transfers |-> transfers[k].lamports]
<1>1. IsFiniteSet(S) /\ IsFiniteSet(T) /\ \A k \in S \cup T : f[k] \in Nat
  BY TransferFacts, FS_Subset
<1>. HIDE DEF f
<1>2. SumFunctionOnSet(f, S \cup T) = SumFunctionOnSet(f, S) + SumFunctionOnSet(f, T)
  BY <1>1, SumDisjoint
<1>. QED
  BY <1>2, ChainAmount DEF f

\* What the tip accounts received is what was transferred to them.
LEMMA ReceivedTotal ==
    ASSUME TransferTypes,
           NEW g, \A a \in TipAccount : g[a] = Chain!Received(a)
    PROVE  SumFunctionOnSet(g, TipAccount) = Chain!Amount(Chain!ToTip(DOMAIN transfers))
<1>. DEFINE f == [k \in DOMAIN transfers |-> transfers[k].lamports]
            to == [k \in DOMAIN transfers |-> transfers[k].to]
            K == DOMAIN transfers
<1>1. IsFiniteSet(K) /\ \A k \in K : f[k] \in Nat
  BY TransferFacts
<1>. DEFINE part == [a \in TipAccount |-> {k \in K : to[k] = a}]
            whole == Chain!ToTip(K)
<1>2. \A a \in TipAccount : g[a] = SumFunctionOnSet(f, part[a])
  <2>. SUFFICES ASSUME NEW a \in TipAccount
                PROVE  g[a] = SumFunctionOnSet(f, part[a])
    OBVIOUS
  <2>1. part[a] = {k \in DOMAIN transfers : transfers[k].to = a}
    OBVIOUS
  <2>. HIDE DEF part
  <2>. QED
    BY <2>1, ChainAmount DEF Chain!Received
<1>3. \A a \in TipAccount : /\ part[a] \subseteq K
                            /\ \A k \in K : k \in part[a] <=> to[k] = a
  OBVIOUS
<1>4. whole \in SUBSET K /\ \A k \in K : k \in whole <=> to[k] \in TipAccount
  BY DEF Chain!ToTip
<1>. HIDE DEF f, to, K, part, whole
<1>5. SumFunctionOnSet(g, TipAccount) = SumFunctionOnSet(f, whole)
  BY <1>1, <1>2, <1>3, <1>4, ChainConstants, SumByKey
<1>. QED
  BY <1>5, ChainAmount DEF f, whole, K

\* The balances are what the execution made them, out of lamports there are, the
\* metadata tells how it ended, and a report is the one of what landed.
LandingInv ==
    /\ TransferTypes
    /\ landed = "ok" => Chain!Holdings <= Supply
    /\ post = [a \in TipAccount |-> IF landed = "ok" THEN pre[a] + Chain!Received(a)
                                    ELSE pre[a]]
    /\ meta # None =>
          /\ landed # "no"
          /\ meta.err = (landed = "reverted")
          /\ meta.inner \subseteq Chain!Through("inner")
    /\ Chain!Known =>
          /\ landed # "no"
          /\ report.succeeded = ~Chain!Failed
          /\ report.tip_intended = Chain!Amount(Chain!Visited) % Width
          /\ report.tip_paid =
                SumFunctionOnSet([a \in TipAccount |-> Chain!Delta(a)], TipAccount) % Width

\* Before anything is put together there is nothing to report.
LEMMA LandingInit == Chain!Init => LandingInv
<1>. SUFFICES ASSUME Chain!Init PROVE LandingInv
  OBVIOUS
<1>1. /\ transfers = <<>> /\ landed = "no" /\ pre \in [TipAccount -> Balance]
      /\ post = pre /\ meta = None /\ report = None
  BY DEF Chain!Init
<1>2. pre \in [TipAccount -> Nat]
  BY <1>1, ChainConstants
<1>3. TransferTypes
  BY <1>1, <1>2 DEF TransferTypes
<1>4. post = [a \in TipAccount |-> IF landed = "ok" THEN pre[a] + Chain!Received(a)
                                   ELSE pre[a]]
  BY <1>1, <1>2
<1>. QED
  BY <1>1, <1>3, <1>4 DEF LandingInv, Chain!Known

\* A transfer is added before the transaction lands.
LEMMA LandingAdd ==
    ASSUME LandingInv, NEW t \in Chain!Transfer, Chain!Add(t)
    PROVE  LandingInv'
<1>1. /\ landed = "no" /\ report = None /\ transfers' = Append(transfers, t)
      /\ UNCHANGED <<landed, pre, post, meta, report>>
  BY DEF Chain!Add
<1>2. TransferTypes'
  BY <1>1 DEF LandingInv, TransferTypes
<1>3. meta = None /\ ~Chain!Known'
  BY <1>1 DEF LandingInv, Chain!Known
<1>4. post' = [a \in TipAccount |->
                 IF landed' = "ok" THEN pre'[a] + Chain!Received(a)' ELSE pre'[a]]
  BY <1>1 DEF LandingInv
<1>. QED
  BY <1>1, <1>2, <1>3, <1>4 DEF LandingInv

\* Landing moves what the transfers say, all of it or nothing.
LEMMA LandingLand ==
    ASSUME LandingInv, NEW result \in {"ok", "reverted"}, NEW last, NEW kept \in BOOLEAN,
           Chain!Land(result, last, kept)
    PROVE  LandingInv'
<1>1. /\ landed = "no" /\ landed' = result /\ UNCHANGED <<transfers, pre, report>>
      /\ post' = IF result = "ok" THEN [a \in TipAccount |-> pre[a] + Chain!Received(a)] ELSE pre
  BY DEF Chain!Land
<1>2. TransferTypes'
  BY <1>1 DEF LandingInv, TransferTypes
<1>3. ~Chain!Known'
  BY <1>1 DEF LandingInv, Chain!Known
<1>4. \A a \in TipAccount : Chain!Received(a)' = Chain!Received(a)
  BY <1>1 DEF Chain!Received, Chain!Amount
<1>5. post' = [a \in TipAccount |->
                 IF landed' = "ok" THEN pre'[a] + Chain!Received(a)' ELSE pre'[a]]
  BY <1>1, <1>4 DEF LandingInv, TransferTypes
<1>6. meta' # None => /\ meta'.err = (landed' = "reverted")
                      /\ meta'.inner \subseteq Chain!Through("inner")'
  <2>1. Chain!Through("inner")' = Chain!Through("inner")
    BY <1>1 DEF Chain!Through
  <2>2. CASE kept
    <3>1. \E i \in {{}, {k \in Chain!Through("inner") : result = "ok" \/ k <= last}} :
             meta' = [err |-> result = "reverted", inner |-> i]
      BY <2>2 DEF Chain!Land
    <3>. QED
      BY <1>1, <2>1, <3>1
  <2>3. CASE ~kept
    BY <2>3 DEF Chain!Land
  <2>. QED
    BY <2>2, <2>3
<1>7. landed' = "ok" => Chain!Holdings' <= Supply
  BY <1>1 DEF Chain!Land, Chain!Holdings, Chain!Amount, Chain!ToTip
<1>. QED
  BY <1>1, <1>2, <1>3, <1>5, <1>6, <1>7 DEF LandingInv

\* What the report says depends on the transaction, the balances and the metadata.
LEMMA SameReport ==
    ASSUME UNCHANGED <<transfers, landed, pre, post, meta>>
    PROVE  /\ \A a \in TipAccount : Chain!Received(a)' = Chain!Received(a)
           /\ Chain!Through("inner")' = Chain!Through("inner")
           /\ Chain!Failed' = Chain!Failed
           /\ Chain!Amount(Chain!Visited)' = Chain!Amount(Chain!Visited)
           /\ \A a \in TipAccount : Chain!Delta(a)' = Chain!Delta(a)
           /\ TransferTypes' = TransferTypes
           /\ Chain!Holdings' = Chain!Holdings
BY DEF Chain!Holdings, Chain!Received, Chain!Through, Chain!Failed, Chain!Amount, Chain!Visited,
       Chain!ToTip, Chain!Inner, Chain!Delta, TransferTypes

\* A report says what these say; nothing else changes it.
LEMMA LandingSame ==
    ASSUME LandingInv, UNCHANGED <<transfers, landed, pre, post, meta>>,
           Chain!Report \/ UNCHANGED report
    PROVE  LandingInv'
<1>1. TransferTypes'
  BY SameReport DEF LandingInv
<1>2. post' = [a \in TipAccount |->
                 IF landed' = "ok" THEN pre'[a] + Chain!Received(a)' ELSE pre'[a]]
  BY SameReport DEF LandingInv
<1>3. meta' # None => /\ landed' # "no" /\ meta'.err = (landed' = "reverted")
                      /\ meta'.inner \subseteq Chain!Through("inner")'
  BY SameReport DEF LandingInv
<1>4. Chain!Known' => /\ landed' # "no"
                /\ report'.succeeded = ~Chain!Failed
                /\ report'.tip_intended = Chain!Amount(Chain!Visited) % Width
                /\ report'.tip_paid =
                      SumFunctionOnSet([a \in TipAccount |-> Chain!Delta(a)], TipAccount) % Width
  <2>1. CASE Chain!Report
    BY <2>1, SameSum DEF Chain!Report, Chain!Known, Chain!ParseReport
  <2>2. CASE UNCHANGED report
    BY <2>2 DEF LandingInv, Chain!Known
  <2>. QED
    BY <2>1, <2>2
<1>5. [a \in TipAccount |-> Chain!Delta(a)'] = [a \in TipAccount |-> Chain!Delta(a)]
  BY SameReport
<1>. QED
  BY <1>1, <1>2, <1>3, <1>4, <1>5, SameReport DEF LandingInv

\* Each step of a landing keeps the balances, the metadata and the report in line.
LEMMA LandingStep ==
    ASSUME LandingInv, [Chain!Next]_(Chain!vars)
    PROVE  LandingInv'
<1>1. ASSUME NEW t \in Chain!Transfer, Chain!Add(t)
      PROVE  LandingInv'
  BY <1>1, LandingAdd
<1>2. ASSUME NEW result \in {"ok", "reverted"}, NEW last \in 0..MaxInstructions,
             NEW kept \in BOOLEAN, Chain!Land(result, last, kept)
      PROVE  LandingInv'
  BY <1>2, LandingLand
<1>3. CASE Chain!Report \/ UNCHANGED Chain!vars
  BY <1>3, LandingSame DEF Chain!Report, Chain!vars
<1>. QED
  BY <1>1, <1>2, <1>3 DEF Chain!Next

\* The invariant holds in every reachable state of a transaction that is built,
\* landed and reported on (report, parse_report).
THEOREM LandingInductive == Chain!Spec => []LandingInv
<1>1. LandingInv /\ [Chain!Next]_(Chain!vars) => LandingInv'
  BY LandingStep
<1>. QED
  BY <1>1, LandingInit, PTL DEF Chain!Spec

\* What the report visits are transfers of the transaction.
LEMMA VisitedIn ==
    ASSUME LandingInv
    PROVE  /\ Chain!Visited \in SUBSET DOMAIN transfers
           /\ \A v \in Chain!Via : Chain!ToTip(Chain!Through(v)) \in SUBSET DOMAIN transfers
           /\ Chain!ToTip(DOMAIN transfers) \in SUBSET DOMAIN transfers
BY DEF LandingInv, Chain!Visited, Chain!Inner, Chain!ToTip, Chain!Through, Chain!Via

\* What a transaction that succeeded paid is among the lamports there are, so that
\* the report's sums of it do not wrap.
LEMMA Paying ==
    ASSUME LandingInv, landed = "ok"
    PROVE  /\ Chain!Amount(Chain!ToTip(DOMAIN transfers)) \in Nat
           /\ Chain!Amount(Chain!ToTip(DOMAIN transfers)) < Width
           /\ Chain!Amount(Chain!Visited) \in Nat
           /\ Chain!Amount(Chain!Visited) < Width
<1>. DEFINE all == Chain!ToTip(DOMAIN transfers)
            held == SumFunctionOnSet(pre, TipAccount)
<1>1. TransferTypes /\ all \in SUBSET DOMAIN transfers /\ Chain!Visited \in SUBSET all
  BY VisitedIn DEF LandingInv, Chain!ToTip, Chain!Visited
<1>2. held \in Nat
  BY <1>1, ChainConstants, SumNatural DEF TransferTypes
<1>3. held + Chain!Amount(all) <= Supply
  BY SameSum DEF LandingInv, Chain!Holdings
<1>4. Chain!Amount(all) \in Nat /\ Chain!Amount(Chain!Visited) \in Nat
  BY <1>1, ChainNatural
<1>5. Chain!Amount(Chain!Visited) <= Chain!Amount(all)
  BY <1>1, ChainMonotone
<1>. HIDE DEF all, held
<1>6. Chain!Amount(all) < Width /\ Chain!Amount(Chain!Visited) < Width
  BY <1>2, <1>3, <1>4, <1>5, Constants
<1>. QED
  BY <1>4, <1>6 DEF all

\* What a report with metadata says was paid: LandingReport.tip_paid.
LEMMA Paid ==
    ASSUME LandingInv, Chain!ReportedWithMeta
    PROVE  /\ landed \in {"ok", "reverted"}
           /\ report.tip_paid = IF landed = "ok"
                                THEN Chain!Amount(Chain!ToTip(DOMAIN transfers)) ELSE 0
           /\ report.tip_intended = Chain!Amount(Chain!Visited) % Width
           /\ landed = "ok" => report.tip_intended = Chain!Amount(Chain!Visited)
           /\ report.succeeded = (landed = "ok")
<1>. DEFINE d == [a \in TipAccount |-> Chain!Delta(a)]
<1>1. /\ TransferTypes /\ meta # None
      /\ post = [a \in TipAccount |-> IF landed = "ok" THEN pre[a] + Chain!Received(a)
                                      ELSE pre[a]]
      /\ landed # "no" /\ meta.err = (landed = "reverted")
      /\ report.succeeded = ~Chain!Failed
      /\ report.tip_intended = Chain!Amount(Chain!Visited) % Width
      /\ report.tip_paid = SumFunctionOnSet(d, TipAccount) % Width
  BY DEF LandingInv, Chain!ReportedWithMeta, Chain!Known
<1>2. landed \in {"ok", "reverted"}
  BY <1>1 DEF TransferTypes
<1>3. \A a \in TipAccount : pre[a] \in Nat /\ Chain!Received(a) \in Nat
  BY <1>1, ChainNatural DEF TransferTypes, Chain!Received
<1>4. \A a \in TipAccount : d[a] = IF landed = "ok" THEN Chain!Received(a) ELSE 0
  BY <1>1, <1>3 DEF Chain!Delta
<1>. HIDE DEF d
<1>5. CASE landed = "ok"
  <2>1. SumFunctionOnSet(d, TipAccount) = Chain!Amount(Chain!ToTip(DOMAIN transfers))
    BY <1>1, <1>4, <1>5, ReceivedTotal
  <2>2. /\ Chain!Amount(Chain!ToTip(DOMAIN transfers)) \in Nat
        /\ Chain!Amount(Chain!ToTip(DOMAIN transfers)) < Width
        /\ Chain!Amount(Chain!Visited) \in Nat
        /\ Chain!Amount(Chain!Visited) < Width
    BY <1>5, Paying
  <2>3. /\ Chain!Amount(Chain!ToTip(DOMAIN transfers)) % Width
              = Chain!Amount(Chain!ToTip(DOMAIN transfers))
        /\ Chain!Amount(Chain!Visited) % Width = Chain!Amount(Chain!Visited)
    BY <2>2, Wrapped
  <2>. QED
    BY <1>1, <1>5, <2>1, <2>3 DEF Chain!Failed
<1>6. CASE landed = "reverted"
  <2>1. SumFunctionOnSet(d, TipAccount) = 0
    BY <1>4, <1>6, ChainConstants, SumZero
  <2>2. 0 % Width = 0
    BY Wrapped, Constants
  <2>. QED
    BY <1>1, <1>6, <2>1, <2>2 DEF Chain!Failed
<1>. QED
  BY <1>2, <1>5, <1>6

\* Payment is a difference of balances, which is what arrived.
LEMMA PaidHolds == LandingInv => Chain!PaidIsWhatArrived
BY Paid DEF Chain!PaidIsWhatArrived

\* A bid that landed is charged, one that reverted refunded, never both, nor neither
\* unless its sum wrapped.
LEMMA BidHolds == LandingInv => Chain!BidIsChargedOrRefunded
<1>. SUFFICES ASSUME LandingInv, Chain!ReportedWithMeta,
                     Chain!Amount(Chain!ToTip(Chain!Through("top"))) > 0
              PROVE  /\ Chain!tip_charged <=> landed = "ok"
                     /\ Chain!reverted_tip_refunded => landed = "reverted"
                     /\ landed = "reverted" /\ Chain!Amount(Chain!Visited) < Width
                           => Chain!reverted_tip_refunded
  BY DEF Chain!BidIsChargedOrRefunded
<1>. DEFINE top == Chain!ToTip(Chain!Through("top"))
            all == Chain!ToTip(DOMAIN transfers)
<1>1. TransferTypes /\ top \in SUBSET Chain!Visited /\ top \in SUBSET all
  BY DEF LandingInv, Chain!ToTip, Chain!Through, Chain!Visited
<1>2. Chain!Amount(top) <= Chain!Amount(Chain!Visited) /\ Chain!Amount(top) <= Chain!Amount(all)
  BY <1>1, VisitedIn, ChainMonotone
<1>3. /\ Chain!Amount(top) \in Nat /\ Chain!Amount(all) \in Nat
      /\ Chain!Amount(Chain!Visited) \in Nat
  BY <1>1, VisitedIn, ChainNatural DEF Chain!Via
<1>4. Chain!Amount(all) > 0 /\ Chain!Amount(Chain!Visited) > 0
  <2>. HIDE DEF top, all
  <2>1. Chain!Amount(top) > 0
    BY DEF top
  <2>. QED
    BY <1>2, <1>3, <2>1
<1>. HIDE DEF top, all
<1>5. /\ landed \in {"ok", "reverted"}
      /\ report.tip_paid = IF landed = "ok" THEN Chain!Amount(all) ELSE 0
      /\ report.tip_intended = Chain!Amount(Chain!Visited) % Width
      /\ report.succeeded = (landed = "ok")
  BY Paid DEF all
<1>6. CASE landed = "ok"
  BY <1>4, <1>5, <1>6 DEF Chain!tip_charged, Chain!reverted_tip_refunded
<1>7. CASE landed = "reverted"
  <2>1. /\ report.tip_paid = 0
        /\ Chain!Amount(Chain!Visited) < Width => report.tip_intended > 0
    BY <1>3, <1>4, <1>5, <1>7, Wrapped
  <2>2. ~report.succeeded
    BY <1>5, <1>7
  <2>. QED
    BY <1>7, <2>1, <2>2 DEF Chain!tip_charged, Chain!reverted_tip_refunded
<1>. QED
  BY <1>5, <1>6, <1>7

\* The instructions the report saw and the lamports it could not attribute add up
\* to what was paid.
LEMMA ExplainsHolds == LandingInv => Chain!BidExplainsPayment
<1>. SUFFICES ASSUME LandingInv, Chain!ReportedWithMeta, landed = "ok",
                     meta.inner = Chain!Through("inner")
              PROVE  report.tip_intended + Chain!Amount(Chain!ToTip(Chain!Through("moved")))
                        = report.tip_paid
  BY DEF Chain!BidExplainsPayment
<1>. DEFINE moved == Chain!ToTip(Chain!Through("moved"))
<1>1. Chain!Visited \cup moved = Chain!ToTip(DOMAIN transfers) /\ Chain!Visited \cap moved = {}
  <2>1. Chain!Visited = Chain!ToTip(Chain!Through("top") \cup Chain!Through("inner"))
    BY DEF Chain!Visited, Chain!Inner, Chain!ReportedWithMeta
  <2>2. \A k \in DOMAIN transfers : transfers[k].via \in Chain!Via
    BY TransferFacts DEF LandingInv
  <2>. QED
    BY <2>1, <2>2 DEF Chain!ToTip, Chain!Through, Chain!Via
<1>2. Chain!Amount(Chain!Visited \cup moved) = Chain!Amount(Chain!Visited) + Chain!Amount(moved)
  BY <1>1, VisitedIn, ChainDisjoint DEF LandingInv, Chain!Via
<1>. QED
  BY <1>1, <1>2, Paid

-----------------------------------------------------------------------------
(* The whole way. *)

\* The account keys, and what they are, are finite sequences; every account of a
\* transfer is among them.
LEMMA KeysFacts ==
    /\ Len(Keys) \in Nat /\ DOMAIN Keys = 1..Len(Keys)
    /\ \A a \in TipAccount \cup {Other} : \E i \in DOMAIN Keys : Keys[i] = a
    /\ Kinds \in Seq(Account) /\ Len(Kinds) = Len(Keys)
    /\ \A i \in DOMAIN Keys : Kinds[i] = Kind(Keys[i])
<1>. DEFINE S == TipAccount \cup {Other}
            n == Cardinality(S)
            q == SetToSeq(S)
<1>1. IsFiniteSet(S)
  BY ChainConstants, FS_AddElement
<1>2. n \in Nat /\ ExistsBijection(1..n, S)
  BY <1>1, FS_CardinalityType
<1>3. IsFiniteSet(1..n) /\ Cardinality(1..n) = n
  <2>1. 1 \in Int /\ n \in Int /\ (IF 1 > n THEN 0 ELSE n - 1 + 1) = n
    BY <1>2
  <2>. HIDE DEF n
  <2>. QED
    BY <2>1, FS_Interval
<1>4. q \in [1..n -> S] /\ IsInjective(q)
  <2>1. \E f \in [1..n -> S] : IsInjective(f)
    BY <1>2 DEF ExistsBijection, Bijection, Injection, IsInjective
  <2>. QED
    BY <2>1 DEF SetToSeq
<1>. HIDE DEF S, n, q
<1>5. q \in Surjection(1..n, S)
  <2>1. q \in Injection(1..n, S)
    BY <1>4 DEF Injection
  <2>2. Cardinality(1..n) = Cardinality(S)
    BY <1>3 DEF n
  <2>. QED
    BY <1>1, <2>1, <2>2, FS_Injection
<1>6. ASSUME NEW a \in S PROVE \E j \in 1..n : q[j] = a
  BY <1>5 DEF Surjection
<1>7. Len(q) = n /\ DOMAIN q = 1..n
  BY <1>2, <1>4
<1>8. Keys = <<Payer>> \o q
  BY DEF Keys, S, q
<1>9. Len(Keys) = 1 + n /\ DOMAIN Keys = 1..(1 + n) /\ \A j \in 1..n : Keys[1 + j] = q[j]
  <2>1. q \in Seq(S \cup {Payer}) /\ <<Payer>> \in Seq(S \cup {Payer})
    BY <1>2, <1>4
  <2>. QED
    BY <1>2, <1>7, <1>8, <2>1
<1>10. ASSUME NEW a \in S PROVE \E i \in DOMAIN Keys : Keys[i] = a
  <2>1. PICK j \in 1..n : q[j] = a
    BY <1>6
  <2>2. 1 + j \in DOMAIN Keys /\ Keys[1 + j] = a
    BY <1>2, <1>9, <2>1
  <2>. QED
    BY <2>2
<1>11. Kinds \in [1..(1 + n) -> Account] /\ \A i \in DOMAIN Keys : Kinds[i] = Kind(Keys[i])
  BY <1>9 DEF Kinds, Kind, Account
<1>12. Kinds \in Seq(Account) /\ Len(Kinds) = 1 + n
  BY <1>2, <1>11
<1>. QED
  BY <1>2, <1>9, <1>10, <1>11, <1>12 DEF S

\* Where the destination of a transfer is among the keys.
Index(t) == (CHOOSE i \in DOMAIN Keys : Keys[i] = t.to) - 1

\* The index of a transfer leads to the account it is to.
LEMMA IndexFacts ==
    ASSUME NEW t \in Chain!Transfer
    PROVE  /\ Index(t) \in Nat /\ Index(t) < Len(Kinds)
           /\ Kinds[Index(t) + 1] = Kind(t.to)
           /\ t.via = "top" =>
                 Instruction(t)
                    = [kind |-> "transfer", lamports |-> t.lamports, to |-> Index(t)]
           /\ t.via # "top" => Instruction(t) = [kind |-> "else"]
<1>. DEFINE i == CHOOSE j \in DOMAIN Keys : Keys[j] = t.to
<1>1. t.to \in TipAccount \cup {Other}
  BY DEF Chain!Transfer
<1>2. i \in DOMAIN Keys /\ Keys[i] = t.to
  BY <1>1, KeysFacts
<1>3. Index(t) = i - 1
  BY DEF Index
<1>4. /\ t.via = "top" =>
            Instruction(t)
               = [kind |-> "transfer", lamports |-> t.lamports, to |-> Index(t)]
      /\ t.via # "top" => Instruction(t) = [kind |-> "else"]
  BY DEF Instruction, Index
<1>. HIDE DEF i
<1>5. i \in Nat /\ 1 <= i /\ i <= Len(Keys) /\ Len(Keys) \in Nat
  BY <1>2, KeysFacts
<1>6. i - 1 \in Nat /\ i - 1 < Len(Keys) /\ (i - 1) + 1 = i
  BY <1>5
<1>. QED
  BY <1>2, <1>3, <1>4, <1>6, KeysFacts

\* The two sides look at the same transaction: instructions tell of transfers, and
\* indices of accounts.
Joined ==
    /\ instructions = [k \in DOMAIN transfers |-> Instruction(transfers[k])]
    /\ OnChain = Kinds

PathInv ==
    /\ InspectionInv
    /\ LandingInv
    /\ Joined
    /\ landed # "no" => verdict # None

\* A sequence is what it has up to some place and what it has from there on.
LEMMA Glued ==
    ASSUME NEW V, NEW s \in Seq(V), NEW n \in DOMAIN s
    PROVE  /\ SubSeq(s, 1, n) \in Seq(V) /\ SubSeq(s, n + 1, Len(s)) \in Seq(V)
           /\ SubSeq(s, 1, n) \o SubSeq(s, n + 1, Len(s)) = s
<1>1. Len(s) \in Nat /\ n \in 1..Len(s) /\ \A i \in 1..Len(s) : s[i] \in V
  OBVIOUS
<1>2. SubSeq(s, 1, n) \in Seq(V) /\ SubSeq(s, n + 1, Len(s)) \in Seq(V)
  BY <1>1, SubSeqProperties
<1>3. SubSeq(s, 1, n) \o SubSeq(s, n + 1, Len(s)) = SubSeq(s, 1, Len(s))
  <2>1. 1 \in 1..Len(s) + 1 /\ n \in 1 - 1..Len(s) /\ Len(s) \in n..Len(s)
    BY <1>1
  <2>. QED
    BY <2>1, ConcatAdjacentSubSeq
<1>. QED
  BY <1>2, <1>3, SubSeqFull

\* Wherever the keys are split, they are all there; nothing is put together yet.
LEMMA PathInitInv == PathInit => PathInv
<1>. SUFFICES ASSUME PathInit PROVE PathInv
  OBVIOUS
<1>1. LandingInv /\ landed = "no" /\ transfers = <<>>
  BY LandingInit DEF PathInit, Chain!Init
<1>2. PICK split \in DOMAIN Keys : /\ static = SubSeq(Kinds, 1, split)
                                   /\ table = SubSeq(Kinds, split + 1, Len(Kinds))
  BY DEF PathInit
<1>3. split \in DOMAIN Kinds
  BY KeysFacts
<1>4. static \in Seq(Account) /\ table \in Seq(Account) /\ static \o table = Kinds
  BY <1>2, <1>3, KeysFacts, Glued
<1>5. /\ \E n \in 0..Len(table) : loaded = SubSeq(table, 1, n)
      /\ instructions = <<>> /\ verdict = None
  BY DEF PathInit
<1>6. Shape
  BY <1>4, <1>5 DEF Shape
<1>7. Joined
  BY <1>1, <1>4, <1>5 DEF Joined, OnChain
<1>. QED
  BY <1>1, <1>5, <1>6, <1>7 DEF PathInv, InspectionInv

\* A step of the path is one of the inspection, or leaves it alone.
LEMMA PathInspects ==
    ASSUME PathInv, [PathNext]_<<chain, vars>>
    PROVE  [Next]_vars
<1>1. ASSUME NEW t \in Chain!Transfer, Build(t)
      PROVE  Next
  <2>1. Add(Instruction(t))
    BY <1>1 DEF Build
  <2>2. CASE t.via = "top"
    <3>1. /\ Len(static) \in Nat /\ Len(table) \in Nat
          /\ Len(OnChain) = Len(static) + Len(table)
      BY DEF PathInv, InspectionInv, Shape, OnChain
    <3>2. Index(t) \in Indices
      BY <3>1, IndexFacts DEF PathInv, Joined, Indices
    <3>3. t.lamports \in Lamports
      BY DEF Chain!Transfer
    <3>4. Instruction(t) = [kind |-> "transfer", to |-> Index(t), lamports |-> t.lamports]
      BY <2>2, IndexFacts
    <3>. QED
      BY <2>1, <3>2, <3>3, <3>4 DEF Next
  <2>3. CASE t.via # "top"
    BY <2>1, <2>3, IndexFacts DEF Next
  <2>. QED
    BY <2>2, <2>3
<1>2. CASE PathSend
  BY <1>2 DEF PathSend, Next
<1>3. ASSUME NEW result, NEW last, NEW kept, Executed(result, last, kept)
      PROVE  Next
  BY <1>3 DEF Executed, Next
<1>4. CASE Verify
  BY <1>4 DEF Verify, Next
<1>. QED
  BY <1>1, <1>2, <1>3, <1>4 DEF PathNext

\* A step of the path is one of the landing, or leaves it alone.
LEMMA PathLands ==
    ASSUME [PathNext]_<<chain, vars>>
    PROVE  [Chain!Next]_(Chain!vars)
<1>1. (UNCHANGED chain) => UNCHANGED Chain!vars
  BY DEF Chain!vars, chain
<1>. QED
  BY <1>1 DEF PathNext, Build, PathSend, Executed, Verify, Chain!Next

\* Transfers and instructions are added together.
LEMMA JoinedStep ==
    ASSUME PathInv, [PathNext]_<<chain, vars>>
    PROVE  Joined'
<1>1. transfers \in Seq(Chain!Transfer)
  BY DEF PathInv, LandingInv, TransferTypes
<1>2. ASSUME NEW t \in Chain!Transfer, Build(t)
      PROVE  Joined'
  <2>1. /\ transfers' = Append(transfers, t)
        /\ instructions' = Append(instructions, Instruction(t))
        /\ UNCHANGED <<static, table>>
    BY <1>2 DEF Build, Add, Chain!Add
  <2>2. /\ instructions = [k \in DOMAIN transfers |-> Instruction(transfers[k])]
        /\ OnChain = Kinds
    BY DEF PathInv, Joined
  <2>3. instructions' = [k \in DOMAIN transfers' |-> Instruction(transfers'[k])]
    <3>. DEFINE n == Len(transfers)
    <3>1. /\ n \in Nat /\ DOMAIN transfers = 1..n /\ DOMAIN transfers' = 1..(n + 1)
          /\ transfers'[n + 1] = t /\ \A k \in 1..n : transfers'[k] = transfers[k]
      BY <1>1, <2>1
    <3>2. /\ instructions \in Seq(Instructions) /\ Len(instructions) = n
          /\ \A k \in 1..n : instructions[k] = Instruction(transfers[k])
      BY <2>2, <3>1 DEF PathInv, InspectionInv, Shape
    <3>. DEFINE V == Instructions \cup {Instruction(t)}
    <3>3. instructions \in Seq(V) /\ Instruction(t) \in V
      BY <3>2, SeqMonotonic
    <3>. HIDE DEF V, n
    <3>4. /\ instructions' \in Seq(V) /\ Len(instructions') = n + 1
          /\ instructions'[n + 1] = Instruction(t)
          /\ \A k \in 1..n : instructions'[k] = instructions[k]
      BY <2>1, <3>2, <3>3, AppendProperties
    <3>5. \A k \in 1..(n + 1) : instructions'[k] = Instruction(transfers'[k])
      BY <3>1, <3>2, <3>4
    <3>. QED
      BY <3>1, <3>4, <3>5
  <2>. QED
    BY <2>1, <2>2, <2>3 DEF Joined, OnChain
<1>3. CASE UNCHANGED <<transfers, static, table, instructions>>
  BY <1>3 DEF PathInv, Joined, OnChain
<1>. QED
  BY <1>2, <1>3
     DEF PathNext, PathSend, Executed, Verify, Send, Returned, Chain!Land, Chain!Report,
         chain, vars

\* The invariant holds in every reachable state of a tip's path from the check
\* (inspect_with_loaded, check) to the report (report, parse_report): that of the
\* check, that of the report, and what joins them.
THEOREM Inductive == PathSpec => []PathInv
<1>1. PathInv /\ [PathNext]_<<chain, vars>> => PathInv'
  <2>. SUFFICES ASSUME PathInv, [PathNext]_<<chain, vars>>
                PROVE  PathInv'
    OBVIOUS
  <2>1. InspectionInv'
    BY PathInspects, InspectionStep DEF PathInv
  <2>2. LandingInv'
    BY PathLands, LandingStep DEF PathInv
  <2>3. Joined'
    BY JoinedStep
  <2>4. landed' # "no" => verdict' # None
    <3>1. CASE \E t \in Chain!Transfer : Build(t)
      BY <3>1 DEF Build, Chain!Add
    <3>2. CASE PathSend
      BY <3>2, Constants DEF PathSend, Send, CheckTip, Verdict
    <3>3. CASE Verify \/ \E result, last, kept : Executed(result, last, kept)
      BY <3>3 DEF Verify, Executed, Returned, vars
    <3>4. CASE UNCHANGED <<chain, vars>>
      BY <3>4 DEF PathInv, chain, vars
    <3>. QED
      BY <3>1, <3>2, <3>3, <3>4 DEF PathNext
  <2>. QED
    BY <2>1, <2>2, <2>3, <2>4 DEF PathInv
<1>. QED
  BY <1>1, PathInitInv, PTL DEF PathSpec

\* On its way a transaction is inspected as TipInspection says: every step of the
\* path is a step of check_tip's module or leaves its variables alone.
THEOREM PathIsInspection == PathSpec => [][Next]_vars
<1>1. PathInv /\ [PathNext]_<<chain, vars>> => [Next]_vars
  BY PathInspects
<1>. QED
  BY <1>1, Inductive, PTL DEF PathSpec

\* And it lands and is reported on as Landing says: the path, which may report
\* only on what was checked, implements the module of the verifier.
THEOREM PathIsLanding == PathSpec => Chain!Spec
<1>1. PathInit => Chain!Init
  BY DEF PathInit
<1>2. [PathNext]_<<chain, vars>> => [Chain!Next]_(Chain!vars)
  BY PathLands
<1>. QED
  BY <1>1, <1>2, PTL DEF PathSpec, Chain!Spec

\* tip_paid is what the tip accounts received, in total and by whatever way, when
\* the transaction succeeded, and 0 when it reverted.
THEOREM PaidFromBalances == PathSpec => []PaidIsWhatArrived
<1>1. LandingInv => PaidIsWhatArrived
  BY PaidHolds DEF PaidIsWhatArrived
<1>. QED
  BY <1>1, PathIsLanding, LandingInductive, PTL

\* tip_charged and reverted_tip_refunded: a bid is exactly one of the two.
THEOREM BidSettled == PathSpec => []BidIsChargedOrRefunded
<1>1. LandingInv => BidIsChargedOrRefunded
  BY BidHolds DEF BidIsChargedOrRefunded
<1>. QED
  BY <1>1, PathIsLanding, LandingInductive, PTL

\* tip_intended and tip_paid differ by what moved without an instruction only.
THEOREM BidExplained == PathSpec => []BidExplainsPayment
<1>1. LandingInv => BidExplainsPayment
  BY ExplainsHolds DEF BidExplainsPayment
<1>. QED
  BY <1>1, PathIsLanding, LandingInductive, PTL

\* The tips that the check looks for are the bid that the message carries, and
\* amounts are the same on both sides.
LEMMA SameTips ==
    ASSUME TransferTypes, Joined
    PROVE  /\ Directed = Chain!Through("top")
           /\ ChainTips = Chain!ToTip(Chain!Through("top"))
           /\ \A S \in SUBSET Directed : Amount(S) = Chain!Amount(S)
<1>1. ASSUME NEW k \in DOMAIN transfers
      PROVE  /\ instructions[k].kind = "transfer" <=> transfers[k].via = "top"
             /\ transfers[k].via = "top" =>
                   /\ instructions[k].to = Index(transfers[k])
                   /\ instructions[k].lamports = transfers[k].lamports
  BY TransferFacts, IndexFacts DEF Joined
<1>2. ASSUME NEW k \in DOMAIN transfers
      PROVE  /\ Index(transfers[k]) \in Nat /\ Index(transfers[k]) # None
             /\ Index(transfers[k]) < Len(OnChain)
             /\ OnChain[Index(transfers[k]) + 1] = "tip" <=> transfers[k].to \in TipAccount
  BY TransferFacts, IndexFacts, Constants DEF Joined, Kind
<1>3. DOMAIN instructions = DOMAIN transfers
  BY DEF Joined
<1>4. Directed = Chain!Through("top")
  BY <1>1, <1>2, <1>3 DEF Directed, Chain!Through
<1>5. ChainTips = Chain!ToTip(Chain!Through("top"))
  BY <1>1, <1>2, <1>4 DEF ChainTips, Chain!ToTip, Chain!Through
<1>6. ASSUME NEW S \in SUBSET Directed
      PROVE  Amount(S) = Chain!Amount(S)
  <2>. DEFINE f == [k \in DOMAIN transfers |-> transfers[k].lamports]
              g == [k \in DOMAIN instructions |-> instructions[k].lamports]
  <2>1. S \in SUBSET DOMAIN transfers
    BY <1>4 DEF Chain!Through
  <2>2. IsFiniteSet(S)
    BY <2>1, ChainNatural
  <2>3. ASSUME NEW k \in S
        PROVE  f[k] \in Nat /\ g[k] = f[k]
    <3>1. k \in DOMAIN transfers /\ transfers[k].via = "top"
      BY <1>4 DEF Chain!Through
    <3>2. transfers[k].lamports \in Nat
      BY <3>1, TransferFacts
    <3>. QED
      BY <1>1, <1>3, <3>1, <3>2
  <2>4. Amount(S) = SumFunctionOnSet(g, S) /\ Chain!Amount(S) = SumFunctionOnSet(f, S)
    BY ChainAmount DEF Amount
  <2>. HIDE DEF f, g
  <2>. QED
    BY <2>2, <2>3, <2>4, SumEqual
<1>. QED
  BY <1>4, <1>5, <1>6

\* What check_tip said before the send and what `report` says after the landing
\* agree, for any place of the accounts among static keys and lookup tables.
THEOREM CheckAgreesWithReport == PathSpec => []CheckForeseesReport
<1>1. ASSUME PathInv, Chain!ReportedWithMeta
      PROVE  /\ Chain!Amount(Chain!Visited) < Width => resolved <= report.tip_intended
             /\ verdict = "ok" /\ landed = "ok" => report.tip_paid >= MinTip
             /\ Chain!Amount(DOMAIN transfers) < Width =>
                  /\ Chain!ToTip(meta.inner) = {} =>
                        report.tip_intended <= resolved + unresolved
                  /\ /\ verdict \in {"missing", "below"}
                     /\ Chain!ToTip(Chain!Through("inner") \cup Chain!Through("moved")) = {}
                     => report.tip_paid < MinTip
  <2>. DEFINE Visited == Chain!Visited
              all == Chain!ToTip(DOMAIN transfers)
              every == DOMAIN transfers
  <2>1. LandingInv /\ TransferTypes /\ Joined /\ Shape
    BY <1>1 DEF PathInv, InspectionInv, LandingInv
  <2>2. /\ report.tip_paid = IF landed = "ok" THEN Chain!Amount(all) ELSE 0
        /\ report.tip_intended = Chain!Amount(Visited) % Width
    BY <1>1, <2>1, Paid
  <2>3. Judged
    <3>1. landed # "no"
      BY <1>1, <2>1 DEF LandingInv, Chain!ReportedWithMeta
    <3>. QED
      BY <1>1, <3>1 DEF PathInv, InspectionInv
  <2>4. /\ Tips \in SUBSET ChainTips /\ ChainTips \in SUBSET Visited
        /\ Visited \in SUBSET all /\ all \in SUBSET every /\ Unresolved \in SUBSET every
        /\ Tips \cup Unresolved \in SUBSET Directed /\ Directed \in SUBSET every
        /\ ChainTips \in SUBSET (Tips \cup Unresolved) /\ Tips \cap Unresolved = {}
    <3>1. Visited \in SUBSET DOMAIN transfers
      BY <2>1, VisitedIn
    <3>2. ChainTips = Chain!ToTip(Chain!Through("top")) /\ Directed = Chain!Through("top")
      BY <2>1, SameTips
    <3>3. /\ Tips \in SUBSET ChainTips /\ ChainTips \in SUBSET (Tips \cup Unresolved)
          /\ Tips \cap Unresolved = {} /\ Tips \cup Unresolved \in SUBSET Directed
      BY <2>1, TipsOnChain
    <3>. QED
      BY <3>1, <3>2, <3>3 DEF Chain!Visited, Chain!ToTip, Chain!Through
  <2>5. /\ resolved = Chain!Amount(Tips) % Width
        /\ unresolved = Chain!Amount(Unresolved) % Width
    BY <2>1, <2>3, <2>4, SameTips DEF Judged
  <2>. HIDE DEF Visited, all, every
  <2>6. \A S \in SUBSET every : Chain!Amount(S) \in Nat
                                /\ \A T \in SUBSET S : Chain!Amount(T) <= Chain!Amount(S)
    BY <2>1, ChainNatural, ChainMonotone DEF every
  <2>7. /\ Chain!Amount(Tips) \in Nat /\ Chain!Amount(Unresolved) \in Nat
        /\ Chain!Amount(Visited) \in Nat /\ Chain!Amount(all) \in Nat
        /\ Chain!Amount(every) \in Nat
        /\ Chain!Amount(Tips) <= Chain!Amount(Visited)
        /\ Chain!Amount(Visited) <= Chain!Amount(all)
        /\ Chain!Amount(Tips) <= Chain!Amount(every)
        /\ Chain!Amount(Unresolved) <= Chain!Amount(every)
    BY <2>4, <2>6
  <2>8. resolved \in Nat /\ unresolved \in Nat /\ resolved <= Chain!Amount(Tips)
    BY <2>5, <2>7, Wrapped
  <2>9. ASSUME Chain!Amount(Visited) < Width
        PROVE  report.tip_intended = Chain!Amount(Visited) /\ resolved <= report.tip_intended
    <3>1. report.tip_intended = Chain!Amount(Visited)
      BY <2>2, <2>7, <2>9, Wrapped
    <3>. QED
      BY <2>7, <2>8, <3>1
  <2>10. ASSUME verdict = "ok", landed = "ok"
         PROVE  report.tip_paid >= MinTip
    <3>1. resolved >= MinTip /\ report.tip_paid = Chain!Amount(all)
      BY <2>2, <2>3, <2>10 DEF Judged
    <3>. QED
      BY <2>7, <2>8, <3>1, Constants
  <2>11. ASSUME Chain!Amount(every) < Width
         PROVE  resolved = Chain!Amount(Tips) /\ unresolved = Chain!Amount(Unresolved)
    <3>1. Chain!Amount(Tips) < Width /\ Chain!Amount(Unresolved) < Width
      BY <2>7, <2>11, Constants
    <3>. QED
      BY <2>5, <2>7, <3>1, Wrapped
  <2>12. ASSUME Chain!Amount(every) < Width, Chain!ToTip(meta.inner) = {}
         PROVE  report.tip_intended <= resolved + unresolved
    <3>1. Visited \in SUBSET ChainTips
      <4>1. ChainTips = Chain!ToTip(Chain!Through("top"))
        BY <2>1, SameTips
      <4>. QED
        BY <1>1, <2>12, <4>1 DEF Visited, Chain!Visited, Chain!Inner, Chain!ToTip,
           Chain!ReportedWithMeta
    <3>2. Chain!Amount(Visited) <= Chain!Amount(Tips \cup Unresolved)
      BY <2>4, <2>6, <3>1
    <3>3. Chain!Amount(Tips \cup Unresolved) = Chain!Amount(Tips) + Chain!Amount(Unresolved)
      <4>1. Tips \in SUBSET DOMAIN transfers /\ Unresolved \in SUBSET DOMAIN transfers
        BY <2>4 DEF every
      <4>. QED
        BY <2>1, <2>4, <4>1, ChainDisjoint
    <3>4. report.tip_intended = Chain!Amount(Visited)
      BY <2>4, <2>6, <2>7, <2>9, <2>12, Constants
    <3>. QED
      BY <2>7, <2>11, <2>12, <3>2, <3>3, <3>4
  <2>13. ASSUME Chain!Amount(every) < Width, verdict \in {"missing", "below"},
                Chain!ToTip(Chain!Through("inner") \cup Chain!Through("moved")) = {}
         PROVE  report.tip_paid < MinTip
    <3>1. resolved < MinTip /\ Unresolved = {}
      BY <2>3, <2>13 DEF Judged
    <3>2. all \in SUBSET ChainTips
      <4>1. \A k \in DOMAIN transfers : transfers[k].via \in Chain!Via
        BY <2>1, TransferFacts
      <4>2. ChainTips = Chain!ToTip(Chain!Through("top"))
        BY <2>1, SameTips
      <4>. QED
        BY <2>13, <4>1, <4>2 DEF all, Chain!ToTip, Chain!Through, Chain!Via
    <3>3. Chain!Amount(all) <= Chain!Amount(Tips)
      BY <2>4, <2>6, <3>1, <3>2
    <3>. QED
      BY <2>2, <2>7, <2>11, <2>13, <3>1, <3>3, Constants
  <2>. QED
    BY <2>9, <2>10, <2>12, <2>13 DEF every, Visited
<1>2. PathInv => CheckForeseesReport
  BY <1>1 DEF CheckForeseesReport
<1>. QED
  BY <1>2, Inductive, PTL
=============================================================================
