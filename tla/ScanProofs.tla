----------------------------- MODULE ScanProofs -----------------------------
(***************************************************************************)
(* The landing scan for any number of accounts, any sizes of pages, caps   *)
(* and samples, and any chain: what it counts, what it counts twice, and   *)
(* what it samples.                                                        *)
(*                                                                         *)
(* Pages, filters and the sort of the model are orderings of finite sets   *)
(* (Ordered), so that one lemma about these, IsOrdered, stands for         *)
(* inductions over lists.                                                  *)
(***************************************************************************)
EXTENDS Scan, FiniteSetTheorems, WellFoundedInduction, NaturalsInduction, TLAPS

-----------------------------------------------------------------------------
(* Finite sets in order *)

\* A set of natural numbers has a least element.
LEMMA LeastNatural ==
    ASSUME NEW T, T \subseteq Nat, T # {}
    PROVE  \E m \in T : \A k \in T : m <= k
<1>1. PICK m \in T : \A k \in T : <<k, m>> \notin OpToRel(<, Nat)
  BY WFMin, NatLessThanWellFounded, Zenon
<1>2. \A k \in Nat : k < m => <<k, m>> \in OpToRel(<, Nat)
  BY Zenon DEF OpToRel
<1>3. \A k \in T : ~(k < m)
  BY <1>1, <1>2, Zenon
<1>. QED
  BY <1>3

\* A total order, strict, as a set of pairs.
IsOrder(S, R) ==
    /\ \A x, y, z \in S : <<x, y>> \in R /\ <<y, z>> \in R => <<x, z>> \in R
    /\ \A x \in S : <<x, x>> \notin R
    /\ \A x, y \in S : x # y => <<x, y>> \in R \/ <<y, x>> \in R

\* How many are before x, and x.
Rank(S, R, x) == Cardinality({y \in S : <<y, x>> \in R}) + 1

\* The rank is a place in the order, and grows along it.
LEMMA RankGrows ==
    ASSUME NEW S, IsFiniteSet(S), NEW R, IsOrder(S, R)
    PROVE  /\ \A x \in S : Rank(S, R, x) \in 1..Cardinality(S)
           /\ \A x, y \in S : <<x, y>> \in R => Rank(S, R, x) < Rank(S, R, y)
<1>. DEFINE B(x) == {y \in S : <<y, x>> \in R}
<1>1. \A x \in S : IsFiniteSet(B(x)) /\ Cardinality(B(x)) \in Nat
  BY FS_Subset, FS_CardinalityType
<1>2. ASSUME NEW x \in S
      PROVE  Rank(S, R, x) \in 1..Cardinality(S)
  <2>1. B(x) \in SUBSET S /\ B(x) # S
    BY DEF IsOrder
  <2>2. Cardinality(B(x)) <= Cardinality(S) /\ Cardinality(B(x)) # Cardinality(S)
    BY <2>1, FS_Subset
  <2>3. Cardinality(S) \in Nat
    BY FS_CardinalityType
  <2>. QED
    BY <1>1, <2>2, <2>3 DEF Rank
<1>3. ASSUME NEW x \in S, NEW y \in S, <<x, y>> \in R
      PROVE  Rank(S, R, x) < Rank(S, R, y)
  <2>1. B(x) \in SUBSET B(y) /\ B(x) # B(y)
    BY <1>3 DEF IsOrder
  <2>2. Cardinality(B(x)) <= Cardinality(B(y)) /\ Cardinality(B(x)) # Cardinality(B(y))
    BY <1>1, <2>1, FS_Subset
  <2>3. /\ Rank(S, R, x) = Cardinality(B(x)) + 1
        /\ Rank(S, R, y) = Cardinality(B(y)) + 1
    BY DEF Rank
  <2>. HIDE DEF B
  <2>. QED
    BY <1>1, <2>2, <2>3
<1>. QED
  BY <1>2, <1>3

\* e lists S along R, every element once.
IsOrdered(S, R, e) ==
    /\ e \in [1..Cardinality(S) -> S]
    /\ Cardinality(S) \in Nat
    /\ \A x \in S : \E n \in 1..Cardinality(S) : e[n] = x
    /\ \A m, n \in 1..Cardinality(S) : m < n => <<e[m], e[n]>> \in R

\* Different elements have different ranks, so that there is one at every place.
LEMMA OrderedIs ==
    ASSUME NEW S, IsFiniteSet(S), NEW R, IsOrder(S, R)
    PROVE  IsOrdered(S, R, Ordered(S, R))
<1>. DEFINE e == Ordered(S, R)
            N == Cardinality(S)
            r == [x \in S |-> Rank(S, R, x)]
<1>1. N \in Nat /\ IsFiniteSet(1..N) /\ Cardinality(1..N) = N
  <2>1. N \in Nat
    BY FS_CardinalityType
  <2>. HIDE DEF N
  <2>. QED
    BY <2>1, FS_Interval
<1>2. r \in [S -> 1..N]
  BY RankGrows
<1>3. \A x, y \in S : r[x] = r[y] => x = y
  <2>1. \A x, y \in S : <<x, y>> \in R => r[x] < r[y]
    BY RankGrows
  <2>2. \A x \in S : r[x] \in Nat
    BY <1>1, <1>2
  <2>. HIDE DEF r
  <2>3. ASSUME NEW x \in S, NEW y \in S, r[x] = r[y], x # y
        PROVE  FALSE
    <3>1. <<x, y>> \in R \/ <<y, x>> \in R
      BY <2>3 DEF IsOrder
    <3>2. r[x] < r[y] \/ r[y] < r[x]
      BY <2>1, <3>1
    <3>. QED
      BY <2>2, <2>3, <3>2
  <2>. QED
    BY <2>3
<1>4. \A n \in 1..N : \E x \in S : r[x] = n
  <2>. HIDE DEF r, N
  <2>1. r \in Injection(S, 1..N)
    BY <1>2, <1>3 DEF Injection, IsInjective
  <2>2. r \in Surjection(S, 1..N)
    BY <1>1, <2>1, FS_Injection DEF N
  <2>. QED
    BY <2>2 DEF Surjection
<1>5. \A x \in S, n \in 1..N :
         r[x] = n <=> Cardinality({y \in S : <<y, x>> \in R}) = n - 1
  <2>1. \A x \in S : Cardinality({y \in S : <<y, x>> \in R}) \in Nat
    BY FS_Subset, FS_CardinalityType
  <2>. QED
    BY <1>1, <2>1 DEF Rank
<1>6. \A n \in 1..N : e[n] \in S /\ r[e[n]] = n
  <2>1. \A n \in 1..N :
           e[n] = CHOOSE x \in S : Cardinality({y \in S : <<y, x>> \in R}) = n - 1
    BY DEF Ordered
  <2>. HIDE DEF e, r, N
  <2>2. SUFFICES ASSUME NEW n \in 1..N
                 PROVE  e[n] \in S /\ r[e[n]] = n
    OBVIOUS
  <2>3. \E x \in S : Cardinality({y \in S : <<y, x>> \in R}) = n - 1
    BY <1>4, <1>5
  <2>4. e[n] \in S /\ Cardinality({y \in S : <<y, e[n]>> \in R}) = n - 1
    BY <2>1, <2>3
  <2>. QED
    BY <1>5, <2>4
<1>7. e \in [1..N -> S]
  BY <1>6 DEF Ordered
<1>8. \A x \in S : r[x] \in 1..N /\ e[r[x]] = x
  <2>. HIDE DEF e, r
  <2>. QED
    BY <1>2, <1>3, <1>6
<1>9. ASSUME NEW m \in 1..N, NEW n \in 1..N, m < n
      PROVE  <<e[m], e[n]>> \in R
  <2>1. \A x, y \in S : <<x, y>> \in R => r[x] < r[y]
    BY RankGrows
  <2>. HIDE DEF e, r
  <2>2. e[m] # e[n] /\ ~(r[e[n]] < r[e[m]])
    BY <1>1, <1>6, <1>9
  <2>. QED
    BY <1>6, <2>1, <2>2 DEF IsOrder
<1>. HIDE DEF e, r
<1>10. IsOrdered(S, R, e)
  BY <1>1, <1>2, <1>7, <1>8, <1>9 DEF IsOrdered
<1>. QED
  BY <1>10 DEF e

\* The entries at some positions, in their order, and those only.
LEMMA OnlyIs ==
    ASSUME NEW V, NEW s \in Seq(V), NEW K \in SUBSET DOMAIN s
    PROVE  /\ Only(s, K) \in Seq(V)
           /\ Len(Only(s, K)) = Cardinality(K)
           /\ \E at \in [1..Cardinality(K) -> K] :
                 /\ \A n \in 1..Cardinality(K) : Only(s, K)[n] = s[at[n]]
                 /\ \A m, n \in 1..Cardinality(K) : m < n => at[m] < at[n]
                 /\ \A i \in K : \E n \in 1..Cardinality(K) : at[n] = i
           /\ Cardinality(K) \in Nat
<1>. DEFINE R == {p \in K \X K : p[1] < p[2]}
            at == Ordered(K, R)
<1>1. IsFiniteSet(K)
  <2>1. IsFiniteSet(1..Len(s))
    BY FS_Interval
  <2>. QED
    BY <2>1, FS_Subset
<1>2. K \subseteq Nat
  OBVIOUS
<1>3. \A i, j \in K : <<i, j>> \in R <=> i < j
  OBVIOUS
<1>. HIDE DEF R
<1>4. IsOrder(K, R)
  BY <1>2, <1>3 DEF IsOrder
<1>5. IsOrdered(K, R, at)
  BY <1>1, <1>4, OrderedIs
<1>6. Only(s, K) = [n \in DOMAIN at |-> s[at[n]]]
  BY DEF Only, R
<1>. HIDE DEF at
<1>7. /\ at \in [1..Cardinality(K) -> K] /\ Cardinality(K) \in Nat
      /\ \A i \in K : \E n \in 1..Cardinality(K) : at[n] = i
  BY <1>5 DEF IsOrdered
<1>8. \A m, n \in 1..Cardinality(K) : m < n => at[m] < at[n]
  BY <1>3, <1>5, <1>7 DEF IsOrdered
<1>9. Only(s, K) = [n \in 1..Cardinality(K) |-> s[at[n]]]
  BY <1>6, <1>7
<1>10. \A n \in 1..Cardinality(K) : s[at[n]] \in V
  BY <1>7
<1>. DEFINE N == Cardinality(K)
            o == Only(s, K)
<1>11. o = [n \in 1..N |-> s[at[n]]] /\ N \in Nat
  BY <1>7, <1>9
<1>12. o \in Seq(V) /\ Len(o) = N
  <2>. HIDE DEF o, N
  <2>1. \A n \in 1..N : s[at[n]] \in V
    BY <1>10 DEF N
  <2>. QED
    BY <1>11, <2>1
<1>13. \A n \in 1..N : o[n] = s[at[n]]
  <2>. HIDE DEF o, N
  <2>. QED
    BY <1>11
<1>. QED
  BY <1>7, <1>8, <1>12, <1>13

\* Of a sequence, Only has the elements at those positions.
LEMMA OnlyHas ==
    ASSUME NEW V, NEW s \in Seq(V), NEW K \in SUBSET DOMAIN s
    PROVE  /\ ToSet(Only(s, K)) = {s[i] : i \in K}
           /\ Only(s, K) = <<>> <=> K = {}
<1>. DEFINE o == Only(s, K)
            N == Cardinality(K)
<1>1. PICK at \in [1..N -> K] :
         /\ \A n \in 1..N : o[n] = s[at[n]]
         /\ \A i \in K : \E n \in 1..N : at[n] = i
  BY OnlyIs
<1>2. o \in Seq(V) /\ Len(o) = N /\ N \in Nat
  BY OnlyIs
<1>. HIDE DEF o, N
<1>3. DOMAIN o = 1..N
  BY <1>2
<1>4. ToSet(o) = {s[i] : i \in K}
  BY <1>1, <1>3 DEF ToSet
<1>5. o = <<>> <=> K = {}
  <2>1. o = <<>> <=> N = 0
    BY <1>2
  <2>2. N = 0 <=> K = {}
    BY <1>1, <1>2
  <2>. QED
    BY <2>1, <2>2
<1>. QED
  BY <1>4, <1>5 DEF o

-----------------------------------------------------------------------------
(* Paging *)

Why == {"none", "error", "exhausted", "past", "capped", "untimed"}

Types ==
    /\ chain \in Seq([slot : Nat, touches : SUBSET Account])
    /\ pc \in {"page", "sort", "sample", "done"}
    /\ acct \in Account
    /\ before \in Nat \cup {None}
    /\ got \in Nat /\ (got = 0 <=> before = None)
    /\ newest_time \in {t \in Nat : t >= Genesis} \cup {None}
    /\ all \in Seq(Nat)
    /\ \A i \in DOMAIN all : all[i] \in DOMAIN chain
    /\ first \in [Account -> Nat]
    /\ \A a \in Account : first[a] <= Len(chain)
    /\ stop \in [Account -> Why]

\* A later transaction is in no earlier slot.
InOrder == \A s, t \in DOMAIN chain : s < t => chain[s].slot <= chain[t].slot

\* Of the first n transactions, those from position `from` on that touch a and are
\* within the window of `newest` are among those seen.
Covers(seen, n, a, from, newest) ==
    \A s \in 1..n :
        /\ a \in chain[s].touches /\ s >= from
        /\ Time(s) # None /\ Time(s) >= Cutoff(newest)
        => s \in ToSet(seen)

\* The paging has covered the account from its cursor on, and the accounts
\* whose paging came to its end as a whole. As long as no block time is known, the
\* window is everything.
WindowInv ==
    /\ pc = "page" => \A a \in Account : a >= acct => stop[a] = "none"
    /\ pc = "page" /\ before # None => Covers(all, first[acct], acct, before, newest_time)
    /\ \A a \in Account : stop[a] \in {"exhausted", "past"} =>
          Covers(all, first[a], a, 0, newest_time)
    /\ \A s \in ToSet(all) : Time(s) # None =>
          newest_time # None /\ Time(s) >= Cutoff(newest_time)

\* The sizes and times are natural numbers.
LEMMA Numbers ==
    /\ Accounts \in Nat \ {0} /\ PageSize \in Nat \ {0} /\ Cap \in Nat \ {0}
    /\ Window \in Nat /\ SampleSize \in Nat /\ Genesis \in Nat
    /\ Window < Genesis
BY ScanAssumption

\* A block time is a number, or unknown.
LEMMA TimeIs ==
    ASSUME Types
    PROVE  \A s \in DOMAIN chain :
              Time(s) = None \/ (/\ Time(s) \in Nat /\ Time(s) >= Genesis
                                 /\ Time(s) = Genesis + chain[s].slot)
<1>1. SUFFICES ASSUME NEW s \in DOMAIN chain, Time(s) # None
               PROVE  /\ Time(s) \in Nat /\ Time(s) >= Genesis
                      /\ Time(s) = Genesis + chain[s].slot
  OBVIOUS
<1>2. chain[s].slot \in Nat
  <2>. DEFINE E == [slot : Nat, touches : SUBSET Account]
  <2>1. chain \in Seq(E)
    BY DEF Types
  <2>2. \A x \in E : x.slot \in Nat
    OBVIOUS
  <2>. HIDE DEF E
  <2>3. chain[s] \in E
    BY <2>1
  <2>. QED
    BY <2>2, <2>3
<1>3. Time(s) = Genesis + chain[s].slot
  BY <1>1 DEF Time
<1>. QED
  BY <1>2, <1>3, Numbers

\* A page is the newest of what is listed, newest first.
LEMMA PageIs ==
    ASSUME Types
    PROVE  /\ Listed \in SUBSET DOMAIN chain
           /\ Page \in Seq(Listed)
           /\ Page = <<>> <=> Listed = {}
           /\ Page # <<>> =>
                 /\ Last(Page) \in Listed
                 /\ \A s \in ToSet(Page) : s >= Last(Page)
                 /\ \A s \in Listed : s >= Last(Page) => s \in ToSet(Page)
<1>. DEFINE R == {p \in Listed \X Listed : p[1] > p[2]}
            e == Ordered(Listed, R)
            N == Cardinality(Listed)
            k == IF PageSize < N THEN PageSize ELSE N
<1>1. Listed \in SUBSET DOMAIN chain /\ Listed \subseteq Nat /\ IsFiniteSet(Listed)
  <2>1. Listed \in SUBSET DOMAIN chain
    BY DEF Listed
  <2>2. DOMAIN chain = 1..Len(chain) /\ Len(chain) \in Nat
    BY DEF Types
  <2>3. IsFiniteSet(1..Len(chain))
    BY <2>2, FS_Interval
  <2>. QED
    BY <2>1, <2>2, <2>3, FS_Subset
<1>2. \A s, t \in Listed : <<s, t>> \in R <=> s > t
  OBVIOUS
<1>3. IsOrdered(Listed, R, e)
  <2>. HIDE DEF R, e
  <2>1. IsOrder(Listed, R)
    BY <1>1, <1>2 DEF IsOrder
  <2>2. IsOrdered(Listed, R, Ordered(Listed, R))
    BY <1>1, <2>1, OrderedIs
  <2>. QED
    BY <2>2 DEF e
<1>4. /\ e \in [1..N -> Listed] /\ N \in Nat
      /\ \A s \in Listed : \E n \in 1..N : e[n] = s
      /\ \A m, n \in 1..N : m < n => e[m] > e[n]
  <2>. HIDE DEF R, e
  <2>. QED
    BY <1>1, <1>2, <1>3 DEF IsOrdered
<1>5. Page = SubSeq(e, 1, k)
  <2>1. Page = First(e, PageSize)
    BY DEF Page
  <2>2. Len(e) = N
    <3>. HIDE DEF e, N
    <3>. QED
      BY <1>4
  <2>. HIDE DEF e, N
  <2>. QED
    BY <2>1, <2>2 DEF First
<1>6. k \in Nat /\ k <= N /\ (k = 0 <=> N = 0)
  <2>. HIDE DEF N
  <2>. QED
    BY <1>4, Numbers
<1>. HIDE DEF R, e, k, N
<1>7. Page \in Seq(Listed) /\ Len(Page) = k /\ \A n \in 1..k : Page[n] = e[n]
  BY <1>4, <1>5, <1>6
<1>8. N = 0 <=> Listed = {}
  BY <1>4
<1>9. ASSUME k # 0
      PROVE  /\ Last(Page) \in Listed
             /\ \A s \in ToSet(Page) : s >= Last(Page)
             /\ \A s \in Listed : s >= Last(Page) => s \in ToSet(Page)
  <2>1. k \in 1..k /\ k \in 1..N /\ Last(Page) = e[k]
    BY <1>6, <1>7, <1>9 DEF Last
  <2>2. DOMAIN Page = 1..k
    BY <1>7
  <2>3. ASSUME NEW s \in ToSet(Page)
        PROVE  s >= Last(Page)
    <3>1. PICK n \in 1..k : s = e[n]
      BY <1>7, <2>2 DEF ToSet
    <3>2. n \in 1..N /\ e[n] \in Nat /\ e[k] \in Nat
      BY <1>1, <1>4, <1>6, <2>1
    <3>3. n = k \/ n < k
      BY <1>6
    <3>. QED
      BY <1>4, <2>1, <3>1, <3>2, <3>3
  <2>4. ASSUME NEW s \in Listed, s >= Last(Page)
        PROVE  s \in ToSet(Page)
    <3>1. PICK n \in 1..N : s = e[n]
      BY <1>4
    <3>2. e[n] \in Nat /\ e[k] \in Nat
      BY <1>1, <1>4, <2>1
    <3>3. n <= k
      BY <1>4, <1>6, <2>1, <2>4, <3>1, <3>2
    <3>4. n \in 1..k
      BY <1>6, <3>3
    <3>. QED
      BY <1>7, <2>2, <3>1, <3>4 DEF ToSet
  <2>. QED
    BY <1>4, <2>1, <2>3, <2>4
<1>10. Page = <<>> <=> k = 0
  BY <1>6, <1>7
<1>. QED
  BY <1>1, <1>6, <1>7, <1>8, <1>9, <1>10

\* The newest block time is found once, and then stays; without one no time of the
\* page is known.
LEMMA NewestIs ==
    ASSUME Types
    PROVE  /\ Newest \in {t \in Nat : t >= Genesis} \cup {None}
           /\ newest_time # None => Newest = newest_time
           /\ Newest = None => Times(Page) = {}
           /\ Times(Page) \subseteq {t \in Nat : t >= Genesis}
           /\ Times(Page) # {} => Oldest \in Times(Page)
<1>1. Times(Page) \subseteq {t \in Nat : t >= Genesis}
  <2>1. ASSUME NEW s \in ToSet(Page)
        PROVE  s \in DOMAIN chain
    BY PageIs DEF ToSet
  <2>. QED
    BY <2>1, TimeIs DEF Times
<1>2. ASSUME Times(Page) # {}
      PROVE  \E t \in Times(Page) : \A u \in Times(Page) : t >= u
  <2>1. IsFiniteSet(Times(Page))
    <3>. DEFINE f == [i \in DOMAIN Page |-> Time(Page[i])]
                T == {Time(s) : s \in ToSet(Page)}
    <3>1. f \in Surjection(DOMAIN Page, T)
      BY DEF Surjection, ToSet
    <3>2. IsFiniteSet(DOMAIN Page)
      <4>1. DOMAIN Page = 1..Len(Page) /\ Len(Page) \in Nat
        BY PageIs
      <4>. QED
        BY <4>1, FS_Interval
    <3>3. IsFiniteSet(T)
      <4>. HIDE DEF f, T
      <4>. QED
        BY <3>1, <3>2, FS_Surjection
    <3>4. Times(Page) \in SUBSET T
      BY DEF Times
    <3>. HIDE DEF T
    <3>. QED
      BY <3>3, <3>4, FS_Subset
  <2>. DEFINE R == {p \in Times(Page) \X Times(Page) : p[1] < p[2]}
              e == Ordered(Times(Page), R)
              N == Cardinality(Times(Page))
  <2>2. \A s, t \in Times(Page) : <<s, t>> \in R <=> s < t
    OBVIOUS
  <2>3. IsOrdered(Times(Page), R, e)
    <3>. HIDE DEF R, e
    <3>1. Times(Page) \subseteq Nat
      BY <1>1
    <3>2. IsOrder(Times(Page), R)
      BY <2>2, <3>1 DEF IsOrder
    <3>. QED
      BY <2>1, <3>2, OrderedIs DEF e
  <2>. HIDE DEF R, e
  <2>4. /\ e \in [1..N -> Times(Page)] /\ N \in Nat
        /\ \A s \in Times(Page) : \E n \in 1..N : e[n] = s
        /\ \A m, n \in 1..N : m < n => e[m] < e[n]
    BY <2>2, <2>3 DEF IsOrdered
  <2>. HIDE DEF N
  <2>5. N \in 1..N
    BY <1>2, <2>4
  <2>6. ASSUME NEW u \in Times(Page)
        PROVE  e[N] >= u
    <3>1. PICK n \in 1..N : e[n] = u
      BY <2>4
    <3>2. e[N] \in Nat /\ u \in Nat
      BY <1>1, <2>4, <2>5
    <3>3. n = N \/ n < N
      BY <2>4
    <3>. QED
      BY <2>4, <2>5, <3>1, <3>2, <3>3
  <2>. QED
    BY <2>4, <2>5, <2>6
<1>3. ASSUME Times(Page) # {}
      PROVE  Max(Times(Page)) \in Times(Page)
  BY <1>2, <1>3 DEF Max
<1>4. ASSUME Times(Page) # {}
      PROVE  Oldest \in Times(Page)
  <2>1. \E t \in Times(Page) : \A u \in Times(Page) : t <= u
    BY <1>1, <1>4, LeastNatural
  <2>2. Min(Times(Page)) \in Times(Page)
    BY <2>1 DEF Min
  <2>. QED
    BY <1>4, <2>2 DEF Oldest
<1>5. CASE newest_time # None
  BY <1>1, <1>4, <1>5, NoneAssumption DEF Newest, Types
<1>6. CASE newest_time = None
  <2>1. Newest = IF Times(Page) = {} THEN None ELSE Max(Times(Page))
    BY <1>6 DEF Newest
  <2>2. Times(Page) # {} => Max(Times(Page)) \in {t \in Nat : t >= Genesis}
    BY <1>1, <1>3
  <2>3. None \notin {t \in Nat : t >= Genesis}
    BY NoneAssumption
  <2>4. Newest \in {t \in Nat : t >= Genesis} \cup {None}
    BY <2>1, <2>2
  <2>5. Newest = None => Times(Page) = {}
    BY <2>1, <2>2, <2>3
  <2>. QED
    BY <1>1, <1>4, <1>6, <2>4, <2>5
<1>. QED
  BY <1>5, <1>6

\* The window only moves up when its anchor becomes known.
LEMMA CutoffIs ==
    ASSUME Types
    PROVE  /\ Cutoff(Newest) \in Int /\ Cutoff(newest_time) \in Int
           /\ Cutoff(newest_time) <= Cutoff(Newest)
<1>1. newest_time = None \/ Newest = newest_time
  BY NewestIs
<1>2. OrZero(newest_time) \in Nat /\ OrZero(Newest) \in Nat
  BY NewestIs DEF Types, OrZero
<1>3. OrZero(newest_time) <= OrZero(Newest)
  <2>1. newest_time = None => OrZero(newest_time) = 0
    BY DEF OrZero
  <2>. QED
    BY <1>1, <1>2, <2>1
<1>. QED
  BY <1>2, <1>3, Numbers DEF Cutoff

\* What a list has in front and behind is what it has.
LEMMA ToSetOf ==
    ASSUME NEW V, NEW s \in Seq(V), NEW t \in Seq(V)
    PROVE  ToSet(s \o t) = ToSet(s) \cup ToSet(t)
<1>1. /\ DOMAIN s = 1..Len(s) /\ DOMAIN t = 1..Len(t)
      /\ Len(s) \in Nat /\ Len(t) \in Nat
      /\ DOMAIN (s \o t) = 1..(Len(s) + Len(t))
  OBVIOUS
<1>2. /\ \A i \in 1..Len(s) : (s \o t)[i] = s[i]
      /\ \A i \in 1..Len(t) : (s \o t)[Len(s) + i] = t[i]
  OBVIOUS
<1>3. \A i \in 1..Len(s) : i \in 1..(Len(s) + Len(t))
  BY <1>1
<1>4. \A i \in 1..Len(t) : Len(s) + i \in 1..(Len(s) + Len(t))
  BY <1>1
<1>5. \A i \in 1..(Len(s) + Len(t)) :
         i \in 1..Len(s) \/ (i - Len(s) \in 1..Len(t) /\ Len(s) + (i - Len(s)) = i)
  BY <1>1
<1>6. \A x \in ToSet(s) : x \in ToSet(s \o t)
  BY <1>1, <1>2, <1>3 DEF ToSet
<1>7. \A x \in ToSet(t) : x \in ToSet(s \o t)
  BY <1>1, <1>2, <1>4 DEF ToSet
<1>8. \A x \in ToSet(s \o t) : x \in ToSet(s) \/ x \in ToSet(t)
  <2>1. SUFFICES ASSUME NEW i \in DOMAIN (s \o t)
                 PROVE  (s \o t)[i] \in ToSet(s) \/ (s \o t)[i] \in ToSet(t)
    BY DEF ToSet
  <2>2. CASE i \in 1..Len(s)
    BY <1>1, <1>2, <2>2 DEF ToSet
  <2>3. CASE i - Len(s) \in 1..Len(t) /\ Len(s) + (i - Len(s)) = i
    <3>1. (s \o t)[i] = t[i - Len(s)]
      BY <1>2, <2>3
    <3>. QED
      BY <1>1, <2>3, <3>1 DEF ToSet
  <2>. QED
    BY <1>1, <1>5, <2>1, <2>2, <2>3
<1>. QED
  BY <1>6, <1>7, <1>8

\* A page adds what it has of the window, and covers the account down to its last
\* entry: what is above the cursor was covered before, or the cursor is where the
\* account began.
LEMMA CollectCovers ==
    ASSUME Types, WindowInv, pc = "page", Page # <<>>, Collect, UNCHANGED world
    PROVE  /\ ToSet(all') = ToSet(all) \cup
                 {s \in ToSet(Page) : OrZero(Time(s)) >= Cutoff(Newest)}
           /\ all' \in Seq(Nat) /\ \A i \in DOMAIN all' : all'[i] \in DOMAIN chain
           /\ first' \in [Account -> Nat]
           /\ \A a \in Account : first'[a] <= Len(chain)
           /\ \A a \in Account : a # acct => first'[a] = first[a]
           /\ Covers(all', first'[acct], acct, Last(Page), Newest)
<1>1. /\ Listed \in SUBSET DOMAIN chain /\ Page \in Seq(Listed)
      /\ Last(Page) \in Listed
      /\ \A s \in Listed : s >= Last(Page) => s \in ToSet(Page)
  BY PageIs
<1>2. DOMAIN chain = 1..Len(chain) /\ Len(chain) \in Nat
  BY DEF Types
<1>3. Page \in Seq(Nat)
  <2>1. Listed \subseteq Nat
    BY <1>1, <1>2
  <2>. QED
    BY <1>1, <2>1
<1>4. Recent \in SUBSET DOMAIN Page
  BY DEF Recent
<1>5. /\ Only(Page, Recent) \in Seq(Nat)
      /\ ToSet(Only(Page, Recent)) = {Page[i] : i \in Recent}
  BY <1>3, <1>4, OnlyIs, OnlyHas
<1>6. all' = all \o Only(Page, Recent) /\ all \in Seq(Nat)
  BY DEF Collect, Types
<1>7. ToSet(all') = ToSet(all) \cup {Page[i] : i \in Recent} /\ all' \in Seq(Nat)
  BY <1>5, <1>6, ToSetOf
<1>8. {Page[i] : i \in Recent} = {s \in ToSet(Page) : OrZero(Time(s)) >= Cutoff(Newest)}
  BY DEF Recent, ToSet
<1>9. ASSUME NEW i \in DOMAIN all'
      PROVE  all'[i] \in DOMAIN chain
  <2>1. all'[i] \in ToSet(all')
    BY DEF ToSet
  <2>2. \A s \in ToSet(all) : s \in DOMAIN chain
    BY DEF Types, ToSet
  <2>3. \A s \in ToSet(Page) : s \in DOMAIN chain
    BY <1>1 DEF ToSet
  <2>. QED
    BY <1>7, <1>8, <2>1, <2>2, <2>3
<1>10. /\ first' \in [Account -> Nat] /\ acct \in Account
       /\ \A a \in Account : first'[a] <= Len(chain)
       /\ \A a \in Account : a # acct => first'[a] = first[a]
       /\ first'[acct] = IF before = None THEN Len(chain) ELSE first[acct]
  BY <1>2 DEF Collect, Types
<1>11. ASSUME NEW s \in 1..first'[acct], acct \in chain[s].touches, s >= Last(Page),
              Time(s) # None, Time(s) >= Cutoff(Newest)
       PROVE  s \in ToSet(all')
  <2>1. s \in Nat /\ s \in DOMAIN chain
    BY <1>2, <1>10
  <2>2. OrZero(Time(s)) >= Cutoff(Newest)
    BY <1>11 DEF OrZero
  <2>3. CASE before = None \/ s < before
    <3>1. s \in Listed
      BY <1>11, <2>1, <2>3 DEF Listed
    <3>2. s \in ToSet(Page)
      BY <1>1, <1>11, <3>1
    <3>. QED
      BY <1>7, <1>8, <2>2, <3>2
  <2>4. CASE ~(before = None \/ s < before)
    <3>1. before \in Nat /\ s >= before /\ before # None
      BY <2>1, <2>4 DEF Types
    <3>2. s \in 1..first[acct]
      BY <1>10, <3>1
    <3>3. Time(s) \in Nat /\ Time(s) >= Cutoff(newest_time)
      BY <1>11, <2>1, CutoffIs, TimeIs
    <3>4. s \in ToSet(all)
      BY <1>11, <3>1, <3>2, <3>3 DEF WindowInv, Covers
    <3>. QED
      BY <1>7, <3>4
  <2>. QED
    BY <2>3, <2>4
<1>. QED
  BY <1>7, <1>8, <1>9, <1>10, <1>11 DEF Covers

\* Chain, lists and window only grow: what was covered of an account stays so.
LEMMA StaysCovered ==
    ASSUME Types, WindowInv, untimed' = untimed,
           \A s \in DOMAIN chain : chain'[s] = chain[s],
           ToSet(all) \subseteq ToSet(all'),
           Cutoff(newest_time) \in Int, Cutoff(newest_time)' \in Int,
           Cutoff(newest_time) <= Cutoff(newest_time)',
           NEW a \in Account, first'[a] = first[a], stop'[a] = stop[a],
           stop[a] \in {"exhausted", "past"}
    PROVE  Covers(all, first[a], a, 0, newest_time)'
<1>1. Covers(all, first[a], a, 0, newest_time)
  BY DEF WindowInv
<1>2. SUFFICES ASSUME NEW s \in 1..first[a], a \in chain'[s].touches, s >= 0,
                      Time(s)' # None, Time(s)' >= Cutoff(newest_time)'
               PROVE  s \in ToSet(all')
  BY DEF Covers
<1>3. s \in DOMAIN chain
  <2>1. first[a] \in Nat /\ first[a] <= Len(chain)
    BY DEF Types
  <2>2. DOMAIN chain = 1..Len(chain) /\ Len(chain) \in Nat
    BY DEF Types
  <2>. QED
    BY <2>1, <2>2
<1>4. Time(s)' = Time(s)
  BY <1>3 DEF Time
<1>5. Time(s) # None /\ Time(s) >= Cutoff(newest_time)
  <2>1. Time(s) \in Nat
    BY <1>2, <1>3, <1>4, TimeIs
  <2>. QED
    BY <1>2, <1>4, <2>1
<1>6. s \in ToSet(all)
  BY <1>1, <1>2, <1>3, <1>5 DEF Covers
<1>. QED
  BY <1>6

\* A new transaction is past everything that was covered, and in no earlier slot.
LEMMA LandStep ==
    ASSUME Types, InOrder, WindowInv,
           NEW slot \in 0..MaxSlot, NEW touched \in SUBSET Account \ {{}},
           Land(slot, touched)
    PROVE  Types' /\ InOrder' /\ WindowInv'
<1>. DEFINE E == [slot : Nat, touches : SUBSET Account]
            new == [slot |-> slot, touches |-> touched]
<1>1. chain \in Seq(E) /\ chain' = Append(chain, new) /\ new \in E
  <2>1. slot \in Nat
    BY ScanAssumption
  <2>. QED
    BY <2>1 DEF Types, Land
<1>2. \A x \in E : x.slot \in Nat
  OBVIOUS
<1>3. new.slot = slot /\ (chain # <<>> => slot >= Last(chain).slot)
  BY DEF Land
<1>. HIDE DEF E, new
<1>4. /\ chain' \in Seq(E) /\ Len(chain') = Len(chain) + 1 /\ Len(chain) \in Nat
      /\ DOMAIN chain = 1..Len(chain) /\ DOMAIN chain' = 1..(Len(chain) + 1)
      /\ \A s \in DOMAIN chain : chain'[s] = chain[s]
      /\ chain'[Len(chain) + 1] = new
  BY <1>1
<1>5. UNCHANGED <<untimed, failed, pc, cursor, newest_time, all, sample, history>>
  BY DEF Land
<1>6. UNCHANGED <<untimed, pc, acct, before, got, newest_time, all, first, stop>>
  BY <1>5 DEF cursor, history
<1>7. Types'
  <2>1. \A i \in DOMAIN all : all[i] \in DOMAIN chain'
    BY <1>4 DEF Types
  <2>2. \A a \in Account : first[a] <= Len(chain')
    BY <1>4 DEF Types
  <2>3. chain' \in Seq([slot : Nat, touches : SUBSET Account])
    BY <1>4 DEF E
  <2>. QED
    BY <1>6, <2>1, <2>2, <2>3 DEF Types
<1>8. InOrder'
  <2>1. SUFFICES ASSUME NEW s \in DOMAIN chain', NEW t \in DOMAIN chain', s < t
                 PROVE  chain'[s].slot <= chain'[t].slot
    BY DEF InOrder
  <2>2. s \in DOMAIN chain /\ chain # <<>> /\ Len(chain) \in DOMAIN chain
    BY <1>4, <2>1
  <2>3. \A u \in DOMAIN chain : chain[u].slot \in Nat
    BY <1>1, <1>2
  <2>4. CASE t \in DOMAIN chain
    BY <1>4, <2>1, <2>2, <2>4 DEF InOrder
  <2>5. CASE t = Len(chain) + 1
    <3>1. chain[s].slot <= chain[Len(chain)].slot
      <4>1. s = Len(chain) \/ s < Len(chain)
        BY <1>4, <2>2
      <4>. QED
        BY <2>2, <2>3, <4>1 DEF InOrder
    <3>2. Last(chain) = chain[Len(chain)]
      BY DEF Last
    <3>3. chain[Len(chain)].slot <= slot /\ slot \in Nat
      BY <1>3, <1>1, <1>2, <2>2, <3>2, <2>3
    <3>4. chain'[t].slot = slot /\ chain'[s] = chain[s]
      BY <1>3, <1>4, <2>2, <2>5
    <3>. QED
      BY <2>2, <2>3, <3>1, <3>3, <3>4
  <2>. QED
    BY <1>4, <2>4, <2>5
<1>9. \A s \in DOMAIN chain : Time(s)' = Time(s)
  BY <1>4, <1>6 DEF Time
<1>10. \A s \in ToSet(all) : s \in DOMAIN chain
  BY DEF Types, ToSet
<1>11. Cutoff(newest_time)' = Cutoff(newest_time) /\ Cutoff(newest_time) \in Int
  BY <1>6, CutoffIs DEF Cutoff, OrZero
<1>12. WindowInv'
  <2>1. (pc = "page" => \A a \in Account : a >= acct => stop[a] = "none")'
    BY <1>6 DEF WindowInv
  <2>2. (pc = "page" /\ before # None
           => Covers(all, first[acct], acct, before, newest_time))'
    <3>1. SUFFICES ASSUME pc = "page", before # None,
                          NEW s \in 1..first[acct]
                   PROVE  /\ acct \in chain'[s].touches /\ s >= before
                          /\ Time(s)' # None /\ Time(s)' >= Cutoff(newest_time)'
                          => s \in ToSet(all)
      BY <1>6 DEF Covers
    <3>2. s \in DOMAIN chain
      <4>1. first[acct] \in Nat /\ first[acct] <= Len(chain)
        BY DEF Types
      <4>. QED
        BY <1>4, <4>1
    <3>. QED
      BY <1>4, <1>9, <1>11, <3>1, <3>2 DEF WindowInv, Covers
  <2>3. ASSUME NEW a \in Account, stop'[a] \in {"exhausted", "past"}
        PROVE  Covers(all, first[a], a, 0, newest_time)'
    BY <1>4, <1>6, <1>11, <2>3, StaysCovered
  <2>4. (\A s \in ToSet(all) : Time(s) # None =>
           newest_time # None /\ Time(s) >= Cutoff(newest_time))'
    BY <1>6, <1>9, <1>10, <1>11 DEF WindowInv
  <2>. QED
    BY <2>1, <2>2, <2>3, <2>4 DEF WindowInv
<1>. QED
  BY <1>7, <1>8, <1>12

\* The next account starts without a cursor; the accounts done keep their state.
LEMMA NextAccountIs ==
    ASSUME Types, WindowInv, pc = "page", NEW why \in Why, NextAccount(why)
    PROVE  /\ pc' \in {"page", "sort"} /\ acct' \in Account
           /\ before' \in Nat \cup {None}
           /\ got' \in Nat /\ (got' = 0 <=> before' = None)
           /\ stop' \in [Account -> Why] /\ stop'[acct] = why
           /\ \A a \in Account : a # acct => stop'[a] = stop[a]
           /\ pc' = "page" => before' = None
           /\ pc' = "page" => \A a \in Account : a >= acct' => stop'[a] = "none"
<1>1. /\ acct \in 1..Accounts /\ Accounts \in Nat
      /\ stop \in [Account -> Why] /\ stop' = [stop EXCEPT ![acct] = why]
  BY Numbers DEF Types, NextAccount, Account
<1>2. /\ stop' \in [Account -> Why] /\ stop'[acct] = why
      /\ \A a \in Account : a # acct => stop'[a] = stop[a]
  BY <1>1 DEF Account
<1>3. CASE acct < Accounts
  <2>1. acct' = acct + 1 /\ before' = None /\ got' = 0 /\ pc' = pc
    BY <1>3 DEF NextAccount
  <2>2. \A a \in Account : a >= acct + 1 => a # acct /\ a >= acct
    BY <1>1 DEF Account
  <2>3. \A a \in Account : a >= acct' => stop'[a] = "none"
    BY <1>2, <2>1, <2>2 DEF WindowInv
  <2>4. acct' \in Account
    BY <1>1, <1>3, <2>1 DEF Account
  <2>. QED
    BY <1>2, <2>1, <2>3, <2>4
<1>4. CASE ~(acct < Accounts)
  <2>1. pc' = "sort" /\ acct' = acct /\ before' = before /\ got' = got
    BY <1>4 DEF NextAccount, cursor
  <2>. QED
    BY <1>2, <2>1 DEF Types
<1>. QED
  BY <1>3, <1>4

\* A failed page ends the account, which then promises nothing.
LEMMA PageFailsStep ==
    ASSUME Types, InOrder, WindowInv, PageFails
    PROVE  Types' /\ InOrder' /\ WindowInv'
<1>1. /\ pc = "page" /\ NextAccount("error") /\ "error" \in Why
      /\ chain' = chain /\ untimed' = untimed /\ newest_time' = newest_time
      /\ all' = all /\ first' = first
  BY DEF PageFails, world, Why
<1>2. Types'
  BY <1>1, NextAccountIs DEF Types
<1>3. InOrder'
  BY <1>1 DEF InOrder
<1>4. ASSUME NEW a \in Account, stop'[a] \in {"exhausted", "past"}
      PROVE  Covers(all, first[a], a, 0, newest_time)'
  <2>1. a # acct /\ stop'[a] = stop[a]
    BY <1>1, <1>4, NextAccountIs
  <2>2. Cutoff(newest_time)' = Cutoff(newest_time)
    BY <1>1 DEF Cutoff, OrZero
  <2>. QED
    BY <1>1, <1>4, <2>1, <2>2, CutoffIs, StaysCovered
<1>5. (\A s \in ToSet(all) : Time(s) # None =>
         newest_time # None /\ Time(s) >= Cutoff(newest_time))'
  BY <1>1 DEF WindowInv, Time, Cutoff, OrZero
<1>6. /\ (pc = "page" => \A a \in Account : a >= acct => stop[a] = "none")'
      /\ (pc = "page" => before = None)'
  BY <1>1, NextAccountIs
<1>. QED
  BY <1>2, <1>3, <1>4, <1>5, <1>6 DEF WindowInv

\* An empty page says that the account has nothing below the cursor.
LEMMA PageEmptyStep ==
    ASSUME Types, InOrder, WindowInv, PageEmpty
    PROVE  Types' /\ InOrder' /\ WindowInv'
<1>1. /\ pc = "page" /\ NextAccount("exhausted") /\ "exhausted" \in Why
      /\ chain' = chain /\ untimed' = untimed /\ newest_time' = newest_time
      /\ all' = all
      /\ first' = IF got = 0 THEN [first EXCEPT ![acct] = Len(chain)] ELSE first
  BY DEF PageEmpty, world, Why
<1>2. DOMAIN chain = 1..Len(chain) /\ Len(chain) \in Nat
  BY DEF Types
<1>3. /\ first' \in [Account -> Nat]
      /\ \A a \in Account : first'[a] <= Len(chain)
      /\ \A a \in Account : a # acct => first'[a] = first[a]
      /\ before # None => first'[acct] = first[acct]
  BY <1>1, <1>2 DEF Types
<1>4. Types'
  BY <1>1, <1>3, NextAccountIs DEF Types
<1>5. InOrder'
  BY <1>1 DEF InOrder
<1>6. /\ Cutoff(newest_time)' = Cutoff(newest_time) /\ Cutoff(newest_time) \in Int
      /\ \A s : Time(s)' = Time(s)
  BY <1>1, CutoffIs DEF Cutoff, OrZero, Time
<1>7. Listed = {}
  BY PageIs DEF PageEmpty
<1>8. ASSUME NEW a \in Account, stop'[a] \in {"exhausted", "past"}
      PROVE  Covers(all, first[a], a, 0, newest_time)'
  <2>1. CASE a # acct
    <3>1. stop'[a] = stop[a]
      BY <1>1, <2>1, NextAccountIs
    <3>. QED
      BY <1>1, <1>3, <1>6, <1>8, <2>1, <3>1, StaysCovered
  <2>2. CASE a = acct
    <3>1. SUFFICES ASSUME NEW s \in 1..first'[acct], acct \in chain[s].touches,
                          Time(s) # None, Time(s) >= Cutoff(newest_time)
                   PROVE  s \in ToSet(all)
      BY <1>1, <1>6, <2>2 DEF Covers
    <3>2. s \in DOMAIN chain /\ s \in Nat
      BY <1>2, <1>3, <2>2
    <3>3. before \in Nat /\ before # None /\ s >= before
      BY <1>7, <3>1, <3>2 DEF Listed, Types
    <3>. QED
      BY <1>1, <1>3, <3>1, <3>3 DEF WindowInv, Covers
  <2>. QED
    BY <2>1, <2>2
<1>9. (\A s \in ToSet(all) : Time(s) # None =>
          newest_time # None /\ Time(s) >= Cutoff(newest_time))'
  BY <1>1, <1>6 DEF WindowInv
<1>10. /\ (pc = "page" => \A a \in Account : a >= acct => stop[a] = "none")'
       /\ (pc = "page" => before = None)'
  BY <1>1, NextAccountIs
<1>. QED
  BY <1>4, <1>5, <1>8, <1>9, <1>10 DEF WindowInv

\* What a page is, whether or not it is the account's last.
LEMMA CollectKeeps ==
    ASSUME Types, WindowInv, pc = "page", Page # <<>>, Collect, UNCHANGED world
    PROVE  /\ newest_time' = Newest /\ Cutoff(newest_time)' = Cutoff(Newest)
           /\ \A s : Time(s)' = Time(s)
           /\ newest_time' \in {t \in Nat : t >= Genesis} \cup {None}
           /\ \A a \in Account :
                 a # acct /\ stop'[a] = stop[a] /\ stop[a] \in {"exhausted", "past"}
                 => Covers(all, first[a], a, 0, newest_time)'
           /\ (\A s \in ToSet(all) : Time(s) # None =>
                 newest_time # None /\ Time(s) >= Cutoff(newest_time))'
<1>1. chain' = chain /\ untimed' = untimed /\ newest_time' = Newest
  BY DEF Collect, world
<1>2. Cutoff(newest_time)' = Cutoff(Newest) /\ \A s : Time(s)' = Time(s)
  BY <1>1 DEF Cutoff, OrZero, Time
<1>3. /\ ToSet(all') = ToSet(all) \cup
            {s \in ToSet(Page) : OrZero(Time(s)) >= Cutoff(Newest)}
      /\ \A a \in Account : a # acct => first'[a] = first[a]
  BY CollectCovers
<1>4. ASSUME NEW a \in Account, a # acct, stop'[a] = stop[a],
             stop[a] \in {"exhausted", "past"}
      PROVE  Covers(all, first[a], a, 0, newest_time)'
  <2>1. ToSet(all) \subseteq ToSet(all')
    BY <1>3
  <2>. QED
    BY <1>1, <1>2, <1>3, <1>4, <2>1, CutoffIs, StaysCovered
<1>5. ASSUME NEW s \in ToSet(all'), Time(s) # None
      PROVE  Newest # None /\ Time(s) >= Cutoff(Newest)
  <2>1. CASE s \in ToSet(all)
    <3>1. newest_time # None /\ Time(s) >= Cutoff(newest_time)
      BY <1>5, <2>1 DEF WindowInv
    <3>. QED
      BY <3>1, NewestIs
  <2>2. CASE s \in ToSet(Page) /\ OrZero(Time(s)) >= Cutoff(Newest)
    <3>1. Time(s) \in Times(Page)
      BY <1>5, <2>2 DEF Times
    <3>. QED
      BY <1>5, <2>2, <3>1, NewestIs DEF OrZero
  <2>. QED
    BY <1>3, <1>5, <2>1, <2>2
<1>. QED
  BY <1>1, <1>2, <1>4, <1>5, NewestIs

\* A page past the window: everything below it is older than its oldest.
LEMMA PageLastStep ==
    ASSUME Types, InOrder, WindowInv, PageLast
    PROVE  Types' /\ InOrder' /\ WindowInv'
<1>. DEFINE why == IF ~PastWindow THEN "capped"
                   ELSE IF Times(Page) = {} THEN "untimed" ELSE "past"
<1>1. /\ pc = "page" /\ Page # <<>> /\ Collect /\ NextAccount(why)
      /\ why \in Why /\ UNCHANGED world /\ chain' = chain
  BY DEF PageLast, world, Why
<1>2. /\ why = "past" => PastWindow /\ Times(Page) # {}
      /\ why # "exhausted"
  OBVIOUS
<1>. HIDE DEF why
<1>3. Types'
  <2>1. newest_time' \in {t \in Nat : t >= Genesis} \cup {None}
    BY <1>1, CollectKeeps
  <2>2. /\ all' \in Seq(Nat) /\ \A i \in DOMAIN all' : all'[i] \in DOMAIN chain
        /\ first' \in [Account -> Nat] /\ \A a \in Account : first'[a] <= Len(chain)
    BY <1>1, CollectCovers
  <2>3. chain' \in Seq([slot : Nat, touches : SUBSET Account])
    BY <1>1 DEF Types
  <2>. QED
    BY <1>1, <2>1, <2>2, <2>3, NextAccountIs DEF Types
<1>4. InOrder'
  BY <1>1 DEF InOrder
<1>5. ASSUME NEW a \in Account, stop'[a] \in {"exhausted", "past"}
      PROVE  Covers(all, first[a], a, 0, newest_time)'
  <2>1. CASE a # acct
    <3>1. stop'[a] = stop[a]
      BY <1>1, <2>1, NextAccountIs
    <3>. QED
      BY <1>1, <1>5, <2>1, <3>1, CollectKeeps
  <2>2. CASE a = acct
    <3>1. why = "past"
      BY <1>1, <1>2, <1>5, <2>2, NextAccountIs
    <3>2. SUFFICES ASSUME NEW s \in 1..first'[acct], acct \in chain[s].touches,
                          Time(s) # None, Time(s) >= Cutoff(Newest)
                   PROVE  s \in ToSet(all')
      BY <1>1, <2>2, CollectKeeps DEF Covers
    <3>3. Covers(all', first'[acct], acct, Last(Page), Newest)
      BY <1>1, CollectCovers
    <3>4. CASE s >= Last(Page)
      BY <3>2, <3>3, <3>4 DEF Covers
    <3>5. CASE ~(s >= Last(Page))
      <4>1. Oldest \in Times(Page) /\ Oldest < Cutoff(Newest)
        BY <1>2, <3>1, NewestIs DEF PastWindow
      <4>2. PICK t \in ToSet(Page) : Oldest = Time(t) /\ Time(t) # None
        BY <4>1 DEF Times
      <4>3. t \in DOMAIN chain /\ t >= Last(Page) /\ Last(Page) \in DOMAIN chain
        BY <1>1, PageIs DEF ToSet
      <4>4. DOMAIN chain = 1..Len(chain) /\ Len(chain) \in Nat
        BY DEF Types
      <4>5. s \in DOMAIN chain
        <5>1. first'[acct] \in Nat /\ first'[acct] <= Len(chain)
          BY <1>1, <2>2, CollectCovers
        <5>. QED
          BY <4>4, <5>1
      <4>6. s < t
        BY <3>5, <4>3, <4>4, <4>5
      <4>7. chain[s].slot <= chain[t].slot
        BY <4>3, <4>5, <4>6 DEF InOrder
      <4>8. \A u \in DOMAIN chain : chain[u].slot \in Nat
        <5>. DEFINE E == [slot : Nat, touches : SUBSET Account]
        <5>1. chain \in Seq(E) /\ \A x \in E : x.slot \in Nat
          BY DEF Types
        <5>. HIDE DEF E
        <5>. QED
          BY <5>1
      <4>9. Time(s) <= Time(t)
        <5>1. Time(s) = Genesis + chain[s].slot /\ Time(t) = Genesis + chain[t].slot
          BY <3>2, <4>2, <4>3, <4>5, TimeIs
        <5>. QED
          BY <4>3, <4>5, <4>7, <4>8, <5>1, Numbers
      <4>10. Time(s) \in Nat /\ Time(t) \in Nat /\ Cutoff(Newest) \in Int
        BY <3>2, <4>2, <4>3, <4>5, TimeIs, CutoffIs
      <4>. QED
        BY <3>2, <4>1, <4>2, <4>9, <4>10
    <3>. QED
      BY <3>4, <3>5
  <2>. QED
    BY <2>1, <2>2
<1>6. (\A s \in ToSet(all) : Time(s) # None =>
         newest_time # None /\ Time(s) >= Cutoff(newest_time))'
  BY <1>1, CollectKeeps
<1>7. /\ (pc = "page" => \A a \in Account : a >= acct => stop[a] = "none")'
      /\ (pc = "page" => before = None)'
  BY <1>1, NextAccountIs
<1>. QED
  BY <1>3, <1>4, <1>5, <1>6, <1>7 DEF WindowInv

\* The cursor moves to the page's last entry.
LEMMA PageOnStep ==
    ASSUME Types, InOrder, WindowInv, PageOn
    PROVE  Types' /\ InOrder' /\ WindowInv'
<1>1. /\ pc = "page" /\ Page # <<>> /\ Collect /\ UNCHANGED world /\ chain' = chain
      /\ got' = got + Len(Page) /\ before' = Last(Page)
      /\ pc' = pc /\ acct' = acct /\ stop' = stop
  BY DEF PageOn, world
<1>2. before' \in Nat /\ before' # None /\ got' \in Nat /\ got' # 0
  <2>1. Last(Page) \in DOMAIN chain /\ Page \in Seq(Listed)
    BY <1>1, PageIs
  <2>2. Last(Page) \in Nat
    BY <2>1 DEF Types
  <2>3. Len(Page) \in Nat /\ Len(Page) # 0
    BY <1>1, <2>1
  <2>4. got \in Nat
    BY DEF Types
  <2>. QED
    BY <1>1, <2>2, <2>3, <2>4, NoneAssumption
<1>3. Types'
  <2>1. newest_time' \in {t \in Nat : t >= Genesis} \cup {None}
    BY <1>1, CollectKeeps
  <2>2. /\ all' \in Seq(Nat) /\ \A i \in DOMAIN all' : all'[i] \in DOMAIN chain
        /\ first' \in [Account -> Nat] /\ \A a \in Account : first'[a] <= Len(chain)
    BY <1>1, CollectCovers
  <2>3. chain' \in Seq([slot : Nat, touches : SUBSET Account])
    BY <1>1 DEF Types
  <2>. QED
    BY <1>1, <1>2, <2>1, <2>2, <2>3 DEF Types
<1>4. InOrder'
  BY <1>1 DEF InOrder
<1>5. Covers(all, first[acct], acct, before, newest_time)'
  <2>1. Covers(all', first'[acct], acct, Last(Page), Newest)
    BY <1>1, CollectCovers
  <2>. QED
    BY <1>1, <2>1, CollectKeeps DEF Covers
<1>6. ASSUME NEW a \in Account, stop'[a] \in {"exhausted", "past"}
      PROVE  Covers(all, first[a], a, 0, newest_time)'
  <2>1. a # acct
    BY <1>1, <1>6 DEF WindowInv, Types, Account
  <2>. QED
    BY <1>1, <1>6, <2>1, CollectKeeps
<1>7. (\A s \in ToSet(all) : Time(s) # None =>
         newest_time # None /\ Time(s) >= Cutoff(newest_time))'
  BY <1>1, CollectKeeps
<1>8. (pc = "page" => \A a \in Account : a >= acct => stop[a] = "none")'
  BY <1>1 DEF WindowInv
<1>. QED
  BY <1>3, <1>4, <1>5, <1>6, <1>7, <1>8 DEF WindowInv

-----------------------------------------------------------------------------
(* Counting *)

\* Sorting keeps the entries, the later slots first.
LEMMA BySlotIs ==
    ASSUME Types
    PROVE  /\ BySlot \in Seq(Nat) /\ Len(BySlot) = Len(all)
           /\ ToSet(BySlot) = ToSet(all)
           /\ \A i, j \in DOMAIN BySlot :
                 i < j => chain[BySlot[i]].slot >= chain[BySlot[j]].slot
<1>. DEFINE D == DOMAIN all
            R == {p \in D \X D : Sooner(p[1], p[2])}
            e == Ordered(D, R)
            N == Cardinality(D)
<1>1. D = 1..Len(all) /\ Len(all) \in Nat /\ all \in Seq(Nat)
  BY DEF Types
<1>2. IsFiniteSet(D) /\ N = Len(all)
  <2>. DEFINE n == Len(all)
  <2>1. D = 1..n /\ n \in Nat
    BY <1>1
  <2>. HIDE DEF n, D
  <2>2. IsFiniteSet(1..n) /\ Cardinality(1..n) = n
    BY <2>1, FS_Interval
  <2>. QED
    BY <2>1, <2>2 DEF n
<1>3. \A i, j \in D : <<i, j>> \in R <=> Sooner(i, j)
  OBVIOUS
<1>4. \A i \in D : chain[all[i]].slot \in Nat
  <2>. DEFINE E == [slot : Nat, touches : SUBSET Account]
  <2>1. chain \in Seq(E) /\ \A x \in E : x.slot \in Nat
    BY DEF Types
  <2>2. \A i \in D : all[i] \in DOMAIN chain
    BY DEF Types
  <2>. HIDE DEF E, D
  <2>. QED
    BY <2>1, <2>2
<1>5. BySlot = [i \in D |-> all[e[i]]]
  BY DEF BySlot
<1>. HIDE DEF D, R, e, N
<1>6. IsOrder(D, R)
  <2>. DEFINE at(i) == chain[all[i]].slot
  <2>0. /\ D \subseteq Nat /\ \A i \in D : at(i) \in Nat
        /\ \A x, y \in D : Sooner(x, y) <=> (\/ at(x) > at(y)
                                             \/ at(x) = at(y) /\ x < y)
    BY <1>1, <1>4 DEF Sooner
  <2>. HIDE DEF at
  <2>1. \A x, y, z \in D : Sooner(x, y) /\ Sooner(y, z) => Sooner(x, z)
    BY <2>0
  <2>2. \A x \in D : ~Sooner(x, x)
    BY <2>0
  <2>3. \A x, y \in D : x # y => Sooner(x, y) \/ Sooner(y, x)
    BY <2>0
  <2>. QED
    BY <1>3, <2>1, <2>2, <2>3 DEF IsOrder
<1>7. /\ e \in [D -> D]
      /\ \A i \in D : \E n \in D : e[n] = i
      /\ \A m, n \in D : m < n => Sooner(e[m], e[n])
  <2>1. IsOrdered(D, R, e)
    BY <1>2, <1>6, OrderedIs DEF e
  <2>2. 1..N = D
    BY <1>1, <1>2
  <2>3. e \in [D -> D] /\ \A i \in D : \E n \in D : e[n] = i
    BY <2>1, <2>2 DEF IsOrdered, N
  <2>4. \A m, n \in D : m < n => <<e[m], e[n]>> \in R
    BY <2>1, <2>2 DEF IsOrdered, N
  <2>. QED
    BY <1>3, <2>3, <2>4
<1>8. \A i \in D : all[e[i]] \in Nat
  <2>1. \A j \in D : all[j] \in Nat
    BY <1>1
  <2>. QED
    BY <1>7, <2>1
<1>9. BySlot \in Seq(Nat) /\ Len(BySlot) = Len(all) /\ DOMAIN BySlot = D
  BY <1>1, <1>5, <1>8
<1>10. ToSet(BySlot) = ToSet(all)
  BY <1>5, <1>7, <1>9 DEF ToSet, D
<1>11. ASSUME NEW i \in D, NEW j \in D, i < j
       PROVE  chain[BySlot[i]].slot >= chain[BySlot[j]].slot
  <2>1. Sooner(e[i], e[j]) /\ e[i] \in D /\ e[j] \in D
    BY <1>7, <1>11
  <2>2. BySlot[i] = all[e[i]] /\ BySlot[j] = all[e[j]]
    BY <1>5
  <2>. QED
    BY <1>4, <2>1, <2>2 DEF Sooner
<1>. QED
  BY <1>9, <1>10, <1>11

\* Of a sorted list, Dedup keeps the first entry of every run: all there is, in
\* order, and no two neighbours alike.
LEMMA DedupIs ==
    ASSUME NEW b \in Seq(Nat)
    PROVE  /\ Dedup(b) \in Seq(Nat)
           /\ ToSet(Dedup(b)) = ToSet(b)
           /\ \E at \in [DOMAIN Dedup(b) -> DOMAIN b] :
                 /\ \A n \in DOMAIN Dedup(b) : Dedup(b)[n] = b[at[n]]
                 /\ \A m, n \in DOMAIN Dedup(b) : m < n => at[m] < at[n]
           /\ \A i \in DOMAIN Dedup(b) :
                 i + 1 \in DOMAIN Dedup(b) => Dedup(b)[i + 1] # Dedup(b)[i]
<1>. DEFINE K == {i \in DOMAIN b : i = 1 \/ b[i] # b[i - 1]}
            N == Cardinality(K)
            o == Only(b, K)
<1>1. o = Dedup(b) /\ K \in SUBSET DOMAIN b
  BY DEF Dedup
<1>2. /\ DOMAIN b = 1..Len(b) /\ Len(b) \in Nat
      /\ \A i \in DOMAIN b : i \in K \/ (i # 1 /\ b[i] = b[i - 1])
      /\ \A i \in K : i # 1 => b[i] # b[i - 1]
  OBVIOUS
<1>. HIDE DEF K
<1>3. o \in Seq(Nat) /\ Len(o) = N /\ N \in Nat
  BY <1>1, OnlyIs
<1>4. ToSet(o) = {b[i] : i \in K}
  BY <1>1, OnlyHas
<1>5. PICK at \in [1..N -> K] :
         /\ \A n \in 1..N : o[n] = b[at[n]]
         /\ \A m, n \in 1..N : m < n => at[m] < at[n]
         /\ \A i \in K : \E n \in 1..N : at[n] = i
  <2>1. \E at \in [1..N -> K] :
           /\ \A n \in 1..N : Only(b, K)[n] = b[at[n]]
           /\ \A m, n \in 1..N : m < n => at[m] < at[n]
           /\ \A i \in K : \E n \in 1..N : at[n] = i
    <3>1. b \in Seq(Nat) /\ K \in SUBSET DOMAIN b
      BY <1>1
    <3>2. /\ Only(b, K) \in Seq(Nat)
          /\ Len(Only(b, K)) = Cardinality(K)
          /\ \E at \in [1..Cardinality(K) -> K] :
                /\ \A n \in 1..Cardinality(K) : Only(b, K)[n] = b[at[n]]
                /\ \A m, n \in 1..Cardinality(K) : m < n => at[m] < at[n]
                /\ \A i \in K : \E n \in 1..Cardinality(K) : at[n] = i
          /\ Cardinality(K) \in Nat
      BY <3>1, OnlyIs, Zenon
    <3>. QED
      BY <3>2
  <2>. QED
    BY <2>1
<1>. HIDE DEF o, N
<1>6. DOMAIN o = 1..N
  BY <1>3
<1>7. ASSUME NEW i \in DOMAIN b
      PROVE  \E m \in K : b[m] = b[i]
  <2>. DEFINE T == {j \in DOMAIN b : b[j] = b[i]}
  <2>1. T \subseteq Nat /\ T # {}
    BY <1>2
  <2>2. PICK m \in T : \A j \in T : m <= j
    BY <2>1, LeastNatural
  <2>3. m \in DOMAIN b /\ b[m] = b[i]
    OBVIOUS
  <2>4. CASE m = 1
    BY <1>2, <2>3, <2>4
  <2>5. CASE m # 1
    <3>1. m - 1 \in DOMAIN b /\ ~(m <= m - 1)
      BY <1>2, <2>3, <2>5
    <3>2. b[m - 1] # b[m]
      BY <2>2, <2>3, <3>1
    <3>. QED
      BY <1>2, <2>3, <3>2
  <2>. QED
    BY <2>4, <2>5
<1>8. ToSet(o) = ToSet(b)
  BY <1>1, <1>4, <1>7 DEF ToSet
<1>9. ASSUME NEW i \in 1..N, i + 1 \in 1..N
      PROVE  o[i + 1] # o[i]
  <2>. DEFINE p == at[i]
              q == at[i + 1]
              T == {r \in DOMAIN b : p <= r /\ r < q /\ b[r] # b[p]}
  <2>1. p \in K /\ q \in K /\ p < q /\ o[i] = b[p] /\ o[i + 1] = b[q]
    BY <1>3, <1>5, <1>9
  <2>2. p \in 1..Len(b) /\ q \in 1..Len(b)
    BY <1>1, <1>2, <2>1
  <2>. HIDE DEF p, q
  <2>3. T = {}
    <3>1. SUFFICES ASSUME T # {}
                   PROVE  FALSE
      OBVIOUS
    <3>2. T \subseteq Nat
      BY <1>2
    <3>3. PICK m \in T : \A r \in T : m <= r
      BY <3>1, <3>2, LeastNatural
    <3>4. m \in DOMAIN b /\ p <= m /\ m < q /\ b[m] # b[p]
      OBVIOUS
    <3>5. p < m /\ m - 1 \in DOMAIN b /\ p <= m - 1 /\ m - 1 < q /\ ~(m <= m - 1)
      BY <1>2, <2>2, <3>4
    <3>6. b[m - 1] = b[p]
      BY <3>3, <3>5
    <3>7. m \in K
      BY <1>2, <3>4, <3>6
    <3>8. PICK n \in 1..N : at[n] = m
      BY <1>5, <3>7
    <3>9. ~(n <= i) /\ ~(i + 1 <= n)
      <4>1. n < i => at[n] < p
        BY <1>5 DEF p
      <4>2. i + 1 < n => q < at[n]
        BY <1>5, <1>9 DEF q
      <4>3. n = i => m = p
        BY <3>8 DEF p
      <4>4. n = i + 1 => m = q
        BY <3>8 DEF q
      <4>5. m \in Nat /\ p \in Nat /\ q \in Nat
        BY <1>2, <2>2, <3>4
      <4>. QED
        BY <1>3, <3>4, <3>5, <3>8, <4>1, <4>2, <4>3, <4>4, <4>5
    <3>. QED
      BY <1>3, <3>9
  <2>4. q # 1 /\ q - 1 \in DOMAIN b /\ p <= q - 1 /\ q - 1 < q
    BY <1>2, <2>1, <2>2
  <2>5. b[q - 1] = b[p]
    BY <2>3, <2>4
  <2>. QED
    BY <1>2, <2>1, <2>4, <2>5
<1>10. at \in [DOMAIN o -> DOMAIN b]
  BY <1>1, <1>5, <1>6
<1>11. /\ \E g \in [DOMAIN o -> DOMAIN b] :
             /\ \A n \in DOMAIN o : o[n] = b[g[n]]
             /\ \A m, n \in DOMAIN o : m < n => g[m] < g[n]
       /\ \A i \in DOMAIN o : i + 1 \in DOMAIN o => o[i + 1] # o[i]
  BY <1>5, <1>6, <1>9, <1>10
<1>. QED
  BY <1>1, <1>3, <1>8, <1>11

\* Equal entries are in one slot; so is what stands between them, and no two
\* neighbours are alike.
LEMMA SortStep ==
    ASSUME Types, InOrder, WindowInv, Sort
    PROVE  Types' /\ InOrder' /\ WindowInv' /\ OnceUnlessInterleaved'
<1>1. /\ chain' = chain /\ untimed' = untimed /\ newest_time' = newest_time
      /\ pc' = "sample" /\ all' = Dedup(BySlot)
      /\ UNCHANGED <<acct, before, got, first, stop>>
  BY DEF Sort, cursor, history
<1>2. /\ BySlot \in Seq(Nat)
      /\ ToSet(BySlot) = ToSet(all)
      /\ \A i, j \in DOMAIN BySlot :
            i < j => chain[BySlot[i]].slot >= chain[BySlot[j]].slot
  BY BySlotIs
<1>3. /\ all' \in Seq(Nat)
      /\ ToSet(all') = ToSet(all)
      /\ \A i \in DOMAIN all' : i + 1 \in DOMAIN all' => all'[i + 1] # all'[i]
  BY <1>1, <1>2, DedupIs
<1>4. PICK at \in [DOMAIN all' -> DOMAIN BySlot] :
         /\ \A n \in DOMAIN all' : all'[n] = BySlot[at[n]]
         /\ \A m, n \in DOMAIN all' : m < n => at[m] < at[n]
  BY <1>1, <1>2, DedupIs
<1>5. \A i \in DOMAIN all' : all'[i] \in DOMAIN chain
  <2>1. \A s \in ToSet(all) : s \in DOMAIN chain
    BY DEF Types, ToSet
  <2>2. \A i \in DOMAIN all' : all'[i] \in ToSet(all')
    BY DEF ToSet
  <2>. QED
    BY <1>3, <2>1, <2>2
<1>6. Types'
  BY <1>1, <1>3, <1>5 DEF Types
<1>7. InOrder'
  BY <1>1 DEF InOrder
<1>8. /\ Cutoff(newest_time)' = Cutoff(newest_time) /\ Cutoff(newest_time) \in Int
      /\ \A s : Time(s)' = Time(s)
  BY <1>1, CutoffIs DEF Cutoff, OrZero, Time
<1>9. WindowInv'
  <2>1. ASSUME NEW a \in Account, stop'[a] \in {"exhausted", "past"}
        PROVE  Covers(all, first[a], a, 0, newest_time)'
    BY <1>1, <1>3, <1>8, <2>1, StaysCovered
  <2>2. (\A s \in ToSet(all) : Time(s) # None =>
           newest_time # None /\ Time(s) >= Cutoff(newest_time))'
    BY <1>1, <1>3, <1>8 DEF WindowInv
  <2>. QED
    BY <1>1, <2>1, <2>2 DEF WindowInv
<1>10. \A i, j \in DOMAIN all' :
          i < j => chain[all'[i]].slot >= chain[all'[j]].slot
  BY <1>2, <1>4
<1>11. \A i \in DOMAIN all' : chain[all'[i]].slot \in Nat
  <2>. DEFINE E == [slot : Nat, touches : SUBSET Account]
  <2>1. chain \in Seq(E) /\ \A x \in E : x.slot \in Nat
    BY DEF Types
  <2>. HIDE DEF E
  <2>. QED
    BY <1>5, <2>1
<1>12. ASSUME NEW i \in DOMAIN all', NEW j \in DOMAIN all', i < j, all'[i] = all'[j]
       PROVE  \E k \in i + 1..j - 1 :
                 all'[k] # all'[i] /\ chain[all'[k]].slot = chain[all'[i]].slot
  <2>1. DOMAIN all' = 1..Len(all') /\ Len(all') \in Nat
    BY <1>3
  <2>2. i + 1 \in DOMAIN all' /\ i < i + 1 /\ i + 1 <= j
    BY <1>12, <2>1
  <2>3. all'[i + 1] # all'[i]
    BY <1>3, <2>2
  <2>4. i + 1 < j /\ i + 1 \in i + 1..j - 1
    BY <1>12, <2>1, <2>2, <2>3
  <2>5. /\ chain[all'[i]].slot >= chain[all'[i + 1]].slot
        /\ chain[all'[i + 1]].slot >= chain[all'[j]].slot
    BY <1>10, <2>2, <2>4
  <2>6. chain[all'[i + 1]].slot = chain[all'[i]].slot
    BY <1>11, <1>12, <2>2, <2>5
  <2>. QED
    BY <2>3, <2>4, <2>6
<1>13. OnceUnlessInterleaved'
  BY <1>1, <1>12 DEF OnceUnlessInterleaved
<1>. QED
  BY <1>6, <1>7, <1>9, <1>13

-----------------------------------------------------------------------------
(* Sampling *)

\* The first entries of a list, at most n.
LEMMA FirstIs ==
    ASSUME NEW s \in Seq(Nat), NEW n \in Nat
    PROVE  /\ First(s, n) \in Seq(Nat)
           /\ Len(First(s, n)) <= n
           /\ s # <<>> /\ n # 0 => First(s, n) # <<>> /\ First(s, n)[1] = s[1]
<1>. DEFINE k == IF n < Len(s) THEN n ELSE Len(s)
<1>1. k \in Nat /\ k <= n /\ k <= Len(s) /\ (s # <<>> /\ n # 0 => k # 0)
  OBVIOUS
<1>2. First(s, n) = SubSeq(s, 1, k)
  BY DEF First
<1>. HIDE DEF k
<1>3. /\ First(s, n) \in Seq(Nat) /\ Len(First(s, n)) = k
      /\ \A i \in 1..k : First(s, n)[i] = s[i]
  BY <1>1, <1>2
<1>4. ASSUME k # 0
      PROVE  First(s, n) # <<>> /\ First(s, n)[1] = s[1]
  <2>1. 1 \in 1..k
    BY <1>1, <1>4
  <2>. QED
    BY <1>3, <1>4, <2>1
<1>. QED
  BY <1>1, <1>3, <1>4

\* The reverts get at least half of the sample, the successes the other half.
LEMMA SampleStep ==
    ASSUME Types, Sample
    PROVE  SampleOfBoth'
<1>. DEFINE S == {i \in DOMAIN all : all[i] \notin failed}
            R == {i \in DOMAIN all : all[i] \in failed}
            good == Succeeded(all)
            bad == Reverted(all)
            succ == First(good, Share)
            rest == SampleSize - Len(succ)
            rev == First(bad, rest)
<1>1. all \in Seq(Nat) /\ S \in SUBSET DOMAIN all /\ R \in SUBSET DOMAIN all
  BY DEF Types
<1>2. /\ good \in Seq(Nat) /\ \A x \in ToSet(good) : x \notin failed
      /\ bad \in Seq(Nat) /\ \A x \in ToSet(bad) : x \in failed
  <2>1. good = Only(all, S) /\ bad = Only(all, R)
    BY DEF Succeeded, Reverted
  <2>2. /\ Only(all, S) \in Seq(Nat) /\ ToSet(Only(all, S)) = {all[i] : i \in S}
        /\ Only(all, R) \in Seq(Nat) /\ ToSet(Only(all, R)) = {all[i] : i \in R}
    BY <1>1, OnlyIs, OnlyHas
  <2>3. \A x \in {all[i] : i \in S} : x \notin failed
    OBVIOUS
  <2>4. \A x \in {all[i] : i \in R} : x \in failed
    OBVIOUS
  <2>. HIDE DEF S, R, good, bad
  <2>. QED
    BY <2>1, <2>2, <2>3, <2>4
<1>3. /\ good' = good /\ bad' = bad /\ all' = all /\ failed' = failed
      /\ pc' = "done" /\ sample' = succ \o rev
  BY DEF Sample, world, Succeeded, Reverted
<1>. HIDE DEF S, R, good, bad
<1>4. /\ Share \in Nat /\ Share <= SampleSize
      /\ SampleSize >= 2 => Share # 0 /\ Share < SampleSize
  BY Numbers DEF Share
<1>5. /\ succ \in Seq(Nat) /\ Len(succ) <= Share
      /\ good # <<>> /\ Share # 0 => succ # <<>> /\ succ[1] = good[1]
  BY <1>2, <1>4, FirstIs
<1>. HIDE DEF succ
<1>6. rest \in Nat /\ (SampleSize >= 2 => rest # 0) /\ Len(succ) + rest = SampleSize
  BY <1>4, <1>5, Numbers
<1>. HIDE DEF rest
<1>7. /\ rev \in Seq(Nat) /\ Len(rev) <= rest
      /\ bad # <<>> /\ rest # 0 => rev # <<>> /\ rev[1] = bad[1]
  BY <1>2, <1>6, FirstIs
<1>. HIDE DEF rev
<1>8. /\ sample' \in Seq(Nat) /\ Len(sample') <= SampleSize
      /\ succ # <<>> => 1 \in DOMAIN sample' /\ sample'[1] = succ[1]
      /\ rev # <<>> => /\ Len(succ) + 1 \in DOMAIN sample'
                       /\ sample'[Len(succ) + 1] = rev[1]
  <2>1. /\ Len(succ) \in Nat /\ Len(rev) \in Nat
        /\ sample' \in Seq(Nat) /\ Len(sample') = Len(succ) + Len(rev)
    BY <1>3, <1>5, <1>7
  <2>2. Len(sample') <= SampleSize
    BY <1>6, <1>7, <2>1, Numbers
  <2>3. succ # <<>> => 1 \in DOMAIN sample' /\ sample'[1] = succ[1]
    BY <1>3, <1>5, <1>7
  <2>4. rev # <<>> => /\ Len(succ) + 1 \in DOMAIN sample'
                      /\ sample'[Len(succ) + 1] = rev[1]
    BY <1>3, <1>5, <1>7
  <2>. QED
    BY <2>1, <2>2, <2>3, <2>4
<1>9. /\ good # <<>> => good[1] \notin failed
      /\ bad # <<>> => bad[1] \in failed
  BY <1>2 DEF ToSet
<1>10. /\ (\E i \in DOMAIN sample' : sample'[i] \notin failed)
             => Succeeded(sample)' # <<>>
       /\ (\E i \in DOMAIN sample' : sample'[i] \in failed)
             => Reverted(sample)' # <<>>
  <2>. DEFINE s == sample'
              Sn == {i \in DOMAIN s : s[i] \notin failed}
              Rn == {i \in DOMAIN s : s[i] \in failed}
  <2>1. Succeeded(sample)' = Only(s, Sn) /\ Reverted(sample)' = Only(s, Rn)
    BY <1>3 DEF Succeeded, Reverted
  <2>2. s \in Seq(Nat) /\ Sn \in SUBSET DOMAIN s /\ Rn \in SUBSET DOMAIN s
    BY <1>8
  <2>3. /\ Only(s, Sn) = <<>> <=> Sn = {}
        /\ Only(s, Rn) = <<>> <=> Rn = {}
    BY <2>2, OnlyHas
  <2>. QED
    BY <2>1, <2>3
<1>11. ASSUME SampleSize >= 2
       PROVE  /\ good # <<>> => Succeeded(sample)' # <<>>
              /\ bad # <<>> => Reverted(sample)' # <<>>
  BY <1>4, <1>5, <1>6, <1>7, <1>8, <1>9, <1>10, <1>11
<1>12. Succeeded(all)' = good /\ Reverted(all)' = bad
  BY <1>3 DEF good, bad
<1>. QED
  BY <1>3, <1>8, <1>11, <1>12 DEF SampleOfBoth

-----------------------------------------------------------------------------
(* The scan *)

IInv ==
    /\ Types
    /\ InOrder
    /\ WindowInv
    /\ OnceUnlessInterleaved
    /\ SampleOfBoth

LEMMA Initially == Init => IInv
<1>. SUFFICES ASSUME Init
              PROVE  IInv
  OBVIOUS
<1>1. /\ chain = <<>> /\ pc = "page" /\ acct = 1 /\ before = None /\ got = 0
      /\ newest_time = None /\ all = <<>>
      /\ first = [a \in Account |-> 0] /\ stop = [a \in Account |-> "none"]
  BY DEF Init
<1>2. Types
  <2>1. 1 \in Account
    BY Numbers DEF Account
  <2>2. chain \in Seq([slot : Nat, touches : SUBSET Account]) /\ Len(chain) = 0
    BY <1>1
  <2>3. all \in Seq(Nat) /\ DOMAIN all = {}
    BY <1>1
  <2>. QED
    BY <1>1, <2>1, <2>2, <2>3 DEF Types, Why
<1>3. InOrder /\ ToSet(all) = {}
  BY <1>1 DEF InOrder, ToSet
<1>4. WindowInv
  BY <1>1, <1>3 DEF WindowInv
<1>. QED
  BY <1>1, <1>2, <1>3, <1>4 DEF IInv, OnceUnlessInterleaved, SampleOfBoth, Counted

LEMMA Inductively == IInv /\ [Next]_vars => IInv'
<1>. SUFFICES ASSUME IInv, [Next]_vars
              PROVE  IInv'
  OBVIOUS
<1>1. ASSUME Types', InOrder', WindowInv', pc' \in {"page", "sort"}
      PROVE  IInv'
  BY <1>1 DEF IInv, OnceUnlessInterleaved, SampleOfBoth, Counted
<1>2. ASSUME NEW slot \in 0..MaxSlot, NEW touched \in SUBSET Account \ {{}},
             Land(slot, touched)
      PROVE  IInv'
  <2>1. pc' = "page"
    BY <1>2 DEF Land
  <2>. QED
    BY <1>1, <1>2, <2>1, LandStep DEF IInv
<1>3. CASE PageFails
  <2>1. pc' \in {"page", "sort"}
    BY <1>3 DEF PageFails, NextAccount
  <2>. QED
    BY <1>1, <1>3, <2>1, PageFailsStep DEF IInv
<1>4. CASE PageEmpty
  <2>1. pc' \in {"page", "sort"}
    BY <1>4 DEF PageEmpty, NextAccount
  <2>. QED
    BY <1>1, <1>4, <2>1, PageEmptyStep DEF IInv
<1>5. CASE PageLast
  <2>1. pc' \in {"page", "sort"}
    BY <1>5 DEF PageLast, NextAccount
  <2>. QED
    BY <1>1, <1>5, <2>1, PageLastStep DEF IInv
<1>6. CASE PageOn
  <2>1. pc' \in {"page", "sort"}
    BY <1>6 DEF PageOn
  <2>. QED
    BY <1>1, <1>6, <2>1, PageOnStep DEF IInv
<1>7. CASE Sort
  <2>1. SampleOfBoth'
    BY <1>7 DEF Sort, SampleOfBoth
  <2>. QED
    BY <1>7, <2>1, SortStep DEF IInv
<1>8. CASE Sample
  <2>1. /\ UNCHANGED <<chain, untimed, acct, before, got, newest_time, all, first, stop>>
        /\ pc = "sample" /\ pc' = "done"
    BY <1>8 DEF Sample, world, cursor, history
  <2>2. Types' /\ InOrder'
    BY <2>1 DEF IInv, Types, InOrder
  <2>3. WindowInv'
    BY <2>1 DEF IInv, WindowInv, Covers, Time, Cutoff, OrZero
  <2>4. OnceUnlessInterleaved'
    BY <2>1 DEF IInv, OnceUnlessInterleaved, Counted
  <2>. QED
    BY <1>8, <2>2, <2>3, <2>4, SampleStep DEF IInv
<1>9. CASE UNCHANGED vars
  <2>1. UNCHANGED <<chain, untimed, failed, pc, acct, before, got, newest_time, all,
                    sample, first, stop>>
    BY <1>9 DEF vars, world, cursor, history
  <2>2. Types' /\ InOrder'
    BY <2>1 DEF IInv, Types, InOrder
  <2>3. WindowInv'
    BY <2>1 DEF IInv, WindowInv, Covers, Time, Cutoff, OrZero
  <2>4. OnceUnlessInterleaved'
    BY <2>1 DEF IInv, OnceUnlessInterleaved, Counted
  <2>5. SampleOfBoth'
    BY <2>1 DEF IInv, SampleOfBoth, Succeeded, Reverted
  <2>. QED
    BY <2>2, <2>3, <2>4, <2>5 DEF IInv
<1>. QED
  BY <1>2, <1>3, <1>4, <1>5, <1>6, <1>7, <1>8, <1>9 DEF Next, Finished

\* What the paging has covered holds all along, for any growth of the chain.
THEOREM Inductive == Spec => []IInv
<1>. QED
  BY Initially, Inductively, PTL DEF Spec

\* Once sorted, the list has the whole window of every account whose paging came to
\* its end, although transactions landed between the pages, and nothing older
\* (signatures_for, src/src/verify.rs:180, and the loop of src/examples/scan.rs).
THEOREM WindowCounted == Spec => []CountsTheWindow
<1>1. ASSUME IInv
      PROVE  CountsTheWindow
  <2>1. SUFFICES ASSUME Counted
                 PROVE  CountsTheWindow
    BY DEF CountsTheWindow
  <2>2. ASSUME NEW a \in Account, stop[a] \in {"exhausted", "past"},
               NEW s \in 1..first[a], a \in chain[s].touches,
               Time(s) # None, Time(s) >= Cutoff(newest_time)
        PROVE  s \in ToSet(all)
    <3>1. s >= 0
      BY <1>1 DEF IInv, Types
    <3>. QED
      BY <1>1, <2>2, <3>1 DEF IInv, WindowInv, Covers
  <2>3. \A s \in ToSet(all) : Time(s) # None => Time(s) >= Cutoff(newest_time)
    BY <1>1 DEF IInv, WindowInv
  <2>. QED
    BY <2>2, <2>3 DEF CountsTheWindow
<1>. QED
  BY <1>1, Inductive, PTL

\* An entry counted twice has another transaction of its slot between the two
\* (sort_by_key and dedup_by, src/examples/scan.rs:66).
THEOREM DoublesInterleaved == Spec => []OnceUnlessInterleaved
<1>1. IInv => OnceUnlessInterleaved
  BY DEF IInv
<1>. QED
  BY <1>1, Inductive, PTL

\* A sample of two or more has a success and a revert whenever both were counted.
THEOREM SampleHasBoth == Spec => []SampleOfBoth
<1>1. IInv => SampleOfBoth
  BY DEF IInv
<1>. QED
  BY <1>1, Inductive, PTL
=============================================================================
