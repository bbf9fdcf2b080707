-------------------------- MODULE HttpClientProofs --------------------------
(***************************************************************************)
(* The safety of HttpClient for any number of calls, any sizes and any     *)
(* interleaving of the callers and the server: what a body of framed       *)
(* transactions is read back as, what a caller is told, the counters of    *)
(* the client, and the submission contract.                                *)
(***************************************************************************)
EXTENDS HttpClient, FiniteSetTheorems, WellFoundedInduction, NaturalsInduction, TLAPS

\* A set of natural numbers has a least element.
LEMMA LeastNatural ==
    ASSUME NEW T, T \subseteq Nat, T # {}
    PROVE  \E m \in T : \A k \in T : m <= k
<1>1. PICK m \in T : \A k \in T : <<k, m>> \notin OpToRel(<, Nat)
  BY WFMin, NatLessThanWellFounded, Zenon
<1>2. \A k \in Nat : k < m => <<k, m>> \in OpToRel(<, Nat)
  BY Zenon DEF OpToRel
<1>3. \A k \in T : ~(k < m)
  BY <1>1, <1>2, Zenon
<1>. QED
  BY <1>3

\* Induction from a to b: what holds of a and passes on holds of all in between.
LEMMA Induction ==
    ASSUME NEW a \in Nat, NEW b \in Nat, NEW P, a \in P,
           \A k \in a..b : k < b /\ k \in P => k + 1 \in P
    PROVE  \A k \in a..b : k \in P
<1>. DEFINE Bad == {k \in a..b : k \notin P}
<1>1. SUFFICES ASSUME Bad # {} PROVE FALSE
  OBVIOUS
<1>2. PICK m \in Bad : \A k \in Bad : m <= k
  <2>. HIDE DEF Bad
  <2>1. Bad \subseteq Nat
    BY DEF Bad
  <2>. QED
    BY <1>1, <2>1, LeastNatural
<1>3. m - 1 \in a..b /\ m - 1 < b /\ m - 1 \notin Bad /\ (m - 1) + 1 = m
  BY <1>2
<1>. QED
  BY <1>2, <1>3

-----------------------------------------------------------------------------
(* The frames of a body. *)

\* g maps i to the first i sequences of fs, one after the other.
IsFlat(fs, n, g) ==
    g = [i \in 1..n |-> IF i = 1 THEN fs[i] ELSE g[i - 1] \o fs[i]]

Flat(fs) == CHOOSE g : IsFlat(fs, Len(fs), g)

\* Where the sequence after the first m begins.
Offset(fs, m) == IF m = 0 THEN 0 ELSE Len(Flat(fs)[m])

\* The recursion that flattens fs has a solution on 1..n, for every n.
LEMMA FlatExists ==
    ASSUME NEW fs, NEW n \in Nat
    PROVE  \E g : IsFlat(fs, n, g)
<1>. DEFINE P == {m \in 0..n : \E g : IsFlat(fs, m, g)}
<1>1. 0 \in P
  <2>1. IsFlat(fs, 0, [i \in 1..0 |-> 0])
    BY DEF IsFlat
  <2>. QED
    BY <2>1
<1>2. ASSUME NEW m \in Nat, NEW g, IsFlat(fs, m, g)
      PROVE  \E h : IsFlat(fs, m + 1, h)
  <2>. DEFINE h == [i \in 1..(m + 1) |->
                      IF i <= m THEN g[i]
                      ELSE IF i = 1 THEN fs[i] ELSE g[i - 1] \o fs[i]]
  <2>1. ASSUME NEW i \in 1..(m + 1)
        PROVE  h[i] = IF i = 1 THEN fs[i] ELSE h[i - 1] \o fs[i]
    <3>1. CASE i <= m
      <4>1. i \in 1..m /\ h[i] = g[i]
        BY <3>1
      <4>2. i # 1 => i - 1 \in 1..m /\ h[i - 1] = g[i - 1]
        BY <3>1
      <4>3. g[i] = IF i = 1 THEN fs[i] ELSE g[i - 1] \o fs[i]
        BY <1>2, <4>1 DEF IsFlat
      <4>. QED
        BY <4>1, <4>2, <4>3
    <3>2. CASE i = m + 1
      BY <3>2
    <3>. QED
      BY <3>1, <3>2
  <2>2. h = [i \in 1..(m + 1) |-> IF i = 1 THEN fs[i] ELSE h[i - 1] \o fs[i]]
    <3>1. h = [i \in 1..(m + 1) |-> h[i]]
      OBVIOUS
    <3>. HIDE DEF h
    <3>. QED
      BY <2>1, <3>1
  <2>. QED
    BY <2>2 DEF IsFlat
<1>3. \A m \in 0..n : m \in P
  <2>1. \A m \in 0..n : m < n /\ m \in P => m + 1 \in P
    BY <1>2
  <2>. HIDE DEF P
  <2>. QED
    BY <1>1, <2>1, Induction
<1>. QED
  BY <1>3

\* Flattening puts one sequence after the other.
LEMMA FlatUnfold ==
    ASSUME NEW fs \in Seq(Seq(Nat)), Len(fs) # 0
    PROVE  /\ Flat(fs)[1] = fs[1]
           /\ \A k \in 1..Len(fs) : k < Len(fs) =>
                 Flat(fs)[k + 1] = Flat(fs)[k] \o fs[k + 1]
           /\ FlattenSeq(fs) = Flat(fs)[Len(fs)]
<1>0. Len(fs) \in Nat
  OBVIOUS
<1>1. \E g : IsFlat(fs, Len(fs), g)
  BY <1>0, FlatExists
<1>2. IsFlat(fs, Len(fs), Flat(fs))
  BY <1>1 DEF Flat
<1>3. \A i \in 1..Len(fs) :
         Flat(fs)[i] = IF i = 1 THEN fs[i] ELSE Flat(fs)[i - 1] \o fs[i]
  BY <1>2 DEF IsFlat
<1>4. FlattenSeq(fs) = Flat(fs)[Len(fs)]
  BY DEF FlattenSeq, Flat, IsFlat
<1>5. Flat(fs)[1] = fs[1]
  <2>1. 1 \in 1..Len(fs)
    BY <1>0
  <2>. QED
    BY <1>3, <2>1
<1>6. ASSUME NEW k \in 1..Len(fs), k < Len(fs)
      PROVE  Flat(fs)[k + 1] = Flat(fs)[k] \o fs[k + 1]
  <2>1. k + 1 \in 1..Len(fs) /\ k + 1 # 1 /\ (k + 1) - 1 = k
    BY <1>0, <1>6
  <2>2. Flat(fs)[k + 1] = Flat(fs)[(k + 1) - 1] \o fs[k + 1]
    BY <1>3, <2>1
  <2>. QED
    BY <2>1, <2>2
<1>. QED
  BY <1>4, <1>5, <1>6

\* What comes out are bytes again.
LEMMA FlatType ==
    ASSUME NEW fs \in Seq(Seq(Nat)), Len(fs) # 0
    PROVE  \A n \in 1..Len(fs) : Flat(fs)[n] \in Seq(Nat)
<1>. DEFINE P == {k \in 1..Len(fs) : Flat(fs)[k] \in Seq(Nat)}
<1>0. Len(fs) \in Nat /\ 1 \in 1..Len(fs) /\ \A k \in 1..Len(fs) : fs[k] \in Seq(Nat)
  OBVIOUS
<1>1. 1 \in P
  <2>1. Flat(fs)[1] = fs[1]
    BY FlatUnfold
  <2>. QED
    BY <1>0, <2>1
<1>2. ASSUME NEW k \in 1..Len(fs), k < Len(fs), k \in P
      PROVE  k + 1 \in P
  <2>1. k + 1 \in 1..Len(fs)
    BY <1>0, <1>2
  <2>2. Flat(fs)[k + 1] = Flat(fs)[k] \o fs[k + 1]
    BY <1>2, FlatUnfold
  <2>3. Flat(fs)[k] \o fs[k + 1] \in Seq(Nat)
    BY <1>0, <1>2, <2>1
  <2>. QED
    BY <2>1, <2>2, <2>3
<1>3. \A k \in 1..Len(fs) : k \in P
  <2>. HIDE DEF P
  <2>. QED
    BY <1>0, <1>1, <1>2, Induction
<1>. QED
  BY <1>3

\* u begins with w.
Begins(w, u) == Len(w) <= Len(u) /\ \A i \in 1..Len(w) : u[i] = w[i]

\* What is put behind a sequence leaves its beginning alone.
LEMMA AppendKeeps ==
    ASSUME NEW u \in Seq(Nat), NEW v \in Seq(Nat), NEW w \in Seq(Nat), Begins(w, u)
    PROVE  Begins(w, u \o v)
<1>1. /\ Len(u) \in Nat /\ Len(v) \in Nat /\ Len(w) \in Nat
      /\ Len(u \o v) = Len(u) + Len(v) /\ Len(w) <= Len(u)
  BY DEF Begins
<1>2. ASSUME NEW i \in 1..Len(w)
      PROVE  (u \o v)[i] = w[i]
  <2>1. i \in 1..Len(u)
    BY <1>1
  <2>2. (u \o v)[i] = u[i]
    BY <2>1
  <2>. QED
    BY <2>2 DEF Begins
<1>3. Len(w) <= Len(u \o v)
  BY <1>1
<1>. QED
  BY <1>2, <1>3 DEF Begins

\* Later parts do not disturb what was put together before.
LEMMA FlatGrows ==
    ASSUME NEW fs \in Seq(Seq(Nat)), NEW m \in 1..Len(fs), NEW n \in m..Len(fs)
    PROVE  Begins(Flat(fs)[m], Flat(fs)[n])
<1>. DEFINE P == {k \in m..Len(fs) : Begins(Flat(fs)[m], Flat(fs)[k])}
<1>0. \A k \in 1..Len(fs) : fs[k] \in Seq(Nat) /\ Flat(fs)[k] \in Seq(Nat)
  <2>1. Len(fs) # 0
    OBVIOUS
  <2>. QED
    BY <2>1, FlatType
<1>1. m \in P
  BY <1>0 DEF Begins
<1>2. ASSUME NEW k \in m..Len(fs), k < Len(fs), k \in P
      PROVE  k + 1 \in P
  <2>1. k \in 1..Len(fs) /\ k + 1 \in 1..Len(fs) /\ k + 1 \in m..Len(fs) /\ Len(fs) # 0
    BY <1>2
  <2>2. Flat(fs)[k + 1] = Flat(fs)[k] \o fs[k + 1]
    BY <1>2, <2>1, FlatUnfold
  <2>3. /\ Flat(fs)[k] \in Seq(Nat) /\ fs[k + 1] \in Seq(Nat) /\ Flat(fs)[m] \in Seq(Nat)
        /\ Begins(Flat(fs)[m], Flat(fs)[k])
    BY <1>0, <1>2, <2>1
  <2>4. Begins(Flat(fs)[m], Flat(fs)[k] \o fs[k + 1])
    BY <2>3, AppendKeeps
  <2>. QED
    BY <2>1, <2>2, <2>4
<1>3. \A k \in m..Len(fs) : k \in P
  <2>1. m \in Nat /\ Len(fs) \in Nat
    OBVIOUS
  <2>. HIDE DEF P
  <2>. QED
    BY <1>1, <1>2, <2>1, Induction
<1>. QED
  BY <1>3

\* The sequence after the first m is found where the first m end.
LEMMA Decoded ==
    ASSUME NEW fs \in Seq(Seq(Nat)), NEW m \in Nat, m < Len(fs)
    PROVE  /\ Offset(fs, m) \in Nat
           /\ Offset(fs, m + 1) = Offset(fs, m) + Len(fs[m + 1])
           /\ FlattenSeq(fs) \in Seq(Nat)
           /\ Offset(fs, m + 1) <= Len(FlattenSeq(fs))
           /\ \A i \in 1..Len(fs[m + 1]) :
                 FlattenSeq(fs)[Offset(fs, m) + i] = fs[m + 1][i]
<1>1. /\ m + 1 \in 1..Len(fs) /\ Len(fs) \in 1..Len(fs) /\ Len(fs) \in (m + 1)..Len(fs)
      /\ Len(fs) # 0 /\ fs[m + 1] \in Seq(Nat)
  OBVIOUS
<1>. DEFINE w == Flat(fs)[m + 1]
            v == fs[m + 1]
<1>2. w \in Seq(Nat) /\ v \in Seq(Nat) /\ FlattenSeq(fs) = Flat(fs)[Len(fs)]
  BY <1>1, FlatType, FlatUnfold
<1>3. FlattenSeq(fs) \in Seq(Nat)
  BY <1>1, <1>2, FlatType
<1>4. /\ Len(w) <= Len(FlattenSeq(fs))
      /\ \A i \in 1..Len(w) : FlattenSeq(fs)[i] = w[i]
  BY <1>1, <1>2, FlatGrows DEF Begins
<1>5. /\ Offset(fs, m) \in Nat
      /\ Len(w) = Offset(fs, m) + Len(v)
      /\ \A i \in 1..Len(v) : w[Offset(fs, m) + i] = v[i]
  <2>1. CASE m = 0
    <3>0. m + 1 = 1
      BY <2>1
    <3>. HIDE DEF w, v
    <3>1. Flat(fs)[1] = fs[1]
      BY <1>1, FlatUnfold
    <3>2. w = v /\ Offset(fs, m) = 0
      BY <2>1, <3>0, <3>1 DEF Offset, w, v
    <3>. QED
      BY <1>2, <3>2
  <2>2. CASE m # 0
    <3>1. m \in 1..Len(fs) /\ m < Len(fs) /\ Len(fs) # 0
      BY <2>2
    <3>. DEFINE u == Flat(fs)[m]
    <3>2. u \in Seq(Nat) /\ w = u \o v
      BY <3>1, FlatType, FlatUnfold
    <3>3. Offset(fs, m) = Len(u)
      BY <2>2 DEF Offset
    <3>. HIDE DEF u, v, w
    <3>. QED
      BY <1>2, <3>2, <3>3
  <2>. QED
    BY <2>1, <2>2
<1>6. Offset(fs, m + 1) = Len(w)
  BY DEF Offset
<1>. HIDE DEF w, v
<1>7. \A i \in 1..Len(v) : Offset(fs, m) + i \in 1..Len(w)
  <2>1. Len(v) \in Nat /\ Offset(fs, m) \in Nat /\ Len(w) = Offset(fs, m) + Len(v)
    BY <1>2, <1>5
  <2>. HIDE DEF Offset
  <2>. QED
    BY <2>1
<1>. QED
  BY <1>3, <1>4, <1>5, <1>6, <1>7 DEF v

-----------------------------------------------------------------------------
(* The inductive invariant. *)

Outcomes == {"pending", "accepted", "rejected", "transport", "timeout", "decode",
             "serialize", "abandoned"} \cup Refusals

Types ==
    /\ op \in [Call -> {"send", "rpc", "batch"}]
    /\ txs \in [Call -> Seq(Nat)]
    /\ pc \in [Call -> PC]
    /\ left \in [Call -> {0, 1}]
    /\ at \in [Call -> Nat]
    /\ forwarded \in [Call -> Seq(Seq(Nat))]
    /\ answered \in [Call -> Status \cup {0}]
    /\ outcome \in [Call -> Outcomes]
    /\ stats \in [Counters -> Nat]

\* Where a call is, whether its request left, what was answered and what its
\* caller was told go together.
CallOk(c) ==
    /\ pc[c] = "done" <=> outcome[c] # "pending"
    /\ pc[c] \in {"idle", "request"} \/ outcome[c] \in {"rejected", "serialize"} =>
          left[c] = 0 /\ forwarded[c] = <<>>
    /\ pc[c] = "idle" => at[c] = 0
    /\ pc[c] = "idle" \/ outcome[c] \in {"rejected", "serialize"} => txs[c] = <<>>
    /\ pc[c] \in {"response", "refusal", "result"} => left[c] = 1
    /\ pc[c] \in {"idle", "request", "response"} => answered[c] = 0
    /\ pc[c] = "refusal" => answered[c] \in Status \ Success
    /\ pc[c] = "result" => answered[c] \in Success /\ op[c] = "rpc"
    /\ answered[c] # 0 => left[c] = 1
    /\ outcome[c] \in {"rejected", "serialize", "transport"} => answered[c] = 0
    /\ outcome[c] \in {"accepted", "rpc", "decode"} => answered[c] \in Success
    /\ outcome[c] \in Refusals \ {"rpc"} =>
          answered[c] \in Status \ Success /\ outcome[c] = FromStatus(answered[c])

CallInv == \A c \in Call : CallOk(c)

\* The frames of a batch.
Frames(c) ==
    [k \in DOMAIN txs[c] |-> <<txs[c][k] \div Byte, txs[c][k] % Byte>> \o Bytes(c, k)]

\* The server is where a frame ends, has forwarded what came before, and its
\* answer agrees with that.
TakenOk(c) ==
    /\ pc[c] # "idle" /\ outcome[c] \notin {"rejected", "serialize"} /\ op[c] # "batch" =>
          Len(txs[c]) = 1
    /\ \A k \in DOMAIN txs[c] : Fits(txs[c][k])
    /\ op[c] = "batch" => at[c] = Offset(Frames(c), Len(forwarded[c]))
    /\ Len(forwarded[c]) <= Len(txs[c])
    /\ \A k \in DOMAIN forwarded[c] : forwarded[c][k] = Bytes(c, k)
    /\ answered[c] \in {401, 429} \/ outcome[c] = "rpc" => forwarded[c] = <<>>
    /\ answered[c] = 400 => Len(forwarded[c]) < Len(txs[c])
    /\ (answered[c] \in Success /\ op[c] # "rpc") \/ outcome[c] = "accepted" =>
          Len(forwarded[c]) = Len(txs[c])

TakenInv == \A c \in Call : TakenOk(c)

\* The sets of calls that the counters count.
Started == {c \in Call : pc[c] # "idle"}
Unheard == Ended({"transport", "timeout"}) \ Answered(Status)
Refused == Answered(Status \ Success) \cup Ended({"rpc"})

\* The transactions of the calls of S, whose arguments are t.
Total(t, S) == Cardinality(UNION {{c} \X DOMAIN t[c] : c \in S})

\* What the code counts, to the call: the bounds of Ledger follow.
Exact ==
    /\ stats["submitted"] = Total(txs, Begun)
    /\ stats["accepted"] = Total(txs, Ended({"accepted"}))
    /\ stats["rejected_locally"] = Cardinality(Ended({"rejected"}))
    /\ stats["roundtrips"] = Cardinality(Answered(Status))
    /\ stats["rejected_by_server"] = Cardinality(Refused)
    /\ stats["transport_errors"] = Cardinality(Unheard)

IInv == Types /\ CallInv /\ TakenInv /\ IsFiniteSet(Started) /\ Exact

\* The limits and the lengths that callers try are natural numbers.
LEMMA Sizes ==
    /\ MinTx \in Nat /\ MaxTx \in Nat /\ MaxBatch \in Nat /\ MaxBody \in Nat
    /\ Byte \in Nat \ {0}
    /\ Lengths \subseteq Nat
BY SizeAssumption

\* A number is its quotient and its remainder.
LEMMA TwoBytes ==
    ASSUME NEW n \in Nat, NEW b \in Nat, b # 0,
           NEW q, q = n \div b, NEW r, r = n % b
    PROVE  q \in Nat /\ r \in Nat /\ q * b + r = n
<1>1. q \in Nat /\ r \in Nat
  OBVIOUS
<1>2. q * b + r = n
  OBVIOUS
<1>. QED
  BY <1>1, <1>2

\* Facts about sequences.
LEMMA FunctionIsSeq ==
    ASSUME NEW n \in Nat, NEW f \in [1..n -> Nat]
    PROVE  f \in Seq(Nat) /\ Len(f) = n
OBVIOUS

\* A stretch of n elements of a sequence.
LEMMA SubSeqAt ==
    ASSUME NEW s \in Seq(Nat), NEW a \in Nat, NEW n \in Nat, a + n <= Len(s)
    PROVE  /\ SubSeq(s, a + 1, a + n) \in Seq(Nat)
           /\ Len(SubSeq(s, a + 1, a + n)) = n
           /\ \A i \in 1..n : SubSeq(s, a + 1, a + n)[i] = s[a + i]
OBVIOUS

\* Sequences with the same elements are the same.
LEMMA SameSeq ==
    ASSUME NEW s \in Seq(Nat), NEW t \in Seq(Nat), Len(s) = Len(t),
           \A i \in 1..Len(s) : s[i] = t[i]
    PROVE  s = t
OBVIOUS

\* What a caller passes are lengths; only a batch has other than one.
LEMMA ArgumentType ==
    ASSUME NEW o \in {"send", "rpc", "batch"}, NEW lens \in Arguments(o)
    PROVE  lens \in Seq(Nat) /\ (o # "batch" => Len(lens) = 1)
<1>1. CASE o = "batch"
  <2>1. PICK n \in 0..(MaxBatch + 1) : lens \in [1..n -> Lengths]
    BY <1>1 DEF Arguments, BoundedSeq, SeqOf
  <2>2. n \in Nat
    BY Sizes
  <2>3. lens \in [1..n -> Nat]
    BY <2>1, Sizes
  <2>4. lens \in Seq(Nat)
    BY <2>2, <2>3, FunctionIsSeq
  <2>. QED
    BY <1>1, <2>4
<1>2. CASE o # "batch"
  <2>1. lens \in [1..1 -> Lengths]
    <3>1. {1} = 1..1
      OBVIOUS
    <3>. QED
      BY <1>2, <3>1 DEF Arguments
  <2>2. lens \in [1..1 -> Nat]
    BY <2>1, Sizes
  <2>. QED
    BY <2>2, FunctionIsSeq
<1>. QED
  BY <1>1, <1>2

\* The bytes of a transaction are as many as its length.
LEMMA BytesType ==
    ASSUME Types, NEW c \in Call, NEW k \in DOMAIN txs[c]
    PROVE  Bytes(c, k) \in Seq(Nat) /\ Len(Bytes(c, k)) = txs[c][k] /\ txs[c][k] \in Nat
<1>1. txs[c] \in Seq(Nat)
  BY DEF Types
<1>2. k \in Nat /\ txs[c][k] \in Nat
  BY <1>1
<1>. QED
  BY <1>2 DEF Bytes

\* The frames of a call are sequences of bytes, one for each transaction.
LEMMA FramesType ==
    ASSUME Types, NEW c \in Call
    PROVE  /\ Frames(c) \in Seq(Seq(Nat))
           /\ Len(Frames(c)) = Len(txs[c])
           /\ Frame(c) = FlattenSeq(Frames(c))
<1>1. txs[c] \in Seq(Nat)
  BY DEF Types
<1>2. ASSUME NEW k \in DOMAIN txs[c]
      PROVE  <<txs[c][k] \div Byte, txs[c][k] % Byte>> \o Bytes(c, k) \in Seq(Nat)
  <2>1. txs[c][k] \div Byte \in Nat /\ txs[c][k] % Byte \in Nat
    <3>1. txs[c][k] \in Nat /\ Byte \in Nat /\ Byte # 0
      BY BytesType, Sizes
    <3>. QED
      BY <3>1, TwoBytes
  <2>2. <<txs[c][k] \div Byte, txs[c][k] % Byte>> \in Seq(Nat)
    BY <2>1
  <2>. QED
    BY <2>2, BytesType
<1>3. DOMAIN txs[c] = 1..Len(txs[c]) /\ Len(txs[c]) \in Nat
  BY <1>1
<1>4. Frames(c) \in Seq(Seq(Nat)) /\ Len(Frames(c)) = Len(txs[c])
  BY <1>2, <1>3 DEF Frames
<1>. QED
  BY <1>4 DEF Frame, Frames

-----------------------------------------------------------------------------
(* The types, and what a call's state says. *)

\* Before the first call the types hold, and nothing is said or taken.
LEMMA InitTypes == Init => Types /\ CallInv /\ TakenInv
<1>. SUFFICES ASSUME Init PROVE Types /\ CallInv /\ TakenInv
  OBVIOUS
<1>1. Types
  BY DEF Init, Types, PC, Outcomes, Refusals
<1>2. CallInv
  BY DEF Init, CallInv, CallOk, Success, Refusals
<1>3. TakenInv
  BY DEF Init, TakenInv, TakenOk, Success, Offset
<1>. QED
  BY <1>1, <1>2, <1>3

\* What is left to show of the types after a step of one call.
LEMMA GotoTypes ==
    ASSUME Types, NEW c \in Call, NEW label \in PC, Goto(c, label)
    PROVE  pc' \in [Call -> PC] /\ outcome' \in [Call -> Outcomes]
BY DEF Types, Goto

\* A call that returns gets one of the outcomes.
LEMMA ReturnTypes ==
    ASSUME Types, NEW c \in Call, NEW result \in Outcomes, Return(c, result)
    PROVE  pc' \in [Call -> PC] /\ outcome' \in [Call -> Outcomes]
BY DEF Types, Return, PC

\* A counter that is added to stays a natural number.
LEMMA AddTypes ==
    ASSUME Types, NEW k \in Counters, NEW n \in Nat, Add(k, n)
    PROVE  stats' \in [Counters -> Nat]
BY DEF Types, Add

\* The server forwards the transaction at its place in the body, as the caller
\* passed it.
LEMMA Forwards ==
    ASSUME Types, TakenInv, CallInv, NEW c \in Call, Forward(c)
    PROVE  /\ Len(forwarded[c]) + 1 \in DOMAIN txs[c]
           /\ forwarded' = [forwarded EXCEPT
                 ![c] = Append(@, Bytes(c, Len(forwarded[c]) + 1))]
           /\ at' \in [Call -> Nat]
           /\ op[c] = "batch" =>
                 at' = [at EXCEPT ![c] = Offset(Frames(c), Len(forwarded[c]) + 1)]
           /\ op[c] # "batch" => UNCHANGED at
<1>. DEFINE m == Len(forwarded[c])
            k == m + 1
            body == Frame(c)
            len == body[at[c] + 1] * Byte + body[at[c] + 2]
<1>1. txs[c] \in Seq(Nat) /\ forwarded[c] \in Seq(Seq(Nat)) /\ m \in Nat
  BY DEF Types
<1>2. m < Len(txs[c])
  BY DEF Forward
<1>3. k \in DOMAIN txs[c] /\ txs[c][k] \in Nat
  BY <1>1, <1>2
<1>4. CASE op[c] = "batch"
  <2>1. /\ at' = [at EXCEPT ![c] = @ + 2 + len]
        /\ forwarded' = [forwarded EXCEPT
              ![c] = Append(@, SubSeq(body, at[c] + 3, at[c] + 2 + len))]
    BY <1>4 DEF Forward
  <2>. DEFINE frame == Frames(c)[k]
              hi == txs[c][k] \div Byte
              lo == txs[c][k] % Byte
  <2>2. /\ at[c] = Offset(Frames(c), m) /\ at[c] \in Nat
        /\ Offset(Frames(c), k) = at[c] + Len(frame)
        /\ body \in Seq(Nat)
        /\ at[c] + Len(frame) <= Len(body)
        /\ \A i \in 1..Len(frame) : body[at[c] + i] = frame[i]
    <3>1. at[c] = Offset(Frames(c), m)
      BY <1>4 DEF TakenInv, TakenOk
    <3>2. Frames(c) \in Seq(Seq(Nat)) /\ m < Len(Frames(c)) /\ body = FlattenSeq(Frames(c))
      BY <1>2, FramesType
    <3>. DEFINE fs == Frames(c)
    <3>. HIDE DEF m, body, fs
    <3>3. /\ Offset(fs, m) \in Nat
          /\ Offset(fs, m + 1) = Offset(fs, m) + Len(fs[m + 1])
          /\ FlattenSeq(fs) \in Seq(Nat)
          /\ Offset(fs, m + 1) <= Len(FlattenSeq(fs))
          /\ \A i \in 1..Len(fs[m + 1]) :
                FlattenSeq(fs)[Offset(fs, m) + i] = fs[m + 1][i]
      BY <1>1, <3>2, Decoded DEF fs
    <3>. QED
      BY <3>1, <3>2, <3>3 DEF fs
  <2>3. frame = <<hi, lo>> \o Bytes(c, k)
    BY <1>3 DEF Frames
  <2>4. Bytes(c, k) \in Seq(Nat) /\ Len(Bytes(c, k)) = txs[c][k]
    BY <1>3, BytesType
  <2>5. hi \in Nat /\ lo \in Nat /\ hi * Byte + lo = txs[c][k]
    <3>. DEFINE n == txs[c][k]
    <3>1. n \in Nat /\ Byte \in Nat /\ Byte # 0 /\ hi = n \div Byte /\ lo = n % Byte
      BY <1>3, Sizes
    <3>. HIDE DEF n, hi, lo
    <3>2. hi \in Nat /\ lo \in Nat /\ hi * Byte + lo = n
      BY <3>1, TwoBytes
    <3>. QED
      BY <3>2 DEF n
  <2>. HIDE DEF m, k, body, frame, hi, lo
  <2>6. /\ Len(frame) = 2 + txs[c][k]
        /\ frame[1] = hi /\ frame[2] = lo
        /\ \A i \in 1..txs[c][k] : frame[2 + i] = Bytes(c, k)[i]
    <3>1. <<hi, lo>> \in Seq(Nat) /\ Len(<<hi, lo>>) = 2
      BY <2>5
    <3>. QED
      BY <1>3, <2>3, <2>4, <3>1
  <2>7. body[at[c] + 1] = hi /\ body[at[c] + 2] = lo
    <3>1. 1 \in 1..Len(frame) /\ 2 \in 1..Len(frame)
      BY <1>3, <2>6
    <3>. QED
      BY <2>2, <2>6, <3>1
  <2>8. len = txs[c][k]
    BY <2>5, <2>7
  <2>. HIDE DEF len
  <2>9. SubSeq(body, at[c] + 3, at[c] + 2 + len) = Bytes(c, k)
    <3>. DEFINE a == at[c] + 2
                part == SubSeq(body, a + 1, a + len)
    <3>1. at[c] \in Nat /\ a \in Nat /\ len \in Nat /\ a + len <= Len(body)
      BY <1>3, <2>2, <2>6, <2>8
    <3>2. at[c] + 3 = a + 1 /\ at[c] + 2 + len = a + len
      BY <3>1
    <3>3. part \in Seq(Nat) /\ Len(part) = len /\ \A i \in 1..len : part[i] = body[a + i]
      <4>. HIDE DEF a
      <4>. QED
        BY <2>2, <3>1, SubSeqAt
    <3>4. ASSUME NEW i \in 1..len
          PROVE  part[i] = Bytes(c, k)[i]
      <4>0. i \in 1..txs[c][k] /\ i \in Nat
        BY <1>3, <2>8
      <4>1. 2 + i \in 1..Len(frame)
        BY <1>3, <2>6, <4>0
      <4>5. at[c] + (2 + i) = a + i
        BY <2>2, <4>0
      <4>. HIDE DEF a, part
      <4>2. part[i] = body[a + i] /\ body[at[c] + (2 + i)] = frame[2 + i]
        BY <2>2, <3>3, <4>1
      <4>3. frame[2 + i] = Bytes(c, k)[i]
        BY <2>6, <4>0
      <4>. QED
        BY <4>2, <4>3, <4>5
    <3>. HIDE DEF a, part
    <3>5. part = Bytes(c, k)
      BY <2>4, <2>8, <3>3, <3>4, SameSeq
    <3>. QED
      BY <3>2, <3>5 DEF part
  <2>10. at' = [at EXCEPT ![c] = Offset(Frames(c), k)]
    <3>0. at[c] \in Nat /\ len \in Nat /\ Len(frame) = 2 + len
      BY <1>3, <2>2, <2>6, <2>8
    <3>1. at[c] + 2 + len = at[c] + Len(frame)
      BY <3>0
    <3>2. at' = [at EXCEPT ![c] = at[c] + 2 + len]
      BY <2>1
    <3>. QED
      BY <2>2, <3>1, <3>2
  <2>11. at' \in [Call -> Nat]
    <3>1. Offset(Frames(c), k) \in Nat
      <4>1. Len(frame) \in Nat
        BY <2>6
      <4>. QED
        BY <2>2, <4>1
    <3>. QED
      BY <2>10, <3>1 DEF Types
  <2>. QED
    BY <1>3, <1>4, <2>1, <2>9, <2>10, <2>11 DEF m, k
<1>5. CASE op[c] # "batch"
  <2>1. forwarded' = [forwarded EXCEPT ![c] = <<Bytes(c, 1)>>] /\ UNCHANGED at
    BY <1>5 DEF Forward
  <2>2. Len(txs[c]) = 1
    <3>1. pc[c] # "idle" /\ outcome[c] \notin {"rejected", "serialize"}
      BY DEF Forward, CallInv, CallOk, Types
    <3>. QED
      BY <1>5, <3>1 DEF TakenInv, TakenOk
  <2>3. m = 0 /\ forwarded[c] = <<>>
    BY <1>1, <1>2, <2>2
  <2>4. Append(forwarded[c], Bytes(c, k)) = <<Bytes(c, 1)>>
    BY <2>3
  <2>. QED
    BY <1>3, <1>5, <2>1, <2>4 DEF Types
<1>. QED
  BY <1>4, <1>5

\* Every step keeps the types.
LEMMA TypeStep ==
    ASSUME Types, CallInv, TakenInv, [Next]_vars
    PROVE  Types'
<1>1. ASSUME NEW c \in Call, NEW o \in {"send", "rpc", "batch"},
             NEW lens \in Arguments(o), Begin(c, o, lens)
      PROVE  Types'
  <2>1. lens \in Seq(Nat) /\ Len(lens) \in Nat
    BY ArgumentType
  <2>2. pc' \in [Call -> PC] /\ outcome' \in [Call -> Outcomes]
    BY <1>1, GotoTypes DEF Begin, PC
  <2>3. stats' \in [Counters -> Nat]
    BY <1>1, <2>1, AddTypes DEF Begin, Counters
  <2>. QED
    BY <1>1, <2>1, <2>2, <2>3 DEF Types, Begin, server
<1>2. ASSUME NEW c \in Call, NEW o \in {"send", "rpc", "batch"},
             NEW lens \in Arguments(o), RejectLocally(c, o, lens)
      PROVE  Types'
  <2>1. pc' \in [Call -> PC] /\ outcome' \in [Call -> Outcomes]
    BY <1>2, ReturnTypes DEF RejectLocally, Outcomes
  <2>2. stats' \in [Counters -> Nat]
    BY <1>2, AddTypes DEF RejectLocally, Counters
  <2>. QED
    BY <1>2, <2>1, <2>2 DEF Types, RejectLocally, request, server
<1>12. ASSUME NEW c \in Call, Unserializable(c)
       PROVE  Types'
  <2>1. pc' \in [Call -> PC] /\ outcome' \in [Call -> Outcomes]
    BY <1>12, ReturnTypes DEF Unserializable, Outcomes
  <2>. QED
    BY <1>12, <2>1 DEF Types, Unserializable, request, server
<1>3. ASSUME NEW c \in Call, Leave(c)
      PROVE  Types'
  <2>1. pc' \in [Call -> PC] /\ outcome' \in [Call -> Outcomes]
    BY <1>3, GotoTypes DEF Leave, PC
  <2>0. left[c] = 0 /\ left' = [left EXCEPT ![c] = left[c] + 1]
    BY <1>3 DEF Leave, CallInv, CallOk
  <2>2. left' = [left EXCEPT ![c] = 1]
    BY <2>0
  <2>. QED
    BY <1>3, <2>1, <2>2 DEF Types, Leave, server
<1>4. ASSUME NEW c \in Call, NEW why \in {"transport", "timeout"}, TransportFails(c, why)
      PROVE  Types'
  <2>1. pc' \in [Call -> PC] /\ outcome' \in [Call -> Outcomes]
    BY <1>4, ReturnTypes DEF TransportFails, Outcomes
  <2>2. stats' \in [Counters -> Nat]
    BY <1>4, AddTypes DEF TransportFails, Counters
  <2>. QED
    BY <1>4, <2>1, <2>2 DEF Types, TransportFails, request, server
<1>5. ASSUME NEW c \in Call, NEW s \in Status, Headers(c, s)
      PROVE  Types'
  <2>1. Len(txs[c]) \in Nat
    BY DEF Types
  <2>2. stats' \in [Counters -> Nat]
    BY <1>5, <2>1 DEF Headers, Types, Counters
  <2>3. answered' \in [Call -> Status \cup {0}]
    BY <1>5 DEF Headers, Types
  <2>4. pc' \in [Call -> PC] /\ outcome' \in [Call -> Outcomes]
    <3>1. {"refusal", "result"} \subseteq PC /\ "accepted" \in Outcomes
      BY DEF PC, Outcomes
    <3>. QED
      BY <1>5, <3>1, GotoTypes, ReturnTypes DEF Headers
  <2>. QED
    BY <1>5, <2>2, <2>3, <2>4 DEF Headers, Types, request
<1>6. ASSUME NEW c \in Call, RefusalBody(c)
      PROVE  Types'
  <2>1. FromStatus(answered[c]) \in Outcomes
    BY DEF FromStatus, Outcomes, Refusals
  <2>2. pc' \in [Call -> PC] /\ outcome' \in [Call -> Outcomes]
    BY <1>6, <2>1, ReturnTypes DEF RefusalBody
  <2>. QED
    BY <1>6, <2>2 DEF Types, RefusalBody, request, server
<1>7. ASSUME NEW c \in Call, RpcResult(c) \/ RpcError(c)
      PROVE  Types'
  <2>1. pc' \in [Call -> PC] /\ outcome' \in [Call -> Outcomes]
    BY <1>7, ReturnTypes DEF RpcResult, RpcError, Outcomes, Refusals
  <2>2. stats' \in [Counters -> Nat]
    BY <1>7, AddTypes DEF RpcResult, RpcError, Counters
  <2>. QED
    BY <1>7, <2>1, <2>2 DEF Types, RpcResult, RpcError, request, server
<1>8. ASSUME NEW c \in Call, NEW why \in {"decode", "timeout"}, RpcUnreadable(c, why)
      PROVE  Types'
  <2>1. pc' \in [Call -> PC] /\ outcome' \in [Call -> Outcomes]
    BY <1>8, ReturnTypes DEF RpcUnreadable, Outcomes
  <2>. QED
    BY <1>8, <2>1 DEF Types, RpcUnreadable, request, server
<1>9. ASSUME NEW c \in Call, Forward(c)
      PROVE  Types'
  <2>1. Bytes(c, Len(forwarded[c]) + 1) \in Seq(Nat)
    BY <1>9, Forwards, BytesType
  <2>2. Append(forwarded[c], Bytes(c, Len(forwarded[c]) + 1)) \in Seq(Seq(Nat))
    BY <2>1 DEF Types
  <2>3. at' \in [Call -> Nat] /\ forwarded' \in [Call -> Seq(Seq(Nat))]
    BY <1>9, <2>2, Forwards DEF Types
  <2>. QED
    BY <1>9, <2>3 DEF Types, Forward, request
<1>10. ASSUME NEW c \in Call, Abandon(c)
       PROVE  Types'
  <2>1. pc' \in [Call -> PC] /\ outcome' \in [Call -> Outcomes]
    BY <1>10, ReturnTypes DEF Abandon, Outcomes
  <2>. QED
    BY <1>10, <2>1 DEF Types, Abandon, request, server
<1>11. CASE Finished \/ UNCHANGED vars
  BY <1>11 DEF Finished, vars, Types, request, server
<1>. QED
  BY <1>1, <1>2, <1>3, <1>4, <1>5, <1>6, <1>7, <1>8, <1>9, <1>10, <1>11, <1>12
     DEF Next, CallStep

\* Nothing happens to call d.
Same(d) ==
    /\ op'[d] = op[d] /\ txs'[d] = txs[d] /\ pc'[d] = pc[d] /\ left'[d] = left[d]
    /\ at'[d] = at[d] /\ forwarded'[d] = forwarded[d] /\ answered'[d] = answered[d]
    /\ outcome'[d] = outcome[d]

\* A step is a step of one call.
LEMMA OthersSame ==
    ASSUME Types, TakenInv, CallInv, NEW c \in Call, NEW d \in Call, d # c,
           \/ \E o \in {"send", "rpc", "batch"} : \E lens \in Arguments(o) :
                 Begin(c, o, lens) \/ RejectLocally(c, o, lens)
           \/ Unserializable(c) \/ CallStep(c) \/ Forward(c) \/ Abandon(c)
    PROVE  Same(d)
<1>1. CASE \E o \in {"send", "rpc", "batch"} : \E lens \in Arguments(o) :
              Begin(c, o, lens) \/ RejectLocally(c, o, lens)
  BY <1>1 DEF Begin, RejectLocally, Goto, Return, request, server, Types, Same
<1>2. CASE CallStep(c)
  BY <1>2 DEF CallStep, Leave, TransportFails, Headers, RefusalBody, RpcResult,
       RpcError, RpcUnreadable, Goto, Return, request, server, Types, Same
<1>3. CASE Forward(c)
  <2>0. forwarded \in [Call -> Seq(Seq(Nat))] /\ at \in [Call -> Nat]
    BY DEF Types
  <2>1. at'[d] = at[d]
    BY <1>3, <2>0, Forwards
  <2>2. forwarded' = [forwarded EXCEPT
                        ![c] = Append(@, Bytes(c, Len(forwarded[c]) + 1))]
    BY <1>3, Forwards
  <2>3. forwarded'[d] = forwarded[d]
    BY <2>0, <2>2
  <2>. QED
    BY <1>3, <2>1, <2>3 DEF Forward, request, Same
<1>4. CASE Abandon(c) \/ Unserializable(c)
  BY <1>4 DEF Abandon, Unserializable, Return, request, server, Types, Same
<1>. QED
  BY <1>1, <1>2, <1>3, <1>4

\* Every step keeps what a call's place, its answer and its outcome say of each
\* other.
LEMMA CallStepInv ==
    ASSUME Types, CallInv, TakenInv, [Next]_vars
    PROVE  CallInv'
<1>1. CASE Finished \/ UNCHANGED vars
  BY <1>1 DEF Finished, vars, request, server, CallInv, CallOk
<1>2. ASSUME NEW c \in Call,
             \/ \E o \in {"send", "rpc", "batch"} : \E lens \in Arguments(o) :
                   Begin(c, o, lens) \/ RejectLocally(c, o, lens)
             \/ Unserializable(c) \/ CallStep(c) \/ Forward(c) \/ Abandon(c)
      PROVE  CallInv'
  <2>. SUFFICES ASSUME NEW d \in Call
                PROVE  CallOk(d)'
    BY DEF CallInv
  <2>0. CallOk(d)
    BY DEF CallInv
  <2>1. CASE d # c
    <3>1. Same(d)
      BY <1>2, <2>1, OthersSame
    <3>. QED
      BY <2>0, <3>1 DEF Same, CallOk
  <2>2. CASE d = c
    <3>0. /\ op[c] \in {"send", "rpc", "batch"} /\ pc[c] \in PC /\ left[c] \in {0, 1}
          /\ answered[c] \in Status \cup {0} /\ outcome[c] \in Outcomes
      BY DEF Types
    <3>1. ASSUME NEW o \in {"send", "rpc", "batch"}, NEW lens \in Arguments(o),
                 Begin(c, o, lens)
          PROVE  CallOk(c)'
      BY <2>0, <2>2, <3>1 DEF CallOk, Begin, Goto, server, Types, Refusals
    <3>2. ASSUME NEW o \in {"send", "rpc", "batch"}, NEW lens \in Arguments(o),
                 RejectLocally(c, o, lens)
          PROVE  CallOk(c)'
      BY <2>0, <2>2, <3>2 DEF CallOk, RejectLocally, Return, request, server, Types, Refusals
    <3>3. CASE Leave(c)
      BY <2>0, <2>2, <3>3 DEF CallOk, Leave, Goto, server, Types, Refusals
    <3>4. ASSUME NEW why \in {"transport", "timeout"}, TransportFails(c, why)
          PROVE  CallOk(c)'
      BY <2>0, <2>2, <3>4 DEF CallOk, TransportFails, Return, request, server, Types, Refusals
    <3>5. ASSUME NEW s \in Status, Headers(c, s)
          PROVE  CallOk(c)'
      BY <2>0, <2>2, <3>5 DEF CallOk, Headers, Goto, Return, request, Types, Refusals, Success
    <3>6. CASE RefusalBody(c)
      BY <2>0, <2>2, <3>6 DEF CallOk, RefusalBody, Return, request, server, Types,
           Refusals, FromStatus
    <3>7. CASE RpcResult(c) \/ RpcError(c)
      BY <2>0, <2>2, <3>7 DEF CallOk, RpcResult, RpcError, Return, request, server,
           Types, Refusals, Success
    <3>8. ASSUME NEW why \in {"decode", "timeout"}, RpcUnreadable(c, why)
          PROVE  CallOk(c)'
      BY <2>0, <2>2, <3>8 DEF CallOk, RpcUnreadable, Return, request, server, Types,
           Refusals, Success
    <3>9. CASE Forward(c)
      <4>1. pc[c] \notin {"idle", "request"} /\ outcome[c] \notin {"rejected", "serialize"}
        BY <2>0, <2>2, <3>9 DEF Forward, CallOk
      <4>. QED
        BY <2>0, <2>2, <3>9, <4>1 DEF CallOk, Forward, request
    <3>10. CASE Abandon(c)
      BY <2>0, <2>2, <3>10 DEF CallOk, Abandon, Return, request, server, Types,
           Refusals, Awaits, PC
    <3>11. CASE Unserializable(c)
      BY <2>0, <2>2, <3>11 DEF CallOk, Unserializable, Return, request, server, Types,
           Refusals
    <3>. QED
      BY <1>2, <2>2, <3>1, <3>2, <3>3, <3>4, <3>5, <3>6, <3>7, <3>8, <3>9, <3>10, <3>11
         DEF CallStep
  <2>. QED
    BY <2>1, <2>2
<1>. QED
  BY <1>1, <1>2 DEF Next

\* The body of a call depends on its own transactions only.
LEMMA FramesSame ==
    ASSUME NEW c \in Call, txs'[c] = txs[c]
    PROVE  Frames(c)' = Frames(c) /\ \A k : Bytes(c, k)' = Bytes(c, k)
BY DEF Frames, Bytes

\* What the server took is changed by Forward alone, the answer by Headers, what
\* the caller is told by the steps that return.
LEMMA TakenStep ==
    ASSUME Types, CallInv, TakenInv, [Next]_vars
    PROVE  TakenInv'
<1>1. CASE Finished \/ UNCHANGED vars
  BY <1>1, FramesSame DEF Finished, vars, request, server, TakenInv, TakenOk
<1>2. ASSUME NEW c \in Call,
             \/ \E o \in {"send", "rpc", "batch"} : \E lens \in Arguments(o) :
                   Begin(c, o, lens) \/ RejectLocally(c, o, lens)
             \/ Unserializable(c) \/ CallStep(c) \/ Forward(c) \/ Abandon(c)
      PROVE  TakenInv'
  <2>. SUFFICES ASSUME NEW d \in Call
                PROVE  TakenOk(d)'
    BY DEF TakenInv
  <2>0. TakenOk(d) /\ CallOk(d)
    BY DEF TakenInv, CallInv
  <2>1. CASE d # c
    <3>1. Same(d)
      BY <1>2, <2>1, OthersSame
    <3>2. Frames(d)' = Frames(d) /\ \A k : Bytes(d, k)' = Bytes(d, k)
      BY <3>1, FramesSame DEF Same
    <3>. QED
      BY <2>0, <3>1, <3>2 DEF Same, TakenOk
  <2>2. CASE d = c
    <3>0. /\ op[c] \in {"send", "rpc", "batch"} /\ pc[c] \in PC /\ left[c] \in {0, 1}
          /\ answered[c] \in Status \cup {0} /\ outcome[c] \in Outcomes
          /\ forwarded[c] \in Seq(Seq(Nat)) /\ txs[c] \in Seq(Nat)
      BY DEF Types
    <3>1. ASSUME NEW o \in {"send", "rpc", "batch"}, NEW lens \in Arguments(o),
                 Begin(c, o, lens)
          PROVE  TakenOk(c)'
      <4>1. /\ op'[c] = o /\ txs'[c] = lens /\ pc'[c] = "request"
            /\ UNCHANGED <<at, forwarded, answered, outcome>>
            /\ pc[c] = "idle"
        BY <3>1 DEF Begin, Goto, server, Types
      <4>2. /\ forwarded[c] = <<>> /\ at[c] = 0 /\ answered[c] = 0
            /\ outcome[c] = "pending"
        BY <2>0, <2>2, <4>1 DEF CallOk
      <4>3. lens \in Seq(Nat) /\ (o # "batch" => Len(lens) = 1)
        BY ArgumentType
      <4>4. at'[c] = Offset(Frames(c)', Len(forwarded'[c]))
        BY <4>1, <4>2 DEF Offset
      <4>5. \A k \in DOMAIN lens : Fits(lens[k])
        <5>1. CASE o = "batch"
          BY <3>1, <5>1 DEF Begin, Valid, Framable
        <5>2. CASE o # "batch"
          <6>1. Fits(lens[1])
            BY <3>1, <5>2 DEF Begin, Valid
          <6>2. \A k \in DOMAIN lens : k = 1
            BY <4>3, <5>2
          <6>. QED
            BY <6>1, <6>2
        <5>. QED
          BY <5>1, <5>2
      <4>. QED
        BY <4>1, <4>2, <4>3, <4>4, <4>5 DEF TakenOk, Success
    <3>2. ASSUME NEW o \in {"send", "rpc", "batch"}, NEW lens \in Arguments(o),
                 RejectLocally(c, o, lens)
          PROVE  TakenOk(c)'
      <4>1. /\ UNCHANGED <<request, server>> /\ pc'[c] = "done"
            /\ outcome'[c] = "rejected" /\ pc[c] = "idle"
        BY <3>2 DEF RejectLocally, Return, Types
      <4>2. forwarded[c] = <<>> /\ answered[c] = 0
        BY <2>0, <2>2, <4>1 DEF CallOk
      <4>. QED
        BY <2>0, <2>2, <4>1, <4>2, FramesSame DEF TakenOk, request, server, Success
    <3>9. CASE Unserializable(c)
      <4>1. /\ UNCHANGED <<request, server>> /\ pc'[c] = "done"
            /\ outcome'[c] = "serialize" /\ pc[c] = "idle"
        BY <3>9 DEF Unserializable, Return, Types
      <4>2. forwarded[c] = <<>> /\ answered[c] = 0
        BY <2>0, <2>2, <4>1 DEF CallOk
      <4>. QED
        BY <2>0, <2>2, <4>1, <4>2, FramesSame DEF TakenOk, request, server, Success
    <3>3. CASE \/ Leave(c) \/ Abandon(c)
               \/ \E why \in {"transport", "timeout"} : TransportFails(c, why)
               \/ \E why \in {"decode", "timeout"} : RpcUnreadable(c, why)
      <4>1. /\ UNCHANGED <<op, txs, server>> /\ pc[c] # "idle" /\ outcome[c] = "pending"
            /\ outcome'[c] \notin {"accepted", "rpc"}
        BY <2>0, <2>2, <3>3 DEF Leave, Abandon, TransportFails, RpcUnreadable, Awaits,
             Goto, Return, request, Types, CallOk
      <4>. QED
        BY <2>0, <2>2, <4>1, FramesSame DEF TakenOk, server
    <3>4. ASSUME NEW s \in Status, Headers(c, s)
          PROVE  TakenOk(c)'
      <4>1. /\ UNCHANGED <<request, at, forwarded>> /\ MayAnswer(c, s)
            /\ pc[c] = "response" /\ answered'[c] = s
            /\ outcome'[c] \in {"pending", "accepted"}
            /\ outcome'[c] = "accepted" => s \in Success /\ op[c] # "rpc"
        <5>1. outcome[c] = "pending"
          BY <2>0, <2>2, <3>4 DEF Headers, CallOk
        <5>. QED
          BY <3>4, <5>1 DEF Headers, Goto, Return, Types
      <4>2. outcome[c] \notin {"rejected", "serialize"}
        BY <2>0, <2>2, <4>1 DEF CallOk
      <4>. QED
        BY <2>0, <2>2, <4>1, <4>2, FramesSame DEF TakenOk, MayAnswer, request
    <3>5. CASE RefusalBody(c)
      <4>1. /\ UNCHANGED <<request, server>> /\ pc[c] = "refusal"
            /\ outcome'[c] \notin {"accepted", "rpc"}
        BY <3>5 DEF RefusalBody, Return, FromStatus, Types
      <4>2. outcome[c] \notin {"rejected", "serialize"}
        BY <2>0, <2>2, <4>1 DEF CallOk
      <4>. QED
        BY <2>0, <2>2, <4>1, <4>2, FramesSame DEF TakenOk, request, server
    <3>6. CASE RpcResult(c)
      <4>1. /\ UNCHANGED <<request, server>> /\ pc[c] = "result"
            /\ outcome'[c] = "accepted" /\ forwarded[c] # <<>>
        BY <3>6 DEF RpcResult, Return, Types
      <4>2. outcome[c] = "pending" /\ op[c] = "rpc"
        BY <2>0, <2>2, <4>1 DEF CallOk
      <4>3. Len(txs[c]) = 1 /\ Len(forwarded[c]) = 1
        <5>1. Len(txs[c]) = 1 /\ Len(forwarded[c]) <= Len(txs[c])
          BY <2>0, <2>2, <4>1, <4>2 DEF TakenOk
        <5>2. Len(forwarded[c]) # 0 /\ Len(forwarded[c]) \in Nat
          BY <3>0, <4>1
        <5>. DEFINE m == Len(forwarded[c])
        <5>3. m <= 1 /\ m # 0 /\ m \in Nat
          BY <5>1, <5>2
        <5>4. m = 1
          <6>. HIDE DEF m
          <6>. QED
            BY <5>3
        <5>. QED
          BY <5>1, <5>4
      <4>. QED
        BY <2>0, <2>2, <4>1, <4>2, <4>3, FramesSame DEF TakenOk, request, server
    <3>7. CASE RpcError(c)
      <4>1. /\ UNCHANGED <<request, server>> /\ pc[c] = "result"
            /\ outcome'[c] = "rpc" /\ forwarded[c] = <<>>
        BY <3>7 DEF RpcError, Return, Types
      <4>2. outcome[c] = "pending"
        BY <2>0, <2>2, <4>1 DEF CallOk
      <4>. QED
        BY <2>0, <2>2, <4>1, <4>2, FramesSame DEF TakenOk, request, server
    <3>8. CASE Forward(c)
      <4>. DEFINE m == Len(forwarded[c])
      <4>1. /\ UNCHANGED <<request, pc, answered, outcome>> /\ answered[c] = 0
            /\ m < Len(txs[c])
        BY <3>8 DEF Forward
      <4>2. /\ forwarded'[c] = Append(forwarded[c], Bytes(c, m + 1))
            /\ op[c] = "batch" => at'[c] = Offset(Frames(c), m + 1)
        BY <3>8, Forwards DEF Types
      <4>3. m \in Nat /\ Len(forwarded'[c]) = m + 1
        BY <3>0, <4>2
      <4>4. \A k \in DOMAIN forwarded'[c] : forwarded'[c][k] = Bytes(c, k)
        <5>1. \A k \in DOMAIN forwarded[c] : forwarded[c][k] = Bytes(c, k)
          BY <2>0, <2>2 DEF TakenOk
        <5>. QED
          BY <3>0, <4>2, <5>1
      <4>5. outcome[c] \notin {"accepted", "rpc"}
        BY <2>0, <2>2, <4>1 DEF CallOk, Success
      <4>6. m + 1 <= Len(txs[c]) /\ Len(txs[c]) \in Nat
        BY <3>0, <4>1, <4>3
      <4>7. /\ Frames(c)' = Frames(c) /\ \A k : Bytes(c, k)' = Bytes(c, k)
            /\ UNCHANGED <<op, txs>>
        BY <4>1, FramesSame DEF request
      <4>. HIDE DEF m
      <4>. QED
        BY <2>0, <2>2, <4>1, <4>2, <4>3, <4>4, <4>5, <4>6, <4>7 DEF TakenOk, Success
    <3>. QED
      BY <1>2, <2>2, <3>1, <3>2, <3>3, <3>4, <3>5, <3>6, <3>7, <3>8, <3>9 DEF CallStep
  <2>. QED
    BY <2>1, <2>2
<1>. QED
  BY <1>1, <1>2 DEF Next

-----------------------------------------------------------------------------
(* The counters. *)

\* Only calls that have started are counted.
LEMMA Counted ==
    ASSUME Types, CallInv
    PROVE  /\ Begun \subseteq Started /\ Ended({"accepted"}) \subseteq Started
           /\ Ended({"rejected"}) \subseteq Started
           /\ Answered(Status) \subseteq Started
           /\ Refused \subseteq Started /\ Unheard \subseteq Started
           /\ Started \subseteq Call
<1>1. \A c \in Call : outcome[c] # "pending" \/ answered[c] # 0 => c \in Started
  BY DEF CallInv, CallOk, Started
<1>2. 0 \notin Status
  BY DEF Status, Success
<1>. QED
  BY <1>1, <1>2 DEF Begun, Ended, Answered, Refused, Unheard, Started

\* These sets are finite, and one more call counts one more.
LEMMA OneMore ==
    ASSUME IsFiniteSet(Started), NEW S \in SUBSET Started
    PROVE  /\ IsFiniteSet(S) /\ Cardinality(S) \in Nat
           /\ \A c : c \notin S => Cardinality(S \cup {c}) = Cardinality(S) + 1
BY FS_Subset, FS_CardinalityType, FS_AddElement

\* The transactions of one more call add up with those of the others.
LEMMA TotalMore ==
    ASSUME NEW t \in [Call -> Seq(Nat)], NEW S \in SUBSET Call, IsFiniteSet(S)
    PROVE  /\ Total(t, S) \in Nat
           /\ IsFiniteSet(UNION {{c} \X DOMAIN t[c] : c \in S})
           /\ \A c \in Call : c \notin S => Total(t, S \cup {c}) = Total(t, S) + Len(t[c])
<1>. DEFINE U(T) == UNION {{c} \X DOMAIN t[c] : c \in T}
<1>1. \A c \in Call : /\ IsFiniteSet({c} \X DOMAIN t[c])
                      /\ Cardinality({c} \X DOMAIN t[c]) = Len(t[c])
  <2>. SUFFICES ASSUME NEW c \in Call
                PROVE  /\ IsFiniteSet({c} \X DOMAIN t[c])
                       /\ Cardinality({c} \X DOMAIN t[c]) = Len(t[c])
    OBVIOUS
  <2>. DEFINE n == Len(t[c])
              D == DOMAIN t[c]
  <2>1. D = 1..n /\ n \in Nat
    OBVIOUS
  <2>. HIDE DEF n, D
  <2>2. IsFiniteSet(D) /\ Cardinality(D) = n
    BY <2>1, FS_Interval
  <2>3. IsFiniteSet({c}) /\ Cardinality({c}) = 1
    BY FS_Singleton
  <2>4. IsFiniteSet({c} \X D) /\ Cardinality({c} \X D) = 1 * n
    BY <2>2, <2>3, FS_Product
  <2>5. IsFiniteSet({c} \X D) /\ Cardinality({c} \X D) = n
    BY <2>1, <2>4
  <2>. QED
    BY <2>5 DEF n, D
<1>2. IsFiniteSet(U(S))
  <2>. DEFINE f == [c \in S |-> {c} \X DOMAIN t[c]]
              R == {{c} \X DOMAIN t[c] : c \in S}
  <2>1. f \in Surjection(S, R)
    BY DEF Surjection
  <2>2. IsFiniteSet(R)
    BY <2>1, FS_Surjection
  <2>3. \A T \in R : IsFiniteSet(T)
    BY <1>1
  <2>. QED
    BY <2>2, <2>3, FS_UNION
<1>3. ASSUME NEW c \in Call, c \notin S
      PROVE  Total(t, S \cup {c}) = Total(t, S) + Len(t[c])
  <2>. DEFINE V == {c} \X DOMAIN t[c]
  <2>1. U(S \cup {c}) = U(S) \cup V
    OBVIOUS
  <2>2. U(S) \cap V = {}
    BY <1>3
  <2>. DEFINE n == Len(t[c])
  <2>3. IsFiniteSet(V) /\ Cardinality(V) = n /\ n \in Nat
    <3>1. n \in Nat
      OBVIOUS
    <3>. QED
      BY <1>1, <3>1, Zenon
  <2>. HIDE DEF U, V, n
  <2>4. /\ Cardinality(U(S) \cup V)
             = Cardinality(U(S)) + Cardinality(V) - Cardinality(U(S) \cap V)
        /\ Cardinality(U(S)) \in Nat
    BY <1>2, <2>3, FS_Union, FS_CardinalityType
  <2>5. Cardinality({}) = 0
    BY FS_EmptySet
  <2>6. Cardinality(U(S) \cap V) = 0
    BY <2>2, <2>5
  <2>7. Cardinality(U(S) \cup V) = Cardinality(U(S)) + n
    BY <2>3, <2>4, <2>6
  <2>8. Cardinality(U(S \cup {c})) = Cardinality(U(S)) + n
    BY <2>1, <2>7
  <2>. QED
    BY <2>8 DEF Total, U, n
<1>4. Total(t, S) \in Nat
  BY <1>2, FS_CardinalityType DEF Total
<1>. QED
  BY <1>2, <1>3, <1>4

\* A total depends on the calls it is over only.
LEMMA TotalSame ==
    ASSUME NEW t \in [Call -> Seq(Nat)], NEW u \in [Call -> Seq(Nat)],
           NEW S \in SUBSET Call, \A c \in S : u[c] = t[c]
    PROVE  Total(u, S) = Total(t, S)
<1>1. {{c} \X DOMAIN u[c] : c \in S} = {{c} \X DOMAIN t[c] : c \in S}
  OBVIOUS
<1>. QED
  BY <1>1 DEF Total

\* S with or without c.
Put(S, c, P) == IF P THEN S \cup {c} ELSE S \ {c}

\* What a step of call c does to the sets.
LEMMA SetsAfter ==
    ASSUME NEW c \in Call, \A d \in Call \ {c} : Same(d)
    PROVE  /\ Begun' = Put(Begun, c, pc'[c] # "idle" /\ outcome'[c] \notin {"rejected", "serialize"})
           /\ Started' = Put(Started, c, pc'[c] # "idle")
           /\ Ended({"accepted"})' = Put(Ended({"accepted"}), c, outcome'[c] = "accepted")
           /\ Ended({"rejected"})' = Put(Ended({"rejected"}), c, outcome'[c] = "rejected")
           /\ Answered(Status)' = Put(Answered(Status), c, answered'[c] \in Status)
           /\ Refused' = Put(Refused, c, \/ answered'[c] \in Status \ Success
                                         \/ outcome'[c] = "rpc")
           /\ Unheard' = Put(Unheard, c, /\ outcome'[c] \in {"transport", "timeout"}
                                         /\ answered'[c] \notin Status)
BY DEF Same, Begun, Started, Ended, Answered, Refused, Unheard, Put

\* Every step moves the counters as it moves the sets: a call enters each of them
\* in the step that counts it.
LEMMA LedgerStep ==
    ASSUME IInv, [Next]_vars, Types', CallInv', TakenInv'
    PROVE  IsFiniteSet(Started)' /\ Exact'
<1>. DEFINE acc == Ended({"accepted"})
            rej == Ended({"rejected"})
            ans == Answered(Status)
<1>0. /\ \A S \in {Begun, acc, rej, ans, Refused, Unheard} :
            /\ S \in SUBSET Started /\ S \in SUBSET Call
            /\ IsFiniteSet(S) /\ Cardinality(S) \in Nat
            /\ \A c : c \notin S => Cardinality(S \cup {c}) = Cardinality(S) + 1
      /\ IsFiniteSet(Started)
  BY Counted, OneMore DEF IInv
<1>1. CASE Finished \/ UNCHANGED vars
  <2>1. /\ txs' = txs /\ pc' = pc /\ outcome' = outcome
        /\ answered' = answered /\ stats' = stats
    BY <1>1 DEF Finished, vars, request, server
  <2>2. Started' = Started /\ (Exact' <=> Exact)
    BY <2>1 DEF Started, Exact, Total, Begun, Ended, Answered, Refused, Unheard
  <2>. QED
    BY <1>0, <2>2 DEF IInv
<1>2. ASSUME NEW c \in Call,
             \/ \E o \in {"send", "rpc", "batch"} : \E lens \in Arguments(o) :
                   Begin(c, o, lens) \/ RejectLocally(c, o, lens)
             \/ Unserializable(c) \/ CallStep(c) \/ Forward(c) \/ Abandon(c)
      PROVE  IsFiniteSet(Started)' /\ Exact'
  <2>. USE DEF Put
  <2>1. \A d \in Call \ {c} : Same(d)
    BY <1>2, OthersSame DEF IInv
  <2>2. CallOk(c) /\ TakenOk(c) /\ CallOk(c)' /\ TakenOk(c)'
    BY DEF IInv, CallInv, TakenInv
  <2>3. IsFiniteSet(Started')
    <3>1. IsFiniteSet(Started \cup {c}) /\ IsFiniteSet(Started \ {c})
      BY <1>0, FS_AddElement, FS_RemoveElement
    <3>2. Started' \in {Started \cup {c}, Started \ {c}}
      BY <2>1, SetsAfter
    <3>. QED
      BY <3>1, <3>2
  <2>4. /\ stats["submitted"] = Total(txs, Begun)
        /\ stats["accepted"] = Total(txs, acc)
        /\ stats["rejected_locally"] = Cardinality(rej)
        /\ stats["roundtrips"] = Cardinality(ans)
        /\ stats["rejected_by_server"] = Cardinality(Refused)
        /\ stats["transport_errors"] = Cardinality(Unheard)
        /\ stats \in [Counters -> Nat]
    BY DEF IInv, Types, Exact
  <2>. DEFINE LedgerAfter ==
                /\ stats'["submitted"] = Total(txs', Begun')
                /\ stats'["accepted"] = Total(txs', acc')
                /\ stats'["rejected_locally"] = Cardinality(rej')
                /\ stats'["roundtrips"] = Cardinality(ans')
                /\ stats'["rejected_by_server"] = Cardinality(Refused')
                /\ stats'["transport_errors"] = Cardinality(Unheard')
  <2>5. SUFFICES LedgerAfter
    BY <2>3 DEF Exact
  <2>6. /\ c \in Begun <=> pc[c] # "idle" /\ outcome[c] \notin {"rejected", "serialize"}
        /\ c \in acc <=> outcome[c] = "accepted"
        /\ c \in rej <=> outcome[c] = "rejected"
        /\ c \in ans <=> answered[c] \in Status
        /\ c \in Refused <=> answered[c] \in Status \ Success \/ outcome[c] = "rpc"
        /\ c \in Unheard <=> /\ outcome[c] \in {"transport", "timeout"}
                             /\ answered[c] \notin Status
    BY DEF Begun, Ended, Answered, Refused, Unheard
  <2>7. \A S \in {Begun, acc} :
           /\ Total(txs, S) \in Nat
           /\ c \notin S => Total(txs', S \cup {c}) = Total(txs', S) + Len(txs'[c])
    <3>1. txs \in [Call -> Seq(Nat)] /\ txs' \in [Call -> Seq(Nat)]
      BY DEF IInv, Types
    <3>2. ASSUME NEW S \in {Begun, acc}
          PROVE  S \in SUBSET Call /\ IsFiniteSet(S)
      BY <1>0
    <3>. HIDE DEF acc
    <3>. QED
      BY <3>1, <3>2, TotalMore
  <2>8. \A S \in {Begun, acc} : c \notin S => Total(txs', S) = Total(txs, S)
    <3>1. txs \in [Call -> Seq(Nat)] /\ txs' \in [Call -> Seq(Nat)]
      BY DEF IInv, Types
    <3>2. \A d \in Call \ {c} : txs'[d] = txs[d]
      BY <2>1 DEF Same
    <3>3. ASSUME NEW S \in {Begun, acc}
          PROVE  S \in SUBSET Call /\ IsFiniteSet(S)
      BY <1>0
    <3>. HIDE DEF acc
    <3>4. ASSUME NEW S \in {Begun, acc}, c \notin S
          PROVE  Total(txs', S) = Total(txs, S)
      <4>1. \A d \in S : txs'[d] = txs[d]
        BY <3>2, <3>3, <3>4
      <4>. QED
        BY <3>1, <3>3, <4>1, TotalSame
    <3>. QED
      BY <3>4
  <2>9. /\ Begun' = Put(Begun, c, pc'[c] # "idle" /\ outcome'[c] \notin {"rejected", "serialize"})
        /\ acc' = Put(acc, c, outcome'[c] = "accepted")
        /\ rej' = Put(rej, c, outcome'[c] = "rejected")
        /\ ans' = Put(ans, c, answered'[c] \in Status)
        /\ Refused' = Put(Refused, c, \/ answered'[c] \in Status \ Success
                                      \/ outcome'[c] = "rpc")
        /\ Unheard' = Put(Unheard, c, /\ outcome'[c] \in {"transport", "timeout"}
                                      /\ answered'[c] \notin Status)
    BY <2>1, SetsAfter
  <2>. HIDE DEF acc, rej, ans
  <2>10. ASSUME NEW o \in {"send", "rpc", "batch"}, NEW lens \in Arguments(o),
                Begin(c, o, lens)
         PROVE  LedgerAfter
    <3>1. /\ pc[c] = "idle" /\ pc'[c] = "request" /\ outcome'[c] = outcome[c]
          /\ answered'[c] = answered[c] /\ txs'[c] = lens
          /\ stats' = [stats EXCEPT !["submitted"] = @ + Len(lens)]
      BY <2>10 DEF Begin, Goto, Add, server, IInv, Types
    <3>2. outcome[c] = "pending" /\ answered[c] = 0
      BY <2>2, <3>1 DEF CallOk
    <3>3. /\ Begun' = Begun \cup {c} /\ c \notin Begun
          /\ acc' = acc /\ c \notin acc
          /\ rej' = rej /\ ans' = ans /\ Refused' = Refused /\ Unheard' = Unheard
      BY <2>9, <2>6, <3>1, <3>2 DEF Status, Success
    <3>4. Total(txs', acc') = Total(txs, acc)
      BY <2>8, <3>3
    <3>5. Total(txs', Begun') = Total(txs, Begun) + Len(lens)
      BY <2>7, <2>8, <3>1, <3>3
    <3>. QED
      BY <2>4, <3>1, <3>3, <3>4, <3>5 DEF Counters
  <2>11. ASSUME NEW o \in {"send", "rpc", "batch"}, NEW lens \in Arguments(o),
                RejectLocally(c, o, lens)
         PROVE  LedgerAfter
    <3>1. /\ pc[c] = "idle" /\ pc'[c] = "done" /\ outcome'[c] = "rejected"
          /\ answered'[c] = answered[c] /\ txs' = txs
          /\ stats' = [stats EXCEPT !["rejected_locally"] = @ + 1]
      BY <2>11 DEF RejectLocally, Return, Add, request, server, IInv, Types
    <3>2. outcome[c] = "pending" /\ answered[c] = 0
      BY <2>2, <3>1 DEF CallOk
    <3>3. /\ Begun' = Begun /\ acc' = acc
          /\ rej' = rej \cup {c} /\ c \notin rej
          /\ ans' = ans /\ Refused' = Refused /\ Unheard' = Unheard
      BY <2>9, <2>6, <3>1, <3>2 DEF Status, Success
    <3>. QED
      BY <1>0, <2>4, <3>1, <3>3 DEF Counters
  <2>18. CASE Unserializable(c)
    <3>1. /\ pc[c] = "idle" /\ pc'[c] = "done" /\ outcome'[c] = "serialize"
          /\ answered'[c] = answered[c] /\ txs' = txs /\ stats' = stats
      BY <2>18 DEF Unserializable, Return, request, server, IInv, Types
    <3>2. outcome[c] = "pending" /\ answered[c] = 0
      BY <2>2, <3>1 DEF CallOk
    <3>3. /\ Begun' = Begun /\ acc' = acc /\ rej' = rej
          /\ ans' = ans /\ Refused' = Refused /\ Unheard' = Unheard
      BY <2>9, <2>6, <3>1, <3>2 DEF Status, Success
    <3>. QED
      BY <2>4, <3>1, <3>3
  <2>12. CASE Leave(c) \/ Forward(c) \/ Abandon(c)
    <3>1. /\ pc[c] # "idle" /\ pc'[c] # "idle"
          /\ answered'[c] = answered[c] /\ txs' = txs /\ stats' = stats
          /\ \/ outcome'[c] = outcome[c]
             \/ outcome[c] = "pending" /\ outcome'[c] = "abandoned"
      <4>1. CASE Forward(c)
        <5>1. left[c] > 0 /\ UNCHANGED <<pc, answered, outcome, txs, stats>>
          BY <4>1 DEF Forward, request
        <5>2. pc[c] # "idle"
          BY <2>2, <5>1 DEF CallOk
        <5>. QED
          BY <5>1, <5>2
      <4>2. CASE Leave(c) \/ Abandon(c)
        BY <2>2, <4>2 DEF Leave, Abandon, Awaits, PC, Goto, Return, request, server,
             IInv, Types, CallOk
      <4>. QED
        BY <2>12, <4>1, <4>2
    <3>2. /\ Begun' = Begun /\ acc' = acc /\ rej' = rej
          /\ ans' = ans /\ Refused' = Refused /\ Unheard' = Unheard
      BY <2>9, <2>6, <3>1
    <3>. QED
      BY <2>4, <3>1, <3>2
  <2>13. ASSUME NEW why \in {"transport", "timeout"}, TransportFails(c, why)
         PROVE  LedgerAfter
    <3>1. /\ pc[c] \in {"request", "response"} /\ pc'[c] = "done" /\ outcome'[c] = why
          /\ answered'[c] = answered[c] /\ txs' = txs
          /\ stats' = [stats EXCEPT !["transport_errors"] = @ + 1]
      BY <2>13 DEF TransportFails, Return, Add, request, server, IInv, Types
    <3>2. outcome[c] = "pending" /\ answered[c] = 0
      BY <2>2, <3>1 DEF CallOk
    <3>3. /\ Begun' = Begun /\ acc' = acc /\ rej' = rej
          /\ ans' = ans /\ Refused' = Refused
          /\ Unheard' = Unheard \cup {c} /\ c \notin Unheard
      BY <2>9, <2>6, <3>1, <3>2 DEF Status, Success
    <3>. QED
      BY <1>0, <2>4, <3>1, <3>3 DEF Counters
  <2>14. ASSUME NEW s \in Status, Headers(c, s)
         PROVE  LedgerAfter
    <3>. DEFINE trip == [stats EXCEPT !["roundtrips"] = @ + 1]
    <3>1. /\ pc[c] = "response" /\ answered'[c] = s /\ txs' = txs
          /\ \/ /\ s \notin Success /\ outcome'[c] = outcome[c] /\ pc'[c] # "idle"
                /\ stats' = [trip EXCEPT !["rejected_by_server"] = @ + 1]
             \/ /\ s \in Success /\ outcome'[c] = outcome[c] /\ pc'[c] # "idle"
                /\ stats' = trip
             \/ /\ s \in Success /\ outcome'[c] = "accepted" /\ pc'[c] # "idle"
                /\ stats' = [trip EXCEPT !["accepted"] = @ + Len(txs[c])]
      BY <2>14 DEF Headers, Goto, Return, request, IInv, Types
    <3>2. outcome[c] = "pending" /\ answered[c] = 0 /\ 0 \notin Status
      BY <2>2, <3>1 DEF CallOk, Status, Success
    <3>3. /\ Begun' = Begun /\ rej' = rej /\ Unheard' = Unheard
          /\ ans' = ans \cup {c} /\ c \notin ans /\ c \notin Refused /\ c \notin acc
      BY <2>9, <2>6, <3>1, <3>2
    <3>4. CASE s \notin Success
      <4>1. stats' = [trip EXCEPT !["rejected_by_server"] = @ + 1]
        BY <3>1, <3>4
      <4>2. acc' = acc /\ Refused' = Refused \cup {c}
        BY <2>9, <2>6, <3>1, <3>2, <3>4
      <4>. QED
        BY <1>0, <2>4, <3>1, <3>3, <4>1, <4>2 DEF Counters
    <3>5. CASE s \in Success /\ outcome'[c] = "pending"
      <4>1. stats' = trip
        BY <3>1, <3>2, <3>5
      <4>2. acc' = acc /\ Refused' = Refused
        BY <2>9, <2>6, <3>1, <3>2, <3>5
      <4>. QED
        BY <1>0, <2>4, <3>1, <3>3, <4>1, <4>2 DEF Counters
    <3>6. CASE s \in Success /\ outcome'[c] = "accepted"
      <4>1. stats' = [trip EXCEPT !["accepted"] = @ + Len(txs[c])]
        BY <3>1, <3>2, <3>6
      <4>2. acc' = acc \cup {c} /\ Refused' = Refused
        BY <2>9, <2>6, <3>1, <3>2, <3>6
      <4>3. Total(txs', acc') = Total(txs, acc) + Len(txs[c])
        BY <2>7, <2>8, <3>1, <3>3, <4>2
      <4>. QED
        BY <1>0, <2>4, <3>1, <3>3, <4>1, <4>2, <4>3 DEF Counters
    <3>. QED
      BY <3>1, <3>2, <3>4, <3>5, <3>6
  <2>15. CASE RefusalBody(c) \/ \E why \in {"decode", "timeout"} : RpcUnreadable(c, why)
    <3>1. /\ pc[c] \in {"refusal", "result"} /\ pc'[c] = "done"
          /\ outcome'[c] \notin {"accepted", "rejected", "serialize", "rpc"}
          /\ answered'[c] = answered[c] /\ txs' = txs /\ stats' = stats
      BY <2>15 DEF RefusalBody, RpcUnreadable, FromStatus, Return, request, server,
           IInv, Types
    <3>2. outcome[c] = "pending" /\ answered[c] \in Status
      BY <2>2, <3>1 DEF CallOk, Status
    <3>3. /\ Begun' = Begun /\ acc' = acc /\ rej' = rej
          /\ ans' = ans /\ Refused' = Refused /\ Unheard' = Unheard
      BY <2>9, <2>6, <3>1, <3>2
    <3>. QED
      BY <2>4, <3>1, <3>3
  <2>16. CASE RpcResult(c)
    <3>1. /\ pc[c] = "result" /\ pc'[c] = "done" /\ outcome'[c] = "accepted"
          /\ answered'[c] = answered[c] /\ txs' = txs
          /\ stats' = [stats EXCEPT !["accepted"] = @ + 1]
      BY <2>16 DEF RpcResult, Return, Add, request, server, IInv, Types
    <3>2. /\ outcome[c] = "pending" /\ answered[c] \in Status
          /\ op[c] = "rpc" /\ Len(txs[c]) = 1
      BY <2>2, <3>1 DEF CallOk, TakenOk, Status
    <3>3. /\ Begun' = Begun /\ rej' = rej /\ ans' = ans
          /\ Refused' = Refused /\ Unheard' = Unheard
          /\ acc' = acc \cup {c} /\ c \notin acc
      BY <2>9, <2>6, <3>1, <3>2
    <3>4. Total(txs', acc') = Total(txs, acc) + 1
      BY <2>7, <2>8, <3>1, <3>2, <3>3
    <3>. QED
      BY <2>4, <3>1, <3>3, <3>4 DEF Counters
  <2>17. CASE RpcError(c)
    <3>1. /\ pc[c] = "result" /\ pc'[c] = "done" /\ outcome'[c] = "rpc"
          /\ answered'[c] = answered[c] /\ txs' = txs
          /\ stats' = [stats EXCEPT !["rejected_by_server"] = @ + 1]
      BY <2>17 DEF RpcError, Return, Add, request, server, IInv, Types
    <3>2. outcome[c] = "pending" /\ answered[c] \in Status /\ answered[c] \in Success
      BY <2>2, <3>1 DEF CallOk, Status
    <3>3. /\ Begun' = Begun /\ acc' = acc /\ rej' = rej /\ ans' = ans
          /\ Refused' = Refused \cup {c} /\ c \notin Refused /\ Unheard' = Unheard
      BY <2>9, <2>6, <3>1, <3>2
    <3>. QED
      BY <1>0, <2>4, <3>1, <3>3 DEF Counters
  <2>. QED
    BY <1>2, <2>10, <2>11, <2>12, <2>13, <2>14, <2>15, <2>16, <2>17,
       <2>18 DEF CallStep
<1>. QED
  BY <1>1, <1>2 DEF Next

-----------------------------------------------------------------------------
(* The theorems. *)

\* A new client satisfies the invariant.
LEMMA InitInv == Init => IInv
<1>. SUFFICES ASSUME Init PROVE IInv
  OBVIOUS
<1>1. Types /\ CallInv /\ TakenInv
  BY InitTypes
<1>2. /\ Started = {} /\ Begun = {} /\ Ended({"accepted"}) = {} /\ Ended({"rejected"}) = {}
      /\ Answered(Status) = {} /\ Refused = {} /\ Unheard = {}
  BY DEF Init, Started, Begun, Ended, Answered, Refused, Unheard, Status, Success
<1>3. Total(txs, {}) = 0 /\ Cardinality({}) = 0 /\ IsFiniteSet({})
  <2>1. UNION {{c} \X DOMAIN txs[c] : c \in {}} = {}
    OBVIOUS
  <2>. QED
    BY <2>1, FS_EmptySet DEF Total
<1>4. \A k \in Counters : stats[k] = 0
  BY DEF Init
<1>5. Exact
  BY <1>2, <1>3, <1>4 DEF Counters, Exact
<1>. QED
  BY <1>1, <1>2, <1>3, <1>5 DEF IInv

\* The invariant holds in every reachable state, whatever calls share the client
\* (send, send_rpc and send_batch, and the Stats they share).
THEOREM Inductive == Spec => []IInv
<1>1. IInv /\ [Next]_vars => IInv'
  <2>. SUFFICES ASSUME IInv, [Next]_vars PROVE IInv'
    OBVIOUS
  <2>1. Types /\ CallInv /\ TakenInv
    BY DEF IInv
  <2>2. Types' /\ CallInv' /\ TakenInv'
    BY <2>1, TypeStep, CallStepInv, TakenStep
  <2>3. IsFiniteSet(Started)' /\ Exact'
    BY <2>2, LedgerStep
  <2>. QED
    BY <2>2, <2>3 DEF IInv
<1>. QED
  BY <1>1, InitInv, PTL DEF Spec

\* A part of a finite set of calls has no more calls and no more transactions.
LEMMA PartOf ==
    ASSUME IInv, NEW S \in SUBSET Started, NEW R \in SUBSET S
    PROVE  /\ Cardinality(R) <= Cardinality(S)
           /\ Total(txs, R) <= Total(txs, S)
<1>1. IsFiniteSet(S)
  BY FS_Subset DEF IInv
<1>2. Cardinality(R) <= Cardinality(S)
  BY <1>1, FS_Subset
<1>. DEFINE U(T) == UNION {{c} \X DOMAIN txs[c] : c \in T}
<1>3. IsFiniteSet(U(S))
  <2>1. S \in SUBSET Call /\ txs \in [Call -> Seq(Nat)]
    BY DEF IInv, Types, Started
  <2>. QED
    BY <1>1, <2>1, TotalMore
<1>4. U(R) \subseteq U(S)
  OBVIOUS
<1>5. Cardinality(U(R)) <= Cardinality(U(S))
  <2>. HIDE DEF U
  <2>. QED
    BY <1>3, <1>4, FS_Subset
<1>. QED
  BY <1>2, <1>5 DEF Total

\* What is counted to the call lies between the bounds: a call told "accepted" was
\* answered with a success, and a timeout may come after the headers.
LEMMA LedgerHolds == IInv => Ledger
<1>. SUFFICES ASSUME IInv PROVE Ledger
  OBVIOUS
<1>. DEFINE acc == Ended({"accepted"})
            ok == Answered(Success)
            bad == Answered(Status \ Success)
            failed == Ended({"transport", "timeout"})
<1>1. /\ acc \subseteq ok /\ bad \subseteq Refused /\ Unheard \subseteq failed
      /\ ok \subseteq Started /\ Refused \subseteq Started /\ failed \subseteq Started
  BY DEF IInv, CallInv, CallOk, Ended, Answered, Refused, Unheard, Started, Status, Success
<1>2. /\ Total(txs, acc) <= Total(txs, ok)
      /\ Cardinality(bad) <= Cardinality(Refused)
      /\ Cardinality(Unheard) <= Cardinality(failed)
  <2>. HIDE DEF acc, ok, bad, failed
  <2>. QED
    BY <1>1, PartOf
<1>3. /\ stats \in [Counters -> Nat] /\ Exact
      /\ \A S : Transactions(S) = Total(txs, S)
  BY DEF IInv, Types, Transactions, Total
<1>4. \A k \in Counters : stats[k] \in Nat /\ stats[k] <= stats[k]
  BY <1>3
<1>. QED
  BY <1>2, <1>3, <1>4 DEF Exact, Ledger, Refused, Unheard, Counters

\* Whatever the calls of one client do at the same time, the counters in
\* `struct Stats` add up to what the calls did.
THEOREM CountersAddUp == Spec => []Ledger
<1>1. IInv => Ledger
  BY LedgerHolds
<1>. QED
  BY <1>1, Inductive, PTL

\* The server reads back the transactions that frame_batch framed, and no caller
\* is told less of what it took than is true.
THEOREM TakenIsTold == Spec => []ToldWhatWasTaken
<1>1. ASSUME IInv, NEW c \in Call
      PROVE  /\ \A k \in DOMAIN forwarded[c] : forwarded[c][k] = Bytes(c, k)
             /\ outcome[c] = "accepted" => Len(forwarded[c]) = Len(txs[c])
             /\ outcome[c] \in {"rejected", "serialize", "unauthorized", "rate_limited",
                               "rpc"} =>
                   forwarded[c] = <<>>
             /\ outcome[c] = "bad_request" => Len(forwarded[c]) < Len(txs[c])
  <2>1. CallOk(c) /\ TakenOk(c) /\ answered[c] \in Status \cup {0}
    BY <1>1 DEF IInv, CallInv, TakenInv, Types
  <2>2. ASSUME outcome[c] \in {"unauthorized", "rate_limited", "bad_request"}
        PROVE  outcome[c] = FromStatus(answered[c])
    BY <2>1, <2>2 DEF CallOk, Refusals
  <2>3. /\ outcome[c] \in {"unauthorized", "rate_limited"} => answered[c] \in {401, 429}
        /\ outcome[c] = "bad_request" => answered[c] = 400
    BY <2>2 DEF FromStatus
  <2>. QED
    BY <2>1, <2>3 DEF CallOk, TakenOk
<1>2. IInv => ToldWhatWasTaken
  BY <1>1 DEF ToldWhatWasTaken
<1>. QED
  BY <1>2, Inductive, PTL

\* The length of a transaction that was let through fits the two bytes it gets
\* in a batch: the conversion to u16 in frame_batch loses nothing.
THEOREM LengthsFit ==
    Spec => [](\A c \in Call : \A k \in DOMAIN txs[c] : txs[c][k] \div Byte < Byte)
<1>1. ASSUME NEW n \in Nat, Fits(n)
      PROVE  n \div Byte < Byte
  <2>1. n < Byte * Byte /\ Byte \in Nat \ {0} /\ MaxTx \in Nat
    BY <1>1, SizeAssumption DEF Fits
  <2>2. n \div Byte \in Nat /\ Byte * (n \div Byte) <= n
    BY <2>1
  <2>3. ASSUME NEW q \in Nat, Byte * q <= n
        PROVE  q < Byte
    BY <2>1, <2>3
  <2>. QED
    BY <2>2, <2>3
<1>2. IInv => \A c \in Call : \A k \in DOMAIN txs[c] : txs[c][k] \div Byte < Byte
  <2>. SUFFICES ASSUME IInv, NEW c \in Call, NEW k \in DOMAIN txs[c]
                PROVE  txs[c][k] \div Byte < Byte
    OBVIOUS
  <2>1. txs[c][k] \in Nat
    BY BytesType DEF IInv
  <2>2. Fits(txs[c][k])
    BY DEF IInv, TakenInv, TakenOk
  <2>. QED
    BY <1>1, <2>1, <2>2
<1>. QED
  BY <1>2, Inductive, PTL

-----------------------------------------------------------------------------
(* The submission contract. *)

\* What a step of call c may be for the contract.
LEMMA SubmitMapped ==
    ASSUME IInv, [Next]_vars
    PROVE  [Submit!SubmitNext]_Submit!submitVars
<1>1. CASE Finished \/ UNCHANGED vars
  <2>1. left' = left /\ \A d \in Call : Phase(d)' = Phase(d) /\ Told(d)' = Told(d)
    BY <1>1 DEF Finished, vars, request, Phase, Told
  <2>. HIDE DEF Phase, Told
  <2>. QED
    BY <2>1 DEF Submit!submitVars
<1>2. ASSUME NEW c \in Call,
             \/ \E o \in {"send", "rpc", "batch"} : \E lens \in Arguments(o) :
                   Begin(c, o, lens) \/ RejectLocally(c, o, lens)
             \/ Unserializable(c) \/ CallStep(c) \/ Forward(c) \/ Abandon(c)
      PROVE  [Submit!SubmitNext]_Submit!submitVars
  <2>1. \A d \in Call \ {c} : Phase(d)' = Phase(d) /\ Told(d)' = Told(d)
    BY <1>2, OthersSame DEF IInv, Same, Phase, Told
  <2>2. CallOk(c) /\ outcome \in [Call -> Outcomes] /\ pc \in [Call -> PC]
    BY DEF IInv, CallInv, Types
  <2>3. ASSUME UNCHANGED left, Phase(c)' = Phase(c), Told(c)' = Told(c)
        PROVE  UNCHANGED Submit!submitVars
    <3>1. \A d \in Call : Phase(d)' = Phase(d) /\ Told(d)' = Told(d)
      BY <2>1, <2>3
    <3>. HIDE DEF Phase, Told
    <3>. QED
      BY <2>3, <3>1 DEF Submit!submitVars
  <2>4. ASSUME NEW r \in Outcomes \ {"pending", "rejected", "serialize"}, Return(c, r), UNCHANGED left,
               pc[c] \in Awaits,
               r \in {"accepted"} \cup Refusals => left[c] = 1
        PROVE  \E s \in Submit!Results : Submit!Close(c, s)
    <3>1. Phase(c) = "open" /\ Phase(c)' = "closed"
      BY <2>2, <2>4 DEF Return, Phase, Awaits, PC
    <3>2. PICK s \in Submit!Results :
             Told(c)' = s /\ (s \in {"accepted", "refused"} => left[c] = 1)
      <4>1. outcome'[c] = r
        BY <2>2, <2>4 DEF Return
      <4>. QED
        BY <2>4, <4>1 DEF Told, Outcomes, Refusals, Submit!Results
    <3>. HIDE DEF Phase, Told
    <3>. QED
      BY <2>1, <2>4, <3>1, <3>2 DEF Submit!Close
  <2>5. ASSUME NEW o \in {"send", "rpc", "batch"}, NEW lens \in Arguments(o),
               Begin(c, o, lens)
        PROVE  Submit!Open(c)
    <3>1. Phase(c) = "new" /\ Phase(c)' = "open" /\ Told(c)' = Told(c) /\ left' = left
      BY <2>2, <2>5 DEF Begin, Goto, Phase, Told
    <3>. HIDE DEF Phase, Told
    <3>. QED
      BY <2>1, <3>1 DEF Submit!Open
  <2>6. ASSUME NEW o \in {"send", "rpc", "batch"}, NEW lens \in Arguments(o),
               RejectLocally(c, o, lens)
        PROVE  Submit!Reject(c)
    <3>1. /\ Phase(c) = "new" /\ Phase(c)' = "closed" /\ Told(c)' = "rejected"
          /\ left' = left
      BY <2>2, <2>6 DEF RejectLocally, Return, request, Phase, Told, Refusals
    <3>. HIDE DEF Phase, Told
    <3>. QED
      BY <2>1, <3>1 DEF Submit!Reject
  <2>15. ASSUME Unserializable(c) PROVE Submit!Reject(c)
    <3>1. /\ Phase(c) = "new" /\ Phase(c)' = "closed" /\ Told(c)' = "rejected"
          /\ left' = left
      BY <2>2, <2>15 DEF Unserializable, Return, request, Phase, Told, Refusals
    <3>. HIDE DEF Phase, Told
    <3>. QED
      BY <2>1, <3>1 DEF Submit!Reject
  <2>7. ASSUME Leave(c) PROVE Submit!Leave(c)
    <3>1. /\ Phase(c) = "open" /\ Phase(c)' = "open" /\ Told(c) = "pending"
          /\ Told(c)' = "pending" /\ left[c] = 0 /\ left' = [left EXCEPT ![c] = left[c] + 1]
      BY <2>2, <2>7 DEF Leave, Goto, Phase, Told, CallOk, Refusals
    <3>2. left' = [left EXCEPT ![c] = 1]
      BY <3>1
    <3>3. \A d \in Call : Phase(d)' = Phase(d) /\ Told(d)' = Told(d)
      BY <2>1, <3>1
    <3>. HIDE DEF Phase, Told
    <3>. QED
      BY <3>1, <3>2, <3>3 DEF Submit!Leave
  <2>8. ASSUME NEW why \in {"transport", "timeout"}, TransportFails(c, why)
        PROVE  \E s \in Submit!Results : Submit!Close(c, s)
    BY <2>4, <2>8 DEF TransportFails, request, Awaits, PC, Outcomes, Refusals
  <2>9. ASSUME NEW s \in Status, Headers(c, s)
        PROVE  \/ UNCHANGED Submit!submitVars
               \/ \E r \in Submit!Results : Submit!Close(c, r)
    <3>1. CASE \E label \in {"refusal", "result"} : Goto(c, label)
      <4>1. UNCHANGED left /\ Phase(c)' = Phase(c) /\ Told(c)' = Told(c)
        BY <2>2, <2>9, <3>1 DEF Headers, Goto, request, Phase, Told
      <4>. QED
        BY <2>3, <4>1
    <3>2. CASE Return(c, "accepted")
      <4>1. UNCHANGED left /\ pc[c] \in Awaits /\ left[c] = 1
        BY <2>2, <2>9 DEF Headers, request, Awaits, PC, CallOk
      <4>. QED
        BY <2>4, <3>2, <4>1 DEF Outcomes
    <3>. QED
      BY <2>9, <3>1, <3>2 DEF Headers
  <2>10. ASSUME RefusalBody(c)
         PROVE  \E s \in Submit!Results : Submit!Close(c, s)
    <3>. DEFINE r == FromStatus(answered[c])
    <3>1. r \in Outcomes \ {"pending", "rejected", "serialize"}
      BY DEF FromStatus, Refusals, Outcomes
    <3>3. Return(c, r)
      BY <2>10 DEF RefusalBody
    <3>. HIDE DEF r
    <3>2. UNCHANGED left /\ pc[c] \in Awaits /\ left[c] = 1
      BY <2>2, <2>10 DEF RefusalBody, request, Awaits, PC, CallOk
    <3>. QED
      BY <2>4, <3>1, <3>2, <3>3
  <2>11. ASSUME RpcResult(c) \/ RpcError(c)
         PROVE  \E s \in Submit!Results : Submit!Close(c, s)
    <3>1. UNCHANGED left /\ pc[c] \in Awaits /\ left[c] = 1
      BY <2>2, <2>11 DEF RpcResult, RpcError, request, Awaits, PC, CallOk
    <3>2. PICK r \in {"accepted", "rpc"} : Return(c, r)
      BY <2>11 DEF RpcResult, RpcError
    <3>3. r \in Outcomes \ {"pending", "rejected", "serialize"}
      BY <3>2 DEF Outcomes, Refusals
    <3>. QED
      BY <2>4, <3>1, <3>2, <3>3
  <2>12. ASSUME NEW why \in {"decode", "timeout"}, RpcUnreadable(c, why)
         PROVE  \E s \in Submit!Results : Submit!Close(c, s)
    BY <2>4, <2>12 DEF RpcUnreadable, request, Awaits, PC, Outcomes, Refusals
  <2>13. ASSUME Forward(c) PROVE UNCHANGED Submit!submitVars
    <3>1. UNCHANGED left /\ Phase(c)' = Phase(c) /\ Told(c)' = Told(c)
      BY <2>13 DEF Forward, request, Phase, Told
    <3>. QED
      BY <2>3, <3>1
  <2>14. ASSUME Abandon(c)
         PROVE  \E s \in Submit!Results : Submit!Close(c, s)
    <3>1. UNCHANGED left /\ pc[c] \in Awaits /\ Return(c, "abandoned")
      BY <2>14 DEF Abandon, request
    <3>2. /\ "abandoned" \in Outcomes \ {"pending", "rejected", "serialize"}
          /\ "abandoned" \notin {"accepted"} \cup Refusals
      BY DEF Outcomes, Refusals
    <3>. QED
      BY <2>4, <3>1, <3>2
  <2>. QED
    BY <1>2, <2>5, <2>6, <2>7, <2>8, <2>9, <2>10, <2>11, <2>12, <2>13, <2>14, <2>15
       DEF CallStep, Submit!SubmitNext
<1>. QED
  BY <1>1, <1>2 DEF Next

\* Every submission over HTTP implements SubmitOnce: no call sends its request
\* twice, and a caller that hears of a refusal or a success hears of a request
\* that left (client.rs has no retry around send, send_rpc and send_batch).
THEOREM SubmitRefinement == Spec => SubmitRefined
<1>1. Init => Submit!SubmitInit
  BY DEF Init, Submit!SubmitInit, Phase, Told, Refusals
<1>2. IInv /\ [Next]_vars => [Submit!SubmitNext]_Submit!submitVars
  BY SubmitMapped
<1>. QED
  BY <1>1, <1>2, Inductive, PTL DEF Spec, SubmitRefined, Submit!SubmitSpec
=============================================================================
