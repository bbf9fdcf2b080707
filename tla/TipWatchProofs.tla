--------------------------- MODULE TipWatchProofs ---------------------------
(***************************************************************************)
(* The safety of TipWatch for any timeouts and backoffs, any frames and    *)
(* any number of receivers.                                                *)
(***************************************************************************)
EXTENDS TipWatch, FunctionTheorems, FiniteSetTheorems, TLAPS

(* Powers of two, by way of the subsets of 1..n: half of those of 1..n+1 do *)
(* not hold n+1, and adding it to each of them gives the other half.        *)

\* The powers of two are natural numbers, each twice the one before.
LEMMA PowerOfTwo ==
    ASSUME NEW n \in Nat
    PROVE  2^n \in Nat /\ 2^(n + 1) = 2 * 2^n
<1>. DEFINE Without == SUBSET (1..n)
            With == {T \in SUBSET (1..(n + 1)) : n + 1 \in T}
<1>1. /\ IsFiniteSet(1..n) /\ Cardinality(1..n) = n
      /\ IsFiniteSet(1..(n + 1)) /\ Cardinality(1..(n + 1)) = n + 1
  BY FS_Interval
<1>2. IsFiniteSet(Without) /\ Cardinality(Without) = 2^n
  BY <1>1, FS_SUBSET
<1>3. Cardinality(SUBSET (1..(n + 1))) = 2^(n + 1)
  BY <1>1, FS_SUBSET
<1>4. SUBSET (1..(n + 1)) = Without \cup With /\ Without \cap With = {}
  <2>1. 1..(n + 1) = (1..n) \cup {n + 1} /\ n + 1 \notin 1..n
    OBVIOUS
  <2>. QED
    BY <2>1
<1>5. ExistsBijection(Without, With)
  <2>. DEFINE f == [T \in Without |-> T \cup {n + 1}]
  <2>1. 1..(n + 1) = (1..n) \cup {n + 1} /\ n + 1 \notin 1..n
    OBVIOUS
  <2>2. f \in [Without -> With]
    BY <2>1
  <2>3. \A S, T \in Without : f[S] = f[T] => S = T
    BY <2>1
  <2>4. \A T \in With : \E S \in Without : f[S] = T
    <3>1. ASSUME NEW T \in With
          PROVE  T \ {n + 1} \in Without /\ f[T \ {n + 1}] = T
      BY <2>1
    <3>. QED
      BY <3>1
  <2>5. f \in Bijection(Without, With)
    BY <2>2, <2>3, <2>4, Fun_IsBij
  <2>. QED
    BY <2>5 DEF ExistsBijection
<1>6. IsFiniteSet(With) /\ Cardinality(With) = Cardinality(Without)
  BY <1>2, <1>5, FS_Bijection
<1>7. Cardinality(Without) \in Nat
  BY <1>2, FS_CardinalityType
<1>. HIDE DEF Without, With
<1>8. Cardinality(Without \cup With) = Cardinality(Without) + Cardinality(With)
  <2>1. Cardinality(Without \cup With)
           = Cardinality(Without) + Cardinality(With) - Cardinality(Without \cap With)
    BY <1>2, <1>6, FS_Union
  <2>2. Cardinality(Without \cap With) = 0
    BY <1>4, FS_EmptySet
  <2>. QED
    BY <1>6, <1>7, <2>1, <2>2
<1>. QED
  BY <1>2, <1>3, <1>4, <1>6, <1>7, <1>8

\* The capped backoff after one more loss.
LEMMA DoubledPower ==
    ASSUME NEW n \in Nat
    PROVE  Least(2 * Least(MinBackoff * 2^n, MaxBackoff), MaxBackoff)
              = Least(MinBackoff * 2^(n + 1), MaxBackoff)
<1>. DEFINE p == 2^n
<1>1. p \in Nat /\ 2^(n + 1) = 2 * p
  BY PowerOfTwo
<1>. HIDE DEF p
<1>2. MinBackoff \in Nat /\ MaxBackoff \in Nat
  BY TimeAssumption
<1>. DEFINE m == MinBackoff * p
<1>3. m \in Nat /\ MinBackoff * (2 * p) = 2 * m
  BY <1>1, <1>2
<1>. HIDE DEF m
<1>4. Least(2 * Least(m, MaxBackoff), MaxBackoff) = Least(2 * m, MaxBackoff)
  BY <1>2, <1>3 DEF Least
<1>5. Least(MinBackoff * 2^(n + 1), MaxBackoff) = Least(2 * m, MaxBackoff)
  BY <1>1, <1>3
<1>. QED
  BY <1>4, <1>5 DEF m, p

-----------------------------------------------------------------------------
(* The inductive invariant. *)

\* While the task reads, the time since the last frame and what is left of the
\* deadline make up the read timeout.
ClockInv ==
    /\ phase = "reading" => quiet + timer = ReadTimeout
    /\ phase # "reading" => quiet = 0

\* The backoff that the next loss will wait for, and the one being waited for.
BackoffInv ==
    dry < MaxDry =>
        /\ phase \in {"connecting", "reading"} =>
              backoff = Least(MinBackoff * 2^dry, MaxBackoff)
        /\ phase = "sleeping" =>
              dry > 0 /\ backoff = Least(MinBackoff * 2^(dry - 1), MaxBackoff)

IInv == TypeOK /\ ClockInv /\ BackoffInv /\ EndsOnlyDropped

\* Freshly spawned, the task connects with the smallest backoff.
LEMMA InitIInv == Init => IInv
<1>. SUFFICES ASSUME Init PROVE IInv
  OBVIOUS
<1>1. Least(MinBackoff * 2^0, MaxBackoff) = MinBackoff
  <2>1. MinBackoff \in Nat /\ MaxBackoff \in Nat /\ MinBackoff <= MaxBackoff
    BY TimeAssumption
  <2>2. 2^0 = 1
    OBVIOUS
  <2>. QED
    BY <2>1, <2>2 DEF Least
<1>2. TypeOK
  <2>1. rx \in [Receiver -> {"gone", "idle", "waiting"}]
    BY DEF Init
  <2>2. timer \in 0..ConnectTimeout /\ backoff \in MinBackoff..MaxBackoff
    BY TimeAssumption DEF Init
  <2>3. quiet \in 0..ReadTimeout + 1 /\ dry \in 0..MaxDry
    BY TimeAssumption, BoundAssumption DEF Init
  <2>. QED
    BY <2>1, <2>2, <2>3 DEF Init, TypeOK
<1>3. ClockInv /\ EndsOnlyDropped
  BY DEF Init, ClockInv, EndsOnlyDropped
<1>4. BackoffInv
  BY <1>1 DEF Init, BackoffInv
<1>. QED
  BY <1>2, <1>3, <1>4 DEF IInv

\* Every step keeps the types; the clock bounds `quiet`.
LEMMA TypeStep ==
    ASSUME TypeOK, ClockInv, [Next]_vars
    PROVE  TypeOK'
<1>. USE TimeAssumption, BoundAssumption, FrameAssumption
<1>. USE DEF TypeOK, ClockInv, Least, readers, task
<1>1. CASE Connected
  BY <1>1 DEF Connected
<1>2. CASE ConnectFails
  BY <1>2 DEF ConnectFails, Lost
<1>3. ASSUME NEW f \in Frame, Deliver(f)
      PROVE  TypeOK'
  <2>1. /\ phase' \in {"reading", "ended"} /\ timer' \in 0..ReadTimeout
        /\ backoff' = MinBackoff /\ quiet' = 0 /\ dry' = 0
        /\ rx' = rx /\ handed' = handed
    BY <1>3 DEF Deliver, AfterFrame
  <2>2. /\ latest' \in Frame \cup {None}
        /\ fresh' \subseteq {r \in Receiver : rx[r] # "gone"}
    BY <1>3 DEF Deliver
  <2>. QED
    BY <2>1, <2>2
<1>4. CASE Junk
  BY <1>4 DEF Junk, JunkDeadline
<1>5. CASE StreamEnds
  BY <1>5 DEF StreamEnds, Lost
<1>6. CASE Wake
  BY <1>6 DEF Wake, Doubled
<1>7. CASE Tick
  BY <1>7 DEF Tick
<1>8. ASSUME NEW r \in Receiver, Subscribe(r)
      PROVE  TypeOK'
  BY <1>8 DEF Subscribe, Set, Inherited
<1>9. ASSUME NEW r \in Receiver, Await(r)
      PROVE  TypeOK'
  BY <1>9 DEF Await, Set
<1>10. ASSUME NEW r \in Receiver, Changed(r)
       PROVE  TypeOK'
  BY <1>10 DEF Changed, Set
<1>11. ASSUME NEW r \in Receiver, ChannelClosed(r) \/ GiveUp(r)
       PROVE  TypeOK'
  BY <1>11 DEF ChannelClosed, GiveUp, Set
<1>12. ASSUME NEW r \in Receiver, Drop(r)
       PROVE  TypeOK'
  BY <1>12 DEF Drop, Set
<1>13. CASE Cancelled
  BY <1>13 DEF Cancelled
<1>14. CASE Finished \/ UNCHANGED vars
  BY <1>14 DEF Finished, vars
<1>. QED
  BY <1>1, <1>2, <1>3, <1>4, <1>5, <1>6, <1>7, <1>8, <1>9, <1>10, <1>11, <1>12,
     <1>13, <1>14 DEF Next

\* Time moves the two clocks together, and junk moves neither.
LEMMA ClockStep ==
    ASSUME TypeOK, ClockInv, [Next]_vars
    PROVE  ClockInv'
<1>. USE TimeAssumption DEF TypeOK, ClockInv, readers, task
<1>1. CASE Connected
  BY <1>1 DEF Connected
<1>2. CASE ConnectFails \/ StreamEnds
  BY <1>2 DEF ConnectFails, StreamEnds, Lost
<1>3. ASSUME NEW f \in Frame, Deliver(f)
      PROVE  ClockInv'
  BY <1>3 DEF Deliver
<1>4. CASE Junk
  BY <1>4 DEF Junk, JunkDeadline
<1>5. CASE Wake
  BY <1>5 DEF Wake
<1>6. CASE Tick
  BY <1>6 DEF Tick, Least
<1>7. ASSUME NEW r \in Receiver,
             \/ Subscribe(r) \/ Await(r) \/ Changed(r)
             \/ ChannelClosed(r) \/ GiveUp(r) \/ Drop(r)
      PROVE  ClockInv'
  BY <1>7 DEF Subscribe, Await, Changed, ChannelClosed, GiveUp, Drop
<1>8. CASE Cancelled
  BY <1>8 DEF Cancelled
<1>9. CASE Finished \/ UNCHANGED vars
  BY <1>9 DEF Finished, vars
<1>. QED
  BY <1>1, <1>2, <1>3, <1>4, <1>5, <1>6, <1>7, <1>8, <1>9 DEF Next

\* A frame resets the backoff, a sleep doubles it, and nothing else changes it.
LEMMA BackoffStep ==
    ASSUME TypeOK, BackoffInv, [Next]_vars
    PROVE  BackoffInv'
<1>. USE DEF BackoffInv, readers, task
<1>0. dry \in Nat /\ MaxDry \in Nat
  BY BoundAssumption DEF TypeOK
<1>1. CASE Connected
  BY <1>1 DEF Connected
<1>2. CASE ConnectFails \/ StreamEnds
  <2>1. SUFFICES ASSUME dry' < MaxDry, phase' = "sleeping"
                 PROVE  dry' > 0 /\ backoff' = Least(MinBackoff * 2^(dry' - 1), MaxBackoff)
    BY <1>2 DEF ConnectFails, StreamEnds, Lost
  <2>2. dry < MaxDry /\ dry' > 0 /\ dry' - 1 = dry
    BY <1>0, <1>2, <2>1 DEF ConnectFails, StreamEnds, Lost, Least
  <2>. QED
    BY <1>2, <2>2 DEF ConnectFails, StreamEnds
<1>3. ASSUME NEW f \in Frame, Deliver(f)
      PROVE  BackoffInv'
  <2>1. dry' = 0 /\ backoff' = MinBackoff /\ phase' \in {"reading", "ended"}
    BY <1>3 DEF Deliver, AfterFrame
  <2>2. Least(MinBackoff * 2^0, MaxBackoff) = MinBackoff
    <3>1. MinBackoff \in Nat /\ MaxBackoff \in Nat /\ MinBackoff <= MaxBackoff
      BY TimeAssumption
    <3>2. 2^0 = 1
      OBVIOUS
    <3>. QED
      BY <3>1, <3>2 DEF Least
  <2>. QED
    BY <2>1, <2>2
<1>4. CASE Junk
  BY <1>4 DEF Junk
<1>5. CASE Wake
  <2>1. dry' = dry /\ phase = "sleeping" /\ phase' = "connecting"
    BY <1>5 DEF Wake
  <2>2. SUFFICES ASSUME dry < MaxDry
                 PROVE  backoff' = Least(MinBackoff * 2^dry, MaxBackoff)
    BY <2>1
  <2>3. dry - 1 \in Nat /\ (dry - 1) + 1 = dry
    BY <1>0, <2>1, <2>2
  <2>4. backoff = Least(MinBackoff * 2^(dry - 1), MaxBackoff)
    BY <2>1, <2>2
  <2>5. backoff' = Least(2 * backoff, MaxBackoff)
    BY <1>5 DEF Wake, Doubled
  <2>6. Least(2 * Least(MinBackoff * 2^(dry - 1), MaxBackoff), MaxBackoff)
           = Least(MinBackoff * 2^((dry - 1) + 1), MaxBackoff)
    BY <2>3, DoubledPower
  <2>. QED
    BY <2>3, <2>4, <2>5, <2>6
<1>6. CASE Tick
  BY <1>6 DEF Tick
<1>7. ASSUME NEW r \in Receiver,
             \/ Subscribe(r) \/ Await(r) \/ Changed(r)
             \/ ChannelClosed(r) \/ GiveUp(r) \/ Drop(r)
      PROVE  BackoffInv'
  BY <1>7 DEF Subscribe, Await, Changed, ChannelClosed, GiveUp, Drop
<1>8. CASE Cancelled
  BY <1>8 DEF Cancelled
<1>9. CASE Finished \/ UNCHANGED vars
  BY <1>9 DEF Finished, vars
<1>. QED
  BY <1>1, <1>2, <1>3, <1>4, <1>5, <1>6, <1>7, <1>8, <1>9 DEF Next

\* The loop ends only without a receiver, and the handle's never comes back.
LEMMA EndStep ==
    ASSUME TypeOK, EndsOnlyDropped, [Next]_vars
    PROVE  EndsOnlyDropped'
<1>. USE DEF EndsOnlyDropped, alive, TypeOK, readers, task
<1>0. Handle \in Receiver
  BY DEF Receiver
<1>1. CASE Connected \/ Junk \/ Wake \/ Tick
  BY <1>1 DEF Connected, Junk, Wake, Tick
<1>2. CASE ConnectFails \/ StreamEnds
  BY <1>0, <1>2 DEF ConnectFails, StreamEnds, Lost, Listened
<1>3. ASSUME NEW f \in Frame, Deliver(f)
      PROVE  EndsOnlyDropped'
  BY <1>0, <1>3 DEF Deliver, Listened
<1>4. ASSUME NEW r \in Receiver,
             \/ Subscribe(r) \/ Await(r) \/ Changed(r)
             \/ ChannelClosed(r) \/ GiveUp(r) \/ Drop(r)
      PROVE  EndsOnlyDropped'
  BY <1>0, <1>4 DEF Subscribe, Await, Changed, ChannelClosed, GiveUp, Drop, Set
<1>5. CASE Cancelled
  BY <1>5 DEF Cancelled
<1>6. CASE Finished \/ UNCHANGED vars
  BY <1>6 DEF Finished, vars
<1>. QED
  BY <1>1, <1>2, <1>3, <1>4, <1>5, <1>6 DEF Next

\* The invariant holds in every reachable state of the watch task, its stream, its
\* clock and its receivers (watch_with).
THEOREM Inductive == Spec => []IInv
<1>1. IInv /\ [Next]_vars => IInv'
  BY TypeStep, ClockStep, BackoffStep, EndStep DEF IInv
<1>. QED
  BY InitIInv, <1>1, PTL DEF Spec

-----------------------------------------------------------------------------

\* The state of the watch task and of the receivers has its type.
THEOREM TypeCorrect == Spec => []TypeOK
<1>1. IInv => TypeOK
  BY DEF IInv
<1>. QED
  BY <1>1, Inductive, PTL

\* watch's sleeps double from MinBackoff up to the cap, for as many connections
\* lost in a row as there are: no server can drive the loop faster.
THEOREM BackoffDoubles == Spec => []BackoffGrows
<1>1. IInv => BackoffGrows
  BY DEF IInv, BackoffInv, BackoffGrows
<1>. QED
  BY <1>1, Inductive, PTL

\* A stream without a frame for READ_TIMEOUT is left: next()'s deadline does not
\* move with pings or unreadable frames.
THEOREM SilenceBounded == Spec => []SilentStreamLeft
<1>1. IInv => SilentStreamLeft
  BY TimeAssumption DEF IInv, TypeOK, ClockInv, SilentStreamLeft
<1>. QED
  BY <1>1, Inductive, PTL

\* The watch task ends only after the TipWatch handle was dropped.
THEOREM TaskOutlivesLosses == Spec => []EndsOnlyDropped
<1>1. IInv => EndsOnlyDropped
  BY DEF IInv
<1>. QED
  BY <1>1, Inductive, PTL
=============================================================================
