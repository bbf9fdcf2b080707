--------------------------- MODULE KeepAliveProofs ---------------------------
(***************************************************************************)
(* The safety of KeepAlive for any number of connections, any size of the  *)
(* pool and any times that TimeAssumption allows.                          *)
(*                                                                         *)
(* Why a connection stays warm is not obvious: the one that a ping used    *)
(* may be closed on return, when the pool is full by then. But the         *)
(* connections that have been idle since before the ping are fewer than    *)
(* the pool holds, so a full pool always has one that came back later.     *)
(***************************************************************************)
EXTENDS KeepAlive, FiniteSetTheorems, TLAPS

\* Idle since before the latest ping, or so long that they might not last until
\* the next.
Stale == {c \in Idle : age[c] + next > Interval}

\* At most one ping is in flight, and its timeout comes before the next tick; a
\* connection in use, or closed, starts to age anew.
PingInv ==
    /\ \A c \in Conn : state[c] # "idle" => age[c] = 0
    /\ \A c, d \in Conn : state[c] = "ping" /\ state[d] = "ping" => c = d
    /\ task = "pinging" => left < next

PoolInv ==
    /\ IsFiniteSet(Idle)
    /\ task # "stopped" => Cardinality(Stale) < MaxIdle

\* Between two pings a connection is in use, or fresh.
WarmInv ==
    task = "ticking" /\ warm =>
        \E c \in Conn : state[c] = "send" \/ c \in Idle \ Stale

IInv == TypeOK /\ PingInv /\ PoolInv /\ WarmInv

\* A connection outlives an interval between pings on both sides.
LEMMA Limit == IdleLimit \in Nat \ {0} /\ Interval < IdleLimit
BY TimeAssumption DEF IdleLimit

\* A subset of the idle connections that are left is no larger.
LEMMA FewerStale ==
    ASSUME PoolInv, Cardinality(Stale) < MaxIdle, NEW S \in SUBSET Stale
    PROVE  IsFiniteSet(S) /\ Cardinality(S) < MaxIdle
<1>1. IsFiniteSet(Stale)
  BY FS_Subset DEF PoolInv, Stale
<1>2. Cardinality(S) <= Cardinality(Stale)
  BY <1>1, FS_Subset
<1>3. IsFiniteSet(S)
  BY <1>1, FS_Subset
<1>. QED
  BY <1>1, <1>2, <1>3, TimeAssumption, FS_CardinalityType

\* A new client with its ticker satisfies the invariant.
LEMMA InitIInv == Init => IInv
<1>. SUFFICES ASSUME Init PROVE IInv
  OBVIOUS
<1>1. Idle = {} /\ Stale = {}
  BY DEF Init, Idle, Stale
<1>2. PoolInv
  BY <1>1, FS_EmptySet, TimeAssumption DEF PoolInv
<1>3. TypeOK
  <2>1. Cardinality({c \in Conn : state[c] = "idle"}) <= MaxIdle
    BY <1>1, FS_EmptySet, TimeAssumption DEF Idle
  <2>2. age \in [Conn -> 0..IdleLimit - 1] /\ next \in 0..Interval /\ left \in 0..Timeout
    BY Limit, TimeAssumption DEF Init
  <2>. QED
    BY <2>1, <2>2 DEF Init, TypeOK
<1>. QED
  BY <1>2, <1>3 DEF Init, IInv, PingInv, WarmInv

-----------------------------------------------------------------------------
(* What a request does to the pool. *)

\* A connection that is taken leaves the pool.
LEMMA TakeIdle ==
    ASSUME TypeOK, NEW c \in Conn, NEW what \in {"ping", "send"}, Take(c, what)
    PROVE  /\ Idle' = Idle \ {c}
           /\ state' \in [Conn -> {"closed", "idle", "ping", "send"}]
           /\ age' \in [Conn -> 0..IdleLimit - 1]
           /\ state'[c] = what
           /\ \A d \in Conn \ {c} : state'[d] = state[d] /\ age'[d] = age[d]
BY Limit DEF TypeOK, Take, Idle

\* There is room for the rest of the pool once a connection was taken.
LEMMA TakeLeavesRoom ==
    ASSUME TypeOK, PoolInv, NEW c \in Conn, NEW what \in {"ping", "send"}, Take(c, what)
    PROVE  IsFiniteSet(Idle') /\ Cardinality(Idle') < MaxIdle
<1>1. Idle' = Idle \ {c}
  BY TakeIdle
<1>2. IsFiniteSet(Idle) /\ Cardinality(Idle) <= MaxIdle
  BY DEF TypeOK, PoolInv, Idle
<1>3. CASE Idle = {}
  BY <1>1, <1>3, FS_EmptySet, TimeAssumption
<1>4. CASE Idle # {}
  <2>1. c \in Idle
    BY <1>4 DEF Take, Candidates
  <2>2. IsFiniteSet(Idle') /\ Cardinality(Idle') = Cardinality(Idle) - 1
    BY <1>1, <1>2, <2>1, FS_RemoveElement
  <2>3. Cardinality(Idle) \in Nat /\ MaxIdle \in Nat
    BY <1>2, FS_CardinalityType, TimeAssumption
  <2>. QED
    BY <1>2, <2>2, <2>3
<1>. QED
  BY <1>3, <1>4

\* A connection that is given back joins the pool, or the pool is full.
LEMMA GiveBackIdle ==
    ASSUME TypeOK, PoolInv, NEW c \in Conn, state[c] \in {"ping", "send"}, GiveBack(c)
    PROVE  /\ IsFiniteSet(Idle')
           /\ Cardinality(Idle') <= MaxIdle
           /\ state' \in [Conn -> {"closed", "idle", "ping", "send"}]
           /\ \A d \in Conn \ {c} : state'[d] = state[d]
           /\ \/ state'[c] = "idle" /\ Idle' = Idle \cup {c}
              \/ state'[c] = "closed" /\ Idle' = Idle /\ Cardinality(Idle) = MaxIdle
<1>1. IsFiniteSet(Idle) /\ Cardinality(Idle) \in Nat /\ Cardinality(Idle) <= MaxIdle
  BY FS_CardinalityType DEF TypeOK, PoolInv, Idle
<1>2. MaxIdle \in Nat
  BY TimeAssumption
<1>3. CASE Cardinality(Idle) < MaxIdle
  <2>1. Idle' = Idle \cup {c} /\ c \notin Idle
    BY <1>3 DEF TypeOK, GiveBack, Idle
  <2>2. IsFiniteSet(Idle') /\ Cardinality(Idle') = Cardinality(Idle) + 1
    BY <1>1, <2>1, FS_AddElement
  <2>. QED
    BY <1>1, <1>2, <1>3, <2>1, <2>2 DEF TypeOK, GiveBack
<1>4. CASE ~(Cardinality(Idle) < MaxIdle)
  <2>1. Idle' = Idle /\ Cardinality(Idle) = MaxIdle
    BY <1>1, <1>2, <1>4 DEF TypeOK, GiveBack, Idle
  <2>. QED
    BY <1>1, <1>2, <1>4, <2>1 DEF TypeOK, GiveBack
<1>. QED
  BY <1>3, <1>4

\* A connection that is given back is fresh, or leaves a pool that holds a fresh one.
LEMMA GiveBackWarm ==
    ASSUME TypeOK, PingInv, PoolInv, task # "stopped",
           NEW c \in Conn, state[c] \in {"ping", "send"}, GiveBack(c),
           UNCHANGED <<age, next>>
    PROVE  Stale' \subseteq Stale /\ Idle' \ Stale' # {}
<1>. USE DEF Stale
<1>1. age[c] = 0 /\ next \in Nat /\ next <= Interval
  BY TimeAssumption DEF TypeOK, PingInv
<1>2. CASE state'[c] = "idle" /\ Idle' = Idle \cup {c}
  <2>1. c \in Idle' \ Stale'
    BY <1>1, <1>2, TimeAssumption
  <2>. QED
    BY <1>2, <2>1
<1>3. CASE Idle' = Idle /\ Cardinality(Idle) = MaxIdle
  <2>1. Stale' = Stale
    BY <1>3
  <2>2. Stale # Idle
    BY <1>3, TimeAssumption DEF PoolInv
  <2>. QED
    BY <1>3, <2>1, <2>2
<1>. QED
  BY <1>2, <1>3, GiveBackIdle

-----------------------------------------------------------------------------
(* The steps. *)

\* A ping takes an idle connection, or opens one when none is left.
LEMMA PingStartsStep ==
    ASSUME IInv, PingStarts
    PROVE  IInv'
<1>. USE DEF IInv
<1>1. PICK c \in Conn : Take(c, "ping")
  BY DEF PingStarts
<1>2. /\ Idle' = Idle \ {c}
      /\ state' \in [Conn -> {"closed", "idle", "ping", "send"}]
      /\ age' \in [Conn -> 0..IdleLimit - 1]
      /\ state'[c] = "ping"
      /\ \A d \in Conn \ {c} : state'[d] = state[d] /\ age'[d] = age[d]
  BY <1>1, TakeIdle
<1>3. IsFiniteSet(Idle') /\ Cardinality(Idle') < MaxIdle
  BY <1>1, TakeLeavesRoom
<1>4. TypeOK'
  <2>1. Cardinality(Idle') <= MaxIdle
    BY <1>3, FS_CardinalityType, TimeAssumption
  <2>. QED
    BY <1>2, <2>1, TimeAssumption DEF TypeOK, PingStarts, Period, Idle
<1>5. PingInv'
  <2>1. age'[c] = 0
    BY <1>1 DEF Take, TypeOK
  <2>2. \A d \in Conn : state[d] # "ping"
    BY DEF PingStarts, TypeOK
  <2>. QED
    BY <1>2, <2>1, <2>2, TimeAssumption DEF PingInv, PingStarts, Period
<1>6. PoolInv'
  <2>1. Stale' \in SUBSET Idle'
    BY DEF Stale
  <2>2. Cardinality(Stale') <= Cardinality(Idle') /\ IsFiniteSet(Stale')
    BY <1>3, <2>1, FS_Subset
  <2>. QED
    BY <1>3, <2>2, FS_CardinalityType, TimeAssumption DEF PoolInv
<1>7. WarmInv'
  BY DEF PingStarts, WarmInv
<1>. QED
  BY <1>4, <1>5, <1>6, <1>7

\* A ping or a send gives its connection back, and the task ticks afterwards.
LEMMA GiveBackStep ==
    ASSUME IInv, NEW c \in Conn, state[c] \in {"ping", "send"}, GiveBack(c),
           UNCHANGED <<age, next>>, warm' \in BOOLEAN,
           \/ state[c] = "ping" /\ task' = "ticking" /\ left' = 0
           \/ state[c] = "send" /\ UNCHANGED <<task, left>>
    PROVE  IInv'
<1>. USE DEF IInv
<1>1. /\ IsFiniteSet(Idle')
      /\ Cardinality(Idle') <= MaxIdle
      /\ state' \in [Conn -> {"closed", "idle", "ping", "send"}]
      /\ \A d \in Conn \ {c} : state'[d] = state[d]
      /\ state'[c] \in {"idle", "closed"}
  BY GiveBackIdle
<1>2. task' = "pinging" <=> \E d \in Conn : state'[d] = "ping"
  BY <1>1 DEF TypeOK, PingInv
<1>3. TypeOK'
  BY <1>1, <1>2, TimeAssumption DEF TypeOK, Idle
<1>4. PingInv'
  BY <1>1, <1>2 DEF PingInv, TypeOK
<1>5. task' # "stopped" => task # "stopped"
  BY DEF TypeOK
<1>6. ASSUME task' # "stopped"
      PROVE  Stale' \subseteq Stale /\ Idle' \ Stale' # {}
  BY <1>5, <1>6, GiveBackWarm
<1>7. PoolInv'
  <2>1. ASSUME task' # "stopped" PROVE Cardinality(Stale') < MaxIdle
    <3>1. Cardinality(Stale) < MaxIdle /\ Stale' \in SUBSET Stale
      BY <1>5, <1>6, <2>1 DEF PoolInv
    <3>. QED
      BY <3>1, FewerStale
  <2>. QED
    BY <1>1, <2>1 DEF PoolInv
<1>8. WarmInv'
  <2>1. Idle' \subseteq Conn
    BY DEF Idle
  <2>. QED
    BY <1>6, <2>1 DEF WarmInv
<1>. QED
  BY <1>3, <1>4, <1>7, <1>8

\* A connection in use is lost.
LEMMA LoseStep ==
    ASSUME IInv, NEW c \in Conn, state[c] \in {"ping", "send"}, Lose(c),
           UNCHANGED <<age, next>>, warm' = FALSE,
           \/ state[c] = "ping" /\ task' = "ticking" /\ left' = 0
           \/ state[c] = "send" /\ UNCHANGED <<task, left>>
    PROVE  IInv'
<1>. USE DEF IInv
<1>1. /\ state' \in [Conn -> {"closed", "idle", "ping", "send"}]
      /\ \A d \in Conn \ {c} : state'[d] = state[d]
      /\ state'[c] = "closed"
      /\ Idle' = Idle
  BY DEF TypeOK, Lose, Idle
<1>2. task' = "pinging" <=> \E d \in Conn : state'[d] = "ping"
  BY <1>1 DEF TypeOK, PingInv
<1>3. TypeOK'
  <2>1. Cardinality({d \in Conn : state'[d] = "idle"}) <= MaxIdle
    BY <1>1 DEF TypeOK, Idle
  <2>2. left' \in 0..Timeout /\ task' \in {"ticking", "pinging", "stopped"}
    BY TimeAssumption DEF TypeOK
  <2>. QED
    BY <1>1, <1>2, <2>1, <2>2 DEF TypeOK
<1>4. PingInv'
  BY <1>1, <1>2 DEF PingInv, TypeOK
<1>5. PoolInv'
  BY <1>1 DEF PoolInv, Stale, TypeOK
<1>. QED
  BY <1>3, <1>4, <1>5 DEF WarmInv

\* Dropping the handle ends the pings, and promises nothing any more.
LEMMA DropHandleStep ==
    ASSUME IInv, DropHandle
    PROVE  IInv'
<1>. USE DEF IInv
<1>1. Idle' = Idle
  BY DEF DropHandle, TypeOK, Idle
<1>2. TypeOK'
  <2>1. Cardinality({d \in Conn : state'[d] = "idle"}) <= MaxIdle
    BY <1>1 DEF TypeOK, Idle
  <2>2. left' \in 0..Timeout /\ \A d \in Conn : state'[d] # "ping"
    BY TimeAssumption DEF DropHandle
  <2>. QED
    BY <2>1, <2>2 DEF DropHandle, TypeOK
<1>. QED
  BY <1>1, <1>2 DEF DropHandle, PingInv, PoolInv, WarmInv, TypeOK

\* A send takes a connection that the ping may be about to need.
LEMMA SendStartsStep ==
    ASSUME IInv, SendStarts
    PROVE  IInv'
<1>. USE DEF IInv
<1>1. PICK c \in Conn : Take(c, "send")
  BY DEF SendStarts
<1>2. /\ Idle' = Idle \ {c}
      /\ state' \in [Conn -> {"closed", "idle", "ping", "send"}]
      /\ age' \in [Conn -> 0..IdleLimit - 1]
      /\ state'[c] = "send"
      /\ \A d \in Conn \ {c} : state'[d] = state[d] /\ age'[d] = age[d]
  BY <1>1, TakeIdle
<1>3. IsFiniteSet(Idle') /\ Cardinality(Idle') < MaxIdle
  BY <1>1, TakeLeavesRoom
<1>4. state[c] # "ping" /\ age'[c] = 0
  BY <1>1 DEF Take, Candidates, Idle, TypeOK
<1>5. TypeOK'
  <2>1. Cardinality(Idle') <= MaxIdle
    BY <1>3, FS_CardinalityType, TimeAssumption
  <2>. QED
    BY <1>2, <1>4, <2>1 DEF TypeOK, SendStarts, Idle
<1>6. PingInv'
  BY <1>2, <1>4 DEF PingInv, SendStarts
<1>7. Stale' \in SUBSET Stale
  BY <1>2 DEF Stale, SendStarts, Idle
<1>8. PoolInv'
  BY <1>3, <1>7, FewerStale DEF PoolInv, SendStarts
<1>9. WarmInv'
  BY <1>2 DEF WarmInv, SendStarts
<1>. QED
  BY <1>5, <1>6, <1>8, <1>9

\* Time passes, up to the next tick: both sides close what was idle too long.
LEMMA PassStep ==
    ASSUME IInv, Pass
    PROVE  IInv'
<1>. USE DEF IInv
<1>. DEFINE expired == {c \in Idle : age[c] + 1 = IdleLimit}
<1>1. /\ state' = [c \in Conn |-> IF c \in expired THEN "closed" ELSE state[c]]
      /\ age' = [c \in Conn |-> IF c \in Idle \ expired THEN age[c] + 1 ELSE 0]
  BY DEF Pass
<1>2. Idle' = Idle \ expired
  BY <1>1 DEF Idle, TypeOK
<1>3. IsFiniteSet(Idle') /\ Cardinality(Idle') <= MaxIdle
  <2>1. IsFiniteSet(Idle) /\ Cardinality(Idle) <= MaxIdle
    BY DEF PoolInv, TypeOK, Idle
  <2>2. Idle' \in SUBSET Idle
    BY <1>2
  <2>3. IsFiniteSet(Idle') /\ Cardinality(Idle') <= Cardinality(Idle)
    BY <2>1, <2>2, FS_Subset
  <2>. QED
    BY <2>1, <2>3, FS_CardinalityType, TimeAssumption
<1>4. age' \in [Conn -> 0..IdleLimit - 1]
  BY <1>1, Limit DEF TypeOK
<1>5. \A c \in Conn : state'[c] = "ping" <=> state[c] = "ping"
  BY <1>1 DEF Idle
<1>6. next' \in 0..Interval /\ left' \in 0..Timeout
  BY TimeAssumption DEF Pass, TypeOK
<1>7. TypeOK'
  <2>1. state' \in [Conn -> {"closed", "idle", "ping", "send"}]
    BY <1>1 DEF TypeOK
  <2>. QED
    BY <1>3, <1>4, <1>5, <1>6, <2>1 DEF TypeOK, Pass, Idle
<1>8. PingInv'
  <2>1. \A c \in Conn : state'[c] # "idle" => age'[c] = 0
    BY <1>1 DEF Idle
  <2>2. task' = "pinging" => left' < next'
    BY TimeAssumption DEF Pass, PingInv, TypeOK
  <2>. QED
    BY <1>5, <2>1, <2>2 DEF PingInv
<1>9. ASSUME task # "stopped"
      PROVE  next > 0 /\ next' = next - 1 /\ next \in Nat /\ next <= Interval
  BY <1>9, TimeAssumption DEF Pass, PingInv, TypeOK
<1>10. ASSUME task # "stopped"
       PROVE  Stale' = Stale \ expired
  <2>1. \A c \in Idle \ expired :
           age'[c] + next' > Interval <=> age[c] + next > Interval
    <3>. SUFFICES ASSUME NEW c \in Idle \ expired
                  PROVE  age'[c] + next' > Interval <=> age[c] + next > Interval
      OBVIOUS
    <3>1. age'[c] = age[c] + 1 /\ age[c] \in Nat
      BY <1>1, Limit DEF Idle, TypeOK
    <3>. QED
      BY <1>9, <1>10, <3>1, TimeAssumption
  <2>. QED
    BY <1>2, <2>1 DEF Stale
<1>11. PoolInv'
  BY <1>3, <1>10, FewerStale DEF PoolInv, Pass
<1>12. WarmInv'
  <2>. SUFFICES ASSUME task' = "ticking", warm'
                PROVE  \E c \in Conn : state'[c] = "send" \/ c \in Idle' \ Stale'
    BY DEF WarmInv
  <2>1. PICK c \in Conn : state[c] = "send" \/ c \in Idle \ Stale
    BY DEF WarmInv, Pass
  <2>2. CASE state[c] = "send"
    BY <1>1, <2>2 DEF Idle
  <2>3. CASE c \in Idle \ Stale
    <3>1. age[c] \in Nat /\ age[c] + next <= Interval
      BY <2>3, Limit, TimeAssumption DEF Stale, TypeOK
    <3>2. c \notin expired
      BY <1>9, <3>1, Limit, TimeAssumption DEF Pass
    <3>. QED
      BY <1>2, <1>10, <2>3, <3>2 DEF Pass
  <2>. QED
    BY <2>1, <2>2, <2>3
<1>. QED
  BY <1>7, <1>8, <1>11, <1>12

\* Every step keeps the invariant.
LEMMA StepIInv ==
    ASSUME IInv, [Next]_vars
    PROVE  IInv'
<1>0. warm \in BOOLEAN
  BY DEF IInv, TypeOK
<1>1. ASSUME NEW c \in Conn, PingOk(c)
      PROVE  IInv'
  BY <1>1, GiveBackStep DEF PingOk
<1>2. ASSUME NEW c \in Conn, SendEnds(c)
      PROVE  IInv'
  <2>1. CASE GiveBack(c) /\ UNCHANGED warm
    BY <1>0, <1>2, <2>1, GiveBackStep DEF SendEnds
  <2>2. CASE Lose(c) /\ warm' = FALSE
    BY <1>2, <2>2, LoseStep DEF SendEnds
  <2>. QED
    BY <1>2, <2>1, <2>2 DEF SendEnds
<1>3. ASSUME NEW c \in Conn, NEW answered \in BOOLEAN, PingFails(c, answered)
      PROVE  IInv'
  <2>1. CASE answered
    BY <1>0, <1>3, <2>1, GiveBackStep DEF PingFails, AfterFailure
  <2>2. CASE ~answered
    BY <1>3, <2>2, LoseStep DEF PingFails, AfterFailure
  <2>. QED
    BY <2>1, <2>2
<1>4. CASE UNCHANGED vars
  <2>1. Idle' = Idle /\ Stale' = Stale
    BY <1>4 DEF vars, Idle, Stale
  <2>. QED
    BY <1>4, <2>1 DEF vars, IInv, TypeOK, PingInv, PoolInv, WarmInv
<1>. QED
  BY <1>1, <1>2, <1>3, <1>4, PingStartsStep, DropHandleStep, SendStartsStep, PassStep
     DEF Next

\* The invariant holds in every reachable state (spawn_keepalive, ping and the
\* pool they share with the sends).
THEOREM Inductive == Spec => []IInv
BY InitIInv, StepIInv, PTL DEF Spec

-----------------------------------------------------------------------------

\* The pool, the keep-alive task and their clocks have their types: no more idle
\* connections than the pool holds, none past the idle limit, and a ping in flight
\* exactly while the task awaits it.
THEOREM TypeCorrect == Spec => []TypeOK
<1>1. IInv => TypeOK
  BY DEF IInv
<1>. QED
  BY <1>1, Inductive, PTL

\* spawn_keepalive "keeps one warm connection ready for the next send": a send
\* that comes between two pings, with no other request in flight, finds an idle
\* connection, and would up to the next ping, whatever sends came before, as long
\* as the interval is below both idle timeouts.
THEOREM WarmConnectionKept == Spec => []KeptWarm
<1>1. ASSUME IInv, task = "ticking", warm,
             \A c \in Conn : state[c] \in {"closed", "idle"}
      PROVE  \E c \in Idle : age[c] + next < IdleLimit
  <2>1. PICK c \in Idle \ Stale : TRUE
    BY <1>1 DEF IInv, WarmInv
  <2>2. c \in Conn /\ age[c] \in Nat /\ next \in Nat
    BY <1>1, <2>1, Limit, TimeAssumption DEF IInv, TypeOK, Idle
  <2>3. age[c] + next <= Interval
    BY <2>1, <2>2, TimeAssumption DEF Stale
  <2>. QED
    BY <2>1, <2>2, <2>3, Limit, TimeAssumption
<1>2. IInv => KeptWarm
  BY <1>1 DEF KeptWarm
<1>. QED
  BY <1>2, Inductive, PTL
=============================================================================
