------------------------------ MODULE KeepAlive ------------------------------
(***************************************************************************)
(* spawn_keepalive of src/src/client.rs and the connection pool it works   *)
(* on: a task that pings at each tick of an interval, sends that take      *)
(* connections from the same pool, and a server that closes a connection   *)
(* it has not heard of for a while.                                        *)
(*                                                                         *)
(* The pool is reqwest's, the server external. A request takes any idle    *)
(* connection, or dials one if there is none; afterwards the connection is *)
(* idle again, unless the request failed or the pool is full. (Bodies are  *)
(* taken to be empty or to have come with the headers.)                    *)
(*                                                                         *)
(* Time runs in steps of a few seconds.                                    *)
(***************************************************************************)
EXTENDS Naturals, FiniteSets

CONSTANTS
    Conn,         \* the connections that may be open at a time
    Interval,     \* between pings
    Timeout,      \* of a request
    ServerIdle,   \* the server closes a connection idle for so long
    PoolIdle,     \* pool_idle_timeout
    MaxIdle       \* pool_max_idle_per_host

ASSUME TimeAssumption ==
    /\ {Interval, Timeout, ServerIdle, PoolIdle, MaxIdle} \subseteq Nat \ {0}
    /\ Interval < ServerIdle /\ Interval < PoolIdle
    /\ Timeout < Interval

VARIABLES
    state,    \* of each connection: "closed", "idle", "ping" or "send"
    age,      \* how long an idle connection has been idle
    task,     \* "ticking", "pinging" or "stopped"
    next,     \* time to the next tick of the interval
    left,     \* time left of the ping's timeout
    warm      \* a ping succeeded, and no request failed since (history)

vars == <<state, age, task, next, left, warm>>

\* Mutant of Period: a ping as often as the server closes.
PeriodOfServer == ServerIdle + 1

Period == Interval

IdleLimit == IF PoolIdle < ServerIdle THEN PoolIdle ELSE ServerIdle

TypeOK ==
    /\ state \in [Conn -> {"closed", "idle", "ping", "send"}]
    /\ age \in [Conn -> 0..IdleLimit - 1]
    /\ task \in {"ticking", "pinging", "stopped"}
    /\ next \in 0..Interval
    /\ left \in 0..Timeout
    /\ warm \in BOOLEAN
    /\ Cardinality({c \in Conn : state[c] = "idle"}) <= MaxIdle
    /\ task = "pinging" <=> \E c \in Conn : state[c] = "ping"

\* The first tick of an interval is due at once.
Init ==
    /\ state = [c \in Conn |-> "closed"]
    /\ age = [c \in Conn |-> 0]
    /\ task = "ticking"
    /\ next = 0
    /\ left = 0
    /\ warm = FALSE

Idle == {c \in Conn : state[c] = "idle"}

\* What a request runs on: an idle connection, or a new one.
Candidates == IF Idle # {} THEN Idle ELSE {c \in Conn : state[c] = "closed"}

Take(c, what) ==
    /\ c \in Candidates
    /\ state' = [state EXCEPT ![c] = what]
    /\ age' = [age EXCEPT ![c] = 0]

GiveBack(c) ==
    state' = [state EXCEPT ![c] = IF Cardinality(Idle) < MaxIdle THEN "idle" ELSE "closed"]

Lose(c) == state' = [state EXCEPT ![c] = "closed"]

-----------------------------------------------------------------------------
(* The task: tick, ping *)

\* MissedTickBehavior::Delay: the next tick is a period after this one, late or
\* not.
PingStarts ==
    /\ task = "ticking" /\ next = 0
    /\ \E c \in Conn : Take(c, "ping")
    /\ task' = "pinging"
    /\ next' = Period
    /\ left' = Timeout
    /\ UNCHANGED warm

\* Mutant of AfterFailure: the task returns the error.
AfterFailureStopped == "ended"

\* A failure is logged, and the loop goes on.
AfterFailure == "ticking"

PingOk(c) ==
    /\ state[c] = "ping"
    /\ GiveBack(c)
    /\ task' = "ticking"
    /\ warm' = TRUE
    /\ left' = 0
    /\ UNCHANGED <<age, next>>

\* The request fails or times out, or the server answers with an error, which
\* leaves the connection as it is.
PingFails(c, answered) ==
    /\ state[c] = "ping"
    /\ IF answered THEN GiveBack(c) ELSE Lose(c)
    /\ task' = AfterFailure
    /\ warm' = (warm /\ answered)
    /\ left' = 0
    /\ UNCHANGED <<age, next>>

\* `impl Drop for KeepAlive` aborts the task; a ping in flight is dropped.
DropHandle ==
    /\ task # "stopped"
    /\ task' = "stopped"
    /\ state' = [c \in Conn |-> IF state[c] = "ping" THEN "closed" ELSE state[c]]
    /\ left' = 0
    /\ UNCHANGED <<age, next, warm>>

-----------------------------------------------------------------------------
(* The other users of the pool, the server and time *)

SendStarts ==
    /\ \E c \in Conn : Take(c, "send")
    /\ UNCHANGED <<task, next, left, warm>>

SendEnds(c) ==
    /\ state[c] = "send"
    /\ \/ GiveBack(c) /\ UNCHANGED warm
       \/ Lose(c) /\ warm' = FALSE
    /\ UNCHANGED <<age, task, next, left>>

\* Time passes: a due tick and a timeout that is out come first, and a connection
\* that reaches the idle limit is closed.
Pass ==
    /\ task = "ticking" => next > 0
    /\ task = "pinging" => left > 0
    /\ LET expired == {c \in Idle : age[c] + 1 = IdleLimit}
       IN /\ state' = [c \in Conn |-> IF c \in expired THEN "closed" ELSE state[c]]
          /\ age' = [c \in Conn |->
                        IF c \in Idle \ expired THEN age[c] + 1 ELSE 0]
    /\ next' = IF next = 0 THEN 0 ELSE next - 1
    /\ left' = IF left = 0 THEN 0 ELSE left - 1
    /\ UNCHANGED <<task, warm>>

Next ==
    \/ PingStarts
    \/ \E c \in Conn : PingOk(c) \/ SendEnds(c)
    \/ \E c \in Conn, answered \in BOOLEAN : PingFails(c, answered)
    \/ DropHandle
    \/ SendStarts
    \/ Pass

\* Time passes, sends end, and the task is polled.
Spec ==
    /\ Init /\ [][Next]_vars
    /\ WF_vars(Pass)
    /\ SF_vars(PingStarts)
    /\ WF_vars(\E c \in Conn : PingFails(c, FALSE) /\ left = 0)
    /\ \A c \in Conn : WF_vars(SendEnds(c))

-----------------------------------------------------------------------------
(* Properties *)

\* After a ping that succeeded, and until a request fails, a send that finds no
\* other request in flight has an idle connection to run on, one that both sides
\* keep open until the next tick, whatever the sends did before and whichever
\* connection each ping picked: "this keeps one warm connection ready for the next
\* send" (spawn_keepalive's doc). While a ping or a send holds the only open one,
\* another send dials.
KeptWarm ==
    task = "ticking" /\ warm /\ (\A c \in Conn : state[c] \in {"closed", "idle"}) =>
        \E c \in Idle : age[c] + next < IdleLimit

\* A ping that fails does not end the keep-alive: pings go on until the handle is
\* dropped.
KeepsPinging == []<>(task \in {"pinging", "stopped"})
=============================================================================
