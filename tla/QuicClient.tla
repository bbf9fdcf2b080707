----------------------------- MODULE QuicClient -----------------------------
(***************************************************************************)
(* The QUIC client of src/src/quic.rs: callers of `send`, `send_batch`,    *)
(* `send_raw` and `warmup` share one connection slot (`struct State`)      *)
(* behind a mutex. A caller that finds no usable connection starts a       *)
(* connect task, or waits for the one that runs, on a watch channel whose  *)
(* version (`epoch`) the task bumps after it has stored its outcome and    *)
(* released the mutex. Every action below is one critical section or one   *)
(* await of the code; anything may run between two of them.                *)
(*                                                                         *)
(* A connection is named by its generation. The network is external: it    *)
(* may fail a dial, close a connection or break a stream MaxFaults times,  *)
(* and fails freely on a connection that is closed or whose driver task    *)
(* was aborted (`impl Drop for Conn`). Deadlines may pass at any await.    *)
(***************************************************************************)
EXTENDS Naturals, FiniteSets

CONSTANTS
    Call,        \* the calls made on one client and its clones
    None,        \* Option::None
    BatchSize,   \* the transactions in the body of each send
    MaxFaults    \* how often the network or the user disturbs a healthy client

ASSUME NoneAssumption == None \notin Nat
ASSUME BatchAssumption == BatchSize \in Nat \ {0}
ASSUME FaultAssumption == MaxFaults \in Nat

VARIABLES
    \* struct State, behind the mutex
    conn,             \* generation of the held connection, or None
    connecting,       \* a connect task is running
    next_generation,
    last_error,       \* the generation whose connect failed last, or None
    \* the watch channel, the connect tasks and the network
    epoch,            \* version of the watch channel
    dialing,          \* generations whose connect() is running
    announcing,       \* outcome stored, epoch not bumped yet
    closed,           \* generations QUIC reports closed (close_reason)
    faults,           \* disturbances so far
    \* the locals of each call
    kind,             \* "send" or "warmup"
    pc,               \* where the call is
    seen,             \* the version its receiver has seen, None without one
    stale,            \* the generation `sender` must not hand out again
    used,             \* the generation of the latest attempt (`used`)
    attempt,          \* 1, or 2 after the one reconnect
    status,           \* the status of the response, "none" before the headers;
                      \* kept after the call as history
    outcome,          \* what the caller is told, "pending" before that
    \* history
    joined,           \* the connect attempt the call last waited for
    posted,           \* how many of its attempts got their headers out
    \* struct Stats (the latency sum is left out)
    stats

slotVars == <<conn, connecting, next_generation, last_error>>
netVars == <<epoch, dialing, announcing, closed, faults>>
callVars == <<kind, pc, seen, stale, used, attempt, status, outcome, joined,
              posted>>
vars == <<slotVars, netVars, callVars, stats>>

Generation == Nat
Option(S) == S \cup {None}

Stats == [submitted : Nat, accepted : Nat, transport_errors : Nat,
          rejected_by_server : Nat, roundtrips : Nat, rejected_locally : Nat]

PC == {"idle", "subscribe", "look", "wait", "recheck",   \* sender
       "open", "reply", "drain",                         \* attempt
       "settle", "done"}                                 \* send_framed

\* Mutant of Awaits: the deadline covers the request but not the connect.
AwaitsOfRequest == {"open", "reply", "drain"}

\* Where a call is suspended in the future that the timeout wraps.
Awaits == {"wait", "open", "reply", "drain"}

TypeOK ==
    /\ conn \in Option(Generation)
    /\ connecting \in BOOLEAN
    /\ next_generation \in Generation
    /\ last_error \in Option(Generation)
    /\ epoch \in Nat
    /\ dialing \subseteq Generation
    /\ announcing \subseteq Generation
    /\ closed \subseteq Generation
    /\ faults \in 0..MaxFaults
    /\ kind \in [Call -> {"send", "warmup"}]
    /\ pc \in [Call -> PC]
    /\ seen \in [Call -> Option(Nat)]
    /\ stale \in [Call -> Option(Generation)]
    /\ used \in [Call -> Option(Generation)]
    /\ attempt \in [Call -> {1, 2}]
    /\ status \in [Call -> {"none", "ok", "refused"}]
    /\ outcome \in [Call -> {"pending", "accepted", "refused", "quic",
                             "timeout", "warm", "abandoned", "rejected"}]
    /\ joined \in [Call -> Option(Generation)]
    /\ posted \in [Call -> Nat]
    /\ stats \in Stats

Init ==
    /\ conn = None
    /\ connecting = FALSE
    /\ next_generation = 0
    /\ last_error = None
    /\ epoch = 0
    /\ dialing = {}
    /\ announcing = {}
    /\ closed = {}
    /\ faults = 0
    /\ kind = [c \in Call |-> "send"]
    /\ pc = [c \in Call |-> "idle"]
    /\ seen = [c \in Call |-> None]
    /\ stale = [c \in Call |-> None]
    /\ used = [c \in Call |-> None]
    /\ attempt = [c \in Call |-> 1]
    /\ status = [c \in Call |-> "none"]
    /\ outcome = [c \in Call |-> "pending"]
    /\ joined = [c \in Call |-> None]
    /\ posted = [c \in Call |-> 0]
    /\ stats = [submitted |-> 0, accepted |-> 0, transport_errors |-> 0,
                rejected_by_server |-> 0, roundtrips |-> 0,
                rejected_locally |-> 0]

-----------------------------------------------------------------------------
(* Helpers *)

Goto(c, label) == pc' = [pc EXCEPT ![c] = label]

\* `is_connected`: a connection is held and QUIC has not reported it closed.
IsConnected == conn # None /\ conn \notin closed

\* The network disturbs something that was healthy.
Fault == faults < MaxFaults /\ faults' = faults + 1

\* `impl Drop for Conn` aborts the driver once the slot lets a connection go,
\* so a request sender cloned from it is broken as much as a closed one.
Broken(g) == g \in closed \/ g # conn

MayBreak(g) == \/ Broken(g) /\ UNCHANGED faults
               \/ ~Broken(g) /\ Fault

\* The locals of `sender` go out of scope when it returns or is dropped.
LeaveSender(c) ==
    /\ seen' = [seen EXCEPT ![c] = None]
    /\ stale' = [stale EXCEPT ![c] = None]
    /\ joined' = [joined EXCEPT ![c] = None]

\* The wrapped future is over: a send goes on to its counters, a warmup returns.
Finish(c, result) ==
    /\ outcome' = [outcome EXCEPT ![c] = result]
    /\ attempt' = [attempt EXCEPT ![c] = 1]
    /\ LeaveSender(c)
    /\ Goto(c, IF kind[c] = "send" THEN "settle" ELSE "done")

-----------------------------------------------------------------------------
(* The calls: send_framed and warmup up to the first await *)

Begin(c, k) ==
    /\ pc[c] = "idle"
    /\ kind' = [kind EXCEPT ![c] = k]
    /\ Goto(c, "subscribe")
    /\ stats' = IF k = "send"
                THEN [stats EXCEPT !.submitted = @ + BatchSize]
                ELSE stats
    /\ UNCHANGED <<slotVars, netVars, seen, stale, used, attempt, status,
                   outcome, joined, posted>>

\* send_batch and send_raw refuse a body that is empty or too large before
\* anything else happens.
RejectLocally(c) ==
    /\ pc[c] = "idle"
    /\ outcome' = [outcome EXCEPT ![c] = "rejected"]
    /\ stats' = [stats EXCEPT !.rejected_locally = @ + 1]
    /\ Goto(c, "done")
    /\ UNCHANGED <<slotVars, netVars, kind, seen, stale, used, attempt,
                   status, joined, posted>>

-----------------------------------------------------------------------------
(* sender: subscribe, look, wait, look again *)

Subscribe(c) ==
    /\ pc[c] = "subscribe"
    /\ seen' = [seen EXCEPT ![c] = epoch]
    /\ Goto(c, "look")
    /\ UNCHANGED <<slotVars, netVars, kind, stale, used, attempt, status,
                   outcome, joined, posted, stats>>

\* A connection was handed out: a send opens a stream on it, a warmup is over.
Acquire(c) ==
    /\ IF kind[c] = "send"
       THEN /\ used' = [used EXCEPT ![c] = conn]
            /\ Goto(c, "open")
            /\ UNCHANGED outcome
       ELSE /\ outcome' = [outcome EXCEPT ![c] = "warm"]
            /\ Goto(c, "done")
            /\ UNCHANGED used
    /\ LeaveSender(c)
    /\ UNCHANGED <<slotVars, netVars, kind, attempt, status, posted, stats>>

\* The look under the mutex found a held connection it may use.
Usable(c) == IsConnected /\ conn # stale[c]

LookLive(c) ==
    /\ pc[c] = "look"
    /\ Usable(c)
    /\ Acquire(c)

\* Mutants of StartConnect.
StartConnectNoFlag ==
    /\ UNCHANGED connecting
    /\ last_error' = None
    /\ next_generation' = next_generation + 1
    /\ dialing' = dialing \cup {next_generation}

StartConnectKeepsError ==
    /\ connecting' = TRUE
    /\ UNCHANGED last_error
    /\ next_generation' = next_generation + 1
    /\ dialing' = dialing \cup {next_generation}

StartConnectSameGeneration ==
    /\ connecting' = TRUE
    /\ last_error' = None
    /\ next_generation' = IF next_generation = 0 THEN 1 ELSE next_generation
    /\ dialing' = dialing \cup {next_generation' - 1}

\* Spawn a connect task under the mutex.
StartConnect ==
    /\ connecting' = TRUE
    /\ last_error' = None
    /\ next_generation' = next_generation + 1
    /\ dialing' = dialing \cup {next_generation}

\* Nothing usable and no task running: drop a dead connection, spawn a connect.
LookConnect(c) ==
    /\ pc[c] = "look"
    /\ ~Usable(c)
    /\ ~connecting
    /\ conn' = None
    /\ StartConnect
    /\ joined' = [joined EXCEPT ![c] = next_generation]
    /\ stale' = [stale EXCEPT ![c] = None]
    /\ Goto(c, "wait")
    /\ UNCHANGED <<epoch, announcing, closed, faults, kind, seen, used,
                   attempt, status, outcome, posted, stats>>

\* Nothing usable, but a connect task is running: wait for it.
LookWait(c) ==
    /\ pc[c] = "look"
    /\ ~Usable(c)
    /\ connecting
    /\ conn' = None
    /\ joined' = [joined EXCEPT ![c] = next_generation - 1]
    /\ stale' = [stale EXCEPT ![c] = None]
    /\ Goto(c, "wait")
    /\ UNCHANGED <<connecting, next_generation, last_error, netVars, kind,
                   seen, used, attempt, status, outcome, posted, stats>>

\* `rx.changed()` returns once the version moved past the one subscribed at.
Wake(c) ==
    /\ pc[c] = "wait"
    /\ seen[c] # epoch
    /\ Goto(c, "recheck")
    /\ UNCHANGED <<slotVars, netVars, kind, seen, stale, used, attempt,
                   status, outcome, joined, posted, stats>>

\* The second look takes whatever is held, closed or not.
RecheckLive(c) ==
    /\ pc[c] = "recheck"
    /\ conn # None
    /\ Acquire(c)

\* The error a second look would return: that of the latest connect attempt.
ErrorKnown == conn = None /\ ~connecting /\ last_error # None

RecheckFail(c) ==
    /\ pc[c] = "recheck"
    /\ ErrorKnown
    /\ Finish(c, "quic")
    /\ UNCHANGED <<slotVars, netVars, kind, used, status, posted, stats>>

\* Another attempt runs, or the connection came and went: once more round.
RecheckAgain(c) ==
    /\ pc[c] = "recheck"
    /\ conn = None
    /\ ~ErrorKnown
    /\ Goto(c, "subscribe")
    /\ seen' = [seen EXCEPT ![c] = None]
    /\ UNCHANGED <<slotVars, netVars, kind, stale, used, attempt, status,
                   outcome, joined, posted, stats>>

-----------------------------------------------------------------------------
(* attempt and send_with_retry *)

\* Mutants of NotSent and Reconnect.
NotSentTooLate == {"open", "reply"}

ReconnectUnmarked(c) ==
    /\ attempt[c] = 1
    /\ attempt' = [attempt EXCEPT ![c] = @ + 1]
    /\ Goto(c, "subscribe")
    /\ UNCHANGED <<seen, stale, outcome, joined>>

\* The awaits whose failure is Attempt::NotSent: no request bytes left.
NotSent == {"open"}

\* The one reconnect of send_with_retry, away from the connection that failed.
Reconnect(c) ==
    /\ attempt[c] = 1
    /\ attempt' = [attempt EXCEPT ![c] = @ + 1]
    /\ stale' = [stale EXCEPT ![c] = used[c]]
    /\ Goto(c, "subscribe")
    /\ UNCHANGED <<seen, outcome, joined>>

\* send_request fails: nothing left, so the first time round reconnect.
OpenFails(c) ==
    /\ pc[c] \in NotSent
    /\ MayBreak(used[c])
    /\ \/ Reconnect(c)
       \/ attempt[c] = 2 /\ Finish(c, "quic")
    /\ UNCHANGED <<slotVars, epoch, dialing, announcing, closed, kind, used,
                   status, posted, stats>>

\* send_request succeeds: the headers are on the wire.
OpenOk(c) ==
    /\ pc[c] = "open"
    /\ used[c] \notin closed
    /\ posted' = [posted EXCEPT ![c] = @ + 1]
    /\ Goto(c, "reply")
    /\ UNCHANGED <<slotVars, netVars, kind, seen, stale, used, attempt,
                   status, outcome, joined, stats>>

\* send_data, finish and recv_response succeed: the server answered.
Reply(c, s) ==
    /\ pc[c] = "reply"
    /\ status' = [status EXCEPT ![c] = s]
    /\ Goto(c, "drain")
    /\ UNCHANGED <<slotVars, netVars, kind, seen, stale, used, attempt,
                   outcome, joined, posted, stats>>

\* The response body is read to its end.
Drain(c) ==
    /\ pc[c] = "drain"
    /\ Finish(c, IF status[c] = "ok" THEN "accepted" ELSE "refused")
    /\ UNCHANGED <<slotVars, netVars, kind, used, status, posted, stats>>

\* Any of those awaits fails after the headers left: never retried.
StreamFails(c) ==
    /\ pc[c] \in {"reply", "drain"}
    /\ MayBreak(used[c])
    /\ Finish(c, "quic")
    /\ UNCHANGED <<slotVars, epoch, dialing, announcing, closed, kind, used,
                   status, posted, stats>>

-----------------------------------------------------------------------------
(* The end of a call *)

\* tokio::time::timeout drops the future at the await it is suspended in.
Timeout(c) ==
    /\ pc[c] \in Awaits
    /\ Finish(c, "timeout")
    /\ UNCHANGED <<slotVars, netVars, kind, used, status, posted, stats>>

\* Mutants of Counted, Suspect and Evict.
CountedPerCall(o) ==
    CASE o = "accepted" ->
           [stats EXCEPT !.accepted = @ + 1, !.roundtrips = @ + 1]
      [] o = "refused" ->
           [stats EXCEPT !.rejected_by_server = @ + 1, !.roundtrips = @ + 1]
      [] OTHER -> [stats EXCEPT !.transport_errors = @ + 1]

SuspectNotTimedOut(c) == outcome[c] = "quic" /\ used[c] # None

EvictAny(g) == conn' = None

Counted(o) ==
    CASE o = "accepted" ->
           [stats EXCEPT !.accepted = @ + BatchSize, !.roundtrips = @ + 1]
      [] o = "refused" ->
           [stats EXCEPT !.rejected_by_server = @ + 1, !.roundtrips = @ + 1]
      [] OTHER -> [stats EXCEPT !.transport_errors = @ + 1]

\* The call failed on a connection, which the next send should not wait on.
Suspect(c) == outcome[c] \in {"quic", "timeout"} /\ used[c] # None

\* `evict`: drop the held connection if it is still this generation.
Evict(g) == conn' = IF conn = g THEN None ELSE conn

\* send_framed after the timeout: count the result, drop a suspect connection.
Settle(c) ==
    /\ pc[c] = "settle"
    /\ stats' = Counted(outcome[c])
    /\ IF Suspect(c)
       THEN Evict(used[c])
       ELSE UNCHANGED conn
    /\ Goto(c, "done")
    /\ UNCHANGED <<connecting, next_generation, last_error, netVars, kind,
                   seen, stale, used, attempt, status, outcome, joined, posted>>

\* The caller drops the whole future at an await: no counters, no eviction.
Abandon(c) ==
    /\ pc[c] \in Awaits
    /\ outcome' = [outcome EXCEPT ![c] = "abandoned"]
    /\ attempt' = [attempt EXCEPT ![c] = 1]
    /\ LeaveSender(c)
    /\ Goto(c, "done")
    /\ UNCHANGED <<slotVars, netVars, kind, used, status, posted, stats>>

-----------------------------------------------------------------------------
(* The connect task, the network and the user *)

\* connect() returned Ok: the task stores the connection under the mutex.
ConnectOk(g) ==
    /\ g \in dialing
    /\ dialing' = dialing \ {g}
    /\ announcing' = announcing \cup {g}
    /\ connecting' = FALSE
    /\ conn' = g
    /\ UNCHANGED <<next_generation, last_error, epoch, closed, faults,
                   callVars, stats>>

\* Mutants of ConnectErr and Bump.
ConnectErrKeepsFlag(g) ==
    /\ g \in dialing
    /\ Fault
    /\ dialing' = dialing \ {g}
    /\ announcing' = announcing \cup {g}
    /\ last_error' = g
    /\ UNCHANGED <<conn, connecting, next_generation, epoch, closed,
                   callVars, stats>>

BumpOnSuccess(g) == epoch' = IF last_error = g THEN epoch ELSE epoch + 1

\* connect() returned Err: the task stores why.
ConnectErr(g) ==
    /\ g \in dialing
    /\ Fault
    /\ dialing' = dialing \ {g}
    /\ announcing' = announcing \cup {g}
    /\ connecting' = FALSE
    /\ last_error' = g
    /\ UNCHANGED <<conn, next_generation, epoch, closed, callVars, stats>>

\* ... and bumps the epoch after the mutex is released.
Bump(g) == epoch' = epoch + 1

Announce(g) ==
    /\ g \in announcing
    /\ announcing' = announcing \ {g}
    /\ Bump(g)
    /\ UNCHANGED <<slotVars, dialing, closed, faults, callVars, stats>>

\* The peer, or the idle timer, closes a connection that was made.
CloseConn ==
    /\ IsConnected
    /\ Fault
    /\ closed' = closed \cup {conn}
    /\ UNCHANGED <<slotVars, epoch, dialing, announcing, callVars, stats>>

\* `disconnect`
Disconnect ==
    /\ conn # None
    /\ Fault
    /\ conn' = None
    /\ UNCHANGED <<connecting, next_generation, last_error, epoch, dialing,
                   announcing, closed, callVars, stats>>

-----------------------------------------------------------------------------
\* What the client and the network do for a call that has begun.
CallStep(c) ==
    \/ Subscribe(c)
    \/ LookLive(c) \/ LookConnect(c) \/ LookWait(c)
    \/ Wake(c)
    \/ RecheckLive(c) \/ RecheckFail(c) \/ RecheckAgain(c)
    \/ OpenOk(c) \/ OpenFails(c)
    \/ \E s \in {"ok", "refused"} : Reply(c, s)
    \/ Drain(c) \/ StreamFails(c)
    \/ Settle(c)

ConnectTask == \E g \in dialing : ConnectOk(g) \/ ConnectErr(g)
AnnounceTask == \E g \in announcing : Announce(g)

\* Every call has returned and every task has ended: the program may stop.
Quiescent ==
    /\ \A c \in Call : pc[c] = "done"
    /\ dialing = {} /\ announcing = {}
    /\ UNCHANGED vars

Next ==
    \/ \E c \in Call :
        \/ \E k \in {"send", "warmup"} : Begin(c, k)
        \/ RejectLocally(c)
        \/ CallStep(c)
        \/ Timeout(c)
        \/ Abandon(c)
    \/ ConnectTask
    \/ AnnounceTask
    \/ CloseConn
    \/ Disconnect
    \/ Quiescent

Spec == Init /\ [][Next]_vars

\* The tasks are polled and the network answers or fails; no deadline passes
\* of necessity.
FairNetwork ==
    /\ \A c \in Call : WF_vars(CallStep(c))
    /\ WF_vars(ConnectTask)
    /\ WF_vars(AnnounceTask)

\* What a call does on its own, between two awaits.
LocalStep(c) ==
    \/ Subscribe(c)
    \/ LookLive(c) \/ LookConnect(c) \/ LookWait(c)
    \/ Wake(c)
    \/ RecheckLive(c) \/ RecheckFail(c) \/ RecheckAgain(c)
    \/ Settle(c)

\* The network may hang for ever, in a dial too; only the deadline is sure. It
\* fires at the first await reached after it has passed, hence SF: the loop in
\* `sender` leaves and enters awaits.
FairTimers ==
    \A c \in Call : WF_vars(LocalStep(c)) /\ SF_vars(Timeout(c))

\* Either is enough: the wait loop makes progress without a timer, and the
\* deadline ends a call without the network.
LiveSpec == Spec /\ (FairNetwork \/ FairTimers)

-----------------------------------------------------------------------------
(* Properties *)

\* No lost wake-up (sender, the comment "Subscribe before looking"): a caller
\* waiting at a version nobody has bumped yet waits for a connect task that is
\* still to bump it.
NoLostWakeup ==
    \A c \in Call :
        pc[c] = "wait" /\ seen[c] = epoch => joined[c] \in dialing \cup announcing

\* One connect task at a time, never while a connection is held, and the flag
\* the callers look at under the mutex says whether there is one (QuicClient's
\* "single-flighted").
SingleFlight ==
    /\ \A g, h \in dialing : g = h
    /\ connecting <=> dialing # {}
    /\ connecting => conn = None

\* A waiter is told the error of the attempt it waited for or of a later one,
\* never a leftover of an earlier outage (`last_error`).
ErrorNotOlder ==
    \A c \in Call : pc[c] = "recheck" /\ ErrorKnown => last_error >= joined[c]

\* When a send has returned a transport failure, the connection it ran on is
\* no longer the one the next send would get (send_framed's eviction).
FailedNotHeld ==
    \A c \in Call :
        pc[c] = "done" /\ outcome[c] \in {"quic", "timeout"} /\ used[c] # None
            => conn # used[c]

\* Every send that ran to its end is in exactly one of the outcome counters, and
\* counts as submitted unless it was refused locally; submitted and accepted
\* count transactions, the others calls. A round trip is counted for every
\* response that came back whole, and for no send without a response.
Rejected == {c \in Call : outcome[c] = "rejected"}
Sends == {c \in Call : kind[c] = "send" /\ pc[c] # "idle"} \ Rejected
Ended(S) == {c \in Sends : pc[c] = "done" /\ outcome[c] \in S}

\* The sends that returned after the headers of a response came in.
Responded == {c \in Ended({"accepted", "refused", "quic", "timeout"}) :
                 status[c] # "none"}

StatsAgree ==
    /\ stats.submitted = BatchSize * Cardinality(Sends)
    /\ stats.accepted = BatchSize * Cardinality(Ended({"accepted"}))
    /\ stats.transport_errors = Cardinality(Ended({"quic", "timeout"}))
    /\ stats.rejected_by_server = Cardinality(Ended({"refused"}))
    /\ Cardinality(Ended({"accepted", "refused"})) <= stats.roundtrips
    /\ stats.roundtrips <= Cardinality(Responded)
    /\ stats.rejected_locally = Cardinality(Rejected)

\* What quic.rs:312 says of `stats`: the round trips cover every request that
\* got an HTTP/3 response, whatever its status. A response that breaks off, or
\* runs into the deadline, while its body is read is not covered.
RoundtripsCoverResponses == stats.roundtrips = Cardinality(Responded)

\* The reconnect of a send never lands on the connection that refused its
\* stream, nor on an older one (`stale` in sender, whatever others did to the
\* slot meanwhile).
RetryStep ==
    \A c \in Call :
        attempt[c] = 2 /\ pc[c] # "open" /\ pc'[c] = "open"
            => used'[c] > used[c]

RetryOnFresh == [][RetryStep]_vars

\* A held connection goes away only for cause: QUIC closed it, the user
\* disconnected, or a call that ran on it failed. A late timeout of a call on
\* an older connection is no cause (`evict` compares generations).
DropStep ==
    conn # None /\ conn' # conn =>
        \/ conn \in closed
        \/ Disconnect
        \/ \E c \in Call : used[c] = conn
                            /\ \/ outcome[c] \in {"quic", "timeout"}
                               \/ stale[c] = conn

DropHasCause == [][DropStep]_vars

\* The connection slot is the abstract one, its generations used in order.
Flight == IF dialing = {} THEN None ELSE CHOOSE g \in dialing : TRUE

Slot == INSTANCE ConnSlot WITH held <- conn, flight <- Flight,
                               next <- next_generation

SlotRefined == Slot!SlotSpec

\* Every send keeps the submission contract: at most once on the wire, across
\* the reconnect, the deadline and the sends it shares a connection with.
Phase(c) == IF kind[c] = "warmup" \/ pc[c] = "idle" THEN "new"
            ELSE IF pc[c] \in {"settle", "done"} THEN "closed" ELSE "open"

Told(c) == IF kind[c] = "warmup" THEN "pending"
           ELSE IF outcome[c] = "quic" THEN "transport" ELSE outcome[c]

Submit == INSTANCE SubmitOnce WITH phase <- [c \in Call |-> Phase(c)],
                                   left <- posted,
                                   result <- [c \in Call |-> Told(c)]

SubmitRefined == Submit!SubmitSpec

\* Every call that begins returns. Under FairNetwork that is the wait loop making
\* progress without a timer; under FairTimers, the deadline covering every await
\* of the call although the network hangs.
CallsReturn ==
    \A c \in Call : pc[c] \notin {"idle", "done"} ~> pc[c] = "done"

\* Once the network has stopped failing and the other calls are over, a call
\* does not fail for what happened before, whatever state the slot was left in.
Quiet(c) ==
    /\ pc[c] = "subscribe" /\ attempt[c] = 1
    /\ faults = MaxFaults
    /\ \A d \in Call \ {c} : pc[d] = "done"

RecoversAfterOutage ==
    \A c \in Call : Quiet(c) ~> pc[c] = "done" /\ outcome[c] # "quic"

-----------------------------------------------------------------------------
(* The inductive invariant behind the safety properties *)

\* Generations order the slot: the dial in flight and the last failure have the
\* latest generation, the held connection at most that one.
SlotInv ==
    /\ SingleFlight
    /\ \A g \in dialing : next_generation = g + 1
    /\ conn # None => conn < next_generation
    /\ last_error # None => next_generation = last_error + 1

\* What a caller in the wait loop knows of the attempt it joined.
WaitInv ==
    /\ NoLostWakeup
    /\ \A c \in Call :
        /\ seen[c] # None => seen[c] <= epoch
        /\ pc[c] \in {"wait", "recheck"} =>
              joined[c] # None /\ joined[c] < next_generation

\* Which locals a call has at which point of its life.
CallInv ==
    \A c \in Call :
        /\ pc[c] = "idle" => used[c] = None /\ kind[c] = "send"
        /\ kind[c] = "warmup" =>
              used[c] = None /\ pc[c] \notin {"open", "reply", "drain", "settle"}
        /\ attempt[c] = 2 \/ pc[c] \in {"open", "reply", "drain"} => used[c] # None
        /\ pc[c] = "subscribe" /\ attempt[c] = 1 => stale[c] = None
        /\ pc[c] \in {"wait", "recheck"} => stale[c] = None
        /\ stale[c] # None => stale[c] = used[c]
        /\ posted[c] \in {0, 1}
        /\ pc[c] \in {"reply", "drain"} => posted[c] = 1
        /\ pc[c] \notin {"reply", "drain", "settle", "done"} => posted[c] = 0
        /\ pc[c] \in {"settle", "done"} <=> outcome[c] # "pending"
        /\ pc[c] = "drain" \/ outcome[c] \in {"accepted", "refused"} =>
              status[c] # "none"
        /\ outcome[c] \in {"accepted", "refused"} => posted[c] = 1
        /\ outcome[c] = "warm" => kind[c] = "warmup"

\* The connection a call used is never ahead of the slot, and once the call
\* went past it, or reported it failed, it is not held any more.
UsedInv ==
    \A c \in Call : used[c] # None =>
        /\ used[c] < next_generation
        /\ conn # None => used[c] <= conn
        /\ \A g \in dialing : used[c] < g
        /\ attempt[c] = 2 /\ pc[c] \in {"wait", "recheck"} => conn # used[c]
        /\ attempt[c] = 2 /\ pc[c] \in {"subscribe", "look"} =>
              stale[c] = used[c] \/ conn # used[c]
        /\ pc[c] = "done" /\ outcome[c] \in {"quic", "timeout"} => conn # used[c]

\* The inductive invariant: TypeOK, SingleFlight, NoLostWakeup, ErrorNotOlder and
\* FailedNotHeld all follow from it.
IInv == TypeOK /\ SlotInv /\ WaitInv /\ CallInv /\ UsedInv
=============================================================================
