------------------------------ MODULE TipWatch ------------------------------
(***************************************************************************)
(* The reconnecting tip subscription of src/src/tipstream.rs: the task of  *)
(* TipStream::watch_with, the stream it reads, the watch channel it fills  *)
(* and the TipWatch handle and receivers at the other end.                 *)
(*                                                                         *)
(* Time runs in seconds: `timer` is what is left of the bound on the await *)
(* the task is in (connect, next frame, sleep). The server is external: it *)
(* refuses, accepts, sends frames and junk, closes, or is silent.          *)
(***************************************************************************)
EXTENDS Integers

CONSTANTS
    None,
    Frame,                       \* what frames may carry
    ConnectTimeout, ReadTimeout, \* seconds
    MinBackoff, MaxBackoff,
    Handle,                      \* the receiver inside the TipWatch handle
    Subscriber,                  \* the receivers that `subscribe` hands out
    MaxDry                       \* how far `dry` counts

ASSUME TimeAssumption ==
    /\ {ConnectTimeout, ReadTimeout, MinBackoff, MaxBackoff} \subseteq Nat \ {0}
    /\ MinBackoff <= MaxBackoff
ASSUME FrameAssumption == None \notin Frame
ASSUME ReceiverAssumption == Handle \notin Subscriber
ASSUME BoundAssumption == MaxDry \in Nat

VARIABLES
    phase,      \* "connecting", "reading", "sleeping" or "ended"
    timer,
    backoff,
    latest,     \* the frame in the channel, None before the first
    rx,         \* each receiver: "gone", "idle", or "waiting" in `changed`
    fresh,      \* the receivers that have not seen the latest version
    handed,     \* whether `changed` has returned a frame to anyone (history)
    quiet,      \* seconds since the stream opened or delivered a frame (history)
    dry         \* connections lost since the last frame (history)

task == <<phase, timer, backoff, latest, quiet, dry>>
readers == <<rx, fresh, handed>>
vars == <<task, readers>>

Receiver == Subscriber \cup {Handle}
alive == rx[Handle] # "gone"

Least(a, b) == IF a < b THEN a ELSE b

TypeOK ==
    /\ phase \in {"connecting", "reading", "sleeping", "ended"}
    /\ timer \in 0..ConnectTimeout \cup 0..ReadTimeout \cup 0..MaxBackoff
    /\ backoff \in MinBackoff..MaxBackoff
    /\ latest \in Frame \cup {None}
    /\ rx \in [Receiver -> {"gone", "idle", "waiting"}]
    /\ fresh \subseteq {r \in Receiver : rx[r] # "gone"}
    /\ handed \in BOOLEAN
    /\ quiet \in 0..ReadTimeout + 1
    /\ dry \in 0..MaxDry

Init ==
    /\ phase = "connecting"
    /\ timer = ConnectTimeout
    /\ backoff = MinBackoff
    /\ latest = None
    /\ rx = [r \in Receiver |-> IF r = Handle THEN "idle" ELSE "gone"]
    /\ fresh = {}
    /\ handed = FALSE
    /\ quiet = 0
    /\ dry = 0

\* Mutants of Listened, AfterFrame, JunkDeadline and Doubled.
ListenedBySubscribers == \E r \in Subscriber : rx[r] # "gone"
AfterFrameKept == backoff
JunkDeadlineMoved == ReadTimeout
DoubledUncapped == 2 * backoff

\* tx.is_closed() is the negation: every receiver is gone.
Listened == \E r \in Receiver : rx[r] # "gone"

\* The backoff after a frame, the deadline after junk, the backoff after a sleep.
AfterFrame == MinBackoff
JunkDeadline == timer
Doubled == Least(2 * backoff, MaxBackoff)

\* The outer loop after a connect or a stream failed: sleep, or end.
Lost ==
    /\ IF Listened
       THEN phase' = "sleeping" /\ timer' = backoff
       ELSE phase' = "ended" /\ timer' = 0
    /\ quiet' = 0
    /\ dry' = Least(dry + 1, MaxDry)

\* connect_with returns; at the latest, Timeout when the timer is out.
Connected ==
    /\ phase = "connecting"
    /\ phase' = "reading"
    /\ timer' = ReadTimeout
    /\ quiet' = 0
    /\ UNCHANGED <<backoff, latest, dry, readers>>

ConnectFails ==
    /\ phase = "connecting"
    /\ Lost
    /\ UNCHANGED <<backoff, latest, readers>>

\* next() returns a frame: reset the backoff and send it, unless nobody listens.
Deliver(f) ==
    /\ phase = "reading"
    /\ backoff' = AfterFrame
    /\ quiet' = 0
    /\ dry' = 0
    /\ IF Listened
       THEN /\ latest' = f
            /\ fresh' = {r \in Receiver : rx[r] # "gone"}
            /\ timer' = ReadTimeout /\ UNCHANGED phase
       ELSE phase' = "ended" /\ timer' = 0
            /\ UNCHANGED <<latest, fresh>>
    /\ UNCHANGED <<rx, handed>>

\* A ping, a non-JSON frame or one that does not parse: next() goes on under the
\* deadline it started with.
Junk ==
    /\ phase = "reading"
    /\ timer' = JunkDeadline
    /\ UNCHANGED <<phase, backoff, latest, quiet, dry, readers>>

\* The stream ends, breaks, or next() runs into its deadline.
StreamEnds ==
    /\ phase = "reading"
    /\ Lost
    /\ UNCHANGED <<backoff, latest, readers>>

Wake ==
    /\ phase = "sleeping" /\ timer = 0
    /\ backoff' = Doubled
    /\ phase' = "connecting"
    /\ timer' = ConnectTimeout
    /\ UNCHANGED <<latest, quiet, dry, readers>>

\* A second passes; the task never stays in an await whose bound has passed.
Tick ==
    /\ timer > 0
    /\ timer' = timer - 1
    /\ quiet' = IF phase = "reading" THEN Least(quiet + 1, ReadTimeout + 1) ELSE 0
    /\ UNCHANGED <<phase, backoff, latest, dry, readers>>

-----------------------------------------------------------------------------
(* The receivers *)

Set(r, state) == rx' = [rx EXCEPT ![r] = state]

\* Mutant of Inherited: as a receiver made by the sender.
InheritedNone == {}

\* A clone of the handle's receiver has seen what that one has seen.
Inherited == fresh \cap {Handle}

\* `subscribe`
Subscribe(r) ==
    /\ alive /\ r # Handle
    /\ rx[r] = "gone"
    /\ Set(r, "idle")
    /\ fresh' = IF Inherited = {} THEN fresh ELSE fresh \cup {r}
    /\ UNCHANGED <<task, handed>>

\* `changed` is called, and returns the latest frame if it was not seen.
Await(r) ==
    /\ rx[r] = "idle"
    /\ Set(r, "waiting")
    /\ UNCHANGED <<task, fresh, handed>>

Changed(r) ==
    /\ rx[r] = "waiting" /\ r \in fresh
    /\ Set(r, "idle")
    /\ fresh' = fresh \ {r}
    /\ handed' = TRUE
    /\ UNCHANGED task

\* It fails once the task is gone, and with it the sender, ...
ChannelClosed(r) ==
    /\ rx[r] = "waiting" /\ r \notin fresh
    /\ phase = "ended"
    /\ Set(r, "idle")
    /\ UNCHANGED <<task, fresh, handed>>

\* ... or its caller gives it up.
GiveUp(r) ==
    /\ rx[r] = "waiting"
    /\ Set(r, "idle")
    /\ UNCHANGED <<task, fresh, handed>>

\* A receiver is dropped; the handle's with the handle (`impl Drop for TipWatch`).
Drop(r) ==
    /\ rx[r] # "gone"
    /\ Set(r, "gone")
    /\ fresh' = fresh \ {r}
    /\ UNCHANGED <<task, handed>>

\* Mutant of Cancelled: without the abort, the task goes on while a receiver
\* listens.
CancelledUnheard ==
    /\ ~Listened
    /\ phase # "ended"
    /\ phase' = "ended"
    /\ timer' = 0
    /\ quiet' = 0
    /\ UNCHANGED <<backoff, latest, dry, readers>>

\* The drop of the handle aborts the task: cancelled in whatever await it is.
Cancelled ==
    /\ ~alive
    /\ phase # "ended"
    /\ phase' = "ended"
    /\ timer' = 0
    /\ quiet' = 0
    /\ UNCHANGED <<backoff, latest, dry, readers>>

\* The task is gone, and so is what listened to it.
Finished == phase = "ended" /\ UNCHANGED vars

Next ==
    \/ Connected \/ ConnectFails
    \/ \E f \in Frame : Deliver(f)
    \/ Junk \/ StreamEnds
    \/ Wake
    \/ Tick
    \/ \E r \in Receiver :
          \/ Subscribe(r) \/ Await(r) \/ Changed(r)
          \/ ChannelClosed(r) \/ GiveUp(r) \/ Drop(r)
    \/ Cancelled
    \/ Finished

\* An aborted task is cancelled: it suspends at every await of its loop. A receiver
\* that waits is woken by a frame and by the end of the task, and polled. Nothing
\* is assumed of the server, of time, or of a caller's patience.
Spec ==
    /\ Init /\ [][Next]_vars
    /\ WF_vars(Cancelled)
    /\ \A r \in Receiver : WF_vars(Changed(r)) /\ WF_vars(ChannelClosed(r))

-----------------------------------------------------------------------------
(* Properties *)

\* The n-th connection lost since the last frame is followed by a sleep of
\* MinBackoff * 2^(n-1), capped: a server that closes every connection at once
\* cannot drive a hot loop (watch's doc).
BackoffGrows ==
    phase = "sleeping" /\ dry < MaxDry =>
        backoff = Least(MinBackoff * 2^(dry - 1), MaxBackoff)

\* A stream that delivers no frame within the read timeout is left, however many
\* pings or unreadable frames it sends.
SilentStreamLeft == quiet <= ReadTimeout

\* The task never gives up by itself: it ends only after the handle was dropped.
EndsOnlyDropped == phase = "ended" => ~alive

\* Whoever still waits on a receiver of `subscribe` when the handle is dropped is
\* not left waiting: the abort ends the task wherever it is suspended, the channel
\* closes with it, and `changed` returns (`impl Drop for TipWatch`). Without the
\* abort the task would go on for as long as that receiver listens.
OrphansReturn ==
    \A r \in Subscriber : rx[r] = "waiting" /\ ~alive ~> rx[r] # "waiting"

\* As long as nobody has taken a frame through `changed`, a receiver of `subscribe`
\* that waits for one while there is one gets it, and does not wait for the
\* server's next: whether the first frame comes before `subscribe`, between it and
\* `changed`, or later. The demo gives it 20 s (src/demo/src/main.rs:136).
FirstFrameReaches ==
    \A r \in Subscriber :
        rx[r] = "waiting" /\ latest # None /\ ~handed ~> rx[r] # "waiting"
=============================================================================
