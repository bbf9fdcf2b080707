------------------------------- MODULE DemoFlow -------------------------------
(***************************************************************************)
(* The demo program (src/demo/src/main.rs), which uses every part of the   *)
(* crate once: size the tip from the stream or from REST, build, check and *)
(* send the transaction, ask an RPC for it until a deadline, and tell the  *)
(* user what became of it.                                                 *)
(*                                                                         *)
(* External: the server, which may hold the transaction before it answers; *)
(* the chain, where a held transaction executes or reverts as long as its  *)
(* blockhash lives; and the RPC, which knows what is older than `Confirm`, *)
(* reads that at some moment of the request, and answers later.            *)
(*                                                                         *)
(* The clock counts seconds from the moment the RPC reads the blockhash.   *)
(***************************************************************************)
EXTENDS Integers

CONSTANTS
    None,
    MinTip,         \* MIN_TIP_LAMPORTS
    MaxLamports,    \* u64::MAX
    Percentiles,    \* what the API may report: None stands for a value that is
                    \* missing or not finite, 0 for one that is not positive
    HashTimeout,    \* of the fetch of the blockhash
    SendTimeout,    \* of the warm-up and of the send
    RpcTimeout,     \* the longest an RPC answer takes: later ones are errors
    PollFor,        \* the demo's deadline
    Nap,            \* between two questions
    Lifetime,       \* of the blockhash
    Confirm         \* from execution to the RPC's knowing

ASSUME TipAssumption ==
    /\ {MinTip, MaxLamports} \subseteq Nat \ {0} /\ MinTip <= MaxLamports
    /\ Percentiles \subseteq Nat \cup {None}
ASSUME TimeAssumption ==
    /\ {HashTimeout, SendTimeout, RpcTimeout, PollFor, Nap, Lifetime, Confirm}
          \subseteq Nat \ {0}
    /\ Lifetime + Confirm < PollFor

VARIABLES
    pc,          \* "tip", "floor", "hash", "slot", "send", "ask", "nap", "done"
    transport,   \* "http" or "quic"
    tip,
    tx,          \* "none", "held", "dropped", "landed", "reverted", "expired"
    settled,     \* seconds since it landed or reverted, up to Confirm
    clock,
    deadline,
    wait,        \* seconds in the current await
    read,        \* what the RPC has read for its answer, None before
    said         \* what the user is told at the end

vars == <<pc, transport, tip, tx, settled, clock, deadline, wait, read, said>>
world == <<tx, settled>>
time == <<clock, deadline, wait>>

Final == {"landed", "reverted", "reported", "expired", "nothing", "error"}

ASSUME NoneAssumption == None \notin Final \cup {"unknown", "bare"}

\* The way to the send and the send, the polling, and after it a nap, the last
\* question and the wait for its answer.
Horizon ==
    HashTimeout + RpcTimeout + 2 * SendTimeout + PollFor + Nap + RpcTimeout

TypeOK ==
    /\ pc \in {"tip", "floor", "hash", "slot", "send", "ask", "nap", "done"}
    /\ transport \in {"http", "quic"}
    /\ tip \in 0..MaxLamports
    /\ tx \in {"none", "held", "dropped", "landed", "reverted", "expired"}
    /\ settled \in 0..Confirm
    /\ clock \in Nat /\ deadline \in Nat /\ wait \in Nat
    /\ read \in {None, "unknown", "landed", "reverted", "bare"}
    /\ said \in {None} \cup Final
    /\ pc = "done" <=> said # None

Init ==
    /\ pc = "tip"
    /\ transport \in {"http", "quic"}
    /\ tip = 0
    /\ tx = "none"
    /\ settled = 0
    /\ clock = 0 /\ deadline = 0 /\ wait = 0
    /\ read = None
    /\ said = None

Goto(l) == pc' = l /\ wait' = 0
Say(what) == Goto("done") /\ said' = what

-----------------------------------------------------------------------------
(* Step 1, the tip *)

\* Mutant of Lamports: no minimum.
LamportsAsReported(p) ==
    IF p = None THEN 0 ELSE IF p > MaxLamports THEN MaxLamports ELSE p

\* TipFloor::lamports: the conversion saturates, the result is at least the minimum.
Lamports(p) ==
    CASE p = None -> MinTip
      [] p # None /\ p > MaxLamports -> MaxLamports
      [] OTHER -> IF p < MinTip THEN MinTip ELSE p

\* A frame comes within 20 s and has some 75th percentile.
StreamFrame(p) ==
    /\ pc = "tip"
    /\ tip' = Lamports(p)
    /\ Goto("hash")
    /\ UNCHANGED <<transport, world, clock, deadline, read, said>>

StreamSilent ==
    /\ pc = "tip"
    /\ Goto("floor")
    /\ UNCHANGED <<transport, tip, world, clock, deadline, read, said>>

\* REST answers with percentiles of its own, or fails in any way.
FloorAnswers(p) ==
    /\ pc = "floor"
    /\ tip' = Lamports(p)
    /\ Goto("hash")
    /\ UNCHANGED <<transport, world, clock, deadline, read, said>>

FloorFails ==
    /\ pc = "floor"
    /\ tip' = MinTip
    /\ Goto("hash")
    /\ UNCHANGED <<transport, world, clock, deadline, read, said>>

-----------------------------------------------------------------------------
(* Steps 2 to 6: build, check, send *)

\* latest_blockhash has an answer, or fails in any way and ends the program.
Blockhash ==
    /\ pc = "hash"
    /\ \/ Goto("slot") /\ UNCHANGED said
       \/ Say("error")
    /\ UNCHANGED <<transport, tip, world, clock, deadline, read>>

\* current_slot has an answer, or none (`.ok()`); the transaction is signed with the
\* blockhash that was there before, or the program ends.
SlotAndSign ==
    /\ pc = "slot"
    /\ \/ Goto("send") /\ UNCHANGED said
       \/ Say("error")
    /\ UNCHANGED <<transport, tip, world, clock, deadline, read>>

\* send_transaction refuses a tip below the minimum; QuicClient::send does not look.
RefusesLocally == transport = "http" /\ tip < MinTip

\* Mutant of Deadline: nothing is asked twice.
DeadlineNow == clock

Deadline == clock + PollFor

\* The send ends. An error ends the program; otherwise it asks what became of it.
Accepted ==
    /\ pc = "send" /\ ~RefusesLocally
    /\ tx # "none"
    /\ Goto("ask")
    /\ deadline' = Deadline
    /\ UNCHANGED <<transport, tip, world, clock, read, said>>

\* Refused by the server, or by the client before it leaves.
Refused ==
    /\ pc = "send"
    /\ tx = "none"
    /\ Say("nothing")
    /\ UNCHANGED <<transport, tip, world, clock, deadline, read>>

\* A timeout or a transport error, whether the server has it or not.
SendFails ==
    /\ pc = "send" /\ ~RefusesLocally
    /\ Say("nothing")
    /\ UNCHANGED <<transport, tip, world, clock, deadline, read>>

-----------------------------------------------------------------------------
(* Step 7, verify *)

\* tip_charged, reverted_tip_refunded, or only the report.
Conclusion(r) == IF r = "bare" THEN "reported" ELSE r

Report ==
    /\ pc = "ask"
    /\ read \in {"landed", "reverted", "bare"}
    /\ Say(Conclusion(read))
    /\ read' = None
    /\ UNCHANGED <<transport, tip, world, clock, deadline>>

\* Mutant of Late: the deadline is never looked at.
LateNever == FALSE

Late == clock >= deadline

NotFound ==
    /\ pc = "ask"
    /\ read = "unknown"
    /\ IF Late THEN Say("expired") ELSE Goto("nap") /\ UNCHANGED said
    /\ read' = None
    /\ UNCHANGED <<transport, tip, world, clock, deadline>>

\* Any other error ends the program.
AskFails ==
    /\ pc = "ask"
    /\ Say("error")
    /\ read' = None
    /\ UNCHANGED <<transport, tip, world, clock, deadline>>

NapEnds ==
    /\ pc = "nap" /\ wait = Nap
    /\ Goto("ask")
    /\ UNCHANGED <<transport, tip, world, clock, deadline, read, said>>

-----------------------------------------------------------------------------
(* Server, chain, RPC and time *)

\* The server silently drops what is tipped below the minimum.
Receive ==
    /\ pc = "send" /\ ~RefusesLocally
    /\ tx = "none"
    /\ tx' = IF tip < MinTip THEN "dropped" ELSE "held"
    /\ UNCHANGED <<pc, transport, tip, settled, time, read, said>>

Execute(result) ==
    /\ tx = "held" /\ clock < Lifetime
    /\ tx' = result
    /\ UNCHANGED <<pc, transport, tip, settled, time, read, said>>

\* What the RPC has of it, with metadata or without.
RpcReads ==
    /\ pc = "ask" /\ read = None
    /\ read' \in IF settled = Confirm THEN {tx, "bare"} ELSE {"unknown"}
    /\ UNCHANGED <<pc, transport, tip, world, time, said>>

Longest == CASE pc = "hash" -> HashTimeout
             [] pc = "slot" -> RpcTimeout
             [] pc = "send" -> IF transport = "quic" THEN 2 * SendTimeout ELSE SendTimeout
             [] pc = "ask" -> RpcTimeout
             [] pc = "nap" -> Nap
             [] OTHER -> 0

\* Time passes in the awaits; those before the blockhash do not matter here.
Pass ==
    /\ wait < Longest
    /\ clock' = clock + 1
    /\ wait' = wait + 1
    /\ tx' = IF tx = "held" /\ clock' >= Lifetime THEN "expired" ELSE tx
    /\ settled' = IF tx \in {"landed", "reverted"} /\ settled < Confirm
                  THEN settled + 1 ELSE settled
    /\ UNCHANGED <<pc, transport, tip, deadline, read, said>>

\* The program has ended; the chain goes on.
Ended == pc = "done" /\ tx # "held" /\ UNCHANGED vars

Next ==
    \/ \E p \in Percentiles : StreamFrame(p) \/ FloorAnswers(p)
    \/ StreamSilent \/ FloorFails \/ Blockhash \/ SlotAndSign
    \/ Accepted \/ Refused \/ SendFails
    \/ Report \/ NotFound \/ AskFails \/ NapEnds
    \/ Receive \/ RpcReads \/ Pass
    \/ \E result \in {"landed", "reverted"} : Execute(result)
    \/ Ended

Spec == Init /\ [][Next]_vars

-----------------------------------------------------------------------------
(* Properties *)

\* Whatever stream and REST report, or fail to, the tip is one that the local check
\* lets pass and the server does not silently drop.
TipSuffices == ~(pc = "send" /\ RefusesLocally) /\ tx # "dropped"

\* The program has an end: the deadline bounds the polling, and timeouts the way to
\* it, whatever RPC and server do.
EndsInTime == pc # "done" => clock <= Horizon

\* "not found after 75 s: the blockhash expired without landing ... nothing was
\* charged" (src/demo/src/main.rs:324) is final.
ExpiredIsFinal == said = "expired" => tx \notin {"held", "landed", "reverted"}
=============================================================================
