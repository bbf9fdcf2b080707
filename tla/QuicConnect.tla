----------------------------- MODULE QuicConnect -----------------------------
(***************************************************************************)
(* connect() and endpoint_for() of src/src/quic.rs: what a connect task    *)
(* does between being spawned and storing its outcome, for a sequence of   *)
(* tasks (never two at once: QuicClient!SingleFlight) that share the UDP   *)
(* endpoints of the client. Each resolved address gets a handshake task in *)
(* a JoinSet; the first success joined wins, the rest are aborted, and an  *)
(* HTTP/3 handshake follows on the winner.                                 *)
(*                                                                         *)
(* DNS, sockets, handshakes and the scheduler are external. abort_all only *)
(* asks: a task may still complete before the runtime cancels it. The      *)
(* JoinSet, with the connections nobody joined, is dropped when connect()  *)
(* returns.                                                                *)
(***************************************************************************)
EXTENDS Naturals

CONSTANTS
    Addr,          \* what the host may resolve to
    V6,            \* those that are IPv6
    Live,          \* those where a server answers; the others fail or hang
    None,
    MaxConnects    \* how many connect tasks the client runs

ASSUME AddrAssumption == V6 \subseteq Addr /\ Live \subseteq Addr
ASSUME NoneAssumption == None \notin Addr
ASSUME ConnectsAssumption == MaxConnects \in Nat

VARIABLES
    phase,      \* "idle", "resolve", "race", "h3", "ok" or "err"
    found,      \* the addresses of this connect
    task,       \* the handshake task of each address, in the JoinSet or not
    errors,     \* the addresses whose failure was noted
    winner,     \* the address whose connection `quic` is
    endpoints,  \* the families with a bound endpoint, kept by the client
    connects    \* connect tasks started

vars == <<phase, found, task, errors, winner, endpoints, connects>>

\* endpoint_for: the slot of an address's family.
Family(a) == IF a \in V6 THEN "v6" ELSE "v4"

TypeOK ==
    /\ phase \in {"idle", "resolve", "race", "h3", "ok", "err"}
    /\ found \subseteq Addr
    /\ task \in [Addr -> {"none", "dialing", "open", "failed", "aborting"}]
    /\ errors \subseteq Addr
    /\ winner \in Addr \cup {None}
    /\ endpoints \subseteq {"v4", "v6"}
    /\ connects \in 0..MaxConnects
    \* no handshake task outlives the connect that spawned it
    /\ phase \notin {"race", "h3"} => task = [a \in Addr |-> "none"]

Init ==
    /\ phase = "idle"
    /\ found = {}
    /\ task = [a \in Addr |-> "none"]
    /\ errors = {}
    /\ winner = None
    /\ endpoints = {}
    /\ connects = 0

In(s) == {a \in Addr : task[a] = s}
Set(a, s) == task' = [task EXCEPT ![a] = s]

\* A connect task is spawned.
Start ==
    /\ phase \in {"idle", "ok", "err"}
    /\ connects < MaxConnects
    /\ phase' = "resolve"
    /\ connects' = connects + 1
    /\ found' = {} /\ errors' = {} /\ winner' = None
    /\ UNCHANGED <<task, endpoints>>

\* Mutant of Return: the handshakes are detached tasks.
ReturnDetached(result) ==
    /\ phase' = result
    /\ UNCHANGED <<found, task, errors, winner, endpoints, connects>>

\* connect() returns and drops its JoinSet.
Return(result) ==
    /\ phase' = result
    /\ task' = [a \in Addr |-> "none"]
    /\ UNCHANGED <<found, errors, winner, endpoints, connects>>

\* lookup_host failed, or found nothing.
ResolveFails == phase = "resolve" /\ Return("err")

\* endpoint_for: the endpoints there are after those of `want` were asked for
\* and the host could bind those of `bindable`.
BoundAfter(want, bindable) == endpoints \cup (want \cap bindable)

\* The loop that spawns the handshakes. It does not await; an address whose
\* family has no socket is an error, and the others go on.
Resolve(addrs, bindable) ==
    /\ phase = "resolve"
    /\ addrs # {}
    /\ found' = addrs
    /\ endpoints' = BoundAfter({Family(a) : a \in addrs}, bindable)
    /\ errors' = {a \in addrs : Family(a) \notin endpoints'}
    /\ task' = [a \in Addr |-> IF a \in addrs \ errors' THEN "dialing" ELSE "none"]
    /\ phase' = "race"
    /\ UNCHANGED <<winner, connects>>

\* A handshake task ends; one that was aborted may still complete.
HandshakeOk(a) ==
    /\ task[a] \in {"dialing", "aborting"}
    /\ Set(a, "open")
    /\ UNCHANGED <<phase, found, errors, winner, endpoints, connects>>

HandshakeErr(a) ==
    /\ task[a] = "dialing"
    /\ a \notin Live
    /\ Set(a, "failed")
    /\ UNCHANGED <<phase, found, errors, winner, endpoints, connects>>

Aborted(a) ==
    /\ task[a] = "aborting"
    /\ Set(a, "none")
    /\ UNCHANGED <<phase, found, errors, winner, endpoints, connects>>

\* Mutants of MayWin and Exhausted.
MayWinLast(a) == task[a] = "open" /\ In("dialing") = {}

ExhaustedAtFirst == errors # {}

\* join_next may yield the success of a: no need to wait for the others.
MayWin(a) == task[a] = "open"

\* join_next yields a success, which wins; abort_all tells the others to stop.
JoinOk(a) ==
    /\ phase = "race"
    /\ MayWin(a)
    /\ winner' = a
    /\ task' = [b \in Addr |-> IF b = a THEN "none"
                               ELSE IF task[b] = "dialing" THEN "aborting"
                               ELSE task[b]]
    /\ phase' = "h3"
    /\ UNCHANGED <<found, errors, endpoints, connects>>

\* join_next yields a failure: note it and wait for the next.
JoinErr(a) ==
    /\ phase = "race"
    /\ task[a] = "failed"
    /\ errors' = errors \cup {a}
    /\ Set(a, "none")
    /\ UNCHANGED <<phase, found, winner, endpoints, connects>>

\* join_next yields None: nothing is left in the set.
Exhausted == \A a \in Addr : task[a] = "none"

NoAddress == phase = "race" /\ Exhausted /\ Return("err")

\* The HTTP/3 handshake on the winner decides; no other address is tried.
H3Ends(result) == phase = "h3" /\ Return(result)

Join == \E a \in Addr : JoinOk(a) \/ JoinErr(a)

\* The connect tasks are used up.
Finished == phase \in {"ok", "err"} /\ connects = MaxConnects /\ UNCHANGED vars

Next ==
    \/ Start
    \/ ResolveFails
    \/ \E addrs \in SUBSET Addr, bindable \in SUBSET {"v4", "v6"} :
          Resolve(addrs, bindable)
    \/ \E a \in Addr : HandshakeOk(a) \/ HandshakeErr(a) \/ Aborted(a)
    \/ Join
    \/ NoAddress
    \/ \E result \in {"ok", "err"} : H3Ends(result)
    \/ Finished

Spec == Init /\ [][Next]_vars

\* A live server completes its handshake and the task joins what there is to
\* join. Nothing is assumed of the other addresses, nor of DNS and HTTP/3.
FairSpec ==
    /\ Spec
    /\ \A a \in Live : WF_vars(HandshakeOk(a))
    /\ WF_vars(Join)
    /\ WF_vars(NoAddress)

-----------------------------------------------------------------------------
(* Properties *)

\* "No address accepted the handshake" is said only when every address of the
\* answer failed or had no socket: no handshake that may still succeed, and no
\* success waiting to be joined, is thrown away.
ErrorIsExhaustive == [][NoAddress => errors = found]_vars

\* One live address is enough, whatever the dead ones do: connect's doc, "A name
\* with ... several A records with one dead, connects as fast as its best
\* address instead of stalling on its first".
DeadAddressHarmless ==
    phase = "race" /\ In("dialing") \cap Live # {} ~> phase = "h3"
=============================================================================
