----------------------------- MODULE SubmitOnce -----------------------------
(***************************************************************************)
(* What a submission promises its caller, over QUIC and over HTTP alike: a *)
(* call puts its transactions on the wire at most once, answers once, says *)
(* "accepted" or "refused" only when they left, and puts nothing on the    *)
(* wire after it has answered (no retry outlives the call).                *)
(***************************************************************************)
EXTENDS Naturals

CONSTANT Call    \* the calls of the submitting functions

Results == {"accepted", "refused", "transport", "timeout", "abandoned"}

VARIABLES
    phase,   \* "new", "open" or "closed"
    left,    \* how many times the call's request has left the process
    result   \* what the caller was told, "pending" before that

submitVars == <<phase, left, result>>

SubmitInit ==
    /\ phase = [c \in Call |-> "new"]
    /\ left = [c \in Call |-> 0]
    /\ result = [c \in Call |-> "pending"]

Open(c) ==
    /\ phase[c] = "new"
    /\ phase' = [phase EXCEPT ![c] = "open"]
    /\ UNCHANGED <<left, result>>

\* The arguments are refused before anything is tried.
Reject(c) ==
    /\ phase[c] = "new"
    /\ phase' = [phase EXCEPT ![c] = "closed"]
    /\ result' = [result EXCEPT ![c] = "rejected"]
    /\ UNCHANGED left

\* The request leaves the process. There is no second time.
Leave(c) ==
    /\ phase[c] = "open"
    /\ result[c] = "pending"
    /\ left[c] = 0
    /\ left' = [left EXCEPT ![c] = 1]
    /\ UNCHANGED <<phase, result>>

\* A server's answer needs a request that left; a transport failure, a timeout
\* or a dropped future says nothing about whether it did.
Close(c, r) ==
    /\ phase[c] = "open"
    /\ r \in {"accepted", "refused"} => left[c] = 1
    /\ phase' = [phase EXCEPT ![c] = "closed"]
    /\ result' = [result EXCEPT ![c] = r]
    /\ UNCHANGED left

SubmitNext ==
    \E c \in Call : Open(c) \/ Reject(c) \/ Leave(c) \/ \E r \in Results : Close(c, r)

SubmitSpec == SubmitInit /\ [][SubmitNext]_submitVars
=============================================================================
