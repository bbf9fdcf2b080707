----------------------------- MODULE HttpClient -----------------------------
(***************************************************************************)
(* The HTTP client of src/src/client.rs: the submitting calls of one       *)
(* Client and its clones, the counters (`struct Stats`) they share, the    *)
(* body of a batch, and the errors (src/src/error.rs) a caller gets.       *)
(* `send` also stands for send_transaction*, which check the tip first.    *)
(*                                                                         *)
(* Each action is what a call does between two awaits. The connection pool *)
(* is reqwest's: external, it gets the request out at most once or fails.  *)
(* The client timeout is reqwest's too and covers the body: it may hit at  *)
(* any await. A caller may drop its future at any await.                   *)
(*                                                                         *)
(* The server is external. It forwards the transactions of a batch one by  *)
(* one as it parses the body (send_batch's doc), and may do so after the   *)
(* caller has given up. A transaction is its length in bytes.              *)
(***************************************************************************)
EXTENDS Naturals, SequencesExt

CONSTANTS
    Call,
    MinTx, MaxTx,        \* MIN_TX_BYTES, MAX_TX_BYTES
    MaxBatch, MaxBody,   \* MAX_BATCH_TXS, MAX_BATCH_BODY_BYTES
    Byte,                \* the values of a byte: 256
    Lengths              \* of the transactions that callers pass

ASSUME SizeAssumption ==
    /\ {MinTx, MaxTx, MaxBatch, MaxBody, Byte} \subseteq Nat \ {0}
    /\ MaxTx < Byte * Byte
    /\ Lengths \subseteq Nat

VARIABLES
    op,        \* "send", "rpc" or "batch"
    txs,       \* the transactions of a call that was let through
    pc,        \* where the call is
    left,      \* how often its request left (history)
    at,        \* what the server has read of a batch
    forwarded, \* the transactions it has forwarded, as the bytes it read
    answered,  \* the status the server answered, 0 before (history)
    outcome,   \* what the caller is told
    stats      \* struct Stats without the latency sum

request == <<op, txs, left>>
server == <<at, forwarded, answered>>
vars == <<request, pc, server, outcome, stats>>

\* request: the request is on its way out; response: it left; refusal and
\* result: the headers are in, the body of an error or of JSON-RPC is not.
PC == {"idle", "request", "response", "refusal", "result", "done"}
Awaits == PC \ {"idle", "done"}

Counters == {"submitted", "accepted", "rejected_locally",
             "rejected_by_server", "transport_errors", "roundtrips"}

\* One status of each kind that is told apart.
Success == {200}
Status == Success \cup {400, 401, 404, 429, 503}

Init ==
    /\ op = [c \in Call |-> "send"]
    /\ txs = [c \in Call |-> <<>>]
    /\ pc = [c \in Call |-> "idle"]
    /\ left = [c \in Call |-> 0]
    /\ at = [c \in Call |-> 0]
    /\ forwarded = [c \in Call |-> <<>>]
    /\ answered = [c \in Call |-> 0]
    /\ outcome = [c \in Call |-> "pending"]
    /\ stats = [k \in Counters |-> 0]

Goto(c, label) == pc' = [pc EXCEPT ![c] = label] /\ UNCHANGED outcome

Return(c, result) ==
    /\ pc' = [pc EXCEPT ![c] = "done"]
    /\ outcome' = [outcome EXCEPT ![c] = result]

Add(k, n) == stats' = [stats EXCEPT ![k] = @ + n]

-----------------------------------------------------------------------------
(* check_size and frame_batch *)

Fits(len) == MinTx <= len /\ len <= MaxTx

FramedLength(lens) == FoldSeq(LAMBDA len, n : n + len + 2, 0, lens)

Framable(lens) ==
    /\ lens # <<>> /\ Len(lens) <= MaxBatch
    /\ \A k \in DOMAIN lens : Fits(lens[k])
    /\ FramedLength(lens) <= MaxBody

Valid(o, lens) == IF o = "batch" THEN Framable(lens) ELSE Fits(lens[1])

\* The bytes of the k-th transaction of a call: they only have to be told from
\* those of the others.
Bytes(c, k) == [i \in 1..txs[c][k] |-> k]

\* Two bytes of length, the high one first, and the transaction.
Frame(c) ==
    FlattenSeq([k \in DOMAIN txs[c] |->
        <<txs[c][k] \div Byte, txs[c][k] % Byte>> \o Bytes(c, k)])

-----------------------------------------------------------------------------
(* The calls *)

\* check_size or frame_batch passed.
Begin(c, o, lens) ==
    /\ pc[c] = "idle"
    /\ Valid(o, lens)
    /\ op' = [op EXCEPT ![c] = o]
    /\ txs' = [txs EXCEPT ![c] = lens]
    /\ Add("submitted", Len(lens))
    /\ Goto(c, "request")
    /\ UNCHANGED <<left, server>>

\* check_size or frame_batch refuses the arguments, or the tip check does, of
\* which TipInspection says more.
RejectLocally(c, o, lens) ==
    /\ pc[c] = "idle"
    /\ ~Valid(o, lens) \/ o = "send"
    /\ Add("rejected_locally", 1)
    /\ Return(c, "rejected")
    /\ UNCHANGED <<request, server>>

\* send_transaction* returns early, uncounted, when its transaction does not
\* serialize.
Unserializable(c) ==
    /\ pc[c] = "idle"
    /\ Return(c, "serialize")
    /\ UNCHANGED <<request, server, stats>>

\* reqwest gets the request out.
Leave(c) ==
    /\ pc[c] = "request"
    /\ left' = [left EXCEPT ![c] = @ + 1]
    /\ Goto(c, "response")
    /\ UNCHANGED <<op, txs, server, stats>>

\* Mutants of TransportFails.
TransportFailsUncounted(c, why) ==
    /\ pc[c] \in {"request", "response"}
    /\ IF why = "timeout" THEN UNCHANGED stats ELSE Add("transport_errors", 1)
    /\ Return(c, why)
    /\ UNCHANGED <<request, server>>

TransportFailsResends(c, why) ==
    /\ pc[c] \in {"request", "response"}
    /\ Add("transport_errors", 1)
    /\ IF left[c] = 1 THEN Goto(c, "request") ELSE Return(c, why)
    /\ UNCHANGED <<request, server>>

\* `transport` and from_reqwest: the request fails, before it left or waiting
\* for the headers.
TransportFails(c, why) ==
    /\ pc[c] \in {"request", "response"}
    /\ Add("transport_errors", 1)
    /\ Return(c, why)
    /\ UNCHANGED <<request, server>>

\* The server reads the next transaction and forwards it.
Forward(c) ==
    /\ left[c] > 0 /\ answered[c] = 0
    /\ Len(forwarded[c]) < Len(txs[c])
    /\ IF op[c] = "batch"
       THEN LET body == Frame(c)
                len == body[at[c] + 1] * Byte + body[at[c] + 2]
            IN /\ at' = [at EXCEPT ![c] = @ + 2 + len]
               /\ forwarded' = [forwarded EXCEPT
                     ![c] = Append(@, SubSeq(body, at[c] + 3, at[c] + 2 + len))]
       ELSE /\ forwarded' = [forwarded EXCEPT ![c] = <<Bytes(c, 1)>>]
            /\ UNCHANGED at
    /\ UNCHANGED <<request, pc, answered, outcome, stats>>

\* What the server may answer: a key or a rate is refused before the body is
\* read, a bad request is one that was not forwarded to the end.
MayAnswer(c, s) ==
    /\ s \in Success => op[c] = "rpc" \/ Len(forwarded[c]) = Len(txs[c])
    /\ s \in {401, 429} => forwarded[c] = <<>>
    /\ s = 400 => Len(forwarded[c]) < Len(txs[c])

\* `classify` counts the round trip and splits on the status; send and
\* send_batch count a success without reading its body.
Headers(c, s) ==
    /\ pc[c] = "response"
    /\ MayAnswer(c, s)
    /\ answered' = [answered EXCEPT ![c] = s]
    /\ LET trip == [stats EXCEPT !["roundtrips"] = @ + 1]
       IN \/ /\ s \notin Success
             /\ stats' = [trip EXCEPT !["rejected_by_server"] = @ + 1]
             /\ Goto(c, "refusal")
          \/ /\ s \in Success /\ op[c] = "rpc"
             /\ stats' = trip
             /\ Goto(c, "result")
          \/ /\ s \in Success /\ op[c] # "rpc"
             /\ stats' = [trip EXCEPT !["accepted"] = @ + Len(txs[c])]
             /\ Return(c, "accepted")
    /\ UNCHANGED <<request, at, forwarded>>

\* Mutant of FromStatus: a busy server is a rate limit.
FromStatusBusy(s) ==
    CASE s = 401 -> "unauthorized"
      [] s = 429 \/ s >= 500 -> "rate_limited"
      [] s = 400 -> "bad_request"
      [] OTHER -> "http"

\* Error::from_status
FromStatus(s) ==
    CASE s = 401 -> "unauthorized"
      [] s = 429 -> "rate_limited"
      [] s = 400 -> "bad_request"
      [] s >= 500 -> "server"
      [] OTHER -> "http"

\* The body of a refusal, empty if it cannot be read in time.
RefusalBody(c) ==
    /\ pc[c] = "refusal"
    /\ Return(c, FromStatus(answered[c]))
    /\ UNCHANGED <<request, server, stats>>

\* The body of a 200 to send_rpc: the signature of what the server forwarded, an
\* error object when it did not, or neither.
RpcResult(c) ==
    /\ pc[c] = "result" /\ forwarded[c] # <<>>
    /\ Add("accepted", 1)
    /\ Return(c, "accepted")
    /\ UNCHANGED <<request, server>>

RpcError(c) ==
    /\ pc[c] = "result" /\ forwarded[c] = <<>>
    /\ Add("rejected_by_server", 1)
    /\ Return(c, "rpc")
    /\ UNCHANGED <<request, server>>

\* `decode` and decode_reqwest: the body is cut, late, not JSON, or has no result.
RpcUnreadable(c, why) ==
    /\ pc[c] = "result"
    /\ Return(c, why)
    /\ UNCHANGED <<request, server, stats>>

Abandon(c) ==
    /\ pc[c] \in Awaits
    /\ Return(c, "abandoned")
    /\ UNCHANGED <<request, server, stats>>

CallStep(c) ==
    \/ Leave(c)
    \/ \E why \in {"transport", "timeout"} : TransportFails(c, why)
    \/ \E s \in Status : Headers(c, s)
    \/ RefusalBody(c)
    \/ RpcResult(c) \/ RpcError(c)
    \/ \E why \in {"decode", "timeout"} : RpcUnreadable(c, why)

\* What callers pass: one transaction, or a batch that may be too long by one.
Arguments(o) ==
    IF o = "batch" THEN BoundedSeq(Lengths, MaxBatch + 1) ELSE [{1} -> Lengths]

Finished == (\A c \in Call : pc[c] = "done") /\ UNCHANGED vars

Next ==
    \/ \E c \in Call :
        \/ \E o \in {"send", "rpc", "batch"} : \E lens \in Arguments(o) :
              Begin(c, o, lens) \/ RejectLocally(c, o, lens)
        \/ Unserializable(c)
        \/ CallStep(c)
        \/ Forward(c)
        \/ Abandon(c)
    \/ Finished

Spec == Init /\ [][Next]_vars

-----------------------------------------------------------------------------
(* Properties *)

\* The variants of a refusal by the server.
Refusals == {"unauthorized", "rate_limited", "bad_request", "server", "http", "rpc"}

\* The calls that got past the local checks, those told one of R, and those
\* answered with a status in A.
Begun == {c \in Call : pc[c] # "idle" /\ outcome[c] \notin {"rejected", "serialize"}}
Ended(R) == {c \in Call : outcome[c] \in R}
Answered(A) == {c \in Call : answered[c] \in A}

Transactions(S) == Cardinality(UNION {{c} \X DOMAIN txs[c] : c \in S})

\* The counters that the calls of one client share add up whatever the
\* interleaving and wherever callers give up: every transaction let through,
\* every local refusal, a round trip for every answer, every refusal of the
\* server, and a transport error for every request told to have failed without
\* an answer. What a 200 to send_rpc counts as is left open where its body is an
\* error or cannot be read (TimeoutsCounted).
Ledger ==
    LET N(S) == Cardinality(S)
        Failed == Ended({"transport", "timeout"})
    IN /\ stats["submitted"] = Transactions(Begun)
       /\ stats["rejected_locally"] = N(Ended({"rejected"}))
       /\ stats["roundtrips"] = N(Answered(Status))
       /\ Transactions(Ended({"accepted"})) <= stats["accepted"]
       /\ stats["accepted"] <= Transactions(Answered(Success))
       /\ N(Answered(Status \ Success)) <= stats["rejected_by_server"]
       /\ stats["rejected_by_server"] <=
             N(Answered(Status \ Success) \cup Ended({"rpc"}))
       /\ N(Failed \ Answered(Status)) <= stats["transport_errors"]
       /\ stats["transport_errors"] <= N(Failed)

\* What client.rs:32 says: timeouts are transport errors. One that hits while
\* send_rpc reads the body of a 200 is none.
TimeoutsCounted ==
    stats["transport_errors"] = Cardinality(Ended({"transport", "timeout"}))

\* What the server makes of a body is a prefix of what the caller passed, byte for
\* byte and in order; and the caller is told no less of it than is true: everything
\* was taken when told "accepted", nothing when told that a key, a rate or an
\* argument was refused, not everything when told "bad request", for a batch
\* ("earlier transactions in the batch may already have been accepted",
\* src/src/error.rs:66) as for one transaction. All other errors leave it open.
ToldWhatWasTaken ==
    \A c \in Call :
        /\ \A k \in DOMAIN forwarded[c] : forwarded[c][k] = Bytes(c, k)
        /\ outcome[c] = "accepted" => Len(forwarded[c]) = Len(txs[c])
        /\ outcome[c] \in {"rejected", "serialize", "unauthorized", "rate_limited",
                           "rpc"} =>
              forwarded[c] = <<>>
        /\ outcome[c] = "bad_request" => Len(forwarded[c]) < Len(txs[c])

\* What the submission contract sees of a call. A response that cannot be read
\* says as little as none.
Phase(c) == IF pc[c] = "idle" THEN "new"
            ELSE IF pc[c] = "done" THEN "closed" ELSE "open"

Told(c) == IF outcome[c] \in Refusals THEN "refused"
           ELSE IF outcome[c] = "decode" THEN "transport"
           ELSE IF outcome[c] = "serialize" THEN "rejected" ELSE outcome[c]

Submit == INSTANCE SubmitOnce WITH phase <- [c \in Call |-> Phase(c)],
                                   result <- [c \in Call |-> Told(c)]

\* Every call keeps the submission contract: no call resends, and a refusal or
\* a success is told only for a request that left.
SubmitRefined == Submit!SubmitSpec
=============================================================================
