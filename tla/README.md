# nozomi-client in TLA+

Specifications of the Rust crate `nozomi-client` (a client for the Nozomi
transaction-submission service): what its parts do, checked with TLC on small
instances, and what they guarantee for any number of callers, addresses,
transactions or seconds, proved with TLAPS. Every safety property that a passing
run checks is also a theorem; four runs show where the repository promises more than
the code does. Paths below are relative to the project root
(`src/src/quic.rs` is the crate's `src/quic.rs`).

## 1. Inventory

| component | state | operations | talks to | hard about it |
|---|---|---|---|---|
| QUIC client (`quic.rs`) | `State` (connection, `connecting`, `next_generation`, `last_error`) behind a mutex; a watch channel `epoch`; `Stats` | `warmup`, `send`, `send_batch`, `send_raw`, `disconnect`, `is_connected`; the connect task | shares the slot between callers and the connect task; quinn/h3 | callers, timeouts, dropped futures, evictions and the connect task interleave at every lock and await |
| QUIC connect (`connect`, `endpoint_for`) | the endpoint per address family; a `JoinSet` of handshakes | run by the connect task | DNS, UDP, quinn | handshakes race; aborted ones may still complete; families without a socket |
| HTTP client (`client.rs`) | `Stats`, shared by clones | `send`, `send_rpc`, `send_batch`, `send_transaction*`, `ping`, `tip_floor` | reqwest's pool | counters of concurrent calls, timeouts between headers and body, a batch of which the server has taken a part |
| Keepalive (`client.rs`) | a ticker task | `spawn_keepalive`, `Drop` | `ping` | 60 s against the server's 65 s, a pool of four |
| Batch framing (`frame_batch`) | none | pure | both clients | limits, lengths of two bytes |
| Tip stream (`tipstream.rs`) | a websocket; the watch task with its backoff; a watch channel | `connect`, `next`, `close`, `watch`, `latest*`, `subscribe`, `changed`, `Drop` | tungstenite | reconnect, backoff, read deadline, end of the task, receivers that miss a frame |
| Tip floor (`tipfloor.rs`) | none | `lamports` | tip stream, `tip_floor` | missing and odd percentiles |
| Tip inspection (`tip.rs`) | none | `inspect`, `check`, `tip_instruction` | `send_transaction*` | lookup tables, 64-bit sums |
| Verifier (`verify.rs`) | none | `report`, `signatures_for`, `current_slot` | a Solana RPC | incomplete JSON, reverted transactions |
| Demo (`demo/src/main.rs`) | a straight line with a poll loop | — | everything above | what it concludes from a timeout |
| Scan (`examples/scan.rs`) | a cursor per account, the signatures collected | page, merge, count, sample | `signatures_for` | the chain grows and pages fail while it runs; lists of several accounts are merged |
| Errors (`error.rs`) | none | `from_status`, `from_reqwest` | all clients | what a variant tells about the transaction |
| Regions, URLs, builders, the other examples | none | pure | — | nothing that runs |

What makes each of them correct:

* QUIC client: one dial at a time; a waiting caller is always going to be woken;
  nothing is submitted twice, whatever fails and whenever the deadline hits;
  the connection a send failed on is not the one the next send gets; nobody
  drops a connection that is somebody else's and healthy; errors are not
  leftovers; counters add up; every call returns.
* QUIC connect: one live address is enough; an error means that every address
  failed; sockets are reused.
* HTTP client: at most once; counters add up across calls that share them; no
  error suggests that less was taken of a batch than was.
* Tip stream: no hot loop, no silent stream kept, no end before the handle's,
  an end after it, no first frame missed.
* Keepalive: a client with nothing in flight has a warm connection. Tip, verifier: what
  the function says agrees with what the chain does, for every input in bounds.
  What the check says before a send agrees with what the report says after it.
* Scan: everything of the window is counted, once.
* Demo: what it tells the user is so.

## 2. Modules

| module | models | status |
|---|---|---|
| `QuicClient` | the callers, the slot, the epoch, the connect task up to `connect()`'s result, retry, eviction, counters | done |
| `ConnSlot` | abstract: what the slot promises. `QuicClient!SlotRefined` | done |
| `SubmitOnce` | abstract: what a submitting call promises. `QuicClient!SubmitRefined`, `HttpClient!SubmitRefined` | done |
| `QuicConnect` | `connect()` and `endpoint_for`, over a sequence of connect tasks | done |
| `HttpClient` | the submitting calls of the HTTP client, the body of a batch, counters and errors | done |
| `TipWatch` | `watch_with`, `next`, `connect_with`, the handle and its receivers | done |
| `MCHttpClient` | the symmetry set for TLC | done |
| `KeepAlive` | the ticker task, `ping`, the handle, on the pool and a server that closes what is idle | done |
| `TipInspection` | `inspect_with_loaded` and `check`, against the runtime's numbering of accounts | done |
| `Landing` | `report` and `parse_report`, against the chain's account of the transaction | done |
| `TipPath` | `TipInspection` and `Landing` composed: a tip from the check to the report | done |
| `Scan` | the landing scan, over a chain that grows | done |
| `DemoFlow` | the demo: `TipFloor::lamports`, send, poll, verdict | done |
| `QuicClientProofs`, `QuicConnectProofs`, `HttpClientProofs`, `TipWatchProofs`, `KeepAliveProofs`, `DemoFlowProofs`, `ScanProofs` | the theorems about the module of that name | done |
| `TipProofs` | the theorems about `TipInspection`, `Landing` and `TipPath` | done |

`QuicClient` and `QuicConnect` meet at `QuicClient!ConnectOk` and `ConnectErr`:
the client assumes nothing of a dial but that it ends in one of the two or not
at all; `QuicConnect` shows what happens inside, for tasks one after the other,
which is what `SingleFlight` guarantees. `Landing` and `TipInspection` meet in
`TipPath`: the same transaction, seen by account indices before it is sent and
by parsed addresses and balances afterwards.

### QuicClient and the code

One action is one critical section or one stretch between two awaits.

| code (`quic.rs`) | actions |
|---|---|
| `send_framed` up to the timeout 394-408 | `Begin`, `RejectLocally` (checks of `send_batch`/`send_raw`) |
| `sender` 480-533 | `Subscribe`; under the mutex `LookLive`, `LookConnect`, `LookWait`; `Wake`; under the mutex `RecheckLive`, `RecheckFail`, `RecheckAgain` |
| `attempt` 535-586 | `OpenOk`, `OpenFails` (`NotSent`), `Reply`, `Drain`, `StreamFails` (`Sent(Err)`) |
| `send_with_retry` 449-464 | `Reconnect` inside `OpenFails` |
| timeout; a dropped future | `Timeout`, `Abandon`, at the awaits of `Awaits` |
| `send_framed` after the timeout 409-438 | `Settle` with `Counted`, `Suspect`, `Evict` |
| connect task 503-516 | `ConnectOk`/`ConnectErr` (under the mutex), then `Announce` |
| `disconnect`; QUIC closing | `Disconnect`, `CloseConn` |

A connection is its generation (they are unique, which `SlotRefined` shows).
`Drop for Conn` aborts the HTTP/3 driver when the slot lets go, so a stream on a
connection that is not held (`Broken`) may fail at any time; a stream on a
healthy one fails only at the cost of a fault. A `RecheckLive` takes the
connection without looking at `close_reason`, as the code does. `seen`,
`joined`, `used`, `attempt`, `stale` are the locals of a call; `joined`,
`posted` and `status` (what a call was answered) are history. `StatsAgree` brackets
the round trips between the calls told a verdict and the responses that came; that
they are the latter, as the doc says, is finding 3.

Left out: the text of errors, the latency sum, bodies, `Retry-After`. An action
that touches several atomic counters does so in one step: each call adds to them
independently, and the properties speak about their totals. The
`changed()` error "client dropped" cannot happen: the future borrows the client.

### QuicConnect

`Resolve` is the spawn loop (no await in it), with any set of addresses and any
set of families that can be bound; `HandshakeOk`, `HandshakeErr`, `Aborted` are
the tasks; `JoinOk`, `JoinErr`, `NoAddress` the outcomes of `join_next`; `H3Ends`
the HTTP/3 handshake. A handshake that was told to abort may still complete
(`HandshakeOk`), until returning drops the `JoinSet`. A panic of a handshake task
is `JoinErr`.

### HttpClient

A call is `send` (also for `send_transaction*`, which check the tip first and
return early, uncounted, if the transaction does not serialize: `Unserializable`),
`send_rpc` or `send_batch`. `Valid` is `check_size` and the refusals of
`frame_batch`, `Frame` its body: a length in two bytes, then the transaction. A
transaction is its length; its bytes are its position in the batch, which is
enough to see a byte go astray. `Ledger` counts transactions as pairs of a call and
a position, and leaves open what a 200 to `send_rpc` counts as when its body is an
error or cannot be read; what the docs say of a body that times out is `TimeoutsCounted`
(finding 4). `Headers` is the part of `classify` before its
await with the caller's next steps when there is none in between; `FromStatus`
is `Error::from_status`. reqwest's timeout covers the body: `RefusalBody`
swallows it (`unwrap_or_default`), `RpcUnreadable` reports it.

The server is the environment: `Forward` reads the next transaction of the body
and forwards it, whether the caller still waits or not; `MayAnswer` says that a
key or a rate is refused before anything is read, a 400 is not sent when
everything was forwarded, and a 200 to a batch not before.

### TipWatch

One action per outcome of an await of the task, with a clock in seconds. The
server does as it likes. `quiet` and `dry` are history: seconds without a frame
on the current stream, and connections lost since the last frame.

The receivers are the one in the handle and those that `subscribe` clones from
it; `fresh` are the receivers whose version is behind the channel's. A clone takes the
handle's version along (`Inherited`), so a frame that came before `subscribe` is
new to the clone until the handle's own `changed` has returned it. `Await` and
`Changed`, `ChannelClosed` (the task is gone) or `GiveUp` (the future is dropped) are a
call of `changed`, `Drop` the end of a receiver. `latest` and `latest_lamports` show a
frame and do not mark it as seen, so they are no actions. `FirstFrameReaches` and
`OrphansReturn` are about the receivers of `subscribe` only: what
`TipWatch::changed` promises of the handle's own receiver is not what it does (see the
end of section 3).

### KeepAlive

The task is `PingStarts` (a tick and a request), then `PingOk` or `PingFails`;
`DropHandle` is the handle's `Drop`. The pool is reqwest's: a request takes any
idle connection (`Take`, `Candidates`), and gives it back (`GiveBack`) unless it
failed (`Lose`) or the pool is full. What is kept warm is a connection for a send that
finds no other request in flight (`KeptWarm`): while a ping or a send holds the only one,
a send dials. Connections that are idle for 65 s are
closed by the server, for 90 s by the pool (`client.rs:142`). The ticker is `Delay`: the
next tick is a period after the tick that was served. `ping` and `send` do not
read the response body; the model takes it to be empty, without which reqwest could
not reuse an HTTP/1 connection at all.

### TipInspection

A transaction is put together instruction by instruction and then sent.
`Directed`, `Resolve`, `Tips` and `Unresolved` are the loop of
`inspect_with_loaded`, `Verdict` is `check`, `Send` its use in
`send_transaction_with_loaded`. Two kinds of accounts are enough, as the code
asks of an account only whether it is a tip account. `table` is what the lookup
tables really hold; the caller may pass a prefix of it, down to nothing
(`inspect`). 64-bit sums are sums modulo `Width`, as in a release build. Two of
the properties carry the limits that make them true: the refusals are right
when the tips add up to no more than the lamports that exist (`Supply`), which a
transaction that can execute satisfies; `UnresolvedEncloses` when the sums do
not wrap.

### Landing

The transaction, its execution and the RPC are the environment (`Add`, `Land`);
`Report` is `Verifier::report` with `parse_report`: `Visited` is the closure
`visit` over the instructions of the message and the inner ones, `Delta` the
balance of one account, `Gained` the accounts that the fallback for the account
considers. Both sums of the report are of u64 without a check, and are
modulo `Width`, as in a release build. A transaction that succeeds moves lamports that
exist (`Holdings <= Supply`), so its sums do not wrap; one that reverts may carry any
amounts, and its bid may (see the end of section 3). `BidIsChargedOrRefunded` therefore asks of a
reverted one only that it is never called charged, and is called refunded when the sum
fits. The RPC may have no metadata, or metadata without inner instructions. The
properties are about reports with metadata; nothing leaves a tip account
in the transaction, otherwise the deltas are less than what arrived.

### TipPath

`TipInspection` is extended and `Landing` instantiated (`Chain`), on the same
constants. The account keys are the payer, the tip accounts and another, of which any
number is static and the rest comes from lookup tables; the caller passes the first
of those, as many as it likes. `Build` adds a transfer on the chain's side and an
instruction on the check's; the other actions are those of one side alone.
`Instruction` is what the client sees of a transfer: inner ones and
lamports that a program moves are invisible to it. The user may send what the
check refused (`send_transaction_unchecked`). `CheckForeseesReport` joins the two ends:
what passed the check and succeeded has paid, whatever the amounts; that the resolved
sum is at most the report's, and that what was unresolved makes up the rest, is true as
long as the sums compared do not wrap, since the report adds inner transfers to a sum
that wraps by itself.
The properties of `Landing` are checked here, under the name they have there.

### Scan

`PageFails`, `PageEmpty`, `PageLast` and `PageOn` are the outcomes of one round of
the paging loop, with `Collect` its `extend` and `NextAccount` its `break`. The chain
grows between any two of them (`Land`). The RPC lists newest first, does not know
the block time of one slot (`untimed`), and may fail. `Sort` is the sort, which
is stable, the `dedup_by` and the count; `Sample` picks successes and reverts.
A page, a filter and the sort are each an ordering of a finite set of positions
(`Ordered`, `Only`), which is what they come to and what can be reasoned about.
`first` and `stop` are history: how long the chain was when an account's paging
began, and why it stopped.

### DemoFlow

One action per await of `main`, with a clock in seconds from the moment the RPC reads
the blockhash: the rest of that request (up to 15 s, `Blockhash`), `current_slot` (up to
the verifier's timeout, its error ignored: `SlotAndSign`) and the send come before the
polling. `Lamports` is `TipFloor::lamports`. The server may take the
transaction before it answers (`Receive`); the chain executes it as long as its
blockhash lives; the RPC reads the state at some moment (`RpcReads`) and answers
later (`Report`, `NotFound`), so that the answer may be stale, up to the RPC
timeout, when the demo compares the deadline.

## 3. Runs

| run | instance | what it shows |
|---|---|---|
| `quic_calls` | 2 calls, 1 fault, batches of 2, `LiveSpec` | all safety properties, both refinements, and that `IInv` is an invariant; every call returns, by the network or by its deadline alone; a call recovers after an outage |
| `quic_roundtrips` | 1 call, 1 fault | violation: finding 3 |
| `quic_connect` | 3 addresses (two IPv4, one IPv6; one alive), 2 connects | the race: no handshake outlives it, its errors are exhaustive, dead addresses do no harm |
| `http_calls` | 2 calls, batches of up to 2, sizes 2 to 5, bodies up to 14, bytes of 4 values | the ledger of shared counters; at most once; what an error says of a batch |
| `http_timeouts` | the same | violation: finding 4 |
| `tip_watch` | the code's 10/45/1..30 s, the handle and 1 receiver | backoff, silent streams, end of the task and of those who wait on it, the first frame |
| `keep_alive` | 3 connections, pool of 2, steps of 5 s: 60/65/90 s, timeout 5 s | a warm connection, pings after failures |
| `tip_path` | 3 transfers, 4 account keys, 2 of them tip accounts, 0 to 3 looked up, sums modulo 8 | the check is sound, its refusals too, and the interval of `TipUnresolved`; payment, refund and bid in the report are the chain's, and agree with the check |
| `demo` | the demo's 15/5/75/2 s, blockhash 60 s, confirmation 5 s, RPC answers within 5 s | tip suffices, it ends, "expired" is final |
| `demo_slow` | the same, RPC answers within 30 s | violation: finding 1 |
| `scan` | 2 accounts, 4 transactions in 3 slots, pages of 2, cap of 3, window of 1 s | the window is covered, doubles have one cause, the sample has both kinds |
| `scan_dedup` | the same with 3 transactions | violation: finding 2 |

The bounds. Two calls are what the races of the slot need: one acts between two
steps of the other, and each makes up to two attempts, so generations go to four.
A fault is a failed dial, a closed connection, a broken stream on a healthy
connection or a `disconnect`; one is enough, as timeouts and dropped calls cost
nothing, nor does what follows from an eviction: a call can fail at its first attempt
and again at its reconnect, or evict between another call's failure
and its retry. More faults are for the proofs: the safety
properties of passing runs are proved for every value of the constants (section 4), so the bounds
matter for the liveness properties only; for the others the runs show that the
interesting cases are reached, as the mutants of `PROJECT.json` do. In `http_calls` lengths go from one
below the minimum to one above the maximum, a batch from empty to one too many;
two transactions of 5 fill the body exactly, and a length of 5 needs both of its
bytes. In `tip_watch`, `MaxDry` 8 is beyond the
sixth loss, at which the doubling reaches 30 s. In `keep_alive` a third connection
lets sends take and return connections around a ping while the pool of two is
full. In `tip_path` three transfers give one of each kind, to one account or
two, a tip plus something unresolved, two tips below the minimum each, and amounts of 2
and 3 around a minimum of 3: three of them may come to 8 or 9, which
wraps to 0 or 1, and two may succeed out of a supply of 7 of which the tip accounts
already hold 2. In `demo` the times are the program's; a blockhash lives 150 blocks, about
60 s. In `scan` four transactions make a second page, a page that ends on the
window's edge, an account that hits its cap, and two transactions of a slot that
both touch both accounts. `SYMMETRY` on callers is used in the
runs of `HttpClient`, which check safety only.

### Fairness

* `QuicClient!LiveSpec` asks for one of two things. `FairNetwork`: `WF` on the
  steps of a call that has begun, on the connect task and on its announcement;
  tokio polls ready tasks, and the network is taken to answer or to fail;
  deadlines are not needed. `FairTimers`: `WF` on a call's own steps and `SF` on
  its `Timeout`; nothing of the network or of connect tasks. `SF`, because the
  wait loop of `sender` leaves and enters awaits; `tokio::time::timeout` polls its
  timer each time the future is pending, so a deadline that has passed is noticed
  at the next await.
* `QuicConnect!FairSpec`: a live server completes its handshake, and the task
  joins what there is to join. Other addresses, DNS and HTTP/3 may hang.
* `KeepAlive!Spec`: time passes, sends end (the client's timeout), a ping
  whose timeout is out fails, and a due tick is served: `SF`, as it needs a
  connection that sends may keep taking.
* `TipWatch!Spec`: an aborted task is cancelled: each round of its loop awaits. A
  receiver that waits in `changed` and has something new, or whose channel has closed,
  is polled; nobody is taken to give up.

### Findings

1. The demo says "not found after 75 s: the blockhash expired without landing ...
   nothing was charged" (`main.rs:324`). It compares the deadline when an answer
   arrives (`main.rs:317`), and the verifier gives an answer 30 s
   (`verify.rs:97`): an RPC that looked after 45 s and answers after 75 s makes it
   say so of a transaction that landed in between. With answers within 5 s the
   sentence holds.
2. The scan prints "transactions: {total}" (`examples/scan.rs:82`), which
   `FINDINGS.md:36` gives as "Nozomi-tipped transactions landed", over "every
   signature on all 17 tip accounts". It sorts by slot and drops an entry only next
   to its equal (`examples/scan.rs:66`): a transaction that touches two tip accounts
   is counted twice when another of its slot was listed between its two entries.
   `OnceUnlessInterleaved` shows that there is no other cause.
3. `QuicClient::stats` documents `roundtrips` as covering "every request that got an
   HTTP/3 response, whatever its status" (`quic.rs:312`, and `tests/quic.rs:233`). A
   response whose body breaks off (`quic.rs:577`), or is still coming at the deadline,
   is a transport error or a timeout and no round trip. `RoundtripsCoverResponses`
   states the doc; `StatsAgree` what holds.
4. `Stats::transport_errors` is documented as "timeouts included" (`client.rs:32`).
   `send_rpc` timing out in the body of a 200 (`client.rs:355`) returns
   `Error::Timeout` and counts nothing: `TimeoutsCounted`.

Seen while modelling, without a run:

* `Stats::accepted` is documented as "Transactions the server answered 200 for"
  (`client.rs:25`), `rejected_by_server` as "refused (4xx/5xx)" (`client.rs:30`).
  `send_rpc` goes by the body: a 200 with a JSON-RPC error is rejected and not
  accepted (`client.rs:356`), an unreadable one neither. `Ledger` allows either.
* `TipWatch::changed` is documented as "Wait for the next frame after the current
  one" (`tipstream.rs:232`). After `latest` or `latest_lamports`, which do not mark
  the frame as seen, it returns that same frame at once. No property is about it.
* `reverted_tip_refunded` is documented as "True when the transaction reverted and
  ... the tip was rolled back with it" (`verify.rs:54`). `tip_intended` sums u64
  without a check (`verify.rs:257`); a reverted transaction whose amounts add up to
  2^64 has a bid of 0 in a release build (a debug build panics), and is not called
  refunded. `BidIsChargedOrRefunded` asks for it only where the sum fits.
* The demo says "nothing was accepted, so nothing to verify" (`main.rs:290`) after
  every error of the send, also after a timeout of which it just said that "the
  server may still have it" (`main.rs:282`).
* The scan anchors its window at the first page of the first account
  (`examples/scan.rs:48`); later accounts contribute what has landed since, so the
  window's upper end differs from account to account. A page with no block times at all ends the paging
  of its account (`unwrap_or(0)`, `examples/scan.rs:52`).
* The sample is said to alternate success and revert (`examples/scan.rs:133`); it
  takes successes first, then reverts (`Scan!Sample`).
* `tip_paid_without_instruction` is documented as true for a tip paid by "CPI this
  scan does not attribute" (`verify.rs:65`); inner instructions are attributed
  (`Landing!Inner`, `verify.rs:270`).
* A result without `meta` is reported as succeeded (`Landing!Failed`,
  `verify.rs:229`), reverted or not.

## 4. Proofs

Every theorem is of the form `Spec => []P`, `Spec => [][A]_vars` or
`Spec => AbstractSpec` for the specification that the runs check, and for every
value of the constants that meets the assumptions. The theorems about `TipInspection`
are about its own `Spec`, whose transactions may also name accounts that are missing or past
the end of the keys; the runs check it along `PathSpec`, which implements it. Each proof module has an
inductive invariant (`IInv`; `InspectionInv`, `LandingInv` and `PathInv` in
`TipProofs`), a lemma for the initial states, a step for each action, and a theorem for each property. That of
`QuicClient` is also checked by `quic_calls`.

### What is assumed

| module | assumption | why |
|---|---|---|
| all | `None` and the like are none of the values they stand beside | `Option` |
| `QuicClient` | `BatchSize`, `MaxFaults` are natural numbers, the first positive | an empty batch is refused |
| `QuicConnect` | the IPv6 and the live addresses are addresses | |
| `HttpClient` | sizes are positive, `MaxTx < Byte * Byte` | 1232 in two bytes |
| `TipWatch` | times are positive, `MinBackoff <= MaxBackoff` | 1 and 30 s |
| `KeepAlive` | the timeout is below the interval, the interval below both idle limits | 60 s against the server's 65 s (`client.rs:474`) and the pool's 90 s (`client.rs:142`) |
| `DemoFlow` | times are positive (that of the blockhash too), `Lifetime + Confirm < PollFor`; percentiles are numbers or absent | the demo polls for 75 s, a blockhash lives about 60 s |
| `Landing` (stated in `TipPath`) | finitely many tip accounts, amounts are natural numbers, `Supply < Width` | 17 accounts; lamports that exist fit 64 bits |
| `TipInspection` | `MinTip <= Supply < Width`, amounts are below `Width` | lamports that exist fit 64 bits |
| `Scan` | sizes are natural numbers, `Window < Genesis` | block times are seconds since 1970 |

One theorem has a condition of its own: `DemoExpiredIsFinal` asks for
`PromptRpc`, `Lifetime + Confirm + RpcTimeout <= PollFor`. The code's 30 s do not
meet it, which is finding 1: `demo_slow` is the counterexample without it.

### QuicClientProofs

None of the properties is inductive alone. `NoLostWakeup` needs that
`connecting` is up exactly while a dial runs (`SlotInv`), as a caller who finds it up
joins a task that must still exist. `ErrorNotOlder` needs the order of
generations: the last failure, when known, is the latest generation, and a
joined attempt is at most that. `FailedNotHeld` and `RetryOnFresh` need that a
connection never comes back: what a call used is at most what is held and less
than what is being dialled, and a call on its second attempt either still
carries the generation to avoid or that generation is no longer held
(`UsedInv`). `SubmitRefined` needs where in its life a call can be with its
request out (`CallInv`). Each of the parts has a lemma with one step per action.

`StatsAgree` compares counters with cardinalities of sets of calls. It needs that only
finitely many calls have begun, also when there are infinitely many to come, and
that a call about to settle has an outcome that is counted (`StatsInv`). A step is
one of four: a call begins, is rejected, settles, or leaves all of this alone; a
settling call moves from no set into the sets of its outcome (`OneMoreCall`). The
round trips are counted with the verdicts; that they are at most the responses needs
that who is told a verdict had one (`CallInv`).

### QuicConnectProofs

During the race an address without a task was not found or its failure is noted, and
only then (`RaceInv`); so when no task is left to join, the errors are those of
every address found. Addresses may be infinitely many.

### HttpClientProofs

`ToldWhatWasTaken` is about the bytes: what the server reads back is what was
framed. `Decoded` shows that the frame after the first m begins where the first m end
and is there unharmed; its induction over the frames goes by the least index that
would fail (`LeastNatural`, `Induction`). The invariant says that the server's
position is always the end of a frame, and what it has forwarded are the
transactions before it (`TakenOk`). `LengthsFit` is why `frame_batch` loses nothing
in `as u16`. `Ledger` goes like `StatsAgree`, with pairs of call and position for the
transactions: an exact count of finer sets is the invariant (`Exact`), and the bounds of
`Ledger` follow from how these lie in each other. `SubmitRefined` maps the calls to the same abstract `SubmitOnce` as those of
the QUIC client.

### TipWatchProofs

`BackoffGrows` says that the sleep is the doubling to the power of the losses, capped.
Powers of two are obtained from the subsets of 1..n (`PowerOfTwo`), as the
operator itself is not known to the provers beyond its first values. The invariant ties the
next backoff to the losses (`BackoffInv`), and the silence of a stream to the
time left until its deadline (`ClockInv`).

### KeepAliveProofs

The connection that a ping used may be closed when it is given back, as the pool can be
full by then; what stays warm is another one. The invariant counts the connections that have
been idle since before the latest ping (`Stale`): they are fewer than the pool
holds, so a full pool always has one that came back later, and that one outlives the
interval. Between two pings some send is in flight or such a fresh connection is idle
(`WarmInv`).

### DemoFlowProofs

The invariant relates the clock to the step the program is at (`TimeInv`: each await
adds at most its timeout), and what
the RPC last saw to what the chain can still do (`ChainInv`).

### TipProofs

An amount is a sum over a finite set of transfers, which the library defines by a
recursive function. The first part of the module shows that the recursion has one
solution and what follows: any element may be taken out first (`SumRemove`),
disjoint sets add up (`SumDisjoint`), and sums by key add up to the whole
(`SumByKey`), which is how the balances of the accounts make up the payment. The
sums of `Landing` come from another instance of the library and are shown to be
the same (`SameSum`).

Then the two sides have an invariant each. `InspectionInv` says that the verdict is
that of the instructions (`Judged`), whose tips on chain lie between the resolved ones
and those plus the unresolved ones (`TipsOnChain`): `CheckedIsTipped`,
`RefusedPaysTooLittle` and `UnresolvedBrackets` follow, for any number of keys and
table entries. `LandingInv` says that the balances are what the execution
made them, out of lamports that exist, and that the report is the one of what landed;
what succeeded therefore has sums that do not wrap (`Paying`).

The path is put together from these. Each of its steps is one of the check or leaves the
check alone (`PathIsInspection`), and it implements `Landing` (`PathIsLanding`), so both
invariants hold along it without being proved again, and with them
`PaidFromBalances`, `BidSettled` and `BidExplained`. `PathInv` adds what joins the two:
the instructions are those of the transfers and the indices those of the keys
(`Joined`). The tips that the check looks for are then the bid that the message
carries (`SameTips`), which gives `CheckAgreesWithReport`. That proof showed that
`CheckForeseesReport` needs to say which of its parts hold only as long as the
amounts do not wrap.

### ScanProofs

`Ordered` gives a finite set with a total order its places; that every
place is taken once is proved by counting (`OrderedIs`). A page, a filtered list and the
sorted list are instances. The paging invariant (`WindowInv`) says that everything of an
account from the cursor on that was there at its first page is collected; a
page that reaches past the window closes the gap below the cursor because later
transactions are in no earlier slots (`InOrder`), an empty page because nothing is
listed there. The window's edge only moves once, from unknown to known, and
before that nothing collected has a block time. `DoublesInterleaved` rests on two facts: neighbours in
the deduplicated list differ (`DedupIs`), and equal entries enclose one slot
(`BySlotIs`).

### Only model-checked

Liveness under fairness, which is out of the prover's reach: `CallsReturn`,
`RecoversAfterOutage`, `DeadAddressHarmless`, `OrphansReturn`, `FirstFrameReaches`,
`KeepsPinging`. The library's induction theorems cannot be applied, as they take an
operator as a parameter; inductions over lists, sets and numbers go by a least
counterexample instead.

## 5. Not modelled

`PROJECT.json` lists every component. Regions, URLs, builders, the examples other
than `scan` and `encode_query_value` are pure tables, validation and text without
state. Of the scan, the statistics per reason and slot and the sums over the
sample are left out. The last check of `frame_batch` cannot fail with the code's
limits, as 16 transactions of 1232 bytes with their lengths are exactly the
19 744 bytes allowed; `http_calls` keeps that relation between its bounds. The
parsing of the two JSON forms of a tip floor, of JSON-RPC and of getTransaction
is modelled by its outcomes. Redaction in `Debug` output is about text only. The hazards
without a property are listed there with the reason.
