------------------------------- MODULE Landing -------------------------------
(***************************************************************************)
(* The verifier of src/src/verify.rs: what `report` says of a transaction  *)
(* at each point of its life. The transaction and its execution are the    *)
(* chain's (external): transfers to tip accounts and others, as top-level  *)
(* instructions, as inner instructions of a program, or as lamports that a *)
(* program moves without one. If it fails, every transfer is rolled back.  *)
(* Nothing leaves a tip account in the transaction, and what arrives there *)
(* exists; a transaction that fails may carry any amounts.                 *)
(* An RPC may have no metadata of it, or metadata without inner            *)
(* instructions; those of a failed transaction end where it failed.        *)
(***************************************************************************)
EXTENDS Naturals, Sequences, FiniteSets, FiniteSetsExt

CONSTANTS
    None, NotFound,
    TipAccount,     \* the tip accounts among the account keys
    Other,          \* the other account of the transaction
    Lamports,       \* what a transfer may carry
    Balance,        \* what a tip account may hold before
    Supply,         \* the lamports there are
    Width,          \* the report's sums are modulo this (2^64 in the code)
    MaxTransfers

\* What is assumed of them where this module is used.
AccountAssumption ==
    /\ IsFiniteSet(TipAccount)
    /\ Other \notin TipAccount /\ None \notin TipAccount
LamportAssumption ==
    /\ Lamports \subseteq Nat /\ Balance \subseteq Nat
    /\ {Supply, Width} \subseteq Nat /\ Supply < Width

VARIABLES
    transfers,    \* the transaction, in execution order
    landed,       \* "no", "ok" or "reverted"
    pre, post,    \* the balances of the tip accounts around it
    meta,         \* what the RPC has of it: the error, the inner instructions
                  \* (positions in `transfers`); None without metadata
    report        \* the latest LandingReport or NotFound, None before

vars == <<transfers, landed, pre, post, meta, report>>

Via == {"top", "inner", "moved"}
Transfer == [via : Via, to : TipAccount \cup {Other}, lamports : Lamports]

\* The transfers to tip accounts among some positions, and their sum.
ToTip(S) == {k \in S : transfers[k].to \in TipAccount}
Amount(S) ==
    SumFunctionOnSet([k \in DOMAIN transfers |-> transfers[k].lamports], S)
Through(v) == {k \in DOMAIN transfers : transfers[k].via = v}

Init ==
    /\ transfers = <<>>
    /\ landed = "no"
    /\ pre \in [TipAccount -> Balance]
    /\ post = pre
    /\ meta = None
    /\ report = None

\* The transaction is put together.
Add(t) ==
    /\ landed = "no" /\ report = None
    /\ Len(transfers) < MaxTransfers
    /\ transfers' = Append(transfers, t)
    /\ UNCHANGED <<landed, pre, post, meta, report>>

Received(a) ==
    Amount({k \in DOMAIN transfers : transfers[k].to = a})

\* What the tip accounts would hold after all of it.
Holdings ==
    SumFunctionOnSet(pre, TipAccount) + Amount(ToTip(DOMAIN transfers))

\* It is executed: all of it, or nothing. `last` is the last transfer that ran
\* before it failed; the RPC keeps the metadata, or it does not.
Land(result, last, kept) ==
    /\ landed = "no"
    /\ result = "ok" => Holdings <= Supply
    /\ landed' = result
    /\ post' = IF result = "ok" THEN [a \in TipAccount |-> pre[a] + Received(a)]
               ELSE pre
    /\ meta' \in IF kept
         THEN {[err |-> result = "reverted", inner |-> i] :
                 i \in {{}, {k \in Through("inner") : result = "ok" \/ k <= last}}}
         ELSE {None}
    /\ UNCHANGED <<transfers, pre, report>>

-----------------------------------------------------------------------------
(* parse_report *)

\* Mutants of Inner, Failed and Delta.
InnerUnvisited == {}
FailedIfCharged == meta # None /\ meta.err /\ pre # post
DeltaFromZero(a) == IF meta = None THEN 0 ELSE post[a]

\* The inner instructions of the metadata, and its error.
Inner == IF meta = None THEN {} ELSE meta.inner
Failed == meta # None /\ meta.err

\* `visit`: the transfers to tip accounts among the instructions of the message,
\* then among the inner ones; the first names the account.
Visited == ToTip(Through("top") \cup Inner)

FirstTarget ==
    LET first == IF ToTip(Through("top")) # {} THEN ToTip(Through("top")) ELSE Visited
    IN transfers[Min(first)].to

\* post.saturating_sub(pre) of a tip account, 0 without metadata.
Delta(a) ==
    IF meta = None \/ post[a] <= pre[a] THEN 0 ELSE post[a] - pre[a]

Gained == {a \in TipAccount : Delta(a) > 0}

\* Both sums are of u64, and wrap in a release build (a debug build panics).
ParseReport ==
    [succeeded |-> ~Failed,
     tip_account |-> IF Visited # {} THEN FirstTarget
                     ELSE IF Gained # {} THEN CHOOSE a \in Gained : TRUE
                     ELSE None,
     tip_intended |-> Amount(Visited) % Width,
     tip_paid |-> SumFunctionOnSet([a \in TipAccount |-> Delta(a)], TipAccount) % Width]

\* `report`: a transaction the RPC does not have is NotFound.
Report ==
    /\ report' = IF landed = "no" THEN NotFound ELSE ParseReport
    /\ UNCHANGED <<transfers, landed, pre, post, meta>>

Next ==
    \/ \E t \in Transfer : Add(t)
    \/ \E result \in {"ok", "reverted"}, last \in 0..MaxTransfers, kept \in BOOLEAN :
          Land(result, last, kept)
    \/ Report

Spec == Init /\ [][Next]_vars

-----------------------------------------------------------------------------
(* LandingReport's questions *)

Known == report \notin {None, NotFound}
ReportedWithMeta == Known /\ meta # None

tip_charged == report.tip_paid > 0

reverted_tip_refunded ==
    ~report.succeeded /\ report.tip_intended > 0 /\ report.tip_paid = 0

-----------------------------------------------------------------------------
(* Properties *)

\* What the report says was paid is what arrived, in all of the tip accounts and
\* by whatever way, and nothing when the transaction reverted, although both are
\* told apart by balances alone.
PaidIsWhatArrived ==
    ReportedWithMeta =>
        report.tip_paid = IF landed = "ok" THEN Amount(ToTip(DOMAIN transfers)) ELSE 0

\* A tip that an instruction of the message carried ends in exactly one of two
\* ways, charged or refunded, as the transaction succeeded or reverted. A reverted
\* one may carry more than 64 bits hold: then a refund may go unsaid, but nothing is
\* called charged, nor a charge refunded.
BidIsChargedOrRefunded ==
    ReportedWithMeta /\ Amount(ToTip(Through("top"))) > 0 =>
        /\ tip_charged <=> landed = "ok"
        /\ reverted_tip_refunded => landed = "reverted"
        /\ landed = "reverted" /\ Amount(Visited) < Width => reverted_tip_refunded

\* More than the bid is paid only where lamports moved without an instruction that
\* the RPC shows: with inner instructions on record, bid and payment agree.
BidExplainsPayment ==
    ReportedWithMeta /\ landed = "ok" /\ meta.inner = Through("inner") =>
        report.tip_intended + Amount(ToTip(Through("moved"))) = report.tip_paid
=============================================================================
