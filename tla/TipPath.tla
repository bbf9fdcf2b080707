------------------------------- MODULE TipPath -------------------------------
(***************************************************************************)
(* A tip on its whole way: TipInspection checks the transaction before it  *)
(* is sent, Landing executes it and reads the report of it. The two sides  *)
(* of the crate never meet in the code: what joins them is the transaction *)
(* that the one looks at by account indices and instruction data, and the  *)
(* other by parsed addresses and balances. Each step here is a step of one *)
(* side or, while the transaction is put together, of both.                *)
(*                                                                         *)
(* A refused transaction may be sent all the same                          *)
(* (send_transaction_unchecked).                                           *)
(***************************************************************************)
EXTENDS TipInspection, SequencesExt

CONSTANTS
    NotFound, TipAccount, Other, Balance,    \* as in Landing, like Supply, Width
    Payer

VARIABLES transfers, landed, pre, post, meta, report    \* of Landing

chain == <<transfers, landed, pre, post, meta, report>>

Chain == INSTANCE Landing WITH MaxTransfers <- MaxInstructions

ASSUME ChainAssumption == Chain!AccountAssumption /\ Chain!LamportAssumption

\* The account keys of the transaction, the payer first.
Keys == <<Payer>> \o SetToSeq(TipAccount \cup {Other})

Kind(a) == IF a \in TipAccount THEN "tip" ELSE "other"
Kinds == [i \in DOMAIN Keys |-> Kind(Keys[i])]

\* What the client sees of a transfer: only a top-level instruction tells.
Instruction(t) ==
    IF t.via = "top"
    THEN [kind |-> "transfer", lamports |-> t.lamports,
          to |-> (CHOOSE i \in DOMAIN Keys : Keys[i] = t.to) - 1]
    ELSE [kind |-> "else"]

\* Some of the keys are static, the others in lookup tables; the caller passes
\* as many of those as it likes.
PathInit ==
    /\ Chain!Init
    /\ \E split \in DOMAIN Keys :
          /\ static = SubSeq(Kinds, 1, split)
          /\ table = SubSeq(Kinds, split + 1, Len(Kinds))
    /\ loaded \in {SubSeq(table, 1, n) : n \in 0..Len(table)}
    /\ instructions = <<>>
    /\ verdict = None
    /\ resolved = 0 /\ unresolved = 0

Build(t) == Chain!Add(t) /\ Add(Instruction(t))

PathSend == Send /\ UNCHANGED chain

Executed(result, last, kept) == Chain!Land(result, last, kept) /\ Returned

Verify == Chain!Report /\ Returned

PathNext ==
    \/ \E t \in Chain!Transfer : Build(t)
    \/ PathSend
    \/ \E result \in {"ok", "reverted"}, last \in 0..MaxInstructions, kept \in BOOLEAN :
          Executed(result, last, kept)
    \/ Verify

PathSpec == PathInit /\ [][PathNext]_<<chain, vars>>

-----------------------------------------------------------------------------
(* Properties *)

\* What Landing promises of a report, here of one that follows the check: what it
\* says was paid is what arrived,
PaidIsWhatArrived == Chain!PaidIsWhatArrived

\* a bid is charged or refunded, never both, nor neither unless its sum wrapped,
BidIsChargedOrRefunded == Chain!BidIsChargedOrRefunded

\* and a payment beyond the bid moved without an instruction.
BidExplainsPayment == Chain!BidExplainsPayment

\* What the check said before the send and what the report says after the landing
\* agree, although one reads indices and the other addresses, and one cannot see
\* what lookup tables hold nor what programs do: a transaction that passed the check
\* and succeeded has paid the minimum; the resolved tip is at most the bid in the
\* report, which is within what was unresolved unless programs paid too; and one
\* refused for lack of a tip has none unless a program paid it. Both sum with 64
\* bits: the last three need amounts whose sum these hold, as all that a
\* transaction which succeeds pays in tips does.
CheckForeseesReport ==
    Chain!ReportedWithMeta =>
        /\ verdict = "ok" /\ landed = "ok" => report.tip_paid >= MinTip
        /\ Chain!Amount(Chain!Visited) < Width => resolved <= report.tip_intended
        /\ Chain!Amount(DOMAIN transfers) < Width =>
              /\ Chain!ToTip(meta.inner) = {} =>
                    report.tip_intended <= resolved + unresolved
              /\ /\ verdict \in {"missing", "below"}
                 /\ Chain!ToTip(Chain!Through("inner") \cup Chain!Through("moved")) = {}
                 => report.tip_paid < MinTip
=============================================================================
