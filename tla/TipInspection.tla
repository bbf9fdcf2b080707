---------------------------- MODULE TipInspection ----------------------------
(***************************************************************************)
(* The local tip check of src/src/tip.rs, on the way of a transaction that *)
(* is built instruction by instruction and handed to                       *)
(* send_transaction_with_loaded (src/src/client.rs): inspect_with_loaded   *)
(* finds the transfers to tip accounts, `check` decides.                   *)
(*                                                                         *)
(* An account is "tip" or "other": which one of the 17 does not matter.    *)
(* `table` is external: the addresses that the transaction's lookup tables *)
(* hold on chain, writable ones first, which the runtime numbers after the *)
(* static keys. The caller passes all of them, some, or none.              *)
(***************************************************************************)
EXTENDS Naturals, Sequences, FiniteSets, FiniteSetsExt

CONSTANTS
    None,
    MinTip,         \* MIN_TIP_LAMPORTS
    Width,          \* the sums are modulo this (2^64 in the code)
    Supply,         \* the lamports there are: more cannot be transferred
    Lamports,       \* the amounts that transfers may carry
    MaxInstructions

ASSUME AmountAssumption ==
    /\ MinTip \in Nat \ {0}
    /\ Supply \in Nat /\ MinTip <= Supply /\ Supply < Width
    /\ Width \in Nat
    /\ Lamports \subseteq 0..Width - 1

VARIABLES
    static,        \* static account keys: the payer, one more account
    table,
    loaded,        \* what the caller passes
    instructions,
    verdict,       \* of `check`: "ok" (it is sent), "unresolved", "missing" or
                   \* "below"; None before
    resolved,      \* the sums that the verdict reports
    unresolved

vars == <<static, table, loaded, instructions, verdict, resolved, unresolved>>

Account == {"tip", "other"}

ASSUME NoneAssumption ==
    None \notin Nat \cup Account \cup {"ok", "unresolved", "missing", "below"}

\* An instruction is a system transfer, with the index of its destination (None
\* when it names less than two accounts), or anything else.
Transfer == [kind : {"transfer"}, to : Nat \cup {None}, lamports : Lamports]

Init ==
    /\ static \in {<<"other", a>> : a \in Account}
    /\ table \in UNION {[1..n -> Account] : n \in 0..2}
    /\ loaded \in {SubSeq(table, 1, n) : n \in 0..Len(table)}
    /\ instructions = <<>>
    /\ verdict = None
    /\ resolved = 0
    /\ unresolved = 0

\* The caller adds an instruction; an index may be past everything there is.
Add(ix) ==
    /\ verdict = None
    /\ Len(instructions) < MaxInstructions
    /\ instructions' = Append(instructions, ix)
    /\ UNCHANGED <<static, table, loaded, verdict, resolved, unresolved>>

-----------------------------------------------------------------------------
(* inspect_with_loaded *)

\* Mutant of Resolve: loaded addresses numbered from zero.
ResolveFromZero(i) ==
    IF i < Len(static) THEN static[i + 1]
    ELSE IF i < Len(loaded) THEN loaded[i + 1]
    ELSE None

\* keys.get(i), or else loaded.get(i - keys.len())
Resolve(i) ==
    IF i < Len(static) THEN static[i + 1]
    ELSE IF i - Len(static) < Len(loaded) THEN loaded[i - Len(static) + 1]
    ELSE None

UsesLookups == table # <<>>

\* Transfers that name a destination.
Directed ==
    {k \in DOMAIN instructions :
        instructions[k].kind = "transfer" /\ instructions[k].to # None}

Tips == {k \in Directed : Resolve(instructions[k].to) = "tip"}

\* Mutant of Unresolved: nothing is left open once addresses were passed.
UnresolvedUnlessLoaded ==
    {k \in Directed : loaded = <<>> /\ UsesLookups /\ Resolve(instructions[k].to) = None}

Unresolved ==
    {k \in Directed : UsesLookups /\ Resolve(instructions[k].to) = None}

\* The exact sum of some instructions, and the one u64 addition computes in a
\* release build (a debug build panics where it would wrap).
Amount(S) ==
    SumFunctionOnSet([k \in DOMAIN instructions |-> instructions[k].lamports], S)

WrappedSum(S) == Amount(S) % Width

-----------------------------------------------------------------------------
(* TipInspection::check and send_transaction_with_loaded *)

\* Mutant of Verdict: what is unresolved is taken for a tip.
VerdictTrusting ==
    IF WrappedSum(Tips) + WrappedSum(Unresolved) >= MinTip THEN "ok"
    ELSE IF Unresolved # {} THEN "unresolved"
    ELSE IF Tips = {} THEN "missing" ELSE "below"

Verdict ==
    IF WrappedSum(Tips) >= MinTip THEN "ok"
    ELSE IF Unresolved # {} THEN "unresolved"
    ELSE IF Tips = {} THEN "missing" ELSE "below"

CheckTip ==
    /\ verdict = None
    /\ verdict' = Verdict
    /\ resolved' = WrappedSum(Tips)
    /\ unresolved' = WrappedSum(Unresolved)

Send ==
    /\ CheckTip
    /\ UNCHANGED <<static, table, loaded, instructions>>

\* The call has returned.
Returned == verdict # None /\ UNCHANGED vars

Indices == 0..Len(static) + Len(table)

Next ==
    \/ \E to \in Indices \cup {None}, n \in Lamports :
          Add([kind |-> "transfer", to |-> to, lamports |-> n])
    \/ Add([kind |-> "else"])
    \/ Send
    \/ Returned

Spec == Init /\ [][Next]_vars

-----------------------------------------------------------------------------
(* Properties: the check against what the runtime would execute *)

\* The runtime's numbering of accounts, and the tips it would transfer.
OnChain == static \o table

ChainTips ==
    {k \in Directed : /\ instructions[k].to < Len(OnChain)
                      /\ OnChain[instructions[k].to + 1] = "tip"}

\* A transaction that passes the check pays the minimum if it executes, whatever
\* tables it uses, whichever of their addresses the caller knew, and even when
\* the 64-bit sum wraps.
SentIsTipped == verdict = "ok" => Amount(ChainTips) >= MinTip

\* "No tip" and "tip below the minimum" are said only of transactions that would
\* indeed pay too little: nothing the client could not see is called missing.
RefusedIsShort ==
    verdict \in {"missing", "below"} /\ Amount(ChainTips) <= Supply =>
        Amount(ChainTips) < MinTip

\* TipUnresolved encloses the truth between its two amounts, and a caller that
\* passes all the loaded addresses never gets it for indices that exist.
UnresolvedEncloses ==
    verdict = "unresolved" /\ Amount(Directed) < Width =>
        /\ resolved <= Amount(ChainTips)
        /\ Amount(ChainTips) <= resolved + unresolved
        /\ loaded = table =>
              \E k \in Directed : instructions[k].to >= Len(OnChain)
=============================================================================
