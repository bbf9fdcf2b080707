-------------------------------- MODULE Scan --------------------------------
(***************************************************************************)
(* The landing scan (src/examples/scan.rs), which counts what landed on    *)
(* the tip accounts within a window of block time: it pages through the    *)
(* signatures of one account after the other (`signatures_for` of          *)
(* src/src/verify.rs), merges them, and picks a sample.                    *)
(*                                                                         *)
(* External: the chain, which grows while the scan runs, and the RPC,      *)
(* which lists what touched an account, newest first, may fail, and may    *)
(* not know the block time of a slot. A signature is the position of its   *)
(* transaction on the chain. Which transactions failed is decided when the *)
(* scan first asks.                                                        *)
(***************************************************************************)
EXTENDS Integers, FiniteSets, SequencesExt

CONSTANTS
    None,
    Accounts,      \* how many tip accounts, scanned in order
    PageSize,      \* 1000 in the code
    Cap,           \* 20 000: signatures of one account
    Window,        \* seconds of block time
    SampleSize,
    Genesis,       \* block time of slot 0: far from the epoch
    MaxSlot, MaxTransactions

ASSUME ScanAssumption ==
    /\ {Accounts, PageSize, Cap} \subseteq Nat \ {0}
    /\ {Window, SampleSize, Genesis, MaxSlot, MaxTransactions} \subseteq Nat
    /\ Window < Genesis
ASSUME NoneAssumption == None \notin Nat

VARIABLES
    chain,        \* oldest first: the slot and the accounts touched
    untimed,      \* a slot whose block time the RPC does not know, or None
    failed,       \* the transactions that reverted
    pc,           \* "page", "sort", "sample" or "done"
    acct, before, got,
    newest_time,
    all,          \* signatures, as collected, then sorted and deduplicated
    sample,
    first,        \* per account: the chain's length at its first page (history)
    stop          \* per account: why its paging stopped (history)

world == <<chain, untimed, failed>>
cursor == <<acct, before, got>>
history == <<first, stop>>
vars == <<world, pc, cursor, newest_time, all, sample, history>>

Account == 1..Accounts

Init ==
    /\ chain = <<>>
    /\ untimed \in 0..MaxSlot \cup {None}
    /\ failed = {}
    /\ pc = "page"
    /\ acct = 1 /\ before = None /\ got = 0
    /\ newest_time = None
    /\ all = <<>> /\ sample = <<>>
    /\ first = [a \in Account |-> 0]
    /\ stop = [a \in Account |-> "none"]

\* A transaction lands, in the latest slot or a later one.
Land(slot, touched) ==
    /\ pc = "page"
    /\ Len(chain) < MaxTransactions
    /\ chain # <<>> => slot >= Last(chain).slot
    /\ chain' = Append(chain, [slot |-> slot, touches |-> touched])
    /\ UNCHANGED <<untimed, failed, pc, cursor, newest_time, all, sample, history>>

-----------------------------------------------------------------------------
(* Paging *)

Time(s) == IF chain[s].slot = untimed THEN None ELSE Genesis + chain[s].slot
Times(sigs) == {Time(s) : s \in ToSet(sigs)} \ {None}

\* unwrap_or(0)
OrZero(t) == IF t = None THEN 0 ELSE t

\* The elements of a finite set in the order of a relation: each one has as many
\* before it as it has in the set.
Ordered(S, relation) ==
    [n \in 1..Cardinality(S) |->
        CHOOSE x \in S : Cardinality({y \in S : <<y, x>> \in relation}) = n - 1]

\* The entries of a sequence at some positions, in their order.
Only(sigs, kept) ==
    LET at == Ordered(kept, {p \in kept \X kept : p[1] < p[2]})
    IN [n \in DOMAIN at |-> sigs[at[n]]]

First(sigs, n) == SubSeq(sigs, 1, IF n < Len(sigs) THEN n ELSE Len(sigs))

\* getSignaturesForAddress: what touched the account before the cursor, newest
\* first.
Listed == {s \in DOMAIN chain :
              acct \in chain[s].touches /\ (before = None \/ s < before)}

Page == First(Ordered(Listed, {p \in Listed \X Listed : p[1] > p[2]}), PageSize)

\* newest_time after this page, and what follows from it.
Newest ==
    IF newest_time # None THEN newest_time
    ELSE IF Times(Page) = {} THEN None ELSE Max(Times(Page))

Cutoff(newest) == OrZero(newest) - Window

Oldest == IF Times(Page) = {} THEN 0 ELSE Min(Times(Page))

\* Mutant of PastWindow: stops when the page reaches the window's edge.
PastWindowEdge == Oldest <= Cutoff(Newest)

\* The page reaches past the window; the account has had its share.
PastWindow == Oldest < Cutoff(Newest)
Capped == got + Len(Page) >= Cap

\* The page's part of the window is collected.
Recent == {i \in DOMAIN Page : OrZero(Time(Page[i])) >= Cutoff(Newest)}

Collect ==
    /\ newest_time' = Newest
    /\ all' = all \o Only(Page, Recent)
    /\ first' = IF got = 0 THEN [first EXCEPT ![acct] = Len(chain)] ELSE first

\* The paging of an account is over.
NextAccount(why) ==
    /\ stop' = [stop EXCEPT ![acct] = why]
    /\ IF acct < Accounts
       THEN acct' = acct + 1 /\ before' = None /\ got' = 0 /\ UNCHANGED pc
       ELSE pc' = "sort" /\ UNCHANGED cursor

PageFails ==
    /\ pc = "page"
    /\ NextAccount("error")
    /\ UNCHANGED <<world, newest_time, all, sample, first>>

PageEmpty ==
    /\ pc = "page"
    /\ Page = <<>>
    /\ NextAccount("exhausted")
    /\ first' = IF got = 0 THEN [first EXCEPT ![acct] = Len(chain)] ELSE first
    /\ UNCHANGED <<world, newest_time, all, sample>>

PageLast ==
    /\ pc = "page"
    /\ Page # <<>>
    /\ PastWindow \/ Capped
    /\ Collect
    /\ NextAccount(IF ~PastWindow THEN "capped"
                   ELSE IF Times(Page) = {} THEN "untimed" ELSE "past")
    /\ UNCHANGED <<world, sample>>

PageOn ==
    /\ pc = "page"
    /\ Page # <<>>
    /\ ~PastWindow /\ ~Capped
    /\ Collect
    /\ got' = got + Len(Page)
    /\ before' = Last(Page)
    /\ UNCHANGED <<world, pc, acct, sample, stop>>

-----------------------------------------------------------------------------
(* Counting and sampling *)

\* Mutant of BySlot: as collected.
BySlotUnsorted == all

\* sort_by_key(Reverse(slot)) is stable.
Sooner(i, j) == \/ chain[all[i]].slot > chain[all[j]].slot
                \/ chain[all[i]].slot = chain[all[j]].slot /\ i < j

BySlot ==
    LET D == DOMAIN all
        order == Ordered(D, {p \in D \X D : Sooner(p[1], p[2])})
    IN [i \in D |-> all[order[i]]]

\* dedup_by drops an entry equal to the one before it.
Dedup(sigs) ==
    Only(sigs, {i \in DOMAIN sigs : i = 1 \/ sigs[i] # sigs[i - 1]})

Sort ==
    /\ pc = "sort"
    /\ all' = Dedup(BySlot)
    /\ failed' \in SUBSET ToSet(all)
    /\ pc' = "sample"
    /\ UNCHANGED <<chain, untimed, cursor, newest_time, sample, history>>

Succeeded(sigs) == Only(sigs, {i \in DOMAIN sigs : sigs[i] \notin failed})
Reverted(sigs) == Only(sigs, {i \in DOMAIN sigs : sigs[i] \in failed})

\* Mutant of Share: successes may fill the sample.
ShareWhole == SampleSize

\* What successes may take of the sample; reverts fill it.
Share == SampleSize \div 2

Sample ==
    /\ pc = "sample"
    /\ LET succ == First(Succeeded(all), Share)
       IN sample' = succ \o First(Reverted(all), SampleSize - Len(succ))
    /\ pc' = "done"
    /\ UNCHANGED <<world, cursor, newest_time, all, history>>

Finished == pc = "done" /\ UNCHANGED vars

Next ==
    \/ \E slot \in 0..MaxSlot, touched \in SUBSET Account \ {{}} :
          Land(slot, touched)
    \/ PageFails \/ PageEmpty \/ PageLast \/ PageOn
    \/ Sort \/ Sample
    \/ Finished

Spec == Init /\ [][Next]_vars

-----------------------------------------------------------------------------
(* Properties *)

Counted == pc \in {"sample", "done"}

\* "The landed/reverted split is over a real window" (src/examples/scan.rs:8):
\* on every account whose paging came to its end, past the window or past the
\* account's first transaction, everything of the window that was there when its
\* paging began is counted, although the chain grew between two pages; and
\* nothing older is.
CountsTheWindow ==
    Counted =>
        /\ \A a \in Account : stop[a] \in {"exhausted", "past"} =>
              \A s \in 1..first[a] :
                  /\ a \in chain[s].touches
                  /\ Time(s) # None /\ Time(s) >= Cutoff(newest_time)
                  => s \in ToSet(all)
        /\ \A s \in ToSet(all) : Time(s) # None => Time(s) >= Cutoff(newest_time)

\* A transaction that touches several tip accounts is counted once, unless
\* another transaction of its slot stands between its entries.
OnceUnlessInterleaved ==
    Counted =>
        \A i, j \in DOMAIN all :
            i < j /\ all[i] = all[j] =>
                \E k \in i + 1..j - 1 :
                    all[k] # all[i] /\ chain[all[k]].slot = chain[all[i]].slot

\* "so both are represented" (src/examples/scan.rs:133): whichever kind is rare,
\* a sample of at least two has both if both were counted, and is no larger than
\* asked for.
SampleOfBoth ==
    pc = "done" =>
        /\ Len(sample) <= SampleSize
        /\ SampleSize >= 2 =>
              /\ Succeeded(all) # <<>> => Succeeded(sample) # <<>>
              /\ Reverted(all) # <<>> => Reverted(sample) # <<>>

\* What the scan prints as `transactions` (src/examples/scan.rs:82), and what
\* src/FINDINGS.md:36 gives as transactions landed, counts each of them once.
CountedOnce == Counted => Cardinality(ToSet(all)) = Len(all)
=============================================================================
