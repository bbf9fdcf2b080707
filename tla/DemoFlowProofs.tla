--------------------------- MODULE DemoFlowProofs ---------------------------
(***************************************************************************)
(* The safety of DemoFlow for any amounts and any times. What the demo     *)
(* concludes at its deadline is right whenever the deadline leaves room    *)
(* for one more answer: the run with a slow RPC shows that the condition   *)
(* is needed.                                                              *)
(***************************************************************************)
EXTENDS DemoFlow, TLAPS

\* From the moment it is built with, the tip suffices.
TipInv ==
    /\ pc \notin {"tip", "floor"} => tip >= MinTip
    /\ tx # "dropped"

\* How far the clock is in each step.
TimeInv ==
    /\ wait <= Longest
    /\ pc \in {"tip", "floor"} => clock = 0
    /\ pc = "hash" => clock = wait
    /\ pc = "slot" => clock <= HashTimeout + wait
    /\ pc = "send" => clock <= HashTimeout + RpcTimeout + wait
    /\ pc \in {"ask", "nap"} =>
          /\ PollFor <= deadline
          /\ deadline <= HashTimeout + RpcTimeout + 2 * SendTimeout + PollFor
          /\ deadline <= clock + PollFor
    /\ pc = "ask" => clock <= deadline + Nap + wait
    /\ pc = "nap" => clock <= deadline + wait

\* What the chain did, when, and what the RPC may know of it.
ChainInv ==
    /\ tx \notin {"landed", "reverted"} => settled = 0
    /\ tx \in {"landed", "reverted"} => settled = Confirm \/ clock < Lifetime + settled
    /\ tx = "held" /\ pc \in {"ask", "nap"} =>
          clock < Lifetime \/ clock + PollFor = deadline
    /\ read # None => pc = "ask"
    /\ read = "unknown" /\ tx \in {"landed", "reverted"} =>
          clock < Lifetime + Confirm + wait

IInv == TypeOK /\ TipInv /\ TimeInv /\ ChainInv

\* An RPC answer and what it tells of can both come within the deadline.
PromptRpc == Lifetime + Confirm + RpcTimeout <= PollFor

\* TipFloor::lamports gives a tip that suffices, whatever it is given.
LEMMA LamportsSuffice ==
    ASSUME NEW p \in Percentiles
    PROVE  Lamports(p) \in 0..MaxLamports /\ Lamports(p) >= MinTip
<1>1. MinTip \in Nat /\ MaxLamports \in Nat /\ MinTip <= MaxLamports
  BY TipAssumption
<1>2. p = None \/ p \in Nat
  BY TipAssumption
<1>. QED
  BY <1>1, <1>2 DEF Lamports

\* The demo starts in a state of the invariant, whatever tip floor it is going to see.
LEMMA InitIInv == Init => IInv
BY TipAssumption, TimeAssumption, NoneAssumption
   DEF Init, IInv, TypeOK, TipInv, TimeInv, ChainInv, Longest, Final

-----------------------------------------------------------------------------

\* The step that sizes the tip.
LEMMA TipStep ==
    ASSUME IInv, StreamSilent \/ FloorFails
                 \/ \E p \in Percentiles : StreamFrame(p) \/ FloorAnswers(p)
    PROVE  IInv'
<1>. USE DEF IInv, TypeOK, TipInv, TimeInv, ChainInv, Longest, Goto, world
<1>. USE TipAssumption, TimeAssumption, NoneAssumption
<1>1. CASE StreamSilent
  BY <1>1 DEF StreamSilent
<1>2. CASE FloorFails
  BY <1>2 DEF FloorFails
<1>3. ASSUME NEW p \in Percentiles, StreamFrame(p) \/ FloorAnswers(p)
      PROVE  IInv'
  <2>1. tip' \in 0..MaxLamports /\ tip' >= MinTip
    BY <1>3, LamportsSuffice DEF StreamFrame, FloorAnswers
  <2>. QED
    BY <1>3, <2>1 DEF StreamFrame, FloorAnswers
<1>. QED
  BY <1>1, <1>2, <1>3

\* Blockhash, slot and signature, send and what the server makes of it.
LEMMA SendStep ==
    ASSUME IInv, Blockhash \/ SlotAndSign \/ Accepted \/ Refused \/ SendFails \/ Receive
    PROVE  IInv'
<1>. USE DEF IInv, TypeOK, TipInv, TimeInv, ChainInv, Longest, Goto, Say, Final, world, time
<1>. USE TipAssumption, TimeAssumption, NoneAssumption
<1>1. CASE Blockhash \/ SlotAndSign
  BY <1>1 DEF Blockhash, SlotAndSign
<1>2. CASE Accepted
  BY <1>2 DEF Accepted, Deadline
<1>3. CASE Refused \/ SendFails
  BY <1>3 DEF Refused, SendFails
<1>4. CASE Receive
  BY <1>4 DEF Receive
<1>. QED
  BY <1>1, <1>2, <1>3, <1>4

\* The demo asks, naps and concludes.
LEMMA AskStep ==
    ASSUME IInv, Report \/ NotFound \/ AskFails \/ NapEnds
    PROVE  IInv'
<1>. USE DEF IInv, TypeOK, TipInv, TimeInv, ChainInv, Longest, Goto, Say, Final, world
<1>. USE TipAssumption, TimeAssumption, NoneAssumption
<1>1. CASE Report
  BY <1>1 DEF Report, Conclusion
<1>2. CASE NotFound
  BY <1>2 DEF NotFound, Late
<1>3. CASE AskFails
  BY <1>3 DEF AskFails
<1>4. CASE NapEnds
  BY <1>4 DEF NapEnds
<1>. QED
  BY <1>1, <1>2, <1>3, <1>4

\* The chain and the RPC move, and time passes.
LEMMA WorldStep ==
    ASSUME IInv, \/ RpcReads \/ Pass
                 \/ \E result \in {"landed", "reverted"} : Execute(result)
    PROVE  IInv'
<1>. USE DEF IInv, TypeOK, TipInv, TimeInv, ChainInv, Longest, world, time
<1>. USE TipAssumption, TimeAssumption, NoneAssumption
<1>1. CASE RpcReads
  BY <1>1 DEF RpcReads
<1>2. CASE Pass
  BY <1>2 DEF Pass
<1>3. ASSUME NEW result \in {"landed", "reverted"}, Execute(result)
      PROVE  IInv'
  BY <1>3 DEF Execute
<1>. QED
  BY <1>1, <1>2, <1>3

\* Every step keeps it: the demo's own, the server's, the chain's and the clock's.
LEMMA StepIInv ==
    ASSUME IInv, [Next]_vars
    PROVE  IInv'
<1>1. CASE Ended \/ UNCHANGED vars
  BY <1>1 DEF Ended, vars, IInv, TypeOK, TipInv, TimeInv, ChainInv, Longest
<1>. QED
  BY <1>1, TipStep, SendStep, AskStep, WorldStep DEF Next

\* In every reachable state the demo's step, its clock and what it knows of the
\* transaction fit together (main, line by line).
THEOREM Inductive == Spec => []IInv
BY InitIInv, StepIInv, PTL DEF Spec

-----------------------------------------------------------------------------

\* The demo always sends with a tip that its own check and the server accept,
\* whatever percentiles the stream or REST report, or fail to.
THEOREM DemoTipSuffices == Spec => []TipSuffices
<1>1. IInv => TipSuffices
  BY TipAssumption DEF IInv, TypeOK, TipInv, TipSuffices, RefusesLocally
<1>. QED
  BY <1>1, Inductive, PTL

\* The demo ends within the timeouts of its fetches and two of its send, the polling
\* time, a nap and an answer (latest_blockhash, current_slot and the loop of main).
THEOREM DemoEnds == Spec => []EndsInTime
<1>1. IInv => EndsInTime
  BY TimeAssumption DEF IInv, TypeOK, TimeInv, Longest, EndsInTime, Horizon
<1>. QED
  BY <1>1, Inductive, PTL

\* "Not found after 75 s: the blockhash expired without landing" is final, provided
\* that the last question, asked up to RpcTimeout before, was asked late enough.
THEOREM DemoExpiredIsFinal ==
    ASSUME PromptRpc
    PROVE  Spec => []ExpiredIsFinal
<1>1. Init => ExpiredIsFinal
  BY NoneAssumption DEF Init, ExpiredIsFinal, Final
<1>2. ASSUME IInv, ExpiredIsFinal, [Next]_vars
      PROVE  ExpiredIsFinal'
  <2>. USE DEF ExpiredIsFinal
  <2>1. CASE NotFound /\ Late
    <3>1. clock >= PollFor /\ wait <= RpcTimeout /\ clock \in Nat /\ wait \in Nat
      BY <1>2, <2>1, TimeAssumption DEF NotFound, Late, IInv, TypeOK, TimeInv, Longest
    <3>2. clock >= Lifetime + Confirm + wait
      BY <3>1, TimeAssumption, PromptRpc DEF PromptRpc
    <3>3. tx \notin {"landed", "reverted"}
      BY <1>2, <2>1, <3>1, <3>2, TimeAssumption DEF NotFound, IInv, ChainInv
    <3>4. tx # "held"
      BY <1>2, <2>1, <3>1, <3>2, TimeAssumption
         DEF NotFound, Late, IInv, TypeOK, TimeInv, ChainInv
    <3>. QED
      BY <2>1, <3>3, <3>4 DEF NotFound, world
  <2>2. CASE said' = said
    BY <1>2, <2>2, TimeAssumption, NoneAssumption
       DEF Next, StreamFrame, FloorAnswers, StreamSilent, FloorFails, Blockhash,
           SlotAndSign, Accepted, Refused, SendFails, Report, NotFound, AskFails, NapEnds, Receive, RpcReads,
           Pass, Execute, Ended, vars, world, time, IInv, TypeOK, Final
  <2>3. CASE said' # said /\ ~(NotFound /\ Late)
    <3>1. said' # "expired"
      BY <1>2, <2>3, NoneAssumption
         DEF Next, StreamFrame, FloorAnswers, StreamSilent, FloorFails, Blockhash,
             SlotAndSign, Accepted, Refused, SendFails, Report, NotFound, AskFails, NapEnds, Receive, RpcReads,
             Pass, Execute, Ended, vars, Say, Conclusion
    <3>. QED
      BY <3>1
  <2>. QED
    BY <2>1, <2>2, <2>3
<1>. QED
  BY <1>1, <1>2, Inductive, PTL DEF Spec
=============================================================================
