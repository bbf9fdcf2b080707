-------------------------- MODULE QuicConnectProofs --------------------------
(***************************************************************************)
(* The safety of QuicConnect for any set of addresses, finite or not, any  *)
(* split of it into families and into live and dead addresses, and any     *)
(* number of connect tasks.                                                *)
(***************************************************************************)
EXTENDS QuicConnect, TLAPS

\* While the race lasts an address without a task was not found, or its failure
\* is noted, and only then; nothing is being aborted yet.
RaceInv ==
    phase = "race" =>
        /\ errors \subseteq found
        /\ \A a \in Addr : task[a] = "none" <=> a \in errors \/ a \notin found
        /\ In("aborting") = {}

IInv == TypeOK /\ RaceInv

\* Before the first connect task there is no handshake and no error.
LEMMA InitIInv == Init => IInv
BY ConnectsAssumption DEF Init, IInv, TypeOK, RaceInv, In

\* A connect that returns drops its JoinSet: nothing is left to join.
LEMMA ReturnIInv ==
    ASSUME IInv, NEW result \in {"ok", "err"}, Return(result)
    PROVE  IInv'
BY DEF IInv, Return, TypeOK, RaceInv, In

\* Every step keeps the relation between tasks, errors and the winner.
LEMMA StepIInv ==
    ASSUME IInv, [Next]_vars
    PROVE  IInv'
<1>. USE NoneAssumption, ConnectsAssumption
<1>. USE DEF IInv, TypeOK, RaceInv, In
<1>1. CASE Start
  BY <1>1 DEF Start
<1>2. CASE ResolveFails
  BY <1>2, ReturnIInv DEF ResolveFails
<1>3. ASSUME NEW addrs \in SUBSET Addr, NEW bindable \in SUBSET {"v4", "v6"},
             Resolve(addrs, bindable)
      PROVE  IInv'
  BY <1>3 DEF Resolve, BoundAfter, Family
<1>4. ASSUME NEW a \in Addr, HandshakeOk(a)
      PROVE  IInv'
  BY <1>4 DEF HandshakeOk, Set
<1>5. ASSUME NEW a \in Addr, HandshakeErr(a)
      PROVE  IInv'
  BY <1>5 DEF HandshakeErr, Set
<1>6. ASSUME NEW a \in Addr, Aborted(a)
      PROVE  IInv'
  BY <1>6 DEF Aborted, Set
<1>7. ASSUME NEW a \in Addr, JoinOk(a)
      PROVE  IInv'
  BY <1>7 DEF JoinOk, MayWin
<1>8. ASSUME NEW a \in Addr, JoinErr(a)
      PROVE  IInv'
  BY <1>8 DEF JoinErr, Set
<1>9. CASE NoAddress
  BY <1>9, ReturnIInv DEF NoAddress
<1>10. ASSUME NEW result \in {"ok", "err"}, H3Ends(result)
       PROVE  IInv'
  BY <1>10, ReturnIInv DEF H3Ends
<1>11. CASE Finished \/ UNCHANGED vars
  BY <1>11 DEF Finished, vars
<1>. QED
  BY <1>1, <1>2, <1>3, <1>4, <1>5, <1>6, <1>7, <1>8, <1>9, <1>10, <1>11
     DEF Next, Join

\* The invariant holds in every reachable state, for any addresses and families
\* (connect and endpoint_for, task after task).
THEOREM Inductive == Spec => []IInv
BY InitIInv, StepIInv, PTL DEF Spec

-----------------------------------------------------------------------------

\* The tasks, the errors and the winner of connect() have their types, and no
\* handshake outlives the connect task whose JoinSet it is in.
THEOREM TypeCorrect == Spec => []TypeOK
<1>1. IInv => TypeOK
  BY DEF IInv
<1>. QED
  BY <1>1, Inductive, PTL

\* connect() says that no address accepted the handshake only after each address
\* that lookup_host returned failed or had no socket.
THEOREM NoAddressIsExhaustive == Spec => ErrorIsExhaustive
<1>1. IInv /\ NoAddress => errors = found
  BY DEF IInv, TypeOK, RaceInv, NoAddress, Exhausted
<1>2. IInv /\ [Next]_vars => [NoAddress => errors = found]_vars
  BY <1>1
<1>. QED
  BY <1>2, Inductive, PTL DEF Spec, ErrorIsExhaustive
=============================================================================
