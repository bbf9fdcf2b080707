-------------------------- MODULE QuicClientProofs --------------------------
(***************************************************************************)
(* The safety of QuicClient for any number of calls, any batch size and    *)
(* any number of disturbances. IInv is inductive; each of its parts is     *)
(* shown to be preserved by every step in a lemma of its own.              *)
(***************************************************************************)
EXTENDS QuicClient, FiniteSetTheorems, TLAPS

\* Counting a result keeps the counters natural numbers.
LEMMA CountedType ==
    ASSUME stats \in Stats, NEW o
    PROVE  Counted(o) \in Stats
<1>. DEFINE sent == stats.accepted + BatchSize
            refused == stats.rejected_by_server + 1
            trips == stats.roundtrips + 1
<1>1. sent \in Nat /\ refused \in Nat /\ trips \in Nat
  BY BatchAssumption DEF Stats
<1>. HIDE DEF sent, refused, trips
<1>2. [stats EXCEPT !.accepted = sent, !.roundtrips = trips] \in Stats
  BY <1>1 DEF Stats
<1>3. [stats EXCEPT !.rejected_by_server = refused, !.roundtrips = trips] \in Stats
  BY <1>1 DEF Stats
<1>4. [stats EXCEPT !.transport_errors = @ + 1] \in Stats
  BY DEF Stats
<1>5. Counted(o) =
         CASE o = "accepted" ->
                [stats EXCEPT !.accepted = sent, !.roundtrips = trips]
           [] o = "refused" ->
                [stats EXCEPT !.rejected_by_server = refused, !.roundtrips = trips]
           [] OTHER -> [stats EXCEPT !.transport_errors = @ + 1]
  BY DEF Counted, Stats, sent, refused, trips
<1>. QED
  BY <1>2, <1>3, <1>4, <1>5

\* Every step keeps the types; SlotInv bounds the generation a waiter joins.
LEMMA TypeStep ==
    ASSUME TypeOK, SlotInv, [Next]_vars
    PROVE  TypeOK'
<1>. USE NoneAssumption, BatchAssumption, FaultAssumption
<1>. USE DEF TypeOK, Option, Generation, Stats, PC, slotVars, netVars, callVars, Goto
<1>1. ASSUME NEW c \in Call, NEW k \in {"send", "warmup"}, Begin(c, k)
      PROVE  TypeOK'
  BY <1>1 DEF Begin
<1>2. ASSUME NEW c \in Call, RejectLocally(c)
      PROVE  TypeOK'
  BY <1>2 DEF RejectLocally
<1>3. ASSUME NEW c \in Call, Subscribe(c)
      PROVE  TypeOK'
  BY <1>3 DEF Subscribe
<1>4. ASSUME NEW c \in Call, LookLive(c)
      PROVE  TypeOK'
  BY <1>4 DEF LookLive, Acquire, LeaveSender
<1>5. ASSUME NEW c \in Call, LookConnect(c)
      PROVE  TypeOK'
  BY <1>5 DEF LookConnect, StartConnect
<1>6. ASSUME NEW c \in Call, LookWait(c)
      PROVE  TypeOK'
  <2>1. PICK g \in dialing : next_generation = g + 1
    BY <1>6 DEF LookWait, SlotInv, SingleFlight
  <2>2. next_generation - 1 = g /\ g \in Nat
    BY <2>1
  <2>. QED
    BY <1>6, <2>2 DEF LookWait
<1>7. ASSUME NEW c \in Call, Wake(c)
      PROVE  TypeOK'
  BY <1>7 DEF Wake
<1>8. ASSUME NEW c \in Call, RecheckLive(c)
      PROVE  TypeOK'
  BY <1>8 DEF RecheckLive, Acquire, LeaveSender
<1>9. ASSUME NEW c \in Call, RecheckFail(c)
      PROVE  TypeOK'
  BY <1>9 DEF RecheckFail, Finish, LeaveSender
<1>10. ASSUME NEW c \in Call, RecheckAgain(c)
      PROVE  TypeOK'
  BY <1>10 DEF RecheckAgain
<1>11. ASSUME NEW c \in Call, OpenOk(c)
      PROVE  TypeOK'
  BY <1>11 DEF OpenOk
<1>12. ASSUME NEW c \in Call, OpenFails(c)
      PROVE  TypeOK'
  BY <1>12 DEF OpenFails, NotSent, Reconnect, MayBreak, Fault, Finish, LeaveSender
<1>13. ASSUME NEW c \in Call, NEW s \in {"ok", "refused"}, Reply(c, s)
      PROVE  TypeOK'
  BY <1>13 DEF Reply
<1>14. ASSUME NEW c \in Call, Drain(c)
      PROVE  TypeOK'
  BY <1>14 DEF Drain, Finish, LeaveSender
<1>15. ASSUME NEW c \in Call, StreamFails(c)
      PROVE  TypeOK'
  BY <1>15 DEF StreamFails, MayBreak, Fault, Finish, LeaveSender
<1>16. ASSUME NEW c \in Call, Settle(c)
      PROVE  TypeOK'
  <2>1. conn' \in Option(Generation)
    BY <1>16 DEF Settle, Suspect, Evict, Counted
  <2>2. stats' \in Stats
    <3>1. stats' = Counted(outcome[c])
      BY <1>16 DEF Settle
    <3>. QED
      BY <3>1, CountedType
  <2>. QED
    BY <1>16, <2>1, <2>2 DEF Settle
<1>17. ASSUME NEW c \in Call, Timeout(c)
      PROVE  TypeOK'
  BY <1>17 DEF Timeout, Awaits, Finish, LeaveSender
<1>18. ASSUME NEW c \in Call, Abandon(c)
      PROVE  TypeOK'
  BY <1>18 DEF Abandon, Awaits, LeaveSender
<1>19. ASSUME NEW g \in dialing, ConnectOk(g)
      PROVE  TypeOK'
  BY <1>19 DEF ConnectOk
<1>20. ASSUME NEW g \in dialing, ConnectErr(g)
      PROVE  TypeOK'
  <2>1. g \in Nat
    OBVIOUS
  <2>2. faults' \in 0..MaxFaults
    BY <1>20 DEF ConnectErr, Fault
  <2>. QED
    BY <1>20, <2>1, <2>2 DEF ConnectErr
<1>21. ASSUME NEW g \in announcing, Announce(g)
      PROVE  TypeOK'
  BY <1>21 DEF Announce, Bump
<1>22. ASSUME CloseConn
      PROVE  TypeOK'
  BY <1>22 DEF CloseConn, IsConnected, Fault
<1>23. ASSUME Disconnect
      PROVE  TypeOK'
  BY <1>23 DEF Disconnect, Fault
<1>24. ASSUME Quiescent \/ UNCHANGED vars
      PROVE  TypeOK'
  <2>1. UNCHANGED vars
    BY <1>24 DEF Quiescent
  <2>. QED
    BY <2>1 DEF vars
<1>. QED
  BY <1>1, <1>2, <1>3, <1>4, <1>5, <1>6, <1>7, <1>8, <1>9, <1>10, <1>11, <1>12,
     <1>13, <1>14, <1>15, <1>16, <1>17, <1>18, <1>19, <1>20, <1>21, <1>22, <1>23, <1>24
     DEF Next, CallStep, ConnectTask, AnnounceTask

\* Every step keeps the order of the generations in the slot.
LEMMA SlotStep ==
    ASSUME TypeOK, SlotInv, [Next]_vars
    PROVE  SlotInv'
<1>. USE NoneAssumption
<1>. USE DEF TypeOK, Option, Generation, SlotInv, SingleFlight, slotVars, netVars, callVars, Goto
<1>1. ASSUME NEW c \in Call, NEW k \in {"send", "warmup"}, Begin(c, k)
      PROVE  SlotInv'
  BY <1>1 DEF Begin
<1>2. ASSUME NEW c \in Call, RejectLocally(c)
      PROVE  SlotInv'
  BY <1>2 DEF RejectLocally
<1>3. ASSUME NEW c \in Call, Subscribe(c)
      PROVE  SlotInv'
  BY <1>3 DEF Subscribe
<1>4. ASSUME NEW c \in Call, LookLive(c)
      PROVE  SlotInv'
  BY <1>4 DEF LookLive, Acquire, LeaveSender
<1>5. ASSUME NEW c \in Call, LookConnect(c)
      PROVE  SlotInv'
  BY <1>5 DEF LookConnect, StartConnect
<1>6. ASSUME NEW c \in Call, LookWait(c)
      PROVE  SlotInv'
  BY <1>6 DEF LookWait
<1>7. ASSUME NEW c \in Call, Wake(c)
      PROVE  SlotInv'
  BY <1>7 DEF Wake
<1>8. ASSUME NEW c \in Call, RecheckLive(c)
      PROVE  SlotInv'
  BY <1>8 DEF RecheckLive, Acquire, LeaveSender
<1>9. ASSUME NEW c \in Call, RecheckFail(c)
      PROVE  SlotInv'
  BY <1>9 DEF RecheckFail, Finish, LeaveSender
<1>10. ASSUME NEW c \in Call, RecheckAgain(c)
      PROVE  SlotInv'
  BY <1>10 DEF RecheckAgain
<1>11. ASSUME NEW c \in Call, OpenOk(c)
      PROVE  SlotInv'
  BY <1>11 DEF OpenOk
<1>12. ASSUME NEW c \in Call, OpenFails(c)
      PROVE  SlotInv'
  BY <1>12 DEF OpenFails, NotSent, Reconnect, MayBreak, Fault, Finish, LeaveSender
<1>13. ASSUME NEW c \in Call, NEW s \in {"ok", "refused"}, Reply(c, s)
      PROVE  SlotInv'
  BY <1>13 DEF Reply
<1>14. ASSUME NEW c \in Call, Drain(c)
      PROVE  SlotInv'
  BY <1>14 DEF Drain, Finish, LeaveSender
<1>15. ASSUME NEW c \in Call, StreamFails(c)
      PROVE  SlotInv'
  BY <1>15 DEF StreamFails, MayBreak, Fault, Finish, LeaveSender
<1>16. ASSUME NEW c \in Call, Settle(c)
      PROVE  SlotInv'
  BY <1>16 DEF Settle, Suspect, Evict, Counted
<1>17. ASSUME NEW c \in Call, Timeout(c)
      PROVE  SlotInv'
  BY <1>17 DEF Timeout, Awaits, Finish, LeaveSender
<1>18. ASSUME NEW c \in Call, Abandon(c)
      PROVE  SlotInv'
  BY <1>18 DEF Abandon, Awaits, LeaveSender
<1>19. ASSUME NEW g \in dialing, ConnectOk(g)
      PROVE  SlotInv'
  <2>1. dialing = {g} /\ g \in Nat
    BY <1>19 DEF ConnectOk
  <2>2. dialing' = {}
    BY <1>19, <2>1 DEF ConnectOk
  <2>. QED
    BY <1>19, <2>1, <2>2 DEF ConnectOk
<1>20. ASSUME NEW g \in dialing, ConnectErr(g)
      PROVE  SlotInv'
  BY <1>20 DEF ConnectErr, Fault
<1>21. ASSUME NEW g \in announcing, Announce(g)
      PROVE  SlotInv'
  BY <1>21 DEF Announce, Bump
<1>22. ASSUME CloseConn
      PROVE  SlotInv'
  BY <1>22 DEF CloseConn, IsConnected, Fault
<1>23. ASSUME Disconnect
      PROVE  SlotInv'
  BY <1>23 DEF Disconnect, Fault
<1>24. ASSUME Quiescent \/ UNCHANGED vars
      PROVE  SlotInv'
  <2>1. UNCHANGED vars
    BY <1>24 DEF Quiescent
  <2>. QED
    BY <2>1 DEF vars
<1>. QED
  BY <1>1, <1>2, <1>3, <1>4, <1>5, <1>6, <1>7, <1>8, <1>9, <1>10, <1>11, <1>12,
     <1>13, <1>14, <1>15, <1>16, <1>17, <1>18, <1>19, <1>20, <1>21, <1>22, <1>23, <1>24
     DEF Next, CallStep, ConnectTask, AnnounceTask

\* Every step keeps what a waiting caller relies on to be woken.
LEMMA WaitStep ==
    ASSUME TypeOK, SlotInv, WaitInv, [Next]_vars
    PROVE  WaitInv'
<1>. USE NoneAssumption
<1>. USE DEF TypeOK, Option, Generation, PC, SlotInv, SingleFlight, WaitInv, NoLostWakeup, slotVars, netVars, callVars, Goto
<1>1. ASSUME NEW c \in Call, NEW k \in {"send", "warmup"}, Begin(c, k)
      PROVE  WaitInv'
  BY <1>1 DEF Begin
<1>2. ASSUME NEW c \in Call, RejectLocally(c)
      PROVE  WaitInv'
  BY <1>2 DEF RejectLocally
<1>3. ASSUME NEW c \in Call, Subscribe(c)
      PROVE  WaitInv'
  BY <1>3 DEF Subscribe
<1>4. ASSUME NEW c \in Call, LookLive(c)
      PROVE  WaitInv'
  BY <1>4 DEF LookLive, Acquire, LeaveSender
<1>5. ASSUME NEW c \in Call, LookConnect(c)
      PROVE  WaitInv'
  BY <1>5 DEF LookConnect, StartConnect
<1>6. ASSUME NEW c \in Call, LookWait(c)
      PROVE  WaitInv'
  <2>1. PICK g \in dialing : next_generation = g + 1
    BY <1>6 DEF LookWait
  <2>2. next_generation - 1 = g /\ g \in Nat
    BY <2>1
  <2>. QED
    BY <1>6, <2>2 DEF LookWait
<1>7. ASSUME NEW c \in Call, Wake(c)
      PROVE  WaitInv'
  BY <1>7 DEF Wake
<1>8. ASSUME NEW c \in Call, RecheckLive(c)
      PROVE  WaitInv'
  BY <1>8 DEF RecheckLive, Acquire, LeaveSender
<1>9. ASSUME NEW c \in Call, RecheckFail(c)
      PROVE  WaitInv'
  BY <1>9 DEF RecheckFail, Finish, LeaveSender
<1>10. ASSUME NEW c \in Call, RecheckAgain(c)
      PROVE  WaitInv'
  BY <1>10 DEF RecheckAgain
<1>11. ASSUME NEW c \in Call, OpenOk(c)
      PROVE  WaitInv'
  BY <1>11 DEF OpenOk
<1>12. ASSUME NEW c \in Call, OpenFails(c)
      PROVE  WaitInv'
  BY <1>12 DEF OpenFails, NotSent, Reconnect, MayBreak, Fault, Finish, LeaveSender
<1>13. ASSUME NEW c \in Call, NEW s \in {"ok", "refused"}, Reply(c, s)
      PROVE  WaitInv'
  BY <1>13 DEF Reply
<1>14. ASSUME NEW c \in Call, Drain(c)
      PROVE  WaitInv'
  BY <1>14 DEF Drain, Finish, LeaveSender
<1>15. ASSUME NEW c \in Call, StreamFails(c)
      PROVE  WaitInv'
  BY <1>15 DEF StreamFails, MayBreak, Fault, Finish, LeaveSender
<1>16. ASSUME NEW c \in Call, Settle(c)
      PROVE  WaitInv'
  BY <1>16 DEF Settle, Suspect, Evict, Counted
<1>17. ASSUME NEW c \in Call, Timeout(c)
      PROVE  WaitInv'
  BY <1>17 DEF Timeout, Awaits, Finish, LeaveSender
<1>18. ASSUME NEW c \in Call, Abandon(c)
      PROVE  WaitInv'
  BY <1>18 DEF Abandon, Awaits, LeaveSender
<1>19. ASSUME NEW g \in dialing, ConnectOk(g)
      PROVE  WaitInv'
  BY <1>19 DEF ConnectOk
<1>20. ASSUME NEW g \in dialing, ConnectErr(g)
      PROVE  WaitInv'
  BY <1>20 DEF ConnectErr, Fault
<1>21. ASSUME NEW g \in announcing, Announce(g)
      PROVE  WaitInv'
  BY <1>21 DEF Announce, Bump
<1>22. ASSUME CloseConn
      PROVE  WaitInv'
  BY <1>22 DEF CloseConn, IsConnected, Fault
<1>23. ASSUME Disconnect
      PROVE  WaitInv'
  BY <1>23 DEF Disconnect, Fault
<1>24. ASSUME Quiescent \/ UNCHANGED vars
      PROVE  WaitInv'
  <2>1. UNCHANGED vars
    BY <1>24 DEF Quiescent
  <2>. QED
    BY <2>1 DEF vars
<1>. QED
  BY <1>1, <1>2, <1>3, <1>4, <1>5, <1>6, <1>7, <1>8, <1>9, <1>10, <1>11, <1>12,
     <1>13, <1>14, <1>15, <1>16, <1>17, <1>18, <1>19, <1>20, <1>21, <1>22, <1>23, <1>24
     DEF Next, CallStep, ConnectTask, AnnounceTask

\* Every step keeps the locals of each call in line with where it is.
LEMMA CallStepInv ==
    ASSUME TypeOK, CallInv, [Next]_vars
    PROVE  CallInv'
<1>. USE NoneAssumption
<1>. USE DEF TypeOK, Option, Generation, PC, CallInv, slotVars, netVars, callVars, Goto
<1>1. ASSUME NEW c \in Call, NEW k \in {"send", "warmup"}, Begin(c, k)
      PROVE  CallInv'
  BY <1>1 DEF Begin
<1>2. ASSUME NEW c \in Call, RejectLocally(c)
      PROVE  CallInv'
  BY <1>2 DEF RejectLocally
<1>3. ASSUME NEW c \in Call, Subscribe(c)
      PROVE  CallInv'
  BY <1>3 DEF Subscribe
<1>4. ASSUME NEW c \in Call, LookLive(c)
      PROVE  CallInv'
  BY <1>4 DEF LookLive, Acquire, LeaveSender, Usable, IsConnected
<1>5. ASSUME NEW c \in Call, LookConnect(c)
      PROVE  CallInv'
  BY <1>5 DEF LookConnect, StartConnect
<1>6. ASSUME NEW c \in Call, LookWait(c)
      PROVE  CallInv'
  BY <1>6 DEF LookWait
<1>7. ASSUME NEW c \in Call, Wake(c)
      PROVE  CallInv'
  BY <1>7 DEF Wake
<1>8. ASSUME NEW c \in Call, RecheckLive(c)
      PROVE  CallInv'
  BY <1>8 DEF RecheckLive, Acquire, LeaveSender
<1>9. ASSUME NEW c \in Call, RecheckFail(c)
      PROVE  CallInv'
  BY <1>9 DEF RecheckFail, Finish, LeaveSender
<1>10. ASSUME NEW c \in Call, RecheckAgain(c)
      PROVE  CallInv'
  BY <1>10 DEF RecheckAgain
<1>11. ASSUME NEW c \in Call, OpenOk(c)
      PROVE  CallInv'
  BY <1>11 DEF OpenOk
<1>12. ASSUME NEW c \in Call, OpenFails(c)
      PROVE  CallInv'
  BY <1>12 DEF OpenFails, NotSent, Reconnect, MayBreak, Fault, Finish, LeaveSender
<1>13. ASSUME NEW c \in Call, NEW s \in {"ok", "refused"}, Reply(c, s)
      PROVE  CallInv'
  BY <1>13 DEF Reply
<1>14. ASSUME NEW c \in Call, Drain(c)
      PROVE  CallInv'
  BY <1>14 DEF Drain, Finish, LeaveSender
<1>15. ASSUME NEW c \in Call, StreamFails(c)
      PROVE  CallInv'
  BY <1>15 DEF StreamFails, MayBreak, Fault, Finish, LeaveSender
<1>16. ASSUME NEW c \in Call, Settle(c)
      PROVE  CallInv'
  BY <1>16 DEF Settle, Suspect, Evict, Counted
<1>17. ASSUME NEW c \in Call, Timeout(c)
      PROVE  CallInv'
  BY <1>17 DEF Timeout, Awaits, Finish, LeaveSender
<1>18. ASSUME NEW c \in Call, Abandon(c)
      PROVE  CallInv'
  BY <1>18 DEF Abandon, Awaits, LeaveSender
<1>19. ASSUME NEW g \in dialing, ConnectOk(g)
      PROVE  CallInv'
  BY <1>19 DEF ConnectOk
<1>20. ASSUME NEW g \in dialing, ConnectErr(g)
      PROVE  CallInv'
  BY <1>20 DEF ConnectErr, Fault
<1>21. ASSUME NEW g \in announcing, Announce(g)
      PROVE  CallInv'
  BY <1>21 DEF Announce, Bump
<1>22. ASSUME CloseConn
      PROVE  CallInv'
  BY <1>22 DEF CloseConn, IsConnected, Fault
<1>23. ASSUME Disconnect
      PROVE  CallInv'
  BY <1>23 DEF Disconnect, Fault
<1>24. ASSUME Quiescent \/ UNCHANGED vars
      PROVE  CallInv'
  <2>1. UNCHANGED vars
    BY <1>24 DEF Quiescent
  <2>. QED
    BY <2>1 DEF vars
<1>. HIDE DEF TypeOK, CallInv
<1>. QED
  BY <1>1, <1>2, <1>3, <1>4, <1>5, <1>6, <1>7, <1>8, <1>9, <1>10, <1>11, <1>12,
     <1>13, <1>14, <1>15, <1>16, <1>17, <1>18, <1>19, <1>20, <1>21, <1>22, <1>23, <1>24
     DEF Next, CallStep, ConnectTask, AnnounceTask

\* Every step keeps a call's last connection behind the slot.
LEMMA UsedStep ==
    ASSUME TypeOK, SlotInv, CallInv, UsedInv, [Next]_vars
    PROVE  UsedInv'
<1>. USE NoneAssumption
<1>. USE DEF TypeOK, Option, Generation, PC, SlotInv, SingleFlight, CallInv, UsedInv, slotVars, netVars, callVars, Goto
<1>1. ASSUME NEW c \in Call, NEW k \in {"send", "warmup"}, Begin(c, k)
      PROVE  UsedInv'
  BY <1>1 DEF Begin
<1>2. ASSUME NEW c \in Call, RejectLocally(c)
      PROVE  UsedInv'
  BY <1>2 DEF RejectLocally
<1>3. ASSUME NEW c \in Call, Subscribe(c)
      PROVE  UsedInv'
  BY <1>3 DEF Subscribe
<1>4. ASSUME NEW c \in Call, LookLive(c)
      PROVE  UsedInv'
  BY <1>4 DEF LookLive, Acquire, LeaveSender
<1>5. ASSUME NEW c \in Call, LookConnect(c)
      PROVE  UsedInv'
  BY <1>5 DEF LookConnect, StartConnect
<1>6. ASSUME NEW c \in Call, LookWait(c)
      PROVE  UsedInv'
  BY <1>6 DEF LookWait
<1>7. ASSUME NEW c \in Call, Wake(c)
      PROVE  UsedInv'
  BY <1>7 DEF Wake
<1>8. ASSUME NEW c \in Call, RecheckLive(c)
      PROVE  UsedInv'
  BY <1>8 DEF RecheckLive, Acquire, LeaveSender
<1>9. ASSUME NEW c \in Call, RecheckFail(c)
      PROVE  UsedInv'
  BY <1>9 DEF RecheckFail, Finish, LeaveSender
<1>10. ASSUME NEW c \in Call, RecheckAgain(c)
      PROVE  UsedInv'
  BY <1>10 DEF RecheckAgain
<1>11. ASSUME NEW c \in Call, OpenOk(c)
      PROVE  UsedInv'
  BY <1>11 DEF OpenOk
<1>12. ASSUME NEW c \in Call, OpenFails(c)
      PROVE  UsedInv'
  BY <1>12 DEF OpenFails, NotSent, Reconnect, MayBreak, Fault, Finish, LeaveSender
<1>13. ASSUME NEW c \in Call, NEW s \in {"ok", "refused"}, Reply(c, s)
      PROVE  UsedInv'
  BY <1>13 DEF Reply
<1>14. ASSUME NEW c \in Call, Drain(c)
      PROVE  UsedInv'
  BY <1>14 DEF Drain, Finish, LeaveSender
<1>15. ASSUME NEW c \in Call, StreamFails(c)
      PROVE  UsedInv'
  BY <1>15 DEF StreamFails, MayBreak, Fault, Finish, LeaveSender
<1>16. ASSUME NEW c \in Call, Settle(c)
      PROVE  UsedInv'
  BY <1>16 DEF Settle, Suspect, Evict, Counted
<1>17. ASSUME NEW c \in Call, Timeout(c)
      PROVE  UsedInv'
  BY <1>17 DEF Timeout, Awaits, Finish, LeaveSender
<1>18. ASSUME NEW c \in Call, Abandon(c)
      PROVE  UsedInv'
  BY <1>18 DEF Abandon, Awaits, LeaveSender
<1>19. ASSUME NEW g \in dialing, ConnectOk(g)
      PROVE  UsedInv'
  BY <1>19 DEF ConnectOk
<1>20. ASSUME NEW g \in dialing, ConnectErr(g)
      PROVE  UsedInv'
  BY <1>20 DEF ConnectErr, Fault
<1>21. ASSUME NEW g \in announcing, Announce(g)
      PROVE  UsedInv'
  BY <1>21 DEF Announce, Bump
<1>22. ASSUME CloseConn
      PROVE  UsedInv'
  BY <1>22 DEF CloseConn, IsConnected, Fault
<1>23. ASSUME Disconnect
      PROVE  UsedInv'
  BY <1>23 DEF Disconnect, Fault
<1>24. ASSUME Quiescent \/ UNCHANGED vars
      PROVE  UsedInv'
  <2>1. UNCHANGED vars
    BY <1>24 DEF Quiescent
  <2>. QED
    BY <2>1 DEF vars
<1>. QED
  BY <1>1, <1>2, <1>3, <1>4, <1>5, <1>6, <1>7, <1>8, <1>9, <1>10, <1>11, <1>12,
     <1>13, <1>14, <1>15, <1>16, <1>17, <1>18, <1>19, <1>20, <1>21, <1>22, <1>23, <1>24
     DEF Next, CallStep, ConnectTask, AnnounceTask

\* A new client satisfies the invariant.
LEMMA InitHolds == Init => IInv
<1>. SUFFICES ASSUME Init PROVE IInv
  OBVIOUS
<1>. USE NoneAssumption, FaultAssumption DEF Init
<1>1. TypeOK
  <2>1. stats \in Stats
    BY DEF Stats
  <2>2. conn \in Option(Generation) /\ last_error \in Option(Generation)
    BY DEF Option
  <2>3. /\ seen \in [Call -> Option(Nat)]
        /\ stale \in [Call -> Option(Generation)]
        /\ used \in [Call -> Option(Generation)]
        /\ joined \in [Call -> Option(Generation)]
    BY DEF Option
  <2>4. /\ kind \in [Call -> {"send", "warmup"}]
        /\ pc \in [Call -> PC]
        /\ attempt \in [Call -> {1, 2}]
        /\ status \in [Call -> {"none", "ok", "refused"}]
        /\ posted \in [Call -> Nat]
    BY DEF PC
  <2>5. outcome \in [Call -> {"pending", "accepted", "refused", "quic",
                             "timeout", "warm", "abandoned"}]
    OBVIOUS
  <2>6. /\ connecting \in BOOLEAN
        /\ next_generation \in Generation /\ epoch \in Nat
        /\ dialing \subseteq Generation /\ announcing \subseteq Generation
        /\ closed \subseteq Generation
    BY DEF Generation
  <2>7. faults \in 0..MaxFaults
    OBVIOUS
  <2>. QED
    BY <2>1, <2>2, <2>3, <2>4, <2>5, <2>6, <2>7 DEF TypeOK
<1>2. SlotInv
  BY DEF SlotInv, SingleFlight
<1>3. WaitInv
  BY DEF WaitInv, NoLostWakeup
<1>4. CallInv /\ UsedInv
  BY DEF CallInv, UsedInv
<1>. QED
  BY <1>1, <1>2, <1>3, <1>4 DEF IInv

\* The parts together: the invariant is inductive.
LEMMA StepHolds == IInv /\ [Next]_vars => IInv'
  BY TypeStep, SlotStep, WaitStep, CallStepInv, UsedStep DEF IInv

\* The inductive invariant holds in every reachable state.
THEOREM Invariance == Spec => []IInv
<1>. QED
  BY InitHolds, StepHolds, PTL DEF Spec

-----------------------------------------------------------------------------
(* What follows from the invariant in every state *)

\* Every variable keeps its type (struct State, the locals of sender and
\* send_framed), in particular no call makes a third attempt.
THEOREM TypeCorrectness == Spec => []TypeOK
<1>1. IInv => TypeOK
  BY DEF IInv
<1>. QED
  BY <1>1, Invariance, PTL

\* `connecting` single-flights the connect task (sender).
THEOREM OneDial == Spec => []SingleFlight
<1>1. IInv => SingleFlight
  BY DEF IInv, SlotInv
<1>. QED
  BY <1>1, Invariance, PTL

\* Subscribing before the look under the mutex loses no wake-up, although the
\* connect task bumps the epoch after it has released the mutex (sender).
THEOREM WakeupsKept == Spec => []NoLostWakeup
<1>1. IInv => NoLostWakeup
  BY DEF IInv, WaitInv
<1>. QED
  BY <1>1, Invariance, PTL

\* A woken caller is never handed the error of an attempt older than its own
\* (`last_error` in sender).
THEOREM FreshErrors == Spec => []ErrorNotOlder
<1>1. ASSUME IInv, NEW c \in Call, pc[c] = "recheck", ErrorKnown
      PROVE  last_error >= joined[c]
  <2>1. /\ joined[c] \in Nat /\ joined[c] < next_generation
        /\ last_error \in Nat /\ next_generation = last_error + 1
    BY <1>1, NoneAssumption
    DEF IInv, TypeOK, Option, Generation, WaitInv, SlotInv, ErrorKnown
  <2>. QED
    BY <2>1
<1>2. IInv => ErrorNotOlder
  BY <1>1 DEF ErrorNotOlder
<1>. QED
  BY <1>2, Invariance, PTL

\* Once a send has returned a transport failure, its connection is not held
\* (send_framed, evict).
THEOREM FailedConnGone == Spec => []FailedNotHeld
<1>1. IInv => FailedNotHeld
  BY DEF IInv, UsedInv, FailedNotHeld
<1>. QED
  BY <1>1, Invariance, PTL

-----------------------------------------------------------------------------
(* The counters: sets of calls, one call further at a time *)

BegunCalls == {c \in Call : pc[c] # "idle"}

Counters(sent, accepted, failed, refused, answered, rejected) ==
    /\ stats.submitted = BatchSize * Cardinality(sent)
    /\ stats.accepted = BatchSize * Cardinality(accepted)
    /\ stats.transport_errors = Cardinality(failed)
    /\ stats.rejected_by_server = Cardinality(refused)
    /\ stats.roundtrips = Cardinality(answered)
    /\ stats.rejected_locally = Cardinality(rejected)

\* The result that send_framed counts is one of the four kinds it counts, and
\* only finitely many calls have begun, so that one more can be counted.
StatsInv ==
    /\ Counters(Sends, Ended({"accepted"}),
                Ended({"quic", "timeout"}), Ended({"refused"}),
                Ended({"accepted", "refused"}), Rejected)
    /\ IsFiniteSet(BegunCalls)
    /\ \A c \in Call : pc[c] = "settle" =>
          outcome[c] \in {"accepted", "refused", "quic", "timeout"}

\* The sets that are counted are finite, and one more call counts one more.
LEMMA OneMoreCall ==
    ASSUME IsFiniteSet(BegunCalls), NEW S \in SUBSET BegunCalls
    PROVE  /\ IsFiniteSet(S) /\ Cardinality(S) \in Nat
           /\ \A c : c \notin S => Cardinality(S \cup {c}) = Cardinality(S) + 1
BY FS_Subset, FS_CardinalityType, FS_AddElement

\* StatsAgree speaks about these sets: a call that ended with a verdict has seen
\* the status of its response, so the round trips lie between the two bounds.
LEMMA StatsMeaning ==
    ASSUME CallInv, StatsInv
    PROVE  StatsAgree
<1>. DEFINE Answered == Ended({"accepted", "refused"})
<1>1. Answered \subseteq Responded /\ Responded \subseteq BegunCalls
  BY DEF CallInv, Ended, Responded, Sends, BegunCalls
<1>2. IsFiniteSet(Responded) /\ Cardinality(Responded) \in Nat
  BY <1>1, FS_Subset, FS_CardinalityType DEF StatsInv
<1>3. Cardinality(Answered) \in Nat /\ Cardinality(Answered) <= Cardinality(Responded)
  BY <1>1, <1>2, FS_Subset, FS_CardinalityType
<1>. QED
  BY <1>2, <1>3 DEF StatsInv, Counters, StatsAgree

\* The other calls do not move.
Rest(c) == \A d \in Call \ {c} :
               kind'[d] = kind[d] /\ pc'[d] = pc[d] /\ outcome'[d] = outcome[d]

\* A call that is on its way, stays on it or comes to the counters moves no
\* counter and no set; nor does a warmup that returns or a send that is dropped.
LEMMA StatsSame ==
    ASSUME StatsInv, CallInv, NEW c \in Call, Rest(c), stats' = stats,
           pc[c] \notin {"idle", "settle", "done"}, kind'[c] = kind[c],
           pc'[c] # "idle", outcome'[c] # "rejected",
           pc'[c] = "done" => kind[c] # "send" \/ outcome'[c] = "abandoned",
           pc'[c] = "settle" =>
              outcome'[c] \in {"accepted", "refused", "quic", "timeout"}
    PROVE  StatsInv'
<1>1. outcome[c] = "pending"
  BY DEF CallInv
<1>2. Rejected' = Rejected
  BY <1>1 DEF Rest, Rejected
<1>3. Sends' = Sends
  BY <1>2 DEF Rest, Sends
<1>4. BegunCalls' = BegunCalls
  BY DEF Rest, BegunCalls
<1>5. /\ Ended({"accepted"})' = Ended({"accepted"})
      /\ Ended({"refused"})' = Ended({"refused"})
      /\ Ended({"quic", "timeout"})' = Ended({"quic", "timeout"})
      /\ Ended({"accepted", "refused"})' = Ended({"accepted", "refused"})
  BY <1>3 DEF Rest, Ended, Sends
<1>. QED
  BY <1>2, <1>3, <1>4, <1>5 DEF StatsInv, Counters, Rest

\* The batch of a send that begins is submitted.
LEMMA StatsBegin ==
    ASSUME TypeOK, CallInv, StatsInv, NEW c \in Call, NEW k \in {"send", "warmup"},
           Begin(c, k)
    PROVE  StatsInv'
<1>. USE DEF TypeOK
<1>1. /\ pc[c] = "idle" /\ outcome[c] = "pending"
      /\ pc'[c] = "subscribe" /\ kind'[c] = k /\ outcome'[c] = "pending"
  BY DEF Begin, Goto, CallInv
<1>2. Rest(c)
  BY DEF Begin, Goto, Rest
<1>3. Rejected' = Rejected
  BY <1>1, <1>2 DEF Rest, Rejected
<1>4. BegunCalls' = BegunCalls \cup {c} /\ c \notin BegunCalls
  BY <1>1, <1>2 DEF Rest, BegunCalls
<1>5. Sends' = IF k = "send" THEN Sends \cup {c} ELSE Sends
  BY <1>1, <1>2, <1>3 DEF Rest, Sends, Rejected
<1>6. /\ Ended({"accepted"})' = Ended({"accepted"})
      /\ Ended({"refused"})' = Ended({"refused"})
      /\ Ended({"quic", "timeout"})' = Ended({"quic", "timeout"})
      /\ Ended({"accepted", "refused"})' = Ended({"accepted", "refused"})
  BY <1>1, <1>2, <1>5 DEF Rest, Ended, Sends
<1>7. IsFiniteSet(BegunCalls')
  BY <1>4, FS_AddElement DEF StatsInv
<1>8. \A d \in Call : pc'[d] = "settle" =>
         outcome'[d] \in {"accepted", "refused", "quic", "timeout"}
  BY <1>1, <1>2 DEF Rest, StatsInv
<1>9. Counters(Sends, Ended({"accepted"}),
               Ended({"quic", "timeout"}), Ended({"refused"}),
               Ended({"accepted", "refused"}), Rejected)'
  <2>1. CASE k # "send"
    <3>1. stats' = stats
      BY <2>1 DEF Begin
    <3>. QED
      BY <1>3, <1>5, <1>6, <2>1, <3>1 DEF StatsInv, Counters
  <2>2. CASE k = "send"
    <3>1. stats' = [stats EXCEPT !.submitted = @ + BatchSize]
      BY <2>2 DEF Begin
    <3>2. Sends \in SUBSET BegunCalls /\ c \notin Sends
      BY <1>1 DEF Sends, BegunCalls
    <3>3. /\ Cardinality(Sends) \in Nat
          /\ Cardinality(Sends \cup {c}) = Cardinality(Sends) + 1
      BY <3>2, OneMoreCall DEF StatsInv
    <3>4. BatchSize * (Cardinality(Sends) + 1)
             = BatchSize * Cardinality(Sends) + BatchSize
      BY <3>3, BatchAssumption
    <3>5. stats'.submitted = stats.submitted + BatchSize
      BY <3>1 DEF Stats
    <3>6. stats'.submitted = BatchSize * Cardinality(Sends \cup {c})
      BY <3>3, <3>4, <3>5 DEF StatsInv, Counters
    <3>7. /\ stats'.accepted = stats.accepted
          /\ stats'.transport_errors = stats.transport_errors
          /\ stats'.rejected_by_server = stats.rejected_by_server
          /\ stats'.roundtrips = stats.roundtrips
          /\ stats'.rejected_locally = stats.rejected_locally
      BY <3>1 DEF Stats
    <3>. QED
      BY <1>3, <1>5, <1>6, <2>2, <3>6, <3>7 DEF StatsInv, Counters
  <2>. QED
    BY <2>1, <2>2
<1>. QED
  BY <1>7, <1>8, <1>9 DEF StatsInv

\* A call that is refused locally is counted as that, and as nothing else.
LEMMA StatsReject ==
    ASSUME TypeOK, CallInv, StatsInv, NEW c \in Call, RejectLocally(c)
    PROVE  StatsInv'
<1>. USE DEF TypeOK
<1>1. /\ pc[c] = "idle" /\ outcome[c] = "pending"
      /\ pc'[c] = "done" /\ outcome'[c] = "rejected"
      /\ stats' = [stats EXCEPT !.rejected_locally = @ + 1]
  BY DEF RejectLocally, Goto, CallInv
<1>2. Rest(c)
  BY DEF RejectLocally, Goto, Rest
<1>3. Rejected' = Rejected \cup {c} /\ c \notin Rejected
  BY <1>1, <1>2 DEF Rest, Rejected
<1>4. BegunCalls' = BegunCalls \cup {c}
  BY <1>1, <1>2 DEF Rest, BegunCalls
<1>5. Sends' = Sends
  BY <1>1, <1>2, <1>3 DEF Rest, Sends, Rejected
<1>6. /\ Ended({"accepted"})' = Ended({"accepted"})
      /\ Ended({"refused"})' = Ended({"refused"})
      /\ Ended({"quic", "timeout"})' = Ended({"quic", "timeout"})
      /\ Ended({"accepted", "refused"})' = Ended({"accepted", "refused"})
  BY <1>1, <1>2, <1>5 DEF Rest, Ended, Sends
<1>7. IsFiniteSet(BegunCalls')
  BY <1>4, FS_AddElement DEF StatsInv
<1>8. \A d \in Call : pc'[d] = "settle" =>
         outcome'[d] \in {"accepted", "refused", "quic", "timeout"}
  BY <1>1, <1>2 DEF Rest, StatsInv
<1>9. Rejected \in SUBSET BegunCalls
  BY DEF Rejected, BegunCalls, CallInv
<1>10. Cardinality(Rejected') = Cardinality(Rejected) + 1
  BY <1>3, <1>9, OneMoreCall DEF StatsInv
<1>11. /\ stats'.submitted = stats.submitted
       /\ stats'.accepted = stats.accepted
       /\ stats'.transport_errors = stats.transport_errors
       /\ stats'.rejected_by_server = stats.rejected_by_server
       /\ stats'.roundtrips = stats.roundtrips
       /\ stats'.rejected_locally = stats.rejected_locally + 1
  BY <1>1 DEF Stats
<1>. QED
  BY <1>5, <1>6, <1>7, <1>8, <1>10, <1>11 DEF StatsInv, Counters

\* A result is counted once, under what it was: the call ends in the one step
\* that counts it.
LEMMA StatsSettle ==
    ASSUME TypeOK, CallInv, StatsInv, NEW c \in Call, Settle(c)
    PROVE  StatsInv'
<1>. USE DEF TypeOK
<1>1. /\ pc[c] = "settle" /\ kind[c] = "send"
      /\ outcome[c] \in {"accepted", "refused", "quic", "timeout"}
      /\ pc'[c] = "done" /\ stats' = Counted(outcome[c])
      /\ outcome' = outcome /\ kind' = kind
  BY DEF Settle, Goto, CallInv, StatsInv
<1>2. Rest(c)
  BY DEF Settle, Goto, Rest
<1>3. Rejected' = Rejected
  BY <1>1 DEF Rejected
<1>4. BegunCalls' = BegunCalls /\ c \in BegunCalls
  BY <1>1, <1>2 DEF Rest, BegunCalls
<1>5. Sends' = Sends /\ c \in Sends /\ Sends \in SUBSET BegunCalls
  BY <1>1, <1>2, <1>3 DEF Rest, Sends, Rejected, BegunCalls
<1>6. \A S : /\ Ended(S)' = IF outcome[c] \in S THEN Ended(S) \cup {c}
                                                    ELSE Ended(S)
             /\ c \notin Ended(S) /\ Ended(S) \in SUBSET BegunCalls
  <2>1. SUFFICES ASSUME NEW S
                 PROVE  /\ Ended(S)' = IF outcome[c] \in S THEN Ended(S) \cup {c}
                                                               ELSE Ended(S)
                        /\ c \notin Ended(S) /\ Ended(S) \in SUBSET BegunCalls
    OBVIOUS
  <2>2. Ended(S)' = {d \in Sends : pc'[d] = "done" /\ outcome[d] \in S}
    BY <1>1, <1>5 DEF Ended
  <2>3. \A d \in Sends : d # c => pc'[d] = pc[d]
    BY <1>2 DEF Rest, Sends
  <2>4. Ended(S)' = IF outcome[c] \in S THEN Ended(S) \cup {c}
                                            ELSE Ended(S)
    BY <1>1, <1>5, <2>2, <2>3 DEF Ended
  <2>. QED
    BY <1>1, <1>5, <2>4 DEF Ended
<1>7. \A d \in Call : pc'[d] = "settle" =>
         outcome'[d] \in {"accepted", "refused", "quic", "timeout"}
  BY <1>1, <1>2 DEF Rest, StatsInv
<1>8. \A S : /\ Cardinality(Ended(S)) \in Nat
             /\ Cardinality(Ended(S)') =
                   Cardinality(Ended(S)) + (IF outcome[c] \in S THEN 1 ELSE 0)
  <2>1. SUFFICES ASSUME NEW S
                 PROVE  /\ Cardinality(Ended(S)) \in Nat
                        /\ Cardinality(Ended(S)') = Cardinality(Ended(S))
                              + (IF outcome[c] \in S THEN 1 ELSE 0)
    OBVIOUS
  <2>. DEFINE E == Ended(S)
              F == Ended(S)'
  <2>2. /\ F = IF outcome[c] \in S THEN E \cup {c} ELSE E
        /\ c \notin E /\ E \in SUBSET BegunCalls
    BY <1>6
  <2>. HIDE DEF E, F
  <2>3. Cardinality(E) \in Nat /\ Cardinality(E \cup {c}) = Cardinality(E) + 1
    BY <2>2, OneMoreCall DEF StatsInv
  <2>4. Cardinality(E) \in Nat
        /\ Cardinality(F) = Cardinality(E) + (IF outcome[c] \in S THEN 1 ELSE 0)
    BY <2>2, <2>3
  <2>. QED
    BY <2>4 DEF E, F
<1>. DEFINE acc == Cardinality(Ended({"accepted"}))
            fail == Cardinality(Ended({"quic", "timeout"}))
            refd == Cardinality(Ended({"refused"}))
            answ == Cardinality(Ended({"accepted", "refused"}))
<1>9. /\ acc \in Nat /\ fail \in Nat /\ refd \in Nat /\ answ \in Nat
      /\ acc' = acc + (IF outcome[c] \in {"accepted"} THEN 1 ELSE 0)
      /\ fail' = fail + (IF outcome[c] \in {"quic", "timeout"} THEN 1 ELSE 0)
      /\ refd' = refd + (IF outcome[c] \in {"refused"} THEN 1 ELSE 0)
      /\ answ' = answ + (IF outcome[c] \in {"accepted", "refused"} THEN 1 ELSE 0)
  BY <1>8
<1>10. /\ stats.submitted = BatchSize * Cardinality(Sends)
       /\ stats.accepted = BatchSize * acc
       /\ stats.transport_errors = fail
       /\ stats.rejected_by_server = refd
       /\ stats.roundtrips = answ
       /\ stats.rejected_locally = Cardinality(Rejected)
  BY DEF StatsInv, Counters
<1>11. SUFFICES /\ stats'.submitted = BatchSize * Cardinality(Sends)
                /\ stats'.accepted = BatchSize * acc'
                /\ stats'.transport_errors = fail'
                /\ stats'.rejected_by_server = refd'
                /\ stats'.roundtrips = answ'
                /\ stats'.rejected_locally = Cardinality(Rejected)
  BY <1>3, <1>4, <1>5, <1>7 DEF StatsInv, Counters
<1>. HIDE DEF acc, fail, refd, answ
<1>12. BatchSize * (acc + 1) = BatchSize * acc + BatchSize
  BY <1>9, BatchAssumption
<1>13. CASE outcome[c] = "accepted"
  <2>1. stats' = [stats EXCEPT !.accepted = @ + BatchSize, !.roundtrips = @ + 1]
    BY <1>1, <1>13 DEF Counted
  <2>2. /\ stats'.submitted = stats.submitted
        /\ stats'.accepted = stats.accepted + BatchSize
        /\ stats'.transport_errors = stats.transport_errors
        /\ stats'.rejected_by_server = stats.rejected_by_server
        /\ stats'.roundtrips = stats.roundtrips + 1
        /\ stats'.rejected_locally = stats.rejected_locally
    BY <2>1 DEF Stats
  <2>3. acc' = acc + 1 /\ fail' = fail /\ refd' = refd /\ answ' = answ + 1
    BY <1>9, <1>13
  <2>. QED
    BY <1>10, <1>12, <2>2, <2>3
<1>14. CASE outcome[c] = "refused"
  <2>1. stats' = [stats EXCEPT !.rejected_by_server = @ + 1, !.roundtrips = @ + 1]
    BY <1>1, <1>14 DEF Counted
  <2>2. /\ stats'.submitted = stats.submitted
        /\ stats'.accepted = stats.accepted
        /\ stats'.transport_errors = stats.transport_errors
        /\ stats'.rejected_by_server = stats.rejected_by_server + 1
        /\ stats'.roundtrips = stats.roundtrips + 1
        /\ stats'.rejected_locally = stats.rejected_locally
    BY <2>1 DEF Stats
  <2>3. acc' = acc /\ fail' = fail /\ refd' = refd + 1 /\ answ' = answ + 1
    BY <1>9, <1>14
  <2>. QED
    BY <1>10, <2>2, <2>3
<1>15. CASE outcome[c] \in {"quic", "timeout"}
  <2>1. stats' = [stats EXCEPT !.transport_errors = @ + 1]
    BY <1>1, <1>15 DEF Counted
  <2>2. /\ stats'.submitted = stats.submitted
        /\ stats'.accepted = stats.accepted
        /\ stats'.transport_errors = stats.transport_errors + 1
        /\ stats'.rejected_by_server = stats.rejected_by_server
        /\ stats'.roundtrips = stats.roundtrips
        /\ stats'.rejected_locally = stats.rejected_locally
    BY <2>1 DEF Stats
  <2>3. acc' = acc /\ fail' = fail + 1 /\ refd' = refd /\ answ' = answ
    BY <1>9, <1>15
  <2>. QED
    BY <1>10, <2>2, <2>3
<1>. QED
  BY <1>1, <1>13, <1>14, <1>15

\* Every step keeps the counters in agreement with the calls.
LEMMA StatsStep ==
    ASSUME TypeOK, CallInv, StatsInv, [Next]_vars
    PROVE  StatsInv'
<1>. USE DEF TypeOK, Goto, callVars
<1>1. ASSUME NEW c \in Call,
             \/ Subscribe(c) \/ LookConnect(c) \/ LookWait(c) \/ Wake(c)
             \/ RecheckAgain(c) \/ OpenOk(c)
             \/ \E s \in {"ok", "refused"} : Reply(c, s)
      PROVE  StatsInv'
  <2>1. /\ Rest(c) /\ stats' = stats /\ kind'[c] = kind[c]
        /\ pc[c] \notin {"idle", "settle", "done"}
        /\ pc'[c] \notin {"idle", "settle", "done"} /\ outcome'[c] = outcome[c]
    BY <1>1 DEF Rest, Subscribe, LookConnect, LookWait, Wake, RecheckAgain, OpenOk, Reply
  <2>2. outcome[c] # "rejected"
    BY <2>1 DEF CallInv
  <2>. QED
    BY <2>1, <2>2, StatsSame
<1>2. ASSUME NEW c \in Call, LookLive(c) \/ RecheckLive(c)
      PROVE  StatsInv'
  <2>1. /\ Rest(c) /\ stats' = stats /\ kind'[c] = kind[c]
        /\ pc[c] \notin {"idle", "settle", "done"}
        /\ \/ pc'[c] = "open" /\ outcome'[c] = outcome[c]
           \/ pc'[c] = "done" /\ kind[c] # "send" /\ outcome'[c] = "warm"
    BY <1>2 DEF Rest, LookLive, RecheckLive, Acquire
  <2>2. outcome[c] # "rejected"
    BY <2>1 DEF CallInv
  <2>. QED
    BY <2>1, <2>2, StatsSame
<1>3. ASSUME NEW c \in Call, OpenFails(c), Reconnect(c)
      PROVE  StatsInv'
  <2>1. /\ Rest(c) /\ stats' = stats /\ kind'[c] = kind[c]
        /\ pc[c] \notin {"idle", "settle", "done"}
        /\ pc'[c] = "subscribe" /\ outcome'[c] = outcome[c]
    BY <1>3 DEF Rest, OpenFails, NotSent, Reconnect
  <2>2. outcome[c] # "rejected"
    BY <2>1 DEF CallInv
  <2>. QED
    BY <2>1, <2>2, StatsSame
<1>4. ASSUME NEW c \in Call, NEW o \in {"accepted", "refused", "quic", "timeout"},
             Finish(c, o), kind' = kind, stats' = stats,
             pc[c] \notin {"idle", "settle", "done"}
      PROVE  StatsInv'
  <2>1. /\ Rest(c) /\ outcome'[c] = o
        /\ pc'[c] = IF kind[c] = "send" THEN "settle" ELSE "done"
    BY <1>4 DEF Rest, Finish
  <2>. QED
    BY <1>4, <2>1, StatsSame
<1>5. ASSUME NEW c \in Call,
             \/ RecheckFail(c) \/ Drain(c) \/ StreamFails(c) \/ Timeout(c)
             \/ OpenFails(c) /\ ~Reconnect(c)
      PROVE  StatsInv'
  <2>1. \E o \in {"accepted", "refused", "quic", "timeout"} : Finish(c, o)
    BY <1>5 DEF RecheckFail, Drain, StreamFails, Timeout, OpenFails
  <2>2. /\ kind' = kind /\ stats' = stats
        /\ pc[c] \notin {"idle", "settle", "done"}
    BY <1>5 DEF RecheckFail, Drain, StreamFails, Timeout, Awaits, OpenFails, NotSent
  <2>. QED
    BY <1>4, <2>1, <2>2
<1>6. ASSUME NEW c \in Call, Abandon(c)
      PROVE  StatsInv'
  <2>1. /\ Rest(c) /\ stats' = stats /\ kind'[c] = kind[c]
        /\ pc[c] \notin {"idle", "settle", "done"}
        /\ pc'[c] = "done" /\ outcome'[c] = "abandoned"
    BY <1>6 DEF Rest, Abandon, Awaits
  <2>. QED
    BY <2>1, StatsSame
<1>7. ASSUME UNCHANGED <<callVars, stats>>
      PROVE  StatsInv'
  BY <1>7 DEF StatsInv, Counters, Sends, Ended, Rejected, BegunCalls
<1>8. ASSUME ConnectTask \/ AnnounceTask \/ CloseConn \/ Disconnect \/ Quiescent
             \/ UNCHANGED vars
      PROVE  UNCHANGED <<callVars, stats>>
  BY <1>8 DEF ConnectTask, ConnectOk, ConnectErr, AnnounceTask, Announce, CloseConn,
     Disconnect, Quiescent, vars
<1>9. ASSUME NEW c \in Call, CallStep(c)
      PROVE  StatsInv'
  BY <1>1, <1>2, <1>3, <1>5, <1>9, StatsSettle DEF CallStep
<1>. QED
  BY <1>5, <1>6, <1>7, <1>8, <1>9, StatsBegin, StatsReject DEF Next

\* Whatever callers do to each other and however they end, the counters of the
\* client add up to its calls (send_framed's `inc`s, RejectLocally's).
THEOREM CountersAgree == Spec => []StatsAgree
<1>1. Init => StatsInv
  <2>. SUFFICES ASSUME Init PROVE StatsInv
    OBVIOUS
  <2>1. /\ Rejected = {} /\ Sends = {} /\ BegunCalls = {}
        /\ \A S : Ended(S) = {}
    BY DEF Init, Rejected, Sends, BegunCalls, Ended
  <2>2. Cardinality({}) = 0 /\ IsFiniteSet({})
    BY FS_EmptySet
  <2>3. BatchSize * 0 = 0
    BY BatchAssumption
  <2>. QED
    BY <2>1, <2>2, <2>3 DEF StatsInv, Counters, Init
<1>2. IInv /\ StatsInv /\ [Next]_vars => StatsInv'
  BY StatsStep DEF IInv
<1>3. Spec => []StatsInv
  BY <1>1, <1>2, Invariance, PTL DEF Spec
<1>4. IInv /\ StatsInv => StatsAgree
  BY StatsMeaning DEF IInv
<1>. QED
  BY <1>3, <1>4, Invariance, PTL

-----------------------------------------------------------------------------
(* What no step does *)

\* Only the two looks of sender hand a connection out, and never the stale one.
LEMMA RetryHolds ==
    ASSUME IInv, [Next]_vars
    PROVE  RetryStep
<1>. USE NoneAssumption
<1>. USE DEF RetryStep, IInv, TypeOK, Option, Generation, PC, callVars, Goto
<1>1. ASSUME NEW c \in Call, NEW k \in {"send", "warmup"}, Begin(c, k)
      PROVE  RetryStep
  BY <1>1 DEF Begin
<1>2. ASSUME NEW c \in Call, RejectLocally(c)
      PROVE  RetryStep
  BY <1>2 DEF RejectLocally
<1>3. ASSUME NEW c \in Call, Subscribe(c)
      PROVE  RetryStep
  BY <1>3 DEF Subscribe
<1>4. ASSUME NEW c \in Call, LookLive(c)
      PROVE  RetryStep
  <2>1. attempt[c] = 2 => conn > used[c]
    BY <1>4 DEF LookLive, CallInv, UsedInv, Usable, IsConnected
  <2>. QED
    BY <1>4, <2>1 DEF LookLive, Acquire, LeaveSender
<1>5. ASSUME NEW c \in Call, LookConnect(c)
      PROVE  RetryStep
  BY <1>5 DEF LookConnect, StartConnect
<1>6. ASSUME NEW c \in Call, LookWait(c)
      PROVE  RetryStep
  BY <1>6 DEF LookWait
<1>7. ASSUME NEW c \in Call, Wake(c)
      PROVE  RetryStep
  BY <1>7 DEF Wake
<1>8. ASSUME NEW c \in Call, RecheckLive(c)
      PROVE  RetryStep
  <2>1. attempt[c] = 2 => conn > used[c]
    BY <1>8 DEF RecheckLive, CallInv, UsedInv
  <2>. QED
    BY <1>8, <2>1 DEF RecheckLive, Acquire, LeaveSender
<1>9. ASSUME NEW c \in Call, RecheckFail(c)
      PROVE  RetryStep
  BY <1>9 DEF RecheckFail, Finish, LeaveSender
<1>10. ASSUME NEW c \in Call, RecheckAgain(c)
      PROVE  RetryStep
  BY <1>10 DEF RecheckAgain
<1>11. ASSUME NEW c \in Call, OpenOk(c)
      PROVE  RetryStep
  BY <1>11 DEF OpenOk
<1>12. ASSUME NEW c \in Call, OpenFails(c)
      PROVE  RetryStep
  BY <1>12 DEF OpenFails, NotSent, Reconnect, MayBreak, Fault, Finish, LeaveSender
<1>13. ASSUME NEW c \in Call, NEW s \in {"ok", "refused"}, Reply(c, s)
      PROVE  RetryStep
  BY <1>13 DEF Reply
<1>14. ASSUME NEW c \in Call, Drain(c)
      PROVE  RetryStep
  BY <1>14 DEF Drain, Finish, LeaveSender
<1>15. ASSUME NEW c \in Call, StreamFails(c)
      PROVE  RetryStep
  BY <1>15 DEF StreamFails, MayBreak, Fault, Finish, LeaveSender
<1>16. ASSUME NEW c \in Call, Settle(c)
      PROVE  RetryStep
  BY <1>16 DEF Settle, Suspect, Evict, Counted
<1>17. ASSUME NEW c \in Call, Timeout(c)
      PROVE  RetryStep
  BY <1>17 DEF Timeout, Awaits, Finish, LeaveSender
<1>18. ASSUME NEW c \in Call, Abandon(c)
      PROVE  RetryStep
  BY <1>18 DEF Abandon, Awaits, LeaveSender
<1>19. ASSUME NEW g \in dialing, ConnectOk(g)
      PROVE  RetryStep
  BY <1>19 DEF ConnectOk
<1>20. ASSUME NEW g \in dialing, ConnectErr(g)
      PROVE  RetryStep
  BY <1>20 DEF ConnectErr, Fault
<1>21. ASSUME NEW g \in announcing, Announce(g)
      PROVE  RetryStep
  BY <1>21 DEF Announce, Bump
<1>22. ASSUME CloseConn
      PROVE  RetryStep
  BY <1>22 DEF CloseConn, IsConnected, Fault
<1>23. ASSUME Disconnect
      PROVE  RetryStep
  BY <1>23 DEF Disconnect, Fault
<1>24. ASSUME Quiescent \/ UNCHANGED vars
      PROVE  RetryStep
  <2>1. UNCHANGED vars
    BY <1>24 DEF Quiescent
  <2>. QED
    BY <2>1 DEF vars
<1>. QED
  BY <1>1, <1>2, <1>3, <1>4, <1>5, <1>6, <1>7, <1>8, <1>9, <1>10, <1>11, <1>12,
     <1>13, <1>14, <1>15, <1>16, <1>17, <1>18, <1>19, <1>20, <1>21, <1>22, <1>23, <1>24
     DEF Next, CallStep, ConnectTask, AnnounceTask

\* The reconnect of a send lands on a strictly newer connection (the `stale`
\* argument of sender).
THEOREM RetriesOnFresh == Spec => RetryOnFresh
<1>1. IInv /\ [Next]_vars => [RetryStep]_vars
  BY RetryHolds
<1>. QED
  BY <1>1, Invariance, PTL DEF Spec, RetryOnFresh

\* Which steps let a held connection go, and why.
LEMMA DropHolds ==
    ASSUME IInv, [Next]_vars
    PROVE  DropStep
<1>. USE NoneAssumption
<1>. USE DEF DropStep, IInv, TypeOK, Option, Generation, slotVars
<1>1. ASSUME NEW c \in Call, NEW k \in {"send", "warmup"}, Begin(c, k)
      PROVE  DropStep
  BY <1>1 DEF Begin
<1>2. ASSUME NEW c \in Call, RejectLocally(c)
      PROVE  DropStep
  BY <1>2 DEF RejectLocally
<1>3. ASSUME NEW c \in Call, Subscribe(c)
      PROVE  DropStep
  BY <1>3 DEF Subscribe
<1>4. ASSUME NEW c \in Call, LookLive(c)
      PROVE  DropStep
  BY <1>4 DEF LookLive, Acquire, LeaveSender
<1>5. ASSUME NEW c \in Call, LookConnect(c)
      PROVE  DropStep
  BY <1>5 DEF LookConnect, StartConnect, CallInv, Usable, IsConnected
<1>6. ASSUME NEW c \in Call, LookWait(c)
      PROVE  DropStep
  BY <1>6 DEF LookWait, SlotInv, SingleFlight
<1>7. ASSUME NEW c \in Call, Wake(c)
      PROVE  DropStep
  BY <1>7 DEF Wake
<1>8. ASSUME NEW c \in Call, RecheckLive(c)
      PROVE  DropStep
  BY <1>8 DEF RecheckLive, Acquire, LeaveSender
<1>9. ASSUME NEW c \in Call, RecheckFail(c)
      PROVE  DropStep
  BY <1>9 DEF RecheckFail, Finish, LeaveSender
<1>10. ASSUME NEW c \in Call, RecheckAgain(c)
      PROVE  DropStep
  BY <1>10 DEF RecheckAgain
<1>11. ASSUME NEW c \in Call, OpenOk(c)
      PROVE  DropStep
  BY <1>11 DEF OpenOk
<1>12. ASSUME NEW c \in Call, OpenFails(c)
      PROVE  DropStep
  BY <1>12 DEF OpenFails, NotSent, Reconnect, MayBreak, Fault, Finish, LeaveSender
<1>13. ASSUME NEW c \in Call, NEW s \in {"ok", "refused"}, Reply(c, s)
      PROVE  DropStep
  BY <1>13 DEF Reply
<1>14. ASSUME NEW c \in Call, Drain(c)
      PROVE  DropStep
  BY <1>14 DEF Drain, Finish, LeaveSender
<1>15. ASSUME NEW c \in Call, StreamFails(c)
      PROVE  DropStep
  BY <1>15 DEF StreamFails, MayBreak, Fault, Finish, LeaveSender
<1>16. ASSUME NEW c \in Call, Settle(c)
      PROVE  DropStep
  BY <1>16 DEF Settle, Suspect, Evict, Counted
<1>17. ASSUME NEW c \in Call, Timeout(c)
      PROVE  DropStep
  BY <1>17 DEF Timeout, Awaits, Finish, LeaveSender
<1>18. ASSUME NEW c \in Call, Abandon(c)
      PROVE  DropStep
  BY <1>18 DEF Abandon, Awaits, LeaveSender
<1>19. ASSUME NEW g \in dialing, ConnectOk(g)
      PROVE  DropStep
  BY <1>19 DEF ConnectOk, SlotInv, SingleFlight
<1>20. ASSUME NEW g \in dialing, ConnectErr(g)
      PROVE  DropStep
  BY <1>20 DEF ConnectErr, Fault
<1>21. ASSUME NEW g \in announcing, Announce(g)
      PROVE  DropStep
  BY <1>21 DEF Announce, Bump
<1>22. ASSUME CloseConn
      PROVE  DropStep
  BY <1>22 DEF CloseConn, IsConnected, Fault
<1>23. ASSUME Disconnect
      PROVE  DropStep
  BY <1>23
<1>24. ASSUME Quiescent \/ UNCHANGED vars
      PROVE  DropStep
  <2>1. UNCHANGED vars
    BY <1>24 DEF Quiescent
  <2>. QED
    BY <2>1 DEF vars
<1>. QED
  BY <1>1, <1>2, <1>3, <1>4, <1>5, <1>6, <1>7, <1>8, <1>9, <1>10, <1>11, <1>12,
     <1>13, <1>14, <1>15, <1>16, <1>17, <1>18, <1>19, <1>20, <1>21, <1>22, <1>23, <1>24
     DEF Next, CallStep, ConnectTask, AnnounceTask

\* A held connection is dropped only for cause; a late timeout of a call on an
\* older connection leaves the current one alone (evict).
THEOREM DropsHaveCause == Spec => DropHasCause
<1>1. IInv /\ [Next]_vars => [DropStep]_vars
  BY DropHolds
<1>. QED
  BY <1>1, Invariance, PTL DEF Spec, DropHasCause

-----------------------------------------------------------------------------
(* Refinement of the connection slot *)

\* What the dial in flight is, without CHOOSE.
FlightIs ==
    IF connecting
    THEN dialing = {Flight} /\ Flight \in Nat /\ next_generation = Flight + 1
    ELSE dialing = {} /\ Flight = None

\* SingleFlight makes the dial in flight a well-defined generation.
LEMMA FlightKnown == IInv => FlightIs
<1>. SUFFICES ASSUME IInv PROVE FlightIs
  OBVIOUS
<1>1. CASE ~connecting
  BY <1>1 DEF IInv, SlotInv, SingleFlight, Flight, FlightIs
<1>2. CASE connecting
  <2>1. PICK g \in dialing : dialing = {g}
    BY <1>2 DEF IInv, SlotInv, SingleFlight
  <2>2. Flight = g
    BY <2>1 DEF Flight
  <2>. QED
    BY <1>2, <2>1, <2>2 DEF IInv, TypeOK, Generation, SlotInv, FlightIs
<1>. QED
  BY <1>1, <1>2 DEF IInv, TypeOK

\* Every step of the client is a step of the slot or leaves it alone.
LEMMA SlotMapped ==
    ASSUME IInv, IInv', FlightIs, FlightIs', [Next]_vars
    PROVE  [Slot!SlotNext]_Slot!slotVars
<1>. USE NoneAssumption
<1>. USE DEF slotVars, netVars, FlightIs, IInv, TypeOK, Option, Generation,
             SlotInv, SingleFlight, Slot!slotVars
<1>. HIDE DEF Flight
<1>1. ASSUME NEW c \in Call, NEW k \in {"send", "warmup"}, Begin(c, k)
      PROVE  [Slot!SlotNext]_Slot!slotVars
  BY <1>1 DEF Begin
<1>2. ASSUME NEW c \in Call, RejectLocally(c)
      PROVE  [Slot!SlotNext]_Slot!slotVars
  BY <1>2 DEF RejectLocally
<1>3. ASSUME NEW c \in Call, Subscribe(c)
      PROVE  [Slot!SlotNext]_Slot!slotVars
  BY <1>3 DEF Subscribe
<1>4. ASSUME NEW c \in Call, LookLive(c)
      PROVE  [Slot!SlotNext]_Slot!slotVars
  BY <1>4 DEF LookLive, Acquire, LeaveSender
<1>5. ASSUME NEW c \in Call, LookConnect(c)
      PROVE  [Slot!SlotNext]_Slot!slotVars
  <2>1. Slot!Dial
    BY <1>5 DEF LookConnect, StartConnect, Slot!Dial
  <2>. QED
    BY <2>1 DEF Slot!SlotNext
<1>6. ASSUME NEW c \in Call, LookWait(c)
      PROVE  [Slot!SlotNext]_Slot!slotVars
  BY <1>6 DEF LookWait
<1>7. ASSUME NEW c \in Call, Wake(c)
      PROVE  [Slot!SlotNext]_Slot!slotVars
  BY <1>7 DEF Wake
<1>8. ASSUME NEW c \in Call, RecheckLive(c)
      PROVE  [Slot!SlotNext]_Slot!slotVars
  BY <1>8 DEF RecheckLive, Acquire, LeaveSender
<1>9. ASSUME NEW c \in Call, RecheckFail(c)
      PROVE  [Slot!SlotNext]_Slot!slotVars
  BY <1>9 DEF RecheckFail, Finish, LeaveSender
<1>10. ASSUME NEW c \in Call, RecheckAgain(c)
      PROVE  [Slot!SlotNext]_Slot!slotVars
  BY <1>10 DEF RecheckAgain
<1>11. ASSUME NEW c \in Call, OpenOk(c)
      PROVE  [Slot!SlotNext]_Slot!slotVars
  BY <1>11 DEF OpenOk
<1>12. ASSUME NEW c \in Call, OpenFails(c)
      PROVE  [Slot!SlotNext]_Slot!slotVars
  BY <1>12 DEF OpenFails, NotSent, Reconnect, MayBreak, Fault, Finish, LeaveSender
<1>13. ASSUME NEW c \in Call, NEW s \in {"ok", "refused"}, Reply(c, s)
      PROVE  [Slot!SlotNext]_Slot!slotVars
  BY <1>13 DEF Reply
<1>14. ASSUME NEW c \in Call, Drain(c)
      PROVE  [Slot!SlotNext]_Slot!slotVars
  BY <1>14 DEF Drain, Finish, LeaveSender
<1>15. ASSUME NEW c \in Call, StreamFails(c)
      PROVE  [Slot!SlotNext]_Slot!slotVars
  BY <1>15 DEF StreamFails, MayBreak, Fault, Finish, LeaveSender
<1>16. ASSUME NEW c \in Call, Settle(c)
      PROVE  [Slot!SlotNext]_Slot!slotVars
  <2>1. Slot!Drop \/ UNCHANGED Slot!slotVars
    BY <1>16 DEF Settle, Suspect, Evict, Counted, Slot!Drop
  <2>. QED
    BY <2>1 DEF Slot!SlotNext
<1>17. ASSUME NEW c \in Call, Timeout(c)
      PROVE  [Slot!SlotNext]_Slot!slotVars
  BY <1>17 DEF Timeout, Awaits, Finish, LeaveSender
<1>18. ASSUME NEW c \in Call, Abandon(c)
      PROVE  [Slot!SlotNext]_Slot!slotVars
  BY <1>18 DEF Abandon, Awaits, LeaveSender
<1>19. ASSUME NEW g \in dialing, ConnectOk(g)
      PROVE  [Slot!SlotNext]_Slot!slotVars
  <2>1. Slot!Establish
    BY <1>19 DEF ConnectOk, Slot!Establish
  <2>. QED
    BY <2>1 DEF Slot!SlotNext
<1>20. ASSUME NEW g \in dialing, ConnectErr(g)
      PROVE  [Slot!SlotNext]_Slot!slotVars
  <2>1. Slot!Fail
    BY <1>20 DEF ConnectErr, Fault, Slot!Fail
  <2>. QED
    BY <2>1 DEF Slot!SlotNext
<1>21. ASSUME NEW g \in announcing, Announce(g)
      PROVE  [Slot!SlotNext]_Slot!slotVars
  BY <1>21 DEF Announce, Bump
<1>22. ASSUME CloseConn
      PROVE  [Slot!SlotNext]_Slot!slotVars
  BY <1>22 DEF CloseConn, IsConnected, Fault
<1>23. ASSUME Disconnect
      PROVE  [Slot!SlotNext]_Slot!slotVars
  <2>1. Slot!Drop
    BY <1>23 DEF Disconnect, Fault, Slot!Drop
  <2>. QED
    BY <2>1 DEF Slot!SlotNext
<1>24. ASSUME Quiescent \/ UNCHANGED vars
      PROVE  [Slot!SlotNext]_Slot!slotVars
  <2>1. UNCHANGED vars
    BY <1>24 DEF Quiescent
  <2>. QED
    BY <2>1 DEF vars
<1>. QED
  BY <1>1, <1>2, <1>3, <1>4, <1>5, <1>6, <1>7, <1>8, <1>9, <1>10, <1>11, <1>12,
     <1>13, <1>14, <1>15, <1>16, <1>17, <1>18, <1>19, <1>20, <1>21, <1>22, <1>23, <1>24
     DEF Next, CallStep, ConnectTask, AnnounceTask

\* The client's slot implements ConnSlot: one dial at a time, never while a
\* connection is held, generations used in order (struct State).
THEOREM SlotRefinement == Spec => SlotRefined
<1>1. Init => Slot!SlotInit
  BY DEF Init, Slot!SlotInit, Flight
<1>2. IInv => FlightIs
  BY FlightKnown
<1>3. IInv /\ IInv' /\ FlightIs /\ FlightIs' /\ [Next]_vars
        => [Slot!SlotNext]_Slot!slotVars
  BY SlotMapped
<1>. QED
  BY <1>1, <1>2, <1>3, Invariance, PTL DEF Spec, SlotRefined, Slot!SlotSpec

-----------------------------------------------------------------------------
(* Refinement of the submission contract *)

\* A step that changes nothing the contract sees.
LEMMA SubmitStutter ==
    ASSUME posted' = posted,
           \A d \in Call : Phase(d)' = Phase(d) /\ Told(d)' = Told(d)
    PROVE  UNCHANGED Submit!submitVars
<1>. HIDE DEF Phase, Told
<1>. QED
  BY DEF Submit!submitVars

\* A step that ends the future of call c is the contract's Close, or nothing
\* when the call is a warmup.
LEMMA SubmitFinish ==
    ASSUME IInv, NEW c \in Call, NEW label \in {"settle", "done"},
           NEW r \in {"accepted", "refused", "quic", "timeout", "abandoned"},
           pc[c] \notin {"idle", "settle", "done"},
           pc' = [pc EXCEPT ![c] = label],
           outcome' = [outcome EXCEPT ![c] = r],
           kind' = kind, posted' = posted,
           r \in {"accepted", "refused"} => posted[c] = 1
    PROVE  [Submit!SubmitNext]_Submit!submitVars
<1>1. \A d \in Call \ {c} : Phase(d)' = Phase(d) /\ Told(d)' = Told(d)
  BY DEF IInv, TypeOK, Phase, Told
<1>2. CASE kind[c] = "warmup"
  <2>1. Phase(c)' = Phase(c) /\ Told(c)' = Told(c)
    BY <1>2 DEF Phase, Told
  <2>2. UNCHANGED Submit!submitVars
    BY <1>1, <2>1, SubmitStutter
  <2>. QED
    BY <2>2
<1>3. CASE kind[c] = "send"
  <2>1. PICK s \in Submit!Results :
           /\ Told(c)' = s
           /\ s \in {"accepted", "refused"} => posted[c] = 1
    BY <1>3 DEF IInv, TypeOK, Told, Submit!Results
  <2>2. Phase(c) = "open" /\ Phase(c)' = "closed"
    BY <1>3 DEF IInv, TypeOK, Phase
  <2>3. Submit!Close(c, s)
    <3>. HIDE DEF Phase, Told
    <3>. QED
      BY <1>1, <2>1, <2>2 DEF Submit!Close
  <2>. QED
    BY <2>3 DEF Submit!SubmitNext
<1>. QED
  BY <1>2, <1>3 DEF IInv, TypeOK

\* Every step of the client is a step of the contract or leaves it alone.
LEMMA SubmitMapped ==
    ASSUME IInv, [Next]_vars
    PROVE  [Submit!SubmitNext]_Submit!submitVars
<1>. USE NoneAssumption
<1>. USE DEF callVars, Goto, IInv, TypeOK, PC
<1>1. ASSUME NEW c \in Call, NEW k \in {"send", "warmup"}, Begin(c, k)
      PROVE  [Submit!SubmitNext]_Submit!submitVars
  <2>1. /\ posted' = posted
        /\ \A d \in Call : Told(d)' = Told(d)
        /\ \A d \in Call \ {c} : Phase(d)' = Phase(d)
        /\ Phase(c) = "new" /\ Phase(c)' \in {"new", "open"}
    BY <1>1 DEF Begin, CallInv, Phase, Told
  <2>2. CASE Phase(c)' = "new"
    <3>1. \A d \in Call : Phase(d)' = Phase(d)
      BY <2>1, <2>2
    <3>. QED
      BY <2>1, <3>1, SubmitStutter
  <2>3. CASE Phase(c)' = "open"
    <3>. HIDE DEF Phase, Told
    <3>1. Submit!Open(c)
      BY <2>1, <2>3 DEF Submit!Open
    <3>. QED
      BY <3>1 DEF Submit!SubmitNext
  <2>. QED
    BY <2>1, <2>2, <2>3
<1>2. ASSUME NEW c \in Call, RejectLocally(c)
      PROVE  [Submit!SubmitNext]_Submit!submitVars
  <2>1. /\ posted' = posted
        /\ \A d \in Call \ {c} : Phase(d)' = Phase(d) /\ Told(d)' = Told(d)
        /\ Phase(c) = "new" /\ Phase(c)' = "closed"
        /\ Told(c)' = "rejected"
    BY <1>2 DEF RejectLocally, CallInv, Phase, Told
  <2>2. Submit!Reject(c)
    <3>. HIDE DEF Phase, Told
    <3>. QED
      BY <2>1 DEF Submit!Reject
  <2>. QED
    BY <2>2 DEF Submit!SubmitNext
<1>3. ASSUME NEW c \in Call, Subscribe(c)
      PROVE  [Submit!SubmitNext]_Submit!submitVars
  <2>1. /\ posted' = posted
        /\ \A d \in Call : Phase(d)' = Phase(d) /\ Told(d)' = Told(d)
    BY <1>3 DEF Subscribe, Phase, Told
  <2>. QED
    BY <2>1, SubmitStutter
<1>4. ASSUME NEW c \in Call, LookLive(c)
      PROVE  [Submit!SubmitNext]_Submit!submitVars
  <2>1. /\ posted' = posted
        /\ \A d \in Call : Phase(d)' = Phase(d) /\ Told(d)' = Told(d)
    BY <1>4 DEF LookLive, Acquire, LeaveSender, Phase, Told, CallInv
  <2>. QED
    BY <2>1, SubmitStutter
<1>5. ASSUME NEW c \in Call, LookConnect(c)
      PROVE  [Submit!SubmitNext]_Submit!submitVars
  <2>1. /\ posted' = posted
        /\ \A d \in Call : Phase(d)' = Phase(d) /\ Told(d)' = Told(d)
    BY <1>5 DEF LookConnect, StartConnect, Phase, Told
  <2>. QED
    BY <2>1, SubmitStutter
<1>6. ASSUME NEW c \in Call, LookWait(c)
      PROVE  [Submit!SubmitNext]_Submit!submitVars
  <2>1. /\ posted' = posted
        /\ \A d \in Call : Phase(d)' = Phase(d) /\ Told(d)' = Told(d)
    BY <1>6 DEF LookWait, Phase, Told
  <2>. QED
    BY <2>1, SubmitStutter
<1>7. ASSUME NEW c \in Call, Wake(c)
      PROVE  [Submit!SubmitNext]_Submit!submitVars
  <2>1. /\ posted' = posted
        /\ \A d \in Call : Phase(d)' = Phase(d) /\ Told(d)' = Told(d)
    BY <1>7 DEF Wake, Phase, Told
  <2>. QED
    BY <2>1, SubmitStutter
<1>8. ASSUME NEW c \in Call, RecheckLive(c)
      PROVE  [Submit!SubmitNext]_Submit!submitVars
  <2>1. /\ posted' = posted
        /\ \A d \in Call : Phase(d)' = Phase(d) /\ Told(d)' = Told(d)
    BY <1>8 DEF RecheckLive, Acquire, LeaveSender, Phase, Told, CallInv
  <2>. QED
    BY <2>1, SubmitStutter
<1>9. ASSUME NEW c \in Call, RecheckFail(c)
      PROVE  [Submit!SubmitNext]_Submit!submitVars
  BY <1>9, SubmitFinish DEF RecheckFail, Finish, LeaveSender
<1>10. ASSUME NEW c \in Call, RecheckAgain(c)
      PROVE  [Submit!SubmitNext]_Submit!submitVars
  <2>1. /\ posted' = posted
        /\ \A d \in Call : Phase(d)' = Phase(d) /\ Told(d)' = Told(d)
    BY <1>10 DEF RecheckAgain, Phase, Told
  <2>. QED
    BY <2>1, SubmitStutter
<1>11. ASSUME NEW c \in Call, OpenOk(c)
      PROVE  [Submit!SubmitNext]_Submit!submitVars
  <2>0. kind[c] = "send" /\ outcome[c] = "pending" /\ posted[c] = 0
    BY <1>11 DEF OpenOk, CallInv
  <2>1. /\ Phase(c) = "open" /\ Told(c) = "pending" /\ posted[c] = 0
        /\ posted' = [posted EXCEPT ![c] = 1]
        /\ \A d \in Call : Phase(d)' = Phase(d) /\ Told(d)' = Told(d)
    BY <1>11, <2>0 DEF OpenOk, Phase, Told
  <2>2. Submit!Leave(c)
    <3>. HIDE DEF Phase, Told
    <3>. QED
      BY <2>1 DEF Submit!Leave
  <2>. QED
    BY <2>2 DEF Submit!SubmitNext
<1>12. ASSUME NEW c \in Call, OpenFails(c)
      PROVE  [Submit!SubmitNext]_Submit!submitVars
  <2>1. CASE Reconnect(c)
    <3>1. /\ posted' = posted
          /\ \A d \in Call : Phase(d)' = Phase(d) /\ Told(d)' = Told(d)
      BY <1>12, <2>1 DEF OpenFails, NotSent, Reconnect, Phase, Told
    <3>. QED
      BY <3>1, SubmitStutter
  <2>2. CASE Finish(c, "quic")
    BY <1>12, <2>2, SubmitFinish DEF OpenFails, NotSent, Finish
  <2>. QED
    BY <1>12, <2>1, <2>2 DEF OpenFails
<1>13. ASSUME NEW c \in Call, NEW s \in {"ok", "refused"}, Reply(c, s)
      PROVE  [Submit!SubmitNext]_Submit!submitVars
  <2>1. /\ posted' = posted
        /\ \A d \in Call : Phase(d)' = Phase(d) /\ Told(d)' = Told(d)
    BY <1>13 DEF Reply, Phase, Told
  <2>. QED
    BY <2>1, SubmitStutter
<1>14. ASSUME NEW c \in Call, Drain(c)
      PROVE  [Submit!SubmitNext]_Submit!submitVars
  <2>1. posted[c] = 1
    BY <1>14 DEF Drain, CallInv
  <2>. QED
    BY <1>14, <2>1, SubmitFinish DEF Drain, Finish, LeaveSender
<1>15. ASSUME NEW c \in Call, StreamFails(c)
      PROVE  [Submit!SubmitNext]_Submit!submitVars
  BY <1>15, SubmitFinish DEF StreamFails, MayBreak, Fault, Finish, LeaveSender
<1>16. ASSUME NEW c \in Call, Settle(c)
      PROVE  [Submit!SubmitNext]_Submit!submitVars
  <2>1. /\ posted' = posted
        /\ \A d \in Call : Phase(d)' = Phase(d) /\ Told(d)' = Told(d)
    BY <1>16 DEF Settle, Suspect, Evict, Counted, Phase, Told
  <2>. QED
    BY <2>1, SubmitStutter
<1>17. ASSUME NEW c \in Call, Timeout(c)
      PROVE  [Submit!SubmitNext]_Submit!submitVars
  BY <1>17, SubmitFinish DEF Timeout, Awaits, Finish, LeaveSender
<1>18. ASSUME NEW c \in Call, Abandon(c)
      PROVE  [Submit!SubmitNext]_Submit!submitVars
  BY <1>18, SubmitFinish DEF Abandon, Awaits, LeaveSender
<1>19. ASSUME NEW g \in dialing, ConnectOk(g)
      PROVE  [Submit!SubmitNext]_Submit!submitVars
  <2>1. /\ posted' = posted
        /\ \A d \in Call : Phase(d)' = Phase(d) /\ Told(d)' = Told(d)
    BY <1>19 DEF ConnectOk, Phase, Told
  <2>. QED
    BY <2>1, SubmitStutter
<1>20. ASSUME NEW g \in dialing, ConnectErr(g)
      PROVE  [Submit!SubmitNext]_Submit!submitVars
  <2>1. /\ posted' = posted
        /\ \A d \in Call : Phase(d)' = Phase(d) /\ Told(d)' = Told(d)
    BY <1>20 DEF ConnectErr, Fault, Phase, Told
  <2>. QED
    BY <2>1, SubmitStutter
<1>21. ASSUME NEW g \in announcing, Announce(g)
      PROVE  [Submit!SubmitNext]_Submit!submitVars
  <2>1. /\ posted' = posted
        /\ \A d \in Call : Phase(d)' = Phase(d) /\ Told(d)' = Told(d)
    BY <1>21 DEF Announce, Bump, Phase, Told
  <2>. QED
    BY <2>1, SubmitStutter
<1>22. ASSUME CloseConn
      PROVE  [Submit!SubmitNext]_Submit!submitVars
  <2>1. /\ posted' = posted
        /\ \A d \in Call : Phase(d)' = Phase(d) /\ Told(d)' = Told(d)
    BY <1>22 DEF CloseConn, IsConnected, Fault, Phase, Told
  <2>. QED
    BY <2>1, SubmitStutter
<1>23. ASSUME Disconnect
      PROVE  [Submit!SubmitNext]_Submit!submitVars
  <2>1. /\ posted' = posted
        /\ \A d \in Call : Phase(d)' = Phase(d) /\ Told(d)' = Told(d)
    BY <1>23 DEF Disconnect, Fault, Phase, Told
  <2>. QED
    BY <2>1, SubmitStutter
<1>24. ASSUME Quiescent \/ UNCHANGED vars
      PROVE  [Submit!SubmitNext]_Submit!submitVars
  <2>1. UNCHANGED vars
    BY <1>24 DEF Quiescent
  <2>2. /\ posted' = posted
        /\ \A d \in Call : Phase(d)' = Phase(d) /\ Told(d)' = Told(d)
    BY <2>1 DEF vars, Phase, Told
  <2>. QED
    BY <2>2, SubmitStutter
<1>. QED
  BY <1>1, <1>2, <1>3, <1>4, <1>5, <1>6, <1>7, <1>8, <1>9, <1>10, <1>11, <1>12,
     <1>13, <1>14, <1>15, <1>16, <1>17, <1>18, <1>19, <1>20, <1>21, <1>22, <1>23, <1>24
     DEF Next, CallStep, ConnectTask, AnnounceTask

\* Every send implements SubmitOnce: its transactions leave at most once,
\* whatever the reconnect, the deadline and the other calls do, and the answer
\* a caller sees is that of a request that left (send_with_retry, attempt).
THEOREM SubmitRefinement == Spec => SubmitRefined
<1>1. Init => Submit!SubmitInit
  BY DEF Init, Submit!SubmitInit, Phase, Told
<1>2. IInv /\ [Next]_vars => [Submit!SubmitNext]_Submit!submitVars
  BY SubmitMapped
<1>. QED
  BY <1>1, <1>2, Invariance, PTL DEF Spec, SubmitRefined, Submit!SubmitSpec
=============================================================================
