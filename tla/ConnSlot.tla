------------------------------ MODULE ConnSlot ------------------------------
(***************************************************************************)
(* What `struct State` of src/src/quic.rs promises to its users, whatever  *)
(* the interleaving of callers and connect tasks: a slot that holds at     *)
(* most one connection, at most one dial in flight and never while a       *)
(* connection is held, and generations handed out in order, so that a      *)
(* generation names one connection for ever.                               *)
(***************************************************************************)
EXTENDS Naturals

CONSTANT None

VARIABLES
    held,    \* the generation of the connection in the slot, or None
    flight,  \* the generation being dialled, or None
    next     \* the generation the next dial will get

slotVars == <<held, flight, next>>

SlotInit ==
    /\ held = None
    /\ flight = None
    /\ next = 0

\* Start the only dial; a connection found dead is let go in the same step.
Dial ==
    /\ flight = None
    /\ held' = None
    /\ flight' = next
    /\ next' = next + 1

\* The dial in flight succeeds and its connection becomes the held one.
Establish ==
    /\ flight # None
    /\ held = None
    /\ held' = flight
    /\ flight' = None
    /\ UNCHANGED next

\* The dial in flight fails.
Fail ==
    /\ flight # None
    /\ flight' = None
    /\ UNCHANGED <<held, next>>

\* The held connection is evicted or disconnected.
Drop ==
    /\ held # None
    /\ held' = None
    /\ UNCHANGED <<flight, next>>

SlotNext == Dial \/ Establish \/ Fail \/ Drop

SlotSpec == SlotInit /\ [][SlotNext]_slotVars
=============================================================================
