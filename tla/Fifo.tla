-------------------------------- MODULE Fifo --------------------------------
(***************************************************************************)
(* What sync::Channel promises: a bounded queue between one sender and one *)
(* receiver.  `arg' is the value the sender was last called with, `got'    *)
(* the one the receiver took last.                                         *)
(***************************************************************************)
EXTENDS Integers, Sequences

CONSTANTS Values, Capacity

VARIABLES q, arg, got

Init == q = <<>> /\ arg \in Values /\ got \in Values

Call == arg' \in Values /\ UNCHANGED <<q, got>>

Send == Len(q) < Capacity /\ q' = Append(q, arg) /\ UNCHANGED <<arg, got>>

Receive == q # <<>> /\ q' = Tail(q) /\ got' = Head(q) /\ UNCHANGED arg

Spec == Init /\ [][Call \/ Send \/ Receive]_<<q, arg, got>>
=============================================================================
