--------------------------- MODULE MCPreemptFair ---------------------------
(* Instances of PreemptFair for TLC. *)
EXTENDS PreemptFair

\* Boot-time task sets: the priority of slots 1, 2, ...
BootLadder == <<1, 1, 2, 3>>
=============================================================================
