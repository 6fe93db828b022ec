----------------------------- MODULE Exclusion -----------------------------
(***************************************************************************)
(* What critical::enter promises its callers: at any time at most one hart *)
(* is inside, and it comes in when nobody is and goes out by itself.       *)
(***************************************************************************)
CONSTANT Procs

VARIABLE inside   \* the harts inside the section

Init == inside = {}

Enter(p) == inside = {} /\ inside' = {p}

Leave(p) == inside = {p} /\ inside' = {}

Next == \E p \in Procs : Enter(p) \/ Leave(p)

Spec == Init /\ [][Next]_inside
=============================================================================
