------------------------------ MODULE BlockPool ------------------------------
(***************************************************************************)
(* What a memory pool promises its caller: blocks that nobody else has.    *)
(***************************************************************************)
VARIABLE allocated

Init == allocated = {}

Allocate(block) == block \notin allocated /\ allocated' = allocated \cup {block}
Release(block) == block \in allocated /\ allocated' = allocated \ {block}
Clear == allocated' = {}
=============================================================================
