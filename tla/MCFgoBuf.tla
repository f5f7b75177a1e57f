------------------------------ MODULE MCFgoBuf ------------------------------
(* TLC instances of FgoBuf. *)
EXTENDS FgoBuf, TLC

Symm == Permutations(Obj) \cup Permutations(Buf) \cup Permutations(Slot)
=============================================================================
