----------------------------- MODULE MCFgoAlloc -----------------------------
(* TLC instances of FgoAlloc.                                               *)
EXTENDS FgoAlloc, TLC

Symm == Permutations(M)
=============================================================================
