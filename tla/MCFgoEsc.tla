------------------------------ MODULE MCFgoEsc ------------------------------
(* TLC instances of FgoEsc.                                                 *)
EXTENDS FgoEsc, TLC

Symm == Permutations(Obj)
=============================================================================
