---------------------------- MODULE MCSigChain ----------------------------
(* TLC instances of SigChain. *)
EXTENDS SigChain, TLC

Symm == Permutations(Runtime)
=============================================================================
