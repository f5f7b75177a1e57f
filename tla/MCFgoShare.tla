----------------------------- MODULE MCFgoShare -----------------------------
(* TLC instances of FgoShare.                                               *)
EXTENDS FgoShare, TLC

Symm == Permutations(Obj) \cup Permutations(G) \cup Permutations(Tag)
=============================================================================
