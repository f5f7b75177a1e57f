---------------------------- MODULE MCHotReload ----------------------------
(* TLC instances of HotReload: main calls f and f calls g.  A version named *)
(* sig has another argument frame than the others.                          *)
EXTENDS HotReload, TLC

MCCalls ==
    [x \in F |-> F \cap CASE x = "main" -> {"f"} [] x = "f" -> {"g"} [] OTHER -> {}]
MCArgs == [v \in Ver |-> IF v = "sig" THEN 16 ELSE 8]
=============================================================================
