------------------------------ MODULE HotSwap ------------------------------
(***************************************************************************)
(* What forgo run --watch promises of the program it keeps running: its    *)
(* code is always that of one source tree that was built, and changes from *)
(* one such tree to the next at once.                                      *)
(***************************************************************************)
CONSTANTS F, Ver

VARIABLES
    src,        \* the source tree: each function's version
    tree,       \* the trees that were built
    code        \* the tree whose code the program's calls run

vars == <<src, tree, code>>

Init ==
    /\ src \in [F -> Ver]
    /\ tree = {src} /\ code = src

Edit == src' \in [F -> Ver] /\ UNCHANGED <<tree, code>>

Build == tree' = tree \cup {src} /\ UNCHANGED <<src, code>>

Swap == code' \in tree /\ UNCHANGED <<src, tree>>

Next == Edit \/ Build \/ Swap

Spec == Init /\ [][Next]_vars
=============================================================================
