----------------------------- MODULE MCUnload -----------------------------
(* TLC instances of Unload. *)
EXTENDS Unload, TLC

At(b, n) == [base |-> b, len |-> n]

\* A range of three addresses and one of one beside it, in either order.
MCLists == {<<At(0, 3), At(3, 1)>>, <<At(3, 1), At(0, 3)>>}
\* A signal stack each for a host thread and for the thread that unloads: in the
\* middle of a range, a whole one, the ends of two, and all of it.
MCStacks ==
    {<<At(1, 1), At(3, 1)>>, <<At(0, 1), At(2, 2)>>, <<At(3, 1), At(1, 1)>>,
     <<At(0, 2), At(2, 2)>>}
=============================================================================
