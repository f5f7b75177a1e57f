------------------------------ MODULE ForgoMem ------------------------------
(***************************************************************************)
(* The list of address ranges a runtime mapped (forgoMem in                 *)
(* runtime/forgo_unload.go), which the unload hands to the library's        *)
(* destructor.  Forgetting a range walks the list and changes it on the     *)
(* way; a step here is one turn of that loop.  The lock is held for the     *)
(* whole walk.                                                              *)
(***************************************************************************)
EXTENDS Integers, Sequences

CONSTANT Space   \* the addresses are 0 .. Space - 1
ASSUME SpaceIs == Space \in Nat

Addr == 0 .. Space - 1
Span == {r \in [base : Addr, len : 1 .. Space] : r.base + r.len <= Space}

VARIABLES
    mem,   \* forgoMem: the sequence of ranges
    at,    \* where forgoMemRemove is in it; 0 outside a walk
    cut    \* the range it forgets: [base, len]

memVars == <<mem, at, cut>>

Bytes(r) == r.base .. r.base + r.len - 1
Cover(list) == UNION {Bytes(list[i]) : i \in DOMAIN list}
Apart(list) == \A i, j \in DOMAIN list : i # j => Bytes(list[i]) \cap Bytes(list[j]) = {}

MemInit == mem = <<>> /\ at = 0 /\ cut = [base |-> 0, len |-> 0]

\* forgoMemRemove begins to forget r.
MemRemove(r) ==
    /\ at = 0
    /\ at' = 1
    /\ cut' = r
    /\ UNCHANGED mem

\* What the turn for a range that the cut overlaps makes of the list.
Covered(r) == cut.base <= r.base /\ r.base + r.len <= cut.base + cut.len
Inside(r) == r.base < cut.base /\ cut.base + cut.len < r.base + r.len
Lower(r) == [base |-> r.base, len |-> cut.base - r.base]
Upper(r) == [base |-> cut.base + cut.len, len |-> r.base + r.len - (cut.base + cut.len)]
DropAt(i) == SubSeq([mem EXCEPT ![i] = mem[Len(mem)]], 1, Len(mem) - 1)
SplitAtLower(i) == [mem EXCEPT ![i] = Lower(mem[i])]
SplitAt(i) == Append([mem EXCEPT ![i] = Lower(mem[i])], Upper(mem[i]))

\* The range that DropAt moved here has its turn next.
AfterDropSkips == at + 1
AfterDrop == at

MemStep ==
    /\ at \in 1 .. Len(mem)
    /\ LET r == mem[at] IN
       \/ /\ r.base + r.len <= cut.base \/ cut.base + cut.len <= r.base
          /\ at' = at + 1
          /\ mem' = mem
       \/ /\ ~(r.base + r.len <= cut.base \/ cut.base + cut.len <= r.base)
          /\ \/ Covered(r) /\ mem' = DropAt(at) /\ at' = AfterDrop
             \/ ~Covered(r) /\ Inside(r) /\ mem' = SplitAt(at) /\ at' = at + 1
             \/ /\ ~Covered(r) /\ ~Inside(r) /\ r.base < cut.base
                /\ mem' = [mem EXCEPT ![at] = Lower(r)] /\ at' = at + 1
             \/ /\ ~Covered(r) /\ ~Inside(r) /\ cut.base <= r.base
                /\ mem' = [mem EXCEPT ![at] = Upper(r)] /\ at' = at + 1
    /\ UNCHANGED cut

MemRemoved ==
    /\ at > Len(mem)
    /\ at' = 0
    /\ UNCHANGED <<mem, cut>>
=============================================================================
