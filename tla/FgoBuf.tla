------------------------------- MODULE FgoBuf -------------------------------
(***************************************************************************)
(* Buffers of nogc objects (runtime/forgo_rc.go): string and scalar slice   *)
(* fields, and slices of nogc pointers, whose buffer holds a reference to   *)
(* each element.  A counted object owns its field's buffer alone: every     *)
(* store copies.  Nogc code reads a field through a view into the buffer    *)
(* and keeps the object alive meanwhile; a read that outlives the frame is  *)
(* copied onto the GC heap.  A hand-off moves fields to the GC heap and     *)
(* leaves the buffer to the GC, for views that are still in use.            *)
(*                                                                         *)
(* One goroutine runs nogc code: counted objects belong to it alone, so a   *)
(* runtime call is one step.  The rest of the program holds GC pointers,    *)
(* and the GC frees what was handed off (FgoEsc models how).  An object     *)
(* has one field; what it holds is the object's type.                       *)
(*                                                                         *)
(* Race names what the passing run leaves out: "cycle" (a store that makes  *)
(* a counted object reach itself), "large" (a copy of a buffer above        *)
(* fgoRCMaxSize, which is outside the arena), "overwrite" (a store into a   *)
(* field while a view of it is in use) and "build" (a panic between the     *)
(* building of a slice and its store).                                      *)
(***************************************************************************)
EXTENDS Integers, Sequences, FiniteSetsExt, SequencesExt

CONSTANTS
    Obj, Buf,
    Slot,     \* the stack slots for owned references
    Heap,     \* a pointer to an object of the GC heap
    Nil,
    MaxLen,   \* the longest slice of pointers
    fgoRCMaxSize, \* the longest one whose buffer is in the arena
    Race

Ref == Obj \cup {Heap, Nil}
RaceKind == {"cycle", "large", "overwrite", "build"}
ASSUME Names ==
    /\ Obj \cap (Buf \cup {Heap, Nil}) = {} /\ Nil \notin Buf /\ Heap # Nil
    /\ IsFiniteSet(Obj) /\ IsFiniteSet(Slot)
ASSUME Bounds == MaxLen \in Nat /\ fgoRCMaxSize \in Nat /\ Race \subseteq RaceKind

VARIABLES
    mem,    \* nogc memory, see Mem
    loc,    \* Slot -> the reference the slot owns, or Nil
    tok,    \* the reuse token, an object's memory, or Nil
    dup,    \* a copy of a string on its way to a store, or Nil
    made,   \* a new slice's buffer on its way to a store, or Nil
    view,   \* the view in use: [slot, buf], the slot keeps the object alive
    glob,   \* the nogc objects GC memory holds pointers to
    out     \* the buffers GC memory holds pointers to

vars == <<mem, loc, tok, dup, made, view, glob, out>>
frame == <<loc, tok, dup, made, view>>

Mem ==
    [st  : [Obj -> {"none", "counted", "handed", "token"}],
     cnt : [Obj -> Nat],                    \* the rc word without fgoHeld
     typ : [Obj -> {"ptrs", "data"}],       \* what the field holds
     fld : [Obj -> Buf \cup {Nil}],         \* the buffer the field owns
     gcs : [Obj -> Seq(Ref)],               \* the field of a handed-off object
     buf : [Buf -> {"free", "small", "large", "handed", "leaked"}],
     els : [Buf -> Seq(Ref)]]
NoView == [slot |-> Nil, buf |-> Nil]

Init ==
    /\ mem = [st  |-> [o \in Obj |-> "none"], cnt |-> [o \in Obj |-> 0],
              typ |-> [o \in Obj |-> "data"], fld |-> [o \in Obj |-> Nil],
              gcs |-> [o \in Obj |-> <<>>],
              buf |-> [b \in Buf |-> "free"], els |-> [b \in Buf |-> <<>>]]
    /\ loc = [s \in Slot |-> Nil]
    /\ tok = Nil /\ dup = Nil /\ made = Nil /\ view = NoView
    /\ glob = {} /\ out = {}

Counted(m) == {o \in Obj : m.st[o] = "counted"}
Owned(m) == {b \in Buf : m.buf[b] \in {"small", "large"}}
Occ(q, x) == Cardinality({i \in DOMAIN q : q[i] = x})
Elems(m, o) == IF m.fld[o] = Nil THEN <<>> ELSE m.els[m.fld[o]]
\* How often the fields of the objects in D hold a reference to x.
Held(m, D, x) ==
    Cardinality(UNION {{o} \X {i \in DOMAIN Elems(m, o) : Elems(m, o)[i] = x} : o \in D})
-----------------------------------------------------------------------------
(* Counting and releasing.                                                  *)

fgoRCInc(m, q) == [m EXCEPT !.cnt = [x \in Obj |-> @[x] + Occ(q, x)]]

\* The counted objects that die when the references in q go: fgoRCRelease
\* drops what the dead ones hold, buffers' elements too.
Lost(m, q, D, x) == Occ(q, x) + Held(m, D, x)
Dying(m, q) ==
    LET DeadIn(D, x) == LET n == Lost(m, q, D, x) IN n > 0 /\ m.cnt[x] = n
        Closed == {D \in SUBSET Counted(m) : \A x \in Counted(m) \ D : ~DeadIn(D, x)}
    IN  {o \in Counted(m) : \A D \in Closed : o \in D}

fgoBufFree(m, bs) ==
    [m EXCEPT !.buf = [b \in Buf |-> IF b \in bs THEN "free" ELSE @[b]],
              !.els = [b \in Buf |-> IF b \in bs THEN <<>> ELSE @[b]]]

\* fgoRCRelease of the objects in D.
Released(m, D) ==
    fgoBufFree([m EXCEPT !.st  = [x \in Obj |-> IF x \in D THEN "none" ELSE @[x]],
                         !.typ = [x \in Obj |-> IF x \in D THEN "data" ELSE @[x]],
                         !.fld = [x \in Obj |-> IF x \in D THEN Nil ELSE @[x]]],
               {m.fld[o] : o \in D})

fgoRCDec(m, q) ==
    LET D == Dying(m, q) IN
    Released([m EXCEPT !.cnt = [x \in Obj |-> @[x] - Lost(m, q, D, x)]], D)

\* The counted objects that those in S reach, themselves included.
Reach(m, S) ==
    {x \in Counted(m) : \A R \in SUBSET Counted(m) :
        /\ S \cap Counted(m) \subseteq R
        /\ \A o \in R : ToSet(Elems(m, o)) \cap Counted(m) \subseteq R
        => x \in R}

\* fgoRCHandoff of the objects in S: fields are copied to the GC heap, the
\* references they held are dropped, and fgoHandBuf leaves the buffer to the GC.
HandBufFreed(k) == IF k \in {"small", "large"} THEN "free" ELSE k
fgoHandBuf(k) == CASE k = "small" -> "handed" [] k = "large" -> "leaked" [] OTHER -> k
fgoRCHandoff(m, S) ==
    LET R == Reach(m, S)
        B == {m.fld[o] : o \in R} \ {Nil}
    IN  [m EXCEPT !.st  = [x \in Obj |-> IF x \in R THEN "handed" ELSE @[x]],
                  !.gcs = [x \in Obj |-> IF x \in R THEN Elems(m, x) ELSE @[x]],
                  !.fld = [x \in Obj |-> IF x \in R THEN Nil ELSE @[x]],
                  !.cnt = [x \in Obj |-> @[x] - Held(m, R, x)],
                  !.buf = [b \in Buf |-> IF b \in B THEN fgoHandBuf(@[b]) ELSE @[b]]]

\* fgoBufAlloc: b holds q; above fgoRCMaxSize it is memory of its own.  A string
\* is as long as it likes.
fgoBufAlloc(m, b, k, q) ==
    [m EXCEPT !.buf[b] = k, !.els[b] = q]
BufKinds(b) == {k \in {"small", "large"} : mem.buf[b] = "free"}
-----------------------------------------------------------------------------
(* Objects and references.                                                  *)

Free(s) == loc[s] = Nil
Pinned(s) == view.slot = s
\* A pointer to the GC heap needs no slot: nobody counts it, and nogc code may
\* have one at any time.
Put(s, r) == loc' = [loc EXCEPT ![s] = IF r = Heap THEN Nil ELSE r]

\* fgoRCNew, or fgoRCNewAt with a token: the two types have one size class.
fgoRCNewAt(s, t) ==
    /\ Free(s)
    /\ \E o \in Obj :
         /\ IF tok = Nil THEN mem.st[o] = "none" ELSE o = tok
         /\ mem' = [mem EXCEPT !.st[o] = "counted", !.cnt[o] = 1, !.typ[o] = t]
         /\ Put(s, o)
    /\ tok' = Nil
    /\ UNCHANGED <<dup, made, view, glob, out>>

CopyRef(s, d) ==
    /\ loc[s] # Nil /\ Free(d)
    /\ mem' = fgoRCInc(mem, <<loc[s]>>)
    /\ Put(d, loc[s])
    /\ UNCHANGED <<tok, dup, made, view, glob, out>>

\* The last use of a reference.
DropRef(s) ==
    /\ loc[s] # Nil /\ ~Pinned(s)
    /\ mem' = fgoRCDec(mem, <<loc[s]>>)
    /\ Put(s, Nil)
    /\ UNCHANGED <<tok, dup, made, view, glob, out>>

\* The last use before an allocation of the same size.
fgoRCDropReuse(s) ==
    /\ loc[s] # Nil /\ ~Pinned(s) /\ tok = Nil
    /\ LET o == loc[s]
           m == fgoRCDec(mem, <<o>>)
       IN  IF o \in Counted(mem) /\ mem.cnt[o] = 1
           THEN tok' = o /\ mem' = [m EXCEPT !.st[o] = "token"]
           ELSE tok' = Nil /\ mem' = m
    /\ Put(s, Nil)
    /\ UNCHANGED <<dup, made, view, glob, out>>

\* A pointer leaves nogc code, and may come back.
Escape(s) ==
    /\ loc[s] \in Obj
    /\ mem' = fgoRCHandoff(mem, {loc[s]})
    /\ glob' = glob \cup {loc[s]}
    /\ UNCHANGED <<frame, out>>
TakeTraced(s, o) ==
    /\ o \in glob /\ Free(s)
    /\ mem' = fgoRCInc(mem, <<o>>)
    /\ Put(s, o)
    /\ UNCHANGED <<tok, dup, made, view, glob, out>>
Forget ==
    /\ \/ \E o \in glob : glob' = glob \ {o} /\ out' = out
       \/ \E b \in out : out' = out \ {b} /\ glob' = glob
    /\ UNCHANGED <<mem, frame>>

-----------------------------------------------------------------------------
(* Stores into fields.                                                      *)

ViewOf == IF view = NoView THEN "none" ELSE mem.buf[view.buf]
Viewed == IF ViewOf \in {"none", "handed"} THEN {} ELSE {loc[view.slot]}
MayStore(o) == "overwrite" \in Race \/ o \notin Viewed

\* What a new slice may be built from: an element, another field and an element,
\* or a field without one element.
Local == (Range(loc) \ {Nil}) \cup {Heap}
Field(r) == CASE r \in Obj /\ mem.typ[r] = "ptrs" ->
                   IF mem.st[r] = "counted" THEN Elems(mem, r) ELSE mem.gcs[r]
              [] OTHER -> <<>>
Built ==
    {q \in {<<r>> : r \in Local}
             \cup {Append(Field(loc[s]), r) : s \in Slot, r \in Local}
             \cup UNION {{RemoveAt(Field(loc[s]), i) : i \in DOMAIN Field(loc[s])} : s \in Slot}
       : Len(q) \in 1 .. MaxLen}

\* fgoPtrsTaint: the slice holds a pointer that no counted object can count.
Tainted(q) == Occ(q, Heap) > 0

\* Each element of a new slice is a reference of its own.
PtrsAppendBorrowed(m, q) == m
fgoPtrsAppend(m, q) == fgoRCInc(m, q)

\* The elements of the slice under way.
Made == IF made = Nil THEN <<>> ELSE mem.els[made]

\* fgoPtrsMake, fgoPtrsAppend1 and fgoPtrsAppendN build the slice; an empty one has
\* no buffer.  What its field is in, and the fields beside it in a literal, are
\* evaluated next.
fgoPtrsMake(q) ==
    /\ made = Nil
    /\ \E b \in Buf : \E k \in BufKinds(b) :
         /\ k = "large" <=> Len(q) > fgoRCMaxSize
         /\ mem' = fgoPtrsAppend(fgoBufAlloc(mem, b, k, q), q)
         /\ made' = b
    /\ UNCHANGED <<loc, tok, dup, view, glob, out>>

\* fgoPtrsPut of the slice under way, or of an empty one (Nil).
fgoPtrsPut(o, b) ==
    LET q == IF b = Nil THEN <<>> ELSE mem.els[b]
        objs == ToSet(q) \cap Obj
    IN
    /\ o = Heap \/ (o \in Obj /\ mem.typ[o] = "ptrs")
    /\ MayStore(o)
    /\ \/ /\ o \in Counted(mem)
          /\ "cycle" \in Race \/ o \notin Reach(mem, objs)
          /\ LET m1 == [mem EXCEPT !.fld[o] = b]
                 m2 == IF Tainted(q) THEN fgoRCHandoff(m1, {o}) ELSE m1
             IN  mem' = fgoBufFree(fgoRCDec(m2, Elems(mem, o)), {mem.fld[o]})
          /\ glob' = glob
       \/ /\ o \notin Counted(mem)
          /\ LET m1 == fgoRCDec(fgoRCHandoff(mem, objs), q) IN
             IF o = Heap
             THEN mem' = fgoBufFree(m1, {b}) /\ glob' = glob \cup objs
             ELSE mem' = fgoBufFree([m1 EXCEPT !.gcs[o] = q], {b}) /\ glob' = glob
    /\ made' = IF b = Nil THEN made ELSE Nil
    /\ UNCHANGED <<loc, tok, dup, view, out>>

\* fgoStrPut and fgoSlicePut of buffer b in memory m; other objects get a copy.
StrPutKept(m, o, b) ==
    IF o \in Counted(m) THEN [m EXCEPT !.fld[o] = b] ELSE fgoBufFree(m, {b})
fgoStrPut(m, o, b) ==
    IF o \in Counted(m)
    THEN fgoBufFree([m EXCEPT !.fld[o] = b], {m.fld[o]})
    ELSE fgoBufFree(m, {b})

fgoStrSet(s) ==
    /\ loc[s] \in Obj /\ mem.typ[loc[s]] = "data" /\ MayStore(loc[s])
    /\ IF loc[s] \in Counted(mem)
       THEN \/ \E b \in Buf : \E k \in BufKinds(b) :
                  mem' = fgoStrPut(fgoBufAlloc(mem, b, k, <<>>), loc[s], b)
            \/ mem' = fgoStrPut(mem, loc[s], Nil)
       ELSE mem' = mem
    /\ UNCHANGED <<frame, glob, out>>

\* A string read from a field and stored into another: copied at the read, so
\* that the object may go before the store.
fgoStrDup(s) ==
    /\ loc[s] \in Obj /\ mem.typ[loc[s]] = "data" /\ dup = Nil
    /\ \E b \in Buf : \E k \in BufKinds(b) :
         /\ mem' = fgoBufAlloc(mem, b, k, <<>>)
         /\ dup' = b
    /\ UNCHANGED <<loc, tok, made, view, glob, out>>
StrPutDup(s) ==
    /\ dup # Nil /\ loc[s] \in Obj /\ mem.typ[loc[s]] = "data" /\ MayStore(loc[s])
    /\ mem' = fgoStrPut(mem, loc[s], dup)
    /\ dup' = Nil
    /\ UNCHANGED <<loc, tok, made, view, glob, out>>

-----------------------------------------------------------------------------
(* Reads of fields.                                                         *)

ReadField(s) ==
    /\ view = NoView /\ loc[s] \in Obj
    /\ mem.fld[loc[s]] # Nil
    /\ view' = [slot |-> s, buf |-> mem.fld[loc[s]]]
    /\ UNCHANGED <<mem, loc, tok, dup, made, glob, out>>
EndView ==
    /\ view # NoView
    /\ view' = NoView
    /\ UNCHANGED <<mem, loc, tok, dup, made, glob, out>>

\* An element is read through the view and kept.
LoadElem(i, d) ==
    /\ view # NoView /\ i \in DOMAIN mem.els[view.buf] /\ Free(d)
    /\ mem' = fgoRCInc(mem, <<mem.els[view.buf][i]>>)
    /\ Put(d, mem.els[view.buf][i])
    /\ UNCHANGED <<tok, dup, made, view, glob, out>>

\* fgoPtrsTake: the element is moved out of the slice when nobody else can see
\* its holder.
Unique(o) == o \in Counted(mem) /\ mem.cnt[o] = 1
fgoPtrsTake(s, i, d) ==
    /\ loc[s] \in Obj /\ i \in DOMAIN Field(loc[s]) /\ Free(d)
    /\ LET o == loc[s]
           p == Field(o)[i]
       IN  /\ mem' = IF p # Nil /\ Unique(o)
                     THEN [mem EXCEPT !.els[mem.fld[o]][i] = Nil]
                     ELSE fgoRCInc(mem, <<p>>)
           /\ Put(d, p)
    /\ UNCHANGED <<tok, dup, made, view, glob, out>>

\* A read that outlives the frame: fgoStrClone, fgoSliceClone, fgoPtrsClone copy
\* what lies in the arena and hand its elements off; anything else is kept.
Clone ==
    /\ view # NoView
    /\ LET b == view.buf
           objs == ToSet(mem.els[b]) \cap Obj
       IN  IF mem.buf[b] \in {"large", "leaked"}
           THEN /\ "large" \in Race
                /\ out' = out \cup {b}
                /\ UNCHANGED <<mem, glob>>
           ELSE /\ mem' = fgoRCHandoff(mem, objs)
                /\ glob' = glob \cup objs
                /\ UNCHANGED out
    /\ UNCHANGED frame

-----------------------------------------------------------------------------
\* A panic discards the frame: fgoRCReleaseFrame releases what its slots hold.
\* No slot holds a slice under way.
FrameEmpty == loc = [s \in Slot |-> Nil] /\ tok = Nil /\ dup = Nil /\ made = Nil
FrameBufsKept == {}
FrameBufs == {dup}
fgoRCReleaseFrame ==
    /\ ~FrameEmpty
    /\ made = Nil \/ "build" \in Race
    /\ LET m == fgoBufFree(fgoRCDec(mem, loc), FrameBufs) IN
       mem' = IF tok = Nil THEN m ELSE [m EXCEPT !.st[tok] = "none"]
    /\ loc' = [s \in Slot |-> Nil]
    /\ tok' = Nil /\ dup' = Nil /\ made' = Nil /\ view' = NoView
    /\ UNCHANGED <<glob, out>>

-----------------------------------------------------------------------------
(* The rest of the program.                                                 *)

\* Ordinary code sets the field of an object it was handed.
GcStore(o) ==
    /\ o \in glob /\ mem.gcs[o] # <<>>
    /\ "large" \in Race \/ ViewOf # "leaked"
    /\ mem' = [mem EXCEPT !.gcs[o] = <<>>]
    /\ UNCHANGED <<frame, glob, out>>

\* The buffers whose elements the GC scans: those it finds a pointer to.
Scanned == {b \in Buf : mem.buf[b] = "handed" /\ (b \in out \/ b = view.buf)}

\* What a GC cycle reaches: from GC memory, from handed-off objects that nogc code
\* counts (fgoMarkCounted) and from the buffers it finds a view of (fgoEscReach).
Traced(m, S) ==
    {x \in Obj : \A R \in SUBSET Obj :
        S \subseteq R /\ (\A o \in R : ToSet(m.gcs[o]) \cap Obj \subseteq R) => x \in R}
GcReach ==
    Traced(mem, glob \cup {o \in Obj : mem.st[o] = "handed" /\ mem.cnt[o] > 0}
                     \cup (Obj \cap UNION {ToSet(mem.els[b]) : b \in Scanned}))

\* The sweeper frees an object, or a buffer, that no cycle reaches.
SweepObj(o) ==
    /\ mem.st[o] = "handed" /\ o \notin GcReach
    /\ mem' = [mem EXCEPT !.st[o] = "none", !.typ[o] = "data", !.gcs[o] = <<>>]
    /\ UNCHANGED <<frame, glob, out>>
SweepBuf(b) ==
    /\ mem.buf[b] = "handed" /\ b \notin out /\ b # view.buf
    /\ mem' = fgoBufFree(mem, {b})
    /\ UNCHANGED <<frame, glob, out>>

Next ==
    \/ \E s \in Slot :
          \/ \E t \in {"ptrs", "data"} : fgoRCNewAt(s, t)
          \/ \E d \in Slot : CopyRef(s, d)
          \/ DropRef(s) \/ fgoRCDropReuse(s) \/ Escape(s)
          \/ \E o \in Obj : TakeTraced(s, o)
          \/ fgoStrSet(s) \/ fgoStrDup(s) \/ StrPutDup(s) \/ ReadField(s)
          \/ \E i \in 1 .. MaxLen : LoadElem(i, s) \/ \E d \in Slot : fgoPtrsTake(s, i, d)
    \/ \E q \in Built : fgoPtrsMake(q)
    \/ \E o \in Local : \E b \in {made, Nil} : fgoPtrsPut(o, b)
    \/ EndView \/ Clone \/ fgoRCReleaseFrame \/ Forget
    \/ \E o \in Obj : GcStore(o) \/ SweepObj(o)
    \/ \E b \in Buf : SweepBuf(b)

Spec == Init /\ [][Next]_vars
-----------------------------------------------------------------------------
TypeOK ==
    /\ mem \in Mem
    /\ loc \in [Slot -> Obj \cup {Nil}]
    /\ tok \in Obj \cup {Nil} /\ {dup, made} \subseteq Buf \cup {Nil}
    /\ view \in [slot : Slot, buf : Buf] \cup {NoView}
    /\ glob \subseteq Obj /\ out \subseteq Buf

(* The counts are the references there are, in stack slots, in the slice    *)
(* under way and in the fields of counted objects, and every buffer has one *)
(* owner (the comment on fgoBufHeader): stores copy, hand-offs and releases *)
(* give up both.                                                            *)
RefsExact ==
    /\ \A x \in Obj : mem.st[x] \in {"counted", "handed"} =>
          mem.cnt[x] = Occ(loc, x) + Occ(Made, x) + Held(mem, Counted(mem), x)
    /\ \A b \in Buf :
          Cardinality({o \in Counted(mem) : mem.fld[o] = b}) + Occ(<<dup>>, b) + Occ(<<made>>, b)
            = IF b \in Owned(mem) THEN 1 ELSE 0

(* Nothing that can be read is freed: no object that a stack slot, a field, *)
(* a slice under way, a view's buffer or GC memory refers to, no buffer in  *)
(* a view or in GC memory, also when the object was handed off in between   *)
(* (fgoHandBuf).                                                            *)
(* What GC memory refers to has been handed off, and a counted object holds *)
(* no pointer to the GC heap, which does not scan it (fgoPtrsTaint).        *)
In(q, states) == \A x \in ToSet(q) \cap Obj : mem.st[x] \in states
NoDangling ==
    /\ \A s \in Slot : In(<<loc[s]>>, {"counted", "handed"})
    /\ In(Made, {"counted", "handed"})
    /\ \A o \in Counted(mem) :
          In(Elems(mem, o), {"counted", "handed"}) /\ Heap \notin ToSet(Elems(mem, o))
    /\ \A o \in GcReach : mem.st[o] = "handed" => In(mem.gcs[o], {"handed"})
    /\ view # NoView => ViewOf # "free" /\ In(mem.els[view.buf], {"counted", "handed"})
    /\ \A o \in glob : mem.st[o] = "handed"
    /\ \A b \in out : mem.buf[b] # "free" /\ In(mem.els[b], {"handed"})

(* A frame that has released or lost to a panic all it owned leaves nothing *)
(* behind: no counted object, no owned buffer and no reuse token.           *)
NothingLeft ==
    FrameEmpty => /\ Owned(mem) = {}
                  /\ \A o \in Obj : mem.st[o] \notin {"counted", "token"}
=============================================================================
