------------------------------ MODULE FgoShare ------------------------------
(***************************************************************************)
(* Fields tagged fgo:"nogc": counted references from objects of the GC     *)
(* heap, which any goroutine may reach.                                    *)
(*                                                                         *)
(* An object stored in a tagged field, and every counted object it reaches,*)
(* becomes shared (fgoShare): its count then changes atomically.  Nogc code*)
(* reads a tagged field and counts what it reads; other code reads it and  *)
(* hands what it reads to the GC (fgoTagLoad).  When the GC frees the      *)
(* object holding the field, its sweeper drops the reference (fgoTagDead)  *)
(* and queues an object nothing counts any more on fgoTag.pending, for the *)
(* next fgoTagDrain.                                                       *)
(*                                                                         *)
(* The program is free of data races: a goroutine stores into a tagged     *)
(* field alone, and any number of goroutines may read one together.        *)
(***************************************************************************)
EXTENDS Integers, Sequences, FiniteSets

CONSTANTS
    Obj,        \* nogc objects, by address; each has one pointer field
    G,          \* goroutines, each with one counted local
    Tag,        \* tagged fields of GC heap objects
    Heap,       \* objects other code allocates on the GC heap
    Nil,
    Race        \* the races of Races that a run admits

Races == {"handoffs", "mutate", "heapfirst", "heapnogc"}

ASSUME ConstAssumption ==
    /\ IsFiniteSet(Obj) /\ IsFiniteSet(G) /\ IsFiniteSet(Tag)
    /\ Nil \notin Obj \cup Heap \cup Tag /\ Obj \cap Heap = {}
    /\ Race \subseteq Races

VARIABLES
    st,         \* fgoArena.state
    rc,         \* the rc word without its flag, which st implies
    fld,        \* the pointer field
    loc,        \* the counted local of each goroutine's nogc code
    tag,        \* the tagged fields
    watched,    \* tagged fields with a special record (fgoTagWatch)
    dead,       \* tagged fields whose object the GC has freed
    pending,    \* fgoTag.pending, a stack linked through the rc words
    dec,        \* references a goroutine has yet to drop, in order
    call,       \* each goroutine's fgoTagLoad, if it is in one
    traced,     \* a traced local of each goroutine's other code
    upd,        \* an object a goroutine is about to exchange into its local's field
    store,      \* each goroutine's store into a tagged field, if it is in one
    chunk,      \* fgoArena.chunks: the shared and handed-off objects counted
    recs        \* fgoEsc's records of each object

vars == <<st, rc, fld, loc, tag, watched, dead, pending, dec, call, traced, upd, store, chunk, recs>>

Ref == Obj \cup {Nil}
InSeq(x, s) == \E i \in 1..Len(s) : s[i] = x
NoCall == [pc |-> "run", tag |-> Nil, work |-> <<>>, cur |-> Nil]

NoStore == [tag |-> Nil, nogc |-> FALSE]

Quiet(g) == call[g].pc = "run" /\ dec[g] = <<>> /\ upd[g] = Nil /\ store[g] = NoStore
Reading(t) == {g \in G : call[g].pc # "run" /\ call[g].tag = t}
Writing(t) == {g \in G : store[g].tag = t}

(* The program's own locking: one goroutine at a time stores into t, with   *)
(* no reader in it.                                                         *)
MayRead(t)  == t \notin dead /\ Writing(t) = {}
MayWrite(t) == MayRead(t) /\ Reading(t) = {}

-----------------------------------------------------------------------------
(* fgoShare(p): p's object and what it reaches turns from counted to shared.*)
ToShare(p) ==
    {x \in Obj : /\ st[x] = "counted"
                 /\ \A S \in SUBSET Obj :
                      (p \in S /\ \A y \in S : /\ st[y] = "counted"
                                               /\ fld[y] # Nil
                                               => fld[y] \in S) => x \in S}

fgoShareShallow(p) == {p} \cap {x \in Obj : st[x] = "counted"}
fgoShare(p) == IF p # Nil THEN ToShare(p) ELSE {}

(* The least set of objects that goes when o, whose last reference was just *)
(* dropped, is released (fgoRCRelease): counted and shared objects that     *)
(* only a released one counts.                                              *)
Live(x) == st[x] \in {"counted", "shared"}

Released(o) ==
    {x \in Obj : \A S \in SUBSET Obj :
        (o \in S /\ \A y \in S : LET c == fld[y]
                                 IN  c # Nil /\ Live(c) /\ rc[c] = 1 => c \in S)
        => x \in S}

LostBy(x, D) == Cardinality({y \in D : fld[y] = x})

(* fgoRCDec(o), after which D is free: fgoRCRelease also takes a shared      *)
(* object's mark back.                                                      *)
Release(D, o) ==
    /\ st' = [x \in Obj |-> IF x \in D THEN "none" ELSE st[x]]
    /\ rc' = [x \in Obj |-> IF x \in D THEN 0
                            ELSE rc[x] - LostBy(x, D) - (IF x = o THEN 1 ELSE 0)]
    /\ fld' = [x \in Obj |-> IF x \in D THEN Nil ELSE fld[x]]
    /\ chunk' = chunk - Cardinality({x \in D : st[x] = "shared"})

fgoRCDecLeak(o) == Release({}, o)
fgoRCDec(o) == Release(IF Live(o) /\ rc[o] = 1 THEN Released(o) ELSE {}, o)

(* The references a goroutine drops one at a time.                          *)
DropNext(g) ==
    /\ dec[g] # <<>>
    /\ fgoRCDec(Head(dec[g]))
    /\ dec' = [dec EXCEPT ![g] = Tail(@)]
    /\ UNCHANGED <<loc, tag, watched, dead, pending, call, recs, traced, upd, store>>

LaterNil(r) == <<r>>
Later(r) == IF r \in Obj THEN <<r>> ELSE <<>>

-----------------------------------------------------------------------------
(* Nogc code.                                                               *)

(* &T{f: v}: a new counted object takes over the local's reference.         *)
Construct(g, o) ==
    /\ Quiet(g) /\ st[o] = "none"
    /\ st' = [st EXCEPT ![o] = "counted"]
    /\ rc' = [rc EXCEPT ![o] = 1]
    /\ fld' = [fld EXCEPT ![o] = loc[g]]
    /\ loc' = [loc EXCEPT ![g] = o]
    /\ UNCHANGED <<tag, watched, dead, pending, dec, call, chunk, recs, traced, upd, store>>

(* A local goes out of scope.                                               *)
DropLocal(g) ==
    /\ Quiet(g) /\ loc[g] # Nil
    /\ dec' = [dec EXCEPT ![g] = <<loc[g]>>]
    /\ loc' = [loc EXCEPT ![g] = Nil]
    /\ UNCHANGED <<st, rc, fld, tag, watched, dead, pending, call, chunk, recs, traced, upd, store>>

(* p = p.f: fgoRCDecKeep takes the field of a counted object nothing else   *)
(* counts, and otherwise counts the field before it drops p.                *)
fgoRCDecKeep(g) ==
    LET p == loc[g]  c == fld[p]
    IN  /\ Quiet(g) /\ p # Nil /\ c # Nil
        /\ loc' = [loc EXCEPT ![g] = c]
        /\ IF st[p] = "counted" /\ rc[p] = 1
             THEN /\ st' = [st EXCEPT ![p] = "none"]
                  /\ rc' = [rc EXCEPT ![p] = 0]
                  /\ fld' = [fld EXCEPT ![p] = Nil]
                  /\ UNCHANGED dec
             ELSE /\ rc' = [rc EXCEPT ![c] = @ + 1]
                  /\ dec' = [dec EXCEPT ![g] = <<p>>]
                  /\ UNCHANGED <<st, fld>>
        /\ UNCHANGED <<tag, watched, dead, pending, call, chunk, recs, traced, upd, store>>

(* p.f = &T{}, by fgoRCStore.  A counted object takes the new one as a      *)
(* reference; a shared one takes it shared, by an exchange once the state   *)
(* was looked at; a handed-off one takes it as a traced value, handed off.  *)
fgoRCStore(g, o) ==
    LET p == loc[g]
    IN  /\ Quiet(g) /\ p # Nil /\ st[o] = "none"
        /\ "mutate" \in Race \/ \A h \in G : call[h].pc = "run"
        /\ st' = [st EXCEPT ![o] = st[p]]
        /\ rc' = [rc EXCEPT ![o] = IF st[p] = "handed" THEN 0 ELSE 1]
        /\ recs' = [recs EXCEPT ![o] = IF st[p] = "handed" THEN 1 ELSE 0]
        /\ chunk' = IF st[p] = "counted" THEN chunk ELSE chunk + 1
        /\ upd' = IF st[p] = "shared" THEN [upd EXCEPT ![g] = o] ELSE upd
        /\ fld' = IF st[p] = "shared" THEN fld ELSE [fld EXCEPT ![p] = o]
        /\ dec' = IF st[p] = "counted" THEN [dec EXCEPT ![g] = Later(fld[p])] ELSE dec
        /\ UNCHANGED <<loc, tag, watched, dead, pending, call, traced, store>>

Exchange(g) ==
    LET p == loc[g]
    IN  /\ upd[g] # Nil
        /\ fld' = [fld EXCEPT ![p] = upd[g]]
        /\ upd' = [upd EXCEPT ![g] = Nil]
        /\ dec' = [dec EXCEPT ![g] = Later(fld[p])]
        /\ UNCHANGED <<st, rc, loc, tag, watched, dead, pending, call, traced, store, chunk, recs>>

(* Nogc code reads a tagged field and counts what it reads.                 *)
NogcRead(g, t) ==
    /\ Quiet(g) /\ MayRead(t) /\ loc[g] = Nil /\ tag[t] \in Obj
    /\ rc' = [rc EXCEPT ![tag[t]] = @ + 1]
    /\ loc' = [loc EXCEPT ![g] = tag[t]]
    /\ UNCHANGED <<st, fld, tag, watched, dead, pending, dec, call, chunk, recs, traced, upd, store>>

(* A store into a tagged field: fgoRCStoreTag from nogc code, fgoTagStore   *)
(* from other code.  First fgoTagDrain releases the objects on              *)
(* fgoTag.pending, whose last reference the sweeper dropped and whose count *)
(* word is a link: here they get that reference back, to be dropped again.  *)
fgoTagDrain(g, t, nogc) ==
    /\ Quiet(g) /\ MayWrite(t)
    /\ store' = [store EXCEPT ![g] = [tag |-> t, nogc |-> nogc]]
    /\ pending' = <<>>
    /\ rc' = [x \in Obj |-> IF InSeq(x, pending) THEN 1 ELSE rc[x]]
    /\ dec' = [dec EXCEPT ![g] = pending]
    /\ UNCHANGED <<st, fld, loc, tag, watched, dead, call, traced, upd, chunk, recs>>

(* fgoTagPut: the field takes the reference, and what it held is dropped.   *)
(* fgoTagWatch gives a field that was nil a special record, if it has none, *)
(* by which the GC will find it.                                            *)
fgoTagPut(g, t, v) ==
    /\ tag' = [tag EXCEPT ![t] = v]
    /\ watched' = IF tag[t] = Nil /\ v # Nil THEN watched \cup {t} ELSE watched
    /\ dec' = [dec EXCEPT ![g] = Later(tag[t])]
    /\ store' = [store EXCEPT ![g] = NoStore]

(* Nogc code's reference passes to the field, and its object is shared.     *)
fgoRCStoreTag(g) ==
    LET new == fgoShare(loc[g])
    IN  /\ store[g] # NoStore /\ store[g].nogc /\ dec[g] = <<>>
        /\ st' = [x \in Obj |-> IF x \in new THEN "shared" ELSE st[x]]
        /\ chunk' = chunk + Cardinality(new)
        /\ loc' = [loc EXCEPT ![g] = Nil]
        /\ fgoTagPut(g, store[g].tag, loc[g])
        /\ UNCHANGED <<rc, fld, dead, pending, call, traced, upd, recs>>

(* Nogc code stores a pointer to the GC heap it was passed: the field just  *)
(* takes it.                                                                *)
StoreTagHeap(g) ==
    LET t == store[g].tag
    IN  /\ store[g] # NoStore /\ store[g].nogc /\ dec[g] = <<>>
        /\ traced[g] \in Heap
        /\ "heapfirst" \in Race \/ t \in watched
        /\ "heapnogc" \in Race \/ tag[t] \notin Obj
        /\ tag' = [tag EXCEPT ![t] = traced[g]]
        /\ store' = [store EXCEPT ![g] = NoStore]
        /\ UNCHANGED <<st, rc, fld, loc, watched, dead, pending, dec, call, traced, upd, chunk, recs>>

(* Other code's pointer is not counted, so fgoTagHold counts it first.  It  *)
(* is to a handed-off object, or to the GC heap, which has no count.        *)
fgoTagHoldNot(v) == UNCHANGED rc
fgoTagHold(v) == rc' = [x \in Obj |-> IF x = v THEN rc[x] + 1 ELSE rc[x]]

fgoTagStore(g) ==
    /\ store[g] # NoStore /\ ~store[g].nogc /\ dec[g] = <<>>
    /\ fgoTagHold(traced[g])
    /\ fgoTagPut(g, store[g].tag, traced[g])
    /\ UNCHANGED <<st, fld, loc, dead, pending, call, traced, upd, chunk, recs>>

-----------------------------------------------------------------------------
(* Code that is not nogc reads a tagged field: fgoTagLoad hands what it     *)
(* reads to the GC.  fgoRCHandoff looks at the state before it takes        *)
(* fgoEsc.lock, and not again under it.                                     *)
fgoTagLoad(g, t) ==
    /\ Quiet(g) /\ MayRead(t) /\ tag[t] # Nil
    /\ "handoffs" \in Race \/ \A h \in G : call[h].pc = "run"
    /\ "mutate" \in Race \/ \A h \in G : upd[h] = Nil
    /\ IF tag[t] \in Obj /\ Live(tag[t])
         THEN /\ call' = [call EXCEPT ![g] = [pc |-> "one", tag |-> t, work |-> <<>>,
                                              cur |-> tag[t]]]
              /\ UNCHANGED traced
         ELSE /\ traced' = [traced EXCEPT ![g] = tag[t]]
              /\ UNCHANGED call
    /\ UNCHANGED <<st, rc, fld, loc, tag, watched, dead, pending, dec, upd, store, chunk, recs>>

(* fgoHandOne: a shared object keeps its mark in the chunk's count, any     *)
(* other adds one.                                                          *)
fgoHandOneRecount(o) ==
    /\ st' = [st EXCEPT ![o] = "handed"]
    /\ chunk' = chunk + 1
    /\ recs' = [recs EXCEPT ![o] = @ + 1]
fgoHandOne(o) ==
    /\ st' = [st EXCEPT ![o] = "handed"]
    /\ chunk' = IF st[o] = "shared" THEN chunk ELSE chunk + 1
    /\ recs' = [recs EXCEPT ![o] = @ + 1]

HandOne(g) ==
    /\ call[g].pc = "one"
    /\ fgoHandOne(call[g].cur)
    /\ call' = [call EXCEPT ![g].pc = "work", ![g].work = <<call[g].cur>>, ![g].cur = Nil]
    /\ UNCHANGED <<rc, fld, loc, tag, watched, dead, pending, dec, traced, upd, store>>

(* The field of the next object of the worklist: loaded and, unless already *)
(* handed off, handed off too.                                              *)
HandField(g) ==
    LET k == call[g]  x == k.work[Len(k.work)]  c == fld[x]
    IN  /\ k.pc = "work" /\ k.work # <<>>
        /\ call' = [call EXCEPT
             ![g].work = SubSeq(k.work, 1, Len(k.work) - 1),
             ![g].cur = c,
             ![g].pc = IF c = Nil THEN "work" ELSE IF Live(c) THEN "child" ELSE "dec"]
        /\ UNCHANGED <<st, rc, fld, loc, tag, watched, dead, pending, dec, chunk, recs, traced, upd, store>>

HandChild(g) ==
    /\ call[g].pc = "child"
    /\ fgoHandOne(call[g].cur)
    /\ call' = [call EXCEPT ![g].pc = "dec", ![g].work = Append(@, call[g].cur)]
    /\ UNCHANGED <<rc, fld, loc, tag, watched, dead, pending, dec, traced, upd, store>>

(* fgoRCDec(c): x no longer counts it.                                      *)
HandDec(g) ==
    /\ call[g].pc = "dec"
    /\ fgoRCDec(call[g].cur)
    /\ call' = [call EXCEPT ![g].pc = "work", ![g].cur = Nil]
    /\ UNCHANGED <<loc, tag, watched, dead, pending, dec, recs, traced, upd, store>>

HandDone(g) ==
    /\ call[g].pc = "work" /\ call[g].work = <<>>
    /\ traced' = [traced EXCEPT ![g] = tag[call[g].tag]]
    /\ call' = [call EXCEPT ![g] = NoCall]
    /\ UNCHANGED <<st, rc, fld, loc, tag, watched, dead, pending, dec, upd, store, chunk, recs>>

(* Other code allocates on the GC heap.                                     *)
NewHeap(g, h) ==
    /\ Quiet(g) /\ traced[g] = Nil
    /\ traced' = [traced EXCEPT ![g] = h]
    /\ UNCHANGED <<st, rc, fld, loc, tag, watched, dead, pending, dec, call, upd, store, chunk, recs>>

ForgetTraced(g) ==
    /\ Quiet(g) /\ traced[g] # Nil
    /\ traced' = [traced EXCEPT ![g] = Nil]
    /\ UNCHANGED <<st, rc, fld, loc, tag, watched, dead, pending, dec, call, upd, store, chunk, recs>>

-----------------------------------------------------------------------------
(* The GC frees the object that holds tagged field t: nothing can read or   *)
(* write it any more.  freeSpecial calls fgoTagDead for each of its special *)
(* records; it runs in the sweeper, so an object nothing counts any more is *)
(* only queued.                                                             *)
fgoTagDead(t) ==
    LET v == tag[t]
    IN  /\ MayWrite(t)
        /\ dead' = dead \cup {t}
        /\ tag' = [tag EXCEPT ![t] = Nil]
        /\ watched' = watched \ {t}
        /\ IF v \notin Obj \/ t \notin watched THEN UNCHANGED <<rc, pending>>
           ELSE /\ rc' = [rc EXCEPT ![v] = @ - 1]
                /\ pending' = IF st[v] = "shared" /\ rc[v] = 1
                                THEN <<v>> \o pending ELSE pending
        /\ UNCHANGED <<st, fld, loc, dec, call, chunk, recs, traced, upd, store>>

(* fgoEscSweeper, as FgoEsc models it: it frees a handed-off object that    *)
(* nothing counts and no pointer of the program reaches.                    *)
fgoEscFree(o) ==
    /\ st[o] = "handed" /\ rc[o] = 0
    /\ \A g \in G : traced[g] # o /\ call[g].cur # o /\ ~InSeq(o, call[g].work)
    /\ \A x \in Obj : fld[x] # o
    /\ st' = [st EXCEPT ![o] = "none"]
    /\ fld' = [fld EXCEPT ![o] = Nil]
    /\ chunk' = chunk - 1
    /\ recs' = [recs EXCEPT ![o] = @ - 1]
    /\ UNCHANGED <<rc, loc, tag, watched, dead, pending, dec, call, traced, upd, store>>

(* A new object of the GC heap, with its field still nil.                   *)
NewTagged(t) ==
    /\ t \in dead
    /\ dead' = dead \ {t}
    /\ UNCHANGED <<st, rc, fld, loc, tag, watched, pending, dec, call, chunk, recs, traced, upd, store>>

-----------------------------------------------------------------------------
Init ==
    /\ st = [o \in Obj |-> "none"]
    /\ rc = [o \in Obj |-> 0]
    /\ fld = [o \in Obj |-> Nil]
    /\ loc = [g \in G |-> Nil]
    /\ tag = [t \in Tag |-> Nil]
    /\ watched = {} /\ dead = {} /\ pending = <<>>
    /\ dec = [g \in G |-> <<>>]
    /\ call = [g \in G |-> NoCall]
    /\ traced = [g \in G |-> Nil]
    /\ upd = [g \in G |-> Nil]
    /\ store = [g \in G |-> NoStore]
    /\ chunk = 0
    /\ recs = [o \in Obj |-> 0]

Next ==
    \/ \E g \in G :
         \/ DropNext(g) \/ Exchange(g) \/ DropLocal(g) \/ fgoRCDecKeep(g)
         \/ fgoRCStoreTag(g) \/ StoreTagHeap(g) \/ fgoTagStore(g) \/ ForgetTraced(g)
         \/ HandOne(g) \/ HandField(g) \/ HandChild(g) \/ HandDec(g) \/ HandDone(g)
         \/ \E o \in Obj : Construct(g, o) \/ fgoRCStore(g, o)
         \/ \E h \in Heap : NewHeap(g, h)
         \/ \E t \in Tag : NogcRead(g, t) \/ fgoTagLoad(g, t)
         \/ \E t \in Tag, nogc \in BOOLEAN : fgoTagDrain(g, t, nogc)
    \/ \E t \in Tag : fgoTagDead(t) \/ NewTagged(t)
    \/ \E o \in Obj : fgoEscFree(o)

Spec == Init /\ [][Next]_vars

-----------------------------------------------------------------------------
(* Properties.                                                              *)

(* The model's variables have the types the code gives them.                *)
TypeOK ==
    /\ st \in [Obj -> {"none", "counted", "shared", "handed"}]
    /\ rc \in [Obj -> Int]
    /\ fld \in [Obj -> Ref] /\ loc \in [G -> Ref] /\ tag \in [Tag -> Ref \cup Heap]
    /\ watched \subseteq Tag /\ dead \subseteq Tag
    /\ pending \in Seq(Obj) /\ dec \in [G -> Seq(Obj)]
    /\ call \in [G -> [pc : {"run", "one", "work", "child", "dec"},
                       tag : Tag \cup {Nil}, work : Seq(Obj), cur : Ref]]
    /\ traced \in [G -> Ref \cup Heap] /\ upd \in [G -> Ref]
    /\ store \in [G -> [tag : Tag \cup {Nil}, nogc : BOOLEAN]]
    /\ chunk \in Int /\ recs \in [Obj -> Int]

(* A field counts what it points to while its object is counted or shared,  *)
(* and until the hand-off under way reaches it.                             *)
FieldCounts(x) ==
    Live(x) \/ \E g \in G : InSeq(x, call[g].work)

Holders(o) ==
      {<<"local", g>> : g \in {h \in G : loc[h] = o}}
    \cup {<<"tag", t>> : t \in {u \in Tag : tag[u] = o}}
    \cup {<<"field", x>> : x \in {y \in Obj : fld[y] = o /\ FieldCounts(y)}}
    \cup {<<"exchange", g>> : g \in {h \in G : upd[h] = o}}
    \cup {<<"drop", g>> : g \in {h \in G : InSeq(o, dec[h])}}
    \cup {<<"hand", g>> : g \in {h \in G : call[h].pc \in {"child", "dec"} /\ call[h].cur = o}}

(* However goroutines and the GC's sweeper interleave, an object's count is *)
(* the number of references that count it: it is released neither early nor *)
(* never.                                                                   *)
CountsExact ==
    \A o \in Obj : st[o] # "none" /\ ~InSeq(o, pending) => rc[o] = Cardinality(Holders(o))

(* "A shared object is still freed when its last reference dies", and no    *)
(* sooner: an object has at least as many references as there are locals of *)
(* nogc code that point to it.                                              *)
LocalsCounted ==
    \A o \in Obj : st[o] # "none" /\ ~InSeq(o, pending) =>
        rc[o] >= Cardinality({g \in G : loc[g] = o})

(* A counted or shared object goes with its last reference: it is gone, or  *)
(* waits on fgoTag.pending, once nothing refers to it.                      *)
FreedAtLast ==
    \A o \in Obj : Live(o) /\ Holders(o) = {} => InSeq(o, pending)

(* An object reachable from a tagged field is never a plain counted one,    *)
(* whose count two goroutines would change without atomics.                 *)
SharedClosed ==
    /\ \A t \in Tag : tag[t] \in Obj => st[tag[t]] # "counted"
    /\ \A o \in Obj : st[o] \in {"shared", "handed"} /\ fld[o] # Nil =>
                        st[fld[o]] # "counted" \/ \E g \in G : InSeq(o, call[g].work)

(* The chunk's count is the number of shared and handed-off objects in it,  *)
(* and each handed-off object has exactly one record: fgoState and the      *)
(* sweeper rely on both.                                                    *)
MarksExact ==
    /\ chunk = Cardinality({o \in Obj : st[o] \in {"shared", "handed"}})
    /\ \A o \in Obj : recs[o] = IF st[o] = "handed" THEN 1 ELSE 0
=============================================================================
