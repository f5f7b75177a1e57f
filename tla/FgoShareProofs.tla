---------------------------- MODULE FgoShareProofs ----------------------------
(* Theorems about tagged fields and shared objects (FgoShare).               *)
EXTENDS FgoShare, Lemmas

(***************************************************************************)
(* The inductive invariant, in named parts.                                 *)
(***************************************************************************)

\* The theorems below, but for the type invariant, are about the steps without a race.
NoRace == Race = {}

\* The references that count o, by kind.
Locals(o) == {g \in G : loc[g] = o}
Tagged(o) == {t \in Tag : tag[t] = o}
Fields(o) == {y \in Obj : fld[y] = o /\ FieldCounts(y)}
Exchanges(o) == {g \in G : upd[g] = o}
Drops(o) == {g \in G : InSeq(o, dec[g])}
Hands(o) == {g \in G : call[g].pc \in {"child", "dec"} /\ call[g].cur = o}
Counted(o) == Cardinality(Locals(o)) + Cardinality(Tagged(o)) + Cardinality(Fields(o))
              + Cardinality(Exchanges(o)) + Cardinality(Drops(o)) + Cardinality(Hands(o))

\* Nothing counts an object that is free or waits on fgoTag.pending.
Gone(o) == st[o] = "none" \/ InSeq(o, pending)
CountSum == \A o \in Obj : Counted(o) = IF Gone(o) THEN 0 ELSE rc[o]
\* Any other counted or shared object has a reference.
LiveCounted == \A o \in Obj : Live(o) /\ ~Gone(o) => rc[o] > 0

\* What waits to be dropped waits once, and what is on fgoTag.pending is shared.
Distinct(s) == \A i, j \in 1 .. Len(s) : s[i] = s[j] => i = j
QueuesExact ==
    /\ \A g \in G : Distinct(dec[g])
    /\ Distinct(pending)
    /\ \A i \in 1 .. Len(pending) : st[pending[i]] = "shared"

\* What a tagged field, or an object that is shared or handed off, refers to is
\* shared or handed off; other code's pointers are to handed-off objects.
Known(o) == st[o] \in {"shared", "handed"}
RefsGood ==
    /\ \A t \in Tag : /\ tag[t] # Nil => t \in watched
                      /\ tag[t] \in Obj => Known(tag[t])
    /\ \A x \in Obj : fld[x] # Nil =>
          /\ st[x] # "none"
          /\ Known(x) => Known(fld[x])
          /\ ~FieldCounts(x) => \/ st[fld[x]] = "handed"
                                \/ \E g \in G : call[g].pc = "child" /\ call[g].cur = fld[x]
    /\ \A g \in G : traced[g] \in Obj => st[traced[g]] = "handed"

\* A call of fgoTagLoad, which is alone, and while nothing is stored in a shared object.
CallExact(g) ==
    LET k == call[g] IN
    /\ k.pc = "run" => k = NoCall
    /\ k.pc # "run" =>
         /\ k.tag \in Tag /\ tag[k.tag] \in Obj
         /\ k.pc # "one" => st[tag[k.tag]] = "handed"
         /\ dec[g] = <<>> /\ store[g] = NoStore
         /\ \A h \in G : upd[h] = Nil /\ store[h].tag # k.tag /\ (h # g => call[h].pc = "run")
    /\ Len(k.work) <= 1 /\ \A i \in 1 .. Len(k.work) : st[k.work[i]] = "handed"
    /\ k.pc = "one" => k.work = <<>> /\ k.cur = tag[k.tag] /\ st[k.cur] = "shared"
    /\ k.pc = "child" => k.work = <<>> /\ k.cur \in Obj /\ st[k.cur] = "shared"
    /\ k.pc = "dec" => k.cur \in Obj /\ st[k.cur] = "handed"
    /\ k.pc = "work" => k.cur = Nil

\* A store into a tagged field, and one into a shared object.
StoreExact(g) ==
    /\ store[g] # NoStore =>
         store[g].tag \in Tag /\ call[g].pc = "run" /\ upd[g] = Nil
    /\ upd[g] # Nil =>
         /\ loc[g] \in Obj /\ st[loc[g]] = "shared" /\ st[upd[g]] = "shared"
         /\ dec[g] = <<>> /\ store[g] = NoStore /\ call[g].pc = "run"
ActsExact == \A g \in G : CallExact(g) /\ StoreExact(g)

ShareInv ==
    CountSum /\ LiveCounted /\ QueuesExact /\ RefsGood /\ ActsExact /\ MarksExact
-----------------------------------------------------------------------------
(* Type correctness.                                                        *)

\* A call has its tagged field, and the object that it is about.
CallTypes ==
    \A g \in G : /\ call[g].pc # "run" => call[g].tag \in Tag
                 /\ call[g].pc \in {"one", "child", "dec"} => call[g].cur \in Obj
                 /\ store[g] # NoStore => store[g].tag \in Tag
TypeInv == TypeOK /\ CallTypes

(* What fgoRCDec leaves of states, counts and fields has their types. *)
LEMMA ReleaseType ==
    ASSUME TypeOK, NEW D \in SUBSET Obj, NEW o, Release(D, o)
    PROVE  /\ st' \in [Obj -> {"none", "counted", "shared", "handed"}]
           /\ rc' \in [Obj -> Int] /\ fld' \in [Obj -> Ref] /\ chunk' \in Int
  <1>1. \A S \in SUBSET Obj : Cardinality(S) \in Nat
    BY ConstAssumption, FS_Subset, FS_CardinalityType
  <1>2. \A x : {y \in D : fld[y] = x} \in SUBSET Obj
    OBVIOUS
  <1>3. \A x : LostBy(x, D) \in Nat
    BY <1>1, <1>2 DEF LostBy
  <1>4. Cardinality({x \in D : st[x] = "shared"}) \in Nat
    <2>1. {x \in D : st[x] = "shared"} \in SUBSET Obj
      OBVIOUS
    <2> QED
      BY <1>1, <2>1
  <1>5. rc' \in [Obj -> Int]
    BY <1>3 DEF Release, TypeOK
  <1> QED
    BY <1>4, <1>5 DEF Release, TypeOK, Ref

(* fgoRCDec keeps the types. *)
LEMMA DecType ==
    ASSUME TypeOK, NEW o, fgoRCDec(o)
    PROVE  /\ st' \in [Obj -> {"none", "counted", "shared", "handed"}]
           /\ rc' \in [Obj -> Int] /\ fld' \in [Obj -> Ref] /\ chunk' \in Int
  <1> DEFINE D == IF Live(o) /\ rc[o] = 1 THEN Released(o) ELSE {}
  <1>1. D \in SUBSET Obj
    BY DEF Released
  <1>2. Release(D, o)
    BY DEF fgoRCDec
  <1> HIDE DEF D
  <1> QED
    BY <1>1, <1>2, ReleaseType

(* What a store into a tagged field leaves of the field. *)
LEMMA PutType ==
    ASSUME TypeInv, NEW g \in G, store[g] # NoStore, NEW v \in Ref \cup Heap, fgoTagPut(g, store[g].tag, v)
    PROVE  /\ tag' \in [Tag -> Ref \cup Heap] /\ watched' \subseteq Tag /\ dec' \in [G -> Seq(Obj)]
           /\ store' \in [G -> [tag : Tag \cup {Nil}, nogc : BOOLEAN]]
           /\ \A h \in G : store'[h] # NoStore => store'[h].tag \in Tag
  <1>1. store[g].tag \in Tag
    BY DEF TypeInv, CallTypes
  <1>2. Later(tag[store[g].tag]) \in Seq(Obj)
    BY DEF Later
  <1>3. dec' \in [G -> Seq(Obj)]
    BY <1>2 DEF fgoTagPut, TypeInv, TypeOK
  <1>4. tag' \in [Tag -> Ref \cup Heap] /\ watched' \subseteq Tag
    BY <1>1 DEF fgoTagPut, TypeInv, TypeOK
  <1>5. NoStore \in [tag : Tag \cup {Nil}, nogc : BOOLEAN]
    BY DEF NoStore
  <1>6. store' \in [G -> [tag : Tag \cup {Nil}, nogc : BOOLEAN]]
    BY <1>5 DEF fgoTagPut, TypeInv, TypeOK
  <1>7. \A h \in G : store'[h] # NoStore => store'[h].tag \in Tag
    BY DEF fgoTagPut, TypeInv, TypeOK, CallTypes
  <1> QED
    BY <1>3, <1>4, <1>6, <1>7

(* Nogc code keeps the types. *)
LEMMA NogcType ==
    ASSUME TypeInv, NEW g \in G,
           \/ DropNext(g) \/ Exchange(g) \/ DropLocal(g) \/ fgoRCDecKeep(g)
           \/ \E o \in Obj : Construct(g, o) \/ fgoRCStore(g, o)
           \/ \E t \in Tag : NogcRead(g, t)
    PROVE  TypeInv'
  <1> USE DEF TypeInv, TypeOK, Ref, Quiet
  <1> USE ConstAssumption
  <1>1. CASE DropNext(g)
    <2>1. Head(dec[g]) \in Obj /\ Tail(dec[g]) \in Seq(Obj)
      BY <1>1 DEF DropNext
    <2>2. dec' \in [G -> Seq(Obj)]
      BY <1>1, <2>1 DEF DropNext
    <2>3. fgoRCDec(Head(dec[g])) /\ UNCHANGED <<loc, tag, watched, dead, pending, call, recs, traced, upd, store>>
      BY <1>1 DEF DropNext
    <2>4. /\ st' \in [Obj -> {"none", "counted", "shared", "handed"}]
          /\ rc' \in [Obj -> Int] /\ fld' \in [Obj -> Ref] /\ chunk' \in Int
      BY <2>3, DecType
    <2> QED
      BY <2>2, <2>3, <2>4 DEF CallTypes
  <1>2. CASE Exchange(g)
    <2>1. Later(fld[loc[g]]) \in Seq(Obj)
      BY DEF Later
    <2> QED
      BY <1>2, <2>1 DEF Exchange, CallTypes
  <1>3. CASE DropLocal(g)
    BY <1>3, SMTT(30) DEF DropLocal, CallTypes
  <1>4. CASE fgoRCDecKeep(g)
    <2>1. loc[g] \in Obj /\ fld[loc[g]] \in Obj
      BY <1>4 DEF fgoRCDecKeep
    <2>2. loc' \in [G -> Ref] /\ UNCHANGED <<tag, watched, dead, pending, call, chunk, recs, traced, upd, store>>
      BY <1>4, <2>1 DEF fgoRCDecKeep
    <2>3. /\ st' \in [Obj -> {"none", "counted", "shared", "handed"}] /\ rc' \in [Obj -> Int]
          /\ fld' \in [Obj -> Ref] /\ dec' \in [G -> Seq(Obj)]
      <3>1. CASE st[loc[g]] = "counted" /\ rc[loc[g]] = 1
        <4>1. /\ st' = [st EXCEPT ![loc[g]] = "none"] /\ rc' = [rc EXCEPT ![loc[g]] = 0]
              /\ fld' = [fld EXCEPT ![loc[g]] = Nil] /\ UNCHANGED dec
          BY <1>4, <3>1 DEF fgoRCDecKeep
        <4>2. Nil \in Ref
          OBVIOUS
        <4>3. rc' \in [Obj -> Int] /\ st' \in [Obj -> {"none", "counted", "shared", "handed"}]
          <5> HIDE DEF TypeInv, TypeOK
          <5>1. rc \in [Obj -> Int] /\ st \in [Obj -> {"none", "counted", "shared", "handed"}]
            BY DEF TypeInv, TypeOK
          <5>2. rc' \in [Obj -> Int]
            <6>1. rc' = [rc EXCEPT ![loc[g]] = 0]
              BY <4>1
            <6> QED
              BY <2>1, <5>1, <6>1
          <5> QED
            BY <4>1, <5>1, <5>2
        <4>4. fld' \in [Obj -> Ref] /\ dec' \in [G -> Seq(Obj)]
          BY <4>1
        <4> QED
          BY <4>3, <4>4
      <3>2. CASE ~(st[loc[g]] = "counted" /\ rc[loc[g]] = 1)
        <4>1. /\ rc' = [rc EXCEPT ![fld[loc[g]]] = rc[fld[loc[g]]] + 1]
              /\ dec' = [dec EXCEPT ![g] = <<loc[g]>>] /\ UNCHANGED <<st, fld>>
          BY <1>4, <3>2 DEF fgoRCDecKeep
        <4>2. <<loc[g]>> \in Seq(Obj) /\ rc[fld[loc[g]]] + 1 \in Int
          BY <2>1
        <4> QED
          BY <4>1, <4>2
      <3> QED
        BY <3>1, <3>2
    <2>4. CallTypes'
      BY <2>2 DEF CallTypes
    <2> QED
      BY <2>2, <2>3, <2>4
  <1>5. ASSUME NEW o \in Obj, Construct(g, o) PROVE TypeInv'
    BY <1>5 DEF Construct, CallTypes
  <1>6. ASSUME NEW o \in Obj, fgoRCStore(g, o) PROVE TypeInv'
    <2>1. loc[g] \in Obj /\ Later(fld[loc[g]]) \in Seq(Obj)
      BY <1>6 DEF fgoRCStore, Later
    <2>2. st' \in [Obj -> {"none", "counted", "shared", "handed"}] /\ rc' \in [Obj -> Int] /\ recs' \in [Obj -> Int]
      BY <1>6, <2>1, SMTT(30) DEF fgoRCStore
    <2>3. chunk' \in Int /\ upd' \in [G -> Ref] /\ fld' \in [Obj -> Ref] /\ dec' \in [G -> Seq(Obj)]
      BY <1>6, <2>1, SMTT(30) DEF fgoRCStore
    <2>4. UNCHANGED <<loc, tag, watched, dead, pending, call, traced, store>>
      BY <1>6 DEF fgoRCStore
    <2> QED
      BY <2>2, <2>3, <2>4 DEF CallTypes
  <1>7. ASSUME NEW t \in Tag, NogcRead(g, t) PROVE TypeInv'
    BY <1>7, SMTT(30) DEF NogcRead, CallTypes
  <1> QED
    BY <1>1, <1>2, <1>3, <1>4, <1>5, <1>6, <1>7

(* Stores into tagged fields keep the types. *)
LEMMA StoreType ==
    ASSUME TypeInv, NEW g \in G,
           \/ fgoRCStoreTag(g) \/ StoreTagHeap(g) \/ fgoTagStore(g)
           \/ \E t \in Tag, nogc \in BOOLEAN : fgoTagDrain(g, t, nogc)
    PROVE  TypeInv'
  <1> USE ConstAssumption
  <1>1. CASE fgoRCStoreTag(g)
    <2> DEFINE new == fgoShare(loc[g])
    <2>1. new \in SUBSET Obj
      BY DEF fgoShare, ToShare
    <2>2. Cardinality(new) \in Nat
      BY <2>1, FS_Subset, FS_CardinalityType
    <2>3. /\ st' = [x \in Obj |-> IF x \in new THEN "shared" ELSE st[x]]
          /\ chunk' = chunk + Cardinality(new)
          /\ loc' = [loc EXCEPT ![g] = Nil]
          /\ fgoTagPut(g, store[g].tag, loc[g])
          /\ store[g] # NoStore
          /\ UNCHANGED <<rc, fld, dead, pending, call, traced, upd, recs>>
      BY <1>1 DEF fgoRCStoreTag
    <2> HIDE DEF new
    <2>4. loc[g] \in Ref \cup Heap
      BY DEF TypeInv, TypeOK
    <2>5. /\ tag' \in [Tag -> Ref \cup Heap] /\ watched' \subseteq Tag /\ dec' \in [G -> Seq(Obj)]
          /\ store' \in [G -> [tag : Tag \cup {Nil}, nogc : BOOLEAN]]
          /\ \A h \in G : store'[h] # NoStore => store'[h].tag \in Tag
      BY <2>3, <2>4, PutType
    <2>6. st' \in [Obj -> {"none", "counted", "shared", "handed"}] /\ chunk' \in Int /\ loc' \in [G -> Ref]
      BY <2>2, <2>3 DEF TypeInv, TypeOK, Ref
    <2>7. CallTypes'
      BY <2>3, <2>5 DEF TypeInv, CallTypes
    <2>8. UNCHANGED <<rc, fld, dead, pending, call, traced, upd, recs>>
      BY <2>3
    <2> QED
      BY <2>5, <2>6, <2>7, <2>8 DEF TypeInv, TypeOK
  <1>2. CASE StoreTagHeap(g)
    <2>1. NoStore \in [tag : Tag \cup {Nil}, nogc : BOOLEAN]
      BY DEF NoStore
    <2>2. store' = [store EXCEPT ![g] = NoStore] /\ tag' = [tag EXCEPT ![store[g].tag] = traced[g]]
      BY <1>2 DEF StoreTagHeap
    <2>3. /\ store' \in [G -> [tag : Tag \cup {Nil}, nogc : BOOLEAN]]
          /\ \A h \in G : store'[h] # NoStore => store'[h] = store[h]
      BY <2>1, <2>2 DEF TypeInv, TypeOK
    <2>4. tag' \in [Tag -> Ref \cup Heap]
      BY <2>2 DEF TypeInv, TypeOK
    <2>5. UNCHANGED <<st, rc, fld, loc, watched, dead, pending, dec, call, traced, upd, chunk, recs>>
      BY <1>2 DEF StoreTagHeap
    <2> QED
      BY <2>3, <2>4, <2>5 DEF TypeInv, TypeOK, CallTypes
  <1>3. CASE fgoTagStore(g)
    <2>1. /\ rc' = [x \in Obj |-> IF x = traced[g] THEN rc[x] + 1 ELSE rc[x]]
          /\ fgoTagPut(g, store[g].tag, traced[g])
          /\ store[g] # NoStore
          /\ UNCHANGED <<st, fld, loc, dead, pending, call, traced, upd, chunk, recs>>
      BY <1>3 DEF fgoTagStore, fgoTagHold
    <2>2. traced[g] \in Ref \cup Heap
      BY DEF TypeInv, TypeOK
    <2>3. /\ tag' \in [Tag -> Ref \cup Heap] /\ watched' \subseteq Tag /\ dec' \in [G -> Seq(Obj)]
          /\ store' \in [G -> [tag : Tag \cup {Nil}, nogc : BOOLEAN]]
          /\ \A h \in G : store'[h] # NoStore => store'[h].tag \in Tag
      BY <2>1, <2>2, PutType
    <2> QED
      BY <2>1, <2>3 DEF TypeInv, TypeOK, CallTypes
  <1>4. ASSUME NEW t \in Tag, NEW nogc \in BOOLEAN, fgoTagDrain(g, t, nogc) PROVE TypeInv'
    <2>1. [tag |-> t, nogc |-> nogc] \in [tag : Tag \cup {Nil}, nogc : BOOLEAN]
      OBVIOUS
    <2>2. store' = [store EXCEPT ![g] = [tag |-> t, nogc |-> nogc]]
      BY <1>4 DEF fgoTagDrain
    <2>3. /\ store' \in [G -> [tag : Tag \cup {Nil}, nogc : BOOLEAN]]
          /\ \A h \in G : store'[h] = store[h] \/ store'[h].tag = t
      BY <2>1, <2>2 DEF TypeInv, TypeOK
    <2>4. rc' \in [Obj -> Int] /\ pending' = <<>> /\ dec' \in [G -> Seq(Obj)]
      BY <1>4 DEF fgoTagDrain, TypeInv, TypeOK
    <2>5. UNCHANGED <<st, fld, loc, tag, watched, dead, call, traced, upd, chunk, recs>>
      BY <1>4 DEF fgoTagDrain
    <2>6. CallTypes'
      BY <2>3, <2>5 DEF TypeInv, CallTypes
    <2>7. pending' \in Seq(Obj)
      BY <2>4
    <2> QED
      BY <2>3, <2>4, <2>5, <2>6, <2>7 DEF TypeInv, TypeOK
  <1> QED
    BY <1>1, <1>2, <1>3, <1>4

(* The hand-off, and the GC, keep the types. *)
LEMMA HandType ==
    ASSUME TypeInv, NEW g \in G,
           \/ HandOne(g) \/ HandField(g) \/ HandChild(g) \/ HandDec(g) \/ HandDone(g)
           \/ \E t \in Tag : fgoTagLoad(g, t)
           \/ ForgetTraced(g) \/ \E h \in Heap : NewHeap(g, h)
    PROVE  TypeInv'
  <1> DEFINE Call == [pc : {"run", "one", "work", "child", "dec"}, tag : Tag \cup {Nil}, work : Seq(Obj), cur : Ref]
             CallOK(k) == /\ k.pc # "run" => k.tag \in Tag
                          /\ k.pc \in {"one", "child", "dec"} => k.cur \in Obj
             Others == UNCHANGED <<loc, tag, watched, dead, pending, dec, upd, store>>
             Objects == /\ st' \in [Obj -> {"none", "counted", "shared", "handed"}]
                        /\ rc' \in [Obj -> Int] /\ fld' \in [Obj -> Ref]
                        /\ chunk' \in Int /\ recs' \in [Obj -> Int]
             Keeps == traced' \in [G -> Ref \cup Heap] /\ Objects /\ Others
  <1> USE ConstAssumption
  <1>1. call[g] \in Call /\ CallOK(call[g])
    BY DEF TypeInv, TypeOK, CallTypes
  <1>2. ASSUME NEW k \in Call, CallOK(k), call' = [call EXCEPT ![g] = k], Keeps PROVE TypeInv'
    <2>1. call' \in [G -> Call]
      BY <1>2 DEF TypeInv, TypeOK
    <2>2. \A h \in G : CallOK(call'[h])
      BY <1>2 DEF TypeInv, TypeOK, CallTypes
    <2>3. \A h \in G : store'[h] # NoStore => store'[h].tag \in Tag
      BY <1>2 DEF TypeInv, CallTypes
    <2> QED
      BY <1>2, <2>1, <2>2, <2>3 DEF TypeInv, TypeOK, CallTypes
  <1>3. ASSUME UNCHANGED call, Keeps PROVE TypeInv'
    BY <1>3 DEF TypeInv, TypeOK, CallTypes
  <1>4. ASSUME NEW o \in Obj, fgoHandOne(o), UNCHANGED <<rc, fld>> PROVE Objects
    BY <1>4 DEF fgoHandOne, TypeInv, TypeOK
  <1>5. CASE HandOne(g)
    <2> DEFINE k == [call[g] EXCEPT !.pc = "work", !.work = <<call[g].cur>>, !.cur = Nil]
    <2>1. call[g].pc = "one" /\ call[g].cur \in Obj
      BY <1>1, <1>5 DEF HandOne
    <2>2. k \in Call /\ CallOK(k)
      <3>1. <<call[g].cur>> \in Seq(Obj) /\ call[g].tag \in Tag /\ Nil \in Ref
        BY <1>1, <2>1 DEF Ref
      <3>2. \A w \in Seq(Obj) : [call[g] EXCEPT !.pc = "work", !.work = w, !.cur = Nil] \in Call
        BY <1>1, <3>1
      <3>3. \A w : LET r == [call[g] EXCEPT !.pc = "work", !.work = w, !.cur = Nil]
                   IN  r.pc = "work" /\ r.tag = call[g].tag
        BY <1>1
      <3> QED
        BY <3>1, <3>2, <3>3
    <2>3. call' = [call EXCEPT ![g] = k]
      BY <1>5 DEF HandOne, TypeInv, TypeOK
    <2>4. Keeps
      BY <1>4, <1>5, <2>1 DEF HandOne, TypeInv, TypeOK
    <2> HIDE DEF k
    <2> QED
      BY <1>2, <2>2, <2>3, <2>4
  <1>6. CASE HandField(g)
    <2> DEFINE w == call[g].work
               c == fld[w[Len(w)]]
               p == IF c = Nil THEN "work" ELSE IF Live(c) THEN "child" ELSE "dec"
               k == [call[g] EXCEPT !.work = SubSeq(w, 1, Len(w) - 1), !.cur = c, !.pc = p]
    <2>1. call[g].pc = "work" /\ w # <<>> /\ w \in Seq(Obj)
      BY <1>1, <1>6 DEF HandField
    <2>2. Len(w) \in Nat /\ Len(w) > 0 /\ w[Len(w)] \in Obj
      BY <2>1
    <2>3. c \in Ref /\ SubSeq(w, 1, Len(w) - 1) \in Seq(Obj)
      BY <2>1, <2>2 DEF TypeInv, TypeOK
    <2>4. k \in Call /\ CallOK(k)
      <3>1. p \in {"work", "child", "dec"} /\ (p \in {"child", "dec"} => c \in Obj)
        BY <2>3 DEF Ref
      <3>2. call[g].tag \in Tag
        BY <1>1, <2>1
      <3> HIDE DEF w, c, p
      <3> QED
        BY <1>1, <2>3, <3>1, <3>2 DEF Ref
    <2>5. call' = [call EXCEPT ![g] = k]
      BY <1>6 DEF HandField, TypeInv, TypeOK
    <2>6. Keeps
      BY <1>6 DEF HandField, TypeInv, TypeOK
    <2> HIDE DEF k
    <2> QED
      BY <1>2, <2>4, <2>5, <2>6
  <1>7. CASE HandChild(g)
    <2> DEFINE k == [call[g] EXCEPT !.pc = "dec", !.work = Append(call[g].work, call[g].cur)]
    <2>1. call[g].pc = "child" /\ call[g].cur \in Obj /\ call[g].work \in Seq(Obj)
      BY <1>1, <1>7 DEF HandChild
    <2>2. k \in Call /\ CallOK(k)
      <3>1. Append(call[g].work, call[g].cur) \in Seq(Obj) /\ call[g].tag \in Tag
        BY <1>1, <2>1
      <3>2. \A w \in Seq(Obj) : [call[g] EXCEPT !.pc = "dec", !.work = w] \in Call
        BY <1>1
      <3>3. \A w : LET r == [call[g] EXCEPT !.pc = "dec", !.work = w]
                   IN  r.pc = "dec" /\ r.tag = call[g].tag /\ r.cur = call[g].cur
        BY <1>1
      <3> QED
        BY <2>1, <3>1, <3>2, <3>3
    <2>3. call' = [call EXCEPT ![g] = k]
      BY <1>7 DEF HandChild, TypeInv, TypeOK
    <2>4. Keeps
      BY <1>4, <1>7, <2>1 DEF HandChild, TypeInv, TypeOK
    <2> HIDE DEF k
    <2> QED
      BY <1>2, <2>2, <2>3, <2>4
  <1>8. CASE HandDec(g)
    <2> DEFINE k == [call[g] EXCEPT !.pc = "work", !.cur = Nil]
    <2>1. call[g].pc = "dec"
      BY <1>8 DEF HandDec
    <2>2. k \in Call /\ CallOK(k)
      BY <1>1, <2>1 DEF Ref
    <2>3. call' = [call EXCEPT ![g] = k]
      BY <1>8 DEF HandDec, TypeInv, TypeOK
    <2>4. fgoRCDec(call[g].cur) /\ Others /\ UNCHANGED <<traced, recs>>
      BY <1>8 DEF HandDec
    <2>5. Keeps
      BY <2>4, DecType DEF TypeInv, TypeOK
    <2> HIDE DEF k
    <2> QED
      BY <1>2, <2>2, <2>3, <2>5
  <1>9. CASE HandDone(g)
    <2>1. NoCall \in Call /\ CallOK(NoCall)
      BY DEF NoCall, Ref
    <2>2. tag[call[g].tag] \in Ref \cup Heap
      BY <1>1, <1>9 DEF HandDone, TypeInv, TypeOK
    <2>3. call' = [call EXCEPT ![g] = NoCall] /\ Keeps
      BY <1>9, <2>2 DEF HandDone, TypeInv, TypeOK
    <2> QED
      BY <1>2, <2>1, <2>3
  <1>10. ASSUME NEW t \in Tag, fgoTagLoad(g, t) PROVE TypeInv'
    <2>1. CASE tag[t] \in Obj /\ Live(tag[t])
      <3> DEFINE k == [pc |-> "one", tag |-> t, work |-> <<>>, cur |-> tag[t]]
      <3>1. k \in Call /\ CallOK(k)
        BY <2>1 DEF Ref
      <3>2. call' = [call EXCEPT ![g] = k] /\ Keeps
        BY <1>10, <2>1 DEF fgoTagLoad, TypeInv, TypeOK
      <3> HIDE DEF k
      <3> QED
        BY <1>2, <3>1, <3>2
    <2>2. CASE ~(tag[t] \in Obj /\ Live(tag[t]))
      <3>1. UNCHANGED <<call, st, rc, fld, chunk, recs>> /\ Others /\ traced' = [traced EXCEPT ![g] = tag[t]]
        BY <1>10, <2>2 DEF fgoTagLoad
      <3> QED
        BY <1>3, <3>1 DEF TypeInv, TypeOK
    <2> QED
      BY <2>1, <2>2
  <1>11. CASE ForgetTraced(g)
    BY <1>3, <1>11 DEF ForgetTraced, TypeInv, TypeOK, Ref
  <1>12. ASSUME NEW h \in Heap, NewHeap(g, h) PROVE TypeInv'
    BY <1>3, <1>12 DEF NewHeap, TypeInv, TypeOK
  <1> QED
    BY <1>5, <1>6, <1>7, <1>8, <1>9, <1>10, <1>11, <1>12

(* Every step keeps the types. *)
LEMMA TypeStep == TypeInv /\ [Next]_vars => TypeInv'
  <1> SUFFICES ASSUME TypeInv, [Next]_vars PROVE TypeInv'
    OBVIOUS
  <1> USE ConstAssumption
  <1>1. CASE UNCHANGED vars
    BY <1>1 DEF vars, TypeInv, TypeOK, CallTypes
  <1>2. ASSUME NEW t \in Tag, fgoTagDead(t) PROVE TypeInv'
    <2>1. CASE tag[t] \notin Obj \/ t \notin watched
      BY <1>2, <2>1 DEF fgoTagDead, TypeInv, TypeOK, CallTypes, Ref
    <2>2. CASE ~(tag[t] \notin Obj \/ t \notin watched)
      <3>0. tag[t] \in Obj /\ pending \in Seq(Obj)
        BY <2>2 DEF TypeInv, TypeOK
      <3>1. <<tag[t]>> \o pending \in Seq(Obj)
        BY <3>0
      <3>2. rc' \in [Obj -> Int] /\ pending' \in Seq(Obj)
        <4>1. /\ rc' = [rc EXCEPT ![tag[t]] = @ - 1]
              /\ pending' = <<tag[t]>> \o pending \/ pending' = pending
          BY <1>2, <2>2 DEF fgoTagDead
        <4>2. pending' \in Seq(Obj)
          BY <3>0, <3>1, <4>1
        <4> QED
          <5>1. rc' \in [Obj -> Int]
            <6>1. rc \in [Obj -> Int] /\ rc[tag[t]] - 1 \in Int
              BY <3>0 DEF TypeInv, TypeOK
            <6> QED
              BY <4>1, <6>1
          <5> QED
            BY <4>2, <5>1
      <3> QED
        BY <1>2, <3>2 DEF fgoTagDead, TypeInv, TypeOK, CallTypes, Ref
    <2> QED
      BY <2>1, <2>2
  <1>3. ASSUME NEW t \in Tag, NewTagged(t) PROVE TypeInv'
    BY <1>3 DEF NewTagged, TypeInv, TypeOK, CallTypes
  <1>4. ASSUME NEW o \in Obj, fgoEscFree(o) PROVE TypeInv'
    BY <1>4 DEF fgoEscFree, TypeInv, TypeOK, CallTypes, Ref
  <1> QED
    BY <1>1, <1>2, <1>3, <1>4, NogcType, StoreType, HandType DEF Next

(* The initial state has the types. *)
LEMMA TypeInit == Init => TypeInv
  <1> SUFFICES ASSUME Init PROVE TypeInv
    OBVIOUS
  <1>1. NoCall \in [pc : {"run", "one", "work", "child", "dec"}, tag : Tag \cup {Nil}, work : Seq(Obj), cur : Ref]
    BY DEF NoCall, Ref
  <1>2. NoStore \in [tag : Tag \cup {Nil}, nogc : BOOLEAN]
    BY DEF NoStore
  <1>3. TypeOK
    BY <1>1, <1>2 DEF Init, TypeOK, Ref
  <1>4. CallTypes
    BY DEF Init, CallTypes, NoCall
  <1> QED
    BY <1>3, <1>4 DEF TypeInv

(* The types of objects, tagged fields, calls and stores, with all the races admitted. *)
THEOREM TypeCorrect == Spec => []TypeOK
  <1>1. Spec => []TypeInv
    BY TypeInit, TypeStep, PTL DEF Spec
  <1>2. TypeInv => TypeOK
    BY DEF TypeInv
  <1> QED
    BY <1>1, <1>2, PTL
-----------------------------------------------------------------------------
(* Counting.                                                                *)

One(b) == IF b THEN 1 ELSE 0

(* The sets of references that count an object are finite. *)
LEMMA HoldersFinite ==
    \A o : /\ IsFiniteSet(Locals(o)) /\ IsFiniteSet(Tagged(o)) /\ IsFiniteSet(Fields(o))
           /\ IsFiniteSet(Exchanges(o)) /\ IsFiniteSet(Drops(o)) /\ IsFiniteSet(Hands(o))
           /\ Cardinality(Locals(o)) \in Nat /\ Cardinality(Tagged(o)) \in Nat
           /\ Cardinality(Fields(o)) \in Nat /\ Cardinality(Exchanges(o)) \in Nat
           /\ Cardinality(Drops(o)) \in Nat /\ Cardinality(Hands(o)) \in Nat
  <1> SUFFICES ASSUME NEW o
               PROVE  /\ IsFiniteSet(Locals(o)) /\ IsFiniteSet(Tagged(o)) /\ IsFiniteSet(Fields(o))
                      /\ IsFiniteSet(Exchanges(o)) /\ IsFiniteSet(Drops(o)) /\ IsFiniteSet(Hands(o))
    BY FS_CardinalityType
  <1>1. /\ Locals(o) \in SUBSET G /\ Tagged(o) \in SUBSET Tag /\ Fields(o) \in SUBSET Obj
        /\ Exchanges(o) \in SUBSET G /\ Drops(o) \in SUBSET G /\ Hands(o) \in SUBSET G
    BY DEF Locals, Tagged, Fields, Exchanges, Drops, Hands
  <1> QED
    BY <1>1, ConstAssumption, FS_Subset

(* Nothing counts an object exactly if all the sets are empty. *)
LEMMA CountedZero ==
    \A o : /\ Counted(o) \in Nat
           /\ Counted(o) = 0 <=> /\ Locals(o) = {} /\ Tagged(o) = {} /\ Fields(o) = {}
                                 /\ Exchanges(o) = {} /\ Drops(o) = {} /\ Hands(o) = {}
  <1> SUFFICES ASSUME NEW o
               PROVE  /\ Counted(o) \in Nat
                      /\ Counted(o) = 0 <=> /\ Locals(o) = {} /\ Tagged(o) = {} /\ Fields(o) = {}
                                            /\ Exchanges(o) = {} /\ Drops(o) = {} /\ Hands(o) = {}
    OBVIOUS
  <1>1. /\ Cardinality(Locals(o)) = 0 <=> Locals(o) = {}
        /\ Cardinality(Tagged(o)) = 0 <=> Tagged(o) = {}
        /\ Cardinality(Fields(o)) = 0 <=> Fields(o) = {}
        /\ Cardinality(Exchanges(o)) = 0 <=> Exchanges(o) = {}
        /\ Cardinality(Drops(o)) = 0 <=> Drops(o) = {}
        /\ Cardinality(Hands(o)) = 0 <=> Hands(o) = {}
    BY HoldersFinite, FS_EmptySet
  <1> QED
    BY <1>1, HoldersFinite DEF Counted

\* Some reference counts o.
Held(o) == \/ Locals(o) # {} \/ Tagged(o) # {} \/ Fields(o) # {}
           \/ Exchanges(o) # {} \/ Drops(o) # {} \/ Hands(o) # {}

(* An object that a reference counts is there, and its count says so. *)
LEMMA HeldIs ==
    ASSUME CountSum, NEW o \in Obj, Held(o)
    PROVE  ~Gone(o) /\ st[o] # "none" /\ ~InSeq(o, pending) /\ rc[o] = Counted(o) /\ rc[o] > 0
  <1>1. Counted(o) \in Nat /\ Counted(o) # 0
    BY CountedZero DEF Held
  <1> QED
    BY <1>1 DEF CountSum, Gone

(* One that nothing counts has the count zero, unless it is gone. *)
LEMMA NotHeld ==
    ASSUME CountSum, NEW o \in Obj, Gone(o) \/ rc[o] = 0
    PROVE  ~Held(o)
  <1>1. Counted(o) = 0
    BY DEF CountSum
  <1> QED
    BY <1>1, CountedZero DEF Held

(* The kinds of reference by which an object may be held. *)
LEMMA Holds ==
    ASSUME TypeOK
    PROVE  /\ \A g \in G : Held(loc[g]) /\ Held(upd[g])
           /\ \A t \in Tag : Held(tag[t])
           /\ \A y \in Obj : FieldCounts(y) => Held(fld[y])
           /\ \A g \in G : \A i \in 1 .. Len(dec[g]) : Held(dec[g][i])
           /\ \A g \in G : call[g].pc \in {"child", "dec"} => Held(call[g].cur)
  <1>1. \A g \in G : g \in Locals(loc[g]) /\ g \in Exchanges(upd[g])
    BY DEF Locals, Exchanges
  <1>2. \A t \in Tag : t \in Tagged(tag[t])
    BY DEF Tagged
  <1>3. \A y \in Obj : FieldCounts(y) => y \in Fields(fld[y])
    BY DEF Fields
  <1>4. \A g \in G : \A i \in 1 .. Len(dec[g]) : g \in Drops(dec[g][i])
    BY DEF Drops, InSeq
  <1>5. \A g \in G : call[g].pc \in {"child", "dec"} => g \in Hands(call[g].cur)
    BY DEF Hands
  <1> QED
    BY <1>1, <1>2, <1>3, <1>4, <1>5 DEF Held

(* An object with one reference has no other. *)
LEMMA Sole ==
    ASSUME NEW o, Counted(o) = 1
    PROVE  /\ \A y \in Fields(o) : /\ Fields(o) = {y} /\ Locals(o) = {} /\ Tagged(o) = {}
                                   /\ Exchanges(o) = {} /\ Drops(o) = {} /\ Hands(o) = {}
           /\ \A g \in Drops(o) : /\ Drops(o) = {g} /\ Locals(o) = {} /\ Tagged(o) = {}
                                  /\ Exchanges(o) = {} /\ Fields(o) = {} /\ Hands(o) = {}
           /\ \A g \in Locals(o) : /\ Locals(o) = {g} /\ Drops(o) = {} /\ Tagged(o) = {}
                                   /\ Exchanges(o) = {} /\ Fields(o) = {} /\ Hands(o) = {}
  <1>1. /\ Cardinality(Locals(o)) = 0 <=> Locals(o) = {}
        /\ Cardinality(Tagged(o)) = 0 <=> Tagged(o) = {}
        /\ Cardinality(Fields(o)) = 0 <=> Fields(o) = {}
        /\ Cardinality(Exchanges(o)) = 0 <=> Exchanges(o) = {}
        /\ Cardinality(Drops(o)) = 0 <=> Drops(o) = {}
        /\ Cardinality(Hands(o)) = 0 <=> Hands(o) = {}
    BY HoldersFinite, FS_EmptySet
  <1>a. /\ Cardinality(Locals(o)) \in Nat /\ Cardinality(Tagged(o)) \in Nat
        /\ Cardinality(Fields(o)) \in Nat /\ Cardinality(Exchanges(o)) \in Nat
        /\ Cardinality(Drops(o)) \in Nat /\ Cardinality(Hands(o)) \in Nat
    BY HoldersFinite
  <1>2. /\ Cardinality(Locals(o)) = 1 => \E x : Locals(o) = {x}
        /\ Cardinality(Fields(o)) = 1 => \E x : Fields(o) = {x}
        /\ Cardinality(Drops(o)) = 1 => \E x : Drops(o) = {x}
    BY HoldersFinite, FS_Singleton
  <1>3. ASSUME NEW y \in Fields(o)
        PROVE  /\ Fields(o) = {y} /\ Locals(o) = {} /\ Tagged(o) = {}
               /\ Exchanges(o) = {} /\ Drops(o) = {} /\ Hands(o) = {}
    <2>1. /\ Cardinality(Fields(o)) = 1 /\ Cardinality(Locals(o)) = 0 /\ Cardinality(Tagged(o)) = 0
          /\ Cardinality(Exchanges(o)) = 0 /\ Cardinality(Drops(o)) = 0 /\ Cardinality(Hands(o)) = 0
      BY <1>1, <1>a, SMTT(30) DEF Counted
    <2> QED
      BY <1>1, <1>2, <2>1
  <1>4. ASSUME NEW g \in Drops(o)
        PROVE  /\ Drops(o) = {g} /\ Locals(o) = {} /\ Tagged(o) = {}
               /\ Exchanges(o) = {} /\ Fields(o) = {} /\ Hands(o) = {}
    <2>1. /\ Cardinality(Drops(o)) = 1 /\ Cardinality(Locals(o)) = 0 /\ Cardinality(Tagged(o)) = 0
          /\ Cardinality(Exchanges(o)) = 0 /\ Cardinality(Fields(o)) = 0 /\ Cardinality(Hands(o)) = 0
      BY <1>1, <1>a DEF Counted
    <2> QED
      BY <1>1, <1>2, <2>1
  <1>5. ASSUME NEW g \in Locals(o)
        PROVE  /\ Locals(o) = {g} /\ Drops(o) = {} /\ Tagged(o) = {}
               /\ Exchanges(o) = {} /\ Fields(o) = {} /\ Hands(o) = {}
    <2>1. /\ Cardinality(Locals(o)) = 1 /\ Cardinality(Drops(o)) = 0 /\ Cardinality(Tagged(o)) = 0
          /\ Cardinality(Exchanges(o)) = 0 /\ Cardinality(Fields(o)) = 0 /\ Cardinality(Hands(o)) = 0
      BY <1>1, <1>a DEF Counted
    <2> QED
      BY <1>1, <1>2, <2>1
  <1> QED
    BY <1>3, <1>4, <1>5

\* How the references of each kind change, when only those of one goroutine, tagged
\* field or object do.
Moves(old, new, o) == One(new = o) - One(old = o)

(* A local changes. *)
LEMMA LocalsMove ==
    ASSUME NEW g \in G, \A h \in G : h # g => loc'[h] = loc[h]
    PROVE  \A o : Cardinality(Locals(o)') = Cardinality(Locals(o)) + Moves(loc[g], loc'[g], o)
  <1> SUFFICES ASSUME NEW o
               PROVE  Cardinality(Locals(o)') = Cardinality(Locals(o)) + Moves(loc[g], loc'[g], o)
    OBVIOUS
  <1> DEFINE S == Locals(o)  T == Locals(o)'
  <1>1. T \ {g} = S \ {g} /\ (g \in S <=> loc[g] = o) /\ (g \in T <=> loc'[g] = o)
    BY DEF Locals
  <1>2. IsFiniteSet(S)
    BY HoldersFinite
  <1> HIDE DEF S, T
  <1>3. Cardinality(S) \in Nat /\ Cardinality(T) = Cardinality(S) + One(g \in T) - One(g \in S)
    BY <1>1, <1>2, SetCard DEF One
  <1>4. Cardinality(T) = Cardinality(S) + Moves(loc[g], loc'[g], o)
    BY <1>1, <1>3 DEF One, Moves
  <1> QED
    BY <1>4 DEF S, T

(* A tagged field changes. *)
LEMMA TaggedMove ==
    ASSUME NEW t \in Tag, \A u \in Tag : u # t => tag'[u] = tag[u]
    PROVE  \A o : Cardinality(Tagged(o)') = Cardinality(Tagged(o)) + Moves(tag[t], tag'[t], o)
  <1> SUFFICES ASSUME NEW o
               PROVE  Cardinality(Tagged(o)') = Cardinality(Tagged(o)) + Moves(tag[t], tag'[t], o)
    OBVIOUS
  <1> DEFINE S == Tagged(o)  T == Tagged(o)'
  <1>1. T \ {t} = S \ {t} /\ (t \in S <=> tag[t] = o) /\ (t \in T <=> tag'[t] = o)
    BY DEF Tagged
  <1>2. IsFiniteSet(S)
    BY HoldersFinite
  <1> HIDE DEF S, T
  <1>3. Cardinality(S) \in Nat /\ Cardinality(T) = Cardinality(S) + One(t \in T) - One(t \in S)
    BY <1>1, <1>2, SetCard DEF One
  <1>4. Cardinality(T) = Cardinality(S) + Moves(tag[t], tag'[t], o)
    BY <1>1, <1>3 DEF One, Moves
  <1> QED
    BY <1>4 DEF S, T

(* A goroutine is about to exchange an object, or no longer. *)
LEMMA ExchangesMove ==
    ASSUME NEW g \in G, \A h \in G : h # g => upd'[h] = upd[h]
    PROVE  \A o : Cardinality(Exchanges(o)') = Cardinality(Exchanges(o)) + Moves(upd[g], upd'[g], o)
  <1> SUFFICES ASSUME NEW o
               PROVE  Cardinality(Exchanges(o)') = Cardinality(Exchanges(o)) + Moves(upd[g], upd'[g], o)
    OBVIOUS
  <1> DEFINE S == Exchanges(o)  T == Exchanges(o)'
  <1>1. T \ {g} = S \ {g} /\ (g \in S <=> upd[g] = o) /\ (g \in T <=> upd'[g] = o)
    BY DEF Exchanges
  <1>2. IsFiniteSet(S)
    BY HoldersFinite
  <1> HIDE DEF S, T
  <1>3. Cardinality(S) \in Nat /\ Cardinality(T) = Cardinality(S) + One(g \in T) - One(g \in S)
    BY <1>1, <1>2, SetCard DEF One
  <1>4. Cardinality(T) = Cardinality(S) + Moves(upd[g], upd'[g], o)
    BY <1>1, <1>3 DEF One, Moves
  <1> QED
    BY <1>4 DEF S, T

(* What a goroutine has to drop changes. *)
LEMMA DropsMove ==
    ASSUME NEW g \in G, \A h \in G : h # g => dec'[h] = dec[h]
    PROVE  \A o : Cardinality(Drops(o)') = Cardinality(Drops(o)) + One(InSeq(o, dec'[g])) - One(InSeq(o, dec[g]))
  <1> SUFFICES ASSUME NEW o
               PROVE  Cardinality(Drops(o)') = Cardinality(Drops(o)) + One(InSeq(o, dec'[g])) - One(InSeq(o, dec[g]))
    OBVIOUS
  <1> DEFINE S == Drops(o)  T == Drops(o)'
  <1>1. T \ {g} = S \ {g} /\ (g \in S <=> InSeq(o, dec[g])) /\ (g \in T <=> InSeq(o, dec'[g]))
    BY DEF Drops, InSeq
  <1>2. IsFiniteSet(S)
    BY HoldersFinite
  <1> HIDE DEF S, T
  <1>3. Cardinality(S) \in Nat /\ Cardinality(T) = Cardinality(S) + One(g \in T) - One(g \in S)
    BY <1>1, <1>2, SetCard DEF One
  <1>4. Cardinality(T) = Cardinality(S) + One(InSeq(o, dec'[g])) - One(InSeq(o, dec[g]))
    BY <1>1, <1>3 DEF One
  <1> QED
    BY <1>4 DEF S, T

Handling(g, o) == call[g].pc \in {"child", "dec"} /\ call[g].cur = o

(* A call of fgoTagLoad takes or drops an object's reference. *)
LEMMA HandsMove ==
    ASSUME NEW g \in G, \A h \in G : h # g => call'[h] = call[h]
    PROVE  \A o : Cardinality(Hands(o)') = Cardinality(Hands(o)) + One(Handling(g, o)') - One(Handling(g, o))
  <1> SUFFICES ASSUME NEW o
               PROVE  Cardinality(Hands(o)') = Cardinality(Hands(o)) + One(Handling(g, o)') - One(Handling(g, o))
    OBVIOUS
  <1> DEFINE S == Hands(o)  T == Hands(o)'
  <1>1. T \ {g} = S \ {g} /\ (g \in S <=> Handling(g, o)) /\ (g \in T <=> Handling(g, o)')
    BY DEF Hands, Handling
  <1>2. IsFiniteSet(S)
    BY HoldersFinite
  <1> HIDE DEF S, T
  <1>3. Cardinality(S) \in Nat /\ Cardinality(T) = Cardinality(S) + One(g \in T) - One(g \in S)
    BY <1>1, <1>2, SetCard DEF One
  <1>4. Cardinality(T) = Cardinality(S) + One(Handling(g, o)') - One(Handling(g, o))
    BY <1>1, <1>3 DEF One
  <1> QED
    BY <1>4 DEF S, T

FieldHolds(x, o) == fld[x] = o /\ FieldCounts(x)

(* An object's field changes, or what the field counts. *)
LEMMA FieldsMove ==
    ASSUME NEW x \in Obj, \A y, o \in Obj : y # x => (FieldHolds(y, o)' <=> FieldHolds(y, o))
    PROVE  \A o \in Obj :
             Cardinality(Fields(o)') = Cardinality(Fields(o)) + One(FieldHolds(x, o)') - One(FieldHolds(x, o))
  <1> SUFFICES ASSUME NEW o \in Obj
               PROVE  Cardinality(Fields(o)') = Cardinality(Fields(o)) + One(FieldHolds(x, o)') - One(FieldHolds(x, o))
    OBVIOUS
  <1> DEFINE S == Fields(o)  T == Fields(o)'
  <1>1. T \ {x} = S \ {x} /\ (x \in S <=> FieldHolds(x, o)) /\ (x \in T <=> FieldHolds(x, o)')
    <2>1. T = {y \in Obj : FieldHolds(y, o)'} /\ S = {y \in Obj : FieldHolds(y, o)}
      BY DEF Fields, FieldHolds
    <2> HIDE DEF S, T
    <2> QED
      BY <2>1
  <1>2. IsFiniteSet(S)
    BY HoldersFinite
  <1> HIDE DEF S, T
  <1>3. Cardinality(S) \in Nat /\ Cardinality(T) = Cardinality(S) + One(x \in T) - One(x \in S)
    BY <1>1, <1>2, SetCard DEF One
  <1>4. Cardinality(T) = Cardinality(S) + One(FieldHolds(x, o)') - One(FieldHolds(x, o))
    BY <1>1, <1>3 DEF One
  <1> QED
    BY <1>4 DEF S, T

(* No field changes what it counts. *)
LEMMA FieldsSame ==
    ASSUME \A y, o \in Obj : FieldHolds(y, o)' <=> FieldHolds(y, o)
    PROVE  \A o \in Obj : Fields(o)' = Fields(o)
  BY DEF Fields, FieldHolds

(* What does not change keeps its references. *)
LEMMA KindsSame ==
    /\ UNCHANGED loc => \A o : Locals(o)' = Locals(o)
    /\ UNCHANGED tag => \A o : Tagged(o)' = Tagged(o)
    /\ UNCHANGED upd => \A o : Exchanges(o)' = Exchanges(o)
    /\ UNCHANGED dec => \A o : Drops(o)' = Drops(o)
    /\ UNCHANGED call => \A o : Hands(o)' = Hands(o)
    /\ UNCHANGED <<fld, st, call>> => \A o : Fields(o)' = Fields(o)
  BY DEF Locals, Tagged, Exchanges, Drops, InSeq, Hands, Fields, FieldCounts, Live

(* The number of shared and handed-off objects, when one object changes. *)
LEMMA MarksMove ==
    ASSUME MarksExact, NEW x \in Obj, \A y \in Obj : y # x => st'[y] = st[y] /\ recs'[y] = recs[y],
           chunk' = chunk + One(Known(x)') - One(Known(x)),
           recs'[x] = IF st'[x] = "handed" THEN 1 ELSE 0
    PROVE  MarksExact'
  <1> DEFINE S == {o \in Obj : Known(o)}  T == {o \in Obj : Known(o)'}
  <1>1. T \ {x} = S \ {x} /\ (x \in S <=> Known(x)) /\ (x \in T <=> Known(x)')
    BY DEF Known
  <1>2. IsFiniteSet(S)
    <2>1. S \in SUBSET Obj
      OBVIOUS
    <2> QED
      BY <2>1, ConstAssumption, FS_Subset
  <1>3. chunk = Cardinality(S)
    BY DEF MarksExact, Known
  <1> HIDE DEF S, T
  <1>4. Cardinality(S) \in Nat /\ Cardinality(T) = Cardinality(S) + One(x \in T) - One(x \in S)
    BY <1>1, <1>2, SetCard DEF One
  <1>5. chunk' = Cardinality(T)
    BY <1>1, <1>3, <1>4 DEF One
  <1>6. chunk' = Cardinality({o \in Obj : st'[o] \in {"shared", "handed"}})
    BY <1>5 DEF T, Known
  <1>7. \A o \in Obj : recs'[o] = IF st'[o] = "handed" THEN 1 ELSE 0
    BY DEF MarksExact
  <1> QED
    BY <1>6, <1>7 DEF MarksExact
-----------------------------------------------------------------------------
(* Nogc code on objects that no other goroutine reaches, and references to  *)
(* others.                                                                  *)

\* What is shared or handed off, and who may reach it from outside nogc code, stays.
Private ==
    /\ \A x \in Obj : Known(x) \/ Known(x)' => st'[x] = st[x] /\ fld'[x] = fld[x]
    /\ \A x \in Obj : fld'[x] # Nil => st'[x] # "none"
    /\ UNCHANGED <<tag, watched, traced, call, upd, store, chunk, recs, pending>>

\* Goroutine g is in no call and no store, and only its own references change.
Alone(g) ==
    /\ call[g].pc = "run" /\ upd[g] = Nil /\ store[g] = NoStore
    /\ \A h \in G : h # g => dec'[h] = dec[h] /\ loc'[h] = loc[h]

(* Such a step keeps all parts of the invariant but the counts. *)
LEMMA PrivateKeeps ==
    ASSUME TypeInv, TypeInv', ShareInv, NEW g \in G, Private, Alone(g), Distinct(dec'[g])
    PROVE  QueuesExact' /\ RefsGood' /\ ActsExact' /\ MarksExact'
  <1>0. /\ UNCHANGED <<tag, watched, traced, call, upd, store, chunk, recs, pending>>
        /\ \A x \in Obj : Known(x)' <=> Known(x)
        /\ \A x \in Obj : Known(x) => st'[x] = st[x] /\ fld'[x] = fld[x]
    BY DEF Private, Known
  <1>1. QueuesExact'
    <2>1. \A i \in 1 .. Len(pending) : pending[i] \in Obj /\ st[pending[i]] = "shared"
      BY SMTT(30) DEF ShareInv, QueuesExact, TypeInv, TypeOK
    <2>2. \A i \in 1 .. Len(pending) : st'[pending[i]] = "shared"
      BY <1>0, <2>1 DEF Known
    <2> QED
      BY <1>0, <2>2 DEF ShareInv, QueuesExact, Alone, Distinct
  <1>2. RefsGood'
    <2>1. \A t \in Tag : /\ tag'[t] # Nil => t \in watched'
                         /\ tag'[t] \in Obj => Known(tag[t])'
      BY <1>0 DEF ShareInv, RefsGood, Known
    <2>2. \A h \in G : traced'[h] \in Obj => st'[traced'[h]] = "handed"
      BY <1>0 DEF ShareInv, RefsGood, Known
    <2>3. ASSUME NEW x \in Obj, fld'[x] # Nil
          PROVE  /\ st'[x] # "none"
                 /\ Known(x)' => Known(fld[x])'
                 /\ ~FieldCounts(x)' => \/ st'[fld'[x]] = "handed"
                                        \/ \E h \in G : call'[h].pc = "child" /\ call'[h].cur = fld'[x]
      <3>1. st'[x] # "none"
        BY <2>3 DEF Private
      <3>2. CASE Known(x)
        <4>1. fld'[x] = fld[x] /\ st'[x] = st[x] /\ fld[x] \in Obj /\ Known(fld[x])
          BY <1>0, <2>3, <3>2 DEF ShareInv, RefsGood, TypeInv, TypeOK, Ref
        <4>2. FieldCounts(x)' <=> FieldCounts(x)
          BY <1>0, <4>1 DEF FieldCounts, Live, InSeq
        <4> QED
          BY <1>0, <2>3, <3>1, <4>1, <4>2 DEF ShareInv, RefsGood, Known
      <3>3. CASE ~Known(x)
        <4>1. ~Known(x)' /\ st'[x] = "counted"
          BY <1>0, <3>1, <3>3 DEF Known, TypeInv, TypeOK
        <4> QED
          BY <3>1, <4>1 DEF FieldCounts, Live
      <3> QED
        BY <3>2, <3>3
    <2> QED
      BY <2>1, <2>2, <2>3 DEF RefsGood
  <1>3. ASSUME NEW h \in G PROVE CallExact(h)' /\ StoreExact(h)'
    <2>1. CallExact(h) /\ StoreExact(h)
      BY DEF ShareInv, ActsExact
    <2>2. \A x \in Obj : (st[x] = "shared" => st'[x] = "shared") /\ (st[x] = "handed" => st'[x] = "handed")
      BY <1>0 DEF Known
    <2>3. \A i \in 1 .. Len(call[h].work) : call[h].work[i] \in Obj
      BY DEF TypeInv, TypeOK
    <2>4. upd[h] # Nil => upd[h] \in Obj /\ h # g
      BY DEF TypeInv, TypeOK, Ref, Alone
    <2>5. StoreExact(h)'
      <3>1. h # g => dec'[h] = dec[h] /\ loc'[h] = loc[h]
        BY DEF Alone
      <3>2. store[g] = NoStore
        BY DEF Alone
      <3> QED
        BY <1>0, <2>1, <2>2, <2>4, <3>1, <3>2 DEF StoreExact
    <2>6. CallExact(h)'
      <3>1. h # g => dec'[h] = dec[h]
        BY DEF Alone
      <3>2. call[g].pc = "run"
        BY DEF Alone
      <3> QED
        BY <1>0, <2>1, <2>2, <2>3, <3>1, <3>2 DEF CallExact, NoCall
    <2> QED
      BY <2>5, <2>6
  <1>4. MarksExact'
    <2>1. \A x \in Obj : st'[x] \in {"shared", "handed"} <=> st[x] \in {"shared", "handed"}
      BY <1>0 DEF Known
    <2>2. {o \in Obj : st'[o] \in {"shared", "handed"}} = {o \in Obj : st[o] \in {"shared", "handed"}}
      BY <2>1
    <2>3. \A x \in Obj : st'[x] = "handed" <=> st[x] = "handed"
      BY <1>0 DEF Known
    <2> QED
      BY <1>0, <2>2, <2>3 DEF ShareInv, MarksExact
  <1> QED
    BY <1>1, <1>2, <1>3, <1>4 DEF ActsExact

(* A local goes out of scope: its reference is queued to be dropped. *)
LEMMA DropLocalShare ==
    ASSUME TypeInv, TypeInv', ShareInv, NEW g \in G, DropLocal(g)
    PROVE  ShareInv'
  <1> DEFINE p == loc[g]
  <1>1. p \in Obj /\ p # Nil
    BY ConstAssumption DEF DropLocal, TypeInv, TypeOK, Ref
  <1>2. /\ loc'[g] = Nil /\ dec'[g] = <<p>> /\ dec[g] = <<>>
        /\ \A h \in G : h # g => loc'[h] = loc[h] /\ dec'[h] = dec[h]
        /\ call[g].pc = "run" /\ upd[g] = Nil /\ store[g] = NoStore
        /\ UNCHANGED <<st, rc, fld, tag, watched, dead, pending, call, chunk, recs, traced, upd, store>>
    BY DEF DropLocal, Quiet, TypeInv, TypeOK
  <1>3. \A o : (InSeq(o, dec'[g]) <=> o = p) /\ ~InSeq(o, dec[g])
    BY <1>2 DEF InSeq
  <1>4. \A o \in Obj : Counted(o)' = Counted(o)
    <2>1. \A o : Cardinality(Locals(o)') = Cardinality(Locals(o)) + Moves(p, Nil, o)
      BY <1>2, LocalsMove
    <2>2. \A o : Cardinality(Drops(o)') = Cardinality(Drops(o)) + One(InSeq(o, dec'[g])) - One(InSeq(o, dec[g]))
      BY <1>2, DropsMove
    <2>3. \A o : /\ Tagged(o)' = Tagged(o) /\ Exchanges(o)' = Exchanges(o)
                 /\ Hands(o)' = Hands(o) /\ Fields(o)' = Fields(o)
      BY <1>2, KindsSame
    <2>4. \A o \in Obj : o # Nil
      BY ConstAssumption
    <2> QED
      BY <1>3, <2>1, <2>2, <2>3, <2>4, HoldersFinite DEF Counted, Moves, One
  <1>5. CountSum' /\ LiveCounted'
    BY <1>2, <1>4 DEF ShareInv, CountSum, LiveCounted, Gone, Live, InSeq
  <1>6. Private /\ Alone(g) /\ Distinct(dec'[g])
    <2>1. \A x \in Obj : fld[x] # Nil => st[x] # "none"
      BY DEF ShareInv, RefsGood
    <2> QED
      BY <1>2, <2>1 DEF Private, Alone, Distinct, Known
  <1> QED
    BY <1>5, <1>6, PrivateKeeps DEF ShareInv

(* Nogc code reads a tagged field and counts what it reads. *)
LEMMA NogcReadShare ==
    ASSUME TypeInv, TypeInv', ShareInv, NEW g \in G, NEW t \in Tag, NogcRead(g, t)
    PROVE  ShareInv'
  <1> DEFINE v == tag[t]
  <1>1. v \in Obj /\ ~Gone(v) /\ loc[g] = Nil
    BY HeldIs, Holds DEF NogcRead, ShareInv, TypeInv
  <1>2. /\ loc'[g] = v /\ rc'[v] = rc[v] + 1
        /\ \A h \in G : h # g => loc'[h] = loc[h]
        /\ \A x \in Obj : x # v => rc'[x] = rc[x]
        /\ call[g].pc = "run" /\ upd[g] = Nil /\ store[g] = NoStore
        /\ UNCHANGED <<st, fld, tag, watched, dead, pending, dec, call, chunk, recs, traced, upd, store>>
    BY <1>1 DEF NogcRead, Quiet, TypeInv, TypeOK
  <1>4. \A o \in Obj : Counted(o)' = Counted(o) + One(o = v)
    <2>1. \A o : Cardinality(Locals(o)') = Cardinality(Locals(o)) + Moves(Nil, v, o)
      BY <1>1, <1>2, LocalsMove
    <2>3. \A o : /\ Tagged(o)' = Tagged(o) /\ Exchanges(o)' = Exchanges(o) /\ Drops(o)' = Drops(o)
                 /\ Hands(o)' = Hands(o) /\ Fields(o)' = Fields(o)
      BY <1>2, KindsSame
    <2>4. \A o \in Obj : o # Nil
      BY ConstAssumption
    <2> QED
      BY <2>1, <2>3, <2>4, HoldersFinite DEF Counted, Moves, One
  <1>5. CountSum' /\ LiveCounted'
    <2>1. \A o \in Obj : Gone(o)' <=> Gone(o)
      BY <1>2 DEF Gone, InSeq
    <2>2. \A o \in Obj : Counted(o) \in Nat /\ rc[o] \in Int
      BY CountedZero DEF TypeInv, TypeOK
    <2> QED
      BY <1>1, <1>2, <1>4, <2>1, <2>2 DEF ShareInv, CountSum, LiveCounted, Live, One
  <1>6. Private /\ Alone(g) /\ Distinct(dec'[g])
    <2>1. \A x \in Obj : fld[x] # Nil => st[x] # "none"
      BY DEF ShareInv, RefsGood
    <2>2. Distinct(dec[g])
      BY DEF ShareInv, QueuesExact
    <2> QED
      BY <1>2, <2>1, <2>2 DEF Private, Alone, Distinct, Known
  <1> QED
    BY <1>5, <1>6, PrivateKeeps DEF ShareInv

(* A new object takes over the local's reference. *)
LEMMA ConstructShare ==
    ASSUME TypeInv, TypeInv', ShareInv, NEW g \in G, NEW o \in Obj, Construct(g, o)
    PROVE  ShareInv'
  <1> DEFINE p == loc[g]
  <1>1. st[o] = "none" /\ Gone(o) /\ p \in Ref /\ p # o
    <2>1. st[o] = "none" /\ Gone(o)
      BY DEF Construct, Gone
    <2>2. ~Held(o)
      BY <2>1, NotHeld DEF ShareInv
    <2> QED
      BY <2>1, <2>2, Holds DEF TypeInv, TypeOK
  <1>2. /\ loc'[g] = o /\ rc'[o] = 1 /\ st'[o] = "counted" /\ fld'[o] = p
        /\ \A h \in G : h # g => loc'[h] = loc[h]
        /\ \A x \in Obj : x # o => rc'[x] = rc[x] /\ st'[x] = st[x] /\ fld'[x] = fld[x]
        /\ call[g].pc = "run" /\ upd[g] = Nil /\ store[g] = NoStore
        /\ UNCHANGED <<tag, watched, dead, pending, dec, call, chunk, recs, traced, upd, store>>
    BY DEF Construct, Quiet, TypeInv, TypeOK
  <1>3. fld[o] = Nil
    BY <1>1 DEF ShareInv, RefsGood
  <1>4. \A x \in Obj : Counted(x)' = Counted(x) + One(x = o)
    <2>1. \A x : Cardinality(Locals(x)') = Cardinality(Locals(x)) + Moves(p, o, x)
      BY <1>2, LocalsMove
    <2>2. \A y, x \in Obj : y # o => (FieldHolds(y, x)' <=> FieldHolds(y, x))
      BY <1>2 DEF FieldHolds, FieldCounts, Live, InSeq
    <2>3. \A x \in Obj : Cardinality(Fields(x)') = Cardinality(Fields(x)) + One(FieldHolds(o, x)') - One(FieldHolds(o, x))
      BY <1>2, <2>2, FieldsMove
    <2>4. \A x \in Obj : (FieldHolds(o, x)' <=> x = p) /\ ~FieldHolds(o, x)
      BY <1>2, <1>3, ConstAssumption DEF FieldHolds, FieldCounts, Live
    <2>5. \A x : /\ Tagged(x)' = Tagged(x) /\ Exchanges(x)' = Exchanges(x) /\ Drops(x)' = Drops(x)
                 /\ Hands(x)' = Hands(x)
      BY <1>2, KindsSame
    <2> QED
      BY <1>1, <2>1, <2>3, <2>4, <2>5, HoldersFinite DEF Counted, Moves, One
  <1>5. CountSum' /\ LiveCounted'
    <2>1. \A x \in Obj : x # o => (Gone(x)' <=> Gone(x))
      BY <1>2 DEF Gone, InSeq
    <2>2. ~InSeq(o, pending)
      BY <1>1 DEF ShareInv, QueuesExact, InSeq
    <2>3. ~Gone(o)' /\ Counted(o) = 0
      BY <1>1, <1>2, <2>2 DEF Gone, InSeq, ShareInv, CountSum
    <2>4. \A x \in Obj : Counted(x) \in Nat /\ rc[x] \in Int
      BY CountedZero DEF TypeInv, TypeOK
    <2> QED
      BY <1>2, <1>4, <2>1, <2>3, <2>4 DEF ShareInv, CountSum, LiveCounted, Live, One
  <1>6. Private /\ Alone(g) /\ Distinct(dec'[g])
    <2>1. \A x \in Obj : fld[x] # Nil => st[x] # "none"
      BY DEF ShareInv, RefsGood
    <2>2. Distinct(dec[g])
      BY DEF ShareInv, QueuesExact
    <2> QED
      BY <1>1, <1>2, <2>1, <2>2 DEF Private, Alone, Distinct, Known
  <1> QED
    BY <1>5, <1>6, PrivateKeeps DEF ShareInv

(* What a field refers to is there, and not on fgoTag.pending. *)
LEMMA FieldThere ==
    ASSUME TypeInv, ShareInv, NEW x \in Obj, fld[x] # Nil
    PROVE  fld[x] \in Obj /\ ~Gone(fld[x])
  <1>1. fld[x] \in Obj
    BY DEF TypeInv, TypeOK, Ref
  <1>2. CASE FieldCounts(x)
    BY <1>1, <1>2, HeldIs, Holds DEF TypeInv, ShareInv
  <1>3. CASE \E g \in G : call[g].pc = "child" /\ call[g].cur = fld[x]
    BY <1>1, <1>3, HeldIs, Holds DEF TypeInv, ShareInv
  <1>4. CASE st[fld[x]] = "handed"
    BY <1>1, <1>4 DEF ShareInv, QueuesExact, Gone, InSeq
  <1> QED
    BY <1>2, <1>3, <1>4 DEF ShareInv, RefsGood

(* fgoRCDecKeep passes the reference on, or counts the field before it drops p. *)
LEMMA DecKeepShare ==
    ASSUME TypeInv, TypeInv', ShareInv, NEW g \in G, fgoRCDecKeep(g)
    PROVE  ShareInv'
  <1>0. PICK p, c : p = loc[g] /\ c = fld[p]
    OBVIOUS
  <1> USE <1>0
  <1>1. p \in Obj /\ c \in Obj /\ ~Gone(p) /\ ~Gone(c) /\ rc[p] = Counted(p) /\ st[p] # "none"
    <2>1. p \in Obj /\ c # Nil
      BY DEF fgoRCDecKeep, TypeInv, TypeOK, Ref
    <2> QED
      BY <2>1, FieldThere, HeldIs, Holds DEF TypeInv, ShareInv
  <1>2. /\ loc'[g] = c /\ \A h \in G : h # g => loc'[h] = loc[h]
        /\ call[g].pc = "run" /\ upd[g] = Nil /\ store[g] = NoStore /\ dec[g] = <<>>
        /\ UNCHANGED <<tag, watched, dead, pending, call, chunk, recs, traced, upd, store>>
    BY DEF fgoRCDecKeep, Quiet, TypeInv, TypeOK
  <1>3. \A x : Cardinality(Locals(x)') = Cardinality(Locals(x)) + Moves(p, c, x)
    BY <1>2, LocalsMove
  <1>4. \A x : Tagged(x)' = Tagged(x) /\ Exchanges(x)' = Exchanges(x) /\ Hands(x)' = Hands(x)
    BY <1>2, KindsSame
  <1>5. \A x \in Obj : Counted(x) \in Nat /\ rc[x] \in Int /\ x # Nil
    BY CountedZero, ConstAssumption DEF TypeInv, TypeOK
  <1>6. \A x \in Obj : fld[x] # Nil => st[x] # "none"
    BY DEF ShareInv, RefsGood
  <1>7. CASE st[p] = "counted" /\ rc[p] = 1
    <2>1. /\ st'[p] = "none" /\ rc'[p] = 0 /\ fld'[p] = Nil /\ UNCHANGED dec
          /\ \A x \in Obj : x # p => st'[x] = st[x] /\ rc'[x] = rc[x] /\ fld'[x] = fld[x]
      BY <1>1, <1>7 DEF fgoRCDecKeep, TypeInv, TypeOK
    <2>2. FieldCounts(p) /\ p # c
      <3>1. g \in Locals(p)
        BY DEF Locals
      <3>2. Fields(p) = {}
        BY <1>1, <1>7, <3>1, Sole
      <3>3. FieldCounts(p)
        BY <1>7 DEF FieldCounts, Live
      <3> QED
        BY <1>1, <3>2, <3>3 DEF Fields
    <2>3. \A y, x \in Obj : y # p => (FieldHolds(y, x)' <=> FieldHolds(y, x))
      BY <1>2, <2>1 DEF FieldHolds, FieldCounts, Live, InSeq
    <2>4. \A x \in Obj : Cardinality(Fields(x)') = Cardinality(Fields(x)) + One(FieldHolds(p, x)') - One(FieldHolds(p, x))
      BY <1>1, <2>3, FieldsMove
    <2>5. \A x \in Obj : ~FieldHolds(p, x)' /\ (FieldHolds(p, x) <=> x = c)
      BY <1>5, <2>1, <2>2 DEF FieldHolds
    <2>6. \A x : Drops(x)' = Drops(x)
      BY <2>1, KindsSame
    <2>7. \A x \in Obj : Counted(x)' = Counted(x) - One(x = p)
      BY <1>3, <1>4, <2>4, <2>5, <2>6, HoldersFinite DEF Counted, Moves, One
    <2>8. \A x \in Obj : x # p => (Gone(x)' <=> Gone(x))
      BY <1>2, <2>1 DEF Gone, InSeq
    <2>9. Gone(p)' /\ st'[p] = "none"
      BY <2>1 DEF Gone
    <2>10. CountSum' /\ LiveCounted'
      BY <1>1, <1>5, <1>7, <2>1, <2>7, <2>8, <2>9 DEF ShareInv, CountSum, LiveCounted, Live, One
    <2>11. Private /\ Alone(g) /\ Distinct(dec'[g])
      <3>1. Distinct(dec[g])
        BY DEF ShareInv, QueuesExact
      <3> QED
        BY <1>2, <1>6, <1>7, <2>1, <3>1 DEF Private, Alone, Distinct, Known
    <2> QED
      BY <2>10, <2>11, PrivateKeeps DEF ShareInv
  <1>8. CASE ~(st[p] = "counted" /\ rc[p] = 1)
    <2>1. /\ rc'[c] = rc[c] + 1 /\ dec'[g] = <<p>> /\ UNCHANGED <<st, fld>>
          /\ \A x \in Obj : x # c => rc'[x] = rc[x]
          /\ \A h \in G : h # g => dec'[h] = dec[h]
      BY <1>1, <1>8 DEF fgoRCDecKeep, TypeInv, TypeOK
    <2>2. \A x : (InSeq(x, dec'[g]) <=> x = p) /\ ~InSeq(x, dec[g])
      BY <1>2, <2>1 DEF InSeq
    <2>3. \A x : Cardinality(Drops(x)') = Cardinality(Drops(x)) + One(InSeq(x, dec'[g])) - One(InSeq(x, dec[g]))
      BY <2>1, DropsMove
    <2>4. \A x : Fields(x)' = Fields(x)
      BY <1>2, <2>1, KindsSame
    <2>5. \A x \in Obj : Counted(x)' = Counted(x) + One(x = c)
      BY <1>3, <1>4, <2>2, <2>3, <2>4, HoldersFinite DEF Counted, Moves, One
    <2>6. \A x \in Obj : Gone(x)' <=> Gone(x)
      BY <1>2, <2>1 DEF Gone, InSeq
    <2>7. CountSum' /\ LiveCounted'
      BY <1>1, <1>5, <2>1, <2>5, <2>6 DEF ShareInv, CountSum, LiveCounted, Live, One
    <2>8. Private /\ Alone(g) /\ Distinct(dec'[g])
      BY <1>2, <1>6, <2>1 DEF Private, Alone, Distinct, Known
    <2> QED
      BY <2>7, <2>8, PrivateKeeps DEF ShareInv
  <1> QED
    BY <1>7, <1>8

(* While a shared object is stored into, no object is handed off. *)
LEMMA NoCalls ==
    ASSUME ShareInv, NEW g \in G, upd[g] # Nil
    PROVE  \A h \in G : call[h] = NoCall
  BY DEF ShareInv, ActsExact, CallExact

(* The exchange: the field takes the new object, and the old one is queued. *)
LEMMA ExchangeShare ==
    ASSUME TypeInv, TypeInv', ShareInv, NEW g \in G, Exchange(g)
    PROVE  ShareInv'
  <1>0. PICK p, u, c : p = loc[g] /\ u = upd[g] /\ c = fld[p]
    OBVIOUS
  <1> USE <1>0
  <1>1. /\ u # Nil /\ p \in Obj /\ u \in Obj /\ st[p] = "shared" /\ st[u] = "shared" /\ c \in Ref
        /\ dec[g] = <<>> /\ store[g] = NoStore /\ call[g].pc = "run"
    BY DEF Exchange, ShareInv, ActsExact, StoreExact, TypeInv, TypeOK, Ref
  <1>2. /\ fld'[p] = u /\ upd'[g] = Nil /\ dec'[g] = Later(c)
        /\ \A x \in Obj : x # p => fld'[x] = fld[x]
        /\ \A h \in G : h # g => upd'[h] = upd[h] /\ dec'[h] = dec[h]
        /\ UNCHANGED <<st, rc, loc, tag, watched, dead, pending, call, traced, store, chunk, recs>>
    BY <1>1 DEF Exchange, TypeInv, TypeOK
  <1>3. \A h \in G : call[h] = NoCall /\ call'[h] = NoCall
    BY <1>1, <1>2, NoCalls
  <1>4. \A x \in Obj : (FieldCounts(x) <=> Live(x)) /\ (FieldCounts(x)' <=> Live(x))
    BY <1>2, <1>3 DEF FieldCounts, Live, InSeq, NoCall
  <1>5. \A x \in Obj : (InSeq(x, dec'[g]) <=> x = c) /\ ~InSeq(x, dec[g])
    BY <1>1, <1>2 DEF InSeq, Later
  <1>6. \A x \in Obj : Counted(x)' = Counted(x)
    <2>1. \A y, x \in Obj : y # p => (FieldHolds(y, x)' <=> FieldHolds(y, x))
      BY <1>2, <1>4 DEF FieldHolds
    <2>2. \A x \in Obj : Cardinality(Fields(x)') = Cardinality(Fields(x)) + One(FieldHolds(p, x)') - One(FieldHolds(p, x))
      BY <1>1, <2>1, FieldsMove
    <2>3. \A x \in Obj : (FieldHolds(p, x)' <=> x = u) /\ (FieldHolds(p, x) <=> x = c)
      BY <1>1, <1>2, <1>4 DEF FieldHolds, Live
    <2>4. \A x : Cardinality(Drops(x)') = Cardinality(Drops(x)) + One(InSeq(x, dec'[g])) - One(InSeq(x, dec[g]))
      BY <1>2, DropsMove
    <2>5. \A x : Cardinality(Exchanges(x)') = Cardinality(Exchanges(x)) + Moves(u, Nil, x)
      BY <1>2, ExchangesMove
    <2>6. \A x : Tagged(x)' = Tagged(x) /\ Locals(x)' = Locals(x) /\ Hands(x)' = Hands(x)
      BY <1>2, KindsSame
    <2>7. \A x \in Obj : x # Nil
      BY ConstAssumption
    <2> SUFFICES ASSUME NEW x \in Obj PROVE Counted(x)' = Counted(x)
      OBVIOUS
    <2>8. /\ Cardinality(Fields(x)') = Cardinality(Fields(x)) + One(x = u) - One(x = c)
          /\ Cardinality(Drops(x)') = Cardinality(Drops(x)) + One(x = c)
          /\ Cardinality(Exchanges(x)') = Cardinality(Exchanges(x)) - One(x = u)
      BY <1>5, <2>2, <2>3, <2>4, <2>5, <2>7, HoldersFinite DEF Moves, One
    <2> QED
      BY <2>6, <2>8, HoldersFinite DEF Counted, One
  <1>7. CountSum' /\ LiveCounted'
    BY <1>2, <1>6 DEF ShareInv, CountSum, LiveCounted, Gone, Live, InSeq
  <1>8. QueuesExact'
    <2>1. Distinct(Later(c))
      BY DEF Distinct, Later
    <2> QED
      BY <1>2, <2>1 DEF ShareInv, QueuesExact, Distinct
  <1>9. RefsGood'
    <2>1. ASSUME NEW x \in Obj, fld'[x] # Nil
          PROVE  /\ st[x] # "none" /\ (Known(x) => Known(fld'[x]))
                 /\ ~Live(x) => st[fld'[x]] = "handed"
      <3>1. CASE x = p
        BY <1>1, <1>2, <3>1 DEF Known, Live
      <3>2. CASE x # p
        BY <1>2, <1>3, <1>4, <2>1, <3>2 DEF ShareInv, RefsGood, NoCall
      <3> QED
        BY <3>1, <3>2
    <2> QED
      BY <1>2, <1>4, <2>1 DEF ShareInv, RefsGood, Known
  <1>10. ActsExact'
    <2>1. \A h \in G : CallExact(h)'
      BY <1>3 DEF CallExact, NoCall
    <2>2. \A h \in G : StoreExact(h)'
      BY <1>1, <1>2 DEF ShareInv, ActsExact, StoreExact
    <2> QED
      BY <2>1, <2>2 DEF ActsExact
  <1>11. MarksExact'
    BY <1>2 DEF ShareInv, MarksExact
  <1> QED
    BY <1>7, <1>8, <1>9, <1>10, <1>11 DEF ShareInv

(* fgoRCStore, for a counted, a shared and a handed-off object. *)
LEMMA StoreShare ==
    ASSUME TypeInv, TypeInv', ShareInv, NoRace, NEW g \in G, NEW o \in Obj, fgoRCStore(g, o)
    PROVE  ShareInv'
  <1>0. PICK p, c : p = loc[g] /\ c = fld[p]
    OBVIOUS
  <1> USE <1>0
  <1>1. /\ p \in Obj /\ st[o] = "none" /\ st[p] # "none" /\ p # o /\ c \in Ref
        /\ call[g].pc = "run" /\ upd[g] = Nil /\ store[g] = NoStore /\ dec[g] = <<>>
    <2>1. p \in Obj /\ st[o] = "none" /\ c \in Ref
      BY DEF fgoRCStore, TypeInv, TypeOK, Ref
    <2>2. st[p] # "none"
      BY <2>1, HeldIs, Holds DEF TypeInv, ShareInv
    <2> QED
      BY <2>1, <2>2 DEF fgoRCStore, Quiet
  <1>2. \A h \in G : call[h] = NoCall
    BY DEF fgoRCStore, NoRace, ShareInv, ActsExact, CallExact
  <1>3. /\ st'[o] = st[p] /\ rc'[o] = (IF st[p] = "handed" THEN 0 ELSE 1)
        /\ recs'[o] = (IF st[p] = "handed" THEN 1 ELSE 0)
        /\ \A x \in Obj : x # o => st'[x] = st[x] /\ rc'[x] = rc[x] /\ recs'[x] = recs[x]
        /\ UNCHANGED <<loc, tag, watched, dead, pending, call, traced, store>>
    BY DEF fgoRCStore, TypeInv, TypeOK
  <1>4. /\ chunk' = (IF st[p] = "counted" THEN chunk ELSE chunk + 1)
        /\ upd' = (IF st[p] = "shared" THEN [upd EXCEPT ![g] = o] ELSE upd)
        /\ fld' = (IF st[p] = "shared" THEN fld ELSE [fld EXCEPT ![p] = o])
        /\ dec' = (IF st[p] = "counted" THEN [dec EXCEPT ![g] = Later(c)] ELSE dec)
    BY DEF fgoRCStore
  <1>5. /\ fld[o] = Nil /\ ~InSeq(o, pending) /\ Counted(o) = 0 /\ recs[o] = 0 /\ ~Gone(o)'
        /\ \A x \in Obj : x # o => (Gone(x)' <=> Gone(x))
    <2>1. fld[o] = Nil /\ ~InSeq(o, pending) /\ Counted(o) = 0 /\ recs[o] = 0
      BY <1>1 DEF ShareInv, RefsGood, QueuesExact, InSeq, CountSum, Gone, MarksExact
    <2>2. InSeq(o, pending') <=> InSeq(o, pending)
      BY <1>3
    <2>3. ~Gone(o)'
      BY <1>1, <1>3, <2>1, <2>2 DEF Gone
    <2> QED
      BY <1>3, <2>1, <2>3 DEF Gone, InSeq
  <1>6. \A x \in Obj : (FieldCounts(x) <=> Live(x)) /\ (FieldCounts(x)' <=> Live(x)')
    BY <1>2, <1>3 DEF FieldCounts, InSeq, NoCall
  <1>7. \A x \in Obj : x # o => (Live(x)' <=> Live(x))
    BY <1>3 DEF Live
  <1>8. \A x \in Obj : Counted(x) \in Nat /\ rc[x] \in Int /\ x # Nil
    BY CountedZero, ConstAssumption DEF TypeInv, TypeOK
  <1>9. \A x : Tagged(x)' = Tagged(x) /\ Locals(x)' = Locals(x) /\ Hands(x)' = Hands(x)
    BY <1>3, KindsSame
  <1>10. \A x \in Obj : fld[x] # Nil => st[x] # "none"
    BY DEF ShareInv, RefsGood
  <1>11. \A h \in G : call'[h] = NoCall
    BY <1>2, <1>3
  <1>a. \A x \in Obj : fld[x] # Nil => fld[x] \in Obj /\ fld[x] # o
    <2>1. \A x \in Obj : fld[x] # Nil => fld[x] \in Obj /\ ~Gone(fld[x])
      BY FieldThere
    <2> QED
      BY <1>1, <2>1 DEF Gone
  <1>12. CASE st[p] = "counted"
    <2>1. /\ UNCHANGED <<chunk, upd>> /\ fld'[p] = o /\ dec'[g] = Later(c)
          /\ \A x \in Obj : x # p => fld'[x] = fld[x]
          /\ \A h \in G : h # g => dec'[h] = dec[h]
      BY <1>1, <1>4, <1>12 DEF TypeInv, TypeOK
    <2>2. \A x \in Obj : (InSeq(x, dec'[g]) <=> x = c) /\ ~InSeq(x, dec[g])
      BY <1>1, <2>1 DEF InSeq, Later
    <2>3. \A y, x \in Obj : y # p => (FieldHolds(y, x)' <=> FieldHolds(y, x))
      <3> SUFFICES ASSUME NEW y \in Obj, NEW x \in Obj, y # p PROVE FieldHolds(y, x)' <=> FieldHolds(y, x)
        OBVIOUS
      <3>1. CASE y = o
        BY <1>5, <1>8, <2>1, <3>1 DEF FieldHolds
      <3>2. CASE y # o
        BY <1>6, <1>7, <2>1, <3>2 DEF FieldHolds
      <3> QED
        BY <3>1, <3>2
    <2>4. \A x \in Obj : Cardinality(Fields(x)') = Cardinality(Fields(x)) + One(FieldHolds(p, x)') - One(FieldHolds(p, x))
      BY <1>1, <2>3, FieldsMove
    <2>5. \A x \in Obj : (FieldHolds(p, x)' <=> x = o) /\ (FieldHolds(p, x) <=> x = c)
      BY <1>1, <1>6, <1>7, <1>12, <2>1 DEF FieldHolds, Live
    <2>6. \A x : Cardinality(Drops(x)') = Cardinality(Drops(x)) + One(InSeq(x, dec'[g])) - One(InSeq(x, dec[g]))
      BY <2>1, DropsMove
    <2>7. \A x : Exchanges(x)' = Exchanges(x)
      BY <2>1, KindsSame
    <2>8. \A x \in Obj : Counted(x)' = Counted(x) + One(x = o)
      BY <1>9, <2>2, <2>4, <2>5, <2>6, <2>7, HoldersFinite DEF Counted, One
    <2>9. CountSum' /\ LiveCounted'
      BY <1>3, <1>5, <1>7, <1>8, <1>12, <2>8 DEF ShareInv, CountSum, LiveCounted, One
    <2>10. recs' = recs
      BY <1>3, <1>5, <1>12 DEF TypeInv, TypeOK
    <2>11. Private
      BY <1>1, <1>3, <1>5, <1>10, <1>12, <2>1, <2>10 DEF Private, Known
    <2>12. Alone(g) /\ Distinct(dec'[g])
      <3>1. Distinct(Later(c))
        BY DEF Distinct, Later
      <3> QED
        BY <1>1, <1>3, <2>1, <3>1 DEF Alone
    <2> QED
      BY <2>9, <2>11, <2>12, PrivateKeeps DEF ShareInv
  <1>13. CASE st[p] = "shared"
    <2>1. /\ UNCHANGED <<fld, dec>> /\ chunk' = chunk + 1 /\ upd'[g] = o
          /\ \A h \in G : h # g => upd'[h] = upd[h]
      BY <1>1, <1>4, <1>13 DEF TypeInv, TypeOK
    <2>2. \A y, x \in Obj : FieldHolds(y, x)' <=> FieldHolds(y, x)
      <3> SUFFICES ASSUME NEW y \in Obj, NEW x \in Obj PROVE FieldHolds(y, x)' <=> FieldHolds(y, x)
        OBVIOUS
      <3>1. CASE y = o
        BY <1>5, <1>8, <2>1, <3>1 DEF FieldHolds
      <3>2. CASE y # o
        BY <1>6, <1>7, <2>1, <3>2 DEF FieldHolds
      <3> QED
        BY <3>1, <3>2
    <2>3. \A x \in Obj : Fields(x)' = Fields(x)
      BY <2>2, FieldsSame
    <2>4. \A x : Cardinality(Exchanges(x)') = Cardinality(Exchanges(x)) + Moves(Nil, o, x)
      BY <1>1, <2>1, ExchangesMove
    <2>5. \A x : Drops(x)' = Drops(x)
      BY <2>1, KindsSame
    <2>6. \A x \in Obj : Counted(x)' = Counted(x) + One(x = o)
      BY <1>8, <1>9, <2>3, <2>4, <2>5, HoldersFinite DEF Counted, Moves, One
    <2>7. CountSum' /\ LiveCounted'
      BY <1>3, <1>5, <1>7, <1>8, <1>13, <2>6 DEF ShareInv, CountSum, LiveCounted, One
    <2>8. QueuesExact'
      <3>0. \A i \in 1 .. Len(pending) : pending[i] \in Obj
        BY DEF TypeInv, TypeOK
      <3>1. \A i \in 1 .. Len(pending) : pending[i] \in Obj /\ pending[i] # o
        BY <1>5, <3>0 DEF InSeq
      <3> QED
        BY <1>3, <2>1, <3>1 DEF ShareInv, QueuesExact, Distinct
    <2>9. RefsGood'
      <3>1. \A x \in Obj : x # o => (Known(x)' <=> Known(x)) /\ st'[x] = st[x]
        BY <1>3 DEF Known
      <3>2. \A t \in Tag : tag[t] # Nil => t \in watched
        BY DEF ShareInv, RefsGood
      <3>3. \A t \in Tag : tag[t] \in Obj => tag[t] # o /\ Known(tag[t])
        BY <1>1 DEF ShareInv, RefsGood, Known
      <3>4. \A h \in G : traced[h] \in Obj => traced[h] # o /\ st[traced[h]] = "handed"
        BY <1>1 DEF ShareInv, RefsGood
      <3>5. \A x \in Obj : fld[x] # Nil => /\ x # o /\ (Known(x) => Known(fld[x]))
                                           /\ ~Live(x) => st[fld[x]] = "handed"
        BY <1>2, <1>5, <1>6 DEF ShareInv, RefsGood, NoCall
      <3>6. \A x \in Obj : fld'[x] # Nil => /\ st'[x] # "none" /\ (Known(x)' => Known(fld[x])')
                                            /\ ~FieldCounts(x)' => st'[fld'[x]] = "handed"
        BY <1>3, <1>6, <1>7, <1>10, <1>a, <2>1, <3>1, <3>5 DEF Known
      <3> QED
        BY <1>3, <2>1, <3>1, <3>2, <3>3, <3>4, <3>6 DEF RefsGood, Known
    <2>10. ActsExact'
      <3>1. \A h \in G : CallExact(h)'
        BY <1>11 DEF CallExact, NoCall
      <3>2. \A h \in G : upd[h] # Nil => upd[h] # o /\ upd[h] \in Obj /\ loc[h] # o
        BY <1>1, ZenonT(30) DEF ShareInv, ActsExact, StoreExact, TypeInv, TypeOK, Ref
      <3>3. ASSUME NEW h \in G PROVE StoreExact(h)'
        <4>1. CASE h = g
          BY <1>1, <1>3, <1>13, <2>1, <4>1, <1>11 DEF StoreExact, NoCall
        <4>2. CASE h # g
          BY <1>3, <2>1, <3>2, <4>2 DEF ShareInv, ActsExact, StoreExact
        <4> QED
          BY <4>1, <4>2
      <3> QED
        BY <3>1, <3>3 DEF ActsExact
    <2>11. MarksExact'
      <3>1. ~Known(o) /\ Known(o)' /\ chunk \in Int
        BY <1>1, <1>3, <1>13 DEF Known, TypeInv, TypeOK
      <3>2. chunk' = chunk + One(Known(o)') - One(Known(o))
        BY <2>1, <3>1 DEF One
      <3>3. recs'[o] = IF st'[o] = "handed" THEN 1 ELSE 0
        BY <1>3, <1>13
      <3> QED
        BY <1>3, <3>2, <3>3, MarksMove DEF ShareInv
    <2> QED
      BY <2>7, <2>8, <2>9, <2>10, <2>11 DEF ShareInv
  <1>14. CASE st[p] = "handed"
    <2>1. /\ UNCHANGED <<upd, dec>> /\ chunk' = chunk + 1 /\ fld'[p] = o
          /\ \A x \in Obj : x # p => fld'[x] = fld[x]
      BY <1>1, <1>4, <1>14 DEF TypeInv, TypeOK
    <2>2. \A y, x \in Obj : FieldHolds(y, x)' <=> FieldHolds(y, x)
      <3> SUFFICES ASSUME NEW y \in Obj, NEW x \in Obj PROVE FieldHolds(y, x)' <=> FieldHolds(y, x)
        OBVIOUS
      <3>1. CASE y = o
        BY <1>1, <1>5, <1>8, <2>1, <3>1 DEF FieldHolds
      <3>2. CASE y = p
        BY <1>1, <1>6, <1>7, <1>14, <3>2 DEF FieldHolds, Live
      <3>3. CASE y # o /\ y # p
        BY <1>6, <1>7, <2>1, <3>3 DEF FieldHolds
      <3> QED
        BY <3>1, <3>2, <3>3
    <2>3. \A x \in Obj : Fields(x)' = Fields(x)
      BY <2>2, FieldsSame
    <2>5. \A x : Drops(x)' = Drops(x) /\ Exchanges(x)' = Exchanges(x)
      BY <2>1, KindsSame
    <2>6. \A x \in Obj : Counted(x)' = Counted(x)
      BY <1>9, <2>3, <2>5 DEF Counted
    <2>7. CountSum' /\ LiveCounted'
      <3>1. ~Live(o)'
        BY <1>3, <1>14 DEF Live
      <3> QED
        BY <1>3, <1>5, <1>7, <1>8, <1>14, <2>6, <3>1 DEF ShareInv, CountSum, LiveCounted
    <2>8. QueuesExact'
      <3>0. \A i \in 1 .. Len(pending) : pending[i] \in Obj
        BY DEF TypeInv, TypeOK
      <3>1. \A i \in 1 .. Len(pending) : pending[i] \in Obj /\ pending[i] # o
        BY <1>5, <3>0 DEF InSeq
      <3> QED
        BY <1>3, <2>1, <3>1 DEF ShareInv, QueuesExact, Distinct
    <2>9. RefsGood'
      <3>1. \A x \in Obj : x # o => (Known(x)' <=> Known(x)) /\ st'[x] = st[x]
        BY <1>3 DEF Known
      <3>2. \A t \in Tag : tag[t] # Nil => t \in watched
        BY DEF ShareInv, RefsGood
      <3>3. \A t \in Tag : tag[t] \in Obj => tag[t] # o /\ Known(tag[t])
        BY <1>1 DEF ShareInv, RefsGood, Known
      <3>4. \A h \in G : traced[h] \in Obj => traced[h] # o /\ st[traced[h]] = "handed"
        BY <1>1 DEF ShareInv, RefsGood
      <3>5. \A x \in Obj : fld[x] # Nil => /\ x # o /\ (Known(x) => Known(fld[x]))
                                           /\ ~Live(x) => st[fld[x]] = "handed"
        BY <1>2, <1>5, <1>6 DEF ShareInv, RefsGood, NoCall
      <3>6. ASSUME NEW x \in Obj, fld'[x] # Nil
            PROVE  /\ st'[x] # "none" /\ (Known(x)' => Known(fld[x])')
                   /\ ~FieldCounts(x)' => st'[fld'[x]] = "handed"
        <4>1. CASE x = p
          BY <1>1, <1>3, <1>14, <2>1, <4>1 DEF Known
        <4>2. CASE x # p
          BY <1>3, <1>6, <1>7, <1>10, <1>a, <2>1, <3>1, <3>5, <3>6, <4>2 DEF Known
        <4> QED
          BY <4>1, <4>2
      <3> QED
        BY <1>3, <2>1, <3>1, <3>2, <3>3, <3>4, <3>6 DEF RefsGood, Known
    <2>10. ActsExact'
      <3>1. \A h \in G : CallExact(h)'
        BY <1>11 DEF CallExact, NoCall
      <3>2. \A h \in G : upd[h] # Nil => upd[h] # o /\ upd[h] \in Obj /\ loc[h] # o
        BY <1>1, ZenonT(30) DEF ShareInv, ActsExact, StoreExact, TypeInv, TypeOK, Ref
      <3>3. \A h \in G : StoreExact(h)'
        BY <1>3, <2>1, <3>2 DEF ShareInv, ActsExact, StoreExact
      <3> QED
        BY <3>1, <3>3 DEF ActsExact
    <2>11. MarksExact'
      <3>1. ~Known(o) /\ Known(o)' /\ chunk \in Int
        BY <1>1, <1>3, <1>14 DEF Known, TypeInv, TypeOK
      <3>2. chunk' = chunk + One(Known(o)') - One(Known(o))
        BY <2>1, <3>1 DEF One
      <3>3. recs'[o] = IF st'[o] = "handed" THEN 1 ELSE 0
        BY <1>3, <1>14
      <3> QED
        BY <1>3, <3>2, <3>3, MarksMove DEF ShareInv
    <2> QED
      BY <2>7, <2>8, <2>9, <2>10, <2>11 DEF ShareInv
  <1> QED
    BY <1>1, <1>12, <1>13, <1>14 DEF TypeInv, TypeOK
-----------------------------------------------------------------------------
(* Tagged fields.                                                           *)

(* fgoTagDrain gives what is on fgoTag.pending the reference to be dropped again. *)
LEMMA DrainShare ==
    ASSUME TypeInv, TypeInv', ShareInv, NEW g \in G, NEW t \in Tag, NEW nogc \in BOOLEAN,
           fgoTagDrain(g, t, nogc)
    PROVE  ShareInv'
  <1>1. /\ store'[g] = [tag |-> t, nogc |-> nogc] /\ pending' = <<>> /\ dec'[g] = pending
        /\ dec[g] = <<>> /\ call[g].pc = "run" /\ upd[g] = Nil
        /\ \A x \in Obj : rc'[x] = IF InSeq(x, pending) THEN 1 ELSE rc[x]
        /\ \A h \in G : h # g => store'[h] = store[h] /\ dec'[h] = dec[h]
        /\ UNCHANGED <<st, fld, loc, tag, watched, dead, call, traced, upd, chunk, recs>>
    BY DEF fgoTagDrain, Quiet, TypeInv, TypeOK
  <1>2. \A h \in G : call[h].pc # "run" => call[h].tag # t
    BY DEF fgoTagDrain, MayWrite, Reading
  <1>3. \A x \in Obj : InSeq(x, pending) => st[x] = "shared"
    BY DEF ShareInv, QueuesExact, InSeq
  <1>4. \A x \in Obj : Counted(x)' = Counted(x) + One(InSeq(x, pending))
    <2>1. \A x : Cardinality(Drops(x)') = Cardinality(Drops(x)) + One(InSeq(x, dec'[g])) - One(InSeq(x, dec[g]))
      BY <1>1, DropsMove
    <2>2. \A x : ~InSeq(x, dec[g]) /\ (InSeq(x, dec'[g]) <=> InSeq(x, pending))
      BY <1>1 DEF InSeq
    <2>3. \A x : /\ Tagged(x)' = Tagged(x) /\ Exchanges(x)' = Exchanges(x) /\ Locals(x)' = Locals(x)
                 /\ Hands(x)' = Hands(x) /\ Fields(x)' = Fields(x)
      BY <1>1, KindsSame
    <2> QED
      BY <2>1, <2>2, <2>3, HoldersFinite DEF Counted, One
  <1>5. \A x \in Obj : (Gone(x)' <=> st[x] = "none") /\ Counted(x) \in Nat /\ rc[x] \in Int
    BY <1>1, CountedZero DEF Gone, InSeq, TypeInv, TypeOK
  <1>6. CountSum' /\ LiveCounted'
    BY <1>1, <1>3, <1>4, <1>5 DEF ShareInv, CountSum, LiveCounted, Gone, Live, One
  <1>7. QueuesExact'
    BY <1>1 DEF ShareInv, QueuesExact, Distinct
  <1>8. RefsGood'
    BY <1>1 DEF ShareInv, RefsGood, Known, FieldCounts, Live, InSeq
  <1>9. ASSUME NEW h \in G PROVE CallExact(h)' /\ StoreExact(h)'
    <2>1. CallExact(h) /\ StoreExact(h)
      BY DEF ShareInv, ActsExact
    <2>2. store'[g].tag = t
      BY <1>1
    <2>3. CASE h = g
      BY <1>1, <2>1, <2>3 DEF CallExact, StoreExact, NoCall
    <2>4. CASE h # g
      <3>1. StoreExact(h)'
        BY <1>1, <2>1, <2>4 DEF StoreExact
      <3>2. \A k \in G : call[h].pc # "run" => store'[k].tag # call[h].tag
        BY <1>1, <1>2, <2>1, <2>2 DEF CallExact
      <3>3. CallExact(h)'
        BY <1>1, <2>1, <2>4, <3>2 DEF CallExact, NoCall
      <3> QED
        BY <3>1, <3>3
    <2> QED
      BY <2>3, <2>4
  <1>10. MarksExact'
    BY <1>1 DEF ShareInv, MarksExact
  <1> QED
    BY <1>6, <1>7, <1>8, <1>9, <1>10 DEF ShareInv, ActsExact

\* The store of goroutine g into tagged field t is over, and no call reads t.
Stored(g, t) ==
    /\ t \in Tag /\ call[g].pc = "run" /\ upd[g] = Nil /\ dec[g] = <<>>
    /\ store'[g] = NoStore
    /\ \A h \in G : h # g => store'[h] = store[h] /\ dec'[h] = dec[h] /\ loc'[h] = loc[h]
    /\ \A u \in Tag : u # t => tag'[u] = tag[u] /\ (u \in watched' <=> u \in watched)
    /\ \A h \in G : call[h].pc # "run" => call[h].tag # t
    /\ UNCHANGED <<fld, pending, call, traced, upd, recs>>

(* When it begins to change the field. *)
LEMMA StoreFacts ==
    ASSUME TypeInv, ShareInv, NEW g \in G, store[g] # NoStore
    PROVE  /\ store[g].tag \in Tag /\ call[g].pc = "run" /\ upd[g] = Nil
           /\ \A h \in G : call[h].pc # "run" => call[h].tag # store[g].tag
  BY DEF ShareInv, ActsExact, StoreExact, CallExact

(* A store into a tagged field keeps the calls and stores of other goroutines as *)
(* they are.                                                                     *)
LEMMA StoredActs ==
    ASSUME TypeInv, TypeInv', ShareInv, NEW g \in G, NEW t, Stored(g, t),
           \A x \in Obj : Known(x) => st'[x] = st[x]
    PROVE  ActsExact'
  <1>1. \A x \in Obj : (st[x] = "shared" => st'[x] = "shared") /\ (st[x] = "handed" => st'[x] = "handed")
    BY DEF Known
  <1>2. ASSUME NEW h \in G PROVE CallExact(h)' /\ StoreExact(h)'
    <2>1. CallExact(h) /\ StoreExact(h)
      BY DEF ShareInv, ActsExact
    <2>2. CASE h = g
      BY <2>1, <2>2 DEF CallExact, StoreExact, NoCall, Stored
    <2>3. CASE h # g
      <3>1. /\ store'[h] = store[h] /\ dec'[h] = dec[h] /\ loc'[h] = loc[h]
            /\ UNCHANGED <<call, upd>>
        BY <2>3 DEF Stored
      <3>2. upd[h] # Nil => upd[h] \in Obj
        BY DEF TypeInv, TypeOK, Ref
      <3>3. StoreExact(h)'
        BY <1>1, <2>1, <3>1, <3>2 DEF StoreExact
      <3>4. ASSUME call[h].pc # "run" PROVE tag'[call[h].tag] = tag[call[h].tag] /\ \A k \in G : store'[k].tag # call[h].tag
        <4>1. call[h].tag \in Tag /\ call[h].tag # t /\ call[h].tag # Nil
          BY <2>1, <3>4, ConstAssumption DEF CallExact, Stored
        <4>2. \A k \in G : store[k].tag # call[h].tag
          BY <2>1, <3>4 DEF CallExact
        <4>3. store'[g].tag # call[h].tag
          BY <4>1 DEF Stored, NoStore
        <4> QED
          BY <4>1, <4>2, <4>3 DEF Stored
      <3>5. \A i \in 1 .. Len(call[h].work) : call[h].work[i] \in Obj
        BY DEF TypeInv, TypeOK
      <3>6. CallExact(h)'
        BY <1>1, <2>1, <3>1, <3>4, <3>5 DEF CallExact, NoCall
      <3> QED
        BY <3>3, <3>6
    <2> QED
      BY <2>2, <2>3
  <1> QED
    BY <1>2 DEF ActsExact

(* It also keeps the queues. *)
LEMMA StoredQueues ==
    ASSUME TypeInv, TypeInv', ShareInv, NEW g \in G, NEW t, Stored(g, t),
           \A x \in Obj : Known(x) => st'[x] = st[x], Distinct(dec'[g])
    PROVE  QueuesExact'
  <1>1. \A i \in 1 .. Len(pending) : pending[i] \in Obj /\ st[pending[i]] = "shared"
    BY SMTT(30) DEF ShareInv, QueuesExact, TypeInv, TypeOK
  <1>2. \A i \in 1 .. Len(pending) : st'[pending[i]] = "shared"
    BY <1>1 DEF Known
  <1> QED
    BY <1>2 DEF ShareInv, QueuesExact, Stored, Distinct

(* And what other tagged fields, fields and traced locals refer to. *)
LEMMA StoredRefs ==
    ASSUME TypeInv, TypeInv', ShareInv, NEW g \in G, NEW t, Stored(g, t),
           \A x \in Obj : Known(x) => st'[x] = st[x],
           \A x \in Obj : Live(x)' <=> Live(x),
           \A x \in Obj : ~Known(x) /\ Known(x)' /\ fld[x] # Nil => Known(fld[x])',
           tag'[t] # Nil => t \in watched', tag'[t] \in Obj => Known(tag[t])'
    PROVE  RefsGood'
  <1>0. UNCHANGED <<fld, call, traced>> /\ \A x \in Obj : Known(x) => Known(x)'
    BY DEF Stored, Known
  <1>1. ASSUME NEW u \in Tag PROVE (tag'[u] # Nil => u \in watched') /\ (tag'[u] \in Obj => Known(tag[u])')
    <2>1. CASE u = t
      BY <2>1
    <2>2. CASE u # t
      BY <1>0, <2>2 DEF Stored, ShareInv, RefsGood, Known
    <2> QED
      BY <2>1, <2>2
  <1>2. \A h \in G : traced'[h] \in Obj => st'[traced'[h]] = "handed"
    BY <1>0 DEF ShareInv, RefsGood, Known
  <1>3. ASSUME NEW x \in Obj, fld'[x] # Nil
        PROVE  /\ st'[x] # "none" /\ (Known(x)' => Known(fld[x])')
               /\ ~FieldCounts(x)' => \/ st'[fld'[x]] = "handed"
                                      \/ \E h \in G : call'[h].pc = "child" /\ call'[h].cur = fld'[x]
    <2>1. fld[x] \in Obj /\ fld'[x] = fld[x] /\ st[x] # "none"
      BY <1>0, <1>3 DEF ShareInv, RefsGood, TypeInv, TypeOK, Ref
    <2>2. st'[x] # "none"
      <3>1. Live(x) => Live(x)'
        OBVIOUS
      <3>2. Live(x) \/ st[x] = "handed"
        BY <2>1 DEF Live, TypeInv, TypeOK
      <3> QED
        BY <1>0, <3>1, <3>2 DEF Live, Known
    <2>3. Known(x)' => Known(fld[x])'
      <3>1. CASE Known(x)
        <4>1. Known(fld[x])
          BY <1>3, <2>1, <3>1 DEF ShareInv, RefsGood
        <4> QED
          BY <2>1, <4>1 DEF Known
      <3>2. CASE ~Known(x)
        BY <1>3, <2>1, <3>2
      <3> QED
        BY <3>1, <3>2
    <2>4. FieldCounts(x)' <=> FieldCounts(x)
      BY <1>0 DEF FieldCounts, InSeq
    <2>5. st[fld[x]] = "handed" => st'[fld[x]] = "handed"
      BY <2>1 DEF Known
    <2>6. ~FieldCounts(x) => \/ st[fld[x]] = "handed"
                             \/ \E h \in G : call[h].pc = "child" /\ call[h].cur = fld[x]
      BY <1>3, <2>1 DEF ShareInv, RefsGood
    <2> QED
      BY <1>0, <2>1, <2>2, <2>3, <2>4, <2>5, <2>6
  <1> QED
    BY <1>1, <1>2, <1>3 DEF RefsGood

(* fgoShare finds the counted objects it is given and all the counted ones they lead to. *)
LEMMA ToShareIs ==
    ASSUME TypeInv, NEW p \in Obj
    PROVE  /\ ToShare(p) \in SUBSET Obj
           /\ \A x \in ToShare(p) : st[x] = "counted"
           /\ st[p] = "counted" => p \in ToShare(p)
           /\ \A x \in ToShare(p) : fld[x] \in Obj /\ st[fld[x]] = "counted" => fld[x] \in ToShare(p)
  <1>1. /\ ToShare(p) \in SUBSET Obj
        /\ \A x \in ToShare(p) : st[x] = "counted"
        /\ st[p] = "counted" => p \in ToShare(p)
    BY DEF ToShare
  <1>2. ASSUME NEW x \in ToShare(p), fld[x] \in Obj, st[fld[x]] = "counted" PROVE fld[x] \in ToShare(p)
    <2>1. ASSUME NEW S \in SUBSET Obj, p \in S,
                 \A y \in S : st[y] = "counted" /\ fld[y] # Nil => fld[y] \in S
          PROVE  fld[x] \in S
      <3>1. x \in S /\ st[x] = "counted"
        BY <1>2, <2>1 DEF ToShare
      <3>2. fld[x] # Nil
        BY <1>2, ConstAssumption
      <3> QED
        BY <2>1, <3>1, <3>2
    <2> QED
      BY <1>2, <2>1 DEF ToShare
  <1> QED
    BY <1>1, <1>2

(* Nogc code's reference passes to a tagged field: fgoShare shares what it reaches. *)
LEMMA StoreTagShare ==
    ASSUME TypeInv, TypeInv', ShareInv, NEW g \in G, fgoRCStoreTag(g)
    PROVE  ShareInv'
  <1>0. PICK p, t, v, new : p = loc[g] /\ t = store[g].tag /\ v = tag[t] /\ new = fgoShare(loc[g])
    OBVIOUS
  <1>1. /\ t \in Tag /\ call[g].pc = "run" /\ upd[g] = Nil /\ dec[g] = <<>> /\ p \in Ref
        /\ \A h \in G : call[h].pc # "run" => call[h].tag # t
    BY <1>0, StoreFacts DEF fgoRCStoreTag, TypeInv, TypeOK
  <1>2. /\ \A x \in Obj : st'[x] = IF x \in new THEN "shared" ELSE st[x]
        /\ chunk' = chunk + Cardinality(new)
        /\ loc'[g] = Nil /\ tag'[t] = p /\ dec'[g] = Later(v) /\ store'[g] = NoStore
        /\ watched' = IF v = Nil /\ p # Nil THEN watched \cup {t} ELSE watched
        /\ \A u \in Tag : u # t => tag'[u] = tag[u]
        /\ \A h \in G : h # g => loc'[h] = loc[h] /\ dec'[h] = dec[h] /\ store'[h] = store[h]
        /\ UNCHANGED <<rc, fld, dead, pending, call, traced, upd, recs>>
    BY <1>0, <1>1 DEF fgoRCStoreTag, fgoTagPut, TypeInv, TypeOK
  <1>3. Stored(g, t)
    BY <1>1, <1>2 DEF Stored
  <1>4. /\ new \in SUBSET Obj /\ \A x \in new : st[x] = "counted"
        /\ p \in Obj /\ st[p] = "counted" => p \in new
        /\ \A x \in new : fld[x] \in Obj /\ st[fld[x]] = "counted" => fld[x] \in new
    <2>1. CASE p = Nil
      BY <1>0, <2>1, ConstAssumption DEF fgoShare
    <2>2. CASE p # Nil
      <3>1. p \in Obj /\ new = ToShare(p)
        BY <1>0, <1>1, <2>2 DEF fgoShare, Ref
      <3> QED
        BY <3>1, ToShareIs
    <2> QED
      BY <2>1, <2>2
  <1>5. \A x \in Obj : Known(x) => st'[x] = st[x]
    BY <1>2, <1>4 DEF Known
  <1>6. \A x \in Obj : (Live(x)' <=> Live(x)) /\ (Known(x)' <=> Known(x) \/ x \in new)
    BY <1>2, <1>4 DEF Live, Known
  <1>7. \A x \in Obj : (InSeq(x, dec'[g]) <=> x = v) /\ ~InSeq(x, dec[g])
    BY <1>1, <1>2 DEF InSeq, Later
  <1>8. \A x \in Obj : Counted(x)' = Counted(x)
    <2>1. \A x : Cardinality(Locals(x)') = Cardinality(Locals(x)) + Moves(p, Nil, x)
      BY <1>0, <1>2, LocalsMove
    <2>2. \A x : Cardinality(Tagged(x)') = Cardinality(Tagged(x)) + Moves(v, p, x)
      BY <1>0, <1>1, <1>2, TaggedMove
    <2>3. \A x : Cardinality(Drops(x)') = Cardinality(Drops(x)) + One(InSeq(x, dec'[g])) - One(InSeq(x, dec[g]))
      BY <1>2, DropsMove
    <2>4. \A y, x \in Obj : FieldHolds(y, x)' <=> FieldHolds(y, x)
      BY <1>2, <1>6 DEF FieldHolds, FieldCounts, InSeq
    <2>5. \A x \in Obj : Fields(x)' = Fields(x)
      BY <2>4, FieldsSame
    <2>6. \A x : Hands(x)' = Hands(x) /\ Exchanges(x)' = Exchanges(x)
      BY <1>2, KindsSame
    <2>7. \A x \in Obj : x # Nil
      BY ConstAssumption
    <2> SUFFICES ASSUME NEW x \in Obj PROVE Counted(x)' = Counted(x)
      OBVIOUS
    <2>8. /\ Cardinality(Locals(x)') = Cardinality(Locals(x)) - One(x = p)
          /\ Cardinality(Tagged(x)') = Cardinality(Tagged(x)) + One(x = p) - One(x = v)
          /\ Cardinality(Drops(x)') = Cardinality(Drops(x)) + One(x = v)
      BY <1>7, <2>1, <2>2, <2>3, <2>7, HoldersFinite DEF Moves, One
    <2> QED
      BY <2>5, <2>6, <2>8, HoldersFinite DEF Counted, One
  <1>9. CountSum' /\ LiveCounted'
    <2>1. \A x \in Obj : Gone(x)' <=> Gone(x)
      BY <1>2, <1>4 DEF Gone, InSeq
    <2> QED
      BY <1>2, <1>6, <1>8, <2>1 DEF ShareInv, CountSum, LiveCounted
  <1>10. QueuesExact' /\ ActsExact'
    <2>1. Distinct(dec'[g])
      BY <1>2 DEF Distinct, Later
    <2> QED
      BY <1>3, <1>5, <2>1, StoredActs, StoredQueues
  <1>11. RefsGood'
    <2>1. tag'[t] # Nil => t \in watched'
      BY <1>0, <1>1, <1>2 DEF ShareInv, RefsGood
    <2>2. ASSUME p \in Obj PROVE Known(p)'
      <3>1. st[p] # "none"
        BY <1>0, <2>2, HeldIs, Holds DEF TypeInv, ShareInv
      <3> QED
        BY <1>4, <1>6, <2>2, <3>1 DEF Known, TypeInv, TypeOK
    <2>3. tag'[t] \in Obj => Known(tag[t])'
      BY <1>2, <2>2 DEF Known
    <2>4. ASSUME NEW x \in Obj, ~Known(x), Known(x)', fld[x] # Nil PROVE Known(fld[x])'
      <3>1. x \in new /\ fld'[x] = fld[x]
        BY <1>2, <1>6, <2>4
      <3>2. fld[x] \in Obj /\ st[fld[x]] # "none"
        BY <2>4, FieldThere DEF Gone
      <3>3. Known(fld[x]) \/ fld[x] \in new
        BY <1>4, <3>1, <3>2 DEF Known, TypeInv, TypeOK
      <3> QED
        BY <1>2, <3>1, <3>2, <3>3 DEF Known
    <2> QED
      BY <1>3, <1>5, <1>6, <2>1, <2>3, <2>4, StoredRefs
  <1>12. MarksExact'
    <2> DEFINE S == {x \in Obj : Known(x)}  T == {x \in Obj : Known(x)'}
    <2>1. T = S \cup new /\ S \cap new = {}
      BY <1>4, <1>6 DEF Known
    <2>2. IsFiniteSet(S) /\ IsFiniteSet(new)
      <3>1. S \in SUBSET Obj
        OBVIOUS
      <3> HIDE DEF S
      <3> QED
        BY <1>4, <3>1, ConstAssumption, FS_Subset
    <2>3. chunk = Cardinality(S)
      BY DEF ShareInv, MarksExact, Known
    <2> HIDE DEF S, T
    <2>4. Cardinality(T) = Cardinality(S) + Cardinality(new) - Cardinality(S \cap new)
      BY <2>1, <2>2, FS_Union
    <2>5. Cardinality(S \cap new) = 0 /\ Cardinality(S) \in Nat /\ Cardinality(new) \in Nat
      BY <2>1, <2>2, FS_EmptySet, FS_CardinalityType
    <2>6. chunk' = Cardinality(T)
      BY <1>2, <2>3, <2>4, <2>5
    <2>7. chunk' = Cardinality({x \in Obj : st'[x] \in {"shared", "handed"}})
      BY <2>6 DEF T, Known
    <2>8. \A x \in Obj : st'[x] = "handed" <=> st[x] = "handed"
      BY <1>2, <1>4
    <2> QED
      BY <1>2, <2>7, <2>8 DEF ShareInv, MarksExact
  <1> QED
    BY <1>9, <1>10, <1>11, <1>12 DEF ShareInv

(* A pointer to the GC heap, into a field that is watched and holds no counted object. *)
LEMMA StoreHeapShare ==
    ASSUME TypeInv, TypeInv', ShareInv, NoRace, NEW g \in G, StoreTagHeap(g)
    PROVE  ShareInv'
  <1>0. PICK t, v : t = store[g].tag /\ v = tag[t]
    OBVIOUS
  <1>1. /\ t \in Tag /\ call[g].pc = "run" /\ upd[g] = Nil /\ dec[g] = <<>>
        /\ \A h \in G : call[h].pc # "run" => call[h].tag # t
    BY <1>0, StoreFacts DEF StoreTagHeap
  <1>2. /\ tag'[t] \notin Obj /\ v \notin Obj /\ t \in watched /\ store'[g] = NoStore
        /\ \A u \in Tag : u # t => tag'[u] = tag[u]
        /\ \A h \in G : h # g => store'[h] = store[h]
        /\ UNCHANGED <<st, rc, fld, loc, watched, dead, pending, dec, call, traced, upd, chunk, recs>>
    BY <1>0, <1>1, ConstAssumption DEF StoreTagHeap, NoRace, TypeInv, TypeOK
  <1>3. Stored(g, t)
    BY <1>1, <1>2 DEF Stored
  <1>4. \A x \in Obj : Counted(x)' = Counted(x)
    <2>1. \A x \in Obj : Tagged(x)' = Tagged(x)
      <3> SUFFICES ASSUME NEW x \in Obj PROVE Tagged(x)' = Tagged(x)
        OBVIOUS
      <3>1. \A u \in Tag : tag'[u] = x <=> tag[u] = x
        BY <1>0, <1>2
      <3> QED
        BY <3>1 DEF Tagged
    <2>2. \A x : /\ Locals(x)' = Locals(x) /\ Exchanges(x)' = Exchanges(x) /\ Drops(x)' = Drops(x)
                 /\ Hands(x)' = Hands(x) /\ Fields(x)' = Fields(x)
      BY <1>2, KindsSame
    <2> QED
      BY <2>1, <2>2 DEF Counted
  <1>5. CountSum' /\ LiveCounted'
    BY <1>2, <1>4 DEF ShareInv, CountSum, LiveCounted, Gone, Live, InSeq
  <1>6. \A x \in Obj : st'[x] = st[x] /\ (Live(x)' <=> Live(x)) /\ (Known(x)' <=> Known(x))
    BY <1>2 DEF Live, Known
  <1>7. QueuesExact' /\ ActsExact'
    <2>1. Distinct(dec'[g])
      BY <1>2 DEF ShareInv, QueuesExact, Distinct
    <2> QED
      BY <1>3, <1>6, <2>1, StoredActs, StoredQueues
  <1>8. RefsGood'
    BY <1>2, <1>3, <1>6, StoredRefs
  <1>9. MarksExact'
    BY <1>2 DEF ShareInv, MarksExact
  <1> QED
    BY <1>5, <1>7, <1>8, <1>9 DEF ShareInv

(* fgoTagStore counts the handed-off object that the field takes. *)
LEMMA TagStoreShare ==
    ASSUME TypeInv, TypeInv', ShareInv, NoRace, NEW g \in G, fgoTagStore(g)
    PROVE  ShareInv'
  <1>0. PICK t, v, w : t = store[g].tag /\ v = tag[t] /\ w = traced[g]
    OBVIOUS
  <1>1. /\ t \in Tag /\ call[g].pc = "run" /\ upd[g] = Nil /\ dec[g] = <<>> /\ w \in Ref \cup Heap
        /\ \A h \in G : call[h].pc # "run" => call[h].tag # t
    BY <1>0, StoreFacts DEF fgoTagStore, TypeInv, TypeOK
  <1>2. /\ \A x \in Obj : rc'[x] = IF x = w THEN rc[x] + 1 ELSE rc[x]
        /\ tag'[t] = w /\ dec'[g] = Later(v) /\ store'[g] = NoStore
        /\ watched' = IF v = Nil /\ w # Nil THEN watched \cup {t} ELSE watched
        /\ \A u \in Tag : u # t => tag'[u] = tag[u]
        /\ \A h \in G : h # g => dec'[h] = dec[h] /\ store'[h] = store[h]
        /\ UNCHANGED <<st, fld, loc, dead, pending, call, traced, upd, chunk, recs>>
    BY <1>0, <1>1 DEF fgoTagStore, fgoTagHold, fgoTagPut, TypeInv, TypeOK
  <1>3. Stored(g, t)
    BY <1>1, <1>2 DEF Stored
  <1>4. w \in Obj => st[w] = "handed" /\ ~Gone(w)
    BY <1>0 DEF ShareInv, RefsGood, QueuesExact, Gone, InSeq
  <1>5. \A x \in Obj : (InSeq(x, dec'[g]) <=> x = v) /\ ~InSeq(x, dec[g])
    BY <1>1, <1>2 DEF InSeq, Later
  <1>6. \A x \in Obj : Counted(x)' = Counted(x) + One(x = w)
    <2>1. \A x : Cardinality(Tagged(x)') = Cardinality(Tagged(x)) + Moves(v, w, x)
      BY <1>0, <1>1, <1>2, TaggedMove
    <2>2. \A x : Cardinality(Drops(x)') = Cardinality(Drops(x)) + One(InSeq(x, dec'[g])) - One(InSeq(x, dec[g]))
      BY <1>2, DropsMove
    <2>3. \A x : /\ Locals(x)' = Locals(x) /\ Exchanges(x)' = Exchanges(x)
                 /\ Hands(x)' = Hands(x) /\ Fields(x)' = Fields(x)
      BY <1>2, KindsSame
    <2> QED
      BY <1>5, <2>1, <2>2, <2>3, HoldersFinite DEF Counted, Moves, One
  <1>7. CountSum' /\ LiveCounted'
    <2>1. \A x \in Obj : Gone(x)' <=> Gone(x)
      BY <1>2 DEF Gone, InSeq
    <2>2. \A x \in Obj : Counted(x) \in Nat /\ rc[x] \in Int
      BY CountedZero DEF TypeInv, TypeOK
    <2> QED
      BY <1>2, <1>4, <1>6, <2>1, <2>2 DEF ShareInv, CountSum, LiveCounted, Live, One
  <1>8. \A x \in Obj : st'[x] = st[x] /\ (Live(x)' <=> Live(x)) /\ (Known(x)' <=> Known(x))
    BY <1>2 DEF Live, Known
  <1>9. QueuesExact' /\ ActsExact'
    <2>1. Distinct(dec'[g])
      BY <1>2 DEF Distinct, Later
    <2> QED
      BY <1>3, <1>8, <2>1, StoredActs, StoredQueues
  <1>10. RefsGood'
    <2>1. tag'[t] # Nil => t \in watched'
      BY <1>0, <1>1, <1>2 DEF ShareInv, RefsGood
    <2>2. tag'[t] \in Obj => Known(tag[t])'
      BY <1>2, <1>4 DEF Known
    <2> QED
      BY <1>3, <1>8, <2>1, <2>2, StoredRefs
  <1>11. MarksExact'
    BY <1>2 DEF ShareInv, MarksExact
  <1> QED
    BY <1>7, <1>9, <1>10, <1>11 DEF ShareInv

(* What a push on a stack adds to it. *)
LEMMA PushIs ==
    ASSUME NEW s \in Seq(Obj), NEW v \in Obj, Distinct(s), ~InSeq(v, s)
    PROVE  /\ Distinct(<<v>> \o s)
           /\ \A x : InSeq(x, <<v>> \o s) <=> x = v \/ InSeq(x, s)
  <1> DEFINE T == <<v>> \o s
  <1>1. T \in Seq(Obj) /\ Len(T) = Len(s) + 1 /\ Len(s) \in Nat
    OBVIOUS
  <1>2. T[1] = v /\ \A i \in 1 .. Len(s) : T[i + 1] = s[i]
    OBVIOUS
  <1>3. \A j \in 1 .. Len(T) : j = 1 \/ (j - 1 \in 1 .. Len(s) /\ T[j] = s[j - 1])
    OBVIOUS
  <1> HIDE DEF T
  <1>4. Distinct(T)
    <2> SUFFICES ASSUME NEW i \in 1 .. Len(T), NEW j \in 1 .. Len(T), T[i] = T[j] PROVE i = j
      BY DEF Distinct
    <2>1. CASE i = 1 /\ j # 1
      BY <1>2, <1>3, <2>1 DEF InSeq
    <2>2. CASE i # 1 /\ j = 1
      BY <1>2, <1>3, <2>2 DEF InSeq
    <2>3. CASE i # 1 /\ j # 1
      <3>1. i - 1 \in 1 .. Len(s) /\ j - 1 \in 1 .. Len(s) /\ s[i - 1] = s[j - 1]
        BY <1>3, <2>3
      <3>2. i - 1 = j - 1
        BY <3>1 DEF Distinct
      <3> QED
        BY <3>2, <1>1
    <2> QED
      BY <2>1, <2>2, <2>3
  <1>5. ASSUME NEW x PROVE InSeq(x, T) <=> x = v \/ InSeq(x, s)
    <2>1. InSeq(x, T) => x = v \/ InSeq(x, s)
      BY <1>2, <1>3, ZenonT(30) DEF InSeq
    <2>2. x = v => InSeq(x, T)
      BY <1>1, <1>2 DEF InSeq
    <2>3. ASSUME InSeq(x, s) PROVE InSeq(x, T)
      <3>1. PICK i \in 1 .. Len(s) : s[i] = x
        BY <2>3 DEF InSeq
      <3>2. i + 1 \in 1 .. Len(T) /\ T[i + 1] = x
        BY <1>1, <1>2, <3>1
      <3> QED
        BY <3>2 DEF InSeq
    <2> QED
      BY <2>1, <2>2, <2>3
  <1> QED
    BY <1>4, <1>5 DEF T

(* The sweeper drops a dead field's reference, and queues an object that had no other. *)
LEMMA TagDeadShare ==
    ASSUME TypeInv, TypeInv', ShareInv, NEW t \in Tag, fgoTagDead(t)
    PROVE  ShareInv'
  <1>0. PICK v : v = tag[t]
    OBVIOUS
  <1>1. /\ tag'[t] = Nil /\ watched' = watched \ {t}
        /\ \A u \in Tag : u # t => tag'[u] = tag[u]
        /\ UNCHANGED <<st, fld, loc, dec, call, chunk, recs, traced, upd, store>>
        /\ \A h \in G : call[h].pc # "run" => call[h].tag # t
    BY DEF fgoTagDead, MayWrite, Reading, TypeInv, TypeOK
  <1>2. v # Nil => t \in watched
    BY <1>0 DEF ShareInv, RefsGood
  <1>3. \A x \in Obj : Counted(x)' = Counted(x) - One(x = v)
    <2>1. \A x : Cardinality(Tagged(x)') = Cardinality(Tagged(x)) + Moves(v, Nil, x)
      BY <1>0, <1>1, TaggedMove
    <2>2. \A x : /\ Locals(x)' = Locals(x) /\ Exchanges(x)' = Exchanges(x) /\ Drops(x)' = Drops(x)
                 /\ Hands(x)' = Hands(x) /\ Fields(x)' = Fields(x)
      BY <1>1, KindsSame
    <2>3. \A x \in Obj : x # Nil
      BY ConstAssumption
    <2> QED
      BY <2>1, <2>2, <2>3, HoldersFinite DEF Counted, Moves, One
  <1>4. \A x \in Obj : Counted(x) \in Nat /\ rc[x] \in Int
    BY CountedZero DEF TypeInv, TypeOK
  <1>5. CountSum' /\ LiveCounted' /\ QueuesExact'
    <2>1. CASE v \notin Obj
      <3>1. UNCHANGED <<rc, pending>>
        BY <1>0, <2>1 DEF fgoTagDead
      <3>2. \A x \in Obj : Counted(x)' = Counted(x) /\ (Gone(x)' <=> Gone(x))
        BY <1>1, <1>3, <1>4, <2>1, <3>1 DEF One, Gone, InSeq
      <3> QED
        BY <1>1, <3>1, <3>2 DEF ShareInv, CountSum, LiveCounted, QueuesExact, Live, Distinct
    <2>2. CASE v \in Obj
      <3>1. /\ rc'[v] = rc[v] - 1 /\ \A x \in Obj : x # v => rc'[x] = rc[x]
            /\ pending' = IF st[v] = "shared" /\ rc[v] = 1 THEN <<v>> \o pending ELSE pending
        BY <1>0, <1>2, <2>2, ConstAssumption, SMTT(30) DEF fgoTagDead, TypeInv, TypeOK
      <3>2. ~Gone(v) /\ ~InSeq(v, pending) /\ rc[v] > 0 /\ rc[v] = Counted(v)
        BY <1>0, <2>2, HeldIs, Holds DEF ShareInv, TypeInv
      <3>3. Distinct(pending) /\ pending \in Seq(Obj) /\ \A i \in 1 .. Len(pending) : st[pending[i]] = "shared"
        BY DEF ShareInv, QueuesExact, TypeInv, TypeOK
      <3>4. CASE st[v] = "shared" /\ rc[v] = 1
        <4>1. pending' = <<v>> \o pending
          BY <3>1, <3>4
        <4>2. Distinct(<<v>> \o pending) /\ \A x : InSeq(x, <<v>> \o pending) <=> x = v \/ InSeq(x, pending)
          BY <2>2, <3>2, <3>3, PushIs
        <4>3. Distinct(pending') /\ \A x : InSeq(x, pending') <=> x = v \/ InSeq(x, pending)
          BY <4>1, <4>2
        <4>4. \A i \in 1 .. Len(pending') : st[pending'[i]] = "shared"
          <5>1. \A x : InSeq(x, pending') => st[x] = "shared"
            BY <3>3, <3>4, <4>3 DEF InSeq
          <5> QED
            BY <5>1 DEF InSeq
        <4>5. QueuesExact'
          BY <1>1, <4>3, <4>4 DEF ShareInv, QueuesExact, Distinct
        <4>6. \A x \in Obj : Gone(x)' <=> Gone(x) \/ x = v
          BY <1>1, <4>3 DEF Gone
        <4> QED
          BY <1>1, <1>3, <1>4, <3>1, <3>2, <3>4, <4>5, <4>6 DEF ShareInv, CountSum, LiveCounted, Live, One
      <3>5. CASE ~(st[v] = "shared" /\ rc[v] = 1)
        <4>1. UNCHANGED pending /\ \A x \in Obj : Gone(x)' <=> Gone(x)
          BY <1>1, <3>1, <3>5 DEF Gone, InSeq
        <4>2. st[v] # "counted"
          BY <1>0, <2>2 DEF ShareInv, RefsGood, Known
        <4>3. QueuesExact'
          BY <1>1, <4>1 DEF ShareInv, QueuesExact, Distinct
        <4> QED
          BY <1>1, <1>3, <1>4, <3>1, <3>2, <3>5, <4>1, <4>2, <4>3 DEF ShareInv, CountSum, LiveCounted, Live, One
      <3> QED
        BY <3>4, <3>5
    <2> QED
      BY <2>1, <2>2
  <1>6. RefsGood'
    <2>1. \A u \in Tag : (tag'[u] # Nil => u \in watched') /\ (tag'[u] \in Obj => Known(tag'[u]))
      BY <1>1, ConstAssumption DEF ShareInv, RefsGood
    <2> QED
      BY <1>1, <2>1 DEF ShareInv, RefsGood, Known, FieldCounts, Live, InSeq
  <1>7. ASSUME NEW h \in G PROVE CallExact(h)' /\ StoreExact(h)'
    <2>1. CallExact(h) /\ StoreExact(h)
      BY DEF ShareInv, ActsExact
    <2>2. StoreExact(h)'
      BY <1>1, <2>1 DEF StoreExact
    <2>3. call[h].pc # "run" => call[h].tag \in Tag /\ tag'[call[h].tag] = tag[call[h].tag]
      BY <1>1, <2>1 DEF CallExact
    <2> QED
      BY <1>1, <2>1, <2>2, <2>3 DEF CallExact, NoCall
  <1>8. MarksExact'
    BY <1>1 DEF ShareInv, MarksExact
  <1> QED
    BY <1>5, <1>6, <1>7, <1>8 DEF ShareInv, ActsExact

(* Other code moves its own pointers; a new object of the GC heap is there. *)
LEMMA TracedShare ==
    ASSUME TypeInv, TypeInv', ShareInv, NEW g \in G, \A h \in G : h # g => traced'[h] = traced[h],
           traced'[g] \in Obj => st[traced'[g]] = "handed",
           UNCHANGED <<st, rc, fld, loc, tag, watched, pending, dec, call, upd, store, chunk, recs>>
    PROVE  ShareInv'
  <1>1. \A x : /\ Locals(x)' = Locals(x) /\ Exchanges(x)' = Exchanges(x) /\ Drops(x)' = Drops(x)
               /\ Hands(x)' = Hands(x) /\ Fields(x)' = Fields(x) /\ Tagged(x)' = Tagged(x)
    BY KindsSame
  <1>2. \A x : Counted(x)' = Counted(x)
    BY <1>1 DEF Counted
  <1>3. CountSum' /\ LiveCounted'
    BY <1>2 DEF ShareInv, CountSum, LiveCounted, Gone, Live, InSeq
  <1>4. QueuesExact'
    BY DEF ShareInv, QueuesExact, Distinct
  <1>5. RefsGood'
    BY DEF ShareInv, RefsGood, Known, FieldCounts, Live, InSeq
  <1>6. ActsExact'
    BY DEF ShareInv, ActsExact, CallExact, StoreExact, NoCall
  <1>7. MarksExact'
    BY DEF ShareInv, MarksExact
  <1> QED
    BY <1>3, <1>4, <1>5, <1>6, <1>7 DEF ShareInv

(* A new tagged field is nil. *)
LEMMA NewTaggedShare ==
    ASSUME TypeInv, TypeInv', ShareInv, NEW t \in Tag, NewTagged(t)
    PROVE  ShareInv'
  <1>0. UNCHANGED <<st, rc, fld, loc, tag, watched, pending, dec, call, chunk, recs, traced, upd, store>>
    BY DEF NewTagged
  <1>1. \A x : /\ Locals(x)' = Locals(x) /\ Exchanges(x)' = Exchanges(x) /\ Drops(x)' = Drops(x)
               /\ Hands(x)' = Hands(x) /\ Fields(x)' = Fields(x) /\ Tagged(x)' = Tagged(x)
    BY <1>0, KindsSame
  <1>2. \A x : Counted(x)' = Counted(x)
    BY <1>1 DEF Counted
  <1>3. CountSum' /\ LiveCounted'
    BY <1>0, <1>2 DEF ShareInv, CountSum, LiveCounted, Gone, Live, InSeq
  <1>4. QueuesExact'
    BY <1>0 DEF ShareInv, QueuesExact, Distinct
  <1>5. RefsGood'
    BY <1>0 DEF ShareInv, RefsGood, Known, FieldCounts, Live, InSeq
  <1>6. ActsExact'
    BY <1>0 DEF ShareInv, ActsExact, CallExact, StoreExact, NoCall
  <1>7. MarksExact'
    BY <1>0 DEF ShareInv, MarksExact
  <1> QED
    BY <1>3, <1>4, <1>5, <1>6, <1>7 DEF ShareInv
-----------------------------------------------------------------------------

(***************************************************************************)
(* fgoTagLoad.                                                              *)
(***************************************************************************)

\* g alone may be in fgoTagLoad, and no goroutine stores into a shared object.
OnlyCall(g) ==
    /\ dec[g] = <<>> /\ store[g] = NoStore
    /\ \A h \in G : upd[h] = Nil /\ (h # g => call[h] = NoCall)

(* A call of fgoTagLoad is alone. *)
LEMMA HandAlone ==
    ASSUME ShareInv, NEW g \in G, call[g].pc # "run"
    PROVE  /\ OnlyCall(g) /\ call[g].tag \in Tag /\ tag[call[g].tag] \in Obj
           /\ CallExact(g) /\ \A h \in G : store[h].tag # call[g].tag
  BY DEF ShareInv, ActsExact, CallExact, OnlyCall

(* Then the objects on its worklist are those whose field still counts. *)
LEMMA HandCounts ==
    ASSUME NEW g \in G, \A h \in G : h # g => call[h] = NoCall
    PROVE  \A x : FieldCounts(x) <=> Live(x) \/ InSeq(x, call[g].work)
  BY DEF FieldCounts, InSeq, NoCall

(* What a step of fgoTagLoad keeps: it hands off shared objects that something  *)
(* counts, and every field that no longer counts refers to a handed-off object, *)
(* or to the one that it hands off next.                                        *)
LEMMA HandKeeps ==
    ASSUME TypeInv, TypeInv', ShareInv, NEW g \in G, OnlyCall(g), CallExact(g)',
           \A h \in G : h # g => call'[h] = call[h] /\ traced'[h] = traced[h],
           UNCHANGED <<fld, loc, tag, watched, pending, dec, upd, store>>,
           traced'[g] = traced[g] \/ st'[traced'[g]] = "handed",
           \A x \in Obj : \/ st'[x] = st[x]
                          \/ st[x] = "shared" /\ st'[x] = "handed" /\ ~InSeq(x, pending),
           \A x \in Obj : fld[x] # Nil /\ ~FieldCounts(x)' =>
                            \/ st'[fld[x]] = "handed"
                            \/ call'[g].pc = "child" /\ call'[g].cur = fld[x],
           \A x \in Obj : /\ Counted(x)' = Counted(x) + (rc'[x] - rc[x])
                          /\ rc'[x] = rc[x] \/ st[x] = "handed"
    PROVE  CountSum' /\ LiveCounted' /\ QueuesExact' /\ RefsGood' /\ ActsExact'
  <1>1. \A x \in Obj : Counted(x) \in Nat /\ rc[x] \in Int /\ rc'[x] \in Int
    BY CountedZero DEF TypeInv, TypeOK
  <1>2. \A x \in Obj : Gone(x)' <=> Gone(x)
    BY DEF Gone, InSeq
  <1>3. \A x \in Obj : st[x] = "handed" => ~Gone(x)
    BY DEF ShareInv, QueuesExact, Gone, InSeq
  <1>4. CountSum'
    BY <1>1, <1>2, <1>3 DEF ShareInv, CountSum
  <1>5. LiveCounted'
    BY <1>2 DEF ShareInv, LiveCounted, Live
  <1>6. QueuesExact'
    <2>1. \A i \in 1 .. Len(pending) : pending[i] \in Obj /\ InSeq(pending[i], pending)
      BY DEF InSeq, TypeInv, TypeOK
    <2> QED
      BY <2>1 DEF ShareInv, QueuesExact, Distinct
  <1>7. RefsGood'
    <2>1. \A x \in Obj : Known(x) <=> Known(x)'
      BY DEF Known
    <2>2. \A u \in Tag : (tag'[u] # Nil => u \in watched') /\ (tag'[u] \in Obj => st'[tag'[u]] \in {"shared", "handed"})
      BY <2>1 DEF ShareInv, RefsGood, Known
    <2>3. ASSUME NEW x \in Obj, fld'[x] # Nil
          PROVE  /\ st'[x] # "none" /\ (Known(x)' => st'[fld'[x]] \in {"shared", "handed"})
                 /\ ~FieldCounts(x)' => \/ st'[fld'[x]] = "handed"
                                        \/ \E h \in G : call'[h].pc = "child" /\ call'[h].cur = fld'[x]
      <3>1. fld[x] \in Obj /\ fld'[x] = fld[x]
        BY <2>3 DEF TypeInv, TypeOK, Ref
      <3> QED
        BY <2>1, <2>3, <3>1 DEF ShareInv, RefsGood, Known
    <2>4. \A h \in G : traced'[h] \in Obj => st'[traced'[h]] = "handed"
      BY DEF ShareInv, RefsGood
    <2> QED
      BY <2>2, <2>3, <2>4 DEF RefsGood, Known
  <1>8. ASSUME NEW h \in G PROVE CallExact(h)' /\ StoreExact(h)'
    <2>1. StoreExact(h)'
      BY DEF ShareInv, ActsExact, StoreExact, OnlyCall, NoCall
    <2>2. CASE h # g
      BY <2>1, <2>2 DEF OnlyCall, CallExact, NoCall
    <2> QED
      BY <2>1, <2>2
  <1> QED
    BY <1>4, <1>5, <1>6, <1>7, <1>8 DEF ActsExact

(* fgoTagLoad finds the object that the field refers to. *)
LEMMA TagLoadShare ==
    ASSUME NoRace, TypeInv, TypeInv', ShareInv, NEW g \in G, NEW t \in Tag, fgoTagLoad(g, t)
    PROVE  ShareInv'
  <1>0. PICK v : v = tag[t]
    OBVIOUS
  <1>1. /\ v # Nil /\ call[g].pc = "run" /\ dec[g] = <<>> /\ upd[g] = Nil /\ store[g] = NoStore
        /\ \A h \in G : call[h].pc = "run" /\ upd[h] = Nil /\ store[h].tag # t
        /\ UNCHANGED <<st, rc, fld, loc, tag, watched, dead, pending, dec, upd, store, chunk, recs>>
    BY <1>0 DEF fgoTagLoad, Quiet, MayRead, Writing, NoRace
  <1>2. \A h \in G : call[h] = NoCall
    BY <1>1 DEF ShareInv, ActsExact, CallExact
  <1>3. v \in Obj => Known(v)
    BY <1>0 DEF ShareInv, RefsGood
  <1>4. CASE v \in Obj /\ Live(v)
    <2>1. /\ call' = [call EXCEPT ![g] = [pc |-> "one", tag |-> t, work |-> <<>>, cur |-> v]]
          /\ UNCHANGED traced
      BY <1>0, <1>4 DEF fgoTagLoad
    <2>2. /\ call'[g] = [pc |-> "one", tag |-> t, work |-> <<>>, cur |-> v]
          /\ \A h \in G : h # g => call'[h] = call[h]
      BY <2>1 DEF TypeInv, TypeOK
    <2>3. call'[g].pc = "one" /\ call'[g].tag = t /\ call'[g].work = <<>> /\ call'[g].cur = v
      BY <2>2
    <2>4. OnlyCall(g)
      BY <1>1, <1>2 DEF OnlyCall
    <2>5. CallExact(g)'
      <3>1. st[v] = "shared"
        BY <1>3, <1>4 DEF Known, Live
      <3>2. \A h \in G : h # g => call'[h].pc = "run"
        BY <1>1, <2>2
      <3> QED
        BY <1>0, <1>1, <1>4, <2>3, <3>1, <3>2 DEF CallExact
    <2>6. \A x : FieldCounts(x) <=> Live(x)
      BY <1>2, HandCounts DEF NoCall, InSeq
    <2>7. \A x : FieldCounts(x)' <=> Live(x)
      BY <1>1, <1>2, <2>2, <2>3 DEF FieldCounts, Live, NoCall, InSeq
    <2>8. \A x \in Obj : Counted(x)' = Counted(x)
      <3>1. \A x \in Obj : Fields(x)' = Fields(x)
        BY <1>1, <2>6, <2>7, FieldsSame DEF FieldHolds
      <3>2. \A x : Hands(x)' = Hands(x)
        BY <1>1, <2>2, <2>3 DEF Hands
      <3>3. \A x : Locals(x)' = Locals(x) /\ Tagged(x)' = Tagged(x) /\ Exchanges(x)' = Exchanges(x) /\ Drops(x)' = Drops(x)
        BY <1>1, KindsSame
      <3> QED
        BY <3>1, <3>2, <3>3 DEF Counted
    <2>9. \A x \in Obj : fld[x] # Nil /\ ~FieldCounts(x)' => st'[fld[x]] = "handed"
      BY <1>1, <2>6, <2>7 DEF ShareInv, RefsGood
    <2>10. CountSum' /\ LiveCounted' /\ QueuesExact' /\ RefsGood' /\ ActsExact'
      <3>1. \A x \in Obj : Counted(x)' = Counted(x) + (rc'[x] - rc[x])
        BY <1>1, <2>8, CountedZero DEF TypeInv, TypeOK
      <3> QED
        BY <1>1, <2>1, <2>2, <2>4, <2>5, <2>9, <3>1, HandKeeps
    <2> QED
      BY <1>1, <2>10 DEF ShareInv, MarksExact
  <1>5. CASE ~(v \in Obj /\ Live(v))
    <2>1. traced' = [traced EXCEPT ![g] = v] /\ UNCHANGED call
      BY <1>0, <1>5 DEF fgoTagLoad
    <2>2. traced'[g] = v /\ \A h \in G : h # g => traced'[h] = traced[h]
      BY <2>1 DEF TypeInv, TypeOK
    <2>3. v \in Obj => st[v] = "handed"
      BY <1>3, <1>5 DEF Known, Live
    <2> QED
      BY <1>1, <2>1, <2>2, <2>3, TracedShare
  <1> QED
    BY <1>4, <1>5

(* It hands off that object. *)
LEMMA HandOneShare ==
    ASSUME TypeInv, TypeInv', ShareInv, NEW g \in G, HandOne(g)
    PROVE  ShareInv'
  <1>0. PICK o, t : o = call[g].cur /\ t = call[g].tag
    OBVIOUS
  <1>1. /\ OnlyCall(g) /\ t \in Tag /\ o \in Obj /\ tag[t] = o /\ st[o] = "shared" /\ call[g].work = <<>>
        /\ call[g].pc = "one" /\ \A h \in G : store[h].tag # t
    BY <1>0, HandAlone DEF HandOne, CallExact
  <1>2. /\ st'[o] = "handed" /\ recs'[o] = recs[o] + 1 /\ chunk' = chunk
        /\ \A x \in Obj : x # o => st'[x] = st[x] /\ recs'[x] = recs[x]
        /\ UNCHANGED <<rc, fld, loc, tag, watched, pending, dec, traced, upd, store>>
    BY <1>0, <1>1 DEF HandOne, fgoHandOne, TypeInv, TypeOK
  <1>3. /\ call'[g].pc = "work" /\ call'[g].work = <<o>> /\ call'[g].cur = Nil /\ call'[g].tag = t
        /\ \A h \in G : h # g => call'[h] = call[h]
    BY <1>0 DEF HandOne, TypeInv, TypeOK
  <1>4. ~InSeq(o, pending)
    BY <1>1, HeldIs, Holds DEF TypeInv, ShareInv
  <1>5. \A x : FieldCounts(x) <=> Live(x)
    BY <1>1, HandCounts DEF OnlyCall, InSeq
  <1>6. \A x \in Obj : FieldCounts(x)' <=> Live(x)
    <2>1. \A x : (\E h \in G : InSeq(x, call'[h].work)) <=> x = o
      <3>1. \A x : InSeq(x, call'[g].work) <=> x = o
        BY <1>3 DEF InSeq
      <3>2. \A x : \A h \in G : h # g => ~InSeq(x, call'[h].work)
        BY <1>1, <1>3 DEF OnlyCall, NoCall, InSeq
      <3> QED
        BY <3>1, <3>2
    <2> QED
      BY <1>1, <1>2, <2>1 DEF FieldCounts, Live
  <1>7. \A x \in Obj : Counted(x)' = Counted(x)
    <2>1. \A x \in Obj : Fields(x)' = Fields(x)
      BY <1>2, <1>5, <1>6, FieldsSame DEF FieldHolds
    <2>2. \A x : Hands(x)' = Hands(x)
      BY <1>1, <1>3 DEF Hands
    <2>3. \A x : Locals(x)' = Locals(x) /\ Tagged(x)' = Tagged(x) /\ Exchanges(x)' = Exchanges(x) /\ Drops(x)' = Drops(x)
      BY <1>2, KindsSame
    <2> QED
      BY <2>1, <2>2, <2>3 DEF Counted
  <1>8. CallExact(g)'
    <2>1. \A i \in 1 .. Len(<<o>>) : <<o>>[i] = o
      OBVIOUS
    <2>2. \A h \in G : h # g => call'[h].pc = "run"
      BY <1>1, <1>3 DEF OnlyCall, NoCall
    <2> QED
      BY <1>1, <1>2, <1>3, <2>1, <2>2 DEF CallExact, OnlyCall
  <1>9. \A x \in Obj : fld[x] # Nil /\ ~FieldCounts(x)' => st'[fld[x]] = "handed"
    <2>1. \A h \in G : call[h].pc # "child"
      BY <1>1 DEF OnlyCall, NoCall
    <2>2. \A x \in Obj : fld[x] # Nil => fld[x] \in Obj
      BY DEF TypeInv, TypeOK, Ref
    <2> QED
      BY <1>2, <1>5, <1>6, <2>1, <2>2 DEF ShareInv, RefsGood
  <1>10. CountSum' /\ LiveCounted' /\ QueuesExact' /\ RefsGood' /\ ActsExact'
    <2>1. \A x \in Obj : Counted(x)' = Counted(x) + (rc'[x] - rc[x])
      BY <1>2, <1>7, CountedZero DEF TypeInv, TypeOK
    <2>2. \A x \in Obj : \/ st'[x] = st[x]
                         \/ st[x] = "shared" /\ st'[x] = "handed" /\ ~InSeq(x, pending)
      BY <1>1, <1>2, <1>4
    <2> QED
      BY <1>1, <1>2, <1>3, <1>8, <1>9, <2>1, <2>2, HandKeeps
  <1>11. MarksExact'
    <2>1. Known(o) /\ Known(o)' /\ recs[o] = 0 /\ chunk \in Int
      BY <1>1, <1>2 DEF Known, ShareInv, MarksExact, TypeInv, TypeOK
    <2>2. chunk' = chunk + One(Known(o)') - One(Known(o)) /\ recs'[o] = IF st'[o] = "handed" THEN 1 ELSE 0
      BY <1>2, <2>1 DEF One
    <2> QED
      BY <1>1, <1>2, <2>2, MarksMove DEF ShareInv
  <1> QED
    BY <1>10, <1>11 DEF ShareInv

(* It takes the field of the next object of the worklist. *)
LEMMA HandFieldShare ==
    ASSUME TypeInv, TypeInv', ShareInv, NEW g \in G, HandField(g)
    PROVE  ShareInv'
  <1>0. PICK t, w : t = call[g].tag /\ w = call[g].work
    OBVIOUS
  <1>1. /\ OnlyCall(g) /\ t \in Tag /\ tag[t] \in Obj /\ st[tag[t]] = "handed" /\ w # <<>> /\ Len(w) <= 1
        /\ call[g].pc = "work" /\ (\A h \in G : store[h].tag # t)
        /\ \A i \in 1 .. Len(w) : st[w[i]] = "handed"
    BY <1>0, HandAlone DEF HandField, CallExact
  <1>2. w \in Seq(Obj) /\ Len(w) = 1 /\ w[1] \in Obj
    <2>1. w \in Seq(Obj)
      BY <1>0 DEF TypeInv, TypeOK
    <2>2. Len(w) <= 1
      BY <1>1
    <2>3. Len(w) \in Nat /\ Len(w) > 0
      BY <1>1, <2>1
    <2>4. \A n \in Nat : n > 0 /\ n <= 1 => n = 1
      OBVIOUS
    <2>5. Len(w) = 1
      BY <2>2, <2>3, <2>4, Zenon
    <2> QED
      BY <2>1, <2>5
  <1>3. PICK x, c : x = w[1] /\ c = fld[x]
    OBVIOUS
  <1>4. /\ x \in Obj /\ c \in Ref /\ st[x] = "handed" /\ \A y : InSeq(y, w) <=> y = x
    BY <1>1, <1>2, <1>3, SMTT(30) DEF TypeInv, TypeOK, InSeq
  <1>5. c # Nil => c \in Obj /\ Known(c)
    BY <1>3, <1>4 DEF ShareInv, RefsGood, Known, Ref
  <1>6. /\ call'[g].work = <<>> /\ call'[g].cur = c /\ call'[g].tag = t
        /\ call'[g].pc = IF c = Nil THEN "work" ELSE IF Live(c) THEN "child" ELSE "dec"
        /\ \A h \in G : h # g => call'[h] = call[h]
        /\ UNCHANGED <<st, rc, fld, loc, tag, watched, dead, pending, dec, chunk, recs, traced, upd, store>>
    <2>1. SubSeq(w, 1, Len(w) - 1) = <<>>
      BY <1>2
    <2>2. /\ call'[g].work = SubSeq(w, 1, Len(w) - 1) /\ call'[g].cur = fld[w[Len(w)]] /\ call'[g].tag = t
          /\ call'[g].pc = IF fld[w[Len(w)]] = Nil THEN "work" ELSE IF Live(fld[w[Len(w)]]) THEN "child" ELSE "dec"
          /\ \A h \in G : h # g => call'[h] = call[h]
      BY <1>0, ZenonT(30) DEF HandField, TypeInv, TypeOK
    <2> QED
      BY <1>2, <1>3, <2>1, <2>2 DEF HandField
  <1>7. \A y : (FieldCounts(y) <=> Live(y) \/ y = x) /\ (FieldCounts(y)' <=> Live(y))
    <2>1. \A y : FieldCounts(y) <=> Live(y) \/ y = x
      BY <1>0, <1>1, <1>4, HandCounts DEF OnlyCall
    <2>2. \A y : ~\E h \in G : InSeq(y, call'[h].work)
      BY <1>1, <1>6 DEF OnlyCall, NoCall, InSeq
    <2> QED
      BY <1>6, <2>1, <2>2 DEF FieldCounts, Live
  <1>8. \A y \in Obj : Counted(y)' = Counted(y)
    <2>1. \A y, o \in Obj : y # x => (FieldHolds(y, o)' <=> FieldHolds(y, o))
      BY <1>6, <1>7 DEF FieldHolds
    <2>2. \A y \in Obj : Cardinality(Fields(y)') = Cardinality(Fields(y)) + One(FieldHolds(x, y)') - One(FieldHolds(x, y))
      BY <1>4, <2>1, FieldsMove
    <2>3. \A y \in Obj : ~FieldHolds(x, y)' /\ (FieldHolds(x, y) <=> y = c)
      BY <1>3, <1>4, <1>6, <1>7 DEF FieldHolds, Live
    <2>4. \A y : Cardinality(Hands(y)') = Cardinality(Hands(y)) + One(Handling(g, y)') - One(Handling(g, y))
      BY <1>6, HandsMove
    <2>5. \A y \in Obj : ~Handling(g, y) /\ (Handling(g, y)' <=> y = c)
      BY <1>1, <1>6, ConstAssumption DEF Handling
    <2>6. \A y : Locals(y)' = Locals(y) /\ Tagged(y)' = Tagged(y) /\ Exchanges(y)' = Exchanges(y) /\ Drops(y)' = Drops(y)
      BY <1>6, KindsSame
    <2> QED
      BY <2>2, <2>3, <2>4, <2>5, <2>6, HoldersFinite DEF Counted, One
  <1>9. CallExact(g)'
    <2>1. \A h \in G : h # g => call'[h].pc = "run"
      BY <1>1, <1>6 DEF OnlyCall, NoCall
    <2>2. c # Nil => st[c] = IF Live(c) THEN "shared" ELSE "handed"
      BY <1>5 DEF Live, Known
    <2> QED
      BY <1>1, <1>5, <1>6, <2>1, <2>2 DEF CallExact, OnlyCall
  <1>10. \A y \in Obj : fld[y] # Nil /\ ~FieldCounts(y)' =>
                          \/ st'[fld[y]] = "handed"
                          \/ call'[g].pc = "child" /\ call'[g].cur = fld[y]
    <2>1. \A h \in G : call[h].pc # "child"
      BY <1>1 DEF OnlyCall, NoCall
    <2>2. \A y \in Obj : y # x /\ fld[y] # Nil /\ ~FieldCounts(y)' => st'[fld[y]] = "handed"
      BY <1>6, <1>7, <2>1 DEF ShareInv, RefsGood
    <2>3. c # Nil => st[c] = "handed" \/ Live(c)
      BY <1>5 DEF Live, Known
    <2> QED
      BY <1>3, <1>6, <2>2, <2>3
  <1>11. CountSum' /\ LiveCounted' /\ QueuesExact' /\ RefsGood' /\ ActsExact'
    <2>1. \A y \in Obj : Counted(y)' = Counted(y) + (rc'[y] - rc[y])
      BY <1>6, <1>8, CountedZero DEF TypeInv, TypeOK
    <2> QED
      BY <1>1, <1>6, <1>9, <1>10, <2>1, HandKeeps
  <1> QED
    BY <1>6, <1>11 DEF ShareInv, MarksExact

(* It hands off the object that the field referred to. *)
LEMMA HandChildShare ==
    ASSUME TypeInv, TypeInv', ShareInv, NEW g \in G, HandChild(g)
    PROVE  ShareInv'
  <1>0. PICK o, t : o = call[g].cur /\ t = call[g].tag
    OBVIOUS
  <1>1. /\ OnlyCall(g) /\ t \in Tag /\ tag[t] \in Obj /\ st[tag[t]] = "handed"
        /\ o \in Obj /\ st[o] = "shared" /\ call[g].work = <<>>
        /\ call[g].pc = "child" /\ \A h \in G : store[h].tag # t
    BY <1>0, HandAlone DEF HandChild, CallExact
  <1>2. /\ st'[o] = "handed" /\ recs'[o] = recs[o] + 1 /\ chunk' = chunk
        /\ \A x \in Obj : x # o => st'[x] = st[x] /\ recs'[x] = recs[x]
        /\ UNCHANGED <<rc, fld, loc, tag, watched, pending, dec, traced, upd, store>>
    BY <1>0, <1>1 DEF HandChild, fgoHandOne, TypeInv, TypeOK
  <1>3. /\ call'[g].pc = "dec" /\ call'[g].work = <<o>> /\ call'[g].cur = o /\ call'[g].tag = t
        /\ \A h \in G : h # g => call'[h] = call[h]
    <2>1. /\ call'[g].pc = "dec" /\ call'[g].work = Append(call[g].work, o) /\ call'[g].cur = o /\ call'[g].tag = t
          /\ \A h \in G : h # g => call'[h] = call[h]
      BY <1>0 DEF HandChild, TypeInv, TypeOK
    <2>2. Append(<<>>, o) = <<o>>
      OBVIOUS
    <2> QED
      BY <1>1, <2>1, <2>2
  <1>4. ~InSeq(o, pending)
    BY <1>0, <1>1, HeldIs, Holds DEF TypeInv, ShareInv
  <1>5. \A x : FieldCounts(x) <=> Live(x)
    BY <1>1, HandCounts DEF OnlyCall, InSeq
  <1>6. \A x \in Obj : FieldCounts(x)' <=> Live(x)
    <2>1. \A x : (\E h \in G : InSeq(x, call'[h].work)) <=> x = o
      <3>1. \A x : InSeq(x, call'[g].work) <=> x = o
        BY <1>3 DEF InSeq
      <3>2. \A x : \A h \in G : h # g => ~InSeq(x, call'[h].work)
        BY <1>1, <1>3 DEF OnlyCall, NoCall, InSeq
      <3> QED
        BY <3>1, <3>2
    <2> QED
      BY <1>1, <1>2, <2>1 DEF FieldCounts, Live
  <1>7. \A x \in Obj : Counted(x)' = Counted(x)
    <2>1. \A x \in Obj : Fields(x)' = Fields(x)
      BY <1>2, <1>5, <1>6, FieldsSame DEF FieldHolds
    <2>2. \A x : Hands(x)' = Hands(x)
      BY <1>0, <1>1, <1>3 DEF Hands
    <2>3. \A x : Locals(x)' = Locals(x) /\ Tagged(x)' = Tagged(x) /\ Exchanges(x)' = Exchanges(x) /\ Drops(x)' = Drops(x)
      BY <1>2, KindsSame
    <2> QED
      BY <2>1, <2>2, <2>3 DEF Counted
  <1>8. CallExact(g)'
    <2>1. \A i \in 1 .. Len(<<o>>) : <<o>>[i] = o
      OBVIOUS
    <2>2. \A h \in G : h # g => call'[h].pc = "run"
      BY <1>1, <1>3 DEF OnlyCall, NoCall
    <2>3. st'[tag[t]] = "handed"
      BY <1>1, <1>2
    <2> QED
      BY <1>1, <1>2, <1>3, <2>1, <2>2, <2>3 DEF CallExact, OnlyCall
  <1>9. \A x \in Obj : fld[x] # Nil /\ ~FieldCounts(x)' => st'[fld[x]] = "handed"
    <2>1. \A h \in G : call[h].pc = "child" => call[h].cur = o
      BY <1>0, <1>1 DEF OnlyCall, NoCall
    <2>2. \A x \in Obj : fld[x] # Nil => fld[x] \in Obj
      BY DEF TypeInv, TypeOK, Ref
    <2> QED
      BY <1>2, <1>5, <1>6, <2>1, <2>2 DEF ShareInv, RefsGood
  <1>10. CountSum' /\ LiveCounted' /\ QueuesExact' /\ RefsGood' /\ ActsExact'
    <2>1. \A x \in Obj : Counted(x)' = Counted(x) + (rc'[x] - rc[x])
      BY <1>2, <1>7, CountedZero DEF TypeInv, TypeOK
    <2>2. \A x \in Obj : \/ st'[x] = st[x]
                         \/ st[x] = "shared" /\ st'[x] = "handed" /\ ~InSeq(x, pending)
      BY <1>1, <1>2, <1>4
    <2> QED
      BY <1>1, <1>2, <1>3, <1>8, <1>9, <2>1, <2>2, HandKeeps
  <1>11. MarksExact'
    <2>1. Known(o) /\ Known(o)' /\ recs[o] = 0 /\ chunk \in Int
      BY <1>1, <1>2 DEF Known, ShareInv, MarksExact, TypeInv, TypeOK
    <2>2. chunk' = chunk + One(Known(o)') - One(Known(o)) /\ recs'[o] = IF st'[o] = "handed" THEN 1 ELSE 0
      BY <1>2, <2>1 DEF One
    <2> QED
      BY <1>1, <1>2, <2>2, MarksMove DEF ShareInv
  <1> QED
    BY <1>10, <1>11 DEF ShareInv

(* Dropping a reference to a handed-off object releases nothing. *)
LEMMA ReleaseNone ==
    ASSUME TypeInv, NEW o \in Obj, Release({}, o)
    PROVE  /\ UNCHANGED <<st, fld, chunk>> /\ rc'[o] = rc[o] - 1
           /\ \A x \in Obj : x # o => rc'[x] = rc[x]
  <1>1. \A x : LostBy(x, {}) = 0
    <2>1. \A x : {y \in {} : fld[y] = x} = {}
      OBVIOUS
    <2> QED
      BY <2>1, FS_EmptySet DEF LostBy
  <1>2. Cardinality({x \in {} : st[x] = "shared"}) = 0
    <2>1. {x \in {} : st[x] = "shared"} = {}
      OBVIOUS
    <2> QED
      BY <2>1, FS_EmptySet
  <1> QED
    BY <1>1, <1>2 DEF Release, TypeInv, TypeOK

(* It drops the reference that the field had. *)
LEMMA HandDecShare ==
    ASSUME TypeInv, TypeInv', ShareInv, NEW g \in G, HandDec(g)
    PROVE  ShareInv'
  <1>0. PICK o, t, w : o = call[g].cur /\ t = call[g].tag /\ w = call[g].work
    OBVIOUS
  <1>1. /\ OnlyCall(g) /\ t \in Tag /\ tag[t] \in Obj /\ st[tag[t]] = "handed"
        /\ o \in Obj /\ st[o] = "handed" /\ Len(w) <= 1 /\ (\A i \in 1 .. Len(w) : st[w[i]] = "handed")
        /\ call[g].pc = "dec" /\ \A h \in G : store[h].tag # t
    BY <1>0, HandAlone DEF HandDec, CallExact
  <1>2. /\ UNCHANGED <<st, fld, chunk>> /\ rc'[o] = rc[o] - 1
        /\ \A x \in Obj : x # o => rc'[x] = rc[x]
    <2>1. Release({}, o)
      BY <1>0, <1>1 DEF HandDec, fgoRCDec, Live
    <2> QED
      BY <1>1, <2>1, ReleaseNone
  <1>3. /\ call'[g].pc = "work" /\ call'[g].work = w /\ call'[g].cur = Nil /\ call'[g].tag = t
        /\ \A h \in G : h # g => call'[h] = call[h]
        /\ UNCHANGED <<loc, tag, watched, dead, pending, dec, recs, traced, upd, store>>
    BY <1>0 DEF HandDec, TypeInv, TypeOK
  <1>4. \A x : FieldCounts(x)' <=> FieldCounts(x)
    <2>1. \A h \in G : call'[h].work = call[h].work
      BY <1>0, <1>3
    <2> QED
      BY <1>2, <2>1 DEF FieldCounts, Live, InSeq
  <1>5. \A x \in Obj : Counted(x)' = Counted(x) - One(x = o)
    <2>1. \A x \in Obj : Fields(x)' = Fields(x)
      BY <1>2, <1>4, FieldsSame DEF FieldHolds
    <2>2. \A x : Cardinality(Hands(x)') = Cardinality(Hands(x)) + One(Handling(g, x)') - One(Handling(g, x))
      BY <1>3, HandsMove
    <2>3. \A x : ~Handling(g, x)' /\ (Handling(g, x) <=> x = o)
      BY <1>0, <1>1, <1>3 DEF Handling
    <2>4. \A x : Locals(x)' = Locals(x) /\ Tagged(x)' = Tagged(x) /\ Exchanges(x)' = Exchanges(x) /\ Drops(x)' = Drops(x)
      BY <1>3, KindsSame
    <2> QED
      BY <2>1, <2>2, <2>3, <2>4, HoldersFinite DEF Counted, One
  <1>6. CallExact(g)'
    <2>1. \A h \in G : h # g => call'[h].pc = "run"
      BY <1>1, <1>3 DEF OnlyCall, NoCall
    <2> QED
      BY <1>1, <1>2, <1>3, <2>1 DEF CallExact, OnlyCall
  <1>7. \A x \in Obj : fld[x] # Nil /\ ~FieldCounts(x)' => st'[fld[x]] = "handed"
    <2>1. \A h \in G : call[h].pc # "child"
      BY <1>1 DEF OnlyCall, NoCall
    <2> QED
      BY <1>2, <1>4, <2>1 DEF ShareInv, RefsGood
  <1>8. CountSum' /\ LiveCounted' /\ QueuesExact' /\ RefsGood' /\ ActsExact'
    <2>1. \A x \in Obj : Counted(x) \in Nat /\ rc[x] \in Int
      BY CountedZero DEF TypeInv, TypeOK
    <2>2. \A x \in Obj : rc'[x] = rc[x] - One(x = o)
      BY <1>2, <2>1 DEF One
    <2>3. \A x \in Obj : Counted(x)' = Counted(x) + (rc'[x] - rc[x])
      BY <1>5, <2>1, <2>2 DEF One
    <2>4. \A x \in Obj : rc'[x] = rc[x] \/ st[x] = "handed"
      BY <1>1, <1>2
    <2> QED
      BY <1>1, <1>2, <1>3, <1>6, <1>7, <2>3, <2>4, HandKeeps
  <1> QED
    BY <1>2, <1>3, <1>8 DEF ShareInv, MarksExact

(* Other code has the pointer, to a handed-off object. *)
LEMMA HandDoneShare ==
    ASSUME TypeInv, TypeInv', ShareInv, NEW g \in G, HandDone(g)
    PROVE  ShareInv'
  <1>1. /\ OnlyCall(g) /\ call[g].tag \in Tag /\ st[tag[call[g].tag]] = "handed"
        /\ call[g].pc = "work" /\ call[g].work = <<>>
    BY HandAlone DEF HandDone, CallExact
  <1>2. /\ call'[g] = NoCall /\ traced'[g] = tag[call[g].tag]
        /\ \A h \in G : h # g => call'[h] = call[h] /\ traced'[h] = traced[h]
        /\ UNCHANGED <<st, rc, fld, loc, tag, watched, dead, pending, dec, upd, store, chunk, recs>>
    BY DEF HandDone, TypeInv, TypeOK
  <1>3. \A x : (FieldCounts(x) <=> Live(x)) /\ (FieldCounts(x)' <=> Live(x))
    <2>1. \A h \in G : \A x : ~InSeq(x, call[h].work) /\ ~InSeq(x, call'[h].work)
      BY <1>1, <1>2 DEF OnlyCall, NoCall, InSeq
    <2> QED
      BY <1>2, <2>1 DEF FieldCounts, Live
  <1>4. \A x \in Obj : Counted(x)' = Counted(x)
    <2>1. \A x \in Obj : Fields(x)' = Fields(x)
      BY <1>2, <1>3, FieldsSame DEF FieldHolds
    <2>2. \A x : Hands(x)' = Hands(x)
      BY <1>1, <1>2 DEF Hands, NoCall
    <2>3. \A x : Locals(x)' = Locals(x) /\ Tagged(x)' = Tagged(x) /\ Exchanges(x)' = Exchanges(x) /\ Drops(x)' = Drops(x)
      BY <1>2, KindsSame
    <2> QED
      BY <2>1, <2>2, <2>3 DEF Counted
  <1>5. CallExact(g)'
    BY <1>2 DEF CallExact, NoCall
  <1>6. \A x \in Obj : fld[x] # Nil /\ ~FieldCounts(x)' => st'[fld[x]] = "handed"
    <2>1. \A h \in G : call[h].pc # "child"
      BY <1>1 DEF OnlyCall, NoCall
    <2> QED
      BY <1>2, <1>3, <2>1 DEF ShareInv, RefsGood
  <1>7. CountSum' /\ LiveCounted' /\ QueuesExact' /\ RefsGood' /\ ActsExact'
    <2>1. \A x \in Obj : Counted(x)' = Counted(x) + (rc'[x] - rc[x])
      BY <1>2, <1>4, CountedZero DEF TypeInv, TypeOK
    <2> QED
      BY <1>1, <1>2, <1>5, <1>6, <2>1, HandKeeps
  <1> QED
    BY <1>2, <1>7 DEF ShareInv, MarksExact

(* The sweeper frees a handed-off object that nothing refers to. *)
LEMMA EscFreeShare ==
    ASSUME TypeInv, TypeInv', ShareInv, NEW o \in Obj, fgoEscFree(o)
    PROVE  ShareInv'
  <1>1. /\ st[o] = "handed" /\ rc[o] = 0
        /\ (\A g \in G : traced[g] # o /\ call[g].cur # o /\ ~InSeq(o, call[g].work))
        /\ (\A x \in Obj : fld[x] # o)
        /\ st'[o] = "none" /\ fld'[o] = Nil /\ chunk' = chunk - 1 /\ recs'[o] = recs[o] - 1
        /\ (\A x \in Obj : x # o => st'[x] = st[x] /\ fld'[x] = fld[x] /\ recs'[x] = recs[x])
        /\ UNCHANGED <<rc, loc, tag, watched, dead, pending, dec, call, traced, upd, store>>
    BY DEF fgoEscFree, TypeInv, TypeOK
  <1>2. ~Held(o)
    BY <1>1, NotHeld DEF ShareInv
  <1>3. \A g \in G : loc[g] # o /\ upd[g] # o /\ ~InSeq(o, dec[g])
    BY <1>2, Holds DEF TypeInv, InSeq
  <1>4. \A t \in Tag : tag[t] # o
    BY <1>2, Holds DEF TypeInv
  <1>5. ~InSeq(o, pending)
    BY <1>1 DEF ShareInv, QueuesExact, InSeq
  <1>6. \A x \in Obj : FieldCounts(x)' <=> FieldCounts(x)
    BY <1>1 DEF FieldCounts, Live, InSeq
  <1>7. \A x \in Obj : Counted(x)' = Counted(x)
    <2>1. ~FieldCounts(o)
      BY <1>1 DEF FieldCounts, Live
    <2>2. \A x \in Obj : Fields(x)' = Fields(x)
      BY <1>1, <1>6, <2>1, FieldsSame DEF FieldHolds
    <2>3. \A x : /\ Locals(x)' = Locals(x) /\ Tagged(x)' = Tagged(x) /\ Exchanges(x)' = Exchanges(x)
                 /\ Drops(x)' = Drops(x) /\ Hands(x)' = Hands(x)
      BY <1>1, KindsSame
    <2> QED
      BY <2>2, <2>3 DEF Counted
  <1>8. \A x \in Obj : Gone(x)' <=> Gone(x) \/ x = o
    BY <1>1 DEF Gone, InSeq
  <1>9. CountSum' /\ LiveCounted'
    <2>1. Counted(o) = 0
      BY <1>1 DEF ShareInv, CountSum
    <2> QED
      BY <1>1, <1>7, <1>8, <2>1 DEF ShareInv, CountSum, LiveCounted, Live
  <1>10. QueuesExact'
    <2>1. \A i \in 1 .. Len(pending) : pending[i] \in Obj
      BY DEF TypeInv, TypeOK
    <2>2. \A i \in 1 .. Len(pending) : pending[i] # o
      BY <1>5 DEF InSeq
    <2> QED
      BY <1>1, <2>1, <2>2 DEF ShareInv, QueuesExact, Distinct
  <1>11. RefsGood'
    <2>1. \A u \in Tag : (tag'[u] # Nil => u \in watched') /\ (tag'[u] \in Obj => st'[tag'[u]] \in {"shared", "handed"})
      BY <1>1, <1>4 DEF ShareInv, RefsGood, Known
    <2>2. ASSUME NEW x \in Obj, fld'[x] # Nil
          PROVE  /\ st'[x] # "none" /\ (st'[x] \in {"shared", "handed"} => st'[fld'[x]] \in {"shared", "handed"})
                 /\ ~FieldCounts(x)' => \/ st'[fld'[x]] = "handed"
                                        \/ \E h \in G : call'[h].pc = "child" /\ call'[h].cur = fld'[x]
      <3>1. x # o /\ fld'[x] = fld[x] /\ fld[x] # o /\ fld[x] \in Obj
        BY <1>1, <2>2 DEF TypeInv, TypeOK, Ref
      <3>2. st'[fld[x]] = st[fld[x]] /\ st'[x] = st[x]
        BY <1>1, <3>1
      <3> QED
        BY <1>1, <1>6, <2>2, <3>1, <3>2 DEF ShareInv, RefsGood, Known
    <2>3. \A h \in G : traced'[h] \in Obj => st'[traced'[h]] = "handed"
      BY <1>1 DEF ShareInv, RefsGood
    <2> QED
      BY <2>1, <2>2, <2>3 DEF RefsGood, Known
  <1>12. ASSUME NEW h \in G PROVE CallExact(h)' /\ StoreExact(h)'
    <2>1. CallExact(h) /\ StoreExact(h)
      BY DEF ShareInv, ActsExact
    <2>2. StoreExact(h)'
      <3>1. upd[h] # Nil => upd[h] \in Obj
        BY DEF TypeInv, TypeOK, Ref
      <3> QED
        BY <1>1, <1>3, <2>1, <3>1 DEF StoreExact
    <2>3. \A i \in 1 .. Len(call[h].work) : call[h].work[i] \in Obj /\ call[h].work[i] # o
      BY <1>1 DEF InSeq, TypeInv, TypeOK
    <2>4. call[h].pc # "run" => st'[tag[call[h].tag]] = st[tag[call[h].tag]]
      BY <1>1, <1>4, <2>1 DEF CallExact
    <2>5. call[h].pc \in {"one", "child", "dec"} => st'[call[h].cur] = st[call[h].cur]
      BY <1>1, <2>1 DEF CallExact
    <2> QED
      BY <1>1, <2>1, <2>2, <2>3, <2>4, <2>5 DEF CallExact, NoCall
  <1>13. MarksExact'
    <2>1. Known(o) /\ ~Known(o)' /\ recs[o] = 1 /\ chunk \in Int
      BY <1>1 DEF Known, ShareInv, MarksExact, TypeInv, TypeOK
    <2>2. chunk' = chunk + One(Known(o)') - One(Known(o)) /\ recs'[o] = IF st'[o] = "handed" THEN 1 ELSE 0
      BY <1>1, <2>1 DEF One
    <2> QED
      BY <1>1, <2>2, MarksMove DEF ShareInv
  <1> QED
    BY <1>9, <1>10, <1>11, <1>12, <1>13 DEF ShareInv, ActsExact

(***************************************************************************)
(* The release of what nothing counts any more.                             *)
(***************************************************************************)

(* What is left of a queue once its head is gone. *)
LEMMA TailIs ==
    ASSUME NEW s \in Seq(Obj), s # <<>>, Distinct(s)
    PROVE  /\ Head(s) \in Obj /\ InSeq(Head(s), s) /\ Distinct(Tail(s))
           /\ \A x : InSeq(x, Tail(s)) <=> InSeq(x, s) /\ x # Head(s)
  <1> DEFINE T == Tail(s)  h == Head(s)
  <1>1. T \in Seq(Obj) /\ Len(T) = Len(s) - 1 /\ Len(s) \in Nat /\ Len(s) > 0 /\ h = s[1] /\ h \in Obj
    OBVIOUS
  <1>2. \A i \in 1 .. Len(T) : i + 1 \in 1 .. Len(s) /\ T[i] = s[i + 1]
    OBVIOUS
  <1> HIDE DEF T, h
  <1>3. Distinct(T)
    <2> SUFFICES ASSUME NEW i \in 1 .. Len(T), NEW j \in 1 .. Len(T), T[i] = T[j] PROVE i = j
      BY DEF Distinct
    <2>1. i + 1 = j + 1
      BY <1>2 DEF Distinct
    <2> QED
      BY <1>1, <2>1
  <1>4. ASSUME NEW x PROVE InSeq(x, T) <=> InSeq(x, s) /\ x # h
    <2>1. ASSUME InSeq(x, T) PROVE InSeq(x, s) /\ x # h
      <3>1. PICK i \in 1 .. Len(T) : T[i] = x
        BY <2>1 DEF InSeq
      <3>2. i + 1 \in 1 .. Len(s) /\ s[i + 1] = x /\ i + 1 # 1 /\ 1 \in 1 .. Len(s)
        BY <1>1, <1>2, <3>1
      <3> QED
        BY <1>1, <3>2 DEF InSeq, Distinct
    <2>2. ASSUME InSeq(x, s), x # h PROVE InSeq(x, T)
      <3>1. PICK i \in 1 .. Len(s) : s[i] = x
        BY <2>2 DEF InSeq
      <3>2. i # 1 /\ i - 1 \in 1 .. Len(T)
        BY <1>1, <2>2, <3>1
      <3>3. (i - 1) + 1 = i
        BY <1>1
      <3>4. T[i - 1] = x
        BY <1>2, <3>1, <3>2, <3>3
      <3> QED
        BY <3>2, <3>4 DEF InSeq
    <2> QED
      BY <2>1, <2>2
  <1>5. InSeq(h, s)
    BY <1>1 DEF InSeq
  <1> QED
    BY <1>1, <1>3, <1>4, <1>5 DEF T, h

\* The objects D that go with o, which goroutine g alone counts: a chain from o along
\* the fields, into which no other reference leads.
ReleaseChain(g, o, D) ==
    /\ D \subseteq Obj /\ o \in D
    /\ \A x \in D : /\ Live(x) /\ ~Gone(x) /\ Counted(x) = 1
                    /\ Locals(x) = {} /\ Tagged(x) = {} /\ Exchanges(x) = {} /\ Hands(x) = {}
                    /\ Fields(x) \subseteq D /\ Drops(x) = IF x = o THEN {g} ELSE {}
    /\ \A y \in D : fld[y] # Nil /\ Live(fld[y]) /\ rc[fld[y]] = 1 => fld[y] \in D
    /\ \E e \in D : \A y \in D : fld[y] \notin D <=> y = e

(* What fgoRCRelease frees is such a chain. *)
LEMMA ReleasedChain ==
    ASSUME TypeInv, ShareInv, NEW g \in G, NEW o \in Obj, InSeq(o, dec[g]), Live(o), rc[o] = 1
    PROVE  ReleaseChain(g, o, Released(o))
  <1> DEFINE D == Released(o)
             Next1(y) == fld[y] # Nil /\ Live(fld[y]) /\ rc[fld[y]] = 1
             Closed(S) == o \in S /\ \A y \in S : Next1(y) => fld[y] \in S
  <1>1. D \subseteq Obj /\ o \in D
    BY DEF Released
  <1>2. \A S \in SUBSET Obj : Closed(S) => D \subseteq S
    BY DEF Released
  <1>3. ASSUME NEW y \in D, Next1(y) PROVE fld[y] \in D
    <2>1. y \in Obj /\ fld[y] \in Obj
      BY <1>1, <1>3 DEF TypeInv, TypeOK, Ref
    <2>2. ASSUME NEW S \in SUBSET Obj, Closed(S) PROVE fld[y] \in S
      BY <1>2, <1>3, <2>2
    <2> QED
      BY <2>1, <2>2 DEF Released
  <1> HIDE DEF D
  <1>4. o \in Obj /\ ~Gone(o) /\ g \in Drops(o)
    <2>1. Held(o)
      BY Holds DEF InSeq, TypeInv
    <2> QED
      BY <2>1, HeldIs DEF ShareInv, Drops
  <1>5. \A x \in D : Live(x) /\ ~Gone(x) /\ rc[x] = 1
    <2> DEFINE S == {x \in Obj : Live(x) /\ ~Gone(x) /\ rc[x] = 1}
    <2>1. o \in S
      BY <1>4
    <2>2. ASSUME NEW y \in S, Next1(y) PROVE fld[y] \in S
      <3>1. y \in Obj /\ Live(y) /\ fld[y] # Nil /\ Live(fld[y]) /\ rc[fld[y]] = 1
        BY <2>2
      <3>2. fld[y] \in Obj /\ ~Gone(fld[y])
        BY <3>1, FieldThere
      <3> QED
        BY <3>1, <3>2
    <2>3. D \subseteq S
      BY <1>2, <2>1, <2>2
    <2> QED
      BY <2>3
  <1>6. \A x \in D : Counted(x) = 1
    BY <1>1, <1>5 DEF ShareInv, CountSum
  <1>7. \A x \in D : x # o => \E y \in D : fld[y] = x
    <2> DEFINE S == {x \in D : x = o \/ \E y \in D : fld[y] = x}
    <2>1. S \in SUBSET Obj
      BY <1>1
    <2>2. o \in S
      BY <1>1
    <2>3. ASSUME NEW y \in S, Next1(y) PROVE fld[y] \in S
      BY <1>3, <2>3
    <2>4. D \subseteq S
      BY <1>2, <2>1, <2>2, <2>3
    <2> QED
      BY <2>4
  <1>8. /\ Drops(o) = {g} /\ Locals(o) = {} /\ Tagged(o) = {}
        /\ Exchanges(o) = {} /\ Fields(o) = {} /\ Hands(o) = {}
    BY <1>1, <1>4, <1>6, Sole
  <1>9. ASSUME NEW x \in D, NEW y \in D, fld[y] = x
        PROVE  /\ Fields(x) = {y} /\ Locals(x) = {} /\ Tagged(x) = {}
               /\ Exchanges(x) = {} /\ Drops(x) = {} /\ Hands(x) = {}
    <2>1. y \in Fields(x)
      BY <1>1, <1>5, <1>9 DEF Fields, FieldCounts
    <2> QED
      BY <1>6, <2>1, Sole
  <1>10. ASSUME NEW x \in D
         PROVE  /\ Live(x) /\ ~Gone(x) /\ Counted(x) = 1
                /\ Locals(x) = {} /\ Tagged(x) = {} /\ Exchanges(x) = {} /\ Hands(x) = {}
                /\ Fields(x) \subseteq D /\ Drops(x) = IF x = o THEN {g} ELSE {}
    <2>1. CASE x = o
      BY <1>5, <1>6, <1>8, <2>1
    <2>2. CASE x # o
      <3>1. PICK y \in D : fld[y] = x
        BY <1>7, <2>2
      <3>2. /\ Fields(x) = {y} /\ Locals(x) = {} /\ Tagged(x) = {}
            /\ Exchanges(x) = {} /\ Drops(x) = {} /\ Hands(x) = {}
        BY <1>9, <3>1
      <3> QED
        BY <1>5, <1>6, <2>2, <3>1, <3>2
    <2> QED
      BY <2>1, <2>2
  <1>11. \A y, z \in D : fld[y] = fld[z] /\ fld[y] \in D => y = z
    <2> SUFFICES ASSUME NEW y \in D, NEW z \in D, fld[y] = fld[z], fld[y] \in D PROVE y = z
      OBVIOUS
    <2>1. Fields(fld[y]) = {y} /\ Fields(fld[y]) = {z}
      BY <1>9
    <2> QED
      BY <2>1
  <1>12. \A y \in D : fld[y] # o
    BY <1>1, <1>5, <1>8 DEF Fields, FieldCounts
  <1>13. IsFiniteSet(D)
    BY <1>1, FS_Subset, ConstAssumption
  <1>14. \E e \in D : \A y \in D : fld[y] \notin D <=> y = e
    BY <1>1, <1>7, <1>11, <1>12, <1>13, ChainEnd
  <1>15. ReleaseChain(g, o, D)
    BY <1>1, <1>3, <1>10, <1>14 DEF ReleaseChain
  <1> QED
    BY <1>15 DEF D

\* Goroutine g drops the first reference that it has to drop, to o, and D goes with it.
Dropped(g, o, D) ==
    /\ dec[g] # <<>> /\ o = Head(dec[g])
    /\ \/ D = {} /\ ~(Live(o) /\ rc[o] = 1)
       \/ ReleaseChain(g, o, D)
    /\ Release(D, o)
    /\ dec' = [dec EXCEPT ![g] = Tail(@)]
    /\ UNCHANGED <<loc, tag, watched, dead, pending, call, recs, traced, upd, store>>

(* A drop releases such a chain, or nothing. *)
LEMMA DropIs ==
    ASSUME TypeInv, ShareInv, NEW g \in G, DropNext(g)
    PROVE  \E o \in Obj, D \in SUBSET Obj : Dropped(g, o, D)
  <1>1. PICK o : o = Head(dec[g])
    OBVIOUS
  <1>2. dec[g] # <<>> /\ dec[g] \in Seq(Obj) /\ Distinct(dec[g])
    BY DEF DropNext, TypeInv, TypeOK, ShareInv, QueuesExact
  <1>3. o \in Obj /\ InSeq(o, dec[g])
    BY <1>1, <1>2, TailIs
  <1>4. CASE Live(o) /\ rc[o] = 1
    <2>1. ReleaseChain(g, o, Released(o))
      BY <1>3, <1>4, ReleasedChain
    <2>2. Release(Released(o), o)
      BY <1>1, <1>4 DEF DropNext, fgoRCDec
    <2>3. Dropped(g, o, Released(o))
      BY <1>1, <1>2, <2>1, <2>2 DEF Dropped, DropNext
    <2>4. Released(o) \in SUBSET Obj
      BY DEF Released
    <2> QED
      BY <1>3, <2>3, <2>4
  <1>5. CASE ~(Live(o) /\ rc[o] = 1)
    <2>1. Release({}, o)
      BY <1>1, <1>5 DEF DropNext, fgoRCDec
    <2>2. Dropped(g, o, {})
      BY <1>1, <1>2, <1>5, <2>1 DEF Dropped, DropNext
    <2> QED
      BY <1>3, <2>2
  <1> QED
    BY <1>4, <1>5

(* Nothing but the dropped reference leads into what is released. *)
LEMMA DroppedShare ==
    ASSUME TypeInv, TypeInv', ShareInv, NEW g \in G, NEW o \in Obj, NEW D \in SUBSET Obj, Dropped(g, o, D)
    PROVE  ShareInv'
  <1>1. /\ dec[g] # <<>> /\ dec[g] \in Seq(Obj) /\ Distinct(dec[g]) /\ o = Head(dec[g])
        /\ D = {} \/ ReleaseChain(g, o, D)
        /\ D = {} => ~(Live(o) /\ rc[o] = 1)
        /\ dec'[g] = Tail(dec[g]) /\ \A h \in G : h # g => dec'[h] = dec[h]
        /\ UNCHANGED <<loc, tag, watched, dead, pending, call, recs, traced, upd, store>>
    <2>1. ReleaseChain(g, o, D) => D # {}
      BY DEF ReleaseChain
    <2> QED
      BY <2>1 DEF Dropped, TypeInv, TypeOK, ShareInv, QueuesExact
  <1>2. /\ \A x \in Obj : st'[x] = IF x \in D THEN "none" ELSE st[x]
        /\ \A x \in Obj : fld'[x] = IF x \in D THEN Nil ELSE fld[x]
        /\ \A x \in Obj : x \notin D => rc'[x] = rc[x] - LostBy(x, D) - (IF x = o THEN 1 ELSE 0)
        /\ chunk' = chunk - Cardinality({x \in D : st[x] = "shared"})
    BY DEF Dropped, Release
  <1>3. InSeq(o, dec[g]) /\ Distinct(dec'[g]) /\ \A x : InSeq(x, dec'[g]) <=> InSeq(x, dec[g]) /\ x # o
    BY <1>1, TailIs
  <1>4. \A x \in D : /\ Live(x) /\ ~Gone(x) /\ Counted(x) = 1
                     /\ Locals(x) = {} /\ Tagged(x) = {} /\ Exchanges(x) = {} /\ Hands(x) = {}
                     /\ Fields(x) \subseteq D /\ Drops(x) = IF x = o THEN {g} ELSE {}
    BY <1>1 DEF ReleaseChain
  <1>5. ~Gone(o) /\ rc[o] = Counted(o)
    <2>1. Held(o)
      BY <1>3, Holds DEF InSeq, TypeInv
    <2> QED
      BY <2>1, HeldIs DEF ShareInv
  <1>6. \A h \in G : \A x : InSeq(x, call[h].work) => x \in Obj /\ st[x] = "handed" /\ x \notin D
    <2>1. \A h \in G : \A i \in 1 .. Len(call[h].work) : call[h].work[i] \in Obj /\ st[call[h].work[i]] = "handed"
      BY SMTT(30) DEF ShareInv, ActsExact, CallExact, TypeInv, TypeOK
    <2> QED
      BY <1>4, <2>1 DEF InSeq, Live
  <1>7. \A x \in Obj : FieldCounts(x)' <=> FieldCounts(x) /\ x \notin D
    <2>1. \A x : (\E h \in G : InSeq(x, call'[h].work)) <=> (\E h \in G : InSeq(x, call[h].work))
      BY <1>1 DEF InSeq
    <2> QED
      BY <1>2, <1>6, <2>1 DEF FieldCounts, Live
  <1>8. \A x \in Obj : Gone(x)' <=> Gone(x) \/ x \in D
    BY <1>1, <1>2 DEF Gone, InSeq
  <1>9. \A x \in Obj : Fields(x)' = Fields(x) \ D
    <2>1. \A x, y \in Obj : fld'[y] = x <=> fld[y] = x /\ y \notin D
      BY <1>2, ConstAssumption
    <2> QED
      BY <1>7, <2>1 DEF Fields
  <1>10. ASSUME NEW x \in Obj PROVE Cardinality(Fields(x)') = Cardinality(Fields(x)) - LostBy(x, D)
    <2>1. Fields(x) \cap D = {y \in D : fld[y] = x}
      BY <1>4 DEF Fields, FieldCounts
    <2>2. Cardinality(Fields(x) \ D) = Cardinality(Fields(x)) - Cardinality(Fields(x) \cap D)
      BY HoldersFinite, FS_Difference
    <2> QED
      BY <1>9, <2>1, <2>2 DEF LostBy
  <1>11. \A x : Cardinality(Drops(x)') = Cardinality(Drops(x)) - One(x = o)
    <2>1. \A x : Cardinality(Drops(x)') = Cardinality(Drops(x)) + One(InSeq(x, dec'[g])) - One(InSeq(x, dec[g]))
      BY <1>1, DropsMove
    <2>2. \A x : Cardinality(Drops(x)) \in Nat
      BY HoldersFinite
    <2> QED
      BY <1>3, <2>1, <2>2 DEF One
  <1>12. \A x : /\ Locals(x)' = Locals(x) /\ Tagged(x)' = Tagged(x)
                /\ Exchanges(x)' = Exchanges(x) /\ Hands(x)' = Hands(x)
    BY <1>1, KindsSame
  <1>13. \A x \in Obj : LostBy(x, D) \in Nat
    <2>1. \A x : {y \in D : fld[y] = x} \in SUBSET Obj
      OBVIOUS
    <2> QED
      BY <2>1, ConstAssumption, FS_Subset, FS_CardinalityType DEF LostBy
  <1>14. \A x \in Obj : Counted(x)' = Counted(x) - LostBy(x, D) - One(x = o)
    <2> SUFFICES ASSUME NEW x \in Obj PROVE Counted(x)' = Counted(x) - LostBy(x, D) - One(x = o)
      OBVIOUS
    <2>1. LostBy(x, D) \in Nat /\ Cardinality(Fields(x)') = Cardinality(Fields(x)) - LostBy(x, D)
      BY <1>10, <1>13
    <2>2. Cardinality(Drops(x)') = Cardinality(Drops(x)) - One(x = o)
      BY <1>11
    <2> QED
      BY <1>12, <2>1, <2>2, HoldersFinite DEF Counted, One
  <1>15. \A x \in Obj : Counted(x) \in Nat /\ rc[x] \in Int
    BY CountedZero DEF TypeInv, TypeOK
  <1>16. CountSum'
    <2> SUFFICES ASSUME NEW x \in Obj PROVE Counted(x)' = IF Gone(x)' THEN 0 ELSE rc'[x]
      BY DEF CountSum
    <2>1. CASE x \in D
      <3>1. Fields(x)' = {}
        BY <1>4, <1>9, <2>1
      <3>2. Cardinality(Drops(x)') = 0
        <4>1. CASE x = o
          <5>1. Drops(x) = {g} /\ Cardinality({g}) = 1
            BY <1>4, <2>1, <4>1, FS_Singleton
          <5> QED
            BY <1>11, <4>1, <5>1 DEF One
        <4>2. CASE x # o
          BY <1>4, <1>11, <2>1, <4>2, FS_EmptySet DEF One
        <4> QED
          BY <4>1, <4>2
      <3>3. Cardinality({}) = 0
        BY FS_EmptySet
      <3>4. Counted(x)' = 0
        BY <1>4, <1>12, <2>1, <3>1, <3>2, <3>3 DEF Counted
      <3> QED
        BY <1>8, <2>1, <3>4
    <2>2. CASE x \notin D /\ Gone(x)
      <3>1. Fields(x) = {} /\ x # o /\ Counted(x) = 0
        BY <1>5, <2>2, NotHeld DEF ShareInv, CountSum, Held
      <3>2. {y \in D : fld[y] = x} = {}
        BY <1>4, <3>1 DEF Fields, FieldCounts
      <3>3. LostBy(x, D) = 0
        BY <3>2, FS_EmptySet DEF LostBy
      <3> QED
        BY <1>8, <1>14, <2>2, <3>1, <3>3 DEF One
    <2>3. CASE x \notin D /\ ~Gone(x)
      <3>1. Counted(x) = rc[x] /\ ~Gone(x)'
        BY <1>8, <2>3 DEF ShareInv, CountSum
      <3> QED
        BY <1>2, <1>14, <2>3, <3>1 DEF One
    <2> QED
      BY <2>1, <2>2, <2>3
  <1>17. LiveCounted'
    <2> SUFFICES ASSUME NEW x \in Obj, Live(x)', ~Gone(x)' PROVE rc'[x] > 0
      BY DEF LiveCounted
    <2>1. x \notin D /\ ~Gone(x) /\ Live(x) /\ rc[x] > 0 /\ rc[x] \in Int
      BY <1>2, <1>8, <1>15 DEF Live, ShareInv, LiveCounted
    <2>2. rc'[x] = rc[x] - LostBy(x, D) - (IF x = o THEN 1 ELSE 0)
      BY <1>2, <2>1
    <2>3. CASE D = {}
      <3>1. {y \in D : fld[y] = x} = {}
        BY <2>3
      <3>2. LostBy(x, D) = 0
        BY <3>1, FS_EmptySet DEF LostBy
      <3> QED
        BY <1>1, <2>1, <2>2, <2>3, <3>2
    <2>4. CASE ReleaseChain(g, o, D)
      <3>1. x # o
        BY <2>1, <2>4 DEF ReleaseChain
      <3>2. PICK e \in D : \A y \in D : fld[y] \notin D <=> y = e
        BY <2>4 DEF ReleaseChain
      <3>3. CASE fld[e] = x
        <4>1. x # Nil /\ rc[x] # 1
          BY <2>1, <2>4, <3>2, <3>3, ConstAssumption DEF ReleaseChain
        <4>2. {y \in D : fld[y] = x} = {e}
          BY <2>1, <3>2, <3>3
        <4>3. LostBy(x, D) = 1
          BY <4>2, FS_Singleton DEF LostBy
        <4> QED
          BY <2>1, <2>2, <3>1, <4>1, <4>3
      <3>4. CASE fld[e] # x
        <4>1. {y \in D : fld[y] = x} = {}
          BY <2>1, <3>2, <3>4
        <4>2. LostBy(x, D) = 0
          BY <4>1, FS_EmptySet DEF LostBy
        <4> QED
          BY <2>1, <2>2, <3>1, <4>2
      <3> QED
        BY <3>3, <3>4
    <2> QED
      BY <1>1, <2>3, <2>4
  <1>18. QueuesExact'
    <2>1. \A h \in G : Distinct(dec'[h])
      BY <1>1, <1>3 DEF ShareInv, QueuesExact
    <2>a. \A i \in 1 .. Len(pending) : pending[i] \in Obj
      BY DEF TypeInv, TypeOK
    <2>2. \A i \in 1 .. Len(pending) : st[pending[i]] = "shared"
      BY DEF ShareInv, QueuesExact
    <2>3. \A i \in 1 .. Len(pending) : pending[i] \notin D
      BY <1>4 DEF Gone, InSeq
    <2>4. \A i \in 1 .. Len(pending') : st'[pending'[i]] = "shared"
      BY <1>1, <1>2, <2>a, <2>2, <2>3
    <2>5. Distinct(pending')
      BY <1>1 DEF ShareInv, QueuesExact, Distinct
    <2> QED
      BY <2>1, <2>4, <2>5 DEF QueuesExact, Distinct
  <1>19. /\ \A h \in G : loc[h] \notin D /\ upd[h] \notin D
         /\ \A t \in Tag : tag[t] \notin D
         /\ \A h \in G : call[h].pc \in {"child", "dec"} => call[h].cur \notin D
    BY <1>4 DEF Locals, Exchanges, Tagged, Hands
  <1>20. RefsGood'
    <2>1. \A u \in Tag : (tag'[u] # Nil => u \in watched') /\ (tag'[u] \in Obj => st'[tag'[u]] \in {"shared", "handed"})
      BY <1>1, <1>2, <1>19 DEF ShareInv, RefsGood, Known
    <2>2. ASSUME NEW x \in Obj, fld'[x] # Nil
          PROVE  /\ st'[x] # "none" /\ (st'[x] \in {"shared", "handed"} => st'[fld'[x]] \in {"shared", "handed"})
                 /\ ~FieldCounts(x)' => \/ st'[fld'[x]] = "handed"
                                        \/ \E h \in G : call'[h].pc = "child" /\ call'[h].cur = fld'[x]
      <3>1. x \notin D /\ fld'[x] = fld[x] /\ fld[x] \in Obj
        BY <1>2, <2>2 DEF TypeInv, TypeOK, Ref
      <3>2. ~FieldCounts(x) => \/ st[fld[x]] = "handed"
                               \/ \E h \in G : call[h].pc = "child" /\ call[h].cur = fld[x]
        BY <2>2, <3>1 DEF ShareInv, RefsGood
      <3>3. ASSUME fld[x] \in D PROVE FALSE
        <4>1. x \in Fields(fld[x]) <=> FieldCounts(x)
          BY DEF Fields
        <4>2. ~FieldCounts(x)
          BY <1>4, <3>1, <3>3, <4>1
        <4> QED
          BY <1>4, <1>19, <3>2, <3>3, <4>2 DEF Live
      <3>4. st'[fld[x]] = st[fld[x]] /\ st'[x] = st[x]
        BY <1>2, <3>1, <3>3
      <3> QED
        BY <1>1, <1>7, <2>2, <3>1, <3>2, <3>4 DEF ShareInv, RefsGood, Known
    <2>3. \A h \in G : traced'[h] \in Obj => st'[traced'[h]] = "handed"
      BY <1>1, <1>2, <1>4 DEF ShareInv, RefsGood, Live
    <2> QED
      BY <2>1, <2>2, <2>3 DEF RefsGood, Known
  <1>21. ASSUME NEW h \in G PROVE CallExact(h)' /\ StoreExact(h)'
    <2>1. CallExact(h) /\ StoreExact(h)
      BY DEF ShareInv, ActsExact
    <2>2. dec[h] = <<>> => dec'[h] = <<>>
      BY <1>1
    <2>3. StoreExact(h)'
      <3>1. upd[h] # Nil => upd[h] \in Obj
        BY DEF TypeInv, TypeOK, Ref
      <3> QED
        BY <1>1, <1>2, <1>19, <2>1, <2>2, <3>1 DEF StoreExact
    <2>4. \A i \in 1 .. Len(call[h].work) : st'[call[h].work[i]] = st[call[h].work[i]]
      BY <1>2, <1>6 DEF InSeq
    <2>5. call[h].pc # "run" => st'[tag[call[h].tag]] = st[tag[call[h].tag]]
      BY <1>2, <1>19, <2>1 DEF CallExact
    <2>6. call[h].pc \in {"one", "child", "dec"} => st'[call[h].cur] = st[call[h].cur]
      BY <1>2, <1>19, <2>1, <2>5 DEF CallExact
    <2> QED
      BY <1>1, <2>1, <2>2, <2>3, <2>4, <2>5, <2>6 DEF CallExact, NoCall
  <1>22. MarksExact'
    <2> DEFINE S == {x \in Obj : Known(x)}
               E == {x \in D : st[x] = "shared"}
               T == {x \in Obj : st'[x] \in {"shared", "handed"}}
    <2>1. T = S \ D
      BY <1>2 DEF Known
    <2>2. S \cap D = E
      BY <1>4 DEF Known, Live
    <2>3. IsFiniteSet(S)
      <3>1. S \in SUBSET Obj
        OBVIOUS
      <3> QED
        BY <3>1, ConstAssumption, FS_Subset
    <2>4. chunk = Cardinality(S) /\ chunk' = chunk - Cardinality(E)
      BY <1>2 DEF ShareInv, MarksExact, Known
    <2> HIDE DEF S, E, T
    <2>5. Cardinality(S \ D) = Cardinality(S) - Cardinality(S \cap D)
      BY <2>3, FS_Difference
    <2>6. chunk' = Cardinality(T)
      BY <2>1, <2>2, <2>4, <2>5
    <2>7. \A x \in Obj : recs'[x] = IF st'[x] = "handed" THEN 1 ELSE 0
      BY <1>1, <1>2, <1>4 DEF ShareInv, MarksExact, Live
    <2> QED
      BY <2>6, <2>7 DEF MarksExact, T
  <1> QED
    BY <1>16, <1>17, <1>18, <1>20, <1>21, <1>22 DEF ShareInv, ActsExact

(***************************************************************************)
(* Every step, and the theorems.                                            *)
(***************************************************************************)

(* A stuttering step changes nothing. *)
LEMMA StutterShare ==
    ASSUME TypeInv, ShareInv, UNCHANGED vars
    PROVE  ShareInv'
  <1>1. \A x : Counted(x)' = Counted(x)
    BY KindsSame DEF vars, Counted
  <1> QED
    BY <1>1 DEF vars, ShareInv, CountSum, LiveCounted, Gone, Live, InSeq, QueuesExact, Distinct, RefsGood,
                Known, FieldCounts, ActsExact, CallExact, StoreExact, NoCall, MarksExact

(* Every step of a program without a race keeps the invariant. *)
LEMMA ShareStep ==
    ASSUME NoRace, TypeInv, TypeInv', ShareInv, [Next]_vars
    PROVE  ShareInv'
  <1>1. ASSUME NEW g \in G, DropNext(g) PROVE ShareInv'
    BY <1>1, DropIs, DroppedShare
  <1>2. ASSUME NEW g \in G, DropLocal(g) \/ fgoRCDecKeep(g) \/ Exchange(g) PROVE ShareInv'
    BY <1>2, DropLocalShare, DecKeepShare, ExchangeShare
  <1>3. ASSUME NEW g \in G, fgoRCStoreTag(g) \/ StoreTagHeap(g) \/ fgoTagStore(g) PROVE ShareInv'
    BY <1>3, StoreTagShare, StoreHeapShare, TagStoreShare
  <1>4. ASSUME NEW g \in G, HandOne(g) \/ HandField(g) \/ HandChild(g) PROVE ShareInv'
    BY <1>4, HandOneShare, HandFieldShare, HandChildShare
  <1>5. ASSUME NEW g \in G, HandDec(g) \/ HandDone(g) PROVE ShareInv'
    BY <1>5, HandDecShare, HandDoneShare
  <1>6. ASSUME NEW g \in G, NEW o \in Obj, Construct(g, o) \/ fgoRCStore(g, o) PROVE ShareInv'
    BY <1>6, ConstructShare, StoreShare
  <1>7. ASSUME NEW g \in G, ForgetTraced(g) \/ \E h \in Heap : NewHeap(g, h) PROVE ShareInv'
    <2>1. /\ traced'[g] \notin Obj /\ \A h \in G : h # g => traced'[h] = traced[h]
          /\ UNCHANGED <<st, rc, fld, loc, tag, watched, pending, dec, call, upd, store, chunk, recs>>
      BY <1>7, ConstAssumption DEF ForgetTraced, NewHeap, TypeInv, TypeOK
    <2> QED
      BY <2>1, TracedShare
  <1>8. ASSUME NEW g \in G, NEW t \in Tag, NogcRead(g, t) \/ fgoTagLoad(g, t) PROVE ShareInv'
    BY <1>8, NogcReadShare, TagLoadShare
  <1>9. ASSUME NEW g \in G, NEW t \in Tag, NEW nogc \in BOOLEAN, fgoTagDrain(g, t, nogc) PROVE ShareInv'
    BY <1>9, DrainShare
  <1>10. ASSUME NEW t \in Tag, fgoTagDead(t) \/ NewTagged(t) PROVE ShareInv'
    BY <1>10, TagDeadShare, NewTaggedShare
  <1>11. ASSUME NEW o \in Obj, fgoEscFree(o) PROVE ShareInv'
    BY <1>11, EscFreeShare
  <1>12. ASSUME UNCHANGED vars PROVE ShareInv'
    BY <1>12, StutterShare
  <1> QED
    BY <1>1, <1>2, <1>3, <1>4, <1>5, <1>6, <1>7, <1>8, <1>9, <1>10, <1>11, <1>12 DEF Next

(* Nothing is counted at the start. *)
LEMMA ShareInit == Init => ShareInv
  <1> SUFFICES ASSUME Init PROVE ShareInv
    OBVIOUS
  <1> USE DEF Init
  <1>1. \A o \in Obj : o # Nil
    BY ConstAssumption
  <1>2. \A g \in G : dec[g] = <<>> /\ call[g] = NoCall /\ store[g] = NoStore /\ upd[g] = Nil
    OBVIOUS
  <1>3. \A o \in Obj : ~Held(o)
    BY <1>1, <1>2 DEF Held, Locals, Tagged, Fields, Exchanges, Drops, Hands, InSeq, NoCall
  <1>4. CountSum /\ LiveCounted
    BY <1>3, CountedZero DEF CountSum, LiveCounted, Gone, Live, Held
  <1>5. QueuesExact
    BY DEF QueuesExact, Distinct
  <1>6. RefsGood
    BY <1>1, ConstAssumption DEF RefsGood
  <1>7. \A g \in G : CallExact(g) /\ StoreExact(g)
    BY <1>2 DEF CallExact, StoreExact, NoCall
  <1>8. MarksExact
    <2>1. {o \in Obj : st[o] \in {"shared", "handed"}} = {}
      OBVIOUS
    <2> QED
      BY <2>1, FS_EmptySet DEF MarksExact
  <1> QED
    BY <1>4, <1>5, <1>6, <1>7, <1>8 DEF ShareInv, ActsExact

(* The invariant always holds where no race of Race happens. *)
LEMMA AlwaysShare ==
    ASSUME NoRace
    PROVE  Spec => [](TypeInv /\ ShareInv)
  <1>1. Init => TypeInv /\ ShareInv
    BY TypeInit, ShareInit
  <1>2. TypeInv /\ ShareInv /\ [Next]_vars => (TypeInv /\ ShareInv)'
    <2> SUFFICES ASSUME TypeInv, ShareInv, [Next]_vars PROVE (TypeInv /\ ShareInv)'
      OBVIOUS
    <2>1. TypeInv'
      BY TypeStep
    <2> QED
      BY <2>1, ShareStep
  <1> QED
    BY <1>1, <1>2, PTL DEF Spec

(* The references of the six kinds are different, so their numbers add up. *)
LEMMA HoldersCard ==
    \A o : Cardinality(Holders(o)) = Counted(o) /\ (Holders(o) = {} <=> ~Held(o))
  <1> SUFFICES ASSUME NEW o PROVE Cardinality(Holders(o)) = Counted(o) /\ (Holders(o) = {} <=> ~Held(o))
    OBVIOUS
  <1> DEFINE A1 == {<<"local", g>> : g \in Locals(o)}
             A2 == {<<"tag", t>> : t \in Tagged(o)}
             A3 == {<<"field", x>> : x \in Fields(o)}
             A4 == {<<"exchange", g>> : g \in Exchanges(o)}
             A5 == {<<"drop", g>> : g \in Drops(o)}
             A6 == {<<"hand", g>> : g \in Hands(o)}
  <1>1. Holders(o) = ((((A1 \cup A2) \cup A3) \cup A4) \cup A5) \cup A6
    BY DEF Holders, Locals, Tagged, Fields, Exchanges, Drops, Hands
  <1>2. /\ IsFiniteSet(A1) /\ Cardinality(A1) = Cardinality(Locals(o))
        /\ IsFiniteSet(A2) /\ Cardinality(A2) = Cardinality(Tagged(o))
        /\ IsFiniteSet(A3) /\ Cardinality(A3) = Cardinality(Fields(o))
        /\ IsFiniteSet(A4) /\ Cardinality(A4) = Cardinality(Exchanges(o))
        /\ IsFiniteSet(A5) /\ Cardinality(A5) = Cardinality(Drops(o))
        /\ IsFiniteSet(A6) /\ Cardinality(A6) = Cardinality(Hands(o))
    BY TagCard, HoldersFinite
  <1>3. /\ \A a \in A1 : a[1] = "local"
        /\ \A a \in A2 : a[1] = "tag"
        /\ \A a \in A3 : a[1] = "field"
        /\ \A a \in A4 : a[1] = "exchange"
        /\ \A a \in A5 : a[1] = "drop"
        /\ \A a \in A6 : a[1] = "hand"
    OBVIOUS
  <1> HIDE DEF A1, A2, A3, A4, A5, A6
  <1>4. /\ A1 \cap A2 = {} /\ (A1 \cup A2) \cap A3 = {} /\ ((A1 \cup A2) \cup A3) \cap A4 = {}
        /\ (((A1 \cup A2) \cup A3) \cup A4) \cap A5 = {}
        /\ ((((A1 \cup A2) \cup A3) \cup A4) \cup A5) \cap A6 = {}
    BY <1>3
  <1>5. ASSUME NEW S, NEW T, IsFiniteSet(S), IsFiniteSet(T), S \cap T = {}
        PROVE  IsFiniteSet(S \cup T) /\ Cardinality(S \cup T) = Cardinality(S) + Cardinality(T)
    <2>1. Cardinality(S) \in Nat /\ Cardinality(T) \in Nat /\ Cardinality({}) = 0
      BY <1>5, FS_CardinalityType, FS_EmptySet
    <2>2. IsFiniteSet(S \cup T) /\ Cardinality(S \cup T) = Cardinality(S) + Cardinality(T) - Cardinality(S \cap T)
      BY <1>5, FS_Union
    <2>3. Cardinality(S \cap T) = 0
      BY <1>5, <2>1
    <2> QED
      BY <2>1, <2>2, <2>3
  <1>6. IsFiniteSet(A1 \cup A2) /\ Cardinality(A1 \cup A2) = Cardinality(A1) + Cardinality(A2)
    BY <1>2, <1>4, <1>5
  <1>7. /\ IsFiniteSet((A1 \cup A2) \cup A3)
        /\ Cardinality((A1 \cup A2) \cup A3) = Cardinality(A1 \cup A2) + Cardinality(A3)
    BY <1>2, <1>4, <1>5, <1>6
  <1>8. /\ IsFiniteSet(((A1 \cup A2) \cup A3) \cup A4)
        /\ Cardinality(((A1 \cup A2) \cup A3) \cup A4) = Cardinality((A1 \cup A2) \cup A3) + Cardinality(A4)
    BY <1>2, <1>4, <1>5, <1>7
  <1>9. /\ IsFiniteSet((((A1 \cup A2) \cup A3) \cup A4) \cup A5)
        /\ Cardinality((((A1 \cup A2) \cup A3) \cup A4) \cup A5)
             = Cardinality(((A1 \cup A2) \cup A3) \cup A4) + Cardinality(A5)
    BY <1>2, <1>4, <1>5, <1>8
  <1>10. /\ IsFiniteSet(Holders(o))
         /\ Cardinality(Holders(o)) = Cardinality((((A1 \cup A2) \cup A3) \cup A4) \cup A5) + Cardinality(A6)
    BY <1>1, <1>2, <1>4, <1>5, <1>9
  <1>11. Cardinality(Holders(o)) = Counted(o)
    BY <1>2, <1>6, <1>7, <1>8, <1>9, <1>10 DEF Counted
  <1>12. Holders(o) = {} <=> Counted(o) = 0
    BY <1>10, <1>11, FS_EmptySet
  <1> QED
    BY <1>11, <1>12, CountedZero DEF Held

(* fgoArena.chunks counts the shared and handed-off objects, and fgoEsc has one  *)
(* record of each handed-off object: fgoState and the sweeper rely on both, for  *)
(* any number of goroutines, objects and tagged fields.                          *)
THEOREM MarksAgree ==
    ASSUME NoRace
    PROVE  Spec => []MarksExact
  <1>1. ShareInv => MarksExact
    BY DEF ShareInv
  <1> QED
    BY <1>1, AlwaysShare, PTL

(* fgoShare reaches everything it must: whatever a tagged field leads to is    *)
(* counted with atomics, or handed off.                                        *)
THEOREM SharedStaysClosed ==
    ASSUME NoRace
    PROVE  Spec => []SharedClosed
  <1>1. ShareInv => SharedClosed
    BY DEF ShareInv, RefsGood, SharedClosed, Known
  <1> QED
    BY <1>1, AlwaysShare, PTL

(* The counts of fgoRCInc, fgoRCDec, fgoTagHold, fgoTagDead and the hand-off are *)
(* the number of references, of whatever kind and whichever goroutine holds them.*)
THEOREM CountsAgree ==
    ASSUME NoRace
    PROVE  Spec => []CountsExact
  <1>1. ShareInv => CountsExact
    BY HoldersCard DEF ShareInv, CountSum, CountsExact, Gone
  <1> QED
    BY <1>1, AlwaysShare, PTL

(* A counted or shared object goes with its last reference: whichever goroutine  *)
(* or sweeper drops it, the object is free or waits on fgoTag.pending.           *)
THEOREM FreedWithLast ==
    ASSUME NoRace
    PROVE  Spec => []FreedAtLast
  <1>1. ASSUME ShareInv PROVE FreedAtLast
    <2> SUFFICES ASSUME NEW o \in Obj, Live(o), Holders(o) = {} PROVE InSeq(o, pending)
      BY DEF FreedAtLast
    <2>1. Counted(o) = 0
      BY HoldersCard, CountedZero DEF Held
    <2>2. ~Gone(o) => rc[o] = 0 /\ rc[o] > 0
      BY <1>1, <2>1 DEF ShareInv, CountSum, LiveCounted
    <2> QED
      BY <2>2 DEF Gone, Live
  <1> QED
    BY <1>1, AlwaysShare, PTL
=============================================================================
