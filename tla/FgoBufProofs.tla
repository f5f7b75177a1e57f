---------------------------- MODULE FgoBufProofs ----------------------------
(* Theorems about the buffers of nogc objects (FgoBuf).                     *)
EXTENDS FgoBuf, Lemmas

(***************************************************************************)
(* The inductive invariant, in named parts.  Those about the memory take it *)
(* as a parameter, for the memory between two steps of a runtime call.      *)
(***************************************************************************)

\* A field's buffer is its own; E are the owned buffers that no field holds.
FieldsExact(m, E) ==
    /\ \A o \in Obj : m.fld[o] # Nil =>
          /\ m.st[o] = "counted" /\ m.fld[o] \notin E
          /\ m.typ[o] = "data" => m.els[m.fld[o]] = <<>>
    /\ \A o, p \in Obj : m.fld[o] = m.fld[p] /\ m.fld[o] # Nil => o = p
    /\ Owned(m) = E \cup ({m.fld[o] : o \in Obj} \ {Nil})

\* The counts are the references in fields and ext[x] others; nothing refers to what
\* is not there, and something to every counted object.
CountSum(m, ext) ==
    \A x \in Obj :
        /\ m.cnt[x] = ext[x] + Held(m, Obj, x)
        /\ m.st[x] = "counted" => m.cnt[x] > 0
        /\ m.st[x] \in {"none", "token"} => m.cnt[x] = 0

MemExact(m, ext, E) ==
    m \in Mem /\ ext \in [Obj -> Nat] /\ E \subseteq Buf /\ FieldsExact(m, E) /\ CountSum(m, ext)

\* The objects in X have been handed off; they hold all that GC memory, handed-off
\* objects that are counted and a viewed buffer b refer to.
GcSafe(m, g, b, X) ==
    /\ X \subseteq {o \in Obj : m.st[o] = "handed"} /\ g \subseteq X
    /\ \A o \in Obj : m.st[o] = "handed" /\ m.cnt[o] > 0 => o \in X
    /\ \A o \in X : ToSet(m.gcs[o]) \cap Obj \subseteq X
    /\ b \in Buf /\ m.buf[b] = "handed" => ToSet(m.els[b]) \cap Obj \subseteq X

\* A view of b is of the field that p, which is referred to, has, or had before a hand-off.
ViewHeld(m, ext, p, b) ==
    b # Nil =>
        /\ b \in Buf /\ p \in Obj /\ ext[p] > 0
        /\ \/ m.fld[p] = b
           \/ m.buf[b] = "handed"
           \/ m.buf[b] = "leaked" /\ m.st[p] = "handed" /\ m.gcs[p] = m.els[b]

Sound(m, ext, E, g, p, b, X) ==
    MemExact(m, ext, E) /\ GcSafe(m, g, b, X) /\ ViewHeld(m, ext, p, b)

\* In a state, the other references are those in the frame's slots and in the slice
\* under way, and the other owned buffers are on their way to a store.
Slots(l) == [x \in Obj |-> Occ(l, x)]
Ext == [x \in Obj |-> Occ(loc, x) + Occ(Made, x)]
Loose == {dup, made} \ {Nil}
ViewedObj == IF view = NoView THEN Nil ELSE loc[view.slot]
FrameExact ==
    /\ loc \in [Slot -> Obj \cup {Nil}] /\ tok \in Obj \cup {Nil} /\ {dup, made} \subseteq Buf \cup {Nil}
    /\ view \in [slot : Slot, buf : Buf] \cup {NoView}
    /\ glob \subseteq Obj /\ out = {}
    /\ \A o \in Obj : mem.st[o] = "token" <=> tok = o
    /\ dup # Nil => mem.els[dup] = <<>> /\ dup # made
    /\ \A o \in Obj : Heap \notin ToSet(Elems(mem, o))
BufInv ==
    FrameExact /\ Sound(mem, Ext, Loose, glob, ViewedObj, view.buf, GcReach)
-----------------------------------------------------------------------------
(* Occurrences and references from fields, as numbers.                      *)

(* A count of occurrences is positive where there is one. *)
LEMMA OccType ==
    ASSUME NEW q, IsFiniteSet(DOMAIN q), NEW x
    PROVE  Occ(q, x) \in Nat /\ (Occ(q, x) > 0 <=> x \in ToSet(q))
  <1> DEFINE S == {i \in DOMAIN q : q[i] = x}
  <1>1. IsFiniteSet(S) /\ Cardinality(S) \in Nat /\ (Cardinality(S) = 0 <=> S = {})
    <2>1. S \in SUBSET DOMAIN q
      OBVIOUS
    <2> HIDE DEF S
    <2> QED
      BY <2>1, FS_Subset, FS_CardinalityType, FS_EmptySet
  <1>2. S # {} <=> x \in ToSet(q)
    BY DEF ToSet
  <1> QED
    BY <1>1, <1>2 DEF Occ

(* The positions of a sequence are finitely many. *)
LEMMA SeqDomain == ASSUME NEW A, NEW q \in Seq(A) PROVE IsFiniteSet(DOMAIN q) /\ ToSet(q) \subseteq A
  <1>1. DOMAIN q = 1 .. Len(q) /\ Len(q) \in Nat
    OBVIOUS
  <1> QED
    BY <1>1, FS_Interval DEF ToSet

(* Where x is not. *)
LEMMA OccNone == ASSUME NEW q, NEW x, x \notin ToSet(q) PROVE Occ(q, x) = 0
  <1>1. {i \in DOMAIN q : q[i] = x} = {}
    BY DEF ToSet
  <1> QED
    BY <1>1, FS_EmptySet DEF Occ

(* No elements. *)
LEMMA NoElems == ToSet(<<>>) = {}
  BY DEF ToSet
(* A slice without elements has no positions. *)
LEMMA EmptyFinite == IsFiniteSet(DOMAIN <<>>)
  <1>1. <<>> \in Seq(Nat)
    OBVIOUS
  <1> QED
    BY <1>1, SeqDomain
(* ... and no references. *)
LEMMA EmptyNone == ASSUME NEW x PROVE Occ(<<>>, x) = 0
  <1>1. x \notin ToSet(<<>>)
    BY NoElems
  <1> QED
    BY <1>1, OccNone

(* One place changes. *)
LEMMA OccPut ==
    ASSUME NEW l, NEW n, NEW A, IsFiniteSet(A), DOMAIN l = A, DOMAIN n = A, NEW s \in A,
           \A i \in A \ {s} : n[i] = l[i], NEW x
    PROVE  Occ(n, x) = Occ(l, x) + (IF n[s] = x THEN 1 ELSE 0) - (IF l[s] = x THEN 1 ELSE 0)
  <1> DEFINE S == {i \in DOMAIN l : l[i] = x}
             T == {i \in DOMAIN n : n[i] = x}
  <1>1. IsFiniteSet(S)
    <2>1. S \in SUBSET A
      OBVIOUS
    <2> QED
      BY <2>1, FS_Subset
  <1>2. T \ {s} = S \ {s} /\ (s \in T <=> n[s] = x) /\ (s \in S <=> l[s] = x)
    OBVIOUS
  <1> HIDE DEF S, T
  <1>3. Cardinality(T) = Cardinality(S) + (IF s \in T THEN 1 ELSE 0) - (IF s \in S THEN 1 ELSE 0)
    BY <1>1, <1>2, SetCard
  <1> QED
    BY <1>2, <1>3 DEF Occ, S, T

(* One reference. *)
LEMMA OccOne == ASSUME NEW r, NEW x PROVE Occ(<<r>>, x) = IF r = x THEN 1 ELSE 0
  <1>1. {i \in DOMAIN <<r>> : <<r>>[i] = x} = IF r = x THEN {1} ELSE {}
    OBVIOUS
  <1> QED
    BY <1>1, FS_Singleton, FS_EmptySet DEF Occ

\* The elements of every field have finitely many positions.
Finite(m) == \A o \in Obj : IsFiniteSet(DOMAIN Elems(m, o))
HeldBy(m, D, x) == UNION {{o} \X {i \in DOMAIN Elems(m, o) : Elems(m, o)[i] = x} : o \in D}

(* The references to x from one object's field are those in its buffer. *)
LEMMA HeldOne ==
    ASSUME NEW m, Finite(m), NEW o \in Obj, NEW x
    PROVE  IsFiniteSet(HeldBy(m, {o}, x)) /\ Held(m, {o}, x) = Occ(Elems(m, o), x)
  <1> DEFINE S == {i \in DOMAIN Elems(m, o) : Elems(m, o)[i] = x}
  <1>1. IsFiniteSet(S)
    <2>1. S \in SUBSET DOMAIN Elems(m, o)
      OBVIOUS
    <2> QED
      BY <2>1, FS_Subset DEF Finite
  <1>2. HeldBy(m, {o}, x) = {<<o, i>> : i \in S}
    BY DEF HeldBy
  <1> HIDE DEF S
  <1>3. IsFiniteSet({<<o, i>> : i \in S}) /\ Cardinality({<<o, i>> : i \in S}) = Cardinality(S)
    BY <1>1, TagCard
  <1> QED
    BY <1>2, <1>3 DEF Held, HeldBy, Occ, S

(* There are finitely many, and some where a field has one. *)
LEMMA HeldType ==
    ASSUME NEW m, Finite(m), NEW D \in SUBSET Obj, NEW x
    PROVE  /\ IsFiniteSet(HeldBy(m, D, x)) /\ Held(m, D, x) \in Nat
           /\ Held(m, D, x) > 0 <=> \E o \in D : x \in ToSet(Elems(m, o))
  <1> DEFINE P(o) == {o} \X {i \in DOMAIN Elems(m, o) : Elems(m, o)[i] = x}
             Q == {P(o) : o \in D}
  <1>1. IsFiniteSet(D)
    BY Names, FS_Subset
  <1>2. IsFiniteSet(Q)
    <2> DEFINE f == [o \in D |-> P(o)]
    <2>1. f \in [D -> Q] /\ \A S \in Q : \E o \in D : f[o] = S
      OBVIOUS
    <2> HIDE DEF f, Q
    <2>2. f \in Surjection(D, Q)
      BY <2>1 DEF Surjection
    <2> QED
      BY <1>1, <2>2, FS_Surjection
  <1>3. \A o \in D : IsFiniteSet(P(o))
    <2>1. ASSUME NEW o \in D PROVE IsFiniteSet(P(o))
      <3>1. HeldBy(m, {o}, x) = P(o)
        BY DEF HeldBy
      <3> QED
        BY <3>1, HeldOne
    <2> QED
      BY <2>1
  <1>4. IsFiniteSet(UNION Q)
    <2>1. \A S \in Q : IsFiniteSet(S)
      BY <1>3
    <2> HIDE DEF Q
    <2> QED
      BY <1>2, <2>1, FS_UNION
  <1>5. HeldBy(m, D, x) # {} <=> \E o \in D : x \in ToSet(Elems(m, o))
    <2>1. ASSUME NEW p \in HeldBy(m, D, x) PROVE \E o \in D : x \in ToSet(Elems(m, o))
      <3>1. PICK o \in D : p \in P(o)
        BY <2>1 DEF HeldBy
      <3> QED
        BY <3>1 DEF ToSet
    <2>2. ASSUME NEW o \in D, x \in ToSet(Elems(m, o)) PROVE HeldBy(m, D, x) # {}
      <3>1. PICK i \in DOMAIN Elems(m, o) : Elems(m, o)[i] = x
        BY <2>2 DEF ToSet
      <3>2. <<o, i>> \in P(o)
        BY <3>1
      <3> QED
        BY <3>2 DEF HeldBy
    <2> QED
      BY <2>1, <2>2
  <1>6. HeldBy(m, D, x) = UNION Q
    BY DEF HeldBy
  <1> HIDE DEF Q
  <1>7. Cardinality(HeldBy(m, D, x)) \in Nat /\ (Cardinality(HeldBy(m, D, x)) = 0 <=> HeldBy(m, D, x) = {})
    BY <1>4, <1>6, FS_CardinalityType, FS_EmptySet
  <1>8. Held(m, D, x) = Cardinality(HeldBy(m, D, x))
    BY DEF Held, HeldBy
  <1>9. Held(m, D, x) \in Nat /\ (Held(m, D, x) > 0 <=> HeldBy(m, D, x) # {})
    BY <1>7, <1>8
  <1> QED
    BY <1>4, <1>5, <1>6, <1>9

(* The references from two sets of objects are those from each. *)
LEMMA HeldSplit ==
    ASSUME NEW m, Finite(m), NEW D \in SUBSET Obj, NEW E \in SUBSET Obj, D \cap E = {}, NEW x
    PROVE  Held(m, D \cup E, x) = Held(m, D, x) + Held(m, E, x)
  <1> DEFINE S == HeldBy(m, D, x)
             T == HeldBy(m, E, x)
  <1>1. HeldBy(m, D \cup E, x) = S \cup T
    BY DEF HeldBy
  <1>2. S \cap T = {}
    BY DEF HeldBy
  <1>3. IsFiniteSet(S) /\ IsFiniteSet(T)
    BY HeldType
  <1>4. Held(m, D, x) = Cardinality(S) /\ Held(m, E, x) = Cardinality(T) /\ Held(m, D \cup E, x) = Cardinality(S \cup T)
    BY <1>1 DEF Held, HeldBy
  <1> HIDE DEF S, T
  <1>5. Cardinality(S \cup T) = Cardinality(S) + Cardinality(T) - Cardinality(S \cap T)
    BY <1>3, FS_Union
  <1>6. Cardinality(S \cap T) = 0 /\ Cardinality(S) \in Nat /\ Cardinality(T) \in Nat
    BY <1>2, <1>3, FS_EmptySet, FS_CardinalityType
  <1> QED
    BY <1>4, <1>5, <1>6

(* Of fewer objects there are no more. *)
LEMMA HeldLess ==
    ASSUME NEW m, Finite(m), NEW D \in SUBSET Obj, NEW E \in SUBSET D, NEW x
    PROVE  Held(m, E, x) <= Held(m, D, x)
  <1>1. D = E \cup (D \ E) /\ E \in SUBSET Obj /\ D \ E \in SUBSET Obj /\ E \cap (D \ E) = {}
    OBVIOUS
  <1>2. Held(m, D, x) = Held(m, E, x) + Held(m, D \ E, x)
    BY <1>1, HeldSplit
  <1> QED
    BY <1>1, <1>2, HeldType

(* Fields that stay keep their references. *)
LEMMA HeldSame ==
    ASSUME NEW m, NEW n, NEW D \in SUBSET Obj, \A o \in D : Elems(n, o) = Elems(m, o), NEW x
    PROVE  Held(n, D, x) = Held(m, D, x)
  <1>1. \A o \in D : {o} \X {i \in DOMAIN Elems(n, o) : Elems(n, o)[i] = x}
                        = {o} \X {i \in DOMAIN Elems(m, o) : Elems(m, o)[i] = x}
    OBVIOUS
  <1>2. HeldBy(n, D, x) = HeldBy(m, D, x)
    BY <1>1 DEF HeldBy
  <1> QED
    BY <1>2 DEF Held, HeldBy

(* Fields that are emptied lose theirs. *)
LEMMA HeldGone ==
    ASSUME NEW m, NEW n, Finite(m), Finite(n), NEW D \in SUBSET Obj, NEW x,
           \A o \in Obj : Elems(n, o) = IF o \in D THEN <<>> ELSE Elems(m, o)
    PROVE  Held(n, Obj, x) = Held(m, Obj, x) - Held(m, D, x)
  <1>1. Obj = D \cup (Obj \ D) /\ Obj \ D \in SUBSET Obj /\ D \cap (Obj \ D) = {}
    OBVIOUS
  <1>2. Held(n, Obj \ D, x) = Held(m, Obj \ D, x)
    BY HeldSame
  <1>3. Held(n, D, x) = 0
    <2>1. \A o \in D : x \notin ToSet(Elems(n, o))
      BY DEF ToSet
    <2> QED
      BY <2>1, HeldType
  <1> HIDE DEF Finite
  <1>4. /\ Held(n, Obj, x) = Held(n, D, x) + Held(n, Obj \ D, x)
        /\ Held(m, Obj, x) = Held(m, D, x) + Held(m, Obj \ D, x)
    BY <1>1, HeldSplit
  <1>5. Held(m, D, x) \in Nat /\ Held(n, Obj \ D, x) \in Nat
    BY <1>1, HeldType
  <1> QED
    BY <1>2, <1>3, <1>4, <1>5

(* A field that changes exchanges its references. *)
LEMMA HeldMove ==
    ASSUME NEW m, NEW n, Finite(m), Finite(n), NEW o \in Obj, NEW x,
           \A p \in Obj \ {o} : Elems(n, p) = Elems(m, p)
    PROVE  Held(n, Obj, x) = Held(m, Obj, x) - Occ(Elems(m, o), x) + Occ(Elems(n, o), x)
  <1>1. Obj = {o} \cup (Obj \ {o}) /\ Obj \ {o} \in SUBSET Obj /\ {o} \in SUBSET Obj /\ {o} \cap (Obj \ {o}) = {}
    OBVIOUS
  <1>2. Held(n, Obj \ {o}, x) = Held(m, Obj \ {o}, x)
    BY HeldSame
  <1>3. /\ Held(n, Obj, x) = Held(n, {o}, x) + Held(n, Obj \ {o}, x)
        /\ Held(m, Obj, x) = Held(m, {o}, x) + Held(m, Obj \ {o}, x)
    BY <1>1, HeldSplit
  <1>4. Held(n, {o}, x) = Occ(Elems(n, o), x) /\ Held(m, {o}, x) = Occ(Elems(m, o), x)
    BY HeldOne
  <1>5. /\ Held(n, {o}, x) \in Nat /\ Held(m, {o}, x) \in Nat
        /\ Held(n, Obj \ {o}, x) \in Nat /\ Held(m, Obj \ {o}, x) \in Nat
    BY <1>1, HeldType
  <1> QED
    BY <1>2, <1>3, <1>4, <1>5
-----------------------------------------------------------------------------
(* What the runtime's calls do to an exact memory.                          *)

(* In an exact memory only counted objects have fields. *)
LEMMA ElemsType ==
    ASSUME NEW m, NEW ext, NEW E, MemExact(m, ext, E)
    PROVE  /\ Finite(m) /\ \A o \in Obj : Elems(m, o) \in Seq(Ref) /\ ToSet(Elems(m, o)) \subseteq Ref
           /\ \A o \in Obj \ Counted(m) : Elems(m, o) = <<>>
  <1>1. ASSUME NEW o \in Obj PROVE Elems(m, o) \in Seq(Ref)
    <2>1. m.fld[o] \in Buf \cup {Nil} /\ m.els \in [Buf -> Seq(Ref)]
      BY DEF MemExact, Mem
    <2>2. <<>> \in Seq(Ref)
      OBVIOUS
    <2> QED
      BY <2>1, <2>2 DEF Elems
  <1>2. Finite(m) /\ \A o \in Obj : ToSet(Elems(m, o)) \subseteq Ref
    BY <1>1, SeqDomain DEF Finite
  <1>3. \A o \in Obj \ Counted(m) : Elems(m, o) = <<>>
    BY DEF MemExact, FieldsExact, Counted, Elems
  <1> QED
    BY <1>1, <1>2, <1>3

(* So all references from fields are from counted objects' fields. *)
LEMMA HeldCounted ==
    ASSUME NEW m, NEW ext, NEW E, MemExact(m, ext, E), NEW x
    PROVE  Held(m, Counted(m), x) = Held(m, Obj, x)
  <1>1. Obj = Counted(m) \cup (Obj \ Counted(m)) /\ Counted(m) \in SUBSET Obj /\ Obj \ Counted(m) \in SUBSET Obj
    BY DEF Counted
  <1>2. Finite(m) /\ \A o \in Obj \ Counted(m) : Elems(m, o) = <<>>
    BY ElemsType
  <1>3. Held(m, Obj, x) = Held(m, Counted(m), x) + Held(m, Obj \ Counted(m), x)
    <2>1. Counted(m) \cap (Obj \ Counted(m)) = {}
      OBVIOUS
    <2> QED
      BY <1>1, <1>2, <2>1, HeldSplit
  <1>4. Held(m, Obj \ Counted(m), x) = 0
    <2>1. \A o \in Obj \ Counted(m) : x \notin ToSet(Elems(m, o))
      BY <1>2 DEF ToSet
    <2> HIDE DEF Finite
    <2> QED
      BY <1>1, <1>2, <2>1, HeldType
  <1>5. Held(m, Counted(m), x) \in Nat
    BY <1>1, <1>2, HeldType
  <1> QED
    BY <1>3, <1>4, <1>5

(* What something refers to is there. *)
LEMMA Referred ==
    ASSUME NEW m, NEW ext, NEW E, MemExact(m, ext, E), NEW x \in Obj,
           ext[x] > 0 \/ \E o \in Obj : x \in ToSet(Elems(m, o))
    PROVE  m.st[x] \in {"counted", "handed"} /\ m.cnt[x] > 0
  <1>1. ext[x] \in Nat /\ m.cnt[x] = ext[x] + Held(m, Obj, x)
    BY DEF MemExact, CountSum
  <1>2. Held(m, Obj, x) \in Nat /\ (Held(m, Obj, x) > 0 <=> \E o \in Obj : x \in ToSet(Elems(m, o)))
    BY ElemsType, HeldType
  <1>3. m.cnt[x] > 0
    BY <1>1, <1>2
  <1>4. m.st[x] \in {"none", "counted", "handed", "token"}
    BY DEF MemExact, Mem
  <1> QED
    BY <1>3, <1>4 DEF MemExact, CountSum

(* fgoRCInc adds the references in q to the others. *)
LEMMA IncExact ==
    ASSUME NEW m, NEW ext, NEW E, MemExact(m, ext, E), NEW q, IsFiniteSet(DOMAIN q),
           \A x \in ToSet(q) \cap Obj : m.st[x] \in {"counted", "handed"},
           NEW new, new = [x \in Obj |-> ext[x] + Occ(q, x)]
    PROVE  LET n == fgoRCInc(m, q) IN
           /\ MemExact(n, new, E)
           /\ n.st = m.st /\ n.typ = m.typ /\ n.fld = m.fld /\ n.gcs = m.gcs /\ n.buf = m.buf /\ n.els = m.els
           /\ n.cnt = [x \in Obj |-> m.cnt[x] + Occ(q, x)]
           /\ \A o \in Obj : Elems(n, o) = Elems(m, o)
  <1> DEFINE n == fgoRCInc(m, q)
  <1>1. /\ n.st = m.st /\ n.typ = m.typ /\ n.fld = m.fld /\ n.gcs = m.gcs /\ n.buf = m.buf /\ n.els = m.els
        /\ n.cnt = [x \in Obj |-> m.cnt[x] + Occ(q, x)]
    BY DEF fgoRCInc, MemExact, Mem
  <1>2. \A x \in Obj : Occ(q, x) \in Nat /\ (Occ(q, x) > 0 <=> x \in ToSet(q))
    BY OccType
  <1>3. n \in Mem /\ new \in [Obj -> Nat]
    <2> DEFINE c == [x \in Obj |-> m.cnt[x] + Occ(q, x)]
    <2>1. c \in [Obj -> Nat] /\ m \in Mem
      BY <1>2 DEF MemExact, Mem
    <2>2. n = [m EXCEPT !.cnt = c]
      BY DEF fgoRCInc
    <2> HIDE DEF c, n
    <2>3. n \in Mem
      BY <2>1, <2>2 DEF Mem
    <2>4. new \in [Obj -> Nat]
      BY <1>2 DEF MemExact
    <2> QED
      BY <2>3, <2>4
  <1> HIDE DEF n
  <1>4. \A o \in Obj : Elems(n, o) = Elems(m, o)
    BY <1>1 DEF Elems
  <1>5. CountSum(n, new)
    <2> SUFFICES ASSUME NEW x \in Obj
                 PROVE  /\ n.cnt[x] = new[x] + Held(n, Obj, x)
                        /\ n.st[x] = "counted" => n.cnt[x] > 0
                        /\ n.st[x] \in {"none", "token"} => n.cnt[x] = 0
      BY DEF CountSum
    <2>1. Held(n, Obj, x) = Held(m, Obj, x)
      BY <1>4, HeldSame
    <2>4. Held(m, Obj, x) \in Nat
      BY HeldType, ElemsType
    <2>2. ext[x] \in Nat /\ m.cnt[x] \in Nat /\ m.cnt[x] = ext[x] + Held(m, Obj, x)
      BY DEF MemExact, Mem, CountSum
    <2>3. m.st[x] \in {"none", "token"} => Occ(q, x) = 0
      BY <1>2
    <2> QED
      BY <1>1, <1>2, <2>1, <2>2, <2>3, <2>4 DEF MemExact, CountSum
  <1>6. FieldsExact(n, E)
    BY <1>1 DEF MemExact, FieldsExact, Owned
  <1> QED
    BY <1>1, <1>3, <1>4, <1>5, <1>6 DEF MemExact, n

(* The objects that die with the references in q, of which each is one of   *)
(* the others, are those all of whose references go.                        *)
LEMMA DyingIs ==
    ASSUME NEW m, NEW ext, NEW E, MemExact(m, ext, E), NEW q, IsFiniteSet(DOMAIN q),
           \A x \in Obj : Occ(q, x) <= ext[x]
    PROVE  LET D == Dying(m, q) IN
           /\ D \subseteq Counted(m)
           /\ \A x \in Obj : Lost(m, q, D, x) \in Nat /\ Lost(m, q, D, x) <= m.cnt[x]
           /\ \A x \in Counted(m) : x \in D <=> m.cnt[x] = Lost(m, q, D, x)
  <1> DEFINE D == Dying(m, q)
             Goes(S, x) == Lost(m, q, S, x) > 0 /\ m.cnt[x] = Lost(m, q, S, x)
             Closed(S) == \A x \in Counted(m) : Goes(S, x) => x \in S
  <1>0. D \in SUBSET Counted(m) /\ Counted(m) \in SUBSET Obj
    BY DEF Dying, Counted
  <1>1. \A S \in SUBSET Counted(m) : Closed(S) => D \subseteq S
    <2> SUFFICES ASSUME NEW S \in SUBSET Counted(m), Closed(S) PROVE D \subseteq S
      OBVIOUS
    <2>1. \A x \in Counted(m) \ S : ~(Lost(m, q, S, x) > 0 /\ m.cnt[x] = Lost(m, q, S, x))
      OBVIOUS
    <2> QED
      BY <2>1 DEF Dying
  <1>2. ASSUME NEW x \in Counted(m), x \notin D PROVE \E S \in SUBSET Counted(m) : Closed(S) /\ x \notin S
    <2>1. PICK S \in SUBSET Counted(m) :
             /\ \A y \in Counted(m) \ S : ~(Lost(m, q, S, y) > 0 /\ m.cnt[y] = Lost(m, q, S, y))
             /\ x \notin S
      BY <1>2 DEF Dying
    <2> QED
      BY <2>1
  <1> HIDE DEF D
  <1>3. ASSUME NEW S \in SUBSET Counted(m), NEW T \in SUBSET S, NEW x \in Obj
        PROVE  /\ Lost(m, q, S, x) \in Nat /\ Lost(m, q, T, x) \in Nat
               /\ Lost(m, q, T, x) <= Lost(m, q, S, x) /\ Lost(m, q, S, x) <= m.cnt[x]
    <2>1. Held(m, T, x) <= Held(m, S, x) /\ Held(m, S, x) <= Held(m, Obj, x)
      BY <1>0, ElemsType, HeldLess
    <2>2. Held(m, T, x) \in Nat /\ Held(m, S, x) \in Nat /\ Held(m, Obj, x) \in Nat
      BY <1>0, ElemsType, HeldType
    <2>3. Occ(q, x) \in Nat /\ Occ(q, x) <= ext[x] /\ ext[x] \in Nat /\ m.cnt[x] = ext[x] + Held(m, Obj, x)
      BY OccType DEF MemExact, CountSum
    <2> QED
      BY <2>1, <2>2, <2>3 DEF Lost
  <1>4. Closed(D)
    <2> SUFFICES ASSUME NEW x \in Counted(m), Goes(D, x), x \notin D PROVE FALSE
      OBVIOUS
    <2>1. PICK S \in SUBSET Counted(m) : Closed(S) /\ x \notin S
      BY <1>2
    <2>2. D \in SUBSET S
      BY <1>1, <2>1
    <2>3. x \in Obj
      BY <1>0
    <2>4. /\ Lost(m, q, S, x) \in Nat /\ Lost(m, q, D, x) \in Nat
          /\ Lost(m, q, D, x) <= Lost(m, q, S, x) /\ Lost(m, q, S, x) <= m.cnt[x]
      BY <1>3, <2>2, <2>3
    <2>5. Goes(S, x)
      BY <2>4
    <2> QED
      BY <2>1, <2>5
  <1>5. ASSUME NEW x \in D PROVE Goes(D, x)
    <2> DEFINE S == D \ {x}
    <2>1. S \in SUBSET D /\ D \in SUBSET Counted(m) /\ ~(D \subseteq S) /\ S \in SUBSET Counted(m)
      BY <1>0
    <2>2. PICK y \in Counted(m) : Goes(S, y) /\ y \notin S
      BY <1>1, <2>1
    <2> HIDE DEF S
    <2>3. y \in Obj
      BY <1>0
    <2>4. /\ Lost(m, q, D, y) \in Nat /\ Lost(m, q, S, y) \in Nat
          /\ Lost(m, q, S, y) <= Lost(m, q, D, y) /\ Lost(m, q, D, y) <= m.cnt[y]
      BY <1>3, <2>1, <2>3
    <2>5. Goes(D, y)
      BY <2>2, <2>4
    <2>6. y \in D
      BY <1>4, <2>5
    <2> QED
      BY <2>2, <2>5, <2>6 DEF S
  <1>6. ASSUME NEW x \in Counted(m), m.cnt[x] = Lost(m, q, D, x) PROVE x \in D
    <2>1. m.cnt[x] > 0
      BY DEF MemExact, CountSum, Counted
    <2> QED
      BY <1>4, <1>6, <2>1
  <1>7. \A x \in Obj : Lost(m, q, D, x) \in Nat /\ Lost(m, q, D, x) <= m.cnt[x]
    BY <1>0, <1>3
  <1> QED
    BY <1>0, <1>5, <1>6, <1>7 DEF D

-----------------------------------------------------------------------------
(* The same for the other calls.                                            *)

(* fgoBufFree frees buffers. *)
LEMMA FreeIs ==
    ASSUME NEW m \in Mem, NEW B
    PROVE  LET n == fgoBufFree(m, B) IN
           /\ n \in Mem /\ n.st = m.st /\ n.cnt = m.cnt /\ n.typ = m.typ /\ n.fld = m.fld /\ n.gcs = m.gcs
           /\ \A b \in Buf : n.buf[b] = (IF b \in B THEN "free" ELSE m.buf[b])
           /\ \A b \in Buf : n.els[b] = (IF b \in B THEN <<>> ELSE m.els[b])
  <1> DEFINE n == fgoBufFree(m, B)
             u == [b \in Buf |-> IF b \in B THEN "free" ELSE m.buf[b]]
             e == [b \in Buf |-> IF b \in B THEN <<>> ELSE m.els[b]]
  <1>1. n = [m EXCEPT !.buf = u, !.els = e]
    BY DEF fgoBufFree
  <1>2. u \in [Buf -> {"free", "small", "large", "handed", "leaked"}] /\ e \in [Buf -> Seq(Ref)]
    <2>1. m.buf \in [Buf -> {"free", "small", "large", "handed", "leaked"}] /\ m.els \in [Buf -> Seq(Ref)] /\ <<>> \in Seq(Ref)
      BY DEF Mem
    <2> QED
      BY <2>1
  <1>3. \A b \in Buf : u[b] = (IF b \in B THEN "free" ELSE m.buf[b]) /\ e[b] = (IF b \in B THEN <<>> ELSE m.els[b])
    OBVIOUS
  <1> HIDE DEF u, e, n
  <1>4. n \in Mem
    BY <1>1, <1>2 DEF Mem
  <1>5. n.st = m.st /\ n.cnt = m.cnt /\ n.typ = m.typ /\ n.fld = m.fld /\ n.gcs = m.gcs /\ n.buf = u /\ n.els = e
    BY <1>1 DEF Mem
  <1> QED
    BY <1>3, <1>4, <1>5 DEF n

(* fgoRCDec empties the objects that die. *)
LEMMA DecIs ==
    ASSUME NEW m \in Mem, NEW q, Dying(m, q) \subseteq Obj,
           \A x \in Obj : Lost(m, q, Dying(m, q), x) \in Nat /\ Lost(m, q, Dying(m, q), x) <= m.cnt[x]
    PROVE  LET n == fgoRCDec(m, q)
               D == Dying(m, q)
               B == {m.fld[o] : o \in D}
           IN  /\ n \in Mem /\ n.gcs = m.gcs
               /\ \A x \in Obj : /\ n.st[x] = (IF x \in D THEN "none" ELSE m.st[x])
                                 /\ n.cnt[x] = m.cnt[x] - Lost(m, q, D, x)
                                 /\ n.typ[x] = (IF x \in D THEN "data" ELSE m.typ[x])
                                 /\ n.fld[x] = (IF x \in D THEN Nil ELSE m.fld[x])
               /\ \A b \in Buf : /\ n.buf[b] = (IF b \in B THEN "free" ELSE m.buf[b])
                                 /\ n.els[b] = (IF b \in B THEN <<>> ELSE m.els[b])
  <1> DEFINE D == Dying(m, q)
             B == {m.fld[o] : o \in D}
             c == [x \in Obj |-> m.cnt[x] - Lost(m, q, D, x)]
             s == [x \in Obj |-> IF x \in D THEN "none" ELSE m.st[x]]
             t == [x \in Obj |-> IF x \in D THEN "data" ELSE m.typ[x]]
             f == [x \in Obj |-> IF x \in D THEN Nil ELSE m.fld[x]]
             m1 == [m EXCEPT !.cnt = c]
             m2 == [m1 EXCEPT !.st = s, !.typ = t, !.fld = f]
  <1>1. /\ m.st \in [Obj -> {"none", "counted", "handed", "token"}] /\ m.cnt \in [Obj -> Nat]
        /\ m.typ \in [Obj -> {"ptrs", "data"}] /\ m.fld \in [Obj -> Buf \cup {Nil}]
    BY DEF Mem
  <1>2. /\ c \in [Obj -> Nat] /\ s \in [Obj -> {"none", "counted", "handed", "token"}]
        /\ t \in [Obj -> {"ptrs", "data"}] /\ f \in [Obj -> Buf \cup {Nil}]
    BY <1>1
  <1>3. m1 = [m EXCEPT !.cnt = [x \in Obj |-> @[x] - Lost(m, q, D, x)]]
    OBVIOUS
  <1> HIDE DEF c
  <1>4. m1 \in Mem /\ m1.st = m.st /\ m1.typ = m.typ /\ m1.fld = m.fld /\ m1.gcs = m.gcs
        /\ m1.buf = m.buf /\ m1.els = m.els /\ m1.cnt = c
    BY <1>2 DEF Mem
  <1> HIDE DEF m1
  <1>5. Released(m1, D) = fgoBufFree(m2, B)
    BY <1>4 DEF Released
  <1> HIDE DEF s, t, f
  <1>6. m2 \in Mem /\ m2.st = s /\ m2.typ = t /\ m2.fld = f /\ m2.gcs = m.gcs
        /\ m2.buf = m.buf /\ m2.els = m.els /\ m2.cnt = c
    BY <1>2, <1>4 DEF Mem
  <1> HIDE DEF m2, D
  <1>7. fgoRCDec(m, q) = fgoBufFree(m2, B)
    BY <1>3, <1>5 DEF fgoRCDec, D
  <1> DEFINE n == fgoBufFree(m2, B)
  <1>8. /\ n \in Mem /\ n.gcs = m.gcs /\ n.st = s /\ n.typ = t /\ n.fld = f /\ n.cnt = c
        /\ \A b \in Buf : n.buf[b] = (IF b \in B THEN "free" ELSE m.buf[b])
        /\ \A b \in Buf : n.els[b] = (IF b \in B THEN <<>> ELSE m.els[b])
    <2> HIDE DEF B
    <2> QED
      BY <1>6, FreeIs
  <1> HIDE DEF n, B
  <1>9. \A x \in Obj : /\ n.st[x] = (IF x \in D THEN "none" ELSE m.st[x])
                       /\ n.cnt[x] = m.cnt[x] - Lost(m, q, D, x)
                       /\ n.typ[x] = (IF x \in D THEN "data" ELSE m.typ[x])
                       /\ n.fld[x] = (IF x \in D THEN Nil ELSE m.fld[x])
    BY <1>8 DEF s, t, f, c
  <1> QED
    BY <1>7, <1>8, <1>9 DEF D, B, n

(* fgoRCHandoff empties the objects reached. *)
LEMMA HandoffIs ==
    ASSUME NEW m \in Mem, NEW S, Reach(m, S) \subseteq Obj,
           \A x \in Obj : Elems(m, x) \in Seq(Ref),
           \A x \in Obj : Held(m, Reach(m, S), x) \in Nat /\ Held(m, Reach(m, S), x) <= m.cnt[x]
    PROVE  LET R == Reach(m, S)
               B == {m.fld[o] : o \in R} \ {Nil}
               n == fgoRCHandoff(m, S)
           IN  /\ n \in Mem /\ n.typ = m.typ /\ n.els = m.els
               /\ \A x \in Obj : /\ n.st[x] = (IF x \in R THEN "handed" ELSE m.st[x])
                                 /\ n.cnt[x] = m.cnt[x] - Held(m, R, x)
                                 /\ n.fld[x] = (IF x \in R THEN Nil ELSE m.fld[x])
                                 /\ n.gcs[x] = (IF x \in R THEN Elems(m, x) ELSE m.gcs[x])
               /\ \A b \in Buf : n.buf[b] = (IF b \in B THEN fgoHandBuf(m.buf[b]) ELSE m.buf[b])
  <1> DEFINE R == Reach(m, S)
             B == {m.fld[o] : o \in R} \ {Nil}
             n == fgoRCHandoff(m, S)
             c == [x \in Obj |-> m.cnt[x] - Held(m, R, x)]
             s == [x \in Obj |-> IF x \in R THEN "handed" ELSE m.st[x]]
             g == [x \in Obj |-> IF x \in R THEN Elems(m, x) ELSE m.gcs[x]]
             f == [x \in Obj |-> IF x \in R THEN Nil ELSE m.fld[x]]
             u == [b \in Buf |-> IF b \in B THEN fgoHandBuf(m.buf[b]) ELSE m.buf[b]]
  <1>1. n = [m EXCEPT !.st = s, !.gcs = g, !.fld = f, !.cnt = c, !.buf = u]
    BY DEF fgoRCHandoff
  <1>2. /\ m.st \in [Obj -> {"none", "counted", "handed", "token"}] /\ m.cnt \in [Obj -> Nat]
        /\ m.gcs \in [Obj -> Seq(Ref)] /\ m.fld \in [Obj -> Buf \cup {Nil}]
        /\ m.buf \in [Buf -> {"free", "small", "large", "handed", "leaked"}]
    BY DEF Mem
  <1> HIDE DEF R
  <1>3. /\ c \in [Obj -> Nat] /\ s \in [Obj -> {"none", "counted", "handed", "token"}]
        /\ g \in [Obj -> Seq(Ref)] /\ f \in [Obj -> Buf \cup {Nil}]
    BY <1>2 DEF R
  <1>4. u \in [Buf -> {"free", "small", "large", "handed", "leaked"}]
    <2> HIDE DEF B
    <2> QED
      BY <1>2 DEF fgoHandBuf
  <1> HIDE DEF c, s, g, f, u, n
  <1>5. n \in Mem /\ n.typ = m.typ /\ n.els = m.els /\ n.st = s /\ n.cnt = c /\ n.fld = f /\ n.gcs = g /\ n.buf = u
    BY <1>1, <1>3, <1>4 DEF Mem
  <1>6. \A x \in Obj : /\ n.st[x] = (IF x \in R THEN "handed" ELSE m.st[x])
                       /\ n.cnt[x] = m.cnt[x] - Held(m, R, x)
                       /\ n.fld[x] = (IF x \in R THEN Nil ELSE m.fld[x])
                       /\ n.gcs[x] = (IF x \in R THEN Elems(m, x) ELSE m.gcs[x])
    BY <1>5 DEF s, c, f, g
  <1>7. \A b \in Buf : n.buf[b] = (IF b \in B THEN fgoHandBuf(m.buf[b]) ELSE m.buf[b])
    <2> HIDE DEF B
    <2> QED
      BY <1>5 DEF u
  <1> QED
    BY <1>5, <1>6, <1>7 DEF R, n

-----------------------------------------------------------------------------
(* What the calls keep of a sound memory.                                   *)

HandedStay(m, n) == \A c \in Buf : m.buf[c] = "handed" => n.buf[c] = "handed"

(* fgoRCDec takes the references in q away. *)
LEMMA DecSound ==
    ASSUME NEW m, NEW ext, NEW E, NEW g, NEW p, NEW b, NEW X, Sound(m, ext, E, g, p, b, X),
           NEW q, IsFiniteSet(DOMAIN q), \A x \in Obj : Occ(q, x) <= ext[x],
           NEW new, new = [x \in Obj |-> ext[x] - Occ(q, x)],
           b # Nil => new[p] > 0
    PROVE  LET n == fgoRCDec(m, q)
               D == Dying(m, q)
           IN
           /\ Sound(n, new, E, g, p, b, X)
           /\ D \subseteq Counted(m) /\ n.gcs = m.gcs
           /\ \A x \in Obj : /\ n.st[x] = (IF x \in D THEN "none" ELSE m.st[x])
                             /\ Elems(n, x) = (IF x \in D THEN <<>> ELSE Elems(m, x))
                             /\ n.cnt[x] <= m.cnt[x]
           /\ \A x \in Counted(m) : Occ(q, x) = m.cnt[x] => x \in D
           /\ \A e \in E : n.els[e] = m.els[e]
           /\ HandedStay(m, n)
  <1> DEFINE n == fgoRCDec(m, q)
             D == Dying(m, q)
             B == {m.fld[o] : o \in D}
  <1>0. MemExact(m, ext, E) /\ GcSafe(m, g, b, X) /\ ViewHeld(m, ext, p, b) /\ m \in Mem
    BY DEF Sound, MemExact
  <1>1. /\ D \subseteq Counted(m) /\ D \subseteq Obj /\ D \in SUBSET Obj
        /\ \A x \in Obj : Lost(m, q, D, x) \in Nat /\ Lost(m, q, D, x) <= m.cnt[x]
        /\ \A x \in Counted(m) : x \in D <=> m.cnt[x] = Lost(m, q, D, x)
    BY <1>0, DyingIs DEF Counted
  <1>2. /\ n \in Mem /\ n.gcs = m.gcs
        /\ \A x \in Obj : /\ n.st[x] = (IF x \in D THEN "none" ELSE m.st[x])
                          /\ n.cnt[x] = m.cnt[x] - Lost(m, q, D, x)
                          /\ n.typ[x] = (IF x \in D THEN "data" ELSE m.typ[x])
                          /\ n.fld[x] = (IF x \in D THEN Nil ELSE m.fld[x])
        /\ \A c \in Buf : /\ n.buf[c] = (IF c \in B THEN "free" ELSE m.buf[c])
                          /\ n.els[c] = (IF c \in B THEN <<>> ELSE m.els[c])
    BY <1>0, <1>1, DecIs
  <1> HIDE DEF n, D
  <1>3. /\ \A x \in Obj : m.fld[x] # Nil => m.fld[x] \in Buf /\ m.fld[x] \in Owned(m) /\ m.fld[x] \notin E
        /\ \A x \in Obj \ D : m.fld[x] # Nil => m.fld[x] \notin B
        /\ E \subseteq Owned(m) /\ B \cap E = {}
        /\ B \subseteq Owned(m) \cup {Nil} /\ Nil \notin Buf
    <2>1. \A x \in Obj : m.fld[x] # Nil => m.fld[x] \in Buf
      BY <1>0 DEF Mem
    <2>2. E \subseteq Buf
      BY <1>0 DEF MemExact
    <2> QED
      BY <1>0, <1>1, <2>1, <2>2, Names DEF MemExact, FieldsExact
  <1>4. \A x \in Obj : Elems(n, x) = IF x \in D THEN <<>> ELSE Elems(m, x)
    BY <1>2, <1>3 DEF Elems
  <1>5. FieldsExact(n, E)
    <2>1. \A o \in Obj : n.fld[o] # Nil =>
             /\ n.st[o] = "counted" /\ n.fld[o] \notin E
             /\ n.typ[o] = "data" => n.els[n.fld[o]] = <<>>
      BY <1>0, <1>2, <1>3 DEF MemExact, FieldsExact
    <2>2. \A o, r \in Obj : n.fld[o] = n.fld[r] /\ n.fld[o] # Nil => o = r
      BY <1>0, <1>2 DEF MemExact, FieldsExact
    <2>3. Owned(n) = Owned(m) \ B
      BY <1>2 DEF Owned
    <2>4. {n.fld[o] : o \in Obj} \ {Nil} = ({m.fld[o] : o \in Obj} \ {Nil}) \ B
      BY <1>1, <1>2, <1>3
    <2>5. Owned(n) = E \cup ({n.fld[o] : o \in Obj} \ {Nil})
      BY <1>0, <1>3, <2>3, <2>4 DEF MemExact, FieldsExact
    <2> QED
      BY <2>1, <2>2, <2>5 DEF FieldsExact
  <1>6. /\ Finite(m) /\ Finite(n)
        /\ \A x \in Obj : Held(n, Obj, x) = Held(m, Obj, x) - Held(m, D, x)
    <2>1. Finite(m)
      BY <1>0, ElemsType
    <2>2. IsFiniteSet(DOMAIN <<>>)
      <3>1. <<>> \in Seq(Ref)
        OBVIOUS
      <3> QED
        BY <3>1, SeqDomain
    <2>3. Finite(n)
      BY <1>4, <2>1, <2>2 DEF Finite
    <2> HIDE DEF Finite
    <2> QED
      BY <1>1, <1>4, <2>1, <2>3, HeldGone
  <1> HIDE DEF Finite
  <1>7. \A x \in Obj : /\ Occ(q, x) \in Nat /\ ext[x] \in Nat /\ m.cnt[x] = ext[x] + Held(m, Obj, x)
                       /\ Held(m, Obj, x) \in Nat /\ Held(m, D, x) \in Nat /\ Held(n, Obj, x) \in Nat
                       /\ m.cnt[x] \in Nat /\ n.cnt[x] \in Nat
    <2>1. \A x \in Obj : m.cnt[x] \in Nat /\ n.cnt[x] \in Nat
      BY <1>0, <1>2 DEF Mem
    <2> QED
      BY <1>0, <1>1, <1>6, <2>1, OccType, HeldType DEF MemExact, CountSum
  <1>8. new \in [Obj -> Nat]
    BY <1>7
  <1>9. CountSum(n, new)
    <2> SUFFICES ASSUME NEW x \in Obj
                 PROVE  /\ n.cnt[x] = new[x] + Held(n, Obj, x)
                        /\ n.st[x] = "counted" => n.cnt[x] > 0
                        /\ n.st[x] \in {"none", "token"} => n.cnt[x] = 0
      BY DEF CountSum
    <2>1. n.cnt[x] = new[x] + Held(n, Obj, x)
      BY <1>2, <1>6, <1>7 DEF Lost
    <2>2. x \in D => n.cnt[x] = 0
      BY <1>1, <1>2, <1>7
    <2>3. CASE x \in D
      BY <1>2, <2>1, <2>2, <2>3
    <2>4. CASE x \notin D
      <3>1. n.st[x] = m.st[x] /\ n.cnt[x] = m.cnt[x] - Lost(m, q, D, x) /\ n.cnt[x] \in Nat /\ m.cnt[x] \in Nat
        BY <1>2, <1>7, <2>4
      <3>2. Lost(m, q, D, x) \in Nat /\ Lost(m, q, D, x) <= m.cnt[x]
        BY <1>1
      <3>3. m.st[x] = "counted" => m.cnt[x] # Lost(m, q, D, x)
        BY <1>1, <2>4 DEF Counted
      <3>4. m.st[x] \in {"none", "token"} => m.cnt[x] = 0
        BY <1>0 DEF MemExact, CountSum
      <3> QED
        BY <2>1, <3>1, <3>2, <3>3, <3>4
    <2> QED
      BY <2>3, <2>4
  <1>10. MemExact(n, new, E)
    BY <1>0, <1>2, <1>5, <1>8, <1>9 DEF MemExact
  <1>11. GcSafe(n, g, b, X)
    <2>1. \A x \in Obj : n.st[x] = "handed" <=> m.st[x] = "handed"
      BY <1>1, <1>2 DEF Counted
    <2>2. \A x \in Obj : n.cnt[x] <= m.cnt[x] /\ m.cnt[x] \in Nat /\ n.cnt[x] \in Nat
      BY <1>1, <1>2, <1>7
    <2>3. b \in Buf /\ n.buf[b] = "handed" => m.buf[b] = "handed" /\ n.els[b] = m.els[b]
      BY <1>2
    <2> QED
      BY <1>0, <1>2, <2>1, <2>2, <2>3 DEF GcSafe
  <1>12. ViewHeld(n, new, p, b)
    <2> SUFFICES ASSUME b # Nil
                 PROVE  \/ n.fld[p] = b
                        \/ n.buf[b] = "handed"
                        \/ n.buf[b] = "leaked" /\ n.st[p] = "handed" /\ n.gcs[p] = n.els[b]
      BY <1>0 DEF ViewHeld
    <2>1. p \in Obj /\ b \in Buf /\ p \notin D
      <3>1. p \in Obj /\ b \in Buf
        BY <1>0 DEF ViewHeld
      <3>2. new[p] > 0 => n.cnt[p] > 0
        <4>1. n.cnt[p] = new[p] + Held(n, Obj, p) /\ new[p] \in Nat
          BY <3>1, <1>8, <1>9 DEF CountSum
        <4> QED
          BY <1>7, <3>1, <4>1
      <3>3. p \in D => n.cnt[p] = 0
        <4>1. p \in D => m.cnt[p] = Lost(m, q, D, p)
          BY <1>1
        <4>2. n.cnt[p] = m.cnt[p] - Lost(m, q, D, p)
          BY <1>2, <3>1
        <4>3. m.cnt[p] \in Nat
          BY <1>7, <3>1
        <4> QED
          BY <4>1, <4>2, <4>3
      <3> QED
        BY <3>1, <3>2, <3>3
    <2>2. CASE m.fld[p] = b
      BY <1>2, <2>1, <2>2
    <2>3. CASE m.buf[b] \in {"handed", "leaked"}
      <3>1. b \notin B
        BY <1>3, <2>1, <2>3 DEF Owned
      <3> QED
        BY <1>0, <1>2, <2>1, <2>2, <3>1 DEF ViewHeld
    <2> QED
      BY <1>0, <2>2, <2>3 DEF ViewHeld
  <1>13. Sound(n, new, E, g, p, b, X)
    BY <1>10, <1>11, <1>12 DEF Sound
  <1>14. \A x \in Counted(m) : Occ(q, x) = m.cnt[x] => x \in D
    <2> SUFFICES ASSUME NEW x \in Counted(m), Occ(q, x) = m.cnt[x] PROVE x \in D
      OBVIOUS
    <2>1. x \in Obj
      BY DEF Counted
    <2>2. m.cnt[x] = Lost(m, q, D, x)
      BY <1>1, <1>7, <2>1 DEF Lost
    <2> QED
      BY <1>1, <2>2
  <1>15. \A e \in E : n.els[e] = m.els[e]
    BY <1>0, <1>2, <1>3 DEF MemExact
  <1>16. \A x \in Obj : n.cnt[x] <= m.cnt[x]
    BY <1>1, <1>2, <1>7
  <1>17. HandedStay(m, n)
    BY <1>2, <1>3 DEF HandedStay, Owned
  <1> QED
    BY <1>1, <1>2, <1>4, <1>13, <1>14, <1>15, <1>16, <1>17 DEF n, D

(* What fgoRCHandoff reaches. *)
LEMMA ReachIs ==
    ASSUME NEW m, NEW S
    PROVE  LET R == Reach(m, S) IN
           /\ R \subseteq Counted(m) /\ S \cap Counted(m) \subseteq R
           /\ \A o \in R : ToSet(Elems(m, o)) \cap Counted(m) \subseteq R
           /\ \A Q \in SUBSET Counted(m) :
                 S \cap Counted(m) \subseteq Q /\ (\A o \in Q : ToSet(Elems(m, o)) \cap Counted(m) \subseteq Q)
                   => R \subseteq Q
  <1> DEFINE R == Reach(m, S)
             Closed(Q) == /\ S \cap Counted(m) \subseteq Q
                          /\ \A o \in Q : ToSet(Elems(m, o)) \cap Counted(m) \subseteq Q
  <1>1. R = {x \in Counted(m) : \A Q \in SUBSET Counted(m) : Closed(Q) => x \in Q}
    BY DEF Reach
  <1>2. S \cap Counted(m) \subseteq R
    BY <1>1
  <1>3. ASSUME NEW o \in R, NEW x \in ToSet(Elems(m, o)) \cap Counted(m) PROVE x \in R
    <2>1. \A Q \in SUBSET Counted(m) : Closed(Q) => o \in Q
      BY <1>1
    <2> QED
      BY <1>1, <2>1
  <1>4. \A Q \in SUBSET Counted(m) : Closed(Q) => R \subseteq Q
    BY <1>1
  <1> QED
    BY <1>1, <1>2, <1>3, <1>4

(* fgoRCHandoff leaves the references there are; the GC may reach what was  *)
(* handed off, and its elements.                                            *)
LEMMA HandoffSound ==
    ASSUME NEW m, NEW ext, NEW E, NEW g, NEW p, NEW b, NEW X, Sound(m, ext, E, g, p, b, X), NEW S
    PROVE  LET n == fgoRCHandoff(m, S)
               R == Reach(m, S)
           IN
           /\ Sound(n, ext, E, g, p, b, X \cup R)
           /\ R \subseteq Counted(m) /\ S \cap Counted(m) \subseteq R
           /\ n.els = m.els /\ HandedStay(m, n)
           /\ \A x \in Obj : /\ n.st[x] = (IF x \in R THEN "handed" ELSE m.st[x])
                             /\ Elems(n, x) = (IF x \in R THEN <<>> ELSE Elems(m, x))
                             /\ x \notin R => n.gcs[x] = m.gcs[x]
  <1> DEFINE n == fgoRCHandoff(m, S)
             R == Reach(m, S)
             B == {m.fld[o] : o \in R} \ {Nil}
             Y == X \cup R
  <1>0. MemExact(m, ext, E) /\ GcSafe(m, g, b, X) /\ ViewHeld(m, ext, p, b) /\ m \in Mem
    BY DEF Sound, MemExact
  <1>1. /\ R \subseteq Counted(m) /\ R \subseteq Obj /\ R \in SUBSET Obj /\ S \cap Counted(m) \subseteq R
        /\ \A o \in R : ToSet(Elems(m, o)) \cap Counted(m) \subseteq R
    BY ReachIs DEF Counted
  <1>2. /\ Finite(m) /\ \A x \in Obj : Elems(m, x) \in Seq(Ref)
        /\ \A x \in Obj : ToSet(Elems(m, x)) \subseteq Ref
        /\ \A o \in Obj \ Counted(m) : Elems(m, o) = <<>>
    BY <1>0, ElemsType
  <1>3. \A x \in Obj : /\ Held(m, R, x) \in Nat /\ Held(m, R, x) <= Held(m, Obj, x)
                       /\ Held(m, R, x) > 0 <=> \E o \in R : x \in ToSet(Elems(m, o))
                       /\ Held(m, Obj, x) \in Nat /\ ext[x] \in Nat /\ m.cnt[x] = ext[x] + Held(m, Obj, x)
    BY <1>0, <1>1, <1>2, HeldType, HeldLess DEF MemExact, CountSum
  <1>4. /\ n \in Mem /\ n.typ = m.typ /\ n.els = m.els
        /\ \A x \in Obj : /\ n.st[x] = (IF x \in R THEN "handed" ELSE m.st[x])
                          /\ n.cnt[x] = m.cnt[x] - Held(m, R, x)
                          /\ n.fld[x] = (IF x \in R THEN Nil ELSE m.fld[x])
                          /\ n.gcs[x] = (IF x \in R THEN Elems(m, x) ELSE m.gcs[x])
        /\ \A c \in Buf : n.buf[c] = (IF c \in B THEN fgoHandBuf(m.buf[c]) ELSE m.buf[c])
    <2>1. \A x \in Obj : Held(m, R, x) <= m.cnt[x]
      BY <1>3
    <2> QED
      BY <1>0, <1>1, <1>2, <1>3, <2>1, HandoffIs
  <1> HIDE DEF n, R
  <1>5. /\ \A x \in Obj : m.fld[x] # Nil => m.fld[x] \in Buf /\ m.fld[x] \in Owned(m) /\ m.fld[x] \notin E
        /\ \A x \in Obj \ R : m.fld[x] # Nil => m.fld[x] \notin B
        /\ E \subseteq Owned(m) /\ B \cap E = {}
        /\ B \subseteq Owned(m) /\ Nil \notin Buf
    <2>1. \A x \in Obj : m.fld[x] # Nil => m.fld[x] \in Buf
      BY <1>0 DEF Mem
    <2>2. E \subseteq Buf
      BY <1>0 DEF MemExact
    <2> QED
      BY <1>0, <1>1, <2>1, <2>2, Names DEF MemExact, FieldsExact
  <1>6. \A x \in Obj : Elems(n, x) = IF x \in R THEN <<>> ELSE Elems(m, x)
    BY <1>4 DEF Elems
  <1>7. \A c \in B : n.buf[c] = IF m.buf[c] = "small" THEN "handed" ELSE "leaked"
    BY <1>4, <1>5 DEF fgoHandBuf, Owned
  <1> HIDE DEF B
  <1>8. FieldsExact(n, E)
    <2>1. \A o \in Obj : n.fld[o] # Nil =>
             /\ n.st[o] = "counted" /\ n.fld[o] \notin E
             /\ n.typ[o] = "data" => n.els[n.fld[o]] = <<>>
      BY <1>0, <1>4, <1>5 DEF MemExact, FieldsExact
    <2>2. \A o, r \in Obj : n.fld[o] = n.fld[r] /\ n.fld[o] # Nil => o = r
      BY <1>0, <1>4 DEF MemExact, FieldsExact
    <2>3. Owned(n) = Owned(m) \ B
      BY <1>4, <1>7 DEF Owned
    <2>4. {n.fld[o] : o \in Obj} \ {Nil} = ({m.fld[o] : o \in Obj} \ {Nil}) \ B
      BY <1>1, <1>4, <1>5 DEF B
    <2>5. Owned(n) = E \cup ({n.fld[o] : o \in Obj} \ {Nil})
      BY <1>0, <1>5, <2>3, <2>4 DEF MemExact, FieldsExact
    <2> QED
      BY <2>1, <2>2, <2>5 DEF FieldsExact
  <1>9. \A x \in Obj : Held(n, Obj, x) = Held(m, Obj, x) - Held(m, R, x)
    <2>2. IsFiniteSet(DOMAIN <<>>)
      <3>1. <<>> \in Seq(Ref)
        OBVIOUS
      <3> QED
        BY <3>1, SeqDomain
    <2>3. Finite(n)
      BY <1>2, <1>6, <2>2 DEF Finite
    <2> HIDE DEF Finite
    <2> QED
      BY <1>1, <1>2, <1>6, <2>3, HeldGone
  <1> HIDE DEF Finite
  <1>10. CountSum(n, ext)
    <2> SUFFICES ASSUME NEW x \in Obj
                 PROVE  /\ n.cnt[x] = ext[x] + Held(n, Obj, x)
                        /\ n.st[x] = "counted" => n.cnt[x] > 0
                        /\ n.st[x] \in {"none", "token"} => n.cnt[x] = 0
      BY DEF CountSum
    <2>1. n.cnt[x] = ext[x] + Held(n, Obj, x)
      BY <1>3, <1>4, <1>9
    <2>2. CASE x \in R
      BY <1>4, <2>1, <2>2
    <2>3. CASE x \notin R
      <3>1. n.st[x] = m.st[x] /\ n.cnt[x] = m.cnt[x] - Held(m, R, x)
        BY <1>4, <2>3
      <3>2. m.st[x] = "counted" => Held(m, R, x) = 0
        BY <1>1, <1>3, <2>3 DEF Counted
      <3>3. /\ m.st[x] = "counted" => m.cnt[x] > 0
            /\ m.st[x] \in {"none", "token"} => m.cnt[x] = 0
        BY <1>0 DEF MemExact, CountSum
      <3> QED
        BY <1>3, <2>1, <3>1, <3>2, <3>3
    <2> QED
      BY <2>2, <2>3
  <1>11. MemExact(n, ext, E)
    BY <1>0, <1>4, <1>8, <1>10 DEF MemExact
  <1>12. ASSUME NEW o \in R PROVE ToSet(Elems(m, o)) \cap Obj \subseteq Y
    <2> SUFFICES ASSUME NEW x \in ToSet(Elems(m, o)), x \in Obj PROVE x \in Y
      OBVIOUS
    <2>1. m.st[x] \in {"counted", "handed"} /\ m.cnt[x] > 0
      BY <1>0, <1>1, Referred
    <2> QED
      BY <1>0, <1>1, <2>1 DEF GcSafe, Counted
  <1>13. GcSafe(n, g, b, Y)
    <2>1. Y \subseteq {o \in Obj : n.st[o] = "handed"} /\ g \subseteq Y
      BY <1>0, <1>1, <1>4 DEF GcSafe
    <2>2. ASSUME NEW o \in Obj, n.st[o] = "handed", n.cnt[o] > 0 PROVE o \in Y
      <3>1. n.cnt[o] = m.cnt[o] - Held(m, R, o) /\ (n.st[o] = m.st[o] \/ o \in R)
        BY <1>4
      <3>2. m.cnt[o] > 0
        BY <1>3, <2>2, <3>1
      <3> QED
        BY <1>0, <2>2, <3>1, <3>2 DEF GcSafe
    <2>3. ASSUME NEW o \in Y PROVE ToSet(n.gcs[o]) \cap Obj \subseteq Y
      <3>1. o \in Obj
        BY <1>0, <1>1 DEF GcSafe
      <3>2. o \notin R => o \in X /\ n.gcs[o] = m.gcs[o]
        BY <1>4, <3>1
      <3>3. o \in R => n.gcs[o] = Elems(m, o)
        BY <1>4, <3>1
      <3> QED
        BY <1>0, <1>12, <3>2, <3>3 DEF GcSafe
    <2>4. ASSUME b \in Buf, n.buf[b] = "handed" PROVE ToSet(n.els[b]) \cap Obj \subseteq Y
      <3>1. CASE b \in B
        <4>1. PICK o \in R : b = m.fld[o] /\ b # Nil
          BY <3>1 DEF B
        <4>2. m.els[b] = Elems(m, o)
          BY <4>1 DEF Elems
        <4> QED
          BY <1>4, <1>12, <4>2
      <3>2. CASE b \notin B
        BY <1>0, <1>4, <2>4, <3>2 DEF GcSafe
      <3> QED
        BY <3>1, <3>2
    <2> QED
      BY <2>1, <2>2, <2>3, <2>4 DEF GcSafe
  <1>14. ViewHeld(n, ext, p, b)
    <2> SUFFICES ASSUME b # Nil
                 PROVE  \/ n.fld[p] = b
                        \/ n.buf[b] = "handed"
                        \/ n.buf[b] = "leaked" /\ n.st[p] = "handed" /\ n.gcs[p] = n.els[b]
      BY <1>0 DEF ViewHeld
    <2>1. p \in Obj /\ b \in Buf
      BY <1>0 DEF ViewHeld
    <2>2. CASE m.fld[p] = b /\ p \notin R
      BY <1>4, <2>1, <2>2
    <2>3. CASE m.fld[p] = b /\ p \in R
      <3>1. b \in B /\ m.els[b] = Elems(m, p)
        BY <2>1, <2>3 DEF B, Elems
      <3> QED
        BY <1>4, <1>7, <2>1, <2>3, <3>1
    <2>4. CASE m.buf[b] = "handed"
      <3>1. b \notin B
        BY <1>5, <2>4 DEF Owned
      <3> QED
        BY <1>4, <2>1, <2>4, <3>1
    <2>5. CASE m.buf[b] = "leaked" /\ m.st[p] = "handed" /\ m.gcs[p] = m.els[b]
      <3>1. b \notin B /\ p \notin R
        BY <1>1, <1>5, <2>5 DEF Owned, Counted
      <3> QED
        BY <1>4, <2>1, <2>5, <3>1
    <2> QED
      BY <1>0, <2>2, <2>3, <2>4, <2>5 DEF ViewHeld
  <1>15. HandedStay(m, n)
    BY <1>4, <1>5 DEF HandedStay, Owned
  <1> QED
    BY <1>1, <1>4, <1>6, <1>11, <1>13, <1>14, <1>15 DEF Sound, n, R

(* fgoRCInc adds references to what may be referred to. *)
LEMMA IncSound ==
    ASSUME NEW m, NEW ext, NEW E, NEW g, NEW p, NEW b, NEW X, Sound(m, ext, E, g, p, b, X),
           NEW q, IsFiniteSet(DOMAIN q), ToSet(q) \cap Obj \subseteq Counted(m) \cup X,
           NEW new, new = [x \in Obj |-> ext[x] + Occ(q, x)]
    PROVE  LET n == fgoRCInc(m, q) IN
           /\ Sound(n, new, E, g, p, b, X)
           /\ n.st = m.st /\ n.typ = m.typ /\ n.fld = m.fld /\ n.gcs = m.gcs /\ n.buf = m.buf /\ n.els = m.els
           /\ \A o \in Obj : Elems(n, o) = Elems(m, o)
  <1> DEFINE n == fgoRCInc(m, q)
  <1>0. MemExact(m, ext, E) /\ GcSafe(m, g, b, X) /\ ViewHeld(m, ext, p, b)
    BY DEF Sound
  <1>1. \A x \in ToSet(q) \cap Obj : m.st[x] \in {"counted", "handed"}
    BY <1>0 DEF GcSafe, Counted
  <1>2. /\ MemExact(n, new, E)
        /\ n.st = m.st /\ n.typ = m.typ /\ n.fld = m.fld /\ n.gcs = m.gcs /\ n.buf = m.buf /\ n.els = m.els
        /\ n.cnt = [x \in Obj |-> m.cnt[x] + Occ(q, x)]
        /\ \A o \in Obj : Elems(n, o) = Elems(m, o)
    BY <1>0, <1>1, IncExact
  <1> HIDE DEF n
  <1>3. \A x \in Obj : Occ(q, x) \in Nat /\ (Occ(q, x) > 0 <=> x \in ToSet(q)) /\ ext[x] \in Nat /\ m.cnt[x] \in Nat
    BY <1>0, OccType DEF MemExact, Mem
  <1>4. GcSafe(n, g, b, X)
    <2>1. ASSUME NEW o \in Obj, n.st[o] = "handed", n.cnt[o] > 0 PROVE o \in X
      <3>1. m.cnt[o] > 0 \/ o \in ToSet(q)
        BY <1>2, <1>3, <2>1
      <3> QED
        BY <1>0, <1>2, <2>1, <3>1 DEF GcSafe, Counted
    <2> QED
      BY <1>0, <1>2, <2>1 DEF GcSafe
  <1>5. ViewHeld(n, new, p, b)
    BY <1>0, <1>2, <1>3 DEF ViewHeld
  <1> QED
    BY <1>2, <1>4, <1>5 DEF Sound, n

\* What else those calls need and keep.
AllocKeeps(m, n, c, q) ==
    /\ n.els[c] = q /\ n.st = m.st /\ n.cnt = m.cnt /\ n.typ = m.typ /\ n.fld = m.fld /\ n.gcs = m.gcs
    /\ \A e \in Buf \ {c} : n.els[e] = m.els[e] /\ n.buf[e] = m.buf[e]
    /\ \A o \in Obj : Elems(n, o) = Elems(m, o)
FreeKeeps(m, n, B) ==
    /\ n.st = m.st /\ n.cnt = m.cnt /\ n.typ = m.typ /\ n.fld = m.fld /\ n.gcs = m.gcs
    /\ \A e \in Buf \ B : n.els[e] = m.els[e]
    /\ \A o \in Obj : Elems(n, o) = Elems(m, o)
MayField(m, ext, E, p, b, o, c, q, new, F) ==
    /\ o \in Counted(m) /\ c \in E \cup {Nil} /\ q = IF c = Nil THEN <<>> ELSE m.els[c]
    /\ m.typ[o] = "data" => q = <<>>
    /\ b # Nil => m.fld[o] # b /\ new[p] > 0
    /\ \A x \in Obj : Occ(q, x) <= ext[x]
    /\ new = [x \in Obj |-> ext[x] - Occ(q, x) + Occ(Elems(m, o), x)]
    /\ F = (E \ {c}) \cup ({m.fld[o]} \ {Nil})
SetsField(m, n, o, c) ==
    /\ n \in Mem /\ n.st = m.st /\ n.cnt = m.cnt /\ n.typ = m.typ /\ n.gcs = m.gcs /\ n.buf = m.buf /\ n.els = m.els
    /\ n.fld[o] = c /\ \A r \in Obj \ {o} : n.fld[r] = m.fld[r]
Keeps(m, n, E) ==
    n.st = m.st /\ (\A e \in E : n.els[e] = m.els[e]) /\ \A x \in Obj : ToSet(Elems(n, x)) \subseteq ToSet(Elems(m, x))

(* fgoBufAlloc takes a free buffer. *)
LEMMA AllocSound ==
    ASSUME NEW m, NEW ext, NEW E, NEW g, NEW p, NEW b, NEW X, Sound(m, ext, E, g, p, b, X),
           NEW c \in Buf, m.buf[c] = "free", NEW k \in {"small", "large"}, NEW q \in Seq(Ref),
           NEW F, F = E \cup {c}
    PROVE  LET n == fgoBufAlloc(m, c, k, q) IN
           /\ Sound(n, ext, F, g, p, b, X) /\ c \notin E
           /\ AllocKeeps(m, n, c, q)
  <1> DEFINE n == fgoBufAlloc(m, c, k, q)
  <1>0. MemExact(m, ext, E) /\ GcSafe(m, g, b, X) /\ ViewHeld(m, ext, p, b) /\ m \in Mem
    BY DEF Sound, MemExact
  <1>1. /\ n \in Mem /\ n.st = m.st /\ n.cnt = m.cnt /\ n.typ = m.typ /\ n.fld = m.fld /\ n.gcs = m.gcs
        /\ n.buf[c] = k /\ n.els[c] = q /\ \A e \in Buf \ {c} : n.els[e] = m.els[e] /\ n.buf[e] = m.buf[e]
    BY <1>0 DEF fgoBufAlloc, Mem
  <1> HIDE DEF n
  <1>2. /\ \A x \in Obj : m.fld[x] # Nil => m.fld[x] \in Buf /\ m.fld[x] \in Owned(m) /\ m.fld[x] # c
        /\ c \notin E /\ E \subseteq Buf
    <2>1. \A x \in Obj : m.fld[x] # Nil => m.fld[x] \in Buf
      BY <1>0 DEF Mem
    <2>2. E \subseteq Buf
      BY <1>0 DEF MemExact
    <2>3. c \notin Owned(m)
      BY DEF Owned
    <2> QED
      BY <1>0, <2>1, <2>2, <2>3 DEF MemExact, FieldsExact
  <1>3. \A o \in Obj : Elems(n, o) = Elems(m, o)
    BY <1>1, <1>2 DEF Elems
  <1>4. FieldsExact(n, F)
    <2>1. Owned(n) = Owned(m) \cup {c}
      BY <1>1 DEF Owned
    <2> QED
      BY <1>0, <1>1, <1>2, <2>1 DEF MemExact, FieldsExact
  <1>5. CountSum(n, ext)
    BY <1>0, <1>1, <1>3, HeldSame DEF CountSum, MemExact
  <1>6. MemExact(n, ext, F)
    BY <1>0, <1>1, <1>4, <1>5 DEF MemExact
  <1>7. GcSafe(n, g, b, X)
    BY <1>0, <1>1 DEF GcSafe
  <1>8. ViewHeld(n, ext, p, b)
    <2>1. b # Nil => b # c
      BY <1>0, <1>2 DEF ViewHeld
    <2> QED
      BY <1>0, <1>1, <2>1 DEF ViewHeld
  <1> QED
    BY <1>1, <1>2, <1>3, <1>6, <1>7, <1>8 DEF Sound, AllocKeeps, n

(* fgoBufFree frees owned buffers that are in no field. *)
LEMMA FreeSound ==
    ASSUME NEW m, NEW ext, NEW E, NEW g, NEW p, NEW b, NEW X, Sound(m, ext, E, g, p, b, X),
           NEW B, B \cap Buf \subseteq E, NEW F, F = E \ B
    PROVE  LET n == fgoBufFree(m, B) IN
           /\ Sound(n, ext, F, g, p, b, X)
           /\ FreeKeeps(m, n, B)
  <1> DEFINE n == fgoBufFree(m, B)
  <1>0. MemExact(m, ext, E) /\ GcSafe(m, g, b, X) /\ ViewHeld(m, ext, p, b) /\ m \in Mem
    BY DEF Sound, MemExact
  <1>1. /\ n \in Mem /\ n.st = m.st /\ n.cnt = m.cnt /\ n.typ = m.typ /\ n.fld = m.fld /\ n.gcs = m.gcs
        /\ \A e \in Buf : n.buf[e] = (IF e \in B THEN "free" ELSE m.buf[e])
        /\ \A e \in Buf : n.els[e] = (IF e \in B THEN <<>> ELSE m.els[e])
    BY <1>0, FreeIs
  <1> HIDE DEF n
  <1>2. /\ \A x \in Obj : m.fld[x] # Nil => m.fld[x] \in Buf /\ m.fld[x] \notin B /\ m.fld[x] \in Owned(m)
        /\ E \subseteq Buf /\ E \subseteq Owned(m)
    <2>1. \A x \in Obj : m.fld[x] # Nil => m.fld[x] \in Buf
      BY <1>0 DEF Mem
    <2>2. E \subseteq Buf
      BY <1>0 DEF MemExact
    <2> QED
      BY <1>0, <2>1, <2>2 DEF MemExact, FieldsExact
  <1>3. \A o \in Obj : Elems(n, o) = Elems(m, o)
    BY <1>1, <1>2 DEF Elems
  <1>4. FieldsExact(n, F)
    <2>1. Owned(n) = Owned(m) \ B
      BY <1>1 DEF Owned
    <2>2. \A o \in Obj : n.fld[o] # Nil =>
             /\ n.st[o] = "counted" /\ n.fld[o] \notin F
             /\ n.typ[o] = "data" => n.els[n.fld[o]] = <<>>
      BY <1>0, <1>1, <1>2 DEF MemExact, FieldsExact
    <2> QED
      BY <1>0, <1>1, <1>2, <2>1, <2>2 DEF MemExact, FieldsExact
  <1>5. CountSum(n, ext)
    BY <1>0, <1>1, <1>3, HeldSame DEF CountSum, MemExact
  <1>6. MemExact(n, ext, F)
    BY <1>0, <1>1, <1>4, <1>5 DEF MemExact
  <1>7. GcSafe(n, g, b, X)
    BY <1>0, <1>1 DEF GcSafe
  <1>8. ViewHeld(n, ext, p, b)
    <2>1. b # Nil => b \notin B
      BY <1>0, <1>2 DEF ViewHeld, Owned
    <2> QED
      BY <1>0, <1>1, <2>1 DEF ViewHeld
  <1> QED
    BY <1>1, <1>3, <1>6, <1>7, <1>8 DEF Sound, FreeKeeps, n

(* A field takes an owned buffer c, or none, and leaves the one it had. *)
LEMMA FieldSound ==
    ASSUME NEW m, NEW ext, NEW E, NEW g, NEW p, NEW b, NEW X, Sound(m, ext, E, g, p, b, X),
           NEW o, NEW c, NEW q, NEW new, NEW F, MayField(m, ext, E, p, b, o, c, q, new, F),
           NEW n, SetsField(m, n, o, c)
    PROVE  /\ Sound(n, new, F, g, p, b, X)
           /\ \A r \in Obj : Elems(n, r) = IF r = o THEN q ELSE Elems(m, r)
  <1>0. MemExact(m, ext, E) /\ GcSafe(m, g, b, X) /\ ViewHeld(m, ext, p, b) /\ m \in Mem /\ E \subseteq Buf
    BY DEF Sound, MemExact
  <1>1. /\ o \in Obj /\ m.st[o] = "counted"
        /\ c \in E \cup {Nil} /\ q = IF c = Nil THEN <<>> ELSE m.els[c]
        /\ m.typ[o] = "data" => q = <<>>
        /\ b # Nil => m.fld[o] # b /\ new[p] > 0
        /\ \A x \in Obj : Occ(q, x) <= ext[x]
        /\ new = [x \in Obj |-> ext[x] - Occ(q, x) + Occ(Elems(m, o), x)]
        /\ F = (E \ {c}) \cup ({m.fld[o]} \ {Nil})
    BY DEF Counted, MayField
  <1>2. /\ n \in Mem /\ n.st = m.st /\ n.cnt = m.cnt /\ n.typ = m.typ /\ n.gcs = m.gcs /\ n.buf = m.buf /\ n.els = m.els
        /\ n.fld[o] = c /\ \A r \in Obj \ {o} : n.fld[r] = m.fld[r]
    BY DEF SetsField
  <1>3. /\ \A x \in Obj : m.fld[x] # Nil => m.fld[x] \in Buf /\ m.fld[x] \in Owned(m) /\ m.fld[x] \notin E
        /\ F \subseteq Buf /\ Nil \notin Buf
    <2>1. \A x \in Obj : m.fld[x] # Nil => m.fld[x] \in Buf
      BY <1>0 DEF Mem
    <2> QED
      BY <1>0, <1>1, <2>1, Names DEF MemExact, FieldsExact
  <1>4. \A r \in Obj : Elems(n, r) = IF r = o THEN q ELSE Elems(m, r)
    BY <1>1, <1>2 DEF Elems
  <1>5. FieldsExact(n, F)
    <2>1. \A r \in Obj : n.fld[r] # Nil =>
             /\ n.st[r] = "counted" /\ n.fld[r] \notin F
             /\ n.typ[r] = "data" => n.els[n.fld[r]] = <<>>
      BY <1>0, <1>1, <1>2, <1>3 DEF MemExact, FieldsExact
    <2>2. \A r, s \in Obj : n.fld[r] = n.fld[s] /\ n.fld[r] # Nil => r = s
      BY <1>0, <1>1, <1>2, <1>3 DEF MemExact, FieldsExact
    <2>3. Owned(n) = Owned(m)
      BY <1>2 DEF Owned
    <2>4. {n.fld[r] : r \in Obj} \cup {m.fld[o]} = {m.fld[r] : r \in Obj} \cup {c}
      BY <1>1, <1>2
    <2>5. Owned(n) = F \cup ({n.fld[r] : r \in Obj} \ {Nil})
      <3> DEFINE old == {m.fld[r] : r \in Obj}
                 now == {n.fld[r] : r \in Obj}
      <3>1. Owned(n) = E \cup (old \ {Nil}) /\ Nil \notin E /\ now \cup {m.fld[o]} = old \cup {c}
        BY <1>0, <1>1, <1>3, <2>3, <2>4 DEF MemExact, FieldsExact
      <3> HIDE DEF old, now
      <3>2. Owned(n) = F \cup (now \ {Nil})
        BY <1>1, <3>1
      <3> QED
        BY <3>2 DEF now
    <2> QED
      BY <2>1, <2>2, <2>5 DEF FieldsExact
  <1>6. /\ Finite(m) /\ Finite(n) /\ IsFiniteSet(DOMAIN q)
    <2>1. Finite(m)
      BY <1>0, ElemsType
    <2>2. q \in Seq(Ref)
      <3>1. <<>> \in Seq(Ref) /\ m.els \in [Buf -> Seq(Ref)]
        BY <1>0 DEF Mem
      <3> QED
        BY <1>0, <1>1, <3>1
    <2>3. IsFiniteSet(DOMAIN q)
      BY <2>2, SeqDomain
    <2> QED
      BY <1>4, <2>1, <2>3 DEF Finite
  <1>7. \A x \in Obj : /\ Held(n, Obj, x) = Held(m, Obj, x) - Occ(Elems(m, o), x) + Occ(q, x)
                       /\ Held(n, Obj, x) \in Nat /\ Held(m, Obj, x) \in Nat
                       /\ Occ(Elems(m, o), x) \in Nat /\ Occ(q, x) \in Nat /\ ext[x] \in Nat
                       /\ m.cnt[x] = ext[x] + Held(m, Obj, x)
    <2>1. Elems(n, o) = q /\ \A r \in Obj \ {o} : Elems(n, r) = Elems(m, r)
      BY <1>1, <1>4
    <2>2. IsFiniteSet(DOMAIN Elems(m, o))
      BY <1>1, <1>6 DEF Finite
    <2> HIDE DEF Finite
    <2>3. \A x \in Obj : Held(n, Obj, x) = Held(m, Obj, x) - Occ(Elems(m, o), x) + Occ(Elems(n, o), x)
      BY <1>1, <1>6, <2>1, HeldMove
    <2>4. \A x \in Obj : Held(n, Obj, x) \in Nat /\ Held(m, Obj, x) \in Nat
      BY <1>6, HeldType
    <2>5. \A x \in Obj : Occ(Elems(m, o), x) \in Nat /\ Occ(q, x) \in Nat
      BY <1>6, <2>2, OccType
    <2>6. \A x \in Obj : ext[x] \in Nat /\ m.cnt[x] = ext[x] + Held(m, Obj, x)
      BY <1>0 DEF MemExact, CountSum
    <2> QED
      BY <2>1, <2>3, <2>4, <2>5, <2>6
  <1>8. new \in [Obj -> Nat]
    <2>1. /\ \A x \in Obj : Occ(q, x) <= ext[x]
          /\ new = [x \in Obj |-> ext[x] - Occ(q, x) + Occ(Elems(m, o), x)]
      BY <1>1
    <2>2. \A x \in Obj : Occ(Elems(m, o), x) \in Nat /\ Occ(q, x) \in Nat /\ ext[x] \in Nat
      BY <1>7
    <2>3. \A x \in Obj : ext[x] - Occ(q, x) + Occ(Elems(m, o), x) \in Nat
      BY <2>1, <2>2
    <2> QED
      BY <2>1, <2>3
  <1>9. CountSum(n, new)
    <2>1. ASSUME NEW x \in Obj PROVE n.cnt[x] = new[x] + Held(n, Obj, x)
      <3>1. new[x] = ext[x] - Occ(q, x) + Occ(Elems(m, o), x)
        BY <1>1
      <3>2. n.cnt[x] = m.cnt[x]
        BY <1>2
      <3>3. Held(n, Obj, x) = Held(m, Obj, x) - Occ(Elems(m, o), x) + Occ(q, x)
        BY <1>7
      <3>4. /\ Held(m, Obj, x) \in Nat /\ Occ(Elems(m, o), x) \in Nat
            /\ Occ(q, x) \in Nat /\ ext[x] \in Nat /\ m.cnt[x] = ext[x] + Held(m, Obj, x)
        BY <1>7
      <3> QED
        BY <3>1, <3>2, <3>3, <3>4
    <2> QED
      BY <1>0, <1>2, <2>1 DEF MemExact, CountSum
  <1>10. MemExact(n, new, F)
    BY <1>2, <1>3, <1>5, <1>8, <1>9 DEF MemExact
  <1>11. GcSafe(n, g, b, X)
    BY <1>0, <1>2 DEF GcSafe
  <1>12. ViewHeld(n, new, p, b)
    BY <1>0, <1>1, <1>2 DEF ViewHeld
  <1> QED
    BY <1>2, <1>4, <1>10, <1>11, <1>12 DEF Sound

\* A store of c, with elements q, into o's field, and what it leaves of the rest.
Replaces(m, ext, E, p, b, o, c, q, u, v, l, old, n, G, left) ==
    /\ v = u \/ v = fgoRCHandoff(u, {o})
    /\ l = Elems(m, o) /\ old = m.fld[o] /\ n = fgoBufFree(fgoRCDec(v, l), {old})
    /\ G = E \ {c} /\ left = [x \in Obj |-> ext[x] - Occ(q, x)] /\ (b # Nil => left[p] > 0)
Replaced(m, n, o, q, G, u, v) ==
    /\ v = fgoRCHandoff(u, {o}) => Elems(n, o) = <<>>
    /\ \A x \in Obj : n.st[x] = "token" <=> m.st[x] = "token"
    /\ \A e \in G : n.els[e] = m.els[e]
    /\ \A x \in Obj \ {o} : ToSet(Elems(n, x)) \subseteq ToSet(Elems(m, x))
    /\ ToSet(Elems(n, o)) \subseteq ToSet(q)

(* A store into a field: the new buffer, a hand-off of the object when the  *)
(* slice is tainted, then the old elements go, and the old buffer.          *)
LEMMA ReplaceSound ==
    ASSUME NEW m, NEW ext, NEW E, NEW g, NEW p, NEW b, NEW X, Sound(m, ext, E, g, p, b, X),
           NEW o, NEW c, NEW q, NEW new, NEW F, MayField(m, ext, E, p, b, o, c, q, new, F),
           NEW u, SetsField(m, u, o, c), NEW v, NEW l, NEW old, NEW G, NEW left,
           NEW n, Replaces(m, ext, E, p, b, o, c, q, u, v, l, old, n, G, left)
    PROVE  (\E Y : Sound(n, left, G, g, p, b, Y)) /\ Replaced(m, n, o, q, G, u, v)
  <1>0. /\ v = u \/ v = fgoRCHandoff(u, {o})
        /\ l = Elems(m, o) /\ old = m.fld[o] /\ n = fgoBufFree(fgoRCDec(v, l), {old})
        /\ G = E \ {c} /\ left = [x \in Obj |-> ext[x] - Occ(q, x)] /\ (b # Nil => left[p] > 0)
    BY DEF Replaces
  <1>1. /\ o \in Obj /\ o \in Counted(m) /\ F = G \cup ({old} \ {Nil}) /\ old \notin E /\ E \subseteq Buf
        /\ new = [x \in Obj |-> ext[x] - Occ(q, x) + Occ(l, x)]
        /\ \A x \in Obj : Occ(q, x) <= ext[x] /\ ext[x] \in Nat
    <2>1. old # Nil => old \notin E
      BY <1>0 DEF MayField, Counted, Sound, MemExact, FieldsExact
    <2>2. E \subseteq Buf
      BY DEF Sound, MemExact
    <2> QED
      BY <1>0, <2>1, <2>2, Names DEF MayField, Counted, Sound, MemExact
  <1>2. /\ Sound(u, new, F, g, p, b, X) /\ \A r \in Obj : Elems(u, r) = IF r = o THEN q ELSE Elems(m, r)
        /\ u.st = m.st /\ u.els = m.els
    BY FieldSound DEF SetsField
  <1>3. PICK Y : /\ Sound(v, new, F, g, p, b, Y)
                 /\ v.els = u.els /\ \A x \in Obj : v.st[x] = "token" <=> u.st[x] = "token"
                 /\ \A x \in Obj : Elems(v, x) = Elems(u, x) \/ Elems(v, x) = <<>>
                 /\ v = fgoRCHandoff(u, {o}) => Elems(v, o) = <<>>
    <2>1. CASE v # fgoRCHandoff(u, {o})
      BY <1>0, <1>2, <2>1
    <2>2. CASE v = fgoRCHandoff(u, {o})
      <3> DEFINE R == Reach(u, {o})
      <3>1. /\ Sound(v, new, F, g, p, b, X \cup R)
            /\ R \subseteq Counted(u) /\ {o} \cap Counted(u) \subseteq R
            /\ v.els = u.els
            /\ \A x \in Obj : /\ v.st[x] = (IF x \in R THEN "handed" ELSE u.st[x])
                              /\ Elems(v, x) = (IF x \in R THEN <<>> ELSE Elems(u, x))
        BY <1>2, <2>2, HandoffSound
      <3> HIDE DEF R
      <3>2. o \in R
        BY <1>1, <1>2, <3>1 DEF Counted
      <3> QED
        BY <1>1, <3>1, <3>2 DEF Counted
    <2> QED
      BY <1>0, <2>1, <2>2
  <1>4. IsFiniteSet(DOMAIN l)
    BY <1>0, <1>1, ElemsType DEF Sound, Finite
  <1>5. \A x \in Obj : Occ(l, x) \in Nat /\ Occ(q, x) \in Int
    <2>1. q = <<>> \/ q \in Seq(Ref)
      BY DEF MayField, Sound, MemExact, Mem
    <2>2. IsFiniteSet(DOMAIN q)
      BY <2>1, EmptyFinite, SeqDomain
    <2> QED
      BY <1>4, <2>2, OccType
  <1>6. left = [x \in Obj |-> new[x] - Occ(l, x)] /\ \A x \in Obj : Occ(l, x) <= new[x]
    BY <1>0, <1>1, <1>5
  <1> DEFINE d == fgoRCDec(v, l)
             D == Dying(v, l)
  <1>7. /\ Sound(d, left, F, g, p, b, Y)
        /\ D \subseteq Counted(v)
        /\ \A x \in Obj : /\ d.st[x] = (IF x \in D THEN "none" ELSE v.st[x])
                          /\ Elems(d, x) = (IF x \in D THEN <<>> ELSE Elems(v, x))
        /\ \A e \in F : d.els[e] = v.els[e]
    BY <1>3, <1>4, <1>6, <1>0, DecSound
  <1> HIDE DEF d, D
  <1>8. {old} \cap Buf \subseteq F /\ G = F \ {old}
    BY <1>1, <1>0, Names
  <1>9. Sound(n, left, G, g, p, b, Y) /\ FreeKeeps(d, n, {old})
    BY <1>7, <1>8, <1>0, FreeSound DEF d
  <1>10. Replaced(m, n, o, q, G, u, v)
    <2>1. \A x \in Obj : n.st[x] = "token" <=> m.st[x] = "token"
      BY <1>2, <1>3, <1>7, <1>9 DEF FreeKeeps, Counted
    <2>2. \A e \in G : n.els[e] = m.els[e]
      <3>1. G \subseteq Buf \ {old} /\ G \subseteq F
        BY <1>0, <1>1
      <3> QED
        BY <1>2, <1>3, <1>7, <1>9, <3>1 DEF FreeKeeps
    <2>3. \A x \in Obj : Elems(n, x) = Elems(u, x) \/ Elems(n, x) = <<>>
      BY <1>3, <1>7, <1>9 DEF FreeKeeps
    <2>4. v = fgoRCHandoff(u, {o}) => Elems(n, o) = <<>>
      BY <1>1, <1>3, <1>7, <1>9 DEF FreeKeeps
    <2> QED
      BY <1>1, <1>2, <2>1, <2>2, <2>3, <2>4, NoElems DEF Replaced
  <1> QED
    BY <1>9, <1>10

(* fgoRCNewAt counts one reference to the new object. *)
LEMMA NewSound ==
    ASSUME NEW m, NEW ext, NEW E, NEW g, NEW p, NEW b, NEW X, Sound(m, ext, E, g, p, b, X),
           NEW o \in Obj, m.st[o] \in {"none", "token"}, NEW t \in {"ptrs", "data"},
           NEW new, new = [x \in Obj |-> IF x = o THEN ext[x] + 1 ELSE ext[x]],
           NEW n \in Mem, n.fld = m.fld, n.gcs = m.gcs, n.buf = m.buf, n.els = m.els,
           n.st[o] = "counted" /\ n.cnt[o] = 1 /\ n.typ[o] = t,
           \A r \in Obj \ {o} : n.st[r] = m.st[r] /\ n.cnt[r] = m.cnt[r] /\ n.typ[r] = m.typ[r]
    PROVE  /\ Sound(n, new, E, g, p, b, X)
           /\ n.els = m.els /\ \A r \in Obj : n.st[r] = IF r = o THEN "counted" ELSE m.st[r]
           /\ \A r \in Obj : Elems(n, r) = Elems(m, r)
  <1>0. MemExact(m, ext, E) /\ GcSafe(m, g, b, X) /\ ViewHeld(m, ext, p, b) /\ m \in Mem
    BY DEF Sound, MemExact
  <1>1. /\ n \in Mem /\ n.fld = m.fld /\ n.gcs = m.gcs /\ n.buf = m.buf /\ n.els = m.els
        /\ n.st[o] = "counted" /\ \A r \in Obj \ {o} : n.st[r] = m.st[r]
        /\ n.cnt[o] = 1 /\ \A r \in Obj \ {o} : n.cnt[r] = m.cnt[r]
        /\ n.typ[o] = t /\ \A r \in Obj \ {o} : n.typ[r] = m.typ[r]
    OBVIOUS
  <1>2. \A r \in Obj : Elems(n, r) = Elems(m, r)
    BY <1>1 DEF Elems
  <1>3. \A x \in Obj : /\ m.cnt[x] = ext[x] + Held(m, Obj, x) /\ ext[x] \in Nat
                       /\ Held(m, Obj, x) \in Nat /\ Held(n, Obj, x) = Held(m, Obj, x)
    <2>1. Finite(m)
      BY <1>0, ElemsType
    <2>2. \A x \in Obj : Held(n, Obj, x) = Held(m, Obj, x)
      BY <1>2, HeldSame
    <2>3. \A x \in Obj : Held(m, Obj, x) \in Nat
      BY <2>1, HeldType
    <2> QED
      BY <1>0, <2>2, <2>3 DEF MemExact, CountSum
  <1>4. ext[o] = 0 /\ Held(m, Obj, o) = 0
    BY <1>0, <1>3 DEF MemExact, CountSum
  <1>5. new \in [Obj -> Nat] /\ CountSum(n, new)
    BY <1>0, <1>1, <1>3, <1>4 DEF MemExact, CountSum
  <1>6. FieldsExact(n, E)
    <2>1. m.fld[o] = Nil
      BY <1>0 DEF MemExact, FieldsExact
    <2> QED
      BY <1>0, <1>1, <2>1 DEF MemExact, FieldsExact, Owned
  <1>7. MemExact(n, new, E)
    BY <1>0, <1>1, <1>5, <1>6 DEF MemExact
  <1>8. GcSafe(n, g, b, X)
    BY <1>0, <1>1 DEF GcSafe
  <1>9. ViewHeld(n, new, p, b)
    <2>1. b # Nil => p # o
      BY <1>0, <1>4 DEF ViewHeld
    <2> QED
      BY <1>0, <1>1, <2>1 DEF ViewHeld
  <1> QED
    BY <1>1, <1>2, <1>7, <1>8, <1>9 DEF Sound

(* Memory of a dead object becomes a reuse token, or is given back. *)
LEMMA MarkSound ==
    ASSUME NEW m, NEW ext, NEW E, NEW g, NEW p, NEW b, NEW X, Sound(m, ext, E, g, p, b, X),
           NEW o \in Obj, m.st[o] \in {"none", "token"}, NEW k \in {"none", "token"},
           NEW n, n = [m EXCEPT !.st[o] = k]
    PROVE  /\ Sound(n, ext, E, g, p, b, X)
           /\ n.els = m.els /\ \A r \in Obj : n.st[r] = IF r = o THEN k ELSE m.st[r]
           /\ \A r \in Obj : Elems(n, r) = Elems(m, r)
  <1>0. MemExact(m, ext, E) /\ GcSafe(m, g, b, X) /\ ViewHeld(m, ext, p, b) /\ m \in Mem
    BY DEF Sound, MemExact
  <1>1. /\ n \in Mem /\ n.fld = m.fld /\ n.gcs = m.gcs /\ n.buf = m.buf /\ n.els = m.els
        /\ n.cnt = m.cnt /\ n.typ = m.typ
        /\ n.st[o] = k /\ \A r \in Obj \ {o} : n.st[r] = m.st[r]
    BY <1>0 DEF Mem
  <1>2. \A r \in Obj : Elems(n, r) = Elems(m, r)
    BY <1>1 DEF Elems
  <1>3. m.cnt[o] = 0
    BY <1>0 DEF MemExact, CountSum
  <1>4. CountSum(n, ext)
    <2>1. \A x \in Obj : Held(n, Obj, x) = Held(m, Obj, x)
      BY <1>2, HeldSame
    <2> QED
      BY <1>0, <1>1, <1>3, <2>1 DEF MemExact, CountSum
  <1>5. FieldsExact(n, E)
    <2>1. m.fld[o] = Nil
      BY <1>0 DEF MemExact, FieldsExact
    <2> QED
      BY <1>0, <1>1, <2>1 DEF MemExact, FieldsExact, Owned
  <1>6. MemExact(n, ext, E)
    BY <1>0, <1>1, <1>4, <1>5 DEF MemExact
  <1>7. GcSafe(n, g, b, X)
    BY <1>0, <1>1 DEF GcSafe
  <1>8. ViewHeld(n, ext, p, b)
    BY <1>0, <1>1 DEF ViewHeld
  <1> QED
    BY <1>1, <1>2, <1>6, <1>7, <1>8 DEF Sound

(* The field of a handed-off object is written. *)
LEMMA GcsSound ==
    ASSUME NEW m, NEW ext, NEW E, NEW g, NEW p, NEW b, NEW X, Sound(m, ext, E, g, p, b, X),
           NEW o \in Obj, NEW q \in Seq(Ref), ToSet(q) \cap Obj \subseteq X,
           b # Nil /\ m.buf[b] = "leaked" => p # o,
           NEW n, n = [m EXCEPT !.gcs[o] = q]
    PROVE  /\ Sound(n, ext, E, g, p, b, X)
           /\ n.st = m.st /\ n.cnt = m.cnt /\ n.typ = m.typ /\ n.fld = m.fld /\ n.els = m.els
           /\ \A r \in Obj : Elems(n, r) = Elems(m, r)
  <1>0. MemExact(m, ext, E) /\ GcSafe(m, g, b, X) /\ ViewHeld(m, ext, p, b) /\ m \in Mem
    BY DEF Sound, MemExact
  <1>1. /\ n \in Mem /\ n.fld = m.fld /\ n.buf = m.buf /\ n.els = m.els
        /\ n.cnt = m.cnt /\ n.typ = m.typ /\ n.st = m.st
        /\ n.gcs[o] = q /\ \A r \in Obj \ {o} : n.gcs[r] = m.gcs[r]
    BY <1>0 DEF Mem
  <1>2. \A r \in Obj : Elems(n, r) = Elems(m, r)
    BY <1>1 DEF Elems
  <1>3. MemExact(n, ext, E)
    <2>1. \A x \in Obj : Held(n, Obj, x) = Held(m, Obj, x)
      BY <1>2, HeldSame
    <2>2. CountSum(n, ext)
      BY <1>0, <1>1, <2>1 DEF MemExact, CountSum
    <2>3. FieldsExact(n, E)
      BY <1>0, <1>1 DEF MemExact, FieldsExact, Owned
    <2> QED
      BY <1>0, <1>1, <2>2, <2>3 DEF MemExact
  <1>4. GcSafe(n, g, b, X)
    <2>1. ASSUME NEW r \in X PROVE ToSet(n.gcs[r]) \cap Obj \subseteq X
      BY <1>0, <1>1 DEF GcSafe
    <2> QED
      BY <1>0, <1>1, <2>1 DEF GcSafe
  <1>5. ViewHeld(n, ext, p, b)
    BY <1>0, <1>1 DEF ViewHeld
  <1> QED
    BY <1>1, <1>2, <1>3, <1>4, <1>5 DEF Sound

\* An element taken from a counted object, and a swept object.
Takes(m, ext, o, i, new, n) ==
    /\ o \in Counted(m) /\ i \in DOMAIN Elems(m, o)
    /\ new = [x \in Obj |-> ext[x] + Occ(<<Elems(m, o)[i]>>, x)]
    /\ n = [m EXCEPT !.els[m.fld[o]][i] = Nil]
Sweeps(m, o, X, n) ==
    o \in Obj \ X /\ m.st[o] = "handed" /\ n = [m EXCEPT !.st[o] = "none", !.typ[o] = "data", !.gcs[o] = <<>>]
TookFrom(m, n, E) ==
    /\ n.st = m.st /\ \A e \in E : n.els[e] = m.els[e]
    /\ \A r \in Obj : ToSet(Elems(n, r)) \subseteq ToSet(Elems(m, r)) \cup {Nil}

(* fgoPtrsTake moves an element out of a field. *)
LEMMA TakeSound ==
    ASSUME NEW m, NEW ext, NEW E, NEW g, NEW p, NEW b, NEW X, Sound(m, ext, E, g, p, b, X),
           NEW o, NEW i, NEW new, NEW n, Takes(m, ext, o, i, new, n)
    PROVE  Sound(n, new, E, g, p, b, X) /\ TookFrom(m, n, E)
  <1> USE DEF Takes
  <1> DEFINE c == m.fld[o]
             q == [m.els[c] EXCEPT ![i] = Nil]
  <1>0. MemExact(m, ext, E) /\ GcSafe(m, g, b, X) /\ ViewHeld(m, ext, p, b) /\ m \in Mem
    BY DEF Sound, MemExact
  <1>1. o \in Obj /\ m.st[o] = "counted" /\ c \in Buf /\ c # Nil /\ Elems(m, o) = m.els[c]
    <2>1. c # Nil
      BY DEF Elems
    <2> QED
      BY <1>0, <2>1 DEF Counted, Mem, Elems
  <1>2. m.els[c] \in Seq(Ref) /\ m.els[c] # <<>> /\ q \in Seq(Ref) /\ DOMAIN q = DOMAIN m.els[c]
    <2>1. m.els[c] \in Seq(Ref)
      BY <1>0, <1>1 DEF Mem
    <2>2. Nil \in Ref /\ i \in DOMAIN m.els[c]
      BY <1>1 DEF Ref
    <2> QED
      BY <2>1, <2>2
  <1> HIDE DEF q
  <1>3. /\ n \in Mem /\ n.fld = m.fld /\ n.buf = m.buf /\ n.gcs = m.gcs
        /\ n.cnt = m.cnt /\ n.typ = m.typ /\ n.st = m.st
        /\ n.els[c] = q /\ \A e \in Buf \ {c} : n.els[e] = m.els[e]
    <2> DEFINE e == [m.els EXCEPT ![c] = q]
    <2>1. n = [m EXCEPT !.els = e]
      BY DEF q
    <2>2. e \in [Buf -> Seq(Ref)] /\ e[c] = q /\ \A d \in Buf \ {c} : e[d] = m.els[d]
      <3>1. m.els \in [Buf -> Seq(Ref)]
        BY <1>0 DEF Mem
      <3> QED
        BY <1>1, <1>2, <3>1
    <2> HIDE DEF e
    <2> QED
      BY <1>0, <2>1, <2>2 DEF Mem
  <1>4. /\ \A r \in Obj : m.fld[r] # Nil => m.fld[r] \in Buf /\ m.fld[r] \notin E
        /\ \A r \in Obj \ {o} : m.fld[r] # c
        /\ m.typ[o] = "ptrs"
    <2>1. \A r \in Obj : m.fld[r] # Nil => m.fld[r] \in Buf
      BY <1>0 DEF Mem
    <2>2. m.typ[o] \in {"ptrs", "data"}
      BY <1>0, <1>1 DEF Mem
    <2> QED
      BY <1>0, <1>1, <1>2, <2>1, <2>2 DEF MemExact, FieldsExact
  <1>5. Elems(n, o) = q /\ \A r \in Obj \ {o} : Elems(n, r) = Elems(m, r)
    BY <1>1, <1>3, <1>4 DEF Elems
  <1>6. IsFiniteSet(DOMAIN Elems(m, o)) /\ IsFiniteSet(DOMAIN q) /\ ToSet(q) \subseteq ToSet(Elems(m, o)) \cup {Nil}
    <2>1. IsFiniteSet(DOMAIN Elems(m, o)) /\ IsFiniteSet(DOMAIN q)
      BY <1>1, <1>2, SeqDomain
    <2> QED
      BY <1>1, <2>1 DEF ToSet, q
  <1>7. \A x \in Obj : Occ(q, x) = Occ(Elems(m, o), x) - Occ(<<Elems(m, o)[i]>>, x)
    <2> SUFFICES ASSUME NEW x \in Obj PROVE Occ(q, x) = Occ(Elems(m, o), x) - Occ(<<Elems(m, o)[i]>>, x)
      OBVIOUS
    <2>1. Occ(q, x) = Occ(Elems(m, o), x) + (IF Nil = x THEN 1 ELSE 0) - (IF Elems(m, o)[i] = x THEN 1 ELSE 0)
      <3> DEFINE l == Elems(m, o)
                 A == DOMAIN l
      <3>1. DOMAIN q = A /\ q[i] = Nil /\ \A j \in A \ {i} : q[j] = l[j]
        BY <1>1, <1>2 DEF q
      <3>2. IsFiniteSet(A) /\ DOMAIN l = A /\ i \in A
        BY <1>6
      <3> HIDE DEF l, A
      <3>3. Occ(q, x) = Occ(l, x) + (IF q[i] = x THEN 1 ELSE 0) - (IF l[i] = x THEN 1 ELSE 0)
        BY <3>1, <3>2, OccPut
      <3> QED
        BY <3>1, <3>3 DEF l
    <2>2. Nil # x
      BY Names
    <2>3. Occ(<<Elems(m, o)[i]>>, x) = IF Elems(m, o)[i] = x THEN 1 ELSE 0
      BY OccOne
    <2>4. Occ(Elems(m, o), x) \in Nat
      BY <1>6, OccType
    <2> QED
      BY <2>1, <2>2, <2>3, <2>4
  <1>8. Finite(m) /\ Finite(n)
    <2>1. Finite(m)
      BY <1>0, ElemsType
    <2> QED
      BY <1>5, <1>6, <2>1 DEF Finite
  <1>9. \A x \in Obj : /\ n.cnt[x] = new[x] + Held(n, Obj, x) /\ new[x] \in Nat /\ new[x] >= ext[x] /\ ext[x] \in Nat
    <2> SUFFICES ASSUME NEW x \in Obj
                 PROVE  n.cnt[x] = new[x] + Held(n, Obj, x) /\ new[x] \in Nat /\ new[x] >= ext[x] /\ ext[x] \in Nat
      OBVIOUS
    <2>1. Held(n, Obj, x) = Held(m, Obj, x) - Occ(Elems(m, o), x) + Occ(Elems(n, o), x)
      BY <1>1, <1>5, <1>8, HeldMove
    <2>2. m.cnt[x] = ext[x] + Held(m, Obj, x) /\ ext[x] \in Nat
      BY <1>0 DEF MemExact, CountSum
    <2>3. Held(m, Obj, x) \in Nat /\ Occ(Elems(m, o), x) \in Nat /\ Occ(<<Elems(m, o)[i]>>, x) \in Nat
      <3>1. Held(m, Obj, x) \in Nat
        BY <1>8, HeldType
      <3>2. Occ(Elems(m, o), x) \in Nat
        BY <1>6, OccType
      <3>3. Occ(<<Elems(m, o)[i]>>, x) \in Nat
        BY OccOne
      <3> QED
        BY <3>1, <3>2, <3>3
    <2> QED
      BY <1>3, <1>5, <1>7, <2>1, <2>2, <2>3
  <1>10. MemExact(n, new, E)
    <2>1. FieldsExact(n, E)
      BY <1>0, <1>1, <1>3, <1>4 DEF MemExact, FieldsExact, Owned
    <2>2. CountSum(n, new)
      BY <1>0, <1>3, <1>9 DEF MemExact, CountSum
    <2> QED
      BY <1>0, <1>3, <1>9, <2>1, <2>2 DEF MemExact
  <1>11. m.buf[c] \in {"small", "large"}
    BY <1>0, <1>1 DEF MemExact, FieldsExact, Owned
  <1>12. GcSafe(n, g, b, X)
    BY <1>0, <1>3, <1>11 DEF GcSafe
  <1>13. ViewHeld(n, new, p, b)
    BY <1>0, <1>3, <1>9, <1>11 DEF ViewHeld
  <1>14. \A e \in E : n.els[e] = m.els[e]
    BY <1>0, <1>1, <1>3, <1>4 DEF MemExact
  <1>15. \A r \in Obj : ToSet(Elems(n, r)) \subseteq ToSet(Elems(m, r)) \cup {Nil}
    BY <1>1, <1>5, <1>6
  <1> QED
    BY <1>3, <1>10, <1>12, <1>13, <1>14, <1>15 DEF Sound, TookFrom

(* The sweeper frees an object that is not reached. *)
LEMMA SweepObjSound ==
    ASSUME NEW m, NEW ext, NEW E, NEW g, NEW p, NEW b, NEW X, Sound(m, ext, E, g, p, b, X),
           NEW o, NEW n, Sweeps(m, o, X, n)
    PROVE  /\ Sound(n, ext, E, g, p, b, X)
           /\ n.els = m.els /\ \A r \in Obj : n.st[r] = IF r = o THEN "none" ELSE m.st[r]
           /\ \A r \in Obj : Elems(n, r) = Elems(m, r)
  <1> USE DEF Sweeps
  <1>0. MemExact(m, ext, E) /\ GcSafe(m, g, b, X) /\ ViewHeld(m, ext, p, b) /\ m \in Mem
    BY DEF Sound, MemExact
  <1>1. /\ n \in Mem /\ n.fld = m.fld /\ n.buf = m.buf /\ n.els = m.els /\ n.cnt = m.cnt
        /\ n.st[o] = "none" /\ \A r \in Obj \ {o} : n.st[r] = m.st[r]
        /\ \A r \in Obj \ {o} : n.typ[r] = m.typ[r]
        /\ \A r \in Obj \ {o} : n.gcs[r] = m.gcs[r]
    <2>1. <<>> \in Seq(Ref)
      OBVIOUS
    <2> QED
      BY <1>0, <2>1 DEF Mem
  <1>2. \A r \in Obj : Elems(n, r) = Elems(m, r)
    BY <1>1 DEF Elems
  <1>3. m.cnt[o] = 0 /\ m.fld[o] = Nil
    <2>1. m.cnt[o] \in Nat
      BY <1>0 DEF Mem
    <2> QED
      BY <1>0, <2>1 DEF GcSafe, MemExact, FieldsExact
  <1>4. MemExact(n, ext, E)
    <2>1. \A x \in Obj : Held(n, Obj, x) = Held(m, Obj, x)
      BY <1>2, HeldSame
    <2>2. CountSum(n, ext)
      BY <1>0, <1>1, <1>3, <2>1 DEF MemExact, CountSum
    <2>3. FieldsExact(n, E)
      BY <1>0, <1>1, <1>3 DEF MemExact, FieldsExact, Owned
    <2> QED
      BY <1>0, <1>1, <2>2, <2>3 DEF MemExact
  <1>5. GcSafe(n, g, b, X)
    BY <1>0, <1>1 DEF GcSafe
  <1>6. ViewHeld(n, ext, p, b)
    <2>1. b # Nil => p # o
      <3>1. Held(m, Obj, o) \in Nat
        BY <1>0, ElemsType, HeldType
      <3>2. ext[o] = 0
        BY <1>0, <1>3, <3>1 DEF MemExact, CountSum
      <3> QED
        BY <1>0, <3>2 DEF ViewHeld
    <2> QED
      BY <1>0, <1>1, <2>1 DEF ViewHeld
  <1> QED
    BY <1>1, <1>2, <1>4, <1>5, <1>6 DEF Sound

(* The sweeper frees a buffer that is not viewed. *)
LEMMA SweepBufSound ==
    ASSUME NEW m, NEW ext, NEW E, NEW g, NEW p, NEW b, NEW X, Sound(m, ext, E, g, p, b, X),
           NEW c \in Buf, m.buf[c] = "handed", c # b
    PROVE  LET n == fgoBufFree(m, {c}) IN
           /\ Sound(n, ext, E, g, p, b, X)
           /\ n.st = m.st /\ \A e \in E : n.els[e] = m.els[e]
           /\ \A r \in Obj : Elems(n, r) = Elems(m, r)
  <1> DEFINE n == fgoBufFree(m, {c})
  <1>0. MemExact(m, ext, E) /\ GcSafe(m, g, b, X) /\ ViewHeld(m, ext, p, b) /\ m \in Mem
    BY DEF Sound, MemExact
  <1>1. /\ n \in Mem /\ n.st = m.st /\ n.cnt = m.cnt /\ n.typ = m.typ /\ n.fld = m.fld /\ n.gcs = m.gcs
        /\ n.buf[c] = "free" /\ \A e \in Buf \ {c} : n.els[e] = m.els[e] /\ n.buf[e] = m.buf[e]
    BY <1>0, FreeIs
  <1> HIDE DEF n
  <1>2. /\ \A x \in Obj : m.fld[x] # Nil => m.fld[x] \in Buf /\ m.fld[x] # c
        /\ E \subseteq Buf /\ c \notin E
    <2>1. \A x \in Obj : m.fld[x] # Nil => m.fld[x] \in Buf
      BY <1>0 DEF Mem
    <2>2. E \subseteq Buf
      BY <1>0 DEF MemExact
    <2>3. c \notin Owned(m)
      BY DEF Owned
    <2> QED
      BY <1>0, <2>1, <2>2, <2>3 DEF MemExact, FieldsExact
  <1>3. \A r \in Obj : Elems(n, r) = Elems(m, r)
    BY <1>1, <1>2 DEF Elems
  <1>4. MemExact(n, ext, E)
    <2>1. \A x \in Obj : Held(n, Obj, x) = Held(m, Obj, x)
      BY <1>3, HeldSame
    <2>2. CountSum(n, ext)
      BY <1>0, <1>1, <2>1 DEF MemExact, CountSum
    <2>3. Owned(n) = Owned(m)
      BY <1>1 DEF Owned
    <2>4. FieldsExact(n, E)
      BY <1>0, <1>1, <1>2, <2>3 DEF MemExact, FieldsExact
    <2> QED
      BY <1>0, <1>1, <2>2, <2>4 DEF MemExact
  <1>5. GcSafe(n, g, b, X)
    BY <1>0, <1>1 DEF GcSafe
  <1>6. ViewHeld(n, ext, p, b)
    BY <1>0, <1>1 DEF ViewHeld
  <1> QED
    BY <1>1, <1>2, <1>3, <1>4, <1>5, <1>6 DEF Sound, n

-----------------------------------------------------------------------------
(* What the GC reaches is the least set that is safe.                       *)

Found(m, g, b) ==
    Traced(m, g \cup {o \in Obj : m.st[o] = "handed" /\ m.cnt[o] > 0}
                \cup (IF b \in Buf /\ m.buf[b] = "handed" THEN ToSet(m.els[b]) \cap Obj ELSE {}))

(* The set is safe when any set is, and part of it. *)
LEMMA FoundSafe ==
    ASSUME NEW m, NEW g \in SUBSET Obj, NEW b, NEW X, GcSafe(m, g, b, X)
    PROVE  GcSafe(m, g, b, Found(m, g, b)) /\ Found(m, g, b) \subseteq X
  <1> DEFINE S == g \cup {o \in Obj : m.st[o] = "handed" /\ m.cnt[o] > 0}
                    \cup (IF b \in Buf /\ m.buf[b] = "handed" THEN ToSet(m.els[b]) \cap Obj ELSE {})
             Closed(R) == \A o \in R : ToSet(m.gcs[o]) \cap Obj \subseteq R
             F == Found(m, g, b)
  <1>1. S \subseteq X /\ Closed(X) /\ X \in SUBSET Obj /\ S \subseteq Obj
    BY DEF GcSafe
  <1>2. F = {x \in Obj : \A R \in SUBSET Obj : S \subseteq R /\ Closed(R) => x \in R}
    BY DEF Found, Traced
  <1> HIDE DEF S, F
  <1>3. F \subseteq X
    BY <1>1, <1>2
  <1>4. S \subseteq F
    BY <1>1, <1>2
  <1>5. ASSUME NEW o \in F, NEW x \in ToSet(m.gcs[o]) \cap Obj PROVE x \in F
    <2>1. \A R \in SUBSET Obj : S \subseteq R /\ Closed(R) => o \in R
      BY <1>2
    <2>2. \A R \in SUBSET Obj : S \subseteq R /\ Closed(R) => x \in R
      BY <2>1
    <2> QED
      BY <1>2, <2>2
  <1>6. GcSafe(m, g, b, F)
    <2>1. F \subseteq {o \in Obj : m.st[o] = "handed"}
      BY <1>3 DEF GcSafe
    <2> QED
      BY <1>4, <1>5, <2>1 DEF GcSafe, S
  <1> QED
    BY <1>3, <1>6 DEF F

(* Without kept buffers it is what GcReach says, in both states of a step. *)
LEMMA GcReachIs ==
    /\ out = {} => GcReach = Found(mem, glob, view.buf)
    /\ out' = {} => GcReach' = Found(mem', glob', view'.buf)
  <1>1. ASSUME out = {} PROVE GcReach = Found(mem, glob, view.buf)
    <2>1. Scanned = IF view.buf \in Buf /\ mem.buf[view.buf] = "handed" THEN {view.buf} ELSE {}
      BY <1>1 DEF Scanned
    <2> DEFINE U == UNION {ToSet(mem.els[b]) : b \in Scanned}
               A == view.buf \in Buf /\ mem.buf[view.buf] = "handed"
               S == glob \cup {o \in Obj : mem.st[o] = "handed" /\ mem.cnt[o] > 0}
    <2>2. A => U = ToSet(mem.els[view.buf])
      BY <2>1
    <2>3. ~A => U = {}
      BY <2>1
    <2>4. GcReach = Traced(mem, S \cup (Obj \cap U))
      BY DEF GcReach
    <2>5. Found(mem, glob, view.buf) = Traced(mem, S \cup (IF A THEN ToSet(mem.els[view.buf]) \cap Obj ELSE {}))
      BY DEF Found
    <2> HIDE DEF U, A, S
    <2>6. Obj \cap U = IF A THEN ToSet(mem.els[view.buf]) \cap Obj ELSE {}
      BY <2>2, <2>3
    <2> QED
      BY <2>4, <2>5, <2>6
  <1>2. ASSUME out' = {} PROVE GcReach' = Found(mem', glob', view'.buf)
    <2>1. Scanned' = IF view'.buf \in Buf /\ mem'.buf[view'.buf] = "handed" THEN {view'.buf} ELSE {}
      BY <1>2 DEF Scanned
    <2> DEFINE U == UNION {ToSet(mem'.els[b]) : b \in Scanned'}
               A == view'.buf \in Buf /\ mem'.buf[view'.buf] = "handed"
               S == glob' \cup {o \in Obj : mem'.st[o] = "handed" /\ mem'.cnt[o] > 0}
    <2>2. A => U = ToSet(mem'.els[view'.buf])
      BY <2>1
    <2>3. ~A => U = {}
      BY <2>1
    <2>4. GcReach' = Traced(mem', S \cup (Obj \cap U))
      BY DEF GcReach
    <2>5. Found(mem', glob', view'.buf) = Traced(mem', S \cup (IF A THEN ToSet(mem'.els[view'.buf]) \cap Obj ELSE {}))
      BY DEF Found
    <2> HIDE DEF U, A, S
    <2>6. Obj \cap U = IF A THEN ToSet(mem'.els[view'.buf]) \cap Obj ELSE {}
      BY <2>2, <2>3
    <2> QED
      BY <2>4, <2>5, <2>6
  <1> QED
    BY <1>1, <1>2

(* What is under way stays when its buffer does. *)
LEMMA ExtStays ==
    ASSUME made' = made, made # Nil => mem'.els[made] = mem.els[made]
    PROVE  Made' = Made /\ (loc' = loc => Ext' = Ext)
  <1>1. Made' = Made
    BY DEF Made
  <1> QED
    BY <1>1 DEF Ext

(* So are the buffers on their way to a store. *)
LEMMA LooseStays ==
    ASSUME FrameExact, UNCHANGED <<dup, made>>, \A e \in Loose : mem'.els[e] = mem.els[e]
    PROVE  /\ Loose' = Loose /\ Made' = Made /\ (loc' = loc => Ext' = Ext)
           /\ {dup', made'} \subseteq Buf \cup {Nil}
           /\ dup' # Nil => mem'.els[dup'] = <<>> /\ dup' # made'
  <1>1. made # Nil => mem'.els[made] = mem.els[made]
    BY DEF Loose
  <1>2. Made' = Made /\ (loc' = loc => Ext' = Ext)
    BY <1>1, ExtStays
  <1> QED
    BY <1>2 DEF Loose, FrameExact

(* So a step keeps the invariant when some set is safe after it. *)
LEMMA InvNext ==
    ASSUME FrameExact', NEW X,
           Sound(mem', Ext', Loose', glob', ViewedObj', view'.buf, X)
    PROVE  BufInv'
  <1>1. GcReach' = Found(mem', glob', view'.buf)
    BY GcReachIs DEF FrameExact
  <1>2. GcSafe(mem', glob', view'.buf, GcReach')
    <2>1. glob' \in SUBSET Obj
      BY DEF FrameExact
    <2> QED
      BY <1>1, <2>1, FoundSafe DEF Sound
  <1> QED
    BY <1>2 DEF BufInv, Sound

(* The invariant holds at the start. *)
LEMMA InvInit == ASSUME Init PROVE BufInv
  <1>1. FrameExact
    <2>1. \A o \in Obj : Elems(mem, o) = <<>>
      BY DEF Init, Elems
    <2>2. \A o \in Obj : Heap \notin ToSet(Elems(mem, o))
      BY <2>1 DEF ToSet
    <2> QED
      BY <2>2, Names DEF FrameExact, Init
  <1>2. Sound(mem, Ext, {}, {}, Nil, Nil, {})
    <2>1. mem \in Mem /\ \A x \in Obj : mem.st[x] = "none" /\ mem.cnt[x] = 0 /\ mem.fld[x] = Nil
      <3>1. <<>> \in Seq(Ref)
        OBVIOUS
      <3> QED
        BY <3>1 DEF Init, Mem
    <2>2. \A x \in Obj : x \notin ToSet(loc) /\ Elems(mem, x) = <<>>
      BY Names DEF Init, ToSet, Elems
    <2>3. \A x \in Obj : Ext[x] = 0
      <3>1. Made = <<>>
        BY DEF Init, Made
      <3>2. \A x \in Obj : Occ(loc, x) = 0 /\ Occ(Made, x) = 0
        BY <2>2, <3>1, OccNone, EmptyNone
      <3> QED
        BY <3>2 DEF Ext
    <2>4. \A x \in Obj : Held(mem, Obj, x) = 0
      <3>1. IsFiniteSet(DOMAIN <<>>)
        <4>1. <<>> \in Seq(Ref)
          OBVIOUS
        <4> QED
          BY <4>1, SeqDomain
      <3>2. Finite(mem)
        BY <2>2, <3>1 DEF Finite
      <3>3. \A x, o \in Obj : x \notin ToSet(Elems(mem, o))
        BY <2>2 DEF ToSet
      <3> QED
        BY <3>2, <3>3, HeldType
    <2>5. CountSum(mem, Ext) /\ Ext \in [Obj -> Nat]
      BY <2>1, <2>3, <2>4 DEF CountSum, Ext
    <2>6. FieldsExact(mem, {})
      <3>1. Owned(mem) = {}
        BY DEF Init, Owned
      <3> QED
        BY <2>1, <3>1 DEF FieldsExact
    <2>7. GcSafe(mem, {}, Nil, {}) /\ ViewHeld(mem, Ext, Nil, Nil)
      BY <2>1, Names DEF GcSafe, ViewHeld
    <2> QED
      BY <2>1, <2>5, <2>6, <2>7 DEF Sound, MemExact
  <1>3. Loose = {} /\ glob = {} /\ ViewedObj = Nil /\ view.buf = Nil
    BY DEF Init, ViewedObj, NoView, Loose
  <1>4. Sound(mem, Ext, Loose, glob, ViewedObj, view.buf, {})
    BY <1>2, <1>3
  <1>5. GcSafe(mem, glob, view.buf, GcReach)
    <2>1. glob \in SUBSET Obj
      BY <1>1 DEF FrameExact
    <2> QED
      BY <1>1, <1>4, <2>1, GcReachIs, FoundSafe DEF Sound, FrameExact
  <1> QED
    BY <1>1, <1>4, <1>5 DEF BufInv, Sound

-----------------------------------------------------------------------------
(* The frame's references.                                                  *)

\* What nogc code may have a reference to.
Known == Counted(mem) \cup GcReach

(* The references from the frame are those from slots and those under way. *)
LEMMA ExtIs ==
    ASSUME BufInv
    PROVE  /\ Made \in Seq(Ref)
           /\ \A x \in Obj : /\ Ext[x] = Slots(loc)[x] + Occ(Made, x)
                             /\ Ext[x] \in Nat /\ Slots(loc)[x] \in Nat /\ Occ(Made, x) \in Nat
                             /\ x \in ToSet(loc) => Slots(loc)[x] > 0
                             /\ x \in ToSet(loc) \cup ToSet(Made) => Ext[x] > 0
  <1>1. Made \in Seq(Ref)
    <2>1. <<>> \in Seq(Ref) /\ mem.els \in [Buf -> Seq(Ref)] /\ made \in Buf \cup {Nil}
      BY DEF BufInv, Sound, MemExact, Mem, FrameExact
    <2> QED
      BY <2>1 DEF Made
  <1>2. IsFiniteSet(DOMAIN loc) /\ IsFiniteSet(DOMAIN Made)
    BY <1>1, SeqDomain, Names DEF BufInv, FrameExact
  <1>3. \A x \in Obj : /\ Occ(loc, x) \in Nat /\ (Occ(loc, x) > 0 <=> x \in ToSet(loc))
                       /\ Occ(Made, x) \in Nat /\ (Occ(Made, x) > 0 <=> x \in ToSet(Made))
    BY <1>2, OccType
  <1> QED
    BY <1>1, <1>3 DEF Ext, Slots

(* What slots, fields, a slice under way and a view refer to is known, and  *)
(* there.                                                                   *)
LEMMA KnownRefs ==
    ASSUME BufInv
    PROVE  /\ \A s \in Slot : loc[s] \in Obj =>
                 loc[s] \in Known /\ mem.cnt[loc[s]] > 0 /\ mem.st[loc[s]] \in {"counted", "handed"} /\ Ext[loc[s]] > 0
           /\ Made \in Seq(Ref) /\ ToSet(Made) \cap Obj \subseteq Known
           /\ \A o \in Obj : ToSet(Elems(mem, o)) \cap Obj \subseteq Known
           /\ \A s \in Slot : Field(loc[s]) \in Seq(Ref) /\ ToSet(Field(loc[s])) \cap Obj \subseteq Known
           /\ view # NoView =>
                 /\ view.buf \in Buf /\ mem.buf[view.buf] # "free"
                 /\ mem.els[view.buf] \in Seq(Ref) /\ ToSet(mem.els[view.buf]) \cap Obj \subseteq Known
           /\ \A x \in Known : mem.st[x] \in {"counted", "handed"}
           /\ Known \subseteq Obj
  <1>0. /\ MemExact(mem, Ext, Loose) /\ GcSafe(mem, glob, view.buf, GcReach)
        /\ ViewHeld(mem, Ext, ViewedObj, view.buf) /\ mem \in Mem
    BY DEF BufInv, Sound, MemExact
  <1>1. /\ loc \in [Slot -> Obj \cup {Nil}] /\ view \in [slot : Slot, buf : Buf] \cup {NoView}
        /\ IsFiniteSet(DOMAIN loc)
    BY Names DEF BufInv, FrameExact
  <1>2. ASSUME NEW x \in Obj, Ext[x] > 0 \/ \E o \in Obj : x \in ToSet(Elems(mem, o))
        PROVE  x \in Known /\ mem.cnt[x] > 0 /\ mem.st[x] \in {"counted", "handed"}
    <2>1. mem.st[x] \in {"counted", "handed"} /\ mem.cnt[x] > 0
      BY <1>0, <1>2, Referred
    <2> QED
      BY <1>0, <2>1 DEF GcSafe, Known, Counted
  <1>3. ASSUME NEW s \in Slot, loc[s] \in Obj PROVE Ext[loc[s]] > 0
    <2>1. loc[s] \in ToSet(loc)
      BY <1>1 DEF ToSet
    <2> QED
      BY <1>3, <2>1, ExtIs
  <1>8. Made \in Seq(Ref) /\ ToSet(Made) \cap Obj \subseteq Known
    BY <1>2, ExtIs
  <1>4. ASSUME NEW s \in Slot PROVE Field(loc[s]) \in Seq(Ref) /\ ToSet(Field(loc[s])) \cap Obj \subseteq Known
    <2>1. <<>> \in Seq(Ref) /\ ToSet(<<>>) = {}
      BY DEF ToSet
    <2>2. CASE loc[s] \in Obj /\ mem.typ[loc[s]] = "ptrs"
      <3>1. CASE mem.st[loc[s]] = "counted"
        <4>1. Field(loc[s]) = Elems(mem, loc[s])
          BY <2>2, <3>1 DEF Field
        <4>2. Elems(mem, loc[s]) \in Seq(Ref)
          BY <1>0, <2>2, ElemsType
        <4> QED
          BY <1>2, <2>2, <4>1, <4>2
      <3>2. CASE mem.st[loc[s]] # "counted"
        <4>1. Field(loc[s]) = mem.gcs[loc[s]]
          BY <2>2, <3>2 DEF Field
        <4>2. loc[s] \in GcReach
          BY <1>2, <1>3, <2>2, <3>2 DEF Known, Counted
        <4>3. mem.gcs[loc[s]] \in Seq(Ref)
          BY <1>0, <2>2 DEF Mem
        <4> QED
          BY <1>0, <4>1, <4>2, <4>3 DEF GcSafe, Known
      <3> QED
        BY <3>1, <3>2
    <2>3. CASE ~(loc[s] \in Obj /\ mem.typ[loc[s]] = "ptrs")
      BY <2>1, <2>3 DEF Field
    <2> QED
      BY <2>2, <2>3
  <1>5. ASSUME view # NoView
        PROVE  /\ view.buf \in Buf /\ mem.buf[view.buf] # "free"
               /\ mem.els[view.buf] \in Seq(Ref) /\ ToSet(mem.els[view.buf]) \cap Obj \subseteq Known
    <2>1. view.buf \in Buf /\ view.buf # Nil
      BY <1>1, <1>5, Names
    <2>2. mem.els[view.buf] \in Seq(Ref)
      BY <1>0, <2>1 DEF Mem
    <2>3. ViewedObj \in Obj /\ Ext[ViewedObj] > 0
      BY <1>0, <2>1 DEF ViewHeld
    <2>4. CASE mem.fld[ViewedObj] = view.buf
      <3>1. mem.els[view.buf] = Elems(mem, ViewedObj)
        BY <2>1, <2>4 DEF Elems
      <3>2. view.buf \in Owned(mem)
        BY <1>0, <2>1, <2>3, <2>4 DEF MemExact, FieldsExact
      <3>3. ToSet(Elems(mem, ViewedObj)) \cap Obj \subseteq Known
        BY <1>2, <2>3
      <3> QED
        BY <2>1, <2>2, <3>1, <3>2, <3>3 DEF Owned
    <2>5. CASE mem.buf[view.buf] = "handed"
      BY <1>0, <2>1, <2>2, <2>5 DEF GcSafe, Known
    <2>6. CASE mem.buf[view.buf] = "leaked" /\ mem.st[ViewedObj] = "handed" /\ mem.gcs[ViewedObj] = mem.els[view.buf]
      <3>1. ViewedObj \in GcReach
        BY <1>2, <2>3, <2>6 DEF Known, Counted
      <3> QED
        BY <1>0, <2>1, <2>2, <2>6, <3>1 DEF GcSafe, Known
    <2> QED
      BY <1>0, <2>1, <2>4, <2>5, <2>6 DEF ViewHeld
  <1>6. \A o \in Obj : ToSet(Elems(mem, o)) \cap Obj \subseteq Known
    BY <1>2
  <1>7. Known \subseteq Obj /\ \A x \in Known : mem.st[x] \in {"counted", "handed"}
    BY <1>0 DEF Known, GcSafe, Counted
  <1> QED
    BY <1>2, <1>3, <1>4, <1>5, <1>6, <1>7, <1>8

(* A slot takes r. *)
LEMMA SlotsPut ==
    ASSUME loc \in [Slot -> Obj \cup {Nil}], NEW s \in Slot, NEW r \in Ref, Put(s, r)
    PROVE  /\ loc' \in [Slot -> Obj \cup {Nil}]
           /\ \A x \in Obj : Slots(loc')[x] = Slots(loc)[x] + Occ(<<r>>, x) - Occ(<<loc[s]>>, x)
           /\ \A x \in Obj : Slots(loc)[x] \in Nat /\ Occ(<<loc[s]>>, x) <= Slots(loc)[x]
           /\ \A d \in Slot \ {s} : loc'[d] = loc[d]
  <1> DEFINE v == IF r = Heap THEN Nil ELSE r
  <1>1. loc' = [loc EXCEPT ![s] = v] /\ v \in Obj \cup {Nil}
    BY DEF Put, Ref
  <1>2. IsFiniteSet(DOMAIN loc) /\ DOMAIN loc = Slot
    BY Names
  <1>3. ASSUME NEW x \in Obj
        PROVE  /\ Slots(loc')[x] = Slots(loc)[x] + Occ(<<r>>, x) - Occ(<<loc[s]>>, x)
               /\ Slots(loc)[x] \in Nat /\ Occ(<<loc[s]>>, x) <= Slots(loc)[x]
    <2>1. Occ(loc', x) = Occ(loc, x) + (IF loc'[s] = x THEN 1 ELSE 0) - (IF loc[s] = x THEN 1 ELSE 0)
      <3>1. DOMAIN loc' = Slot /\ \A i \in Slot \ {s} : loc'[i] = loc[i]
        BY <1>1
      <3> QED
        BY <1>2, <3>1, OccPut
    <2>2. loc'[s] = x <=> r = x
      BY <1>1, Names
    <2>3. Occ(<<r>>, x) = (IF r = x THEN 1 ELSE 0) /\ Occ(<<loc[s]>>, x) = (IF loc[s] = x THEN 1 ELSE 0)
      BY OccOne
    <2>4. Occ(loc, x) \in Nat /\ (loc[s] = x => Occ(loc, x) > 0)
      BY <1>2, OccType DEF ToSet
    <2> QED
      BY <2>1, <2>2, <2>3, <2>4 DEF Slots
  <1> QED
    BY <1>1, <1>3

(* So the frame's references change by one. *)
LEMMA ExtPut ==
    ASSUME BufInv, NEW s \in Slot, NEW r \in Ref, Put(s, r)
    PROVE  /\ loc' \in [Slot -> Obj \cup {Nil}]
           /\ \A d \in Slot \ {s} : loc'[d] = loc[d]
           /\ Made' = Made => Ext' = [x \in Obj |-> Ext[x] + Occ(<<r>>, x) - Occ(<<loc[s]>>, x)]
           /\ \A x \in Obj : Occ(<<loc[s]>>, x) <= Ext[x]
           /\ \A d \in Slot \ {s} : loc[d] \in Obj => Occ(<<loc[s]>>, loc[d]) < Ext[loc[d]]
  <1>1. /\ loc' \in [Slot -> Obj \cup {Nil}]
        /\ \A x \in Obj : Slots(loc')[x] = Slots(loc)[x] + Occ(<<r>>, x) - Occ(<<loc[s]>>, x)
        /\ \A x \in Obj : Slots(loc)[x] \in Nat /\ Occ(<<loc[s]>>, x) <= Slots(loc)[x]
        /\ \A d \in Slot \ {s} : loc'[d] = loc[d]
    BY SlotsPut DEF BufInv, FrameExact
  <1>2. \A x \in Obj : /\ Ext[x] = Slots(loc)[x] + Occ(Made, x) /\ Occ(Made, x) \in Nat
                       /\ Occ(<<loc[s]>>, x) \in Nat /\ Occ(<<r>>, x) \in Nat
    BY ExtIs, OccOne
  <1>3. ASSUME Made' = Made PROVE Ext' = [x \in Obj |-> Ext[x] + Occ(<<r>>, x) - Occ(<<loc[s]>>, x)]
    <2>1. Ext' = [x \in Obj |-> Slots(loc')[x] + Occ(Made, x)]
      BY <1>3 DEF Ext, Slots
    <2>2. \A x \in Obj : Slots(loc')[x] + Occ(Made, x) = Ext[x] + Occ(<<r>>, x) - Occ(<<loc[s]>>, x)
      BY <1>1, <1>2
    <2> QED
      BY <2>1, <2>2
  <1>4. ASSUME NEW d \in Slot \ {s}, loc[d] \in Obj PROVE Occ(<<loc[s]>>, loc[d]) < Ext[loc[d]]
    <2> DEFINE x == loc[d]
    <2>0. x \in Obj
      BY <1>4
    <2>1. CASE loc[s] # x
      <3>1. Occ(<<loc[s]>>, x) = 0
        BY <2>1, OccOne
      <3>2. Ext[x] > 0
        BY <1>4, KnownRefs
      <3> QED
        BY <3>1, <3>2
    <2>2. CASE loc[s] = x
      <3> DEFINE n == [loc EXCEPT ![s] = Nil]
      <3>1. DOMAIN n = Slot /\ DOMAIN loc = Slot /\ n[d] = x /\ n[s] = Nil /\ \A i \in Slot \ {s} : n[i] = loc[i]
        BY DEF BufInv, FrameExact
      <3> HIDE DEF n
      <3>2. Occ(n, x) = Occ(loc, x) + (IF n[s] = x THEN 1 ELSE 0) - (IF loc[s] = x THEN 1 ELSE 0)
        BY <3>1, Names, OccPut
      <3>3. Occ(n, x) \in Nat /\ Occ(n, x) > 0
        BY <3>1, Names, OccType DEF ToSet
      <3>4. Occ(<<loc[s]>>, x) = 1 /\ Nil # x
        BY <2>0, <2>2, OccOne, Names
      <3>5. Occ(loc, x) = Slots(loc)[x]
        BY <2>0 DEF Slots
      <3> HIDE DEF x
      <3> QED
        BY <1>2, <2>0, <2>2, <3>1, <3>2, <3>3, <3>4, <3>5, ExtIs
    <2> QED
      BY <2>1, <2>2
  <1>5. \A x \in Obj : Occ(<<loc[s]>>, x) <= Ext[x]
    BY <1>1, <1>2
  <1> QED
    BY <1>1, <1>3, <1>4, <1>5

-----------------------------------------------------------------------------
(* Each action keeps the invariant, and all but a store into a field of     *)
(* pointers take references from fields only.                               *)

Shrunk(m, n) == \A x \in Obj : ToSet(Elems(n, x)) \cap Obj \subseteq ToSet(Elems(m, x))

(* The view's slot keeps its reference when another slot changes. *)
LEMMA ViewStays ==
    ASSUME BufInv, view' = view, NEW s \in Slot, \A d \in Slot \ {s} : loc'[d] = loc[d],
           Free(s) \/ ~Pinned(s)
    PROVE  ViewedObj' = ViewedObj
  <1>1. ASSUME view # NoView PROVE view.slot \in Slot /\ loc[view.slot] \in Obj
    <2>1. view.slot \in Slot /\ view.buf \in Buf /\ view.buf # Nil
      BY <1>1, Names DEF BufInv, FrameExact
    <2> QED
      BY <1>1, <2>1 DEF BufInv, Sound, ViewHeld, ViewedObj
  <1>2. view # NoView => view.slot # s
    BY <1>1, Names DEF Free, Pinned
  <1> QED
    BY <1>1, <1>2 DEF ViewedObj

(* A new reference in a free slot. *)
LEMMA IncStep ==
    ASSUME BufInv, NEW d \in Slot, Free(d), NEW r \in Ref, r \in Obj => r \in Known,
           mem' = fgoRCInc(mem, <<r>>), Put(d, r), UNCHANGED <<tok, dup, made, view, glob, out>>
    PROVE  BufInv' /\ Shrunk(mem, mem')
  <1> DEFINE new == [x \in Obj |-> Ext[x] + Occ(<<r>>, x)]
  <1>1. Sound(mem, Ext, Loose, glob, ViewedObj, view.buf, GcReach) /\ FrameExact
    BY DEF BufInv
  <1>2. IsFiniteSet(DOMAIN <<r>>) /\ ToSet(<<r>>) \cap Obj \subseteq Counted(mem) \cup GcReach
    <2>1. <<r>> \in Seq(Ref) /\ ToSet(<<r>>) = {r}
      BY DEF ToSet
    <2> QED
      BY <2>1, SeqDomain DEF Known
  <1>3. /\ Sound(mem', new, Loose, glob, ViewedObj, view.buf, GcReach)
        /\ mem'.st = mem.st /\ mem'.els = mem.els /\ \A o \in Obj : Elems(mem', o) = Elems(mem, o)
    BY <1>1, <1>2, IncSound
  <1>4. loc' \in [Slot -> Obj \cup {Nil}] /\ Ext' = new /\ \A s \in Slot \ {d} : loc'[s] = loc[s]
    <2>1. Made' = Made
      BY <1>3, ExtStays
    <2>2. /\ loc' \in [Slot -> Obj \cup {Nil}]
          /\ Ext' = [x \in Obj |-> Ext[x] + Occ(<<r>>, x) - Occ(<<loc[d]>>, x)]
          /\ \A s \in Slot \ {d} : loc'[s] = loc[s]
      BY <2>1, ExtPut
    <2>3. \A x \in Obj : Occ(<<loc[d]>>, x) = 0 /\ Occ(<<r>>, x) \in Nat /\ Ext[x] \in Nat
      BY OccOne, ExtIs, Names DEF Free
    <2> QED
      BY <2>2, <2>3
  <1>5. ViewedObj' = ViewedObj
    BY <1>4, ViewStays
  <1>6. FrameExact' /\ Loose' = Loose
    BY <1>1, <1>3, <1>4, LooseStays DEF FrameExact
  <1>7. Sound(mem', Ext', Loose', glob', ViewedObj', view'.buf, GcReach)
    BY <1>3, <1>4, <1>5, <1>6
  <1> QED
    BY <1>3, <1>6, <1>7, InvNext DEF Shrunk

(* A reference is copied. *)
LEMMA CopyStep == ASSUME BufInv, NEW s \in Slot, NEW d \in Slot, CopyRef(s, d) PROVE BufInv' /\ Shrunk(mem, mem')
  <1>1. loc[s] \in Obj /\ loc[s] \in Ref
    BY DEF CopyRef, BufInv, FrameExact, Ref
  <1>2. loc[s] \in Known
    BY <1>1, KnownRefs
  <1> QED
    BY <1>1, <1>2, IncStep DEF CopyRef

(* A pointer comes back from GC memory. *)
LEMMA TakeTracedStep == ASSUME BufInv, NEW s \in Slot, NEW o \in Obj, TakeTraced(s, o) PROVE BufInv' /\ Shrunk(mem, mem')
  <1>1. o \in Known /\ o \in Ref
    BY DEF BufInv, Sound, GcSafe, Known, TakeTraced, Ref
  <1> QED
    BY <1>1, IncStep DEF TakeTraced

(* An element is read through the view. *)
LEMMA LoadStep == ASSUME BufInv, NEW i, NEW d \in Slot, LoadElem(i, d) PROVE BufInv' /\ Shrunk(mem, mem')
  <1> DEFINE r == mem.els[view.buf][i]
  <1>1. r \in Ref /\ (r \in Obj => r \in Known)
    <2>1. mem.els[view.buf] \in Seq(Ref) /\ ToSet(mem.els[view.buf]) \cap Obj \subseteq Known
      BY KnownRefs DEF LoadElem
    <2>2. r \in ToSet(mem.els[view.buf])
      BY DEF LoadElem, ToSet
    <2>3. ToSet(mem.els[view.buf]) \subseteq Ref
      BY <2>1, SeqDomain
    <2> QED
      BY <2>1, <2>2, <2>3
  <1> HIDE DEF r
  <1>2. Free(d) /\ mem' = fgoRCInc(mem, <<r>>) /\ Put(d, r) /\ UNCHANGED <<tok, dup, made, view, glob, out>>
    BY DEF LoadElem, r
  <1> QED
    BY <1>1, <1>2, IncStep

(* The last use of a reference. *)
LEMMA DropStep ==
    ASSUME BufInv, NEW s \in Slot, ~Pinned(s), Put(s, Nil)
    PROVE  LET n == fgoRCDec(mem, <<loc[s]>>)
               new == [x \in Obj |-> Ext[x] - Occ(<<loc[s]>>, x)]
           IN
           /\ Sound(n, new, Loose, glob, ViewedObj, view.buf, GcReach)
           /\ loc' \in [Slot -> Obj \cup {Nil}] /\ (view' = view => ViewedObj' = ViewedObj)
           /\ Made' = Made => Ext' = new
           /\ \A x \in Obj : n.st[x] = "token" <=> tok = x
           /\ \A e \in Loose : n.els[e] = mem.els[e]
           /\ \A x \in Obj : Heap \notin ToSet(Elems(n, x))
           /\ Shrunk(mem, n)
           /\ \A x \in Counted(mem) : x = loc[s] /\ mem.cnt[x] = 1 => n.st[x] = "none"
  <1> DEFINE q == <<loc[s]>>
             new == [x \in Obj |-> Ext[x] - Occ(q, x)]
             n == fgoRCDec(mem, q)
             D == Dying(mem, q)
  <1>1. Sound(mem, Ext, Loose, glob, ViewedObj, view.buf, GcReach) /\ FrameExact
    BY DEF BufInv
  <1>2. IsFiniteSet(DOMAIN q)
    <2>1. q \in Seq({loc[s]})
      OBVIOUS
    <2> QED
      BY <2>1, SeqDomain
  <1>3. /\ loc' \in [Slot -> Obj \cup {Nil}] /\ \A d \in Slot \ {s} : loc'[d] = loc[d]
        /\ \A x \in Obj : Occ(q, x) <= Ext[x] /\ Ext[x] \in Nat /\ Occ(q, x) \in Nat
        /\ Made' = Made => Ext' = new
        /\ \A d \in Slot \ {s} : loc[d] \in Obj => Occ(q, loc[d]) < Ext[loc[d]]
    <2>1. Nil \in Ref
      BY DEF Ref
    <2>2. /\ loc' \in [Slot -> Obj \cup {Nil}] /\ \A d \in Slot \ {s} : loc'[d] = loc[d]
          /\ Made' = Made => Ext' = [x \in Obj |-> Ext[x] + Occ(<<Nil>>, x) - Occ(q, x)]
          /\ \A x \in Obj : Occ(q, x) <= Ext[x]
          /\ \A d \in Slot \ {s} : loc[d] \in Obj => Occ(q, loc[d]) < Ext[loc[d]]
      BY <2>1, ExtPut
    <2>3. \A x \in Obj : Occ(<<Nil>>, x) = 0 /\ Occ(q, x) \in Nat /\ Ext[x] \in Nat
      BY OccOne, ExtIs, Names
    <2> HIDE DEF q
    <2> QED
      BY <2>2, <2>3
  <1>4. view' = view => ViewedObj' = ViewedObj
    BY <1>3, ViewStays
  <1>5. view.buf # Nil => new[ViewedObj] > 0
    <2> SUFFICES ASSUME view.buf # Nil PROVE new[ViewedObj] > 0
      OBVIOUS
    <2>1. view # NoView /\ ViewedObj \in Obj
      BY <1>1 DEF NoView, Sound, ViewHeld
    <2>2. view.slot \in Slot \ {s} /\ ViewedObj = loc[view.slot]
      BY <1>1, <2>1 DEF FrameExact, Pinned, ViewedObj
    <2>3. Occ(q, ViewedObj) < Ext[ViewedObj]
      BY <1>3, <2>1, <2>2
    <2> HIDE DEF q
    <2> QED
      BY <1>3, <2>1, <2>3
  <1> HIDE DEF q
  <1>6. /\ Sound(n, new, Loose, glob, ViewedObj, view.buf, GcReach)
        /\ D \subseteq Counted(mem)
        /\ \A x \in Obj : /\ n.st[x] = (IF x \in D THEN "none" ELSE mem.st[x])
                          /\ Elems(n, x) = (IF x \in D THEN <<>> ELSE Elems(mem, x))
        /\ \A x \in Counted(mem) : Occ(q, x) = mem.cnt[x] => x \in D
        /\ \A e \in Loose : n.els[e] = mem.els[e]
    BY <1>1, <1>2, <1>3, <1>5, DecSound
  <1> HIDE DEF n, D
  <1>7. \A x \in Obj : n.st[x] = "token" <=> tok = x
    BY <1>1, <1>6 DEF FrameExact, Counted
  <1>9. \A x \in Obj : Heap \notin ToSet(Elems(n, x))
    BY <1>1, <1>6, NoElems DEF FrameExact
  <1>10. ASSUME NEW x \in Counted(mem), x = loc[s], mem.cnt[x] = 1 PROVE n.st[x] = "none"
    <2>1. Occ(q, x) = 1
      BY <1>10, OccOne DEF q
    <2> QED
      BY <1>6, <1>10, <2>1 DEF Counted
  <1>11. Shrunk(mem, n)
    BY <1>6, NoElems DEF Shrunk
  <1> QED
    BY <1>3, <1>4, <1>6, <1>7, <1>9, <1>10, <1>11 DEF n, q

(* A reference is used for the last time. *)
LEMMA DropRefStep == ASSUME BufInv, NEW s \in Slot, DropRef(s) PROVE BufInv' /\ Shrunk(mem, mem')
  <1> DEFINE new == [x \in Obj |-> Ext[x] - Occ(<<loc[s]>>, x)]
  <1>1. /\ ~Pinned(s) /\ Put(s, Nil) /\ mem' = fgoRCDec(mem, <<loc[s]>>) /\ UNCHANGED <<tok, dup, made, view, glob, out>>
    BY DEF DropRef
  <1>2. /\ Sound(mem', new, Loose, glob, ViewedObj, view.buf, GcReach)
        /\ loc' \in [Slot -> Obj \cup {Nil}] /\ ViewedObj' = ViewedObj
        /\ Made' = Made => Ext' = new
        /\ \A x \in Obj : mem'.st[x] = "token" <=> tok = x
        /\ \A e \in Loose : mem'.els[e] = mem.els[e]
        /\ \A x \in Obj : Heap \notin ToSet(Elems(mem', x))
        /\ Shrunk(mem, mem')
    BY <1>1, DropStep
  <1> HIDE DEF new
  <1>3. Made' = Made /\ Loose' = Loose /\ FrameExact'
    BY <1>1, <1>2, LooseStays DEF BufInv, FrameExact
  <1> QED
    BY <1>1, <1>2, <1>3, InvNext

(* The last use before an allocation keeps the memory of what dies as a token. *)
LEMMA DropReuseStep == ASSUME BufInv, NEW s \in Slot, fgoRCDropReuse(s) PROVE BufInv' /\ Shrunk(mem, mem')
  <1> DEFINE o == loc[s]
             n == fgoRCDec(mem, <<o>>)
             new == [x \in Obj |-> Ext[x] - Occ(<<o>>, x)]
  <1>1. ~Pinned(s) /\ tok = Nil /\ Put(s, Nil) /\ UNCHANGED <<dup, made, view, glob, out>>
    BY DEF fgoRCDropReuse
  <1>2. \/ /\ o \in Counted(mem) /\ mem.cnt[o] = 1
           /\ tok' = o /\ mem' = [n EXCEPT !.st[o] = "token"]
        \/ tok' = Nil /\ mem' = n
    BY DEF fgoRCDropReuse
  <1>3. /\ Sound(n, new, Loose, glob, ViewedObj, view.buf, GcReach)
        /\ loc' \in [Slot -> Obj \cup {Nil}] /\ ViewedObj' = ViewedObj
        /\ \A x \in Obj : n.st[x] = "token" <=> tok = x
        /\ Made' = Made => Ext' = new
        /\ \A e \in Loose : n.els[e] = mem.els[e]
        /\ \A x \in Obj : Heap \notin ToSet(Elems(n, x))
        /\ Shrunk(mem, n)
        /\ \A x \in Counted(mem) : x = o /\ mem.cnt[x] = 1 => n.st[x] = "none"
    BY <1>1, DropStep
  <1> HIDE DEF n, new
  <1>4. CASE /\ o \in Counted(mem) /\ mem.cnt[o] = 1
             /\ tok' = o /\ mem' = [n EXCEPT !.st[o] = "token"]
    <2>1. n.st[o] = "none" /\ o \in Obj
      BY <1>3, <1>4 DEF Counted
    <2> HIDE DEF o
    <2>2. /\ Sound(mem', new, Loose, glob, ViewedObj, view.buf, GcReach)
          /\ mem'.els = n.els /\ \A r \in Obj : mem'.st[r] = IF r = o THEN "token" ELSE n.st[r]
          /\ \A r \in Obj : Elems(mem', r) = Elems(n, r)
      BY <1>3, <1>4, <2>1, MarkSound
    <2>3. \A x \in Obj : mem'.st[x] = "token" <=> tok' = x
      <3>1. \A x \in Obj : n.st[x] # "token"
        BY <1>1, <1>3, Names
      <3> QED
        BY <1>4, <2>1, <2>2, <3>1
    <2>4. Made' = Made /\ Loose' = Loose /\ FrameExact'
      BY <1>1, <1>3, <1>4, <2>1, <2>2, <2>3, LooseStays DEF BufInv, FrameExact
    <2> QED
      BY <1>1, <1>3, <2>2, <2>4, InvNext DEF Shrunk
  <1>5. CASE tok' = Nil /\ mem' = n
    <2>1. Made' = Made /\ Loose' = Loose /\ FrameExact'
      BY <1>1, <1>3, <1>5, LooseStays DEF BufInv, FrameExact
    <2> QED
      BY <1>1, <1>3, <1>5, <2>1, InvNext
  <1> QED
    BY <1>2, <1>4, <1>5

(* An object is allocated. *)
LEMMA NewStep == ASSUME BufInv, NEW s \in Slot, NEW t \in {"ptrs", "data"}, fgoRCNewAt(s, t) PROVE BufInv' /\ Shrunk(mem, mem')
  <1>1. PICK o \in Obj :
             /\ IF tok = Nil THEN mem.st[o] = "none" ELSE o = tok
             /\ mem' = [mem EXCEPT !.st[o] = "counted", !.cnt[o] = 1, !.typ[o] = t]
             /\ Put(s, o)
    BY DEF fgoRCNewAt
  <1>2. Free(s) /\ tok' = Nil /\ UNCHANGED <<dup, made, view, glob, out>>
    BY DEF fgoRCNewAt
  <1> DEFINE new == [x \in Obj |-> IF x = o THEN Ext[x] + 1 ELSE Ext[x]]
  <1>3. Sound(mem, Ext, Loose, glob, ViewedObj, view.buf, GcReach) /\ FrameExact
    BY DEF BufInv
  <1>4. mem.st[o] \in {"none", "token"}
    BY <1>1, <1>3 DEF FrameExact
  <1>5. /\ Sound(mem', new, Loose, glob, ViewedObj, view.buf, GcReach)
        /\ mem'.els = mem.els /\ \A r \in Obj : mem'.st[r] = IF r = o THEN "counted" ELSE mem.st[r]
        /\ \A r \in Obj : Elems(mem', r) = Elems(mem, r)
    <2>1. mem' = [mem EXCEPT !.st[o] = "counted", !.cnt[o] = 1, !.typ[o] = t]
      BY <1>1
    <2>2. /\ mem' \in Mem /\ mem'.fld = mem.fld /\ mem'.gcs = mem.gcs /\ mem'.buf = mem.buf /\ mem'.els = mem.els
          /\ mem'.st[o] = "counted" /\ mem'.cnt[o] = 1 /\ mem'.typ[o] = t
          /\ \A r \in Obj \ {o} : mem'.st[r] = mem.st[r] /\ mem'.cnt[r] = mem.cnt[r] /\ mem'.typ[r] = mem.typ[r]
      BY <1>3, <2>1 DEF Sound, MemExact, Mem
    <2> QED
      BY <1>3, <1>4, <2>2, NewSound
  <1>6. loc' \in [Slot -> Obj \cup {Nil}] /\ Ext' = new /\ \A d \in Slot \ {s} : loc'[d] = loc[d]
    <2>1. Made' = Made /\ o \in Ref
      BY <1>2, <1>5, ExtStays DEF Ref
    <2>2. /\ loc' \in [Slot -> Obj \cup {Nil}]
          /\ Ext' = [x \in Obj |-> Ext[x] + Occ(<<o>>, x) - Occ(<<loc[s]>>, x)]
          /\ \A d \in Slot \ {s} : loc'[d] = loc[d]
      BY <1>1, <2>1, ExtPut
    <2>3. \A x \in Obj : Occ(<<loc[s]>>, x) = 0 /\ (Occ(<<o>>, x) = IF o = x THEN 1 ELSE 0) /\ Ext[x] \in Nat
      BY <1>2, OccOne, ExtIs, Names DEF Free
    <2>4. [x \in Obj |-> Ext[x] + Occ(<<o>>, x) - Occ(<<loc[s]>>, x)] = new
      BY <2>3
    <2> QED
      BY <2>2, <2>4
  <1>7. ViewedObj' = ViewedObj
    BY <1>2, <1>6, ViewStays
  <1>8. \A x \in Obj : mem'.st[x] = "token" <=> tok' = x
    <2>1. \A x \in Obj : x # o => mem.st[x] # "token"
      BY <1>1, <1>3, Names DEF FrameExact
    <2>2. \A x \in Obj : tok' # x
      BY <1>2, Names
    <2> QED
      BY <1>5, <2>1, <2>2
  <1>9. FrameExact' /\ Loose' = Loose
    BY <1>2, <1>3, <1>5, <1>6, <1>8, LooseStays DEF FrameExact
  <1>10. Sound(mem', Ext', Loose', glob', ViewedObj', view'.buf, GcReach)
    BY <1>2, <1>5, <1>6, <1>7, <1>9
  <1> QED
    BY <1>5, <1>9, <1>10, InvNext DEF Shrunk

\* GC memory may refer to more of what is safe.
LEMMA GlobSound ==
    ASSUME NEW m, NEW ext, NEW E, NEW g, NEW p, NEW b, NEW X, Sound(m, ext, E, g, p, b, X),
           NEW h \in SUBSET X
    PROVE  Sound(m, ext, E, h, p, b, X)
  BY DEF Sound, GcSafe

\* Objects handed off, with all they reach, in a memory whose slots stay.
LEMMA HandoffStep ==
    ASSUME BufInv, NEW S \in SUBSET Known, mem' = fgoRCHandoff(mem, S), glob' = glob \cup S, UNCHANGED <<frame, out>>
    PROVE  BufInv' /\ Shrunk(mem, mem')
  <1> DEFINE R == Reach(mem, S)
  <1>1. Sound(mem, Ext, Loose, glob, ViewedObj, view.buf, GcReach) /\ FrameExact
    BY DEF BufInv
  <1>2. /\ Sound(mem', Ext, Loose, glob, ViewedObj, view.buf, GcReach \cup R)
        /\ R \subseteq Counted(mem) /\ S \cap Counted(mem) \subseteq R
        /\ mem'.els = mem.els
        /\ \A x \in Obj : /\ mem'.st[x] = (IF x \in R THEN "handed" ELSE mem.st[x])
                          /\ Elems(mem', x) = (IF x \in R THEN <<>> ELSE Elems(mem, x))
    BY <1>1, HandoffSound
  <1> HIDE DEF R
  <1>3. glob' \in SUBSET (GcReach \cup R)
    BY <1>1, <1>2 DEF Sound, GcSafe, Known
  <1>4. /\ Sound(mem', Ext, Loose, glob', ViewedObj, view.buf, GcReach \cup R)
    BY <1>2, <1>3, GlobSound
  <1>5. /\ loc' = loc /\ tok' = tok /\ dup' = dup /\ made' = made /\ view' = view /\ out' = out
        /\ ViewedObj' = ViewedObj
    BY DEF frame, ViewedObj
  <1>8. /\ Ext' = Ext /\ Loose' = Loose /\ {dup', made'} \subseteq Buf \cup {Nil}
        /\ dup' # Nil => mem'.els[dup'] = <<>> /\ dup' # made'
    BY <1>1, <1>2, <1>5, LooseStays
  <1>6. FrameExact'
    <2>1. \A x \in Obj : mem'.st[x] = "token" <=> tok' = x
      BY <1>1, <1>2, <1>5 DEF FrameExact, Counted
    <2>2. \A x \in Obj : Heap \notin ToSet(Elems(mem', x))
      BY <1>1, <1>2, NoElems DEF FrameExact
    <2>3. glob' \subseteq Obj
      BY <1>1, KnownRefs DEF FrameExact
    <2> QED
      BY <1>1, <1>5, <1>8, <2>1, <2>2, <2>3 DEF FrameExact
  <1>7. Shrunk(mem, mem')
    BY <1>2, NoElems DEF Shrunk
  <1> QED
    BY <1>4, <1>5, <1>6, <1>7, <1>8, InvNext

(* A pointer leaves nogc code. *)
LEMMA EscapeStep == ASSUME BufInv, NEW s \in Slot, Escape(s) PROVE BufInv' /\ Shrunk(mem, mem')
  <1>1. {loc[s]} \in SUBSET Known
    BY KnownRefs DEF Escape
  <1> QED
    BY <1>1, HandoffStep DEF Escape

(* A read that outlives the frame hands the elements off. *)
LEMMA CloneStep == ASSUME BufInv, "large" \notin Race, Clone PROVE BufInv' /\ Shrunk(mem, mem')
  <1> DEFINE S == ToSet(mem.els[view.buf]) \cap Obj
  <1>1. S \in SUBSET Known
    BY KnownRefs DEF Clone
  <1>2. mem' = fgoRCHandoff(mem, S) /\ glob' = glob \cup S /\ UNCHANGED <<frame, out>>
    BY DEF Clone
  <1> HIDE DEF S
  <1> QED
    BY <1>1, <1>2, HandoffStep

(* GC memory drops a pointer. *)
LEMMA ForgetStep == ASSUME BufInv, Forget PROVE BufInv' /\ Shrunk(mem, mem')
  <1>1. Sound(mem, Ext, Loose, glob, ViewedObj, view.buf, GcReach) /\ FrameExact
    BY DEF BufInv
  <1>2. /\ mem' = mem /\ loc' = loc /\ tok' = tok /\ dup' = dup /\ made' = made /\ view' = view /\ out' = {}
        /\ glob' \subseteq glob /\ ViewedObj' = ViewedObj
    BY <1>1 DEF Forget, frame, FrameExact, ViewedObj
  <1>3. glob' \in SUBSET GcReach
    BY <1>1, <1>2 DEF Sound, GcSafe
  <1>4. Sound(mem', Ext', Loose', glob', ViewedObj', view'.buf, GcReach)
    <2>1. Ext' = Ext /\ Loose' = Loose
      BY <1>1, <1>2, LooseStays
    <2> QED
      BY <1>1, <1>2, <1>3, <2>1, GlobSound
  <1>5. FrameExact'
    BY <1>1, <1>2 DEF FrameExact
  <1> QED
    BY <1>2, <1>4, <1>5, InvNext DEF Shrunk

(* A store lets a view alone. *)
LEMMA StoreOk ==
    ASSUME BufInv, "overwrite" \notin Race, NEW o \in Obj, MayStore(o), view.buf # Nil
    PROVE  /\ mem.fld[o] # view.buf
           /\ mem.buf[view.buf] = "leaked" => ViewedObj # o
  <1>1. /\ view # NoView /\ view.buf \in Buf /\ ViewedObj = loc[view.slot] /\ ViewedObj \in Obj
        /\ \/ mem.fld[ViewedObj] = view.buf
           \/ mem.buf[view.buf] \in {"handed", "leaked"}
    BY DEF NoView, BufInv, Sound, ViewHeld, ViewedObj
  <1>2. FieldsExact(mem, Loose)
    BY DEF BufInv, Sound, MemExact
  <1>3. ViewOf = mem.buf[view.buf] /\ (ViewOf # "handed" /\ ViewOf # "none" => o # ViewedObj)
    BY <1>1 DEF ViewOf, Viewed, MayStore
  <1>4. ASSUME mem.fld[o] = view.buf PROVE FALSE
    <2>1. mem.buf[view.buf] \in {"small", "large"}
      BY <1>1, <1>2, <1>4 DEF FieldsExact, Owned
    <2>2. mem.fld[ViewedObj] = view.buf /\ o # ViewedObj
      BY <1>1, <1>3, <2>1
    <2> QED
      BY <1>1, <1>2, <1>4, <2>2 DEF FieldsExact
  <1> QED
    BY <1>1, <1>3, <1>4

(* fgoStrPut stores a copy and frees the one before. *)
LEMMA StrPutSound ==
    ASSUME NEW m, NEW ext, NEW E, NEW g, NEW p, NEW b, NEW X, Sound(m, ext, E, g, p, b, X),
           NEW o \in Counted(m), m.typ[o] = "data", NEW c \in E \cup {Nil}, c # Nil => m.els[c] = <<>>,
           b # Nil => m.fld[o] # b, NEW G, G = E \ {c}
    PROVE  LET n == fgoStrPut(m, o, c) IN
           /\ Sound(n, ext, G, g, p, b, X)
           /\ Keeps(m, n, G)
  <1> DEFINE u == [m EXCEPT !.fld[o] = c]
             F == (E \ {c}) \cup ({m.fld[o]} \ {Nil})
             B == {m.fld[o]}
             n == fgoBufFree(u, B)
  <1>0. MemExact(m, ext, E) /\ ViewHeld(m, ext, p, b) /\ m \in Mem /\ E \subseteq Buf
    BY DEF Sound, MemExact
  <1>1. o \in Obj /\ Elems(m, o) = <<>> /\ m.fld[o] \notin E /\ Nil \notin E /\ ext \in [Obj -> Nat]
    BY <1>0, Names DEF Counted, Elems, MemExact, FieldsExact
  <1>2. fgoStrPut(m, o, c) = n
    BY DEF fgoStrPut
  <1>3. /\ Sound(u, ext, F, g, p, b, X)
        /\ u.st = m.st /\ u.cnt = m.cnt /\ u.typ = m.typ /\ u.gcs = m.gcs /\ u.buf = m.buf /\ u.els = m.els
        /\ \A r \in Obj : Elems(u, r) = IF r = o THEN <<>> ELSE Elems(m, r)
    <2> DEFINE q == <<>>
               new == [x \in Obj |-> ext[x] - Occ(q, x) + Occ(Elems(m, o), x)]
    <2>2. \A x \in Obj : Occ(<<>>, x) = 0
      BY EmptyNone
    <2>4. new = ext
      BY <1>1, <2>2
    <2>5. b # Nil => new[p] > 0
      BY <1>0, <2>4 DEF ViewHeld
    <2>1. MayField(m, ext, E, p, b, o, c, q, new, F)
      BY <1>1, <2>2, <2>5 DEF MayField
    <2> HIDE DEF q, new, u, F
    <2>6. q = <<>>
      BY DEF q
    <2>7. SetsField(m, u, o, c)
      BY <1>0, <1>1 DEF u, Mem, SetsField
    <2>8. /\ Sound(u, new, F, g, p, b, X)
          /\ \A r \in Obj : Elems(u, r) = IF r = o THEN q ELSE Elems(m, r)
      BY <2>1, <2>7, FieldSound
    <2> QED
      BY <2>4, <2>6, <2>7, <2>8 DEF SetsField
  <1>4. B \cap Buf \subseteq F /\ G = F \ B
    BY <1>1, Names
  <1> HIDE DEF u, F, B
  <1>5. /\ Sound(n, ext, G, g, p, b, X)
        /\ FreeKeeps(u, n, B)
    BY <1>3, <1>4, FreeSound
  <1> HIDE DEF n
  <1>6. Keeps(m, n, G)
    <2>1. \A x \in Obj : ToSet(Elems(n, x)) \subseteq ToSet(Elems(m, x))
      BY <1>3, <1>5, NoElems DEF FreeKeeps
    <2>2. \A e \in G : n.els[e] = m.els[e]
      BY <1>0, <1>1, <1>3, <1>5 DEF B, FreeKeeps
    <2> QED
      BY <1>3, <1>5, <2>1, <2>2 DEF Keeps, FreeKeeps
  <1> QED
    BY <1>2, <1>5, <1>6

(* A string or scalar slice is stored, or cleared. *)
LEMMA StrSetStep ==
    ASSUME BufInv, "overwrite" \notin Race, NEW s \in Slot, fgoStrSet(s)
    PROVE  BufInv' /\ Shrunk(mem, mem')
  <1> DEFINE o == loc[s]
             E == Loose
  <1>1. Sound(mem, Ext, E, glob, ViewedObj, view.buf, GcReach) /\ FrameExact
    BY DEF BufInv
  <1>2. /\ o \in Obj /\ mem.typ[o] = "data" /\ MayStore(o)
        /\ loc' = loc /\ tok' = tok /\ dup' = dup /\ made' = made /\ view' = view /\ glob' = glob /\ out' = out
        /\ ViewedObj' = ViewedObj
    BY DEF fgoStrSet, frame, ViewedObj
  <1>3. view.buf # Nil => mem.fld[o] # view.buf
    BY <1>2, StoreOk
  <1>4. /\ Sound(mem', Ext, E, glob, ViewedObj, view.buf, GcReach)
        /\ Keeps(mem, mem', E)
    <2>1. CASE o \in Counted(mem) /\ mem' = fgoStrPut(mem, o, Nil)
      <3>1. Nil \in E \cup {Nil} /\ E = E \ {Nil}
        BY DEF Loose
      <3> HIDE DEF E, o
      <3>2. /\ Sound(mem', Ext, E, glob, ViewedObj, view.buf, GcReach)
            /\ Keeps(mem, mem', E)
        BY <1>1, <1>2, <1>3, <2>1, <3>1, StrPutSound
      <3> QED
        BY <3>1, <3>2 DEF E
    <2>2. CASE o \notin Counted(mem)
      BY <1>1, <2>2 DEF fgoStrSet, Keeps
    <2>3. ASSUME o \in Counted(mem), NEW c \in Buf, NEW k \in BufKinds(c),
                 mem' = fgoStrPut(fgoBufAlloc(mem, c, k, <<>>), o, c)
          PROVE  <1>4!:
      <3> DEFINE q == <<>>
                 m == fgoBufAlloc(mem, c, k, q)
                 F == E \cup {c}
      <3>1. k \in {"small", "large"} /\ mem.buf[c] = "free" /\ q \in Seq(Ref) /\ F = E \cup {c}
        <4>1. k \in {"small", "large"} /\ mem.buf[c] = "free"
          BY DEF BufKinds
        <4>2. q \in Seq(Ref)
          OBVIOUS
        <4> QED
          BY <4>1, <4>2, Bounds
      <3> HIDE DEF E, o, q, F
      <3>2. /\ Sound(m, Ext, F, glob, ViewedObj, view.buf, GcReach) /\ c \notin E
            /\ AllocKeeps(mem, m, c, q)
        BY <1>1, <3>1, AllocSound
      <3> HIDE DEF m
      <3>3. (c # Nil => m.els[c] = <<>>) /\ o \in Counted(m) /\ m.typ[o] = "data" /\ E = F \ {c} /\ c \in F \cup {Nil} /\ (view.buf # Nil => m.fld[o] # view.buf)
        BY <1>2, <1>3, <2>3, <3>2 DEF Counted, q, F, AllocKeeps
      <3>4. /\ Sound(mem', Ext, E, glob, ViewedObj, view.buf, GcReach)
            /\ Keeps(m, mem', E)
        <4>1. mem' = fgoStrPut(m, o, c)
          BY <2>3 DEF m, q
        <4> QED
          BY <3>2, <3>3, <4>1, StrPutSound
      <3>5. E \subseteq Buf \ {c}
        BY <1>1, <3>2 DEF Sound, MemExact
      <3> QED
        BY <3>2, <3>4, <3>5 DEF Keeps, AllocKeeps
    <2> QED
      BY <2>1, <2>2, <2>3 DEF fgoStrSet
  <1>5. Ext' = Ext /\ Loose' = Loose /\ FrameExact'
    <2>2. /\ Ext' = Ext /\ Loose' = Loose /\ {dup', made'} \subseteq Buf \cup {Nil}
          /\ dup' # Nil => mem'.els[dup'] = <<>> /\ dup' # made'
      BY <1>1, <1>2, <1>4, LooseStays DEF Keeps
    <2>1. \A x \in Obj : Heap \notin ToSet(Elems(mem', x))
      BY <1>1, <1>4 DEF FrameExact, Keeps
    <2> QED
      BY <1>1, <1>2, <1>4, <2>1, <2>2 DEF FrameExact, Keeps
  <1> QED
    BY <1>2, <1>4, <1>5, InvNext DEF Shrunk, Keeps

(* A string is copied on its way to a store. *)
LEMMA StrDupStep == ASSUME BufInv, NEW s \in Slot, fgoStrDup(s) PROVE BufInv' /\ Shrunk(mem, mem')
  <1>1. Sound(mem, Ext, Loose, glob, ViewedObj, view.buf, GcReach) /\ FrameExact
    BY DEF BufInv
  <1>2. /\ dup = Nil /\ loc' = loc /\ tok' = tok /\ made' = made /\ view' = view /\ glob' = glob /\ out' = out
        /\ ViewedObj' = ViewedObj
    BY DEF fgoStrDup, ViewedObj
  <1>3. PICK c \in Buf : \E k \in BufKinds(c) : mem' = fgoBufAlloc(mem, c, k, <<>>) /\ dup' = c
    BY DEF fgoStrDup
  <1>4. PICK k \in BufKinds(c) : mem' = fgoBufAlloc(mem, c, k, <<>>) /\ dup' = c
    BY <1>3
  <1> DEFINE q == <<>>
             F == Loose \cup {c}
  <1>5. k \in {"small", "large"} /\ mem.buf[c] = "free" /\ q \in Seq(Ref) /\ mem' = fgoBufAlloc(mem, c, k, q)
        /\ F = Loose \cup {c}
    BY <1>4, Bounds DEF BufKinds
  <1> HIDE DEF q, F
  <1>6. /\ Sound(mem', Ext, F, glob, ViewedObj, view.buf, GcReach) /\ c \notin Loose /\ AllocKeeps(mem, mem', c, q)
    BY <1>1, <1>5, AllocSound
  <1>7. F = Loose'
    BY <1>2, <1>4, Names DEF F, Loose
  <1>9. made # Nil => made \in Buf /\ made # c
    BY <1>1, <1>6 DEF FrameExact, Loose
  <1>10. Ext' = Ext
    BY <1>2, <1>6, <1>9, ExtStays DEF AllocKeeps
  <1>8. FrameExact'
    <2>1. c # made
      BY <1>9, Names
    <2> QED
      BY <1>1, <1>2, <1>4, <1>6, <2>1 DEF FrameExact, AllocKeeps, q
  <1> QED
    BY <1>2, <1>6, <1>7, <1>8, <1>10, InvNext DEF Shrunk, AllocKeeps

(* The copy is stored. *)
LEMMA StrPutDupStep ==
    ASSUME BufInv, "overwrite" \notin Race, NEW s \in Slot, StrPutDup(s)
    PROVE  BufInv' /\ Shrunk(mem, mem')
  <1> DEFINE o == loc[s]
             E == Loose
             G == Loose \ {dup}
  <1>2. /\ o \in Obj /\ mem.typ[o] = "data" /\ MayStore(o) /\ dup # Nil /\ dup' = Nil /\ mem' = fgoStrPut(mem, o, dup)
        /\ loc' = loc /\ tok' = tok /\ made' = made /\ view' = view /\ glob' = glob /\ out' = out
        /\ ViewedObj' = ViewedObj
    BY DEF StrPutDup, ViewedObj
  <1>1. Sound(mem, Ext, E, glob, ViewedObj, view.buf, GcReach) /\ FrameExact /\ dup \in Buf /\ dup \in E
    BY <1>2 DEF BufInv, FrameExact, Loose
  <1>3. view.buf # Nil => mem.fld[o] # view.buf
    BY <1>2, StoreOk
  <1>4. /\ Sound(mem', Ext, G, glob, ViewedObj, view.buf, GcReach)
        /\ Keeps(mem, mem', G)
    <2>3. G = E \ {dup}
      OBVIOUS
    <2>1. CASE o \in Counted(mem)
      <3>1. dup \in E \cup {Nil} /\ mem.els[dup] = <<>>
        BY <1>1, <1>2 DEF FrameExact
      <3> HIDE DEF E, o, G
      <3> QED
        BY <1>1, <1>2, <1>3, <2>1, <2>3, <3>1, StrPutSound
    <2>2. CASE o \notin Counted(mem)
      <3>1. mem' = fgoBufFree(mem, {dup}) /\ {dup} \cap Buf \subseteq E
        BY <1>1, <1>2, <2>2 DEF fgoStrPut
      <3> HIDE DEF E, o, G
      <3>2. /\ Sound(mem', Ext, G, glob, ViewedObj, view.buf, GcReach)
            /\ FreeKeeps(mem, mem', {dup})
        BY <1>1, <2>3, <3>1, FreeSound
      <3>3. G \subseteq Buf \ {dup}
        BY <1>1, <2>3 DEF Sound, MemExact
      <3> QED
        BY <3>2, <3>3 DEF Keeps, FreeKeeps
    <2> QED
      BY <2>1, <2>2
  <1>5. G = Loose' /\ Ext' = Ext
    <2>1. made # Nil => made \in G
      BY <1>1, <1>2 DEF Loose, FrameExact
    <2>2. Ext' = Ext
      BY <1>2, <1>4, <2>1, ExtStays DEF Keeps
    <2> QED
      BY <1>1, <1>2, <2>2 DEF Loose, FrameExact
  <1>6. FrameExact'
    <2>1. \A x \in Obj : Heap \notin ToSet(Elems(mem', x))
      BY <1>1, <1>4 DEF FrameExact, Keeps
    <2> QED
      BY <1>1, <1>2, <1>4, <2>1 DEF FrameExact, Keeps
  <1> QED
    BY <1>2, <1>4, <1>5, <1>6, InvNext DEF Shrunk, Keeps

(* A sequence of some of the values it may have. *)
LEMMA SeqAmong == ASSUME NEW A, NEW B, NEW q \in Seq(B), \A i \in 1 .. Len(q) : q[i] \in A PROVE q \in Seq(A)
  OBVIOUS

(* What a new slice is built from is known, so the slice's elements are. *)
LEMMA BuiltType ==
    ASSUME BufInv, NEW q \in Built
    PROVE  q \in Seq(Ref) /\ ToSet(q) \cap Obj \subseteq Known
  <1> DEFINE A == {r \in Ref : r \in Obj => r \in Known}
  <1>1. \A r \in Local : r \in A
    <2>1. ASSUME NEW r \in Local PROVE r = Heap \/ \E s \in Slot : r = loc[s]
      <3>1. DOMAIN loc = Slot
        BY DEF BufInv, FrameExact
      <3> QED
        BY <3>1 DEF Local, Range
    <2>2. Heap \in A
      BY Names DEF Ref
    <2>3. ASSUME NEW s \in Slot PROVE loc[s] \in A
      BY KnownRefs DEF BufInv, FrameExact, Ref
    <2> QED
      BY <2>1, <2>2, <2>3
  <1>2. \A s \in Slot : Field(loc[s]) \in Seq(A)
    <2> SUFFICES ASSUME NEW s \in Slot PROVE Field(loc[s]) \in Seq(A)
      OBVIOUS
    <2> DEFINE f == Field(loc[s])
    <2>1. f \in Seq(Ref) /\ ToSet(f) \cap Obj \subseteq Known
      BY KnownRefs
    <2> HIDE DEF f
    <2>2. \A i \in 1 .. Len(f) : f[i] \in A
      BY <2>1 DEF ToSet
    <2>3. f \in Seq(A)
      <3>1. f \in Seq(Ref)
        BY <2>1
      <3> HIDE DEF A
      <3> QED
        BY <2>2, <3>1, SeqAmong
    <2> QED
      BY <2>3 DEF f
  <1> HIDE DEF A
  <1>3. q \in Seq(A)
    <2>1. CASE \E r \in Local : q = <<r>>
      BY <1>1, <2>1
    <2>2. CASE \E s \in Slot, r \in Local : q = Append(Field(loc[s]), r)
      BY <1>1, <1>2, <2>2
    <2>3. CASE \E s \in Slot : \E i \in DOMAIN Field(loc[s]) : q = RemoveAt(Field(loc[s]), i)
      <3>1. PICK s \in Slot : \E i \in DOMAIN Field(loc[s]) : q = RemoveAt(Field(loc[s]), i)
        BY <2>3
      <3> DEFINE f == Field(loc[s])
      <3>2. PICK i \in DOMAIN f : q = RemoveAt(f, i)
        BY <3>1
      <3>3. f \in Seq(A)
        BY <1>2
      <3> HIDE DEF f
      <3>4. SubSeq(f, 1, i - 1) \in Seq(A) /\ SubSeq(f, i + 1, Len(f)) \in Seq(A)
        BY <3>3
      <3> QED
        BY <3>2, <3>4 DEF RemoveAt
    <2>4. \/ \E r \in Local : q = <<r>>
          \/ \E s \in Slot, r \in Local : q = Append(Field(loc[s]), r)
          \/ \E s \in Slot : \E i \in DOMAIN Field(loc[s]) : q = RemoveAt(Field(loc[s]), i)
      <3> DEFINE P == {Append(Field(loc[s]), r) : s \in Slot, r \in Local}
                 D(s) == {RemoveAt(Field(loc[s]), i) : i \in DOMAIN Field(loc[s])}
                 Q == UNION {D(s) : s \in Slot}
                 O == {<<r>> : r \in Local}
      <3>0. Built = {e \in O \cup P \cup Q : Len(e) \in 1 .. MaxLen}
        BY DEF Built
      <3>1. q \in O \/ q \in P \/ q \in Q
        <4> HIDE DEF O, P, Q
        <4> QED
          BY <3>0
      <3>2. q \in P => \E s \in Slot, r \in Local : q = Append(Field(loc[s]), r)
        OBVIOUS
      <3>3. q \in Q => \E s \in Slot : q \in D(s)
        OBVIOUS
      <3>4. \A s \in Slot : q \in D(s) => \E i \in DOMAIN Field(loc[s]) : q = RemoveAt(Field(loc[s]), i)
        OBVIOUS
      <3> HIDE DEF P, Q, D
      <3> QED
        BY <3>1, <3>2, <3>3, <3>4
    <2> QED
      BY <2>1, <2>2, <2>3, <2>4
  <1>4. ToSet(q) \subseteq A
    BY <1>3, SeqDomain
  <1>5. q \in Seq(Ref)
    BY <1>3 DEF A
  <1> QED
    BY <1>4, <1>5 DEF A

(* A step that leaves the frame alone. *)
LEMMA FrameStays ==
    ASSUME BufInv, UNCHANGED <<frame, out>>, NEW Y,
           Sound(mem', Ext, Loose, glob', ViewedObj, view.buf, Y),
           \A x \in Obj : mem'.st[x] = "token" <=> mem.st[x] = "token",
           \A e \in Loose : mem'.els[e] = mem.els[e],
           \A x \in Obj : Heap \notin ToSet(Elems(mem', x))
    PROVE  BufInv'
  <1>1. /\ loc' = loc /\ tok' = tok /\ dup' = dup /\ made' = made /\ view' = view /\ out' = out
        /\ ViewedObj' = ViewedObj /\ glob' \subseteq Obj
    BY DEF frame, ViewedObj, Sound, GcSafe
  <1>2. /\ Ext' = Ext /\ Loose' = Loose /\ {dup', made'} \subseteq Buf \cup {Nil}
        /\ dup' # Nil => mem'.els[dup'] = <<>> /\ dup' # made'
    BY <1>1, LooseStays DEF BufInv
  <1>3. FrameExact'
    BY <1>1, <1>2 DEF BufInv, FrameExact
  <1> QED
    BY <1>1, <1>2, <1>3, InvNext

-----------------------------------------------------------------------------
(* A slice of pointers is built, and then stored.                           *)

\* A slice under way that is stored as c leaves the frame, or does not (c = Nil).
Stored(c) == c \in {made, Nil} /\ made' = (IF c = Nil THEN made ELSE Nil) /\ UNCHANGED <<loc, tok, dup, view, out>>
Left(c) == [x \in Obj |-> Ext[x] - Occ(IF c = Nil THEN <<>> ELSE mem.els[c], x)]

(* The slice under way that is stored. *)
LEMMA UnderWay ==
    ASSUME BufInv, NEW c \in {made, Nil}, NEW q, q = IF c = Nil THEN <<>> ELSE mem.els[c]
    PROVE  /\ q \in Seq(Ref) /\ ToSet(q) \cap Obj \subseteq Known /\ c \in Loose \cup {Nil}
           /\ Left(c) = [x \in Obj |-> Ext[x] - Occ(q, x)]
           /\ \A x \in Obj : Ext[x] \in Nat /\ Occ(q, x) \in Nat /\ Occ(q, x) <= Ext[x]
           /\ view.buf # Nil => ViewedObj \in Obj /\ Left(c)[ViewedObj] > 0
  <1>1. /\ Made \in Seq(Ref) /\ ToSet(Made) \cap Obj \subseteq Known
        /\ \A x \in Obj : /\ Ext[x] = Slots(loc)[x] + Occ(Made, x)
                          /\ Ext[x] \in Nat /\ Slots(loc)[x] \in Nat /\ Occ(Made, x) \in Nat
                          /\ x \in ToSet(loc) => Slots(loc)[x] > 0
    BY ExtIs, KnownRefs
  <1>2. q = <<>> \/ q = Made
    BY DEF Made
  <1>3. \A x \in Obj : Occ(q, x) \in {0, Occ(Made, x)}
    BY <1>2, EmptyNone
  <1>4. q \in Seq(Ref) /\ ToSet(q) \cap Obj \subseteq Known
    <2>1. <<>> \in Seq(Ref) /\ ToSet(<<>>) \cap Obj \subseteq Known
      BY NoElems
    <2> QED
      BY <1>1, <1>2, <2>1
  <1>5. view.buf # Nil => ViewedObj \in Obj /\ ViewedObj \in ToSet(loc)
    <2> SUFFICES ASSUME view.buf # Nil PROVE ViewedObj \in Obj /\ ViewedObj \in ToSet(loc)
      OBVIOUS
    <2>1. view # NoView /\ ViewedObj \in Obj
      BY DEF NoView, BufInv, Sound, ViewHeld
    <2>2. view.slot \in DOMAIN loc /\ ViewedObj = loc[view.slot]
      BY <2>1 DEF BufInv, FrameExact, ViewedObj
    <2> QED
      BY <2>1, <2>2 DEF ToSet
  <1>6. Left(c) = [x \in Obj |-> Ext[x] - Occ(q, x)]
    BY DEF Left
  <1>7. c \in Loose \cup {Nil}
    BY DEF Loose
  <1>8. \A x \in Obj : Ext[x] \in Nat /\ Occ(q, x) \in Nat /\ Occ(q, x) <= Ext[x]
    BY <1>1, <1>3
  <1>9. view.buf # Nil => Left(c)[ViewedObj] > 0
    <2> SUFFICES ASSUME view.buf # Nil PROVE Left(c)[ViewedObj] > 0
      OBVIOUS
    <2>1. Left(c)[ViewedObj] = Ext[ViewedObj] - Occ(q, ViewedObj) /\ ViewedObj \in Obj
      BY <1>5, <1>6
    <2>2. /\ Ext[ViewedObj] = Slots(loc)[ViewedObj] + Occ(Made, ViewedObj) /\ Slots(loc)[ViewedObj] > 0
          /\ Slots(loc)[ViewedObj] \in Nat /\ Occ(Made, ViewedObj) \in Nat /\ Occ(q, ViewedObj) \in {0, Occ(Made, ViewedObj)}
      BY <1>1, <1>3, <1>5
    <2> QED
      BY <2>1, <2>2
  <1> QED
    BY <1>4, <1>5, <1>6, <1>7, <1>8, <1>9

(* A store of a slice that leaves the rest of the frame alone. *)
LEMMA StoredStays ==
    ASSUME BufInv, NEW c, Stored(c), NEW Y,
           Sound(mem', Left(c), Loose \ {c}, glob', ViewedObj, view.buf, Y),
           \A x \in Obj : mem'.st[x] = "token" <=> mem.st[x] = "token",
           \A e \in Loose \ {c} : mem'.els[e] = mem.els[e],
           \A x \in Obj : Heap \notin ToSet(Elems(mem', x))
    PROVE  BufInv'
  <1>1. /\ loc' = loc /\ tok' = tok /\ dup' = dup /\ view' = view /\ out' = out
        /\ ViewedObj' = ViewedObj /\ glob' \subseteq Obj
        /\ c \in {made, Nil} /\ made' = IF c = Nil THEN made ELSE Nil
    BY DEF Stored, ViewedObj, Sound, GcSafe
  <1>2. Loose' = Loose \ {c}
    BY <1>1 DEF Loose, BufInv, FrameExact
  <1>3. dup' # Nil => mem'.els[dup'] = <<>> /\ dup' # made'
    <2>1. dup # Nil => mem.els[dup] = <<>> /\ dup # made
      BY DEF BufInv, FrameExact
    <2>2. dup # Nil => dup \in Loose \ {c}
      BY <1>1, <2>1 DEF Loose
    <2> QED
      BY <1>1, <2>1, <2>2
  <1>4. Ext' = Left(c)
    <2>1. CASE c = Nil
      <3>1. Made' = Made /\ Ext' = Ext
        <4>1. made # Nil => made \in Loose \ {c}
          BY <2>1 DEF Loose
        <4> QED
          BY <1>1, <2>1, <4>1, ExtStays
      <3>2. Left(c) = [x \in Obj |-> Ext[x] - Occ(<<>>, x)]
        BY <2>1 DEF Left
      <3>3. \A x \in Obj : Ext[x] \in Nat /\ Occ(<<>>, x) = 0
        BY ExtIs, EmptyNone
      <3>4. Ext = [x \in Obj |-> Ext[x]]
        BY DEF Ext
      <3> QED
        BY <3>1, <3>2, <3>3, <3>4
    <2>2. CASE c # Nil
      <3>1. Made' = <<>> /\ Made = mem.els[c]
        BY <1>1, <2>2 DEF Made
      <3>2. Ext' = [x \in Obj |-> Occ(loc, x) + Occ(<<>>, x)]
        BY <1>1, <3>1 DEF Ext
      <3>3. Left(c) = [x \in Obj |-> Ext[x] - Occ(Made, x)]
        BY <2>2, <3>1 DEF Left
      <3>4. \A x \in Obj : Occ(<<>>, x) = 0 /\ Ext[x] = Slots(loc)[x] + Occ(Made, x)
                          /\ Slots(loc)[x] = Occ(loc, x) /\ Slots(loc)[x] \in Nat /\ Occ(Made, x) \in Nat
        BY ExtIs, EmptyNone DEF Slots
      <3>5. \A x \in Obj : Occ(loc, x) + Occ(<<>>, x) = Ext[x] - Occ(Made, x)
        BY <3>4
      <3> QED
        BY <3>2, <3>3, <3>5
    <2> QED
      BY <2>1, <2>2
  <1>5. FrameExact'
    BY <1>1, <1>3 DEF BufInv, FrameExact
  <1> QED
    BY <1>1, <1>2, <1>4, <1>5, InvNext

\* A store of a slice q into o's field.
Refilled(m, n, o, q) ==
    /\ o \in Counted(m) /\ ToSet(Elems(n, o)) \subseteq ToSet(q)
    /\ \A x \in Obj \ {o} : ToSet(Elems(n, x)) \subseteq ToSet(Elems(m, x))

(* fgoPtrsPut into the field of a counted object. *)
LEMMA PutCounted ==
    ASSUME BufInv, glob' = glob, NEW c, Stored(c), NEW q, q = IF c = Nil THEN <<>> ELSE mem.els[c],
           NEW o \in Counted(mem), mem.typ[o] = "ptrs", view.buf # Nil => mem.fld[o] # view.buf,
           NEW u, u = [mem EXCEPT !.fld[o] = c],
           NEW v, v = u \/ v = fgoRCHandoff(u, {o}), Heap \in ToSet(q) => v = fgoRCHandoff(u, {o}),
           mem' = fgoBufFree(fgoRCDec(v, Elems(mem, o)), {mem.fld[o]})
    PROVE  BufInv' /\ Refilled(mem, mem', o, q)
  <1> DEFINE E == Loose
             ext == Ext
             l == Elems(mem, o)
             old == mem.fld[o]
             G == E \ {c}
             new == [x \in Obj |-> ext[x] - Occ(q, x) + Occ(l, x)]
             F == G \cup ({old} \ {Nil})
             left == Left(c)
             p == ViewedObj
             b == view.buf
  <1>0. o \in Obj /\ Sound(mem, ext, E, glob, p, b, GcReach) /\ FrameExact
    BY DEF Counted, BufInv
  <1>1. /\ left = [x \in Obj |-> ext[x] - Occ(q, x)] /\ c \in E \cup {Nil}
        /\ \A x \in Obj : ext[x] \in Nat /\ Occ(q, x) \in Nat /\ Occ(q, x) <= ext[x]
        /\ b # Nil => p \in Obj /\ left[p] > 0
    <2>1. c \in {made, Nil}
      BY DEF Stored
    <2> QED
      BY <2>1, UnderWay
  <1>2. \A x \in Obj : Occ(l, x) \in Nat
    <2>1. IsFiniteSet(DOMAIN l)
      BY <1>0, ElemsType DEF Sound, Finite
    <2> QED
      BY <2>1, OccType
  <1>5. SetsField(mem, u, o, c)
    <2>1. mem \in Mem /\ E \subseteq Buf
      BY <1>0 DEF Sound, MemExact
    <2>2. c \in Buf \cup {Nil}
      BY <1>1, <2>1
    <2> QED
      BY <1>0, <2>1, <2>2 DEF SetsField, Mem
  <1>6. mem' = fgoBufFree(fgoRCDec(v, l), {old})
    OBVIOUS
  <1> HIDE DEF l, old, left, p, b, ext, E
  <1>3. b # Nil => left[p] > 0 /\ new[p] > 0
    <2> SUFFICES ASSUME b # Nil PROVE left[p] > 0 /\ new[p] > 0
      OBVIOUS
    <2>1. p \in Obj /\ left[p] > 0 /\ left[p] = ext[p] - Occ(q, p)
      BY <1>1
    <2>2. new[p] = ext[p] - Occ(q, p) + Occ(l, p) /\ ext[p] \in Nat /\ Occ(q, p) \in Nat /\ Occ(l, p) \in Nat
      BY <1>1, <1>2, <2>1
    <2> HIDE DEF new
    <2> QED
      BY <2>1, <2>2
  <1>4. MayField(mem, ext, E, p, b, o, c, q, new, F)
    <2>1. b # Nil => mem.fld[o] # b
      BY DEF b
    <2>2. F = (E \ {c}) \cup ({mem.fld[o]} \ {Nil}) /\ new = [x \in Obj |-> ext[x] - Occ(q, x) + Occ(Elems(mem, o), x)]
      BY DEF old, l
    <2> QED
      BY <1>1, <1>3, <2>1, <2>2 DEF MayField
  <1> HIDE DEF G, new, F
  <1>8. /\ \E Y : Sound(mem', left, G, glob, p, b, Y)
        /\ Replaced(mem, mem', o, q, G, u, v)
    <2>2. Replaces(mem, ext, E, p, b, o, c, q, u, v, l, old, mem', G, left)
      BY <1>1, <1>3, <1>6 DEF l, old, G, Replaces
    <2> QED
      BY <1>0, <1>4, <1>5, <2>2, ReplaceSound
  <1>9. PICK Y : Sound(mem', Left(c), Loose \ {c}, glob', ViewedObj, view.buf, Y)
    BY <1>8 DEF p, b, left, G, E
  <1>10. Refilled(mem, mem', o, q)
    BY <1>8 DEF Refilled, Replaced
  <1>11. \A x \in Obj : Heap \notin ToSet(Elems(mem', x))
    BY <1>0, <1>8, <1>10, NoElems DEF FrameExact, Refilled, Replaced
  <1>12. /\ \A x \in Obj : mem'.st[x] = "token" <=> mem.st[x] = "token"
         /\ \A e \in Loose \ {c} : mem'.els[e] = mem.els[e]
    BY <1>8 DEF Replaced, G, E
  <1> QED
    BY <1>9, <1>10, <1>11, <1>12, StoredStays

\* What a hand-off and a release keep.
Emptied(d) ==
    /\ \A x \in Obj : d.st[x] = "token" <=> mem.st[x] = "token"
    /\ \A x \in Obj : Elems(d, x) = Elems(mem, x) \/ Elems(d, x) = <<>>
    /\ \A e \in Loose : d.els[e] = mem.els[e]
    /\ HandedStay(mem, d)

\* The slice q under way, the objects S in it, and memory once they are handed off.
Shares(c, q, S, d) ==
    /\ c \in {made, Nil} /\ q = IF c = Nil THEN <<>> ELSE mem.els[c]
    /\ S = ToSet(q) \cap Obj /\ d = fgoRCDec(fgoRCHandoff(mem, S), q)

(* fgoPtrsPut elsewhere: what the slice refers to is handed off, its        *)
(* references dropped.                                                      *)
LEMMA PutShared ==
    ASSUME BufInv, NEW c, NEW q, NEW S, NEW d, Shares(c, q, S, d)
    PROVE  /\ \E Y : Sound(d, Left(c), Loose, glob, ViewedObj, view.buf, Y) /\ S \subseteq Y
           /\ Emptied(d)
  <1> DEFINE h == fgoRCHandoff(mem, S)
             R == Reach(mem, S)
             D == Dying(h, q)
             Y == GcReach \cup R
             p == ViewedObj
             b == view.buf
             ext == Ext
             left == Left(c)
             E == Loose
  <1>0. Sound(mem, ext, E, glob, p, b, GcReach) /\ FrameExact
    BY DEF BufInv
  <1>1. /\ left = [x \in Obj |-> ext[x] - Occ(q, x)] /\ \A x \in Obj : Occ(q, x) <= ext[x]
        /\ b # Nil => left[p] > 0
        /\ q \in Seq(Ref) /\ S \subseteq Known
    BY UnderWay DEF Shares
  <1>2. IsFiniteSet(DOMAIN q)
    BY <1>1, SeqDomain
  <1>9. d = fgoRCDec(h, q)
    BY DEF Shares
  <1> HIDE DEF p, b, ext, left, E
  <1>4. /\ Sound(h, ext, E, glob, p, b, Y)
        /\ R \subseteq Counted(mem) /\ S \cap Counted(mem) \subseteq R
        /\ h.els = mem.els /\ HandedStay(mem, h)
        /\ \A x \in Obj : /\ h.st[x] = (IF x \in R THEN "handed" ELSE mem.st[x])
                          /\ Elems(h, x) = (IF x \in R THEN <<>> ELSE Elems(mem, x))
    BY <1>0, HandoffSound
  <1> HIDE DEF h, R, Y
  <1>5. /\ Sound(d, left, E, glob, p, b, Y)
        /\ D \subseteq Counted(h)
        /\ \A x \in Obj : /\ d.st[x] = (IF x \in D THEN "none" ELSE h.st[x])
                          /\ Elems(d, x) = (IF x \in D THEN <<>> ELSE Elems(h, x))
        /\ \A e \in E : d.els[e] = h.els[e]
        /\ HandedStay(h, d)
    BY <1>1, <1>2, <1>4, <1>9, DecSound
  <1> HIDE DEF D
  <1>6. S \subseteq Y
    BY <1>1, <1>4 DEF Known, Y
  <1>7. /\ \A x \in Obj : d.st[x] = "token" <=> mem.st[x] = "token"
        /\ \A x \in Obj : Elems(d, x) = Elems(mem, x) \/ Elems(d, x) = <<>>
    BY <1>4, <1>5 DEF Counted
  <1>8. /\ \A e \in Loose : d.els[e] = mem.els[e]
        /\ HandedStay(mem, d)
    BY <1>4, <1>5 DEF HandedStay, E
  <1> QED
    BY <1>5, <1>6, <1>7, <1>8 DEF p, b, left, E, Emptied

\* The slice, now in GC memory, and the buffer it was built in.
StoredGc(d, c, q, S) ==
    \/ mem' = fgoBufFree(d, {c}) /\ glob' = glob \cup S
    \/ \E o \in Obj : MayStore(o) /\ mem' = fgoBufFree([d EXCEPT !.gcs[o] = q], {c}) /\ glob' = glob

(* A slice that goes to GC memory gives the buffer it was built in back. *)
LEMMA PutGc ==
    ASSUME BufInv, "overwrite" \notin Race, NEW c, Stored(c), NEW q \in Seq(Ref), NEW d, NEW Y,
           Sound(d, Left(c), Loose, glob, ViewedObj, view.buf, Y),
           NEW S, S = ToSet(q) \cap Obj, S \subseteq Y,
           Emptied(d), StoredGc(d, c, q, S)
    PROVE  BufInv' /\ Shrunk(mem, mem')
  <1> DEFINE p == ViewedObj
             b == view.buf
             E == Loose
             F == Loose \ {c}
             ext == Left(c)
             old == Ext
  <1>0. /\ Sound(d, ext, E, glob, p, b, Y) /\ F = E \ {c} /\ {c} \cap Buf \subseteq E /\ FrameExact /\ E \subseteq Buf
        /\ ViewHeld(mem, old, p, b)
    <2>1. c \in Loose \cup {Nil} /\ Nil \notin Buf
      BY Names DEF Stored, Loose
    <2> QED
      BY <2>1 DEF BufInv, Sound, MemExact
  <1>1. b # Nil => b \in Buf
    BY <1>0 DEF Sound, ViewHeld
  <1> HIDE DEF p, b, E, F, ext, old
  <1> DEFINE Filled(e) == /\ Sound(e, ext, E, glob, p, b, Y) /\ mem' = fgoBufFree(e, {c})
                          /\ e.st = d.st /\ e.els = d.els /\ \A x \in Obj : Elems(e, x) = Elems(d, x)
                          /\ glob' = glob \/ glob' = glob \cup S
  <1>2. PICK e : Filled(e)
    <2>1. CASE mem' = fgoBufFree(d, {c}) /\ glob' = glob \cup S
      BY <1>0, <2>1
    <2>2. ASSUME NEW o \in Obj, MayStore(o), mem' = fgoBufFree([d EXCEPT !.gcs[o] = q], {c}), glob' = glob
          PROVE  \E e : Filled(e)
      <3>1. b # Nil /\ d.buf[b] = "leaked" => p # o
        <4> SUFFICES ASSUME b # Nil, d.buf[b] = "leaked", p = o PROVE FALSE
          OBVIOUS
        <4>1. mem.fld[o] # b /\ mem.buf[b] # "leaked"
          BY <2>2, StoreOk DEF p, b
        <4>2. mem.buf[b] = "handed"
          BY <1>0, <4>1 DEF ViewHeld
        <4> QED
          BY <1>1, <4>2 DEF HandedStay, Emptied
      <3> DEFINE e == [d EXCEPT !.gcs[o] = q]
      <3>2. e = [d EXCEPT !.gcs[o] = q]
        OBVIOUS
      <3>3. ToSet(q) \cap Obj \subseteq Y
        OBVIOUS
      <3> HIDE DEF e
      <3>4. /\ Sound(e, ext, E, glob, p, b, Y)
            /\ e.st = d.st /\ e.els = d.els /\ \A x \in Obj : Elems(e, x) = Elems(d, x)
        BY <1>0, <3>1, <3>2, <3>3, GcsSound
      <3> QED
        BY <2>2, <3>2, <3>4
    <2> QED
      BY <2>1, <2>2 DEF StoredGc
  <1>3. Sound(mem', ext, F, glob, p, b, Y) /\ FreeKeeps(e, mem', {c})
    BY <1>0, <1>2, FreeSound
  <1>4. glob' \in SUBSET Y
    <2>1. glob \subseteq Y
      BY <1>3 DEF Sound, GcSafe
    <2> QED
      BY <1>2, <2>1
  <1>5. Sound(mem', ext, F, glob', p, b, Y)
    BY <1>3, <1>4, GlobSound
  <1>6. \A x \in Obj : Elems(mem', x) = Elems(mem, x) \/ Elems(mem', x) = <<>>
    BY <1>2, <1>3 DEF FreeKeeps, Emptied
  <1>7. \A x \in Obj : Heap \notin ToSet(Elems(mem', x))
    BY <1>0, <1>6, NoElems DEF FrameExact
  <1>8. \A r \in Loose \ {c} : mem'.els[r] = mem.els[r]
    BY <1>0, <1>2, <1>3 DEF FreeKeeps, F, E, Emptied
  <1>9. \A x \in Obj : mem'.st[x] = "token" <=> mem.st[x] = "token"
    BY <1>2, <1>3 DEF FreeKeeps, Emptied
  <1>10. BufInv'
    BY <1>5, <1>7, <1>8, <1>9, StoredStays DEF p, b, F, ext
  <1>11. Shrunk(mem, mem')
    BY <1>6, NoElems DEF Shrunk
  <1> QED
    BY <1>10, <1>11

(* The new slice and its references, before it is stored. *)
LEMMA MakeStep == ASSUME BufInv, NEW q \in Built, fgoPtrsMake(q) PROVE BufInv' /\ Shrunk(mem, mem')
  <1>1. /\ loc' = loc /\ tok' = tok /\ dup' = dup /\ view' = view /\ glob' = glob /\ out' = out
        /\ made = Nil /\ ViewedObj' = ViewedObj
    BY DEF fgoPtrsMake, ViewedObj
  <1>2. PICK c \in Buf : \E k \in BufKinds(c) :
           mem' = fgoPtrsAppend(fgoBufAlloc(mem, c, k, q), q) /\ made' = c
    BY DEF fgoPtrsMake
  <1>3. PICK k \in BufKinds(c) : mem' = fgoPtrsAppend(fgoBufAlloc(mem, c, k, q), q) /\ made' = c
    BY <1>2
  <1> DEFINE a == fgoBufAlloc(mem, c, k, q)
             D == Loose
             E == D \cup {c}
             ext == Ext
             new == [x \in Obj |-> ext[x] + Occ(q, x)]
  <1>4. /\ Sound(mem, ext, D, glob, ViewedObj, view.buf, GcReach) /\ FrameExact
        /\ k \in {"small", "large"} /\ mem.buf[c] = "free" /\ E = D \cup {c}
        /\ q \in Seq(Ref) /\ ToSet(q) \cap Obj \subseteq Known
    BY Bounds, BuiltType DEF BufInv, BufKinds
  <1>5. Ext' = new
    <2>1. mem'.els[c] = q
      BY <1>3, <1>4 DEF fgoPtrsAppend, fgoRCInc, fgoBufAlloc, Sound, MemExact, Mem
    <2>2. Made' = q /\ Made = <<>>
      BY <1>1, <1>3, <2>1, Names DEF Made
    <2>3. Ext' = [x \in Obj |-> Occ(loc, x) + Occ(q, x)] /\ Ext = [x \in Obj |-> Occ(loc, x) + Occ(<<>>, x)]
      BY <1>1, <2>2 DEF Ext
    <2>4. \A x \in Obj : Occ(<<>>, x) = 0 /\ Occ(loc, x) \in Nat
      BY ExtIs, EmptyNone DEF Slots
    <2> QED
      BY <2>3, <2>4
  <1>6. IsFiniteSet(DOMAIN q) /\ mem' = fgoRCInc(a, q) /\ new = [x \in Obj |-> ext[x] + Occ(q, x)]
    BY <1>3, <1>4, SeqDomain DEF fgoPtrsAppend
  <1> HIDE DEF E, D, ext, new
  <1>7. Sound(a, ext, E, glob, ViewedObj, view.buf, GcReach) /\ c \notin D /\ AllocKeeps(mem, a, c, q)
    BY <1>4, AllocSound
  <1> HIDE DEF a
  <1>8. ToSet(q) \cap Obj \subseteq Counted(a) \cup GcReach
    BY <1>4, <1>7 DEF AllocKeeps, Known, Counted
  <1>9. /\ Sound(mem', new, E, glob, ViewedObj, view.buf, GcReach)
        /\ mem'.st = a.st /\ mem'.els = a.els
        /\ \A o \in Obj : Elems(mem', o) = Elems(a, o)
    BY <1>6, <1>7, <1>8, IncSound
  <1>10. Loose' = E
    BY <1>1, <1>3, Names DEF E, D, Loose
  <1>11. \A o \in Obj : Elems(mem', o) = Elems(mem, o)
    BY <1>7, <1>9 DEF AllocKeeps
  <1>12. FrameExact'
    <2>1. dup # Nil => dup \in Buf /\ dup # c
      BY <1>4, <1>7 DEF D, Loose, FrameExact
    <2> QED
      BY <1>1, <1>3, <1>4, <1>7, <1>9, <1>11, <2>1 DEF FrameExact, AllocKeeps
  <1> QED
    BY <1>1, <1>5, <1>9, <1>10, <1>11, <1>12, InvNext DEF Shrunk

(* fgoPtrsPut: stored into a counted object, or into GC memory. *)
LEMMA PutStep ==
    ASSUME BufInv, "overwrite" \notin Race, NEW o \in Local, NEW c \in {made, Nil}, fgoPtrsPut(o, c),
           NEW q, q = IF c = Nil THEN <<>> ELSE mem.els[c]
    PROVE  /\ BufInv'
           /\ \/ Shrunk(mem, mem')
              \/ Refilled(mem, mem', o, q) /\ ("cycle" \in Race \/ o \notin Reach(mem, ToSet(q) \cap Obj))
  <1> DEFINE objs == ToSet(q) \cap Obj
             u == [mem EXCEPT !.fld[o] = c]
             v == IF Tainted(q) THEN fgoRCHandoff(u, {o}) ELSE u
             d == fgoRCDec(fgoRCHandoff(mem, objs), q)
  <1>1. /\ o = Heap \/ (o \in Obj /\ mem.typ[o] = "ptrs")
        /\ MayStore(o) /\ Stored(c)
        /\ \/ /\ o \in Counted(mem)
              /\ "cycle" \in Race \/ o \notin Reach(mem, objs)
              /\ mem' = fgoBufFree(fgoRCDec(v, Elems(mem, o)), {mem.fld[o]})
              /\ glob' = glob
           \/ /\ o \notin Counted(mem)
              /\ IF o = Heap
                 THEN mem' = fgoBufFree(d, {c}) /\ glob' = glob \cup objs
                 ELSE mem' = fgoBufFree([d EXCEPT !.gcs[o] = q], {c}) /\ glob' = glob
    BY DEF fgoPtrsPut, Stored
  <1>2. q \in Seq(Ref)
    BY UnderWay
  <1>3. CASE o \in Counted(mem)
    <2>1. o \in Obj /\ mem.typ[o] = "ptrs" /\ (view.buf # Nil => mem.fld[o] # view.buf)
      BY <1>1, <1>3, StoreOk, Names DEF Counted
    <2>2. v = u \/ v = fgoRCHandoff(u, {o})
      OBVIOUS
    <2>3. Heap \in ToSet(q) => v = fgoRCHandoff(u, {o})
      <3>1. Occ(q, Heap) > 0 <=> Heap \in ToSet(q)
        BY <1>2, SeqDomain, OccType
      <3> QED
        BY <3>1 DEF Tainted
    <2>4. /\ "cycle" \in Race \/ o \notin Reach(mem, objs)
          /\ mem' = fgoBufFree(fgoRCDec(v, Elems(mem, o)), {mem.fld[o]}) /\ glob' = glob
      BY <1>1, <1>3
    <2>5. u = [mem EXCEPT !.fld[o] = c]
      OBVIOUS
    <2> HIDE DEF u, v
    <2>6. BufInv' /\ Refilled(mem, mem', o, q)
      BY <1>1, <1>3, <2>1, <2>2, <2>3, <2>4, <2>5, PutCounted
    <2> QED
      BY <2>4, <2>6
  <1>4. CASE o \notin Counted(mem)
    <2>1. objs = ToSet(q) \cap Obj /\ Shares(c, q, objs, d)
      BY DEF Shares
    <2>2. StoredGc(d, c, q, objs)
      BY <1>1, <1>4 DEF StoredGc
    <2> HIDE DEF objs, d
    <2>3. /\ \E Y : Sound(d, Left(c), Loose, glob, ViewedObj, view.buf, Y) /\ objs \subseteq Y
          /\ Emptied(d)
      BY <2>1, PutShared
    <2>4. PICK Y : Sound(d, Left(c), Loose, glob, ViewedObj, view.buf, Y) /\ objs \subseteq Y
      BY <2>3
    <2> QED
      BY <1>1, <1>2, <2>1, <2>2, <2>3, <2>4, PutGc
  <1> QED
    BY <1>3, <1>4

(* An element is taken out of a slice. *)
LEMMA TakeStep ==
    ASSUME BufInv, NEW s \in Slot, NEW i, NEW d \in Slot, fgoPtrsTake(s, i, d)
    PROVE  BufInv' /\ Shrunk(mem, mem')
  <1> DEFINE o == loc[s]
             p == Field(o)[i]
             new == [x \in Obj |-> Ext[x] + Occ(<<p>>, x)]
  <1>1. /\ o \in Obj /\ i \in DOMAIN Field(o) /\ Free(d) /\ Put(d, p) /\ UNCHANGED <<tok, dup, made, view, glob, out>>
        /\ mem' = IF p # Nil /\ Unique(o)
                  THEN [mem EXCEPT !.els[mem.fld[o]][i] = Nil]
                  ELSE fgoRCInc(mem, <<p>>)
    BY DEF fgoPtrsTake
  <1>2. Sound(mem, Ext, Loose, glob, ViewedObj, view.buf, GcReach) /\ FrameExact
    BY DEF BufInv
  <1>3. p \in Ref /\ (p \in Obj => p \in Known)
    <2>1. Field(o) \in Seq(Ref) /\ ToSet(Field(o)) \cap Obj \subseteq Known
      BY KnownRefs
    <2>2. p \in ToSet(Field(o)) /\ ToSet(Field(o)) \subseteq Ref
      BY <1>1, <2>1, SeqDomain DEF ToSet
    <2> QED
      BY <2>1, <2>2
  <1>4. CASE p # Nil /\ Unique(o)
    <2>1. o \in Counted(mem) /\ mem' = [mem EXCEPT !.els[mem.fld[o]][i] = Nil]
      BY <1>1, <1>4 DEF Unique
    <2>2. Field(o) = Elems(mem, o)
      <3>1. Field(o) # <<>>
        BY <1>1
      <3> QED
        BY <2>1, <3>1 DEF Field, Counted
    <2>3. new = [x \in Obj |-> Ext[x] + Occ(<<Elems(mem, o)[i]>>, x)] /\ i \in DOMAIN Elems(mem, o)
      BY <1>1, <2>2
    <2>4. /\ loc' \in [Slot -> Obj \cup {Nil}] /\ \A r \in Slot \ {d} : loc'[r] = loc[r]
          /\ Made' = Made => Ext' = new
      <3>1. /\ loc' \in [Slot -> Obj \cup {Nil}]
            /\ Made' = Made => Ext' = [x \in Obj |-> Ext[x] + Occ(<<p>>, x) - Occ(<<loc[d]>>, x)]
            /\ \A r \in Slot \ {d} : loc'[r] = loc[r]
        BY <1>1, <1>3, ExtPut
      <3>2. \A x \in Obj : Occ(<<loc[d]>>, x) = 0 /\ Occ(<<p>>, x) \in Nat /\ Ext[x] \in Nat
        BY <1>1, OccOne, ExtIs, Names DEF Free
      <3> HIDE DEF p
      <3>3. [x \in Obj |-> Ext[x] + Occ(<<p>>, x) - Occ(<<loc[d]>>, x)] = new
        BY <3>2
      <3> QED
        BY <3>1, <3>3
    <2>5. ViewedObj' = ViewedObj
      BY <1>1, <2>4, ViewStays
    <2> HIDE DEF o, p, new
    <2>6. /\ Sound(mem', new, Loose, glob, ViewedObj, view.buf, GcReach)
          /\ mem'.st = mem.st
          /\ \A e \in Loose : mem'.els[e] = mem.els[e]
          /\ \A r \in Obj : ToSet(Elems(mem', r)) \subseteq ToSet(Elems(mem, r)) \cup {Nil}
      <3>1. Takes(mem, Ext, o, i, new, mem')
        BY <2>1, <2>3 DEF Takes
      <3>2. Sound(mem', new, Loose, glob, ViewedObj, view.buf, GcReach) /\ TookFrom(mem, mem', Loose)
        BY <1>2, <3>1, TakeSound
      <3> QED
        BY <3>2 DEF TookFrom
    <2>10. Made' = Made /\ Loose' = Loose /\ {dup', made'} \subseteq Buf \cup {Nil}
           /\ (dup' # Nil => mem'.els[dup'] = <<>> /\ dup' # made')
      BY <1>1, <1>2, <2>6, LooseStays
    <2>7. FrameExact'
      <3>1. \A x \in Obj : Heap \notin ToSet(Elems(mem', x))
        BY <1>2, <2>6, Names DEF FrameExact
      <3> QED
        BY <1>1, <1>2, <2>4, <2>6, <2>10, <3>1 DEF FrameExact
    <2>8. Sound(mem', Ext', Loose', glob', ViewedObj', view'.buf, GcReach)
      BY <1>1, <2>4, <2>5, <2>6, <2>10
    <2>9. Shrunk(mem, mem')
      BY <2>6, Names DEF Shrunk
    <2> QED
      BY <2>7, <2>8, <2>9, InvNext
  <1>5. CASE ~(p # Nil /\ Unique(o))
    <2>1. mem' = fgoRCInc(mem, <<p>>)
      BY <1>1, <1>5
    <2> HIDE DEF p
    <2> QED
      BY <1>1, <1>3, <2>1, IncStep
  <1> QED
    BY <1>4, <1>5

(* A view begins, or ends. *)
LEMMA ReadFieldStep == ASSUME BufInv, NEW s \in Slot, ReadField(s) PROVE BufInv' /\ Shrunk(mem, mem')
  <1> DEFINE o == loc[s]
             b == mem.fld[o]
  <1>1. o \in Obj /\ b # Nil /\ view' = [slot |-> s, buf |-> b] /\ UNCHANGED <<mem, loc, tok, dup, made, glob, out>>
    BY DEF ReadField
  <1>2. Sound(mem, Ext, Loose, glob, ViewedObj, view.buf, GcReach) /\ FrameExact
    BY DEF BufInv
  <1>3. b \in Buf /\ b \in Owned(mem)
    BY <1>1, <1>2 DEF Sound, MemExact, FieldsExact, Mem
  <1>4. view'.buf = b /\ ViewedObj' = o
    BY <1>1 DEF ViewedObj, NoView
  <1>5. Ext[o] > 0
    BY <1>1, KnownRefs
  <1> HIDE DEF o, b
  <1>6. Sound(mem, Ext, Loose, glob, o, b, GcReach)
    <2>1. mem.buf[b] # "handed"
      BY <1>3 DEF Owned
    <2>2. GcSafe(mem, glob, b, GcReach)
      BY <1>2, <2>1 DEF Sound, GcSafe
    <2>3. ViewHeld(mem, Ext, o, b)
      BY <1>1, <1>3, <1>5 DEF ViewHeld, o, b
    <2> QED
      BY <1>2, <2>2, <2>3 DEF Sound
  <1>7. FrameExact' /\ Ext' = Ext /\ Loose' = Loose
    BY <1>1, <1>2, <1>3, LooseStays DEF FrameExact
  <1>8. Sound(mem', Ext', Loose', glob', ViewedObj', view'.buf, GcReach)
    BY <1>1, <1>4, <1>6, <1>7
  <1> QED
    BY <1>1, <1>7, <1>8, InvNext DEF Shrunk

(* Memory stays sound when the view ends. *)
LEMMA NoViewSound ==
    ASSUME NEW m, NEW ext, NEW E, NEW g, NEW p, NEW b, NEW X, Sound(m, ext, E, g, p, b, X)
    PROVE  Sound(m, ext, E, g, Nil, Nil, X)
  BY Names DEF Sound, GcSafe, ViewHeld

(* A view ends. *)
LEMMA EndViewStep == ASSUME BufInv, EndView PROVE BufInv' /\ Shrunk(mem, mem')
  <1>1. view' = NoView /\ UNCHANGED <<mem, loc, tok, dup, made, glob, out>>
    BY DEF EndView
  <1>2. Sound(mem, Ext, Loose, glob, ViewedObj, view.buf, GcReach) /\ FrameExact
    BY DEF BufInv
  <1>3. view'.buf = Nil /\ ViewedObj' = Nil
    BY <1>1 DEF ViewedObj, NoView
  <1>4. Sound(mem, Ext, Loose, glob, Nil, Nil, GcReach)
    BY <1>2, NoViewSound
  <1>5. FrameExact' /\ Ext' = Ext /\ Loose' = Loose
    BY <1>1, <1>2, LooseStays DEF FrameExact
  <1>6. Sound(mem', Ext', Loose', glob', ViewedObj', view'.buf, GcReach)
    BY <1>1, <1>3, <1>4, <1>5
  <1> QED
    BY <1>1, <1>5, <1>6, InvNext DEF Shrunk

(* A panic gives back what the frame has. *)
LEMMA ReleaseFrameStep == ASSUME BufInv, "build" \notin Race, fgoRCReleaseFrame PROVE BufInv' /\ Shrunk(mem, mem')
  <1> DEFINE E == Loose
             F == {}
             B == {dup}
             ext == Ext
             new == Ext'
             n == fgoRCDec(mem, loc)
             D == Dying(mem, loc)
             f == fgoBufFree(n, B)
  <1>1. /\ mem' = IF tok = Nil THEN f ELSE [f EXCEPT !.st[tok] = "none"]
        /\ loc' = [s \in Slot |-> Nil] /\ tok' = Nil /\ dup' = Nil /\ made' = Nil /\ view' = NoView
        /\ glob' = glob /\ out' = out /\ made = Nil
    BY DEF fgoRCReleaseFrame, FrameBufs
  <1>2. FrameExact /\ Sound(mem, ext, E, glob, Nil, Nil, GcReach)
    <2>1. Sound(mem, Ext, Loose, glob, ViewedObj, view.buf, GcReach) /\ FrameExact
      BY DEF BufInv
    <2> QED
      BY <2>1, NoViewSound
  <1>3. /\ IsFiniteSet(DOMAIN loc) /\ \A x \in Obj : Occ(loc, x) <= ext[x]
        /\ new = [x \in Obj |-> ext[x] - Occ(loc, x)]
    <2>1. IsFiniteSet(DOMAIN loc)
      BY <1>2, Names DEF FrameExact
    <2>2. \A x \in Obj : Occ(loc, x) \in Nat /\ Occ(<<>>, x) = 0
      BY <2>1, OccType, EmptyNone
    <2>3. \A x \in Obj : Occ(loc', x) = 0
      <3>1. \A x \in Obj : x \notin ToSet(loc')
        BY <1>1, Names DEF ToSet
      <3> QED
        BY <3>1, OccNone
    <2>4. Made = <<>> /\ Made' = <<>>
      BY <1>1 DEF Made
    <2>5. ext = [x \in Obj |-> Occ(loc, x) + Occ(<<>>, x)] /\ new = [x \in Obj |-> Occ(loc', x) + Occ(<<>>, x)]
      BY <2>4 DEF Ext
    <2> HIDE DEF ext, new
    <2>6. \A x \in Obj : ext[x] = Occ(loc, x) /\ Occ(loc', x) + Occ(<<>>, x) = ext[x] - Occ(loc, x)
      BY <2>2, <2>3, <2>5
    <2> QED
      BY <2>1, <2>2, <2>5, <2>6
  <1>4. B \cap Buf \subseteq E /\ F = E \ B
    BY <1>1, Names DEF Loose
  <1> HIDE DEF E, F, B, ext, new
  <1>5. /\ Sound(n, new, E, glob, Nil, Nil, GcReach)
        /\ D \subseteq Counted(mem)
        /\ \A x \in Obj : /\ n.st[x] = (IF x \in D THEN "none" ELSE mem.st[x])
                          /\ Elems(n, x) = (IF x \in D THEN <<>> ELSE Elems(mem, x))
    BY <1>2, <1>3, DecSound
  <1> HIDE DEF n, D
  <1>6. Sound(f, new, F, glob, Nil, Nil, GcReach) /\ FreeKeeps(n, f, B)
    BY <1>4, <1>5, FreeSound
  <1> HIDE DEF f
  <1>7. \A x \in Obj : f.st[x] = "token" <=> tok = x
    BY <1>2, <1>5, <1>6 DEF FreeKeeps, FrameExact, Counted
  <1>8. /\ Sound(mem', new, F, glob, Nil, Nil, GcReach)
        /\ \A x \in Obj : mem'.st[x] # "token"
        /\ \A x \in Obj : Elems(mem', x) = Elems(f, x)
    <2>1. CASE tok = Nil
      BY <1>1, <1>6, <1>7, <2>1, Names
    <2>2. CASE tok # Nil
      <3>1. tok \in Obj /\ f.st[tok] = "token" /\ mem' = [f EXCEPT !.st[tok] = "none"]
        BY <1>1, <1>2, <1>7, <2>2 DEF FrameExact
      <3>2. /\ Sound(mem', new, F, glob, Nil, Nil, GcReach)
            /\ mem'.els = f.els /\ \A r \in Obj : mem'.st[r] = IF r = tok THEN "none" ELSE f.st[r]
            /\ \A r \in Obj : Elems(mem', r) = Elems(f, r)
        BY <1>6, <3>1, MarkSound
      <3> QED
        BY <1>7, <3>2
    <2> QED
      BY <2>1, <2>2
  <1>9. \A x \in Obj : Elems(mem', x) = Elems(mem, x) \/ Elems(mem', x) = <<>>
    BY <1>5, <1>6, <1>8 DEF FreeKeeps
  <1>10. FrameExact'
    <2>1. \A x \in Obj : Heap \notin ToSet(Elems(mem', x))
      BY <1>2, <1>9, NoElems DEF FrameExact
    <2>2. \A x \in Obj : mem'.st[x] = "token" <=> tok' = x
      BY <1>1, <1>8, Names
    <2> QED
      BY <1>1, <1>2, <2>1, <2>2 DEF FrameExact
  <1>11. Sound(mem', Ext', Loose', glob', ViewedObj', view'.buf, GcReach)
    <2>1. ViewedObj' = Nil /\ view'.buf = Nil /\ F = Loose'
      BY <1>1 DEF ViewedObj, NoView, F, Loose
    <2> QED
      BY <1>1, <1>8, <2>1 DEF new
  <1>12. Shrunk(mem, mem')
    BY <1>9, NoElems DEF Shrunk
  <1> QED
    BY <1>10, <1>11, <1>12, InvNext

(* The rest of the program stores into an object it was handed. *)
LEMMA GcStoreStep == ASSUME BufInv, "large" \notin Race, NEW o \in Obj, GcStore(o) PROVE BufInv' /\ Shrunk(mem, mem')
  <1> DEFINE q == <<>>
  <1>1. mem' = [mem EXCEPT !.gcs[o] = q] /\ UNCHANGED <<frame, out>> /\ glob' = glob /\ ViewOf # "leaked"
    BY DEF GcStore
  <1>2. Sound(mem, Ext, Loose, glob, ViewedObj, view.buf, GcReach) /\ FrameExact
    BY DEF BufInv
  <1>3. view.buf # Nil /\ mem.buf[view.buf] = "leaked" => ViewedObj # o
    BY <1>1 DEF ViewOf, NoView
  <1>4. q \in Seq(Ref) /\ ToSet(q) \cap Obj \subseteq GcReach
    BY NoElems
  <1> HIDE DEF q
  <1>5. /\ Sound(mem', Ext, Loose, glob, ViewedObj, view.buf, GcReach)
        /\ mem'.st = mem.st /\ mem'.els = mem.els /\ \A r \in Obj : Elems(mem', r) = Elems(mem, r)
    BY <1>1, <1>2, <1>3, <1>4, GcsSound
  <1>6. \A x \in Obj : Heap \notin ToSet(Elems(mem', x))
    BY <1>2, <1>5 DEF FrameExact
  <1>7. BufInv'
    BY <1>1, <1>5, <1>6, FrameStays
  <1> QED
    BY <1>5, <1>7 DEF Shrunk

(* The sweeper frees an object or a buffer. *)
LEMMA SweepObjStep == ASSUME BufInv, NEW o \in Obj, SweepObj(o) PROVE BufInv' /\ Shrunk(mem, mem')
  <1>1. /\ mem' = [mem EXCEPT !.st[o] = "none", !.typ[o] = "data", !.gcs[o] = <<>>]
        /\ o \in Obj \ GcReach /\ mem.st[o] = "handed" /\ UNCHANGED <<frame, out>> /\ glob' = glob
    BY DEF SweepObj
  <1>2. Sound(mem, Ext, Loose, glob, ViewedObj, view.buf, GcReach) /\ FrameExact
    BY DEF BufInv
  <1>3. /\ Sound(mem', Ext, Loose, glob, ViewedObj, view.buf, GcReach)
        /\ mem'.els = mem.els /\ \A r \in Obj : mem'.st[r] = IF r = o THEN "none" ELSE mem.st[r]
        /\ \A r \in Obj : Elems(mem', r) = Elems(mem, r)
    <2>1. Sweeps(mem, o, GcReach, mem')
      BY <1>1 DEF Sweeps
    <2> QED
      BY <1>2, <2>1, SweepObjSound
  <1>4. \A x \in Obj : Heap \notin ToSet(Elems(mem', x))
    BY <1>2, <1>3 DEF FrameExact
  <1>5. \A x \in Obj : mem'.st[x] = "token" <=> mem.st[x] = "token"
    BY <1>1, <1>3
  <1>6. BufInv'
    BY <1>1, <1>3, <1>4, <1>5, FrameStays
  <1> QED
    BY <1>3, <1>6 DEF Shrunk

(* The sweeper frees a buffer. *)
LEMMA SweepBufStep == ASSUME BufInv, NEW c \in Buf, SweepBuf(c) PROVE BufInv' /\ Shrunk(mem, mem')
  <1>1. /\ mem' = fgoBufFree(mem, {c}) /\ mem.buf[c] = "handed" /\ c # view.buf
        /\ UNCHANGED <<frame, out>> /\ glob' = glob
    BY DEF SweepBuf
  <1>2. Sound(mem, Ext, Loose, glob, ViewedObj, view.buf, GcReach) /\ FrameExact
    BY DEF BufInv
  <1>3. /\ Sound(mem', Ext, Loose, glob, ViewedObj, view.buf, GcReach)
        /\ mem'.st = mem.st /\ \A e \in Loose : mem'.els[e] = mem.els[e]
        /\ \A r \in Obj : Elems(mem', r) = Elems(mem, r)
    BY <1>1, <1>2, SweepBufSound
  <1>4. \A x \in Obj : Heap \notin ToSet(Elems(mem', x))
    BY <1>2, <1>3 DEF FrameExact
  <1>5. BufInv'
    BY <1>1, <1>3, <1>4, FrameStays
  <1> QED
    BY <1>3, <1>5 DEF Shrunk

-----------------------------------------------------------------------------
(* A store keeps out of the way of views, copies are in the arena, and no   *)
(* panic comes between the building of a slice and its store.               *)
Kept == Race \cap {"large", "overwrite", "build"} = {}

(* Every step keeps the invariant, and takes references from fields only,   *)
(* or is a store that makes no cycle where those are left out.              *)
Keeping ==
    BufInv' /\ \/ Shrunk(mem, mem')
               \/ \E o \in Obj, q \in Seq(Ref) :
                     Refilled(mem, mem', o, q) /\ ("cycle" \in Race \/ o \notin Reach(mem, ToSet(q) \cap Obj))

(* Each step. *)
LEMMA BufNext == ASSUME BufInv, Kept, [Next]_vars PROVE Keeping
  <1>1. "large" \notin Race /\ "overwrite" \notin Race /\ "build" \notin Race
    BY DEF Kept
  <1>2. CASE UNCHANGED vars
    <2>1. Sound(mem, Ext, Loose, glob, ViewedObj, view.buf, GcReach) /\ FrameExact
      BY DEF BufInv
    <2>2. UNCHANGED <<frame, out>> /\ mem' = mem /\ glob' = glob
      BY <1>2 DEF vars, frame
    <2>3. \A x \in Obj : Heap \notin ToSet(Elems(mem', x))
      BY <2>1, <2>2 DEF FrameExact
    <2> QED
      BY <2>1, <2>2, <2>3, FrameStays DEF Keeping, Shrunk
  <1>3. ASSUME NEW o \in Local, NEW c \in {made, Nil}, fgoPtrsPut(o, c) PROVE Keeping
    <2> DEFINE q == IF c = Nil THEN <<>> ELSE mem.els[c]
    <2>4. q = IF c = Nil THEN <<>> ELSE mem.els[c]
      OBVIOUS
    <2> HIDE DEF q
    <2>1. q \in Seq(Ref)
      BY <2>4, UnderWay
    <2>2. /\ BufInv'
          /\ \/ Shrunk(mem, mem')
             \/ Refilled(mem, mem', o, q) /\ ("cycle" \in Race \/ o \notin Reach(mem, ToSet(q) \cap Obj))
      BY <1>1, <1>3, <2>4, PutStep
    <2>3. Refilled(mem, mem', o, q) => o \in Obj
      BY DEF Refilled, Counted
    <2> QED
      BY <2>1, <2>2, <2>3 DEF Keeping
  <1>4. ASSUME NEW s \in Slot, NEW t \in {"ptrs", "data"}, fgoRCNewAt(s, t) PROVE Keeping
    BY <1>4, NewStep DEF Keeping
  <1>5. ASSUME NEW s \in Slot, NEW d \in Slot, CopyRef(s, d) PROVE Keeping
    BY <1>5, CopyStep DEF Keeping
  <1>6. ASSUME NEW s \in Slot, DropRef(s) PROVE Keeping
    BY <1>6, DropRefStep DEF Keeping
  <1>7. ASSUME NEW s \in Slot, fgoRCDropReuse(s) PROVE Keeping
    BY <1>7, DropReuseStep DEF Keeping
  <1>8. ASSUME NEW s \in Slot, Escape(s) PROVE Keeping
    BY <1>8, EscapeStep DEF Keeping
  <1>9. ASSUME NEW s \in Slot, NEW o \in Obj, TakeTraced(s, o) PROVE Keeping
    BY <1>9, TakeTracedStep DEF Keeping
  <1>10. ASSUME NEW s \in Slot, fgoStrSet(s) PROVE Keeping
    BY <1>1, <1>10, StrSetStep DEF Keeping
  <1>11. ASSUME NEW s \in Slot, fgoStrDup(s) PROVE Keeping
    BY <1>11, StrDupStep DEF Keeping
  <1>12. ASSUME NEW s \in Slot, StrPutDup(s) PROVE Keeping
    BY <1>1, <1>12, StrPutDupStep DEF Keeping
  <1>13. ASSUME NEW s \in Slot, ReadField(s) PROVE Keeping
    BY <1>13, ReadFieldStep DEF Keeping
  <1>14. ASSUME NEW s \in Slot, NEW i \in 1 .. MaxLen, LoadElem(i, s) PROVE Keeping
    BY <1>14, LoadStep DEF Keeping
  <1>15. ASSUME NEW s \in Slot, NEW i \in 1 .. MaxLen, NEW d \in Slot, fgoPtrsTake(s, i, d) PROVE Keeping
    BY <1>15, TakeStep DEF Keeping
  <1>16. CASE EndView
    BY <1>16, EndViewStep DEF Keeping
  <1>17. CASE Clone
    BY <1>1, <1>17, CloneStep DEF Keeping
  <1>18. CASE fgoRCReleaseFrame
    BY <1>1, <1>18, ReleaseFrameStep DEF Keeping
  <1>19. CASE Forget
    BY <1>19, ForgetStep DEF Keeping
  <1>20. ASSUME NEW o \in Obj, GcStore(o) PROVE Keeping
    BY <1>1, <1>20, GcStoreStep DEF Keeping
  <1>21. ASSUME NEW o \in Obj, SweepObj(o) PROVE Keeping
    BY <1>21, SweepObjStep DEF Keeping
  <1>22. ASSUME NEW b \in Buf, SweepBuf(b) PROVE Keeping
    BY <1>22, SweepBufStep DEF Keeping
  <1>24. ASSUME NEW q \in Built, fgoPtrsMake(q) PROVE Keeping
    BY <1>24, MakeStep DEF Keeping
  <1>23. CASE Next
    BY <1>3, <1>4, <1>5, <1>6, <1>7, <1>8, <1>9, <1>10, <1>11, <1>12, <1>13, <1>14, <1>15,
       <1>16, <1>17, <1>18, <1>19, <1>20, <1>21, <1>22, <1>23, <1>24 DEF Next
  <1> QED
    BY <1>2, <1>23

(* So the invariant always holds. *)
LEMMA BufAlways == ASSUME Kept PROVE Spec => []BufInv
  <1>1. Init => BufInv
    BY InvInit
  <1>2. BufInv /\ [Next]_vars => BufInv'
    BY BufNext DEF Keeping
  <1> QED
    BY <1>1, <1>2, PTL DEF Spec

(***************************************************************************)
(* The states of nogc memory, stack slots, token, view and GC memory keep   *)
(* their types: every fgoBufHeader read is one that was written.            *)
(***************************************************************************)
THEOREM BufTypes == ASSUME Kept PROVE Spec => []TypeOK
  <1>1. BufInv => TypeOK
    BY DEF BufInv, FrameExact, Sound, MemExact, TypeOK
  <1> QED
    BY <1>1, BufAlways, PTL

(***************************************************************************)
(* The counts fgoRCInc and fgoRCDec keep are the references there are, in   *)
(* stack slots, in a slice being built and in the fields of counted         *)
(* objects, and every buffer has one owner: stores copy, hand-offs and      *)
(* releases give up both.  A panic may come at any time but between the     *)
(* building of a slice and its store, where fgoRCReleaseFrame loses the     *)
(* slice's buffer and references.                                           *)
(***************************************************************************)
THEOREM CountsExact == ASSUME Kept PROVE Spec => []RefsExact
  <1>1. ASSUME BufInv PROVE RefsExact
    <2>0. Sound(mem, Ext, Loose, glob, ViewedObj, view.buf, GcReach) /\ FrameExact
      BY <1>1 DEF BufInv
    <2>1. ASSUME NEW x \in Obj PROVE mem.cnt[x] = Occ(loc, x) + Occ(Made, x) + Held(mem, Counted(mem), x)
      BY <2>0, HeldCounted DEF Sound, MemExact, CountSum, Ext
    <2>2. ASSUME NEW b \in Buf
          PROVE  Cardinality({o \in Counted(mem) : mem.fld[o] = b}) + Occ(<<dup>>, b) + Occ(<<made>>, b)
                   = IF b \in Owned(mem) THEN 1 ELSE 0
      <3>5. /\ Occ(<<dup>>, b) = (IF dup = b THEN 1 ELSE 0) /\ Occ(<<made>>, b) = (IF made = b THEN 1 ELSE 0)
            /\ ~(dup = b /\ made = b) /\ (b \in Loose <=> dup = b \/ made = b)
        BY <2>0, OccOne, Names DEF FrameExact, Loose
      <3> DEFINE H == {o \in Counted(mem) : mem.fld[o] = b}
      <3>1. H = {o \in Obj : mem.fld[o] = b} /\ b # Nil
        BY <2>0, Names DEF Sound, MemExact, FieldsExact, Counted
      <3>2. b \in Owned(mem) <=> b \in Loose \/ \E o \in Obj : mem.fld[o] = b
        BY <2>0, <3>1 DEF Sound, MemExact, FieldsExact
      <3>3. CASE \E o \in Obj : mem.fld[o] = b
        <4>1. PICK o \in Obj : mem.fld[o] = b
          BY <3>3
        <4>2. H = {o} /\ b \notin Loose
          BY <2>0, <3>1, <4>1 DEF Sound, MemExact, FieldsExact
        <4>3. Cardinality(H) = 1
          BY <4>2, FS_Singleton
        <4> QED
          BY <3>2, <3>3, <3>5, <4>2, <4>3
      <3>4. CASE ~\E o \in Obj : mem.fld[o] = b
        <4>1. H = {}
          BY <3>1, <3>4
        <4>2. Cardinality(H) = 0
          BY <4>1, FS_EmptySet
        <4> QED
          BY <3>2, <3>4, <3>5, <4>2
      <3> QED
        BY <3>3, <3>4
    <2> QED
      BY <2>1, <2>2 DEF RefsExact
  <1> QED
    BY <1>1, BufAlways, PTL

(***************************************************************************)
(* Nothing that can be read is freed: no object or buffer that a stack      *)
(* slot, a slice being built, a field, a view or GC memory refers to, where *)
(* no read that outlives its frame is of a buffer outside the arena.        *)
(***************************************************************************)
THEOREM NothingDangles == ASSUME Kept PROVE Spec => []NoDangling
  <1>1. ASSUME BufInv PROVE NoDangling
    <2>0. /\ Sound(mem, Ext, Loose, glob, ViewedObj, view.buf, GcReach) /\ FrameExact
          /\ Counted(mem) \subseteq Obj
      BY <1>1 DEF BufInv, Counted
    <2>1. \A x \in Known : mem.st[x] \in {"counted", "handed"}
      BY <1>1, KnownRefs
    <2>2. \A s \in Slot : In(<<loc[s]>>, {"counted", "handed"})
      <3>1. \A s \in Slot : ToSet(<<loc[s]>>) = {loc[s]}
        BY DEF ToSet
      <3> QED
        BY <1>1, <3>1, KnownRefs DEF In
    <2>3. \A o \in Counted(mem) : In(Elems(mem, o), {"counted", "handed"}) /\ Heap \notin ToSet(Elems(mem, o))
      <3>1. \A o \in Obj : ToSet(Elems(mem, o)) \cap Obj \subseteq Known
        BY <1>1, KnownRefs
      <3> QED
        BY <2>0, <2>1, <3>1 DEF In, FrameExact
    <2>8. In(Made, {"counted", "handed"})
      <3>1. ToSet(Made) \cap Obj \subseteq Known
        BY <1>1, KnownRefs
      <3> QED
        BY <2>1, <3>1 DEF In
    <2>4. \A o \in GcReach : mem.st[o] = "handed" => In(mem.gcs[o], {"handed"})
      BY <2>0 DEF Sound, GcSafe, In
    <2>5. view # NoView => ViewOf # "free" /\ In(mem.els[view.buf], {"counted", "handed"})
      <3>1. view # NoView => mem.buf[view.buf] # "free" /\ ToSet(mem.els[view.buf]) \cap Obj \subseteq Known
        BY <1>1, KnownRefs
      <3> QED
        BY <2>1, <3>1 DEF ViewOf, In
    <2>6. \A o \in glob : mem.st[o] = "handed"
      BY <2>0 DEF Sound, GcSafe
    <2>7. out = {}
      BY <2>0 DEF FrameExact
    <2> QED
      BY <2>2, <2>3, <2>4, <2>5, <2>6, <2>7, <2>8 DEF NoDangling
  <1> QED
    BY <1>1, BufAlways, PTL

-----------------------------------------------------------------------------
(* References from fields make no cycle: of any objects, one is in none of  *)
(* the others' fields.                                                      *)
Acyclic(m) ==
    \A D \in SUBSET Obj : D # {} => \E x \in D : \A o \in D : x \notin ToSet(Elems(m, o))

(* Fewer references make no cycle. *)
LEMMA ShrunkAcyclic == ASSUME NEW m, NEW n, Acyclic(m), Shrunk(m, n) PROVE Acyclic(n)
  <1> SUFFICES ASSUME NEW D \in SUBSET Obj, D # {}
               PROVE  \E x \in D : \A o \in D : x \notin ToSet(Elems(n, o))
    BY DEF Acyclic
  <1>1. PICK x \in D : \A o \in D : x \notin ToSet(Elems(m, o))
    BY DEF Acyclic
  <1> QED
    BY <1>1 DEF Shrunk

(* A slice that does not reach the object takes no part in one. *)
LEMMA RefilledAcyclic ==
    ASSUME BufInv, Acyclic(mem), NEW n, NEW o \in Obj, NEW q, Refilled(mem, n, o, q), o \notin Reach(mem, ToSet(q) \cap Obj)
    PROVE  Acyclic(n)
  <1> DEFINE R == Reach(mem, ToSet(q) \cap Obj)
             C == Counted(mem)
  <1>1. /\ R \subseteq C /\ C \subseteq Obj /\ (ToSet(q) \cap Obj) \cap C \subseteq R /\ o \in C \ R
        /\ \A r \in R : ToSet(Elems(mem, r)) \cap C \subseteq R
        /\ ToSet(Elems(n, o)) \subseteq ToSet(q)
        /\ \A x \in Obj \ {o} : ToSet(Elems(n, x)) \subseteq ToSet(Elems(mem, x))
    BY ReachIs DEF Refilled, Counted
  <1>2. \A x \in Obj \ C : ToSet(Elems(mem, x)) = {}
    <2>1. \A x \in Obj \ C : Elems(mem, x) = <<>>
      BY ElemsType DEF BufInv, Sound
    <2> QED
      BY <2>1, NoElems
  <1> HIDE DEF R, C
  <1> SUFFICES ASSUME NEW D \in SUBSET Obj, D # {}
               PROVE  \E x \in D : \A r \in D : x \notin ToSet(Elems(n, r))
    BY DEF Acyclic
  <1>3. CASE o \notin D
    <2>1. PICK x \in D : \A r \in D : x \notin ToSet(Elems(mem, r))
      BY DEF Acyclic
    <2> QED
      BY <1>1, <1>3, <2>1
  <1>4. CASE o \in D
    <2> DEFINE U == (D \cap C) \ R
    <2>1. U \in SUBSET Obj /\ U # {}
      BY <1>1, <1>4
    <2>2. PICK x \in U : \A r \in U : x \notin ToSet(Elems(mem, r))
      BY <2>1 DEF Acyclic
    <2>3. \A r \in D : x \notin ToSet(Elems(n, r))
      BY <1>1, <1>2, <2>1, <2>2
    <2> QED
      BY <2>2, <2>3
  <1> QED
    BY <1>3, <1>4

(***************************************************************************)
(* A frame that has released all it owned, or lost it to a panic outside    *)
(* the building of a slice (fgoRCReleaseFrame), leaves nothing behind: no   *)
(* counted object, no owned buffer and no reuse token.  Here every excluded *)
(* order is left out, the one a panic leaks in among them.                  *)
(***************************************************************************)
THEOREM FrameLeavesNothing == ASSUME Race = {} PROVE Spec => []NothingLeft
  <1> DEFINE Inv == BufInv /\ Acyclic(mem)
  <1>1. Kept /\ "cycle" \notin Race
    BY DEF Kept
  <1>2. Init => Inv
    <2> SUFFICES ASSUME Init PROVE BufInv /\ Acyclic(mem)
      OBVIOUS
    <2>1. \A o \in Obj : Elems(mem, o) = <<>>
      BY DEF Init, Elems
    <2>2. Acyclic(mem)
      BY <2>1, NoElems DEF Acyclic
    <2> QED
      BY <2>2, InvInit
  <1>3. Inv /\ [Next]_vars => Inv'
    <2> SUFFICES ASSUME BufInv, Acyclic(mem), [Next]_vars PROVE BufInv' /\ Acyclic(mem')
      BY DEF Acyclic, Elems
    <2>1. Keeping
      BY <1>1, BufNext
    <2>2. CASE Shrunk(mem, mem')
      BY <2>1, <2>2, ShrunkAcyclic DEF Keeping
    <2>3. CASE \E o \in Obj, q \in Seq(Ref) : Refilled(mem, mem', o, q) /\ o \notin Reach(mem, ToSet(q) \cap Obj)
      BY <2>1, <2>3, RefilledAcyclic DEF Keeping
    <2> QED
      BY <1>1, <2>1, <2>2, <2>3 DEF Keeping
  <1>4. Inv => NothingLeft
    <2> SUFFICES ASSUME BufInv, Acyclic(mem), FrameEmpty
                 PROVE  Owned(mem) = {} /\ \A o \in Obj : mem.st[o] \notin {"counted", "token"}
      BY DEF NothingLeft
    <2>0. /\ Sound(mem, Ext, Loose, glob, ViewedObj, view.buf, GcReach) /\ FrameExact
          /\ Counted(mem) \in SUBSET Obj
      BY DEF BufInv, Counted
    <2>1. \A x \in Obj : Ext[x] = 0
      <3>1. \A x \in Obj : x \notin ToSet(loc)
        BY Names DEF FrameEmpty, ToSet
      <3>2. Made = <<>>
        BY DEF FrameEmpty, Made
      <3>3. \A x \in Obj : Occ(loc, x) = 0 /\ Occ(Made, x) = 0
        BY <3>1, <3>2, OccNone, EmptyNone
      <3> QED
        BY <3>3 DEF Ext
    <2>2. Counted(mem) = {}
      <3> SUFFICES ASSUME Counted(mem) # {} PROVE FALSE
        OBVIOUS
      <3>1. PICK x \in Counted(mem) : \A o \in Counted(mem) : x \notin ToSet(Elems(mem, o))
        BY <2>0 DEF Acyclic
      <3>2. x \in Obj /\ mem.cnt[x] > 0 /\ mem.cnt[x] = Held(mem, Counted(mem), x)
        <4>1. x \in Obj /\ mem.cnt[x] > 0 /\ mem.cnt[x] = Ext[x] + Held(mem, Obj, x)
          BY <2>0 DEF Sound, MemExact, CountSum, Counted
        <4>2. Held(mem, Counted(mem), x) = Held(mem, Obj, x)
          BY <2>0, HeldCounted DEF Sound
        <4>3. Held(mem, Obj, x) \in Nat
          BY <2>0, ElemsType, HeldType DEF Sound
        <4> QED
          BY <2>1, <4>1, <4>2, <4>3
      <3>3. Finite(mem)
        BY <2>0, ElemsType DEF Sound
      <3> HIDE DEF Finite
      <3>4. \E o \in Counted(mem) : x \in ToSet(Elems(mem, o))
        BY <2>0, <3>2, <3>3, HeldType
      <3> QED
        BY <3>1, <3>4
    <2>3. \A o \in Obj : mem.st[o] \notin {"counted", "token"}
      BY <2>0, <2>2, Names DEF Counted, FrameExact, FrameEmpty
    <2>4. Owned(mem) = {}
      <3>1. \A o \in Obj : mem.fld[o] = Nil
        BY <2>0, <2>3 DEF Sound, MemExact, FieldsExact
      <3> QED
        BY <2>0, <3>1 DEF Sound, MemExact, FieldsExact, FrameEmpty, Loose
    <2> QED
      BY <2>3, <2>4
  <1> QED
    BY <1>2, <1>3, <1>4, PTL DEF Spec
=============================================================================
