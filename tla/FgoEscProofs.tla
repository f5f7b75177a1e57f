---------------------------- MODULE FgoEscProofs ----------------------------
(* Theorems about the hand-off of nogc objects to the GC (FgoEsc).          *)
EXTENDS FgoEsc, Lemmas

(* Cycle numbers stay below the modulus at which the code's uint32 wraps. *)
LEMMA CycleFacts ==
    /\ 0 \in 0..CycMod-1
    /\ \A c \in 0..CycMod-1 : NextCycle(c) \in 0..CycMod-1
  BY ConstAssumption DEF NextCycle

(* fgoEscMark keeps the types of the stamps and of the queue. *)
LEMMA MarkType ==
    ASSUME TypeOK, NEW ps, fgoEscMark(ps)
    PROVE  mark' \in [Obj -> 0..CycMod-1] /\ grey' \subseteq Obj
  BY DEF TypeOK, fgoEscMark, Reached

(* fgoRCDec, with the release of all that dies with it, keeps the types. *)
LEMMA DecType ==
    ASSUME TypeOK, NEW o, fgoRCDec(o)
    PROVE  /\ st' \in [Obj -> {"none", "counted", "handed"}]
           /\ cnt' \in [Obj -> Int]
           /\ fld' \in [Obj -> Ref]
           /\ held' = held
  <1> DEFINE D == Dying(o)
  <1>1. \A x : Lost(x, D) \in Int
    BY DEF Lost
  <1> HIDE DEF D
  <1> QED
    BY <1>1 DEF TypeOK, fgoRCDec, D, Ref

(* fgoHandOne, or the lack of it, keeps the types. *)
LEMMA HandType ==
    ASSUME TypeOK, NEW o \in Obj, fgoHandOne(o) \/ NoHand
    PROVE  /\ st' \in [Obj -> {"none", "counted", "handed"}]
           /\ held' \in [Obj -> BOOLEAN]
           /\ rec' \subseteq Obj
           /\ mark' \in [Obj -> 0..CycMod-1]
  BY ZenonT(30) DEF TypeOK, fgoHandOne, NoHand

(* A goroutine that is in no hand-off has a well-typed call state. *)
LEMMA IdleType == Idle \in HandState
  BY DEF Idle, HandState, HandCall, Ref

(* A call of fgoRCHandoff keeps the type invariant. *)
LEMMA CallType ==
    ASSUME TypeOK, NEW g \in G, NEW objs \in Seq(Obj), objs # <<>>,
           NEW then \in {"none", "global", "local", "weak", "field"},
           NEW s \in Slot, NEW base \in Ref,
           CallHandoff(g, objs, then, s, base)
    PROVE  TypeOK'
  <1>1. Head(objs) \in Obj /\ Tail(objs) \in Seq(Obj)
    OBVIOUS
  <1> DEFINE p == Head(objs)
             w == IF st[p] = "counted" THEN <<p>> ELSE <<>>
             h == [pc |-> "hand", objs |-> Tail(objs), work |-> w,
                   cur |-> Nil, then |-> then, slot |-> s, base |-> base]
  <1>2. w \in Seq(Obj)
    BY <1>1
  <1> HIDE DEF w
  <1>3. h \in HandState
    BY <1>1, <1>2 DEF HandState, HandCall, Ref
  <1>4. hand' \in [G -> HandState]
    BY <1>3 DEF CallHandoff, TypeOK, w
  <1>5. fgoHandOne(p) \/ NoHand
    BY DEF CallHandoff
  <1>6. /\ st' \in [Obj -> {"none", "counted", "handed"}]
        /\ held' \in [Obj -> BOOLEAN]
        /\ rec' \subseteq Obj
        /\ mark' \in [Obj -> 0..CycMod-1]
    BY <1>1, <1>5, HandType
  <1>7. UNCHANGED <<cnt, fld, refVars, tabNil, lock, gcVars, grey, swVars>>
    BY DEF CallHandoff
  <1> QED
    BY <1>4, <1>6, <1>7 DEF TypeOK, refVars, gcVars, swVars

(* The type invariant holds when the runtime starts. *)
LEMMA TypeInit == Init => TypeOK
  <1> SUFFICES ASSUME Init PROVE TypeOK
    OBVIOUS
  <1>1. hand \in [G -> HandState]
    BY IdleType DEF Init
  <1>2. /\ held \in [Obj -> BOOLEAN] /\ tabNil \in BOOLEAN /\ marking \in BOOLEAN
        /\ st \in [Obj -> {"none", "counted", "handed"}]
        /\ fld \in [Obj -> Ref] /\ loc \in [G -> [Slot -> Ref]]
        /\ gl \in [G -> Ref] /\ glob \in Ref /\ weak \in Ref
    BY DEF Init, Ref
  <1>3. /\ cnt \in [Obj -> Int] /\ mark \in [Obj -> 0..CycMod-1]
        /\ cyc \in 0..CycMod-1 /\ target \in 0..CycMod-1
        /\ swept \in 0..CycMod-1 /\ scyc \in 0..CycMod-1
    BY CycleFacts DEF Init
  <1>4. /\ lock \in {NoLock, "marker", "sweeper"}
        /\ spc \in {"parked", "sweep", "rebuild", "free"}
        /\ rec \subseteq Obj /\ grey \subseteq Obj /\ roots \subseteq Jobs
        /\ todo \subseteq Obj /\ dropped \subseteq Obj
    BY DEF Init
  <1> QED
    BY <1>1, <1>2, <1>3, <1>4 DEF TypeOK

(* Nogc code keeps the type invariant. *)
LEMMA NogcType ==
    ASSUME TypeOK, NEW g \in G, Nogc(g)
    PROVE  TypeOK'
  <1>1. PICK s \in Slot :
          \/ DropLocal(g, s)
          \/ TakeTraced(g, s)
          \/ \E t \in Slot : LoadField(g, s, t) \/ fgoRCStoreGC(g, s, t)
          \/ \E t \in Slot, o \in Obj : Construct(g, s, t, o)
          \/ \E then \in Escapes : Escape(g, s, then)
    BY DEF Nogc
  <1>2. CASE DropLocal(g, s)
    <2>1. fgoRCDec(loc[g][s])
      BY <1>2 DEF DropLocal
    <2>2. /\ st' \in [Obj -> {"none", "counted", "handed"}]
          /\ cnt' \in [Obj -> Int]
          /\ fld' \in [Obj -> Ref]
          /\ held' = held
      BY <2>1, DecType
    <2> QED
      BY <1>2, <2>2 DEF TypeOK, DropLocal, SetLoc, Ref, escVars, gcVars, swVars
  <1>3. CASE TakeTraced(g, s)
    BY <1>3 DEF TypeOK, TakeTraced, SetLoc, fgoRCInc, Ref, escVars, gcVars, swVars
  <1>4. CASE \E t \in Slot : LoadField(g, s, t) \/ fgoRCStoreGC(g, s, t)
    <2>1. PICK t \in Slot : LoadField(g, s, t) \/ fgoRCStoreGC(g, s, t)
      BY <1>4
    <2>2. CASE LoadField(g, s, t)
      BY <2>2 DEF TypeOK, LoadField, SetLoc, fgoRCInc, Ref, escVars, gcVars, swVars
    <2>3. CASE fgoRCStoreGC(g, s, t)
      <3> DEFINE ps == <<loc[g][s], loc[g][t]>>
      <3>1. loc[g][s] \in Obj /\ loc[g][t] \in Obj
        BY <2>3 DEF fgoRCStoreGC, TypeOK, Ref
      <3>2. ps \in Seq(Obj) /\ ps # <<>>
        BY <3>1
      <3>3. CallHandoff(g, ps, "field", t, loc[g][s])
        BY <2>3 DEF fgoRCStoreGC
      <3> HIDE DEF ps
      <3> QED
        BY <3>1, <3>2, <3>3, CallType DEF Ref
    <2> QED
      BY <2>1, <2>2, <2>3
  <1>5. CASE \E t \in Slot, o \in Obj : Construct(g, s, t, o)
    <2>1. PICK t \in Slot, o \in Obj : Construct(g, s, t, o)
      BY <1>5
    <2>2. loc' \in [G -> [Slot -> Ref]]
      BY <2>1 DEF TypeOK, Construct, Ref
    <2> QED
      BY <2>1, <2>2 DEF TypeOK, Construct, Ref, escVars, gcVars, swVars
  <1>6. CASE \E then \in Escapes : Escape(g, s, then)
    <2>1. PICK then \in Escapes : Escape(g, s, then)
      BY <1>6
    <2>2. loc[g][s] \in Obj /\ CallHandoff(g, <<loc[g][s]>>, then, s, Nil)
      BY <2>1 DEF Escape, TypeOK, Ref
    <2>3. then \in {"none", "global", "local", "weak", "field"}
      BY ConstAssumption DEF EscapeKinds
    <2>4. <<loc[g][s]>> \in Seq(Obj) /\ <<loc[g][s]>> # <<>>
      BY <2>2
    <2> QED
      BY <2>2, <2>3, <2>4, CallType DEF Ref
  <1> QED
    BY <1>1, <1>2, <1>3, <1>4, <1>5, <1>6
(* The steps inside a hand-off, and the store it is for, keep the type invariant. *)
LEMMA HandoffType ==
    ASSUME TypeOK, NEW g \in G, Handoff(g)
    PROVE  TypeOK'
  <1>0. hand[g] \in HandState
    BY DEF TypeOK
  <1>1. CASE HandObj(g)
    <2>1. /\ hand[g].objs \in Seq(Obj) /\ hand[g].objs # <<>>
          /\ hand[g].then \in {"none", "global", "local", "weak", "field"}
          /\ hand[g].slot \in Slot /\ hand[g].base \in Ref
      BY <1>0, <1>1 DEF HandState, HandCall, HandObj
    <2>2. CallHandoff(g, hand[g].objs, hand[g].then, hand[g].slot, hand[g].base)
      BY <1>1 DEF HandObj
    <2> QED
      BY <2>1, <2>2, CallType
  <1>2. CASE HandField(g)
    <2> DEFINE w == hand[g].work
               x == w[Len(w)]
               c == fld[x]
               rest == SubSeq(w, 1, Len(w) - 1)
               fresh == c # Nil /\ st[c] = "counted"
               w2 == IF fresh THEN Append(rest, c) ELSE rest
    <2>1. w \in Seq(Obj) /\ w # <<>>
      BY <1>0, <1>2 DEF HandState, HandCall, HandField
    <2>2. x \in Obj /\ rest \in Seq(Obj)
      BY <2>1
    <2>3. c \in Ref
      BY <2>2 DEF TypeOK
    <2>4. w2 \in Seq(Obj)
      BY <2>2, <2>3 DEF Ref
    <2>5. hand' = [hand EXCEPT ![g].work = w2, ![g].cur = c,
                               ![g].pc = IF c = Nil THEN "hand" ELSE "dec"]
      BY <1>2 DEF HandField
    <2>6. (fgoHandOne(c) /\ c \in Obj) \/ NoHand
      BY <1>2, <2>3 DEF HandField, Ref
    <2> HIDE DEF w2, c
    <2>7. hand' \in [G -> HandState]
      <3>1. hand[g] \in HandCall /\ hand[g].slot \in Slot
        BY <1>0, <1>2 DEF HandState, HandField
      <3>2. [hand[g] EXCEPT !.work = w2, !.cur = c,
                            !.pc = IF c = Nil THEN "hand" ELSE "dec"] \in HandState
        BY <3>1, <2>3, <2>4 DEF HandState, HandCall
      <3> QED
        BY <3>2, <2>5 DEF TypeOK
    <2>8. /\ st' \in [Obj -> {"none", "counted", "handed"}]
          /\ held' \in [Obj -> BOOLEAN]
          /\ rec' \subseteq Obj
          /\ mark' \in [Obj -> 0..CycMod-1]
      BY <2>6, HandType DEF NoHand, TypeOK
    <2> QED
      BY <1>2, <2>7, <2>8 DEF HandField, TypeOK, refVars, gcVars, swVars
  <1>3. CASE HandDec(g)
    <2>1. fgoRCDec(hand[g].cur)
      BY <1>3 DEF HandDec
    <2>2. /\ st' \in [Obj -> {"none", "counted", "handed"}]
          /\ cnt' \in [Obj -> Int]
          /\ fld' \in [Obj -> Ref]
          /\ held' = held
      BY <2>1, DecType
    <2>3. hand' \in [G -> HandState]
      BY <1>0, <1>3 DEF HandDec, TypeOK, HandState, HandCall, Ref
    <2> QED
      BY <1>3, <2>2, <2>3 DEF HandDec, TypeOK, refVars, escVars, gcVars, swVars
  <1>4. CASE HandDone(g) /\ hand' = [hand EXCEPT ![g] = Idle]
             /\ (StoreGlobal(g) \/ PassTraced(g) \/ StoreField(g) \/ fgoWeakHandle(g))
    <2>1. hand' \in [G -> HandState]
      BY <1>4, IdleType DEF TypeOK
    <2>2. hand[g].slot \in Slot /\ loc[g][hand[g].slot] \in Ref
      BY <1>0, <1>4 DEF HandState, HandDone, TypeOK
    <2>3. CASE StoreGlobal(g)
      <3>1. mark' \in [Obj -> 0..CycMod-1] /\ grey' \subseteq Obj
        BY <2>3, MarkType DEF StoreGlobal
      <3> QED
        BY <2>1, <2>2, <2>3, <3>1
        DEF StoreGlobal, TypeOK, objVars, escVars, gcVars, swVars
    <2>4. CASE PassTraced(g)
      BY <2>1, <2>2, <2>4 DEF PassTraced, TypeOK, objVars, escVars, gcVars, swVars
    <2>5. CASE StoreField(g)
      <3>1. mark' \in [Obj -> 0..CycMod-1] /\ grey' \subseteq Obj
        BY <2>5, MarkType DEF StoreField
      <3>2. /\ loc' \in [G -> [Slot -> Ref]]
            /\ cnt' \in [Obj -> Int]
            /\ fld' \in [Obj -> Ref]
        <4>1. Nil \in Ref
          BY DEF Ref
        <4>2. loc' = [loc EXCEPT ![g][hand[g].slot] = Nil]
          BY <2>5 DEF StoreField, SetLoc
        <4>3. loc' \in [G -> [Slot -> Ref]]
          BY <2>2, <4>1, <4>2 DEF TypeOK
        <4>4. fld' \in [Obj -> Ref]
          BY <2>2, <2>5 DEF StoreField, TypeOK
        <4>5. cnt' \in [Obj -> Int]
          <5> DEFINE v == loc[g][hand[g].slot]
          <5>1. cnt' = [cnt EXCEPT ![v] = cnt[v] - 1] /\ cnt \in [Obj -> Int]
            BY <2>5 DEF StoreField, TypeOK
          <5>2. v \in Obj => cnt[v] - 1 \in Int
            BY <5>1
          <5> HIDE DEF v
          <5> QED
            BY <5>1, <5>2
        <4> QED
          BY <4>3, <4>4, <4>5
      <3> QED
        BY <2>1, <2>2, <2>5, <3>1, <3>2
        DEF StoreField, TypeOK, escVars, gcVars, swVars
    <2>6. CASE fgoWeakHandle(g)
      BY <2>1, <2>2, <2>6 DEF fgoWeakHandle, TypeOK, objVars, escVars, gcVars, swVars
    <2> QED
      BY <1>4, <2>3, <2>4, <2>5, <2>6
  <1> QED
    BY <1>1, <1>2, <1>3, <1>4
    DEF Handoff, StoreGlobal, PassTraced, StoreField, fgoWeakHandle

(* Ordinary code keeps the type invariant. *)
LEMMA TracedType ==
    ASSUME TypeOK, NEW g \in G, Traced(g)
    PROVE  TypeOK'
  <1>1. CASE LoadGlobal(g) \/ LoadTracedField(g) \/ ForgetTraced(g)
    BY <1>1 DEF LoadGlobal, LoadTracedField, ForgetTraced, SetGl, TypeOK, Ref,
                objVars, escVars, gcVars, swVars
  <1>2. CASE ClearGlobal(g)
    <2>1. mark' \in [Obj -> 0..CycMod-1] /\ grey' \subseteq Obj
      BY <1>2, MarkType DEF ClearGlobal
    <2> QED
      BY <1>2, <2>1 DEF ClearGlobal, TypeOK, Ref, objVars, escVars, gcVars, swVars
  <1>3. CASE fgoMakeStrong(g)
    <2>1. mark' \in [Obj -> 0..CycMod-1] /\ grey' \subseteq Obj
      BY <1>3, MarkType DEF fgoMakeStrong, ShadeStrong
    <2> QED
      BY <1>3, <2>1 DEF fgoMakeStrong, SetGl, TypeOK, objVars, escVars, gcVars, swVars
  <1> QED
    BY <1>1, <1>2, <1>3 DEF Traced

(* The GC's cycle keeps the type invariant. *)
LEMMA MarkerType ==
    ASSUME TypeOK, gcStart \/ Marker
    PROVE  TypeOK'
  <1>1. CASE gcStart
    <2>1. cyc' \in 0..CycMod-1
      BY <1>1, CycleFacts DEF gcStart, TypeOK
    <2> QED
      BY <1>1, <2>1 DEF gcStart, TypeOK, objVars, refVars, escVars, swVars
  <1>2. CASE \E g \in G : ScanStack(g)
    <2>1. PICK g \in G : ScanStack(g)
      BY <1>2
    <2>2. mark' \in [Obj -> 0..CycMod-1] /\ grey' \subseteq Obj
      BY <2>1, MarkType DEF ScanStack
    <2> QED
      BY <2>1, <2>2 DEF ScanStack, TypeOK, objVars, refVars, escVars, swVars
  <1>3. CASE ScanGlobals
    <2>1. mark' \in [Obj -> 0..CycMod-1] /\ grey' \subseteq Obj
      BY <1>3, MarkType DEF ScanGlobals
    <2> QED
      BY <1>3, <2>1 DEF ScanGlobals, TypeOK, objVars, refVars, escVars, swVars
  <1>4. CASE MarkCountedBegin
    BY <1>4 DEF MarkCountedBegin, TypeOK, objVars, refVars, gcVars
  <1>5. CASE MarkCountedRec
    <2>1. /\ mark' \in [Obj -> 0..CycMod-1] /\ grey' \subseteq Obj
          /\ todo' \subseteq Obj
      BY <1>5 DEF MarkCountedRec, TypeOK
    <2> QED
      BY <1>5, <2>1 DEF MarkCountedRec, TypeOK, objVars, refVars, escVars, gcVars
  <1>6. CASE MarkCountedEnd
    BY <1>6 DEF MarkCountedEnd, TypeOK, objVars, refVars, swVars
  <1>7. CASE ScanObj
    BY <1>7 DEF ScanObj, Reached, TypeOK, objVars, refVars, escVars, gcVars, swVars
  <1>8. CASE gcMarkTermination
    BY <1>8 DEF gcMarkTermination, TypeOK, objVars, refVars, escVars
  <1> QED
    BY <1>1, <1>2, <1>3, <1>4, <1>5, <1>6, <1>7, <1>8 DEF Marker

(* fgoEscSweeper keeps the type invariant. *)
LEMMA SweeperType ==
    ASSUME TypeOK, Sweeper
    PROVE  TypeOK'
  <1>1. CASE SweepBegin
    BY <1>1 DEF SweepBegin, TypeOK, objVars, refVars, gcVars
  <1>2. CASE SweepRec
    <2>1. PICK o \in todo :
            /\ todo' = todo \ {o}
            /\ \/ /\ held' = [held EXCEPT ![o] = FALSE]
                  /\ rec' = rec \ {o}
                  /\ mark' = [mark EXCEPT ![o] = 0]
                  /\ weak' = ClearWeak(o)
                  /\ dropped' = dropped \cup {o}
               \/ UNCHANGED <<held, rec, mark, weak, dropped>>
      BY <1>2 DEF SweepRec
    <2>2. /\ held' \in [Obj -> BOOLEAN] /\ rec' \subseteq Obj
          /\ dropped' \subseteq Obj /\ todo' \subseteq Obj /\ weak' \in Ref
      BY <2>1 DEF TypeOK, ClearWeak, Ref
    <2>3. mark' \in [Obj -> 0..CycMod-1]
      BY <2>1, CycleFacts DEF TypeOK
    <2> QED
      BY <1>2, <2>2, <2>3 DEF SweepRec, TypeOK, gcVars
  <1>3. CASE SweepRebuild
    BY <1>3 DEF SweepRebuild, TypeOK, objVars, refVars, gcVars
  <1>4. CASE SweepUnlock
    BY <1>4 DEF SweepUnlock, TypeOK, objVars, refVars, gcVars
  <1>5. CASE SweepFree
    BY <1>5 DEF SweepFree, TypeOK, Ref, refVars, escVars, gcVars
  <1>6. CASE SweepEnd
    BY <1>6 DEF SweepEnd, TypeOK, objVars, refVars, escVars, gcVars
  <1> QED
    BY <1>1, <1>2, <1>3, <1>4, <1>5, <1>6 DEF Sweeper

(* Every step keeps the type invariant. *)
LEMMA TypeStep ==
    ASSUME TypeOK, [Next]_vars
    PROVE  TypeOK'
  <1>1. CASE UNCHANGED vars
    BY <1>1
    DEF TypeOK, vars, objVars, refVars, escVars, gcVars, swVars
  <1>2. CASE Next
    BY <1>2, NogcType, HandoffType, TracedType, MarkerType, SweeperType
    DEF Next
  <1> QED
    BY <1>1, <1>2

(* In every reachable state, whatever the number of objects and goroutines, *)
(* the variables of the hand-off have their types: cycle stamps stay within *)
(* the counter's width and a call of fgoRCHandoff works on objects only.    *)
THEOREM TypeCorrect == Spec => []TypeOK
  BY TypeInit, TypeStep, PTL DEF Spec
-----------------------------------------------------------------------------
(* RecordsExact is inductive once it says that only handed-off objects have *)
(* the GC's reference.                                                      *)
RecInv == RecordsExact /\ \A o \in Obj : held[o] => st[o] = "handed"

(* A dropped reference frees counted objects only, which have no record. *)
LEMMA RecDec ==
    ASSUME TypeOK, RecInv, NEW o, fgoRCDec(o), rec' = rec, dropped' = dropped
    PROVE  RecInv'
  <1>1. \A x \in Dying(o) : st[x] = "counted"
    BY DEF Dying, Sole
  <1>2. \A x \in Obj : st'[x] = IF x \in Dying(o) THEN "none" ELSE st[x]
    BY DEF fgoRCDec
  <1>3. held' = held
    BY DEF fgoRCDec
  <1>4. \A x \in Obj : st[x] = "handed" <=> st'[x] = "handed"
    BY <1>1, <1>2
  <1> QED
    BY <1>3, <1>4 DEF RecInv, RecordsExact, TypeOK

(* fgoHandOne gives a counted object its flag and its record together. *)
LEMMA RecHand ==
    ASSUME TypeOK, RecInv, NEW o \in Obj, dropped' = dropped,
           (fgoHandOne(o) /\ st[o] = "counted") \/ NoHand
    PROVE  RecInv'
  <1>1. CASE NoHand
    BY <1>1 DEF NoHand, RecInv, RecordsExact
  <1>2. CASE fgoHandOne(o) /\ st[o] = "counted"
    <2>1. \A x \in Obj : /\ st'[x] = IF x = o THEN "handed" ELSE st[x]
                         /\ held'[x] = IF x = o THEN TRUE ELSE held[x]
                         /\ x \in rec' <=> x = o \/ x \in rec
      BY <1>2 DEF fgoHandOne, TypeOK
    <2>2. o \notin dropped
      BY <1>2 DEF RecInv, RecordsExact
    <2> QED
      BY <2>1, <2>2 DEF RecInv, RecordsExact, TypeOK
  <1> QED
    BY <1>1, <1>2

(* A call of fgoRCHandoff keeps the records exact. *)
LEMMA RecCall ==
    ASSUME TypeOK, RecInv, NEW g, NEW objs \in Seq(Obj), objs # <<>>, NEW then, NEW s,
           NEW base, CallHandoff(g, objs, then, s, base)
    PROVE  RecInv'
  <1>1. Head(objs) \in Obj
    OBVIOUS
  <1>2. (fgoHandOne(Head(objs)) /\ st[Head(objs)] = "counted") \/ NoHand
    BY DEF CallHandoff
  <1>3. dropped' = dropped
    BY DEF CallHandoff, swVars
  <1> QED
    BY <1>1, <1>2, <1>3, RecHand

(* A step that leaves the objects' states, rc words and records alone.      *)
LEMMA RecSame ==
    ASSUME RecInv, UNCHANGED <<st, held, rec, dropped>>
    PROVE  RecInv'
  BY DEF RecInv, RecordsExact

(* Nogc code keeps the records exact. *)
LEMMA RecNogc ==
    ASSUME TypeOK, RecInv, NEW g \in G, Nogc(g)
    PROVE  RecInv'
  <1>1. PICK s \in Slot :
          \/ DropLocal(g, s)
          \/ TakeTraced(g, s)
          \/ \E t \in Slot : LoadField(g, s, t) \/ fgoRCStoreGC(g, s, t)
          \/ \E t \in Slot, o \in Obj : Construct(g, s, t, o)
          \/ \E then \in Escapes : Escape(g, s, then)
    BY DEF Nogc
  <1>2. CASE DropLocal(g, s)
    BY <1>2, RecDec DEF DropLocal, escVars, swVars
  <1>3. CASE TakeTraced(g, s) \/ \E t \in Slot : LoadField(g, s, t)
    BY <1>3, RecSame DEF TakeTraced, LoadField, escVars, swVars
  <1>4. CASE \E t \in Slot : fgoRCStoreGC(g, s, t)
    <2>1. PICK t \in Slot : fgoRCStoreGC(g, s, t)
      BY <1>4
    <2> DEFINE ps == <<loc[g][s], loc[g][t]>>
    <2>2. loc[g][s] \in Obj /\ loc[g][t] \in Obj
      BY <2>1 DEF fgoRCStoreGC, TypeOK, Ref
    <2>3. ps \in Seq(Obj) /\ ps # <<>>
      BY <2>2
    <2>4. CallHandoff(g, ps, "field", t, loc[g][s])
      BY <2>1 DEF fgoRCStoreGC
    <2> HIDE DEF ps
    <2> QED
      BY <2>3, <2>4, RecCall
  <1>5. CASE \E t \in Slot, o \in Obj : Construct(g, s, t, o)
    <2>1. PICK t \in Slot, o \in Obj : Construct(g, s, t, o)
      BY <1>5
    <2>2. /\ st[o] = "none" /\ st' = [st EXCEPT ![o] = "counted"]
          /\ UNCHANGED <<held, rec, dropped>>
      BY <2>1 DEF Construct, escVars, swVars
    <2> QED
      BY <2>2 DEF RecInv, RecordsExact, TypeOK
  <1>6. CASE \E then \in Escapes : Escape(g, s, then)
    <2>1. PICK then \in Escapes : Escape(g, s, then)
      BY <1>6
    <2>2. loc[g][s] \in Obj /\ CallHandoff(g, <<loc[g][s]>>, then, s, Nil)
      BY <2>1 DEF Escape, TypeOK, Ref
    <2>3. <<loc[g][s]>> \in Seq(Obj) /\ <<loc[g][s]>> # <<>>
      BY <2>2
    <2> QED
      BY <2>2, <2>3, RecCall
  <1> QED
    BY <1>1, <1>2, <1>3, <1>4, <1>5, <1>6

(* The steps inside a hand-off keep the records exact. *)
LEMMA RecHandoff ==
    ASSUME TypeOK, RecInv, NEW g \in G, Handoff(g)
    PROVE  RecInv'
  <1>0. hand[g] \in HandState
    BY DEF TypeOK
  <1>1. CASE HandObj(g)
    BY <1>0, <1>1, RecCall DEF HandObj, HandState, HandCall
  <1>2. CASE HandField(g)
    <2> DEFINE w == hand[g].work
               c == fld[w[Len(w)]]
    <2>1. w \in Seq(Obj) /\ w # <<>>
      BY <1>0, <1>2 DEF HandState, HandCall, HandField
    <2>2. c \in Ref
      BY <2>1 DEF TypeOK
    <2>3. (c \in Obj /\ fgoHandOne(c) /\ st[c] = "counted") \/ NoHand
      BY <1>2, <2>2 DEF HandField, Ref
    <2>4. dropped' = dropped
      BY <1>2 DEF HandField, swVars
    <2> HIDE DEF c
    <2>5. CASE NoHand
      BY <2>4, <2>5, RecSame DEF NoHand
    <2> QED
      BY <2>3, <2>4, <2>5, RecHand
  <1>3. CASE HandDec(g)
    BY <1>3, RecDec DEF HandDec, escVars, swVars
  <1>4. CASE StoreGlobal(g) \/ PassTraced(g) \/ StoreField(g) \/ fgoWeakHandle(g)
    BY <1>4, RecSame
    DEF StoreGlobal, PassTraced, StoreField, fgoWeakHandle, objVars, escVars, swVars
  <1> QED
    BY <1>1, <1>2, <1>3, <1>4 DEF Handoff

(* fgoEscSweeper removes an object's flag and record together, before freeing it. *)
LEMMA RecSweeper ==
    ASSUME TypeOK, RecInv, Sweeper
    PROVE  RecInv'
  <1>1. CASE SweepBegin \/ SweepRebuild \/ SweepUnlock \/ SweepEnd
    BY <1>1, RecSame
    DEF SweepBegin, SweepRebuild, SweepUnlock, SweepEnd, objVars, escVars
  <1>2. CASE SweepRec
    <2>1. PICK o \in todo :
            \/ /\ Condemned(o)
               /\ held' = [held EXCEPT ![o] = FALSE]
               /\ rec' = rec \ {o}
               /\ dropped' = dropped \cup {o}
            \/ UNCHANGED <<held, rec, dropped>>
      BY <1>2 DEF SweepRec
    <2>2. st' = st
      BY <1>2 DEF SweepRec
    <2>3. CASE UNCHANGED <<held, rec, dropped>>
      BY <2>2, <2>3, RecSame
    <2>4. CASE /\ Condemned(o)
               /\ held' = [held EXCEPT ![o] = FALSE]
               /\ rec' = rec \ {o}
               /\ dropped' = dropped \cup {o}
      <3>1. o \in Obj /\ held[o] /\ st[o] = "handed"
        BY <2>4 DEF Condemned, RecInv, TypeOK
      <3> QED
        BY <2>2, <2>4, <3>1 DEF RecInv, RecordsExact, TypeOK
    <2> QED
      BY <2>1, <2>3, <2>4
  <1>3. CASE SweepFree
    <2>1. PICK o \in dropped : /\ st' = [st EXCEPT ![o] = "none"]
                               /\ dropped' = dropped \ {o}
      BY <1>3 DEF SweepFree
    <2>2. UNCHANGED <<held, rec>>
      BY <1>3 DEF SweepFree, escVars
    <2> QED
      BY <2>1, <2>2 DEF RecInv, RecordsExact, TypeOK
  <1> QED
    BY <1>1, <1>2, <1>3 DEF Sweeper

(* Every step keeps the records exact. *)
LEMMA RecStep ==
    ASSUME TypeOK, RecInv, [Next]_vars
    PROVE  RecInv'
  <1>1. CASE UNCHANGED vars
    BY <1>1, RecSame DEF vars, objVars, escVars, swVars
  <1>2. CASE \E g \in G : Traced(g)
    BY <1>2, RecSame
    DEF Traced, LoadGlobal, LoadTracedField, ForgetTraced, ClearGlobal,
        fgoMakeStrong, objVars, escVars, swVars
  <1>3. CASE gcStart \/ Marker
    BY <1>3, RecSame
    DEF gcStart, Marker, ScanStack, ScanGlobals, MarkCountedBegin, MarkCountedRec,
        MarkCountedEnd, ScanObj, gcMarkTermination, objVars, escVars, swVars
  <1>4. CASE Sweeper
    BY <1>4, RecSweeper
  <1>5. CASE \E g \in G : Nogc(g) \/ Handoff(g)
    BY <1>5, RecNogc, RecHandoff
  <1> QED
    BY <1>1, <1>2, <1>3, <1>4, <1>5 DEF Next

(* No object has a record when the runtime starts. *)
LEMMA RecInit == Init => RecInv
  BY DEF Init, RecInv, RecordsExact

(* fgoEsc's records and the objects' states and rc words agree in every     *)
(* reachable state, for any number of objects, goroutines and cycles and    *)
(* with every race admitted: the sweeper never frees an object twice and    *)
(* never frees one that is not handed off.                                  *)
THEOREM RecordsAgree == Spec => []RecordsExact
  <1>1. RecInv => RecordsExact
    BY DEF RecInv
  <1> QED
    BY <1>1, TypeCorrect, RecInit, RecStep, PTL DEF Spec
-----------------------------------------------------------------------------
(* Memory safety of nogc objects that the GC traces.                        *)

(***************************************************************************)
(* The inductive invariant, in named parts.                                 *)
(***************************************************************************)

\* The theorems below are about the steps without a race.
NoRace == Race = {}

\* How many cycles ago the cycle numbered c was.
Age(c) == (cyc - c) % CycMod

\* The last cycle to end is the sweeper's target; the sweeper is a bounded number
\* of cycles behind, and no record is older than the last sweep that ended.
CyclesExact ==
    /\ IF marking THEN Age(target) = 1 ELSE target = cyc
    /\ Age(target) <= Age(swept) /\ Age(swept) <= MaxLag + 1
    /\ spc # "parked" => Age(target) <= Age(scyc) /\ Age(scyc) <= Age(swept)
    /\ \A o \in rec : Age(mark[o]) <= Age(swept)
    /\ spc # "parked" => \A o \in rec : (spc = "sweep" /\ o \in todo) \/ Age(mark[o]) <= Age(scyc)

\* Who holds fgoEsc.lock, and what only happens during a cycle.
PhasesExact ==
    /\ lock = "sweeper" <=> spc \in {"sweep", "rebuild"}
    /\ lock = "marker" => "counted" \in roots
    /\ lock # NoLock => todo \subseteq rec
    /\ tabNil => spc = "rebuild" /\ ~marking
    /\ ~marking => roots = {} /\ grey = {}
    /\ \A o \in grey : o \in rec /\ mark[o] = cyc

\* The objects that the last cycle to end, or the one under way, has reached.
Live == {o \in rec : mark[o] \in {target, cyc}}
Good == {o \in Obj : st[o] = "counted"} \cup Live

\* The program refers to counted objects and to ones that a cycle has reached, and
\* only a hand-off under way has a counted one in a handed-off one's field.
RefsGood ==
    /\ \A g \in G, s \in Slot : loc[g][s] # Nil => loc[g][s] \in Good
    /\ \A g \in G : gl[g] # Nil => gl[g] \in Live
    /\ glob # Nil => glob \in Live
    /\ weak # Nil => weak \in rec
    /\ \A x \in Good : fld[x] # Nil =>
          fld[x] \in Good /\ (st[fld[x]] = "counted" /\ st[x] # "counted" => InWork(x))

\* A call of fgoRCHandoff.
HandExact(g) ==
    LET h == hand[g] IN
    /\ h.pc = "run" => h = Idle
    /\ h.pc = "dec" => h.cur \in Live
    /\ h.pc # "run" => /\ h.slot \in Slot /\ loc[g][h.slot] # Nil
                       /\ st[loc[g][h.slot]] = "counted" => \E i \in 1 .. Len(h.objs) : h.objs[i] = loc[g][h.slot]
    /\ h.pc # "run" /\ h.then = "field" =>
          /\ h.base # Nil /\ \E s \in Slot : loc[g][s] = h.base
          /\ st[h.base] = "counted" => \E i \in 1 .. Len(h.objs) : h.objs[i] = h.base
    /\ \A i \in 1 .. Len(h.objs) : \E s \in Slot : loc[g][s] = h.objs[i]
    /\ Len(h.work) <= 1
HandsExact == \A g \in G : HandExact(g)

\* Objects that belong to one goroutine: its counted ones, and the ones that its
\* call of fgoRCHandoff has handed off so far.
ReachOwn(own, g) ==
    {x \in Obj : \A T \in SUBSET Obj :
        (/\ \A s \in Slot : loc[g][s] # Nil => loc[g][s] \in T
         /\ \A y \in T : own[y] = g /\ fld[y] # Nil => fld[y] \in T) => x \in T}
Owned(own) ==
    /\ \A o \in Obj : st[o] = "counted" => own[o] \in G
    /\ \A g \in G, o \in Obj : own[o] = g =>
          \/ st[o] = "counted"
          \/ o \in Live /\ hand[g].pc # "run" /\ o \in ReachOwn(own, g)
    /\ \A g \in G, s \in Slot : loc[g][s] # Nil => own[loc[g][s]] \in {g, Nil}
    /\ \A g \in G : gl[g] # Nil => own[gl[g]] = Nil
    /\ glob # Nil => own[glob] = Nil
    /\ weak # Nil => own[weak] = Nil
    /\ \A x \in Good : fld[x] # Nil /\ own[fld[x]] # Nil => own[x] = own[fld[x]]
    /\ \A g \in G : \A i \in 1 .. Len(hand[g].work) : own[hand[g].work[i]] = g /\ st[hand[g].work[i]] = "handed"
OwnExact == \E own \in [Obj -> G \cup {Nil}] : Owned(own)

\* What the cycle under way has not reached yet, of what the last one did.
Pale == {o \in rec : marking /\ mark[o] = target}
\* Nothing that the cycle has yet to look at leads into W.
Isolated(W) ==
    /\ \A x \in grey \cup (Pale \ W) : fld[x] \notin W
    /\ "globals" \in roots => glob \notin W
    /\ \A y \in W : ~(CountedAhead(y) /\ cnt[y] # 0)
\* Nothing that it has looked at does.
Unseen(W) ==
    /\ \A x \in rec : mark[x] = cyc => fld[x] \notin W
    /\ glob \notin W
    /\ \A g \in G \ roots : gl[g] \notin W /\ \A s \in Slot : loc[g][s] \notin W
\* A counted reference to what the cycle has not reached is ahead of fgoMarkCounted.
FieldsAhead == \A x \in Good : (st[x] = "counted" \/ InWork(x)) /\ fld[x] \in Pale => CountedAhead(fld[x])
DecsAhead == \A g \in G : hand[g].pc = "dec" /\ hand[g].cur \in Pale => CountedAhead(hand[g].cur)
\* What is cut off from the work left to the cycle is cut off from what it has done:
\* with no work left, nothing that the program has is still unreached.
NoneSeen == \A W \in SUBSET Pale : Isolated(W) => Unseen(W)
Tricolor == marking => FieldsAhead /\ DecsAhead /\ NoneSeen

\* The references that count o: in locals, in fields, and in calls of fgoRCDec.
Locals(o) == {gs \in G \X Slot : loc[gs[1]][gs[2]] = o}
Fields(o) == {y \in Obj : fld[y] = o /\ (st[y] = "counted" \/ InWork(y))}
Decs(o) == {h \in G : hand[h].pc = "dec" /\ hand[h].cur = o}
CountSum ==
    \A o \in Obj : st[o] # "none" =>
       cnt[o] = Cardinality(Locals(o)) + Cardinality(Fields(o)) + Cardinality(Decs(o))

RefInv == RefsGood /\ HandsExact /\ OwnExact /\ CountSum
SafeInv == CyclesExact /\ PhasesExact /\ RefInv /\ Tricolor
-----------------------------------------------------------------------------
(* Cycle numbers.                                                           *)

(* Ages count cycles, modulo CycMod. *)
LEMMA AgeIs ==
    ASSUME NEW a \in 0 .. CycMod - 1, NEW b \in 0 .. CycMod - 1
    PROVE  (a - b) % CycMod = IF a >= b THEN a - b ELSE a - b + CycMod
  BY ConstAssumption

(* A new cycle makes every number but the oldest one older by one. *)
LEMMA AgeNext ==
    ASSUME NEW a \in 0 .. CycMod - 1, NEW b \in 0 .. CycMod - 1, (a - b) % CycMod # CycMod - 1
    PROVE  (NextCycle(a) - b) % CycMod = ((a - b) % CycMod) + 1
  <1>1. NextCycle(a) = IF a = CycMod - 1 THEN 0 ELSE a + 1
    BY ConstAssumption DEF NextCycle
  <1>2. NextCycle(a) \in 0 .. CycMod - 1
    BY CycleFacts
  <1> QED
    BY <1>1, <1>2, AgeIs, ConstAssumption

(* Behind compares ages, as long as both are below half of CycMod. *)
LEMMA BehindIs ==
    ASSUME NEW a \in 0 .. CycMod - 1, NEW b \in 0 .. CycMod - 1, NEW c \in 0 .. CycMod - 1,
           (c - a) % CycMod <= MaxLag + 2, (c - b) % CycMod <= MaxLag + 2
    PROVE  Behind(a, b) > 0 <=> (c - b) % CycMod > (c - a) % CycMod
  <1> DEFINE H == CycMod \div 2
  <1>1. H \in Nat /\ H >= MaxLag + 3 /\ 2 * H <= CycMod
    BY ConstAssumption
  <1>2. Behind(a, b) = IF (a - b) % CycMod < H THEN (a - b) % CycMod ELSE 0
    BY DEF Behind
  <1> HIDE DEF H
  <1>3. /\ (a - b) % CycMod = IF a >= b THEN a - b ELSE a - b + CycMod
        /\ (c - b) % CycMod = IF c >= b THEN c - b ELSE c - b + CycMod
        /\ (c - a) % CycMod = IF c >= a THEN c - a ELSE c - a + CycMod
    BY AgeIs
  <1> QED
    BY <1>1, <1>2, <1>3, ConstAssumption

(* The age of a cycle number. *)
LEMMA AgeType ==
    ASSUME TypeOK, NEW c \in 0 .. CycMod - 1
    PROVE  Age(c) \in 0 .. CycMod - 1 /\ (Age(c) = 0 <=> c = cyc)
  <1>1. cyc \in 0 .. CycMod - 1
    BY DEF TypeOK
  <1>2. Age(c) = IF cyc >= c THEN cyc - c ELSE cyc - c + CycMod
    BY <1>1, AgeIs DEF Age
  <1> QED
    BY <1>1, <1>2, ConstAssumption

(* The cycle numbers and stamps of the variables have ages. *)
LEMMA Ages ==
    ASSUME TypeOK
    PROVE  /\ Age(target) \in Nat /\ Age(swept) \in Nat /\ Age(scyc) \in Nat /\ Age(cyc) = 0
           /\ \A o \in rec : Age(mark[o]) \in Nat
  BY AgeType DEF TypeOK

(* Live, by age: reached by the last cycle to end or the one under way. *)
LEMMA LiveAge ==
    ASSUME TypeOK, CyclesExact, NEW o \in rec
    PROVE  o \in Live <=> Age(mark[o]) <= Age(target)
  <1>1. mark[o] \in 0 .. CycMod - 1 /\ target \in 0 .. CycMod - 1 /\ cyc \in 0 .. CycMod - 1
    BY DEF TypeOK
  <1>2. /\ Age(mark[o]) = IF cyc >= mark[o] THEN cyc - mark[o] ELSE cyc - mark[o] + CycMod
        /\ Age(target) = IF cyc >= target THEN cyc - target ELSE cyc - target + CycMod
    BY <1>1, AgeIs DEF Age
  <1>3. Age(target) = 0 \/ Age(target) = 1
    BY <1>1, <1>2 DEF CyclesExact
  <1> QED
    BY <1>1, <1>2, <1>3, ConstAssumption DEF Live

(* A step that only stamps records with the current cycle, or adds such, or *)
(* removes some, keeps the cycle numbers in order.                          *)
LEMMA CyclesKeep ==
    ASSUME TypeOK, CyclesExact, UNCHANGED <<cyc, marking, target, swept, scyc, spc>>,
           \A o \in rec' : (o \in rec /\ mark'[o] = mark[o]) \/ mark'[o] = cyc,
           spc = "sweep" => todo' = todo
    PROVE  CyclesExact'
  <1>1. \A c : Age(c)' = (cyc - c)' % CycMod
    BY DEF Age
  <1>2. Age(target)' = Age(target) /\ Age(swept)' = Age(swept) /\ Age(scyc)' = Age(scyc)
    BY DEF Age
  <1>3. \A o \in rec' : Age(mark[o])' = (cyc - mark'[o]) % CycMod
    BY DEF Age
  <1>4. \A o \in rec' : (o \in rec /\ Age(mark[o])' = Age(mark[o])) \/ Age(mark[o])' = 0
    <2>1. (cyc - cyc) % CycMod = 0
      BY AgeIs DEF TypeOK
    <2> QED
      BY <1>3, <2>1 DEF Age
  <1>5. Age(swept) >= 0 /\ Age(scyc) >= 0
    BY Ages
  <1>6. \A o \in rec' : Age(mark[o])' <= Age(swept)'
    BY <1>2, <1>4, <1>5 DEF CyclesExact
  <1>7. spc' # "parked" => \A o \in rec' : (spc' = "sweep" /\ o \in todo') \/ Age(mark[o])' <= Age(scyc)'
    BY <1>2, <1>4, <1>5 DEF CyclesExact
  <1> QED
    BY <1>2, <1>6, <1>7 DEF CyclesExact

(* Sweeping compares ages. *)
LEMMA SweepAge ==
    ASSUME TypeOK, CyclesExact, spc = "sweep", NEW o \in rec
    PROVE  Behind(scyc, mark[o]) > 0 <=> Age(mark[o]) > Age(scyc)
  <1>1. /\ mark[o] \in 0 .. CycMod - 1 /\ scyc \in 0 .. CycMod - 1 /\ cyc \in 0 .. CycMod - 1
    BY DEF TypeOK
  <1>2. Age(mark[o]) <= MaxLag + 2 /\ Age(scyc) <= MaxLag + 2
    BY Ages, ConstAssumption DEF CyclesExact
  <1> QED
    BY <1>1, <1>2, BehindIs DEF Age

(* What the sweeper condemns, no cycle since the last has reached. *)
LEMMA CondemnedOld ==
    ASSUME TypeOK, CyclesExact, spc = "sweep", NEW o \in rec, Condemned(o)
    PROVE  o \notin Live /\ mark[o] # cyc
  <1>1. Age(mark[o]) > Age(scyc) /\ Age(scyc) >= Age(target)
    BY SweepAge DEF Condemned, CyclesExact
  <1>2. o \notin Live
    BY <1>1, LiveAge, Ages
  <1> QED
    BY <1>2 DEF Live

\* Every step but those of the GC's phases and of the sweeper.
Other ==
    \/ \E g \in G : Nogc(g) \/ Handoff(g) \/ Traced(g) \/ ScanStack(g)
    \/ ScanGlobals \/ MarkCountedBegin \/ MarkCountedRec \/ MarkCountedEnd \/ ScanObj
    \/ UNCHANGED vars

\* The steps that stamp objects, hand one off, or do neither.
Stamps ==
    /\ UNCHANGED <<cyc, marking, target, swept, scyc, spc>>
    /\ \A o \in Obj : mark'[o] = mark[o] \/ mark'[o] = cyc
    /\ \A o \in rec' : o \in rec \/ mark'[o] = cyc
    /\ spc = "sweep" => todo' = todo

(* Those steps stamp records with the current cycle only. *)
LEMMA OtherStamps ==
    ASSUME TypeOK, PhasesExact, Other
    PROVE  Stamps
  <1>1. ASSUME NEW ps, fgoEscMark(ps) PROVE \A o \in Obj : mark'[o] = mark[o] \/ mark'[o] = cyc
    BY <1>1 DEF fgoEscMark
  <1>2. ASSUME NEW o \in Obj, fgoHandOne(o) \/ NoHand
        PROVE  /\ \A x \in Obj : mark'[x] = mark[x] \/ mark'[x] = cyc
               /\ \A x \in rec' : x \in rec \/ mark'[x] = cyc
    BY <1>2 DEF fgoHandOne, NoHand, TypeOK
  <1>3. ASSUME NEW g, NEW objs \in Seq(Obj), objs # <<>>, NEW then, NEW s, NEW base,
               CallHandoff(g, objs, then, s, base)
        PROVE  Stamps
    <2>1. Head(objs) \in Obj
      BY <1>3
    <2> QED
      BY <1>2, <1>3, <2>1 DEF CallHandoff, Stamps, gcVars, swVars
  <1>4. ASSUME NEW g \in G, Nogc(g) PROVE Stamps
    <2>1. ASSUME NEW s \in Slot, NEW t \in Slot, fgoRCStoreGC(g, s, t) PROVE Stamps
      <3>1. <<loc[g][s], loc[g][t]>> \in Seq(Obj)
        BY <2>1 DEF fgoRCStoreGC, TypeOK, Ref
      <3> QED
        BY <1>3, <2>1, <3>1 DEF fgoRCStoreGC
    <2>2. ASSUME NEW s \in Slot, NEW then, Escape(g, s, then) PROVE Stamps
      <3>1. <<loc[g][s]>> \in Seq(Obj)
        BY <2>2 DEF Escape, TypeOK, Ref
      <3> QED
        BY <1>3, <2>2, <3>1 DEF Escape
    <2>3. ASSUME NEW s \in Slot, DropLocal(g, s) \/ TakeTraced(g, s) PROVE Stamps
      BY <2>3 DEF DropLocal, TakeTraced, Stamps, escVars, gcVars, swVars
    <2>4. ASSUME NEW s \in Slot, NEW t \in Slot, NEW o \in Obj,
                 LoadField(g, s, t) \/ Construct(g, s, t, o)
          PROVE  Stamps
      BY <2>4 DEF LoadField, Construct, Stamps, escVars, gcVars, swVars
    <2>5. ASSUME NEW s \in Slot, NEW t \in Slot, LoadField(g, s, t) PROVE Stamps
      BY <2>5 DEF LoadField, Stamps, escVars, gcVars, swVars
    <2> QED
      BY <1>4, <2>1, <2>2, <2>3, <2>4, <2>5 DEF Nogc
  <1>5. ASSUME NEW g \in G, Handoff(g) PROVE Stamps
    <2>0. hand[g] \in HandState
      BY DEF TypeOK
    <2>1. CASE HandObj(g)
      BY <1>3, <2>0, <2>1 DEF HandObj, HandState, HandCall
    <2>2. CASE HandField(g)
      <3> DEFINE c == fld[hand[g].work[Len(hand[g].work)]]
      <3>1. (c \in Obj /\ fgoHandOne(c)) \/ NoHand
        <4>1. hand[g].work \in Seq(Obj) /\ hand[g].work # <<>>
          BY <2>0, <2>2 DEF HandState, HandCall, HandField
        <4>2. c \in Ref
          BY <4>1 DEF TypeOK
        <4> QED
          BY <2>2, <4>2 DEF HandField, Ref
      <3> HIDE DEF c
      <3>2. /\ \A x \in Obj : mark'[x] = mark[x] \/ mark'[x] = cyc
            /\ \A x \in rec' : x \in rec \/ mark'[x] = cyc
        BY <1>2, <3>1 DEF NoHand
      <3> QED
        BY <2>2, <3>2 DEF HandField, Stamps, gcVars, swVars
    <2>3. CASE HandDec(g) \/ PassTraced(g) \/ fgoWeakHandle(g)
      BY <2>3 DEF HandDec, PassTraced, fgoWeakHandle, Stamps, escVars, gcVars, swVars
    <2>4. CASE StoreGlobal(g)
      BY <1>1, <2>4 DEF StoreGlobal, Stamps, escVars, gcVars, swVars
    <2>5. CASE StoreField(g)
      BY <1>1, <2>5 DEF StoreField, Stamps, escVars, gcVars, swVars
    <2> QED
      BY <1>5, <2>1, <2>2, <2>3, <2>4, <2>5 DEF Handoff
  <1>6. ASSUME NEW g \in G, Traced(g) PROVE Stamps
    <2>1. CASE LoadGlobal(g) \/ LoadTracedField(g) \/ ForgetTraced(g)
      BY <2>1 DEF LoadGlobal, LoadTracedField, ForgetTraced, Stamps, escVars, gcVars, swVars
    <2>2. CASE ClearGlobal(g)
      BY <1>1, <2>2 DEF ClearGlobal, Stamps, escVars, gcVars, swVars
    <2>3. CASE fgoMakeStrong(g)
      BY <1>1, <2>3 DEF fgoMakeStrong, ShadeStrong, Stamps, escVars, gcVars, swVars
    <2> QED
      BY <1>6, <2>1, <2>2, <2>3 DEF Traced
  <1>7. ASSUME NEW g \in G, ScanStack(g) PROVE Stamps
    BY <1>1, <1>7 DEF ScanStack, Stamps, escVars, swVars
  <1>8. CASE ScanGlobals
    BY <1>1, <1>8 DEF ScanGlobals, Stamps, escVars, swVars
  <1>9. CASE MarkCountedBegin
    BY <1>9 DEF MarkCountedBegin, Stamps, PhasesExact, NoLock, gcVars
  <1>10. CASE MarkCountedRec
    BY <1>10 DEF MarkCountedRec, Stamps, PhasesExact, NoLock, gcVars, escVars
  <1>11. CASE MarkCountedEnd
    BY <1>11 DEF MarkCountedEnd, Stamps, swVars
  <1>12. CASE ScanObj
    BY <1>12 DEF ScanObj, Stamps, gcVars, escVars, swVars
  <1>13. CASE UNCHANGED vars
    BY <1>13 DEF Stamps, vars, gcVars, escVars, swVars
  <1> QED
    BY <1>4, <1>5, <1>6, <1>7, <1>8, <1>9, <1>10, <1>11, <1>12, <1>13 DEF Other

\* Nogc code counts only what a cycle has reached.
CountedLive == \A o \in rec : cnt[o] # 0 => o \in Live

(* Every step keeps the cycle numbers in order. *)
LEMMA CyclesStep ==
    ASSUME TypeOK, RecInv, PhasesExact, CyclesExact, CountedLive, [Next]_vars
    PROVE  CyclesExact'
  <1>1. CASE Other
    <2>1. Stamps
      BY <1>1, OtherStamps
    <2>2. \A o \in rec' : o \in Obj
      BY <1>1, TypeStep DEF TypeOK
    <2> QED
      BY <2>1, <2>2, CyclesKeep DEF Stamps
  <1>2. CASE gcStart
    <2>1. /\ cyc' = NextCycle(cyc) /\ marking' = TRUE /\ ~marking
          /\ UNCHANGED <<rec, mark, target, swept, scyc, spc, todo>>
          /\ (target - swept) % CycMod <= MaxLag
      BY <1>2 DEF gcStart, escVars, swVars
    <2>2. target = cyc /\ Age(swept) <= MaxLag
      BY <2>1 DEF CyclesExact, Age
    <2>3. ASSUME NEW c \in 0 .. CycMod - 1, Age(c) <= MaxLag PROVE Age(c)' = Age(c) + 1
      <3>1. cyc \in 0 .. CycMod - 1 /\ (cyc - c) % CycMod # CycMod - 1
        BY <2>3, ConstAssumption DEF TypeOK, Age
      <3>2. Age(c)' = (cyc' - c) % CycMod
        BY DEF Age
      <3> QED
        BY <2>1, <3>1, <3>2, AgeNext DEF Age
    <2>4. /\ Age(target) = 0 /\ Age(target) <= MaxLag
          /\ spc # "parked" => Age(scyc) <= MaxLag
          /\ \A o \in rec : Age(mark[o]) <= MaxLag
      BY <2>2, Ages, ConstAssumption DEF CyclesExact
    <2>5. Age(target)' = (cyc' - target) % CycMod /\ Age(swept)' = (cyc' - swept) % CycMod
          /\ Age(scyc)' = (cyc' - scyc) % CycMod
      BY <2>1 DEF Age
    <2>6. Age(target)' = 1 /\ Age(swept)' = Age(swept) + 1
      <3>1. target \in 0 .. CycMod - 1 /\ swept \in 0 .. CycMod - 1
        BY DEF TypeOK
      <3> QED
        BY <2>2, <2>3, <2>4, <2>5, <3>1 DEF Age
    <2>7. spc # "parked" => Age(scyc)' = Age(scyc) + 1
      <3>1. scyc \in 0 .. CycMod - 1
        BY DEF TypeOK
      <3> QED
        BY <2>3, <2>4, <2>5, <3>1 DEF Age
    <2>8. ASSUME NEW o \in rec PROVE Age(mark[o])' = Age(mark[o]) + 1
      <3>1. mark[o] \in 0 .. CycMod - 1 /\ Age(mark[o])' = (cyc' - mark[o]) % CycMod
        BY <2>1 DEF TypeOK, Age
      <3> QED
        BY <2>3, <2>4, <3>1 DEF Age
    <2>9. \A o \in rec' : Age(mark[o])' <= Age(swept)'
      BY <2>1, <2>6, <2>8, Ages DEF CyclesExact
    <2>10. spc' # "parked" => \A o \in rec' : (spc' = "sweep" /\ o \in todo') \/ Age(mark[o])' <= Age(scyc)'
      BY <2>1, <2>7, <2>8, Ages DEF CyclesExact
    <2>11. Age(target)' <= Age(swept)' /\ Age(swept)' <= MaxLag + 1
      BY <2>2, <2>4, <2>6, Ages, ConstAssumption
    <2>12. spc' # "parked" => Age(target)' <= Age(scyc)' /\ Age(scyc)' <= Age(swept)'
      BY <2>1, <2>4, <2>6, <2>7, Ages DEF CyclesExact
    <2> QED
      BY <2>1, <2>6, <2>9, <2>10, <2>11, <2>12 DEF CyclesExact
  <1>3. CASE gcMarkTermination
    <2>1. /\ marking' = FALSE /\ target' = cyc
          /\ UNCHANGED <<cyc, rec, mark, swept, scyc, spc, todo>>
      BY <1>3 DEF gcMarkTermination, escVars
    <2>2. /\ Age(target)' = Age(cyc) /\ Age(swept)' = Age(swept) /\ Age(scyc)' = Age(scyc)
          /\ \A o : Age(mark[o])' = Age(mark[o])
      BY <2>1 DEF Age
    <2>3. Age(target)' = 0 /\ Age(swept) >= 0 /\ Age(scyc) >= 0
      BY <2>2, Ages
    <2> QED
      BY <2>1, <2>2, <2>3 DEF CyclesExact
  <1>4. CASE SweepBegin
    <2>1. /\ UNCHANGED <<cyc, marking, target, rec, mark, swept>> /\ scyc' = target
          /\ spc' = "sweep" /\ todo' = rec
      BY <1>4 DEF SweepBegin, gcVars
    <2>2. /\ Age(target)' = Age(target) /\ Age(swept)' = Age(swept) /\ Age(scyc)' = Age(target)
          /\ \A o : Age(mark[o])' = Age(mark[o])
      BY <2>1 DEF Age
    <2> QED
      BY <2>1, <2>2, Ages DEF CyclesExact
  <1>5. CASE SweepRec
    <2>1. PICK o \in todo :
            /\ todo' = todo \ {o}
            /\ \/ Condemned(o) /\ rec' = rec \ {o} /\ mark' = [mark EXCEPT ![o] = 0]
               \/ ~Condemned(o) /\ UNCHANGED <<rec, mark>>
      BY <1>5 DEF SweepRec
    <2>2. UNCHANGED <<cyc, marking, target, swept, spc, scyc>> /\ spc = "sweep"
      BY <1>5 DEF SweepRec, gcVars
    <2>3. /\ Age(target)' = Age(target) /\ Age(swept)' = Age(swept) /\ Age(scyc)' = Age(scyc)
          /\ \A x \in rec' : x \in rec /\ Age(mark[x])' = Age(mark[x])
      BY <2>1, <2>2 DEF Age, TypeOK
    <2>4. o \in rec
      BY <2>1, <2>2 DEF PhasesExact, NoLock
    <2>5. ~Condemned(o) => Age(mark[o]) <= Age(scyc)
      <3>1. held[o]
        BY <2>4 DEF RecInv, RecordsExact, TypeOK
      <3>2. CASE cnt[o] # 0
        <4>1. Age(mark[o]) <= Age(target)
          BY <2>4, <3>2, LiveAge DEF CountedLive
        <4> QED
          BY <2>2, <2>4, <4>1, Ages DEF CyclesExact
      <3>3. CASE ~(Behind(scyc, mark[o]) > 0)
        BY <2>2, <2>4, <3>3, SweepAge, Ages
      <3> QED
        BY <3>1, <3>2, <3>3 DEF Condemned
    <2> QED
      BY <2>1, <2>2, <2>3, <2>5 DEF CyclesExact
  <1>6. CASE SweepRebuild \/ SweepUnlock
    <2>1. /\ UNCHANGED <<cyc, marking, target, swept, scyc, rec, mark, todo>>
          /\ spc # "parked" /\ spc' \in {"rebuild", "free"} /\ (spc = "sweep" => todo = {})
      BY <1>6 DEF SweepRebuild, SweepUnlock, gcVars
    <2>2. /\ Age(target)' = Age(target) /\ Age(swept)' = Age(swept) /\ Age(scyc)' = Age(scyc)
          /\ \A o : Age(mark[o])' = Age(mark[o])
      BY <2>1 DEF Age
    <2> QED
      BY <2>1, <2>2 DEF CyclesExact
  <1>7. CASE SweepFree
    BY <1>7, CyclesKeep DEF SweepFree, gcVars, escVars
  <1>8. CASE SweepEnd
    <2>1. /\ UNCHANGED <<cyc, marking, target, scyc, rec, mark, todo>>
          /\ spc = "free" /\ spc' = "parked" /\ swept' = scyc
      BY <1>8 DEF SweepEnd, gcVars, escVars
    <2>2. /\ Age(target)' = Age(target) /\ Age(swept)' = Age(scyc)
          /\ \A o : Age(mark[o])' = Age(mark[o])
      BY <2>1 DEF Age
    <2>3. /\ Age(target) <= Age(scyc) /\ Age(scyc) <= Age(swept) /\ Age(swept) <= MaxLag + 1
          /\ \A o \in rec : Age(mark[o]) <= Age(scyc)
      BY <2>1 DEF CyclesExact
    <2>4. Age(swept)' <= MaxLag + 1
      BY <2>2, <2>3, Ages, ConstAssumption
    <2> QED
      BY <2>1, <2>2, <2>3, <2>4 DEF CyclesExact
  <1> QED
    BY <1>1, <1>2, <1>3, <1>4, <1>5, <1>6, <1>7, <1>8 DEF Next, Other, Marker, Sweeper

(* fgoEscMark stamps and queues handed-off objects with a record. *)
LEMMA MarkPhases ==
    ASSUME TypeOK, PhasesExact, NEW ps, fgoEscMark(ps)
    PROVE  /\ \A o \in grey' : o \in rec /\ mark'[o] = cyc
           /\ ~marking => grey' = {}
  BY DEF TypeOK, PhasesExact, fgoEscMark, Reached

(* fgoHandOne does not touch what is queued. *)
LEMMA HandPhases ==
    ASSUME TypeOK, PhasesExact, NEW o \in Obj, fgoHandOne(o) \/ NoHand, grey' = grey
    PROVE  /\ \A x \in grey' : x \in rec' /\ mark'[x] = cyc
           /\ lock # NoLock => rec' = rec
  BY DEF TypeOK, PhasesExact, fgoHandOne, NoHand

(* A step that keeps the phases. *)
LEMMA PhasesKeep ==
    ASSUME TypeOK, PhasesExact, UNCHANGED <<lock, spc, tabNil, marking, cyc, todo>>,
           "counted" \in roots => "counted" \in roots', roots' \subseteq roots,
           lock # NoLock => rec' = rec,
           \A o \in grey' : o \in rec' /\ mark'[o] = cyc, ~marking => grey' = {}
    PROVE  PhasesExact'
  BY DEF PhasesExact

(* A call of fgoRCHandoff keeps the phases. *)
LEMMA CallPhases ==
    ASSUME TypeOK, PhasesExact, NEW g, NEW objs \in Seq(Obj), objs # <<>>, NEW then, NEW s, NEW base,
           CallHandoff(g, objs, then, s, base)
    PROVE  PhasesExact'
  <1>1. Head(objs) \in Obj
    OBVIOUS
  <1>2. /\ UNCHANGED <<lock, spc, tabNil, marking, cyc, todo, roots, grey>>
        /\ fgoHandOne(Head(objs)) \/ NoHand
    BY DEF CallHandoff, gcVars, swVars
  <1> QED
    BY <1>1, <1>2, HandPhases, PhasesKeep DEF PhasesExact

(* Every step keeps the lock, the phases and the queue in order. *)
LEMMA PhasesStep ==
    ASSUME TypeOK, RecInv, CyclesExact, PhasesExact, NoRace, [Next]_vars
    PROVE  PhasesExact'
  <1>1. ASSUME UNCHANGED <<lock, spc, tabNil, marking, cyc, todo, roots, rec, grey, mark>>
        PROVE  PhasesExact'
    BY <1>1 DEF PhasesExact
  <1>2. ASSUME NEW ps, fgoEscMark(ps), UNCHANGED <<lock, spc, tabNil, marking, cyc, todo, rec>>,
               "counted" \in roots => "counted" \in roots', roots' \subseteq roots
        PROVE  PhasesExact'
    BY <1>2, MarkPhases, PhasesKeep
  <1>3. ASSUME NEW g \in G, Nogc(g) PROVE PhasesExact'
    <2>1. ASSUME NEW s \in Slot, NEW t \in Slot, fgoRCStoreGC(g, s, t) PROVE PhasesExact'
      <3>1. <<loc[g][s], loc[g][t]>> \in Seq(Obj)
        BY <2>1 DEF fgoRCStoreGC, TypeOK, Ref
      <3> QED
        BY <2>1, <3>1, CallPhases DEF fgoRCStoreGC
    <2>2. ASSUME NEW s \in Slot, NEW then, Escape(g, s, then) PROVE PhasesExact'
      <3>1. <<loc[g][s]>> \in Seq(Obj)
        BY <2>2 DEF Escape, TypeOK, Ref
      <3> QED
        BY <2>2, <3>1, CallPhases DEF Escape
    <2>3. ASSUME NEW s \in Slot, DropLocal(g, s) \/ TakeTraced(g, s) PROVE PhasesExact'
      BY <1>1, <2>3 DEF DropLocal, TakeTraced, escVars, gcVars, swVars
    <2>4. ASSUME NEW s \in Slot, NEW t \in Slot, NEW o \in Obj, Construct(g, s, t, o)
          PROVE  PhasesExact'
      BY <1>1, <2>4 DEF Construct, escVars, gcVars, swVars
    <2>5. ASSUME NEW s \in Slot, NEW t \in Slot, LoadField(g, s, t) PROVE PhasesExact'
      BY <1>1, <2>5 DEF LoadField, escVars, gcVars, swVars
    <2> QED
      BY <1>3, <2>1, <2>2, <2>3, <2>4, <2>5 DEF Nogc
  <1>4. ASSUME NEW g \in G, Handoff(g) PROVE PhasesExact'
    <2>0. hand[g] \in HandState
      BY DEF TypeOK
    <2>1. CASE HandObj(g)
      BY <2>0, <2>1, CallPhases DEF HandObj, HandState, HandCall
    <2>2. CASE HandField(g)
      <3> DEFINE c == fld[hand[g].work[Len(hand[g].work)]]
      <3>1. (c \in Obj /\ fgoHandOne(c)) \/ NoHand
        <4>1. hand[g].work \in Seq(Obj) /\ hand[g].work # <<>>
          BY <2>0, <2>2 DEF HandState, HandCall, HandField
        <4>2. c \in Ref
          BY <4>1 DEF TypeOK
        <4> QED
          BY <2>2, <4>2 DEF HandField, Ref
      <3> HIDE DEF c
      <3>2. UNCHANGED <<lock, spc, tabNil, marking, cyc, todo, roots, grey>>
        BY <2>2 DEF HandField, gcVars, swVars
      <3>3. CASE NoHand
        BY <1>1, <3>2, <3>3 DEF NoHand
      <3> QED
        BY <3>1, <3>2, <3>3, HandPhases, PhasesKeep DEF PhasesExact
    <2>3. CASE HandDec(g) \/ PassTraced(g) \/ fgoWeakHandle(g)
      BY <1>1, <2>3 DEF HandDec, PassTraced, fgoWeakHandle, escVars, gcVars, swVars
    <2>4. CASE StoreGlobal(g)
      BY <1>2, <2>4 DEF StoreGlobal, escVars, gcVars, swVars
    <2>5. CASE StoreField(g)
      BY <1>2, <2>5 DEF StoreField, escVars, gcVars, swVars
    <2> QED
      BY <1>4, <2>1, <2>2, <2>3, <2>4, <2>5 DEF Handoff
  <1>5. ASSUME NEW g \in G, Traced(g) PROVE PhasesExact'
    <2>1. CASE LoadGlobal(g) \/ LoadTracedField(g) \/ ForgetTraced(g)
      BY <1>1, <2>1 DEF LoadGlobal, LoadTracedField, ForgetTraced, escVars, gcVars, swVars
    <2>2. CASE ClearGlobal(g)
      BY <1>2, <2>2 DEF ClearGlobal, escVars, gcVars, swVars
    <2>3. CASE fgoMakeStrong(g)
      BY <1>2, <2>3 DEF fgoMakeStrong, ShadeStrong, escVars, gcVars, swVars
    <2> QED
      BY <1>5, <2>1, <2>2, <2>3 DEF Traced
  <1>6. CASE gcStart
    BY <1>6 DEF gcStart, PhasesExact, NoRace, Jobs, escVars, swVars
  <1>7. ASSUME NEW g \in G, ScanStack(g) PROVE PhasesExact'
    <2>1. g # "counted"
      BY ConstAssumption
    <2> QED
      BY <1>2, <1>7, <2>1 DEF ScanStack, escVars, swVars
  <1>8. CASE ScanGlobals
    BY <1>2, <1>8 DEF ScanGlobals, escVars, swVars
  <1>9. CASE MarkCountedBegin
    BY <1>9 DEF MarkCountedBegin, PhasesExact, NoLock, gcVars
  <1>10. CASE MarkCountedRec
    <2>1. marking /\ todo \subseteq rec /\ rec \subseteq Obj
      BY <1>10 DEF MarkCountedRec, PhasesExact, NoLock, TypeOK
    <2>2. PICK o \in todo :
            LET R == {x \in {o} : StillCounted(x) /\ mark[x] # cyc}
            IN  /\ mark' = [x \in Obj |-> IF x \in R THEN cyc ELSE mark[x]]
                /\ grey' = grey \cup R
                /\ todo' = todo \ {o}
      BY <1>10 DEF MarkCountedRec
    <2>3. \A x \in grey' : x \in rec /\ mark'[x] = cyc
      BY <2>1, <2>2 DEF PhasesExact
    <2> QED
      BY <1>10, <2>1, <2>2, <2>3 DEF MarkCountedRec, PhasesExact, gcVars, escVars
  <1>11. CASE MarkCountedEnd
    BY <1>11 DEF MarkCountedEnd, PhasesExact, NoLock, swVars
  <1>12. CASE ScanObj
    <2>1. PICK o \in grey :
            /\ mark' = [x \in Obj |-> IF x \in Reached({fld[o]}) THEN cyc ELSE mark[x]]
            /\ grey' = (grey \cup Reached({fld[o]})) \ {o}
      BY <1>12 DEF ScanObj
    <2>2. Reached({fld[o]}) \subseteq rec /\ rec \subseteq Obj /\ marking
      BY DEF Reached, TypeOK, PhasesExact
    <2>3. \A x \in grey' : x \in rec /\ mark'[x] = cyc
      BY <2>1, <2>2 DEF PhasesExact
    <2> QED
      BY <1>12, <2>2, <2>3, PhasesKeep DEF ScanObj, gcVars, escVars, swVars
  <1>13. CASE gcMarkTermination
    BY <1>13 DEF gcMarkTermination, PhasesExact, escVars
  <1>14. CASE SweepBegin
    BY <1>14 DEF SweepBegin, PhasesExact, NoLock, gcVars
  <1>15. CASE SweepRec
    <2>1. PICK o \in todo :
            /\ todo' = todo \ {o}
            /\ \/ Condemned(o) /\ rec' = rec \ {o} /\ mark' = [mark EXCEPT ![o] = 0]
               \/ UNCHANGED <<rec, mark>>
      BY <1>15 DEF SweepRec
    <2>2. UNCHANGED <<cyc, marking, roots, grey, spc, tabNil, lock>> /\ spc = "sweep"
      BY <1>15 DEF SweepRec, gcVars
    <2>3. o \in rec
      BY <2>1, <2>2 DEF PhasesExact, NoLock
    <2>4. \A x \in grey : x \in rec' /\ mark'[x] = cyc
      BY <2>1, <2>2, <2>3, CondemnedOld DEF PhasesExact, TypeOK
    <2> QED
      BY <2>1, <2>2, <2>4 DEF PhasesExact
  <1>16. CASE SweepRebuild
    BY <1>16 DEF SweepRebuild, PhasesExact, NoRace, gcVars
  <1>17. CASE SweepUnlock
    BY <1>17 DEF SweepUnlock, PhasesExact, NoLock, gcVars
  <1>18. CASE SweepFree
    BY <1>1, <1>18 DEF SweepFree, gcVars, escVars
  <1>19. CASE SweepEnd
    BY <1>19 DEF SweepEnd, PhasesExact, gcVars, escVars
  <1>20. CASE UNCHANGED vars
    BY <1>1, <1>20 DEF vars, gcVars, escVars, swVars
  <1> QED
    BY <1>3, <1>4, <1>5, <1>6, <1>7, <1>8, <1>9, <1>10, <1>11, <1>12, <1>13, <1>14, <1>15,
       <1>16, <1>17, <1>18, <1>19, <1>20 DEF Next, Marker, Sweeper

-----------------------------------------------------------------------------
(* Counting.                                                                *)

(* The sets of references that count an object are finite. *)
LEMMA HoldersFinite ==
    ASSUME NEW o
    PROVE  /\ IsFiniteSet(Locals(o)) /\ IsFiniteSet(Fields(o)) /\ IsFiniteSet(Decs(o))
           /\ Cardinality(Locals(o)) \in Nat /\ Cardinality(Fields(o)) \in Nat
           /\ Cardinality(Decs(o)) \in Nat
  <1>1. IsFiniteSet(G \X Slot)
    BY ConstAssumption, FS_Product
  <1>2. Locals(o) \in SUBSET (G \X Slot) /\ Fields(o) \in SUBSET Obj /\ Decs(o) \in SUBSET G
    BY DEF Locals, Fields, Decs
  <1>3. IsFiniteSet(Locals(o)) /\ IsFiniteSet(Fields(o)) /\ IsFiniteSet(Decs(o))
    BY <1>1, <1>2, ConstAssumption, FS_Subset
  <1> QED
    BY <1>3, FS_CardinalityType

(* An object that something counts has a count. *)
LEMMA Holders ==
    ASSUME CountSum, NEW o \in Obj, st[o] # "none"
    PROVE  /\ cnt[o] \in Nat
           /\ cnt[o] = 0 <=> Locals(o) = {} /\ Fields(o) = {} /\ Decs(o) = {}
  <1>1. cnt[o] = Cardinality(Locals(o)) + Cardinality(Fields(o)) + Cardinality(Decs(o))
    BY DEF CountSum
  <1>2. /\ Cardinality(Locals(o)) = 0 <=> Locals(o) = {}
        /\ Cardinality(Fields(o)) = 0 <=> Fields(o) = {}
        /\ Cardinality(Decs(o)) = 0 <=> Decs(o) = {}
    BY HoldersFinite, FS_EmptySet
  <1> QED
    BY <1>1, <1>2, HoldersFinite

(* An object with count 1 has one reference that counts it. *)
LEMMA OneHolder ==
    ASSUME CountSum, NEW o \in Obj, st[o] # "none", cnt[o] = 1
    PROVE  /\ \A a \in Locals(o) : Locals(o) = {a} /\ Fields(o) = {} /\ Decs(o) = {}
           /\ \A y \in Fields(o) : Fields(o) = {y} /\ Locals(o) = {} /\ Decs(o) = {}
           /\ Decs(o) # {} => Locals(o) = {} /\ Fields(o) = {}
  <1>1. 1 = Cardinality(Locals(o)) + Cardinality(Fields(o)) + Cardinality(Decs(o))
    BY DEF CountSum
  <1>2. /\ Cardinality(Locals(o)) = 0 <=> Locals(o) = {}
        /\ Cardinality(Fields(o)) = 0 <=> Fields(o) = {}
        /\ Cardinality(Decs(o)) = 0 <=> Decs(o) = {}
    BY HoldersFinite, FS_EmptySet
  <1>3. /\ Cardinality(Locals(o)) = 1 => \E x : Locals(o) = {x}
        /\ Cardinality(Fields(o)) = 1 => \E x : Fields(o) = {x}
    BY HoldersFinite, FS_Singleton
  <1>4. ASSUME NEW a \in Locals(o) PROVE Locals(o) = {a} /\ Fields(o) = {} /\ Decs(o) = {}
    <2>1. Cardinality(Locals(o)) = 1 /\ Cardinality(Fields(o)) = 0 /\ Cardinality(Decs(o)) = 0
      BY <1>1, <1>2, HoldersFinite
    <2> QED
      BY <1>2, <1>3, <2>1
  <1>5. ASSUME NEW y \in Fields(o) PROVE Fields(o) = {y} /\ Locals(o) = {} /\ Decs(o) = {}
    <2>1. Cardinality(Fields(o)) = 1 /\ Cardinality(Locals(o)) = 0 /\ Cardinality(Decs(o)) = 0
      BY <1>1, <1>2, HoldersFinite
    <2> QED
      BY <1>2, <1>3, <2>1
  <1>6. ASSUME Decs(o) # {} PROVE Locals(o) = {} /\ Fields(o) = {}
    BY <1>1, <1>2, <1>6, HoldersFinite
  <1> QED
    BY <1>4, <1>5, <1>6

(* What fgoRCHandoff has on its worklist is handed off and was reached. *)
LEMMA WorkLive ==
    ASSUME TypeOK, NEW own \in [Obj -> G \cup {Nil}], Owned(own), NEW x, InWork(x)
    PROVE  x \in Obj /\ x \in Live /\ st[x] = "handed"
  <1>0. PICK g \in G : \E i \in 1 .. Len(hand[g].work) : hand[g].work[i] = x
    BY DEF InWork
  <1>1. PICK i \in 1 .. Len(hand[g].work) : hand[g].work[i] = x
    BY <1>0
  <1>2. own[x] = g /\ st[x] = "handed"
    BY <1>1 DEF Owned
  <1>3. hand[g].work \in Seq(Obj)
    BY DEF TypeOK, HandState, HandCall
  <1>4. x \in Obj
    BY <1>1, <1>3
  <1> QED
    BY <1>2, <1>4 DEF Owned

(* Nogc code counts only what a cycle has reached. *)
LEMMA CountedIsLive ==
    ASSUME TypeOK, RecInv, RefInv
    PROVE  CountedLive
  <1> SUFFICES ASSUME NEW o \in rec, cnt[o] # 0 PROVE o \in Live
    BY DEF CountedLive
  <1>1. o \in Obj /\ st[o] = "handed"
    BY DEF RecInv, RecordsExact, TypeOK
  <1>2. PICK own \in [Obj -> G \cup {Nil}] : Owned(own)
    BY DEF RefInv, OwnExact
  <1>3. Locals(o) # {} \/ Fields(o) # {} \/ Decs(o) # {}
    BY <1>1, Holders DEF RefInv
  <1>4. ASSUME NEW gs \in Locals(o) PROVE o \in Good
    <2>1. gs[1] \in G /\ gs[2] \in Slot /\ loc[gs[1]][gs[2]] = o
      BY DEF Locals
    <2> QED
      BY <1>1, <2>1, ConstAssumption DEF RefInv, RefsGood
  <1>5. ASSUME NEW y \in Fields(o) PROVE o \in Good
    <2>1. y \in Obj /\ fld[y] = o /\ (st[y] = "counted" \/ InWork(y))
      BY DEF Fields
    <2>2. y \in Good
      BY <1>2, <2>1, WorkLive DEF Good
    <2> QED
      BY <1>1, <2>1, <2>2, ConstAssumption DEF RefInv, RefsGood
  <1>6. ASSUME NEW g \in Decs(o) PROVE o \in Good
    BY DEF Decs, RefInv, HandsExact, HandExact, Good
  <1>7. o \in Good
    BY <1>3, <1>4, <1>5, <1>6
  <1> QED
    BY <1>1, <1>7 DEF Good

(* The count of an object is the number of its counting references. *)
LEMMA HoldersCard ==
    ASSUME NEW o
    PROVE  Cardinality(CountingHolders(o)) =
              Cardinality(Locals(o)) + Cardinality(Fields(o)) + Cardinality(Decs(o))
  <1> DEFINE A == Locals(o)  F == Fields(o)  D == Decs(o)
             B == {<<"field", x>> : x \in F}
             C == {<<"dec", g>> : g \in D}
  <1>1. CountingHolders(o) = (A \cup B) \cup C
    BY DEF CountingHolders, Locals, Fields, Decs
  <1>2. A \cap B = {} /\ (A \cup B) \cap C = {}
    <2>1. ASSUME NEW a \in A PROVE a \notin B /\ a \notin C
      <3>1. a[1] \in G
        BY DEF Locals
      <3>2. a[1] # "field" /\ a[1] # "dec"
        BY <3>1, ConstAssumption
      <3> QED
        BY <3>2
    <2>2. ASSUME NEW b \in B PROVE b \notin C
      OBVIOUS
    <2> QED
      BY <2>1, <2>2
  <1>3. IsFiniteSet(B) /\ Cardinality(B) = Cardinality(F) /\ IsFiniteSet(C) /\ Cardinality(C) = Cardinality(D)
    BY TagCard, HoldersFinite
  <1> HIDE DEF A, B, C, F, D
  <1>4. IsFiniteSet(A) /\ Cardinality(A) \in Nat /\ Cardinality(F) \in Nat /\ Cardinality(D) \in Nat
    BY HoldersFinite DEF A, F, D
  <1>5. Cardinality({}) = 0
    BY FS_EmptySet
  <1>6. IsFiniteSet(A \cup B) /\ Cardinality(A \cup B) = Cardinality(A) + Cardinality(B) - Cardinality(A \cap B)
    BY <1>3, <1>4, FS_Union
  <1>7. Cardinality((A \cup B) \cup C) = Cardinality(A \cup B) + Cardinality(C) - Cardinality((A \cup B) \cap C)
    BY <1>3, <1>6, FS_Union
  <1>a. Cardinality(A \cap B) = 0 /\ Cardinality((A \cup B) \cap C) = 0
    BY <1>2, <1>5
  <1>8. Cardinality((A \cup B) \cup C) = Cardinality(A) + Cardinality(F) + Cardinality(D)
    BY <1>a, <1>3, <1>4, <1>6, <1>7
  <1> QED
    BY <1>1, <1>8 DEF A, F, D

(* The invariant's sum is what the model calls exact counts. *)
LEMMA CountsFromSum ==
    ASSUME CountSum
    PROVE  CountsExact
  BY HoldersCard DEF CountSum, CountsExact

(* Whatever the program can reach is counted or has been reached by the GC. *)
LEMMA ReachableGood ==
    ASSUME TypeOK, RecInv, RefsGood
    PROVE  NoUseAfterFree /\ WeakCleared
  <1>1. Good \in SUBSET Obj
    BY DEF Good, Live, TypeOK
  <1>2. RootRefs \subseteq Good
    BY DEF RootRefs, RefsGood, Good
  <1>3. \A y \in Good : fld[y] # Nil => fld[y] \in Good
    BY DEF RefsGood
  <1>4. Reachable \subseteq Good
    BY <1>1, <1>2, <1>3 DEF Reachable
  <1>5. \A o \in Good : st[o] # "none" /\ o \notin dropped
    BY DEF Good, Live, RecInv, RecordsExact, TypeOK
  <1> QED
    BY <1>4, <1>5 DEF NoUseAfterFree, WeakCleared, RefsGood

-----------------------------------------------------------------------------
(* Steps of the marker and of the sweeper.                                  *)

(* A step that leaves the program's references alone. *)
LEMMA QuietRefs ==
    ASSUME RefInv, UNCHANGED <<st, cnt, fld, loc, gl, glob, hand>>, Live' = Live,
           weak' = weak \/ weak' = Nil, weak' # Nil => weak' \in rec'
    PROVE  RefInv'
  <1>1. Good' = Good
    BY DEF Good
  <1>2. \A x : InWork(x)' = InWork(x)
    BY DEF InWork
  <1>3. RefsGood'
    BY <1>1, <1>2 DEF RefInv, RefsGood
  <1>4. HandsExact'
    BY <1>1 DEF RefInv, HandsExact, HandExact
  <1>5. OwnExact'
    <2>1. PICK own \in [Obj -> G \cup {Nil}] : Owned(own)
      BY DEF RefInv, OwnExact
    <2>2. \A g : ReachOwn(own, g)' = ReachOwn(own, g)
      BY DEF ReachOwn
    <2>3. Owned(own)'
      BY <1>1, <2>1, <2>2 DEF Owned
    <2> QED
      BY <2>3 DEF OwnExact
  <1>6. CountSum'
    BY <1>2 DEF RefInv, CountSum, Locals, Fields, Decs
  <1> QED
    BY <1>3, <1>4, <1>5, <1>6 DEF RefInv

(* Marking what the last cycle reached keeps the set of what cycles reached. *)
LEMMA MarkLive ==
    ASSUME TypeOK, NEW ps, fgoEscMark(ps), ps \cap rec \subseteq Live, UNCHANGED <<rec, cyc, target>>
    PROVE  Live' = Live
  BY DEF TypeOK, fgoEscMark, Reached, Live

(* The references of the program that have a record are live. *)
LEMMA RefsLive ==
    ASSUME TypeOK, RecInv, RefsGood
    PROVE  /\ Good \cap rec \subseteq Live
           /\ \A g \in G : ({gl[g]} \cup {loc[g][s] : s \in Slot}) \cap rec \subseteq Live
           /\ {glob} \cap rec \subseteq Live
           /\ \A x \in Good : {fld[x]} \cap rec \subseteq Live
  <1>1. Nil \notin rec
    BY ConstAssumption DEF TypeOK
  <1>2. Good \cap rec \subseteq Live
    BY DEF Good, RecInv, RecordsExact, TypeOK
  <1> QED
    BY <1>1, <1>2 DEF RefsGood

(* The marker, until the cycle ends, keeps RefInv. *)
LEMMA MarkerRefs ==
    ASSUME TypeOK, RecInv, PhasesExact, CyclesExact, RefInv, Marker, ~gcMarkTermination
    PROVE  RefInv' /\ Live' = Live
  <1> USE DEF objVars, refVars, escVars, gcVars, swVars
  <1>0. RefsGood /\ (weak # Nil => weak \in rec)
    BY DEF RefInv, RefsGood
  <1>1. ASSUME NEW g \in G, ScanStack(g) PROVE RefInv' /\ Live' = Live
    <2>1. Live' = Live
      BY <1>0, <1>1, RefsLive, MarkLive DEF ScanStack
    <2> QED
      BY <1>0, <1>1, <2>1, QuietRefs DEF ScanStack
  <1>2. CASE ScanGlobals
    <2>1. Live' = Live
      BY <1>0, <1>2, RefsLive, MarkLive DEF ScanGlobals
    <2> QED
      BY <1>0, <1>2, <2>1, QuietRefs DEF ScanGlobals
  <1>3. CASE MarkCountedBegin
    <2>1. Live' = Live
      BY <1>3 DEF MarkCountedBegin, Live
    <2> QED
      BY <1>0, <1>3, <2>1, QuietRefs DEF MarkCountedBegin
  <1>4. CASE MarkCountedRec
    <2>1. CountedLive /\ todo \subseteq rec
      BY <1>4, CountedIsLive DEF MarkCountedRec, PhasesExact, NoLock
    <2>2. Live' = Live
      BY <1>4, <2>1 DEF MarkCountedRec, Live, CountedLive, StillCounted, TypeOK
    <2> QED
      BY <1>0, <1>4, <2>2, QuietRefs DEF MarkCountedRec
  <1>5. CASE MarkCountedEnd
    <2>1. Live' = Live
      BY <1>5 DEF MarkCountedEnd, Live
    <2> QED
      BY <1>0, <1>5, <2>1, QuietRefs DEF MarkCountedEnd
  <1>6. CASE ScanObj
    <2>1. PICK o \in grey : mark' = [x \in Obj |-> IF x \in Reached({fld[o]}) THEN cyc ELSE mark[x]]
      BY <1>6 DEF ScanObj
    <2>2. o \in Good
      BY DEF PhasesExact, Good, Live
    <2>3. {fld[o]} \cap rec \subseteq Live
      BY <1>0, <2>2, RefsLive
    <2>4. Live' = Live
      BY <1>6, <2>1, <2>3 DEF ScanObj, Live, Reached, TypeOK
    <2> QED
      BY <1>0, <1>6, <2>4, QuietRefs DEF ScanObj
  <1> QED
    BY <1>1, <1>2, <1>3, <1>4, <1>5, <1>6 DEF Marker

(* A new cycle has reached nothing yet. *)
LEMMA StartRefs ==
    ASSUME TypeOK, CyclesExact, RefInv, gcStart
    PROVE  RefInv' /\ Live' = Live /\ \A o \in rec : mark[o] # cyc'
  <1> USE DEF objVars, refVars, escVars, gcVars, swVars
  <1>1. target = cyc /\ target' = target /\ cyc' = NextCycle(cyc) /\ UNCHANGED <<rec, mark>>
    BY DEF gcStart, CyclesExact
  <1>2. ASSUME NEW o \in rec PROVE mark[o] # cyc'
    <2>1. Age(mark[o]) <= MaxLag + 1 /\ Age(mark[o]) \in Nat
      BY Ages, ConstAssumption DEF CyclesExact
    <2>2. mark[o] \in 0 .. CycMod - 1 /\ cyc \in 0 .. CycMod - 1
      BY DEF TypeOK
    <2>3. Age(mark[o]) = IF cyc >= mark[o] THEN cyc - mark[o] ELSE cyc - mark[o] + CycMod
      BY <2>2, AgeIs DEF Age
    <2>4. cyc' = IF cyc = CycMod - 1 THEN 0 ELSE cyc + 1
      BY <1>1, <2>2, ConstAssumption DEF NextCycle
    <2> QED
      BY <2>1, <2>2, <2>3, <2>4, ConstAssumption
  <1>3. Live' = Live
    BY <1>1, <1>2 DEF Live
  <1>4. RefInv'
    BY <1>3, QuietRefs DEF gcStart, RefInv, RefsGood
  <1> QED
    BY <1>2, <1>3, <1>4

(* The sweeper condemns and frees only what no reference of the program leads to. *)
LEMMA SweeperRefs ==
    ASSUME TypeOK, RecInv, PhasesExact, CyclesExact, RefInv, Sweeper
    PROVE  RefInv' /\ Live' = Live
  <1> USE DEF objVars, refVars, escVars, gcVars, swVars
  <1>0. RefsGood /\ (weak # Nil => weak \in rec)
    BY DEF RefInv, RefsGood
  <1>1. CASE SweepBegin
    <2>1. Live' = Live
      BY <1>1 DEF SweepBegin, Live
    <2> QED
      BY <1>0, <1>1, <2>1, QuietRefs DEF SweepBegin
  <1>2. CASE SweepRec
    <2>1. PICK o \in todo :
             \/ Condemned(o) /\ rec' = rec \ {o} /\ mark' = [mark EXCEPT ![o] = 0] /\ weak' = ClearWeak(o)
             \/ UNCHANGED <<rec, mark, weak>>
      BY <1>2 DEF SweepRec
    <2>2. spc = "sweep" /\ o \in rec
      BY <1>2 DEF SweepRec, PhasesExact, NoLock
    <2>3. UNCHANGED <<st, cnt, fld, loc, gl, glob, hand, cyc, target>>
      BY <1>2 DEF SweepRec
    <2>4. CASE Condemned(o) /\ rec' = rec \ {o} /\ mark' = [mark EXCEPT ![o] = 0] /\ weak' = ClearWeak(o)
      <3>1. o \notin Live
        BY <2>2, <2>4, CondemnedOld
      <3>2. Live' = Live
        BY <2>3, <2>4, <3>1 DEF Live, TypeOK
      <3>3. (weak' = weak \/ weak' = Nil) /\ (weak' # Nil => weak' \in rec')
        BY <1>0, <2>4 DEF ClearWeak
      <3> QED
        BY <2>3, <3>2, <3>3, QuietRefs
    <2>5. CASE UNCHANGED <<rec, mark, weak>>
      <3>1. Live' = Live
        BY <2>3, <2>5 DEF Live
      <3> QED
        BY <1>0, <2>3, <2>5, <3>1, QuietRefs
    <2> QED
      BY <2>1, <2>4, <2>5
  <1>3. CASE SweepRebuild
    <2>1. Live' = Live
      BY <1>3 DEF SweepRebuild, Live
    <2> QED
      BY <1>0, <1>3, <2>1, QuietRefs DEF SweepRebuild
  <1>4. CASE SweepUnlock
    <2>1. Live' = Live
      BY <1>4 DEF SweepUnlock, Live
    <2> QED
      BY <1>0, <1>4, <2>1, QuietRefs DEF SweepUnlock
  <1>5. CASE SweepFree
    <2>1. PICK o \in dropped : st' = [st EXCEPT ![o] = "none"] /\ fld' = [fld EXCEPT ![o] = Nil]
      BY <1>5 DEF SweepFree
    <2>2. UNCHANGED <<cnt, loc, gl, glob, weak, hand, rec, mark, cyc, target>>
      BY <1>5 DEF SweepFree
    <2>3. o \in Obj /\ st[o] = "handed" /\ o \notin rec /\ o \notin Good
      BY DEF RecInv, RecordsExact, TypeOK, Good, Live
    <2>4. Live' = Live /\ Good' = Good
      BY <2>1, <2>2, <2>3 DEF Live, Good, TypeOK
    <2>5. \A x : InWork(x)' = InWork(x)
      BY <2>2 DEF InWork
    <2>6. \A x \in Good : x \in Obj /\ x # o /\ st'[x] = st[x] /\ fld'[x] = fld[x]
      BY <2>1, <2>3 DEF Good, Live, TypeOK
    <2>7. RefsGood'
      BY <1>0, <2>2, <2>4, <2>5, <2>6 DEF RefsGood
    <2>8. \A g \in G, s \in Slot : loc[g][s] # Nil => loc[g][s] # o
      BY <1>0, <2>3 DEF RefsGood
    <2>9. HandsExact'
      <3> SUFFICES ASSUME NEW g \in G PROVE HandExact(g)'
        BY DEF HandsExact, HandExact
      <3>1. hand[g].pc # "run" => st'[loc[g][hand[g].slot]] = st[loc[g][hand[g].slot]]
        BY <2>1, <2>8 DEF RefInv, HandsExact, HandExact, TypeOK, Ref
      <3>2. hand[g].pc # "run" /\ hand[g].then = "field" => st'[hand[g].base] = st[hand[g].base]
        BY <2>1, <2>8 DEF RefInv, HandsExact, HandExact, TypeOK, Ref
      <3> QED
        BY <2>2, <2>4, <3>1, <3>2 DEF RefInv, HandsExact, HandExact
    <2>10. PICK own \in [Obj -> G \cup {Nil}] : Owned(own)
      BY DEF RefInv, OwnExact
    <2>11. own[o] \notin G
      BY <2>3, <2>10 DEF Owned, Good
    <2>12. \A g \in G : ReachOwn(own, g)' = ReachOwn(own, g)
      <3> SUFFICES ASSUME NEW g \in G PROVE ReachOwn(own, g)' = ReachOwn(own, g)
        OBVIOUS
      <3>1. \A y \in Obj : own[y] = g => fld'[y] = fld[y]
        BY <2>1, <2>11
      <3> QED
        BY <2>2, <3>1 DEF ReachOwn
    <2>13. Owned(own)'
      <3>1. \A g \in G : \A i \in 1 .. Len(hand[g].work) : hand[g].work[i] # o
        BY <2>10, <2>11 DEF Owned
      <3>2. \A g \in G : \A i \in 1 .. Len(hand[g].work) : st'[hand[g].work[i]] = st[hand[g].work[i]]
        BY <2>1, <3>1, SMTT(30) DEF TypeOK, HandState, HandCall
      <3>3. \A x \in Obj : x # o => st'[x] = st[x]
        BY <2>1 DEF TypeOK
      <3>4. \A g \in G : \A i \in 1 .. Len(hand[g].work) : own[hand[g].work[i]] = g /\ st'[hand[g].work[i]] = "handed"
        BY <2>10, <3>2 DEF Owned
      <3>5. st'[o] = "none"
        BY <2>1, <2>3 DEF TypeOK
      <3>6. \A x \in Obj : st'[x] = "counted" => own[x] \in G
        BY <2>10, <3>3, <3>5 DEF Owned
      <3>7. \A g \in G, x \in Obj : own[x] = g =>
                  \/ st'[x] = "counted"
                  \/ x \in Live' /\ hand[g].pc # "run" /\ x \in ReachOwn(own, g)'
        BY <2>4, <2>10, <2>11, <2>12, <3>3 DEF Owned
      <3>8. \A x \in Good : fld'[x] # Nil /\ own[fld'[x]] # Nil => own[x] = own[fld'[x]]
        BY <2>6, <2>10 DEF Owned
      <3> QED
        BY <2>2, <2>4, <2>10, <3>4, <3>6, <3>7, <3>8 DEF Owned
    <2>14. CountSum'
      <3>1. ~InWork(o)
        BY <2>3, <2>10, WorkLive DEF Good
      <3>2. ASSUME NEW x \in Obj PROVE Locals(x)' = Locals(x) /\ Fields(x)' = Fields(x) /\ Decs(x)' = Decs(x)
        <4>1. Locals(x)' = Locals(x) /\ Decs(x)' = Decs(x)
          BY <2>2 DEF Locals, Decs
        <4>2. o \notin Fields(x) /\ o \notin Fields(x)'
          BY <2>1, <2>3, <2>5, <3>1 DEF Fields, TypeOK
        <4>3. \A y \in Obj : y # o => fld'[y] = fld[y] /\ st'[y] = st[y]
          BY <2>1 DEF TypeOK
        <4>4. \A y \in Obj : y \in Fields(x)' <=> y \in Fields(x)
          BY <2>5, <4>2, <4>3 DEF Fields
        <4>5. Fields(x) \subseteq Obj /\ Fields(x)' \subseteq Obj
          BY DEF Fields
        <4> QED
          BY <4>1, <4>4, <4>5
      <3>3. \A x \in Obj : st'[x] # "none" => st[x] # "none"
        BY <2>1 DEF TypeOK
      <3> QED
        BY <2>2, <3>2, <3>3 DEF RefInv, CountSum
    <2>15. OwnExact'
      BY <2>13 DEF OwnExact
    <2> QED
      BY <2>4, <2>7, <2>9, <2>14, <2>15 DEF RefInv
  <1>6. CASE SweepEnd
    <2>1. Live' = Live
      BY <1>6 DEF SweepEnd, Live
    <2> QED
      BY <1>0, <1>6, <2>1, QuietRefs DEF SweepEnd
  <1> QED
    BY <1>1, <1>2, <1>3, <1>4, <1>5, <1>6 DEF Sweeper

(* When a cycle ends, whatever the program refers to has been reached by it. *)
LEMMA TerminationRefs ==
    ASSUME TypeOK, RecInv, PhasesExact, CyclesExact, RefInv, Tricolor, gcMarkTermination
    PROVE  RefInv' /\ Live' = Live \ Pale
  <1> USE DEF objVars, refVars, escVars, gcVars, swVars
  <1>1. /\ marking /\ roots = {} /\ grey = {}
        /\ UNCHANGED <<st, cnt, fld, loc, gl, glob, weak, hand, rec, mark, cyc>> /\ target' = cyc
    BY DEF gcMarkTermination
  <1>2. Age(target) = 1 /\ target # cyc
    BY <1>1, Ages DEF CyclesExact
  <1>3. Live' = {o \in rec : mark[o] = cyc} /\ Live' = Live \ Pale
    BY <1>1, <1>2 DEF Live, Pale
  <1>4. Isolated(Pale)
    BY <1>1 DEF Isolated, CountedAhead
  <1>5. Unseen(Pale)
    BY <1>1, <1>4 DEF Tricolor, NoneSeen
  <1>6. /\ \A x \in Good : (st[x] = "counted" \/ InWork(x)) => fld[x] \notin Pale
        /\ \A g \in G : hand[g].pc = "dec" => hand[g].cur \notin Pale
    BY <1>1 DEF Tricolor, FieldsAhead, DecsAhead, CountedAhead
  <1>7. Good' = Good \ Pale
    <2>1. \A o \in Pale : st[o] = "handed" /\ o \in Live
      BY DEF Pale, Live, RecInv, RecordsExact, TypeOK
    <2> QED
      BY <1>1, <1>3, <2>1 DEF Good
  <1>8. \A x : InWork(x)' = InWork(x)
    BY <1>1 DEF InWork
  <1>9. ASSUME NEW x \in Good' PROVE fld[x] \notin Pale
    <2>1. CASE st[x] = "counted"
      BY <1>6, <1>7, <2>1
    <2>2. CASE x \in Live'
      BY <1>3, <1>5, <2>2 DEF Unseen
    <2> QED
      BY <1>1, <2>1, <2>2 DEF Good
  <1>10. RefsGood'
    BY <1>1, <1>3, <1>5, <1>7, <1>8, <1>9 DEF RefInv, RefsGood, Unseen
  <1>11. HandsExact'
    <2> SUFFICES ASSUME NEW g \in G PROVE HandExact(g)'
      BY DEF HandsExact, HandExact
    <2>1. hand[g].pc = "dec" => hand[g].cur \in Live'
      BY <1>3, <1>6 DEF RefInv, HandsExact, HandExact
    <2> QED
      BY <1>1, <2>1 DEF RefInv, HandsExact, HandExact
  <1>12. PICK own \in [Obj -> G \cup {Nil}] : Owned(own)
    BY DEF RefInv, OwnExact
  <1>13. \A g \in G : ReachOwn(own, g)' = ReachOwn(own, g)
    BY <1>1 DEF ReachOwn
  <1>14. ASSUME NEW g \in G PROVE ReachOwn(own, g) \subseteq Good'
    <2>1. Good' \in SUBSET Obj
      BY <1>1, <1>3 DEF Good, TypeOK
    <2>2. \A s \in Slot : loc[g][s] # Nil => loc[g][s] \in Good'
      BY <1>1, <1>10 DEF RefsGood
    <2>3. \A y \in Good' : fld[y] # Nil => fld[y] \in Good'
      BY <1>1, <1>10 DEF RefsGood
    <2> QED
      BY <2>1, <2>2, <2>3 DEF ReachOwn
  <1>15. Owned(own)'
    <2>1. ASSUME NEW g \in G, NEW o \in Obj, own[o] = g, st[o] # "counted"
          PROVE  o \in Live' /\ hand[g].pc # "run" /\ o \in ReachOwn(own, g)'
      <3>1. hand[g].pc # "run" /\ o \in ReachOwn(own, g)
        BY <1>12, <2>1 DEF Owned
      <3>2. o \in Good'
        BY <1>14, <3>1
      <3>3. o \in Live'
        BY <1>1, <2>1, <3>2 DEF Good
      <3> QED
        BY <1>13, <3>1, <3>3
    <2> QED
      BY <1>1, <1>7, <1>12, <2>1 DEF Owned
  <1>16. CountSum'
    BY <1>1, <1>8 DEF RefInv, CountSum, Locals, Fields, Decs
  <1>17. OwnExact'
    BY <1>15 DEF OwnExact
  <1> QED
    BY <1>3, <1>10, <1>11, <1>16, <1>17 DEF RefInv

-----------------------------------------------------------------------------
(* Steps of the program.                                                    *)

(* What a goroutine owns stays within its reach while its own part is not touched. *)
LEMMA ReachKeep ==
    ASSUME NEW own, NEW own2, NEW g, loc'[g] = loc[g],
           \A y \in Obj : own2[y] = g <=> own[y] = g,
           \A y \in Obj : own[y] = g => fld'[y] = fld[y]
    PROVE  ReachOwn(own2, g)' = ReachOwn(own, g)
  <1>1. \A T \in SUBSET Obj :
           (/\ \A s \in Slot : loc'[g][s] # Nil => loc'[g][s] \in T
            /\ \A y \in T : own2[y] = g /\ fld'[y] # Nil => fld'[y] \in T)
           <=> (/\ \A s \in Slot : loc[g][s] # Nil => loc[g][s] \in T
                /\ \A y \in T : own[y] = g /\ fld[y] # Nil => fld[y] \in T)
    OBVIOUS
  <1> QED
    BY <1>1 DEF ReachOwn

(* A call of fgoRCHandoff is not disturbed by steps of other goroutines. *)
LEMMA HandKeep ==
    ASSUME TypeOK, NEW g \in G, HandExact(g), hand'[g] = hand[g], loc'[g] = loc[g], Live \subseteq Live',
           \A s \in Slot : loc[g][s] # Nil /\ st'[loc[g][s]] = "counted" => st[loc[g][s]] = "counted"
    PROVE  HandExact(g)'
  BY DEF HandExact

(* What is in a hand-off's worklist is settled by who has the same worklist. *)
LEMMA WorkKeep ==
    ASSUME \A g \in G : hand'[g].work = hand[g].work
    PROVE  \A x : InWork(x)' <=> InWork(x)
  BY DEF InWork

(* Ordinary code moves traced pointers: none of them belongs to a goroutine. *)
LEMMA TracedRefs ==
    ASSUME RefInv, NEW own \in [Obj -> G \cup {Nil}], Owned(own),
           UNCHANGED <<st, cnt, fld, loc, hand, rec>>, Live' = Live,
           \A g \in G : gl'[g] # Nil => gl'[g] \in Live /\ own[gl'[g]] = Nil,
           glob' # Nil => glob' \in Live /\ own[glob'] = Nil,
           weak' # Nil => weak' \in rec /\ own[weak'] = Nil
    PROVE  RefInv'
  <1>1. Good' = Good
    BY DEF Good
  <1>2. \A x : InWork(x)' = InWork(x)
    BY DEF InWork
  <1>3. RefsGood'
    BY <1>1, <1>2 DEF RefInv, RefsGood
  <1>4. HandsExact'
    BY <1>1 DEF RefInv, HandsExact, HandExact
  <1>5. OwnExact'
    <2>1. \A g : ReachOwn(own, g)' = ReachOwn(own, g)
      BY DEF ReachOwn
    <2>2. Owned(own)'
      BY <1>1, <2>1 DEF Owned
    <2> QED
      BY <2>2 DEF OwnExact
  <1>6. CountSum'
    BY <1>2 DEF RefInv, CountSum, Locals, Fields, Decs
  <1> QED
    BY <1>3, <1>4, <1>5, <1>6 DEF RefInv

(* A weak pointer that can be made strong is to an object a cycle has reached. *)
LEMMA StrongLive ==
    ASSUME TypeOK, RecInv, CyclesExact, RefInv, NEW g \in G, fgoMakeStrong(g)
    PROVE  weak \in Live
  <1>1. weak \in rec /\ (Behind(LastCycle, mark[weak]) = 0 \/ cnt[weak] # 0)
    BY DEF fgoMakeStrong
  <1>2. CASE cnt[weak] # 0
    BY <1>1, <1>2, CountedIsLive DEF CountedLive
  <1>3. CASE Behind(LastCycle, mark[weak]) = 0
    <2>1. cyc \in 0 .. CycMod - 1 /\ target \in 0 .. CycMod - 1 /\ mark[weak] \in 0 .. CycMod - 1
      BY <1>1 DEF TypeOK
    <2>2. Age(mark[weak]) <= MaxLag + 2 /\ Age(target) <= MaxLag + 2
      BY <1>1, Ages, ConstAssumption DEF CyclesExact
    <2>3. LastCycle = target
      <3>1. CASE marking
        <4>1. (cyc - target) % CycMod = 1
          BY <3>1 DEF CyclesExact, Age
        <4>2. (cyc - target) % CycMod = IF cyc >= target THEN cyc - target ELSE cyc - target + CycMod
          BY <2>1, AgeIs
        <4>3. (cyc - 1) % CycMod = IF cyc >= 1 THEN cyc - 1 ELSE cyc - 1 + CycMod
          BY <2>1, AgeIs, ConstAssumption
        <4> QED
          BY <2>1, <3>1, <4>1, <4>2, <4>3, ConstAssumption DEF LastCycle
      <3>2. CASE ~marking
        BY <3>2 DEF LastCycle, CyclesExact
      <3> QED
        BY <3>1, <3>2
    <2>4. ~(Age(mark[weak]) > Age(target))
      BY <1>3, <2>1, <2>2, <2>3, BehindIs DEF Age
    <2> QED
      BY <1>1, <2>4, LiveAge, Ages
  <1> QED
    BY <1>1, <1>2, <1>3

(* Steps of ordinary code keep RefInv. *)
LEMMA TracedRefsStep ==
    ASSUME TypeOK, RecInv, PhasesExact, CyclesExact, RefInv, NEW g \in G, Traced(g)
    PROVE  RefInv' /\ Live' = Live
  <1> USE DEF objVars, refVars, escVars, gcVars, swVars
  <1>1. PICK own \in [Obj -> G \cup {Nil}] : Owned(own)
    BY DEF RefInv, OwnExact
  <1>2. /\ \A h \in G : gl[h] # Nil => gl[h] \in Live /\ own[gl[h]] = Nil
        /\ glob # Nil => glob \in Live /\ own[glob] = Nil
        /\ weak # Nil => weak \in rec /\ own[weak] = Nil
    BY <1>1 DEF RefInv, RefsGood, Owned
  <1>3. CASE LoadGlobal(g)
    <2>1. Live' = Live
      BY <1>3 DEF LoadGlobal, Live
    <2> QED
      BY <1>1, <1>2, <1>3, <2>1, TracedRefs DEF LoadGlobal, SetGl, TypeOK
  <1>4. CASE LoadTracedField(g)
    <2>1. Live' = Live
      BY <1>4 DEF LoadTracedField, Live
    <2>2. gl[g] \in Good /\ own[gl[g]] = Nil /\ st[gl[g]] = "handed" /\ gl[g] \in Obj
      BY <1>2, <1>4 DEF LoadTracedField, Good, Live, RecInv, RecordsExact, TypeOK
    <2>3. ~InWork(gl[g])
      BY <1>1, <2>2, ConstAssumption DEF InWork, Owned
    <2>4. fld[gl[g]] # Nil => fld[gl[g]] \in Live /\ own[fld[gl[g]]] = Nil
      BY <1>1, <2>2, <2>3 DEF RefInv, RefsGood, Good, Owned
    <2> QED
      BY <1>1, <1>2, <1>4, <2>1, <2>4, TracedRefs DEF LoadTracedField, SetGl, TypeOK
  <1>5. CASE ForgetTraced(g)
    <2>1. Live' = Live
      BY <1>5 DEF ForgetTraced, Live
    <2> QED
      BY <1>1, <1>2, <1>5, <2>1, TracedRefs DEF ForgetTraced, SetGl, TypeOK
  <1>6. CASE ClearGlobal(g)
    <2>1. Live' = Live
      BY <1>6, MarkLive, RefsLive DEF ClearGlobal, RefInv
    <2> QED
      BY <1>1, <1>2, <1>6, <2>1, TracedRefs DEF ClearGlobal
  <1>7. CASE fgoMakeStrong(g)
    <2>1. weak \in Live
      BY <1>7, StrongLive
    <2>2. Live' = Live
      <3>1. fgoEscMark({weak}) /\ UNCHANGED <<rec, cyc, target>>
        BY <1>7 DEF fgoMakeStrong, ShadeStrong
      <3> QED
        BY <2>1, <3>1, MarkLive
    <2> QED
      BY <1>1, <1>2, <1>7, <2>1, <2>2, TracedRefs DEF fgoMakeStrong, SetGl, TypeOK
  <1> QED
    BY <1>3, <1>4, <1>5, <1>6, <1>7 DEF Traced

\* What a goroutine still owns when its call of fgoRCHandoff ends.
Release(own, g) == [o \in Obj |-> IF own[o] = g /\ st[o] # "counted" THEN Nil ELSE own[o]]

(* When a call of fgoRCHandoff ends, what it was for is handed off. *)
LEMMA DoneFacts ==
    ASSUME TypeOK, RecInv, RefInv, NEW own \in [Obj -> G \cup {Nil}], Owned(own), NEW g \in G, HandDone(g)
    PROVE  LET v == loc[g][hand[g].slot]  b == hand[g].base IN
           /\ v \in Live /\ v \in Obj /\ st[v] = "handed" /\ Release(own, g)[v] = Nil
           /\ hand[g].slot \in Slot
           /\ hand[g].then = "field" => b \in Live /\ b \in Obj /\ st[b] = "handed" /\ own[b] \in {g, Nil}
           /\ \A x : own[x] \in {g, Nil} => ~InWork(x)
  <1> DEFINE v == loc[g][hand[g].slot]  b == hand[g].base
  <1>1. hand[g].pc = "hand" /\ hand[g].work = <<>> /\ hand[g].objs = <<>> /\ HandExact(g)
    BY DEF HandDone, RefInv, HandsExact
  <1>2. /\ hand[g].slot \in Slot /\ v # Nil /\ st[v] # "counted"
        /\ hand[g].then = "field" => b # Nil /\ st[b] # "counted" /\ \E s \in Slot : loc[g][s] = b
    BY <1>1 DEF HandExact
  <1>3. ASSUME NEW s \in Slot, loc[g][s] # Nil, st[loc[g][s]] # "counted"
        PROVE  LET x == loc[g][s] IN x \in Live /\ x \in Obj /\ st[x] = "handed" /\ own[x] \in {g, Nil}
    <2>1. loc[g][s] \in Good /\ own[loc[g][s]] \in {g, Nil}
      BY <1>3 DEF RefInv, RefsGood, Owned
    <2> QED
      BY <1>3, <2>1 DEF Good, Live, RecInv, RecordsExact, TypeOK
  <1>4. v \in Live /\ v \in Obj /\ st[v] = "handed" /\ own[v] \in {g, Nil}
    BY <1>2, <1>3
  <1>5. Release(own, g)[v] = Nil
    BY <1>4 DEF Release
  <1>6. hand[g].then = "field" => b \in Live /\ b \in Obj /\ st[b] = "handed" /\ own[b] \in {g, Nil}
    BY <1>2, <1>3
  <1>7. ASSUME NEW x, own[x] \in {g, Nil}, InWork(x) PROVE FALSE
    <2>1. PICK h \in G : \E i \in 1 .. Len(hand[h].work) : hand[h].work[i] = x
      BY <1>7 DEF InWork
    <2>2. own[x] = h
      BY <2>1 DEF Owned
    <2>3. h = g
      BY <1>7, <2>2, ConstAssumption
    <2> QED
      BY <1>1, <2>1, <2>3
  <1> QED
    BY <1>2, <1>4, <1>5, <1>6, <1>7

\* The end of a call of fgoRCHandoff by g, with the store of v it was for.
Finish(own, g, v) ==
    /\ HandDone(g) /\ v = loc[g][hand[g].slot]
    /\ hand' = [hand EXCEPT ![g] = Idle] /\ UNCHANGED <<st, rec>> /\ Live' = Live
    /\ \A h \in G : gl'[h] \in {gl[h], v}
    /\ glob' \in {glob, v} /\ weak' \in {weak, v}
    /\ \A h \in G, s \in Slot : loc'[h][s] = loc[h][s] \/ (h = g /\ loc'[h][s] = Nil)
    /\ \A x \in Obj : fld'[x] = fld[x] \/ (x \in Live /\ own[x] \in {g, Nil} /\ fld'[x] = v)

(* From there on what the goroutine handed off belongs to nobody. *)
LEMMA FinishRefs ==
    ASSUME TypeOK, TypeOK', RecInv, RefInv, NEW own \in [Obj -> G \cup {Nil}], Owned(own),
           NEW g \in G, NEW v, Finish(own, g, v)
    PROVE  RefsGood' /\ HandsExact' /\ OwnExact' /\ (\A x : InWork(x)' <=> InWork(x))
  <1> USE DEF Finish
  <1>1. /\ v \in Live /\ v \in Obj /\ st[v] = "handed" /\ Release(own, g)[v] = Nil
        /\ \A x : own[x] \in {g, Nil} => ~InWork(x)
    BY DoneFacts
  <1>2. Good' = Good /\ Good \subseteq Obj /\ Live \subseteq Obj
    BY DEF Good, Live, TypeOK
  <1>3. hand[g].work = <<>> /\ hand'[g] = Idle /\ \A h \in G : h # g => hand'[h] = hand[h]
    BY DEF HandDone, TypeOK
  <1>4. \A x : InWork(x)' <=> InWork(x)
    <2>1. \A h \in G : hand'[h].work = hand[h].work
      BY <1>3 DEF Idle
    <2> QED
      BY <2>1, WorkKeep
  <1>5. RefsGood'
    <2>1. \A h \in G, s \in Slot : loc'[h][s] # Nil => loc'[h][s] \in Good
      BY DEF RefInv, RefsGood
    <2>2. /\ \A h \in G : gl'[h] # Nil => gl'[h] \in Live
          /\ glob' # Nil => glob' \in Live
          /\ weak' # Nil => weak' \in rec
      BY <1>1 DEF RefInv, RefsGood, Live
    <2>3. ASSUME NEW x \in Good, fld'[x] # Nil
          PROVE  fld'[x] \in Good /\ (st[fld'[x]] = "counted" /\ st[x] # "counted" => InWork(x))
      <3>1. CASE fld'[x] = fld[x]
        BY <2>3, <3>1 DEF RefInv, RefsGood
      <3>2. CASE fld'[x] = v
        BY <1>1, <3>2 DEF Good
      <3> QED
        BY <1>2, <3>1, <3>2
    <2> QED
      BY <1>2, <1>4, <2>1, <2>2, <2>3 DEF RefsGood
  <1>6. HandsExact'
    <2> SUFFICES ASSUME NEW h \in G PROVE HandExact(h)'
      BY DEF HandsExact
    <2>1. CASE h = g
      BY <1>3, <2>1 DEF HandExact, Idle
    <2>2. CASE h # g
      <3>1. HandExact(h) /\ hand'[h] = hand[h]
        BY <1>3, <2>2 DEF RefInv, HandsExact
      <3>2. loc'[h] = loc[h]
        BY <2>2 DEF TypeOK
      <3> QED
        BY <3>1, <3>2, HandKeep
    <2> QED
      BY <2>1, <2>2
  <1>7. OwnExact'
    <2>0. PICK own2 : own2 = Release(own, g)
      OBVIOUS
    <2>a. \A o \in Obj : own2[o] = IF own[o] = g /\ st[o] # "counted" THEN Nil ELSE own[o]
      BY <2>0 DEF Release
    <2>1. own2 \in [Obj -> G \cup {Nil}]
      BY <2>0 DEF Release
    <2>2. \A o \in Obj : /\ own2[o] \in {own[o], Nil}
                         /\ own2[o] = Nil <=> (own[o] = Nil \/ (own[o] = g /\ st[o] # "counted"))
      BY <2>a, ConstAssumption
    <2>3. ASSUME NEW o \in Obj, st[o] = "counted" PROVE own2[o] \in G
      BY <2>3, <2>a DEF Owned
    <2>4. ASSUME NEW h \in G, NEW o \in Obj, own2[o] = h, st[o] # "counted"
          PROVE  o \in Live /\ hand'[h].pc # "run" /\ o \in ReachOwn(own2, h)'
      <3>1. own[o] = h /\ h # g
        BY <2>4, <2>a, ConstAssumption
      <3>2. o \in Live /\ hand[h].pc # "run" /\ o \in ReachOwn(own, h)
        BY <2>4, <3>1 DEF Owned
      <3>3. ReachOwn(own2, h)' = ReachOwn(own, h)
        <4>1. loc'[h] = loc[h]
          BY <3>1 DEF TypeOK
        <4>2. \A y \in Obj : own2[y] = h <=> own[y] = h
          BY <3>1, <2>a, ConstAssumption
        <4>3. \A y \in Obj : own[y] = h => fld'[y] = fld[y]
          BY <3>1, ConstAssumption
        <4> QED
          BY <4>1, <4>2, <4>3, ReachKeep
      <3> QED
        BY <1>3, <3>1, <3>2, <3>3
    <2>5. \A h \in G, s \in Slot : loc'[h][s] # Nil => own2[loc'[h][s]] \in {h, Nil}
      BY <2>2, SMTT(30) DEF Owned, TypeOK, Ref
    <2>b. own2[v] = Nil
      BY <1>1, <2>0
    <2>c. ASSUME NEW x \in Ref, x # Nil, own[x] = Nil PROVE own2[x] = Nil
      BY <2>2, <2>c DEF Ref
    <2>d. glob \in Ref /\ weak \in Ref /\ \A h \in G : gl[h] \in Ref
      BY DEF TypeOK
    <2>6. /\ \A h \in G : gl'[h] # Nil => own2[gl'[h]] = Nil
          /\ glob' # Nil => own2[glob'] = Nil
          /\ weak' # Nil => own2[weak'] = Nil
      BY <2>b, <2>c, <2>d DEF Owned
    <2>7. ASSUME NEW x \in Good, fld'[x] # Nil, own2[fld'[x]] # Nil PROVE own2[x] = own2[fld'[x]]
      <3>1. fld'[x] = fld[x] /\ fld[x] \in Obj /\ x \in Obj
        BY <1>1, <1>2, <2>7, <2>b DEF TypeOK, Ref
      <3>2. own2[fld[x]] = own[fld[x]] /\ own[x] = own[fld[x]]
        BY <2>2, <2>7, <3>1 DEF Owned
      <3>3. ASSUME own[x] = g, st[x] # "counted" PROVE FALSE
        <4>1. st[fld[x]] = "counted"
          BY <2>2, <2>7, <3>1, <3>2, <3>3
        <4>2. InWork(x)
          BY <2>7, <3>1, <3>3, <4>1 DEF RefInv, RefsGood
        <4> QED
          BY <1>1, <3>3, <4>2
      <3> QED
        BY <2>a, <3>1, <3>2, <3>3
    <2>8. ASSUME NEW h \in G, NEW i \in 1 .. Len(hand'[h].work)
          PROVE  own2[hand'[h].work[i]] = h /\ st[hand'[h].work[i]] = "handed"
      <3>1. h # g
        BY <1>3, <2>8 DEF Idle
      <3>2. hand'[h] = hand[h] /\ hand[h].work \in Seq(Obj)
        BY <1>3, <3>1 DEF TypeOK, HandState, HandCall
      <3>3. hand[h].work[i] \in Obj
        BY <2>8, <3>2
      <3>4. own[hand[h].work[i]] = h /\ st[hand[h].work[i]] = "handed"
        BY <2>8, <3>2 DEF Owned
      <3> QED
        BY <2>a, <3>1, <3>2, <3>3, <3>4
    <2>9. Owned(own2)'
      BY <1>2, <2>3, <2>4, <2>5, <2>6, <2>7, <2>8 DEF Owned
    <2> QED
      BY <2>1, <2>9 DEF OwnExact
  <1> QED
    BY <1>4, <1>5, <1>6, <1>7

(* The store at the end of a hand-off keeps RefInv. *)
LEMMA StoreRefs ==
    ASSUME TypeOK, TypeOK', RecInv, PhasesExact, RefInv, NEW g \in G,
           StoreGlobal(g) \/ PassTraced(g) \/ StoreField(g) \/ fgoWeakHandle(g)
    PROVE  RefInv' /\ Live' = Live
  <1> USE DEF objVars, refVars, escVars, gcVars, swVars
  <1>1. PICK own \in [Obj -> G \cup {Nil}] : Owned(own)
    BY DEF RefInv, OwnExact
  <1>2. PICK v : v = loc[g][hand[g].slot]
    OBVIOUS
  <1>3. /\ HandDone(g) /\ hand' = [hand EXCEPT ![g] = Idle] /\ UNCHANGED <<st, rec, cyc, target>>
    BY DEF StoreGlobal, PassTraced, StoreField, fgoWeakHandle
  <1>4. /\ v \in Live /\ v \in Obj /\ st[v] = "handed" /\ hand[g].slot \in Slot
        /\ \A x : own[x] \in {g, Nil} => ~InWork(x)
    BY <1>1, <1>2, <1>3, DoneFacts
  <1>5. \A o : Decs(o)' = Decs(o)
    BY <1>3 DEF Decs, HandDone, Idle, TypeOK
  <1>6. CASE ~StoreField(g)
    <2>1. UNCHANGED <<cnt, fld, loc>>
      BY <1>6 DEF StoreGlobal, PassTraced, fgoWeakHandle
    <2>2. (\A h \in G : gl'[h] \in {gl[h], v}) /\ glob' \in {glob, v} /\ weak' \in {weak, v}
      BY <1>2, <1>6 DEF StoreGlobal, PassTraced, fgoWeakHandle, TypeOK
    <2>3. Live' = Live
      <3>1. CASE StoreGlobal(g)
        <4>1. {glob, v} \cap rec \subseteq Live
          BY <1>4, RefsLive DEF RefInv
        <4>2. fgoEscMark({glob, v})
          BY <1>2, <3>1 DEF StoreGlobal
        <4> QED
          BY <1>3, <4>1, <4>2, MarkLive
      <3>2. CASE PassTraced(g) \/ fgoWeakHandle(g)
        BY <3>2 DEF PassTraced, fgoWeakHandle, Live
      <3> QED
        BY <1>6, <3>1, <3>2
    <2>4. RefsGood' /\ HandsExact' /\ OwnExact' /\ (\A x : InWork(x)' <=> InWork(x))
      <3>1. Finish(own, g, v)
        BY <1>2, <1>3, <2>1, <2>2, <2>3 DEF Finish
      <3> QED
        BY <1>1, <3>1, FinishRefs
    <2>5. CountSum'
      BY <1>3, <1>5, <2>1, <2>4 DEF RefInv, CountSum, Locals, Fields
    <2> QED
      BY <2>3, <2>4, <2>5 DEF RefInv
  <1>7. CASE StoreField(g)
    <2>1. PICK b, s : b = hand[g].base /\ s = hand[g].slot
      OBVIOUS
    <2>2. b \in Live /\ b \in Obj /\ st[b] = "handed" /\ own[b] \in {g, Nil}
      BY <1>1, <1>3, <1>7, <2>1, DoneFacts DEF StoreField
    <2>3. /\ fgoEscMark({fld[b], v}) /\ fld' = [fld EXCEPT ![b] = v]
          /\ cnt' = [cnt EXCEPT ![v] = @ - 1] /\ SetLoc(g, s, Nil) /\ UNCHANGED <<gl, glob, weak>>
      BY <1>2, <1>7, <2>1 DEF StoreField
    <2>4. Live' = Live
      <3>1. {fld[b], v} \cap rec \subseteq Live
        BY <1>4, <2>2, RefsLive DEF RefInv, Good
      <3> QED
        BY <1>3, <2>3, <3>1, MarkLive
    <2>5. \A h \in G, r \in Slot : loc'[h][r] = IF h = g /\ r = s THEN Nil ELSE loc[h][r]
      BY <2>3 DEF SetLoc, TypeOK
    <2>6. \A x \in Obj : fld'[x] = IF x = b THEN v ELSE fld[x]
      BY <2>3 DEF TypeOK
    <2>7. RefsGood' /\ HandsExact' /\ OwnExact' /\ (\A x : InWork(x)' <=> InWork(x))
      <3>1. \A h \in G, r \in Slot : loc'[h][r] = loc[h][r] \/ (h = g /\ loc'[h][r] = Nil)
        BY <2>5
      <3>2. \A x \in Obj : fld'[x] = fld[x] \/ (x \in Live /\ own[x] \in {g, Nil} /\ fld'[x] = v)
        BY <2>2, <2>6
      <3>3. (\A h \in G : gl'[h] \in {gl[h], v}) /\ glob' \in {glob, v} /\ weak' \in {weak, v}
        BY <2>3
      <3> QED
        <4>1. Finish(own, g, v)
          BY <1>2, <1>3, <2>4, <3>1, <3>2, <3>3 DEF Finish
        <4> QED
          BY <1>1, <4>1, FinishRefs
    <2>8. \A o : Fields(o)' = Fields(o)
      <3>1. ~InWork(b)
        BY <1>4, <2>2
      <3> QED
        BY <1>3, <2>2, <2>6, <2>7, <3>1 DEF Fields
    <2>9. ASSUME NEW o \in Obj
          PROVE  Cardinality(Locals(o))' = Cardinality(Locals(o)) - (IF o = v THEN 1 ELSE 0)
      <3>1. <<g, s>> \in Locals(v) /\ (o # v => <<g, s>> \notin Locals(o))
        BY <1>2, <1>4, <2>1 DEF Locals
      <3>2. <<g, s>> \notin Locals(o)'
        BY <2>5, <1>4, <2>1, ConstAssumption DEF Locals
      <3>3. Locals(o)' \ {<<g, s>>} = Locals(o) \ {<<g, s>>}
        BY <2>5 DEF Locals
      <3>4. IsFiniteSet(Locals(o)) /\ Cardinality(Locals(o)) \in Nat
        BY HoldersFinite
      <3> QED
        BY <3>1, <3>2, <3>3, <3>4, SetCard
    <2>10. CountSum'
      <3> SUFFICES ASSUME NEW o \in Obj, st'[o] # "none"
                   PROVE  cnt'[o] = Cardinality(Locals(o))' + Cardinality(Fields(o))' + Cardinality(Decs(o))'
        BY DEF CountSum
      <3>1. cnt[o] = Cardinality(Locals(o)) + Cardinality(Fields(o)) + Cardinality(Decs(o))
        BY <1>3 DEF RefInv, CountSum
      <3>2. cnt'[o] = cnt[o] - (IF o = v THEN 1 ELSE 0)
        BY <2>3 DEF TypeOK
      <3>3. Cardinality(Fields(o))' = Cardinality(Fields(o)) /\ Cardinality(Decs(o))' = Cardinality(Decs(o))
        BY <1>5, <2>8
      <3> QED
        BY <2>9, <3>1, <3>2, <3>3, HoldersFinite
    <2> QED
      BY <2>4, <2>7, <2>10 DEF RefInv
  <1> QED
    BY <1>6, <1>7

\* A step of g's call of fgoRCHandoff that hands off the objects of P, at most one.
Handing(own, g, P) ==
    /\ UNCHANGED <<fld, loc, gl, glob, weak>>
    /\ \A h \in G : h # g => hand'[h] = hand[h]
    /\ hand'[g].pc # "run"
    /\ P \subseteq Obj /\ \A p \in P : st[p] = "counted" /\ own[p] = g /\ p \in ReachOwn(own, g)
    /\ \A x \in Obj : st'[x] = IF x \in P THEN "handed" ELSE st[x]
    /\ Live' = Live \cup P /\ rec \subseteq rec'
    /\ HandExact(g)'
    /\ \A i \in 1 .. Len(hand'[g].work) : own[hand'[g].work[i]] = g /\ st'[hand'[g].work[i]] = "handed"
    /\ \A x \in Good : fld[x] # Nil /\ st'[fld[x]] = "counted" /\ st'[x] # "counted" => InWork(x)'

(* What is handed off still belongs to the goroutine that does it. *)
LEMMA HandingRefs ==
    ASSUME TypeOK, RecInv, RefInv, NEW own \in [Obj -> G \cup {Nil}], Owned(own),
           NEW g \in G, NEW P, Handing(own, g, P)
    PROVE  RefsGood' /\ HandsExact' /\ OwnExact'
  <1> USE DEF Handing
  <1>1. Good' = Good /\ Good \subseteq Obj
    BY DEF Good, Live, TypeOK
  <1>2. RefsGood'
    BY <1>1 DEF RefInv, RefsGood
  <1>3. HandsExact'
    <2> SUFFICES ASSUME NEW h \in G, h # g PROVE HandExact(h)'
      BY DEF HandsExact
    <2>1. \A s \in Slot : loc[h][s] # Nil /\ st'[loc[h][s]] = "counted" => st[loc[h][s]] = "counted"
      BY DEF TypeOK, Ref
    <2>2. HandExact(h) /\ hand'[h] = hand[h] /\ loc'[h] = loc[h] /\ Live \subseteq Live'
      BY DEF RefInv, HandsExact
    <2> QED
      BY <2>1, <2>2, HandKeep
  <1>4. \A h : ReachOwn(own, h)' = ReachOwn(own, h)
    BY DEF ReachOwn
  <1>5. \A o \in Obj : st'[o] = "counted" => own[o] \in G
    BY DEF Owned
  <1>6. ASSUME NEW h \in G, NEW o \in Obj, own[o] = h, st'[o] # "counted"
        PROVE  o \in Live' /\ hand'[h].pc # "run" /\ o \in ReachOwn(own, h)'
    BY <1>4, <1>6 DEF Owned
  <1>7. ASSUME NEW h \in G, NEW i \in 1 .. Len(hand'[h].work)
        PROVE  own[hand'[h].work[i]] = h /\ st'[hand'[h].work[i]] = "handed"
    <2>1. CASE h = g
      BY <2>1, <1>7
    <2>2. CASE h # g
      <3>1. hand'[h] = hand[h] /\ hand[h].work \in Seq(Obj)
        BY <2>2 DEF TypeOK, HandState, HandCall
      <3>2. own[hand[h].work[i]] = h /\ st[hand[h].work[i]] = "handed" /\ hand[h].work[i] \in Obj
        BY <1>7, <3>1 DEF Owned
      <3> QED
        BY <3>1, <3>2
    <2> QED
      BY <2>1, <2>2
  <1>8. Owned(own)'
    BY <1>1, <1>5, <1>6, <1>7 DEF Owned
  <1> QED
    BY <1>2, <1>3, <1>8 DEF OwnExact

(* fgoHandOne makes the object live: its record has the current cycle's stamp. *)
LEMMA HandOneLive ==
    ASSUME TypeOK, NEW p \in Obj, fgoHandOne(p), UNCHANGED <<cyc, target>>
    PROVE  /\ Live' = Live \cup {p} /\ rec \subseteq rec'
           /\ \A x \in Obj : st'[x] = IF x = p THEN "handed" ELSE st[x]
  BY DEF fgoHandOne, Live, TypeOK

(* The locals of a goroutine are within its reach. *)
LEMMA LocalReach ==
    ASSUME TypeOK, NEW own, NEW g \in G, NEW s \in Slot, loc[g][s] # Nil
    PROVE  loc[g][s] \in ReachOwn(own, g)
  BY DEF ReachOwn, TypeOK, Ref

(* A call of fgoRCHandoff keeps RefInv. *)
LEMMA CallRefs ==
    ASSUME TypeOK, RecInv, RefInv, NEW g \in G, NEW objs \in Seq(Obj), objs # <<>>, NEW then,
           NEW s \in Slot, NEW base \in Ref, CallHandoff(g, objs, then, s, base), hand[g].work = <<>>,
           hand[g].pc # "dec",
           \A i \in 1 .. Len(objs) : \E r \in Slot : loc[g][r] = objs[i],
           loc[g][s] # Nil,
           st[loc[g][s]] = "counted" => \E i \in 1 .. Len(objs) : objs[i] = loc[g][s],
           then = "field" => /\ base # Nil /\ \E r \in Slot : loc[g][r] = base
                             /\ st[base] = "counted" => \E i \in 1 .. Len(objs) : objs[i] = base
    PROVE  /\ RefInv' /\ Live' = Live \cup {x \in {Head(objs)} : st[x] = "counted"}
           /\ \A x : InWork(x)' <=> InWork(x) \/ (x = Head(objs) /\ st[x] = "counted")
  <1> USE DEF objVars, refVars, escVars, gcVars, swVars
  <1>1. PICK own \in [Obj -> G \cup {Nil}] : Owned(own)
    BY DEF RefInv, OwnExact
  <1>2. PICK p : p = Head(objs) /\ p = objs[1]
    OBVIOUS
  <1>3. PICK w : w = IF st[p] = "counted" THEN <<p>> ELSE <<>>
    OBVIOUS
  <1>4. PICK P : P = {x \in {p} : st[x] = "counted"}
    OBVIOUS
  <1>5. p \in Obj /\ Tail(objs) \in Seq(Obj) /\ Len(objs) \in Nat /\ Len(objs) >= 1
    BY <1>2
  <1>6. /\ Len(Tail(objs)) = Len(objs) - 1
        /\ \A i \in 1 .. Len(Tail(objs)) : Tail(objs)[i] = objs[i + 1]
    BY <1>5
  <1>7. \A x : (\E i \in 1 .. Len(objs) : objs[i] = x) => x = p \/ \E j \in 1 .. Len(Tail(objs)) : Tail(objs)[j] = x
    <2> SUFFICES ASSUME NEW i \in 1 .. Len(objs), objs[i] # p
                 PROVE  \E j \in 1 .. Len(Tail(objs)) : Tail(objs)[j] = objs[i]
      OBVIOUS
    <2>1. i # 1
      BY <1>2
    <2>2. i - 1 \in 1 .. Len(Tail(objs)) /\ Tail(objs)[i - 1] = objs[i]
      BY <1>5, <1>6, <2>1
    <2> QED
      BY <2>2
  <1>8. /\ hand' = [hand EXCEPT ![g] = [pc |-> "hand", objs |-> Tail(objs), work |-> w, cur |-> Nil,
                                        then |-> then, slot |-> s, base |-> base]]
        /\ UNCHANGED <<cnt, fld, loc, gl, glob, weak, cyc, target>>
        /\ IF st[p] = "counted" THEN fgoHandOne(p) ELSE NoHand
    BY <1>2, <1>3 DEF CallHandoff
  <1>9. /\ \A h \in G : h # g => hand'[h] = hand[h]
        /\ hand'[g].pc = "hand" /\ hand'[g].objs = Tail(objs) /\ hand'[g].work = w
        /\ hand'[g].then = then /\ hand'[g].slot = s /\ hand'[g].base = base
    BY <1>8 DEF TypeOK
  <1>10. /\ Live' = Live \cup P /\ rec \subseteq rec'
         /\ \A x \in Obj : st'[x] = IF x \in P THEN "handed" ELSE st[x]
    <2>1. CASE st[p] = "counted"
      BY <1>4, <1>5, <1>8, <2>1, HandOneLive
    <2>2. CASE st[p] # "counted"
      BY <1>4, <1>8, <2>2 DEF NoHand, Live
    <2> QED
      BY <2>1, <2>2
  <1>11. \A x : InWork(x)' <=> InWork(x) \/ x \in P
    <2>1. Len(w) = IF st[p] = "counted" THEN 1 ELSE 0
      BY <1>3
    <2>2. st[p] = "counted" => w[1] = p
      BY <1>3
    <2>3. \A x : (\E i \in 1 .. Len(w) : w[i] = x) <=> x \in P
      BY <1>4, <2>1, <2>2
    <2>4. \A x : ~\E i \in 1 .. Len(hand[g].work) : hand[g].work[i] = x
      OBVIOUS
    <2> QED
      BY <1>9, <2>3, <2>4 DEF InWork
  <1>12. PICK r \in Slot : loc[g][r] = p
    BY <1>2, <1>5
  <1>13. Handing(own, g, P)
    <2>1. ASSUME NEW x \in P PROVE x \in Obj /\ st[x] = "counted" /\ own[x] = g /\ x \in ReachOwn(own, g)
      <3>1. x = p /\ st[p] = "counted"
        BY <1>4, <2>1
      <3>2. own[p] \in G /\ own[p] \in {g, Nil}
        BY <1>1, <1>5, <1>12, <3>1, ConstAssumption DEF Owned
      <3>3. p \in ReachOwn(own, g)
        BY <1>5, <1>12, LocalReach, ConstAssumption
      <3> QED
        BY <1>5, <3>1, <3>2, <3>3, ConstAssumption
    <2>2. HandExact(g)'
      <3>1. ASSUME NEW x \in Obj, st[x] = "counted" => \E i \in 1 .. Len(objs) : objs[i] = x
            PROVE  st'[x] = "counted" => \E i \in 1 .. Len(Tail(objs)) : Tail(objs)[i] = x
        BY <1>4, <1>7, <1>10, <3>1
      <3>2. loc[g][s] \in Obj /\ (base # Nil => base \in Obj)
        BY DEF TypeOK, Ref
      <3>3. \A i \in 1 .. Len(Tail(objs)) : \E q \in Slot : loc[g][q] = Tail(objs)[i]
        BY <1>5, <1>6
      <3>4. Len(w) <= 1
        BY <1>3
      <3>5. then = "field" /\ st'[base] = "counted" => \E i \in 1 .. Len(Tail(objs)) : Tail(objs)[i] = base
        BY <3>1, <3>2
      <3>6. st'[loc[g][s]] = "counted" => \E i \in 1 .. Len(Tail(objs)) : Tail(objs)[i] = loc[g][s]
        BY <3>1, <3>2
      <3> QED
        <4>1. loc'[g] = loc[g]
          BY <1>8
        <4>2. loc'[g][hand'[g].slot] # Nil /\ hand'[g].slot \in Slot
          BY <1>9, <4>1
        <4>3. st'[loc'[g][hand'[g].slot]] = "counted" =>
                 \E i \in 1 .. Len(hand'[g].objs) : hand'[g].objs[i] = loc'[g][hand'[g].slot]
          BY <1>9, <3>6, <4>1
        <4>4. hand'[g].then = "field" =>
                 /\ hand'[g].base # Nil /\ \E q \in Slot : loc'[g][q] = hand'[g].base
                 /\ st'[hand'[g].base] = "counted" =>
                       \E i \in 1 .. Len(hand'[g].objs) : hand'[g].objs[i] = hand'[g].base
          BY <1>9, <3>5, <4>1
        <4>5. \A i \in 1 .. Len(hand'[g].objs) : \E q \in Slot : loc'[g][q] = hand'[g].objs[i]
          BY <1>9, <3>3, <4>1
        <4>6. hand'[g].pc = "hand" /\ Len(hand'[g].work) <= 1
          BY <1>9, <3>4
        <4> QED
          BY <4>2, <4>3, <4>4, <4>5, <4>6 DEF HandExact
    <2>3. \A i \in 1 .. Len(w) : own[w[i]] = g /\ st'[w[i]] = "handed"
      BY <1>3, <1>4, <1>5, <1>10, <2>1
    <2>4. ASSUME NEW x \in Good, fld[x] # Nil, st'[fld[x]] = "counted", st'[x] # "counted" PROVE InWork(x)'
      <3>1. fld[x] \in Obj /\ x \in Obj
        BY <2>4 DEF Good, Live, TypeOK, Ref
      <3>2. st[fld[x]] = "counted" /\ (st[x] # "counted" \/ x \in P)
        BY <1>10, <2>4, <3>1
      <3> QED
        BY <1>11, <2>4, <3>2 DEF RefInv, RefsGood
    <2> QED
      BY <1>8, <1>9, <1>10, <2>1, <2>2, <2>3, <2>4 DEF Handing
  <1>14. RefsGood' /\ HandsExact' /\ OwnExact'
    BY <1>1, <1>13, HandingRefs
  <1>15. CountSum'
    <2>1. ASSUME NEW o \in Obj PROVE Locals(o)' = Locals(o) /\ Fields(o)' = Fields(o) /\ Decs(o)' = Decs(o)
      <3>1. Locals(o)' = Locals(o)
        BY <1>8 DEF Locals
      <3>2. Decs(o)' = Decs(o)
        BY <1>9 DEF Decs
      <3>3. \A x \in Obj : (st'[x] = "counted" \/ InWork(x)') <=> (st[x] = "counted" \/ InWork(x))
        BY <1>4, <1>10, <1>11
      <3> QED
        BY <1>8, <3>1, <3>2, <3>3 DEF Fields
    <2>2. \A o \in Obj : st'[o] # "none" => st[o] # "none"
      BY <1>4, <1>10
    <2> QED
      BY <1>8, <2>1, <2>2 DEF RefInv, CountSum
  <1> QED
    BY <1>2, <1>4, <1>10, <1>11, <1>14, <1>15 DEF RefInv

\* Calls of fgoRCHandoff, and its steps from one object to the next.
Calls(g) ==
    \/ \E s \in Slot, then \in Escapes : Escape(g, s, then)
    \/ \E s, t \in Slot : fgoRCStoreGC(g, s, t)
    \/ HandObj(g)

\* What those steps do to p, the next object of the call.
Called(g, p) ==
    /\ p \in Obj /\ \E s \in Slot : loc[g][s] = p
    /\ hand[g].work = <<>> /\ hand[g].pc # "dec" /\ hand'[g].pc = "hand"
    /\ \A h \in G : h # g => hand'[h] = hand[h]
    /\ UNCHANGED <<cnt, fld, loc, gl, glob, weak, lock, todo, cyc, marking, roots, grey, target, spc>>
    /\ IF st[p] = "counted" THEN fgoHandOne(p) ELSE NoHand
    /\ Live' = Live \cup {x \in {p} : st[x] = "counted"}
    /\ \A x : InWork(x)' <=> InWork(x) \/ (x = p /\ st[x] = "counted")

(* Calls of fgoRCHandoff keep RefInv. *)
LEMMA CallsRefs ==
    ASSUME TypeOK, RecInv, RefInv, NEW g \in G, Calls(g)
    PROVE  RefInv' /\ \E p : Called(g, p)
  <1> USE DEF objVars, refVars, escVars, gcVars, swVars
  <1>1. ASSUME NEW objs \in Seq(Obj), objs # <<>>, NEW then, NEW s, NEW base,
               CallHandoff(g, objs, then, s, base), hand[g].work = <<>>, hand[g].pc # "dec",
               \A i \in 1 .. Len(objs) : \E r \in Slot : loc[g][r] = objs[i],
               Live' = Live \cup {x \in {Head(objs)} : st[x] = "counted"},
               \A x : InWork(x)' <=> InWork(x) \/ (x = Head(objs) /\ st[x] = "counted")
        PROVE  Called(g, Head(objs))
    <2>1. PICK p : p = Head(objs)
      OBVIOUS
    <2>2. p \in Obj /\ p = objs[1] /\ Len(objs) \in Nat /\ Len(objs) >= 1
      BY <1>1, <2>1
    <2>3. \E r \in Slot : loc[g][r] = p
      BY <1>1, <2>2
    <2>4. (\A h \in G : h # g => hand'[h] = hand[h]) /\ hand'[g].pc = "hand"
      BY <1>1 DEF CallHandoff, TypeOK
    <2>5. UNCHANGED <<cnt, fld, loc, gl, glob, weak, lock, todo, cyc, marking, roots, grey, target, spc>>
      BY <1>1 DEF CallHandoff
    <2>6. IF st[p] = "counted" THEN fgoHandOne(p) ELSE NoHand
      BY <1>1, <2>1 DEF CallHandoff
    <2> QED
      BY <1>1, <2>1, <2>2, <2>3, <2>4, <2>5, <2>6 DEF Called
  <1>2. HandExact(g)
    BY DEF RefInv, HandsExact
  <1>3. ASSUME NEW s \in Slot, NEW then \in Escapes, Escape(g, s, then)
        PROVE  RefInv' /\ \E p : Called(g, p)
    <2>1. PICK objs : objs = <<loc[g][s]>>
      OBVIOUS
    <2>2. loc[g][s] \in Obj /\ CallHandoff(g, objs, then, s, Nil) /\ loc[g][s] # Nil
      BY <1>3, <2>1 DEF Escape, TypeOK, Ref
    <2>3. objs \in Seq(Obj) /\ objs # <<>> /\ Len(objs) = 1 /\ objs[1] = loc[g][s]
      BY <2>1, <2>2
    <2>4. hand[g].work = <<>> /\ hand[g].pc # "dec"
      BY <1>2, <1>3 DEF Escape, Running, HandExact, Idle
    <2>5. then # "field" /\ Nil \in Ref
      BY ConstAssumption DEF EscapeKinds, Ref
    <2>6. /\ \A i \in 1 .. Len(objs) : \E r \in Slot : loc[g][r] = objs[i]
          /\ \E i \in 1 .. Len(objs) : objs[i] = loc[g][s]
      BY <2>3
    <2>7. /\ RefInv' /\ Live' = Live \cup {x \in {Head(objs)} : st[x] = "counted"}
          /\ \A x : InWork(x)' <=> InWork(x) \/ (x = Head(objs) /\ st[x] = "counted")
      BY <2>2, <2>3, <2>4, <2>5, <2>6, CallRefs
    <2> QED
      BY <1>1, <2>2, <2>3, <2>4, <2>6, <2>7
  <1>4. ASSUME NEW s \in Slot, NEW t \in Slot, fgoRCStoreGC(g, s, t)
        PROVE  RefInv' /\ \E p : Called(g, p)
    <2>1. PICK objs : objs = <<loc[g][s], loc[g][t]>>
      OBVIOUS
    <2>2. loc[g][s] \in Obj /\ loc[g][t] \in Obj /\ CallHandoff(g, objs, "field", t, loc[g][s])
      BY <1>4, <2>1 DEF fgoRCStoreGC, TypeOK, Ref
    <2>3. objs \in Seq(Obj) /\ objs # <<>> /\ Len(objs) = 2 /\ objs[1] = loc[g][s] /\ objs[2] = loc[g][t]
      BY <2>1, <2>2
    <2>4. hand[g].work = <<>> /\ hand[g].pc # "dec"
      BY <1>2, <1>4 DEF fgoRCStoreGC, Running, HandExact, Idle
    <2>5. loc[g][s] # Nil /\ loc[g][t] # Nil /\ loc[g][s] \in Ref
      BY <2>2, ConstAssumption DEF Ref
    <2>6. /\ \A i \in 1 .. Len(objs) : \E r \in Slot : loc[g][r] = objs[i]
          /\ \E i \in 1 .. Len(objs) : objs[i] = loc[g][t]
          /\ \E i \in 1 .. Len(objs) : objs[i] = loc[g][s]
          /\ \E r \in Slot : loc[g][r] = loc[g][s]
      BY <2>3
    <2>7. /\ RefInv' /\ Live' = Live \cup {x \in {Head(objs)} : st[x] = "counted"}
          /\ \A x : InWork(x)' <=> InWork(x) \/ (x = Head(objs) /\ st[x] = "counted")
      BY <2>2, <2>3, <2>4, <2>5, <2>6, CallRefs
    <2> QED
      BY <1>1, <2>2, <2>3, <2>4, <2>6, <2>7
  <1>5. CASE HandObj(g)
    <2>1. PICK objs, then, s, base :
             objs = hand[g].objs /\ then = hand[g].then /\ s = hand[g].slot /\ base = hand[g].base
      OBVIOUS
    <2>2. /\ objs \in Seq(Obj) /\ objs # <<>> /\ base \in Ref
          /\ CallHandoff(g, objs, then, s, base) /\ hand[g].work = <<>> /\ hand[g].pc = "hand"
      BY <1>5, <2>1 DEF HandObj, TypeOK, HandState, HandCall
    <2>3. /\ \A i \in 1 .. Len(objs) : \E r \in Slot : loc[g][r] = objs[i]
          /\ s \in Slot /\ loc[g][s] # Nil
          /\ st[loc[g][s]] = "counted" => \E i \in 1 .. Len(objs) : objs[i] = loc[g][s]
          /\ then = "field" => /\ base # Nil /\ \E r \in Slot : loc[g][r] = base
                               /\ st[base] = "counted" => \E i \in 1 .. Len(objs) : objs[i] = base
      BY <1>2, <2>1, <2>2 DEF HandExact
    <2>7. /\ RefInv' /\ Live' = Live \cup {x \in {Head(objs)} : st[x] = "counted"}
          /\ \A x : InWork(x)' <=> InWork(x) \/ (x = Head(objs) /\ st[x] = "counted")
      BY <2>2, <2>3, CallRefs
    <2> QED
      BY <1>1, <2>2, <2>3, <2>7
  <1> QED
    BY <1>3, <1>4, <1>5 DEF Calls

\* What HandField does: x leaves the worklist, and the call is about to drop the
\* reference that x counted, to c.
Handed(g, x, c) ==
    /\ x \in Obj /\ InWork(x) /\ c = fld[x] /\ c \in Ref
    /\ \A h \in G : h # g => hand'[h] = hand[h]
    /\ hand[g].pc = "hand" /\ hand'[g].cur = c
    /\ hand'[g].pc = IF c = Nil THEN "hand" ELSE "dec"
    /\ UNCHANGED <<cnt, fld, loc, gl, glob, weak, lock, todo, cyc, marking, roots, grey, target, spc>>
    /\ IF c # Nil /\ st[c] = "counted" THEN fgoHandOne(c) ELSE NoHand
    /\ Live' = Live \cup {y \in {c} : c # Nil /\ st[c] = "counted"}
    /\ \A y : InWork(y)' <=> (InWork(y) /\ y # x) \/ (y = c /\ c # Nil /\ st[c] = "counted")

(* Handing off what an object points to keeps RefInv. *)
LEMMA HandFieldRefs ==
    ASSUME TypeOK, RecInv, RefInv, NEW g \in G, HandField(g)
    PROVE  RefInv' /\ \E x, c : Handed(g, x, c)
  <1> USE DEF objVars, refVars, escVars, gcVars, swVars
  <1>1. PICK own \in [Obj -> G \cup {Nil}] : Owned(own)
    BY DEF RefInv, OwnExact
  <1>2. HandExact(g) /\ hand[g] \in HandState /\ hand[g].work \in Seq(Obj)
    BY DEF RefInv, HandsExact, TypeOK, HandState, HandCall
  <1>3. Len(hand[g].work) = 1 /\ hand[g].pc = "hand"
    <2>1. hand[g].work # <<>> /\ hand[g].pc = "hand"
      BY DEF HandField
    <2>2. Len(hand[g].work) \in Nat /\ Len(hand[g].work) # 0
      BY <1>2, <2>1
    <2> QED
      <3>1. Len(hand[g].work) <= 1
        BY <1>2 DEF HandExact
      <3>2. \A n \in Nat : n # 0 /\ n <= 1 => n = 1
        OBVIOUS
      <3> QED
        BY <2>1, <2>2, <3>1, <3>2, Zenon
  <1>4. PICK x : x = hand[g].work[1]
    OBVIOUS
  <1>5. PICK c : c = fld[x]
    OBVIOUS
  <1>6. x \in Obj /\ c \in Ref /\ own[x] = g /\ st[x] = "handed" /\ x \in Good /\ x \in ReachOwn(own, g) /\ InWork(x)
    <2>1. x \in Obj
      BY <1>2, <1>3, <1>4
    <2>2. own[x] = g /\ st[x] = "handed"
      BY <1>1, <1>3, <1>4 DEF Owned
    <2>3. x \in Live /\ x \in ReachOwn(own, g)
      BY <1>1, <2>1, <2>2 DEF Owned
    <2>4. InWork(x)
      BY <1>3, <1>4 DEF InWork
    <2> QED
      BY <1>5, <2>1, <2>2, <2>3, <2>4 DEF Good, TypeOK
  <1>7. PICK fresh \in BOOLEAN : fresh = (c # Nil /\ st[c] = "counted")
    OBVIOUS
  <1>8. PICK w : w = IF fresh THEN <<c>> ELSE <<>>
    OBVIOUS
  <1>9. PICK P : P = {y \in {c} : fresh}
    OBVIOUS
  <1>10. /\ hand' = [hand EXCEPT ![g].work = w, ![g].cur = c, ![g].pc = IF c = Nil THEN "hand" ELSE "dec"]
         /\ IF fresh THEN fgoHandOne(c) ELSE NoHand
         /\ UNCHANGED <<cnt, fld, loc, gl, glob, weak, lock, todo, cyc, marking, roots, grey, target, spc>>
    <2>1. SubSeq(hand[g].work, 1, Len(hand[g].work) - 1) = <<>>
      BY <1>2, <1>3
    <2>2. Append(<<>>, c) = <<c>>
      OBVIOUS
    <2>3. x = hand[g].work[Len(hand[g].work)]
      BY <1>3, <1>4
    <2>4. w = IF c # Nil /\ st[c] = "counted" THEN Append(SubSeq(hand[g].work, 1, Len(hand[g].work) - 1), c)
              ELSE SubSeq(hand[g].work, 1, Len(hand[g].work) - 1)
      BY <1>7, <1>8, <2>1, <2>2
    <2> QED
      BY <1>5, <1>7, <2>3, <2>4 DEF HandField
  <1>11. /\ \A h \in G : h # g => hand'[h] = hand[h]
         /\ hand'[g].pc = (IF c = Nil THEN "hand" ELSE "dec") /\ hand'[g].work = w /\ hand'[g].cur = c
         /\ hand'[g].objs = hand[g].objs /\ hand'[g].then = hand[g].then
         /\ hand'[g].slot = hand[g].slot /\ hand'[g].base = hand[g].base
    <2> hand \in [G -> HandState]
      BY DEF TypeOK
    <2>1. \A h \in G : h # g => hand'[h] = hand[h]
      BY <1>10
    <2>2. hand'[g] = [hand[g] EXCEPT !.work = w, !.cur = c, !.pc = IF c = Nil THEN "hand" ELSE "dec"]
      BY <1>10
    <2> QED
      BY <1>2, <2>1, <2>2 DEF HandState, HandCall
  <1>12. fresh => c \in Obj /\ st[c] = "counted" /\ own[c] = g /\ c \in ReachOwn(own, g) /\ c # x
    <2> SUFFICES ASSUME fresh PROVE c \in Obj /\ st[c] = "counted" /\ own[c] = g /\ c \in ReachOwn(own, g) /\ c # x
      OBVIOUS
    <2>1. c \in Obj /\ st[c] = "counted" /\ c # Nil /\ c # x
      BY <1>6, <1>7 DEF Ref
    <2>2. own[c] \in G
      BY <1>1, <2>1 DEF Owned
    <2>3. own[c] = g
      BY <1>1, <1>5, <1>6, <2>1, <2>2, ConstAssumption DEF Owned
    <2>4. c \in ReachOwn(own, g)
      BY <1>5, <1>6, <2>1 DEF ReachOwn
    <2> QED
      BY <2>1, <2>3, <2>4
  <1>13. /\ Live' = Live \cup P /\ rec \subseteq rec'
         /\ \A y \in Obj : st'[y] = IF y \in P THEN "handed" ELSE st[y]
    <2>1. CASE fresh
      BY <1>9, <1>10, <1>12, <2>1, HandOneLive
    <2>2. CASE ~fresh
      BY <1>9, <1>10, <2>2 DEF NoHand, Live
    <2> QED
      BY <2>1, <2>2
  <1>14. \A y : InWork(y)' <=> (InWork(y) /\ y # x) \/ (y = c /\ fresh)
    <2>1. \A h \in G : h # g => \A i \in 1 .. Len(hand[h].work) : hand[h].work[i] # x
      BY <1>1, <1>6 DEF Owned
    <2>2. \A y : (\E i \in 1 .. Len(hand[g].work) : hand[g].work[i] = y) <=> y = x
      BY <1>3, <1>4
    <2>3. \A y : (\E i \in 1 .. Len(w) : w[i] = y) <=> (y = c /\ fresh)
      <3>1. CASE fresh
        BY <1>8, <3>1
      <3>2. CASE ~fresh
        BY <1>8, <3>2
      <3> QED
        BY <3>1, <3>2
    <2>4. ASSUME NEW y PROVE InWork(y) <=> y = x \/ \E h \in G : h # g /\ \E i \in 1 .. Len(hand[h].work) : hand[h].work[i] = y
      BY <2>2 DEF InWork
    <2>5. ASSUME NEW y
          PROVE  InWork(y)' <=> (y = c /\ fresh) \/ \E h \in G : h # g /\ \E i \in 1 .. Len(hand[h].work) : hand[h].work[i] = y
      <3>1. InWork(y)' <=> \E h \in G : \E i \in 1 .. Len(hand'[h].work) : hand'[h].work[i] = y
        BY DEF InWork
      <3>2. (\E i \in 1 .. Len(hand'[g].work) : hand'[g].work[i] = y) <=> (y = c /\ fresh)
        BY <1>11, <2>3
      <3> QED
        BY <1>11, <3>1, <3>2
    <2> QED
      BY <2>1, <2>4, <2>5
  <1>15. Handing(own, g, P)
    <2>1. ASSUME NEW y \in P PROVE y \in Obj /\ st[y] = "counted" /\ own[y] = g /\ y \in ReachOwn(own, g)
      BY <1>9, <1>12, <2>1
    <2>2. HandExact(g)'
      <3>1. \A y \in Obj : st'[y] = "counted" => st[y] = "counted"
        BY <1>13
      <3>2. loc'[g] = loc[g]
        BY <1>10
      <3>3. c # Nil => c \in Live'
        <4> SUFFICES ASSUME c # Nil PROVE c \in Live'
          OBVIOUS
        <4>1. c \in Good
          BY <1>5, <1>6 DEF RefInv, RefsGood
        <4>2. CASE st[c] = "counted"
          BY <1>7, <1>9, <1>13, <4>2
        <4>3. CASE st[c] # "counted"
          BY <1>13, <4>1, <4>3 DEF Good
        <4> QED
          BY <4>2, <4>3
      <3>4. Len(w) <= 1
        BY <1>8
      <3>5. hand[g].slot \in Slot /\ loc[g][hand[g].slot] # Nil /\ loc[g][hand[g].slot] \in Obj
        BY <1>2, <1>3 DEF HandExact, TypeOK, Ref
      <3>6. hand[g].then = "field" => hand[g].base \in Obj
        BY <1>2, <1>3 DEF HandExact, HandState, HandCall, Ref
      <3>7. hand'[g].pc # "run" /\ (hand'[g].pc = "dec" => hand'[g].cur \in Live')
        BY <1>11, <3>3
      <3>8. /\ hand'[g].slot \in Slot /\ loc'[g][hand'[g].slot] # Nil
            /\ st'[loc'[g][hand'[g].slot]] = "counted" =>
                  \E i \in 1 .. Len(hand'[g].objs) : hand'[g].objs[i] = loc'[g][hand'[g].slot]
        BY <1>2, <1>3, <1>11, <3>1, <3>2, <3>5 DEF HandExact
      <3>9. hand'[g].then = "field" =>
               /\ hand'[g].base # Nil /\ \E q \in Slot : loc'[g][q] = hand'[g].base
               /\ st'[hand'[g].base] = "counted" =>
                     \E i \in 1 .. Len(hand'[g].objs) : hand'[g].objs[i] = hand'[g].base
        BY <1>2, <1>3, <1>11, <3>1, <3>2, <3>6 DEF HandExact
      <3>10. \A i \in 1 .. Len(hand'[g].objs) : \E q \in Slot : loc'[g][q] = hand'[g].objs[i]
        BY <1>2, <1>11, <3>2 DEF HandExact
      <3>11. Len(hand'[g].work) <= 1
        BY <1>11, <3>4
      <3> QED
        BY <3>7, <3>8, <3>9, <3>10, <3>11 DEF HandExact
    <2>3. \A i \in 1 .. Len(w) : own[w[i]] = g /\ st'[w[i]] = "handed"
      BY <1>8, <1>9, <1>12, <1>13
    <2>4. ASSUME NEW y \in Good, fld[y] # Nil, st'[fld[y]] = "counted", st'[y] # "counted" PROVE InWork(y)'
      <3>1. fld[y] \in Obj /\ y \in Obj
        BY <2>4 DEF Good, Live, TypeOK, Ref
      <3>2. st[fld[y]] = "counted" /\ fld[y] \notin P /\ (st[y] # "counted" \/ y \in P)
        BY <1>13, <2>4, <3>1
      <3>3. y # x
        BY <1>5, <1>7, <1>9, <2>4, <3>2
      <3> QED
        BY <1>9, <1>14, <2>4, <3>2, <3>3 DEF RefInv, RefsGood
    <2>5. UNCHANGED <<cnt, fld, loc, gl, glob, weak>> /\ hand'[g].pc # "run" /\ P \subseteq Obj
      BY <1>10, <1>11, <2>1
    <2>6. \A i \in 1 .. Len(hand'[g].work) : own[hand'[g].work[i]] = g /\ st'[hand'[g].work[i]] = "handed"
      BY <1>11, <2>3
    <2> QED
      BY <1>11, <1>13, <2>1, <2>2, <2>4, <2>5, <2>6 DEF Handing
  <1>16. RefsGood' /\ HandsExact' /\ OwnExact'
    BY <1>1, <1>15, HandingRefs
  <1>17. CountSum'
    <2>1. \A y \in Obj : (st'[y] = "counted" \/ InWork(y)') <=> (st[y] = "counted" \/ InWork(y)) /\ y # x
      BY <1>6, <1>9, <1>12, <1>13, <1>14
    <2>2. \A o \in Obj : st'[o] # "none" => st[o] # "none"
      BY <1>9, <1>12, <1>13
    <2> SUFFICES ASSUME NEW o \in Obj, st'[o] # "none"
                 PROVE  cnt'[o] = Cardinality(Locals(o))' + Cardinality(Fields(o))' + Cardinality(Decs(o))'
      BY DEF CountSum
    <2>3. cnt[o] = Cardinality(Locals(o)) + Cardinality(Fields(o)) + Cardinality(Decs(o))
      BY <2>2 DEF RefInv, CountSum
    <2>4. Locals(o)' = Locals(o) /\ cnt' = cnt
      BY <1>10 DEF Locals
    <2>5. Fields(o)' = Fields(o) \ {x} /\ (x \in Fields(o) <=> o = c)
      BY <1>5, <1>6, <1>10, <2>1 DEF Fields
    <2>6. Decs(o)' \ {g} = Decs(o) \ {g} /\ g \notin Decs(o) /\ (g \in Decs(o)' <=> o = c)
      <3>1. o # Nil
        BY ConstAssumption
      <3> QED
        BY <1>3, <1>11, <3>1 DEF Decs
    <2>7. Cardinality(Fields(o))' = Cardinality(Fields(o)) - (IF o = c THEN 1 ELSE 0)
      <3>1. Fields(o)' \ {x} = Fields(o) \ {x} /\ x \notin Fields(o)'
        BY <2>5
      <3>2. IsFiniteSet(Fields(o)) /\ Cardinality(Fields(o)) \in Nat
        BY HoldersFinite
      <3>3. Cardinality(Fields(o)') = Cardinality(Fields(o)) + (IF x \in Fields(o)' THEN 1 ELSE 0) - (IF x \in Fields(o) THEN 1 ELSE 0)
        BY <3>1, <3>2, SetCard
      <3> QED
        BY <2>5, <3>1, <3>2, <3>3
    <2>8. Cardinality(Decs(o))' = Cardinality(Decs(o)) + (IF o = c THEN 1 ELSE 0)
      BY <2>6, HoldersFinite, SetCard
    <2> QED
      BY <2>3, <2>4, <2>7, <2>8, HoldersFinite
  <1>18. Handed(g, x, c)
    BY <1>3, <1>5, <1>6, <1>7, <1>9, <1>10, <1>11, <1>13, <1>14 DEF Handed
  <1> QED
    BY <1>16, <1>17, <1>18 DEF RefInv

(* An object that is not counted does not die with one reference to it. *)
LEMMA NoneDying ==
    ASSUME NEW o, ~Sole(o)
    PROVE  Dying(o) = {}
  <1>1. {} \in SUBSET Obj
    OBVIOUS
  <1> QED
    BY <1>1 DEF Dying

(* Dropping one of several references, or one to a handed-off object. *)
LEMMA DecOne ==
    ASSUME TypeOK, NEW o \in Obj, fgoRCDec(o), ~Sole(o)
    PROVE  UNCHANGED <<st, fld>> /\ \A x \in Obj : cnt'[x] = cnt[x] - (IF x = o THEN 1 ELSE 0)
  <1>1. Dying(o) = {}
    BY NoneDying
  <1>2. \A x : Lost(x, {}) = 0
    BY DEF Lost
  <1>3. /\ st' = [x \in Obj |-> st[x]] /\ fld' = [x \in Obj |-> fld[x]]
        /\ cnt' = [x \in Obj |-> cnt[x] - 0 - (IF x = o THEN 1 ELSE 0)]
    BY <1>1, <1>2 DEF fgoRCDec
  <1> QED
    BY <1>3 DEF TypeOK

(* fgoRCDec of what the object handed off pointed to keeps RefInv. *)
LEMMA HandDecRefs ==
    ASSUME TypeOK, RecInv, RefInv, NEW g \in G, HandDec(g)
    PROVE  RefInv' /\ Live' = Live /\ UNCHANGED <<st, fld>> /\ \A x : InWork(x)' <=> InWork(x)
  <1> USE DEF objVars, refVars, escVars, gcVars, swVars
  <1>1. PICK c : c = hand[g].cur
    OBVIOUS
  <1>2. c \in Live /\ HandExact(g) /\ hand[g].pc = "dec"
    BY <1>1 DEF HandDec, RefInv, HandsExact, HandExact
  <1>3. c \in Obj /\ st[c] = "handed"
    BY <1>2 DEF Live, RecInv, RecordsExact, TypeOK
  <1>4. fgoRCDec(c) /\ ~Sole(c)
    BY <1>1, <1>3 DEF HandDec, Sole
  <1>5. UNCHANGED <<st, fld>> /\ \A x \in Obj : cnt'[x] = cnt[x] - (IF x = c THEN 1 ELSE 0)
    BY <1>3, <1>4, DecOne
  <1>6. /\ hand' = [hand EXCEPT ![g].pc = "hand", ![g].cur = Nil]
        /\ UNCHANGED <<loc, gl, glob, weak, rec, mark, cyc, target>>
    BY DEF HandDec
  <1>7. /\ \A h \in G : h # g => hand'[h] = hand[h]
        /\ hand'[g].pc = "hand" /\ hand'[g].work = hand[g].work
        /\ hand'[g].objs = hand[g].objs /\ hand'[g].then = hand[g].then
        /\ hand'[g].slot = hand[g].slot /\ hand'[g].base = hand[g].base
    <2> hand \in [G -> HandState] /\ hand[g] \in HandState
      BY DEF TypeOK
    <2>1. \A h \in G : h # g => hand'[h] = hand[h]
      BY <1>6
    <2>2. hand'[g] = [hand[g] EXCEPT !.pc = "hand", !.cur = Nil]
      BY <1>6
    <2> QED
      BY <2>1, <2>2 DEF HandState, HandCall
  <1>8. Live' = Live
    BY <1>6 DEF Live
  <1>9. \A x : InWork(x)' <=> InWork(x)
    <2>1. \A h \in G : hand'[h].work = hand[h].work
      BY <1>7
    <2> QED
      BY <2>1, WorkKeep
  <1>10. PICK own \in [Obj -> G \cup {Nil}] : Owned(own)
    BY DEF RefInv, OwnExact
  <1>11. Handing(own, g, {})
    <2>1. HandExact(g)'
      <3>1. loc'[g] = loc[g]
        BY <1>6
      <3> QED
        BY <1>2, <1>5, <1>7, <3>1 DEF HandExact
    <2>2. \A i \in 1 .. Len(hand'[g].work) : own[hand'[g].work[i]] = g /\ st'[hand'[g].work[i]] = "handed"
      BY <1>5, <1>7, <1>10 DEF Owned
    <2>3. \A x \in Good : fld[x] # Nil /\ st'[fld[x]] = "counted" /\ st'[x] # "counted" => InWork(x)'
      BY <1>5, <1>9 DEF RefInv, RefsGood
    <2>4. \A x \in Obj : st'[x] = IF x \in {} THEN "handed" ELSE st[x]
      BY <1>5
    <2>5. UNCHANGED <<fld, loc, gl, glob, weak>> /\ hand'[g].pc # "run" /\ Live' = Live \cup {} /\ rec \subseteq rec'
      BY <1>5, <1>6, <1>7, <1>8
    <2> QED
      BY <1>7, <2>1, <2>2, <2>3, <2>4, <2>5 DEF Handing
  <1>12. RefsGood' /\ HandsExact' /\ OwnExact'
    BY <1>10, <1>11, HandingRefs
  <1>13. CountSum'
    <2> SUFFICES ASSUME NEW o \in Obj, st'[o] # "none"
                 PROVE  cnt'[o] = Cardinality(Locals(o))' + Cardinality(Fields(o))' + Cardinality(Decs(o))'
      BY DEF CountSum
    <2>1. cnt[o] = Cardinality(Locals(o)) + Cardinality(Fields(o)) + Cardinality(Decs(o))
      BY <1>5 DEF RefInv, CountSum
    <2>2. Locals(o)' = Locals(o)
      BY <1>6 DEF Locals
    <2>3. Fields(o)' = Fields(o)
      BY <1>5, <1>9 DEF Fields
    <2>4. Decs(o)' \ {g} = Decs(o) \ {g} /\ g \notin Decs(o)' /\ (g \in Decs(o) <=> o = c)
      BY <1>1, <1>2, <1>7 DEF Decs
    <2>5. Cardinality(Decs(o))' = Cardinality(Decs(o)) - (IF o = c THEN 1 ELSE 0)
      <3>1. IsFiniteSet(Decs(o)) /\ Cardinality(Decs(o)) \in Nat
        BY HoldersFinite
      <3>2. Cardinality(Decs(o)') = Cardinality(Decs(o)) + (IF g \in Decs(o)' THEN 1 ELSE 0) - (IF g \in Decs(o) THEN 1 ELSE 0)
        BY <2>4, <3>1, SetCard
      <3> QED
        BY <2>4, <3>1, <3>2
    <2> QED
      BY <1>5, <2>1, <2>2, <2>3, <2>5, HoldersFinite
  <1> QED
    BY <1>5, <1>8, <1>9, <1>12, <1>13 DEF RefInv

\* Nogc code counts one more reference to x, in local t.
Counts(own, g, t, x) ==
    /\ Running(g) /\ t \in Slot /\ loc[g][t] = Nil
    /\ x \in Good /\ own[x] \in {g, Nil}
    /\ cnt' = [cnt EXCEPT ![x] = @ + 1] /\ SetLoc(g, t, x)
    /\ UNCHANGED <<st, held, fld, gl, glob, weak, hand, rec, mark, cyc, marking, target, roots, grey, lock, todo>>

(* A counted load keeps RefInv. *)
LEMMA CountsRefs ==
    ASSUME TypeOK, RecInv, RefInv, NEW own \in [Obj -> G \cup {Nil}], Owned(own),
           NEW g \in G, NEW t, NEW x, Counts(own, g, t, x)
    PROVE  RefInv'
  <1> USE DEF Counts
  <1>1. Good' = Good /\ Live' = Live /\ x \in Obj
    BY DEF Good, Live, TypeOK
  <1>2. \A y : InWork(y)' = InWork(y)
    BY DEF InWork
  <1>3. \A h \in G, r \in Slot : loc'[h][r] = IF h = g /\ r = t THEN x ELSE loc[h][r]
    BY DEF SetLoc, TypeOK
  <1>4. \A h \in G : h # g => loc'[h] = loc[h]
    BY DEF SetLoc, TypeOK
  <1>5. RefsGood'
    BY <1>1, <1>2, <1>3 DEF RefInv, RefsGood
  <1>6. hand[g] = Idle
    BY DEF Running, RefInv, HandsExact, HandExact
  <1>7. HandsExact'
    <2> SUFFICES ASSUME NEW h \in G PROVE HandExact(h)'
      BY DEF HandsExact
    <2>1. CASE h = g
      BY <1>6, <2>1 DEF HandExact, Idle
    <2>2. CASE h # g
      BY <1>1, <1>4, <2>2, HandKeep DEF RefInv, HandsExact
    <2> QED
      BY <2>1, <2>2
  <1>8. Owned(own)'
    <2>1. ASSUME NEW h \in G, NEW o \in Obj, own[o] = h, st[o] # "counted"
          PROVE  o \in Live /\ hand[h].pc # "run" /\ o \in ReachOwn(own, h)'
      <3>1. o \in Live /\ hand[h].pc # "run" /\ o \in ReachOwn(own, h)
        BY <2>1 DEF Owned
      <3>2. h # g
        BY <3>1 DEF Running
      <3>3. ReachOwn(own, h)' = ReachOwn(own, h)
        BY <1>4, <3>2, ReachKeep
      <3> QED
        BY <3>1, <3>3
    <2>2. \A h \in G, r \in Slot : loc'[h][r] # Nil => own[loc'[h][r]] \in {h, Nil}
      BY <1>3 DEF Owned
    <2> QED
      BY <1>1, <2>1, <2>2 DEF Owned
  <1>9. CountSum'
    <2> SUFFICES ASSUME NEW o \in Obj, st'[o] # "none"
                 PROVE  cnt'[o] = Cardinality(Locals(o))' + Cardinality(Fields(o))' + Cardinality(Decs(o))'
      BY DEF CountSum
    <2>1. cnt[o] = Cardinality(Locals(o)) + Cardinality(Fields(o)) + Cardinality(Decs(o))
      BY DEF RefInv, CountSum
    <2>2. Fields(o)' = Fields(o) /\ Decs(o)' = Decs(o)
      BY <1>2 DEF Fields, Decs
    <2>3. /\ Locals(o)' \ {<<g, t>>} = Locals(o) \ {<<g, t>>}
          /\ <<g, t>> \notin Locals(o) /\ (<<g, t>> \in Locals(o)' <=> o = x)
      BY <1>3, ConstAssumption DEF Locals
    <2>4. IsFiniteSet(Locals(o)) /\ Cardinality(Locals(o)) \in Nat
      BY HoldersFinite
    <2>5. Cardinality(Locals(o)') = Cardinality(Locals(o)) + (IF <<g, t>> \in Locals(o)' THEN 1 ELSE 0) - (IF <<g, t>> \in Locals(o) THEN 1 ELSE 0)
      BY <2>3, <2>4, SetCard
    <2>6. Cardinality(Locals(o)') = Cardinality(Locals(o)) + (IF o = x THEN 1 ELSE 0)
      BY <2>3, <2>4, <2>5
    <2>7. cnt'[o] = cnt[o] + (IF o = x THEN 1 ELSE 0)
      BY <1>1 DEF TypeOK
    <2> QED
      BY <2>1, <2>2, <2>6, <2>7, HoldersFinite
  <1> QED
    BY <1>5, <1>7, <1>8, <1>9 DEF RefInv, OwnExact

(* Taking a traced pointer, and loading a field, count what can be counted. *)
LEMMA LoadCounts ==
    ASSUME TypeOK, RecInv, RefInv, NEW own \in [Obj -> G \cup {Nil}], Owned(own), NEW g \in G
    PROVE  /\ \A s \in Slot : TakeTraced(g, s) => Counts(own, g, s, gl[g])
           /\ \A s, t \in Slot : LoadField(g, s, t) => Counts(own, g, t, fld[loc[g][s]])
  <1> USE DEF objVars, refVars, escVars, gcVars, swVars
  <1>1. ASSUME NEW s \in Slot, TakeTraced(g, s) PROVE Counts(own, g, s, gl[g])
    <2>1. gl[g] \in Good /\ own[gl[g]] \in {g, Nil}
      BY <1>1 DEF TakeTraced, RefInv, RefsGood, Owned, Good
    <2> QED
      BY <1>1, <2>1 DEF TakeTraced, Counts, fgoRCInc
  <1>2. ASSUME NEW s \in Slot, NEW t \in Slot, LoadField(g, s, t) PROVE Counts(own, g, t, fld[loc[g][s]])
    <2>1. loc[g][s] \in Good /\ own[loc[g][s]] \in {g, Nil} /\ fld[loc[g][s]] # Nil
      BY <1>2 DEF LoadField, RefInv, RefsGood, Owned
    <2>2. fld[loc[g][s]] \in Good
      BY <2>1 DEF RefInv, RefsGood
    <2>3. own[fld[loc[g][s]]] \in {g, Nil}
      BY <2>1 DEF Owned
    <2> QED
      BY <1>2, <2>2, <2>3 DEF LoadField, Counts, fgoRCInc
  <1> QED
    BY <1>1, <1>2

\* What dies with the only reference to o, which local s of g holds: a chain of
\* counted objects that only the ones before them refer to.
Chain(own, g, s, o, D) ==
    /\ D \subseteq Obj /\ o \in D
    /\ \A x \in D : st[x] = "counted" /\ cnt[x] = 1 /\ own[x] = g
    /\ Locals(o) = {<<g, s>>} /\ Fields(o) = {} /\ Decs(o) = {}
    /\ \A x \in D : x # o => Locals(x) = {} /\ Fields(x) \subseteq D /\ Decs(x) = {}
    /\ \E e \in D : \A y \in D : fld[y] \notin D <=> y = e

(* The objects that fgoRCDec releases form a chain. *)
LEMMA DyingChain ==
    ASSUME TypeOK, RecInv, RefInv, NEW own \in [Obj -> G \cup {Nil}], Owned(own),
           NEW g \in G, NEW s \in Slot, NEW o, o = loc[g][s], Sole(o)
    PROVE  Chain(own, g, s, o, Dying(o))
  <1> DEFINE D == Dying(o)
             Closed(S) == /\ Sole(o) => o \in S
                          /\ \A y \in S : Sole(fld[y]) => fld[y] \in S
  <1>1. o \in Obj /\ o # Nil
    BY DEF Sole, TypeOK, Ref
  <1>2. \A x \in D : x \in Obj /\ Sole(x) /\ st[x] = "counted" /\ cnt[x] = 1
    BY DEF Dying, Sole
  <1>3. \A S \in SUBSET Obj : Closed(S) => D \subseteq S
    BY DEF Dying
  <1>4. o \in D
    BY <1>1 DEF Dying
  <1>5. ASSUME NEW y \in D, Sole(fld[y]) PROVE fld[y] \in D
    <2>1. y \in Obj /\ fld[y] \in Obj
      BY <1>2, <1>5 DEF Sole, TypeOK, Ref
    <2>2. ASSUME NEW S \in SUBSET Obj, Closed(S) PROVE fld[y] \in S
      BY <1>3, <1>5, <2>2
    <2> QED
      BY <1>5, <2>1, <2>2 DEF Dying
  <1> HIDE DEF D
  <1>6. \A x \in D : own[x] = g
    <2> DEFINE S == {y \in Obj : Sole(y) /\ own[y] = g}
    <2>1. o \in S
      <3>1. own[o] \in G /\ own[o] \in {g, Nil}
        BY <1>1 DEF Owned, Sole
      <3> QED
        BY <1>1, <3>1, ConstAssumption
    <2>2. ASSUME NEW y \in S, Sole(fld[y]) PROVE fld[y] \in S
      <3>1. fld[y] \in Obj /\ fld[y] # Nil /\ st[fld[y]] = "counted" /\ y \in Good
        BY <2>2 DEF Sole, TypeOK, Ref, Good
      <3>2. own[fld[y]] \in G
        BY <3>1 DEF Owned
      <3>3. own[fld[y]] = own[y]
        BY <3>1, <3>2, ConstAssumption DEF Owned
      <3> QED
        BY <2>2, <3>1, <3>3
    <2>3. S \in SUBSET Obj
      OBVIOUS
    <2>4. D \subseteq S
      BY <1>3, <2>1, <2>2, <2>3
    <2> QED
      BY <2>4
  <1>7. \A x \in D : x # o => \E y \in D : fld[y] = x
    <2> DEFINE S == {x \in D : x = o \/ \E y \in D : fld[y] = x}
    <2>1. S \in SUBSET Obj
      BY <1>2
    <2>2. o \in S
      BY <1>4
    <2>3. ASSUME NEW y \in S, Sole(fld[y]) PROVE fld[y] \in S
      BY <1>5, <2>3
    <2>4. D \subseteq S
      BY <1>3, <2>1, <2>2, <2>3
    <2> QED
      BY <2>4
  <1>8. Locals(o) = {<<g, s>>} /\ Fields(o) = {} /\ Decs(o) = {}
    <2>1. <<g, s>> \in Locals(o)
      BY DEF Locals
    <2> QED
      BY <1>1, <1>2, <1>4, <2>1, OneHolder DEF RefInv
  <1>9. ASSUME NEW x \in D, NEW y \in D, fld[y] = x
        PROVE  Fields(x) = {y} /\ Locals(x) = {} /\ Decs(x) = {}
    <2>1. y \in Fields(x)
      BY <1>2, <1>9 DEF Fields
    <2>2. x \in Obj /\ st[x] # "none" /\ cnt[x] = 1 /\ CountSum
      BY <1>2 DEF RefInv
    <2> QED
      BY <2>1, <2>2, OneHolder
  <1>10. ASSUME NEW x \in D, x # o PROVE Locals(x) = {} /\ Fields(x) \subseteq D /\ Decs(x) = {}
    BY <1>7, <1>9, <1>10
  <1>11. \A y, z \in D : fld[y] = fld[z] /\ fld[y] \in D => y = z
    <2> SUFFICES ASSUME NEW y \in D, NEW z \in D, fld[y] = fld[z], fld[y] \in D PROVE y = z
      OBVIOUS
    <2>1. Fields(fld[y]) = {y} /\ Fields(fld[y]) = {z}
      BY <1>9
    <2> QED
      BY <2>1
  <1>12. \A y \in D : fld[y] # o
    BY <1>2, <1>8 DEF Fields
  <1>13. IsFiniteSet(D)
    <2>1. D \in SUBSET Obj
      BY <1>2
    <2> QED
      BY <2>1, FS_Subset, ConstAssumption
  <1>14. \E e \in D : \A y \in D : fld[y] \notin D <=> y = e
    BY <1>4, <1>7, <1>11, <1>12, <1>13, ChainEnd
  <1>15. Chain(own, g, s, o, D)
    BY <1>2, <1>4, <1>6, <1>8, <1>10, <1>14 DEF Chain
  <1> QED
    BY <1>15 DEF D

\* What the end of local s of g does, for the objects D that die with it: o is what
\* the local held.
Dropped(own, g, s, o, D) ==
    /\ Running(g) /\ o = loc[g][s] /\ o \in Obj
    /\ D = {} \/ Chain(own, g, s, o, D)
    /\ D = {} => ~Sole(o)
    /\ \A x \in Obj : st'[x] = IF x \in D THEN "none" ELSE st[x]
    /\ \A x \in Obj : fld'[x] = IF x \in D THEN Nil ELSE fld[x]
    /\ \A x \in Obj : x \notin D => cnt'[x] = cnt[x] - Lost(x, D) - (IF x = o THEN 1 ELSE 0)
    /\ \A h \in G, r \in Slot : loc'[h][r] = IF h = g /\ r = s THEN Nil ELSE loc[h][r]
    /\ \A h \in G : h # g => loc'[h] = loc[h]
    /\ UNCHANGED <<held, gl, glob, weak, hand, rec, mark, cyc, marking, target, roots, grey, lock, todo, spc>>

(* A local that goes out of scope. *)
LEMMA DropIs ==
    ASSUME TypeOK, RecInv, RefInv, NEW own \in [Obj -> G \cup {Nil}], Owned(own),
           NEW g \in G, NEW s \in Slot, DropLocal(g, s)
    PROVE  Dropped(own, g, s, loc[g][s], Dying(loc[g][s]))
  <1> USE DEF objVars, refVars, escVars, gcVars, swVars
  <1>1. PICK o, D : o = loc[g][s] /\ D = Dying(o)
    OBVIOUS
  <1>2. o \in Obj /\ Running(g)
    BY <1>1 DEF DropLocal, TypeOK, Ref
  <1>3. /\ st' = [x \in Obj |-> IF x \in D THEN "none" ELSE st[x]]
        /\ cnt' = [x \in Obj |-> IF x \in D THEN 0 ELSE cnt[x] - Lost(x, D) - (IF x = o THEN 1 ELSE 0)]
        /\ fld' = [x \in Obj |-> IF x \in D THEN Nil ELSE fld[x]]
    BY <1>1 DEF DropLocal, fgoRCDec
  <1>4. /\ \A x \in Obj : st'[x] = IF x \in D THEN "none" ELSE st[x]
        /\ \A x \in Obj : fld'[x] = IF x \in D THEN Nil ELSE fld[x]
        /\ \A x \in Obj : x \notin D => cnt'[x] = cnt[x] - Lost(x, D) - (IF x = o THEN 1 ELSE 0)
    BY <1>3
  <1>5. /\ \A h \in G, r \in Slot : loc'[h][r] = IF h = g /\ r = s THEN Nil ELSE loc[h][r]
        /\ \A h \in G : h # g => loc'[h] = loc[h]
    BY DEF DropLocal, SetLoc, TypeOK
  <1>6. UNCHANGED <<held, gl, glob, weak, hand, rec, mark, cyc, marking, target, roots, grey, lock, todo, spc>>
    BY DEF DropLocal, fgoRCDec
  <1>7. (D = {} \/ Chain(own, g, s, o, D)) /\ (D = {} => ~Sole(o))
    <2>1. CASE Sole(o)
      <3>1. Chain(own, g, s, o, D)
        BY <1>1, <2>1, DyingChain
      <3> QED
        BY <3>1 DEF Chain
    <2>2. CASE ~Sole(o)
      BY <1>1, <2>2, NoneDying
    <2> QED
      BY <2>1, <2>2
  <1>8. Dropped(own, g, s, o, D)
    BY <1>1, <1>2, <1>4, <1>5, <1>6, <1>7 DEF Dropped
  <1> QED
    BY <1>1, <1>8

(* Nothing but the dropped local leads into what dies. *)
LEMMA DropRefs ==
    ASSUME TypeOK, TypeOK', RecInv, RefInv, NEW own \in [Obj -> G \cup {Nil}], Owned(own),
           NEW g \in G, NEW s \in Slot, NEW o, NEW D, Dropped(own, g, s, o, D)
    PROVE  RefInv' /\ Live' = Live /\ Good' = Good \ D
  <1> USE DEF Dropped
  <1>1. D \subseteq Obj /\ \A x \in D : st[x] = "counted" /\ cnt[x] = 1 /\ own[x] = g
    BY DEF Chain
  <1>2. D \cap Live = {} /\ \A x \in D : x \notin rec /\ x # Nil
    BY <1>1, ConstAssumption DEF Live, RecInv, RecordsExact, TypeOK
  <1>3. Live' = Live /\ Good' = Good \ D /\ Good \subseteq Obj
    BY <1>1, <1>2 DEF Live, Good, TypeOK
  <1>4. \A x : InWork(x)' = InWork(x)
    BY DEF InWork
  <1>5. ASSUME NEW h \in G, NEW r \in Slot, loc'[h][r] # Nil
        PROVE  loc'[h][r] = loc[h][r] /\ loc[h][r] \in Obj /\ loc[h][r] \in Good \ D
    <2>1. loc'[h][r] = loc[h][r] /\ ~(h = g /\ r = s) /\ loc[h][r] \in Obj
      BY <1>5 DEF TypeOK, Ref
    <2>2. ASSUME loc[h][r] \in D PROVE FALSE
      <3>1. <<h, r>> \in Locals(loc[h][r])
        BY DEF Locals
      <3>2. Chain(own, g, s, o, D)
        BY <2>2
      <3>3. <<h, r>> # <<g, s>>
        BY <2>1
      <3>4. loc[h][r] = o => Locals(loc[h][r]) = {<<g, s>>}
        BY <3>2 DEF Chain
      <3>5. loc[h][r] # o => Locals(loc[h][r]) = {}
        BY <2>2, <3>2 DEF Chain
      <3> QED
        BY <3>1, <3>3, <3>4, <3>5
    <2> QED
      BY <1>5, <2>1, <2>2 DEF RefInv, RefsGood
  <1>6. ASSUME NEW x \in Good \ D, fld[x] # Nil PROVE fld[x] \in Good \ D
    <2>1. x \in Obj /\ fld[x] \in Obj /\ fld[x] \in Good
      BY <1>3, <1>6 DEF RefInv, RefsGood, TypeOK, Ref
    <2>2. ASSUME fld[x] \in D PROVE FALSE
      <3>1. x \in Fields(fld[x])
        BY <1>1, <1>6, <2>1, <2>2 DEF RefInv, RefsGood, Fields
      <3>2. Chain(own, g, s, o, D)
        BY <2>2
      <3>3. Fields(fld[x]) \subseteq D
        BY <2>2, <3>2 DEF Chain
      <3> QED
        BY <1>6, <3>1, <3>3
    <2> QED
      BY <2>1, <2>2
  <1>7. RefsGood'
    <2>1. \A x \in Good \ D : fld'[x] = fld[x] /\ st'[x] = st[x] /\ x \in Obj
      BY <1>3
    <2>2. \A x \in Good \ D : fld[x] # Nil => st'[fld[x]] = st[fld[x]]
      BY <1>6, <2>1
    <2> QED
      BY <1>3, <1>4, <1>5, <1>6, <2>1, <2>2 DEF RefInv, RefsGood
  <1>8. hand[g] = Idle
    BY DEF Running, RefInv, HandsExact, HandExact
  <1>9. HandsExact'
    <2> SUFFICES ASSUME NEW h \in G PROVE HandExact(h)'
      BY DEF HandsExact
    <2>1. CASE h = g
      BY <1>8, <2>1 DEF HandExact, Idle
    <2>2. CASE h # g
      <3>1. \A r \in Slot : loc[h][r] # Nil /\ st'[loc[h][r]] = "counted" => st[loc[h][r]] = "counted"
        BY DEF TypeOK, Ref
      <3> QED
        BY <1>3, <2>2, <3>1, HandKeep DEF RefInv, HandsExact
    <2> QED
      BY <2>1, <2>2
  <1>10. OwnExact'
    <2>1. PICK own2 : own2 = [x \in Obj |-> IF x \in D THEN Nil ELSE own[x]]
      OBVIOUS
    <2>2. own2 \in [Obj -> G \cup {Nil}] /\ \A x \in Obj : own2[x] = IF x \in D THEN Nil ELSE own[x]
      BY <2>1
    <2>3. \A x \in Obj : st'[x] = "counted" => own2[x] \in G
      BY <2>2 DEF Owned
    <2>4. ASSUME NEW h \in G, NEW x \in Obj, own2[x] = h, st'[x] # "counted"
          PROVE  x \in Live /\ hand[h].pc # "run" /\ x \in ReachOwn(own2, h)'
      <3>1. x \notin D /\ own[x] = h /\ st[x] # "counted"
        BY <2>2, <2>4, ConstAssumption
      <3>2. x \in Live /\ hand[h].pc # "run" /\ x \in ReachOwn(own, h)
        BY <3>1 DEF Owned
      <3>3. h # g
        BY <3>2 DEF Running
      <3>4. ReachOwn(own2, h)' = ReachOwn(own, h)
        <4>1. \A y \in Obj : own2[y] = h <=> own[y] = h
          BY <1>1, <2>2, <3>3, ConstAssumption
        <4>2. \A y \in Obj : own[y] = h => fld'[y] = fld[y]
          BY <1>1, <3>3
        <4> QED
          BY <3>3, <4>1, <4>2, ReachKeep
      <3> QED
        BY <3>2, <3>4
    <2>5. \A h \in G, r \in Slot : loc'[h][r] # Nil => own2[loc'[h][r]] \in {h, Nil}
      BY <1>5, <2>2 DEF Owned
    <2>6. ASSUME NEW x \in Ref, x # Nil, own[x] = Nil PROVE own2[x] = Nil
      BY <2>2, <2>6 DEF Ref
    <2>7. /\ \A h \in G : gl[h] # Nil => own2[gl[h]] = Nil
          /\ glob # Nil => own2[glob] = Nil
          /\ weak # Nil => own2[weak] = Nil
      BY <2>6 DEF Owned, TypeOK
    <2>8. ASSUME NEW x \in Good \ D, fld'[x] # Nil, own2[fld'[x]] # Nil PROVE own2[x] = own2[fld'[x]]
      BY <1>3, <1>6, <2>2, <2>8 DEF Owned
    <2>9. ASSUME NEW h \in G, NEW i \in 1 .. Len(hand[h].work)
          PROVE  own2[hand[h].work[i]] = h /\ st'[hand[h].work[i]] = "handed"
      <3>1. hand[h].work \in Seq(Obj)
        BY DEF TypeOK, HandState, HandCall
      <3>2. own[hand[h].work[i]] = h /\ st[hand[h].work[i]] = "handed" /\ hand[h].work[i] \in Obj
        BY <2>9, <3>1 DEF Owned
      <3> QED
        BY <1>1, <2>2, <3>2
    <2>10. Owned(own2)'
      BY <1>3, <2>3, <2>4, <2>5, <2>7, <2>8, <2>9 DEF Owned
    <2> QED
      BY <2>2, <2>10 DEF OwnExact
  <1>11. CountSum'
    <2> SUFFICES ASSUME NEW x \in Obj, st'[x] # "none"
                 PROVE  cnt'[x] = Cardinality(Locals(x))' + Cardinality(Fields(x))' + Cardinality(Decs(x))'
      BY DEF CountSum
    <2>1. x \notin D /\ st[x] # "none" /\ x # Nil
      BY ConstAssumption
    <2>2. cnt[x] = Cardinality(Locals(x)) + Cardinality(Fields(x)) + Cardinality(Decs(x))
      BY <2>1 DEF RefInv, CountSum
    <2>3. Decs(x)' = Decs(x)
      BY DEF Decs
    <2>4. Cardinality(Locals(x)') = Cardinality(Locals(x)) - (IF x = o THEN 1 ELSE 0)
      <3>1. /\ Locals(x)' \ {<<g, s>>} = Locals(x) \ {<<g, s>>}
            /\ <<g, s>> \notin Locals(x)' /\ (<<g, s>> \in Locals(x) <=> x = o)
        BY <2>1 DEF Locals
      <3>2. IsFiniteSet(Locals(x)) /\ Cardinality(Locals(x)) \in Nat
        BY HoldersFinite
      <3>3. Cardinality(Locals(x)') = Cardinality(Locals(x)) + (IF <<g, s>> \in Locals(x)' THEN 1 ELSE 0) - (IF <<g, s>> \in Locals(x) THEN 1 ELSE 0)
        BY <3>1, <3>2, SetCard
      <3> QED
        BY <3>1, <3>2, <3>3
    <2>5. Cardinality(Fields(x)') = Cardinality(Fields(x)) - Lost(x, D)
      <3>1. Fields(x)' = Fields(x) \ D
        BY <1>4, <2>1 DEF Fields
      <3>2. IsFiniteSet(Fields(x)) /\ Cardinality(Fields(x)) \in Nat
        BY HoldersFinite
      <3>3. CASE D = {}
        BY <3>1, <3>2, <3>3 DEF Lost
      <3>4. CASE Chain(own, g, s, o, D)
        <4>1. PICK e \in D : \A y \in D : fld[y] \notin D <=> y = e
          BY <3>4 DEF Chain
        <4>2. \A y \in D : fld[y] = x => y = e
          BY <2>1, <4>1
        <4>3. Lost(x, D) = IF fld[e] = x THEN 1 ELSE 0
          BY <4>2 DEF Lost
        <4>4. e \in Fields(x) <=> fld[e] = x
          BY <1>1, <4>1 DEF Fields
        <4>5. Fields(x)' \ {e} = Fields(x) \ {e} /\ e \notin Fields(x)'
          BY <3>1, <4>2 DEF Fields
        <4>6. Cardinality(Fields(x)') = Cardinality(Fields(x)) + (IF e \in Fields(x)' THEN 1 ELSE 0) - (IF e \in Fields(x) THEN 1 ELSE 0)
          BY <3>2, <4>5, SetCard
        <4> QED
          BY <3>2, <4>3, <4>4, <4>5, <4>6
      <3> QED
        BY <3>3, <3>4
    <2>6. cnt'[x] = cnt[x] - Lost(x, D) - (IF x = o THEN 1 ELSE 0) /\ Lost(x, D) \in Int
      BY <2>1 DEF Lost
    <2> QED
      BY <2>2, <2>3, <2>4, <2>5, <2>6, HoldersFinite
  <1> QED
    BY <1>3, <1>7, <1>9, <1>10, <1>11 DEF RefInv

(* A new object: nothing refers to it but the local that holds it. *)
LEMMA ConstructRefs ==
    ASSUME TypeOK, RecInv, RefInv, NEW g \in G, NEW s \in Slot, NEW t \in Slot, NEW o \in Obj,
           Construct(g, s, t, o)
    PROVE  RefInv' /\ Live' = Live /\ Good' = Good \cup {o} /\ ~InWork(o)
  <1> USE DEF objVars, refVars, escVars, gcVars, swVars
  <1>1. PICK own \in [Obj -> G \cup {Nil}] : Owned(own)
    BY DEF RefInv, OwnExact
  <1>2. PICK v : v = IF s = t THEN Nil ELSE loc[g][t]
    OBVIOUS
  <1>3. /\ Running(g) /\ loc[g][s] = Nil /\ (s # t => v # Nil) /\ st[o] = "none"
        /\ UNCHANGED <<held, gl, glob, weak, hand, rec, mark, cyc, target>>
    BY <1>2 DEF Construct
  <1>4. /\ \A x \in Obj : st'[x] = IF x = o THEN "counted" ELSE st[x]
        /\ \A x \in Obj : cnt'[x] = IF x = o THEN 1 ELSE cnt[x]
        /\ \A x \in Obj : fld'[x] = IF x = o THEN v ELSE fld[x]
    BY <1>2 DEF Construct, TypeOK
  <1>5. /\ \A h \in G : h # g => loc'[h] = loc[h]
        /\ \A h \in G, r \in Slot :
              loc'[h][r] = IF h # g THEN loc[h][r] ELSE IF r = s THEN o ELSE IF r = t THEN Nil ELSE loc[h][r]
    BY DEF Construct, TypeOK
  <1>6. o \notin rec /\ o \notin Good /\ o # Nil /\ Good \subseteq Obj
    BY <1>3, ConstAssumption DEF RecInv, RecordsExact, TypeOK, Good, Live
  <1>7. Live' = Live /\ Good' = Good \cup {o}
    BY <1>3, <1>4, <1>6 DEF Live, Good, TypeOK
  <1>8. v # Nil => v \in Good /\ own[v] \in {g, Nil} /\ v \in Obj /\ v = loc[g][t] /\ s # t
    BY <1>1, <1>2, <1>6 DEF RefInv, RefsGood, Owned
  <1>9. v # o
    BY <1>6, <1>8
  <1>10. ~InWork(o) /\ \A x : InWork(x)' = InWork(x)
    BY <1>1, <1>3, WorkLive DEF InWork
  <1>11. \A h \in G, r \in Slot : loc[h][r] # Nil => loc[h][r] \in Good /\ loc[h][r] # o
    BY <1>6 DEF RefInv, RefsGood
  <1>12. \A x \in Good : x # o /\ fld[x] # o /\ fld'[x] = fld[x] /\ st'[x] = st[x]
    BY <1>4, <1>6 DEF RefInv, RefsGood
  <1>13. RefsGood'
    <2>1. \A h \in G, r \in Slot : loc'[h][r] # Nil => loc'[h][r] \in Good \cup {o}
      BY <1>5, <1>11
    <2>2. ASSUME NEW x \in Good, fld'[x] # Nil
          PROVE  fld'[x] \in Good /\ (st'[fld'[x]] = "counted" /\ st'[x] # "counted" => InWork(x))
      <3>1. fld[x] \in Good /\ (st[fld[x]] = "counted" /\ st[x] # "counted" => InWork(x))
        BY <1>12, <2>2 DEF RefInv, RefsGood
      <3> QED
        BY <1>12, <2>2, <3>1
    <2>3. fld'[o] = v /\ st'[o] = "counted"
      BY <1>4
    <2>4. /\ \A h \in G : gl[h] # Nil => gl[h] \in Live
          /\ glob # Nil => glob \in Live
          /\ weak # Nil => weak \in rec
      BY DEF RefInv, RefsGood
    <2> QED
      BY <1>3, <1>7, <1>8, <1>10, <2>1, <2>2, <2>3, <2>4 DEF RefsGood
  <1>14. HandsExact'
    <2> SUFFICES ASSUME NEW h \in G PROVE HandExact(h)'
      BY DEF HandsExact
    <2>0. hand[g] = Idle
      BY <1>3 DEF Running, RefInv, HandsExact, HandExact
    <2>1. CASE h = g
      BY <1>3, <2>0, <2>1 DEF HandExact, Idle
    <2>2. CASE h # g
      <3>1. \A r \in Slot : loc[h][r] # Nil /\ st'[loc[h][r]] = "counted" => st[loc[h][r]] = "counted"
        BY <1>11, <1>12
      <3>2. HandExact(h) /\ hand'[h] = hand[h] /\ loc'[h] = loc[h] /\ Live \subseteq Live'
        BY <1>3, <1>5, <1>7, <2>2 DEF RefInv, HandsExact
      <3> QED
        BY <3>1, <3>2, HandKeep
    <2> QED
      BY <2>1, <2>2
  <1>15. OwnExact'
    <2>1. PICK own2 : own2 = [own EXCEPT ![o] = g]
      OBVIOUS
    <2>2. own2 \in [Obj -> G \cup {Nil}] /\ \A x \in Obj : own2[x] = IF x = o THEN g ELSE own[x]
      BY <2>1
    <2>3. own[o] \notin G
      BY <1>1, <1>3, <1>6 DEF Owned, Good
    <2>4. \A x \in Obj : st'[x] = "counted" => own2[x] \in G
      BY <1>1, <1>4, <2>2 DEF Owned
    <2>5. ASSUME NEW h \in G, NEW x \in Obj, own2[x] = h, st'[x] # "counted"
          PROVE  x \in Live /\ hand[h].pc # "run" /\ x \in ReachOwn(own2, h)'
      <3>1. x # o /\ own[x] = h /\ st[x] # "counted"
        BY <1>4, <2>2, <2>5
      <3>2. x \in Live /\ hand[h].pc # "run" /\ x \in ReachOwn(own, h)
        BY <1>1, <3>1 DEF Owned
      <3>3. h # g
        BY <1>3, <3>2 DEF Running
      <3>4. ReachOwn(own2, h)' = ReachOwn(own, h)
        <4>1. \A y \in Obj : own2[y] = h <=> own[y] = h
          BY <2>2, <2>3, <3>3
        <4>2. \A y \in Obj : own[y] = h => fld'[y] = fld[y]
          BY <1>4, <2>3
        <4> QED
          BY <1>5, <3>3, <4>1, <4>2, ReachKeep
      <3> QED
        BY <3>2, <3>4
    <2>6. \A x \in Good : own2[x] = own[x]
      BY <1>6, <1>12, <2>2
    <2>7. \A h \in G, r \in Slot : loc'[h][r] # Nil => own2[loc'[h][r]] \in {h, Nil}
      BY <1>1, <1>5, <1>11, <2>2, <2>6 DEF Owned
    <2>8. /\ \A h \in G : gl[h] # Nil => own2[gl[h]] = Nil
          /\ glob # Nil => own2[glob] = Nil
          /\ weak # Nil => own2[weak] = Nil
      <3>1. \A x \in rec : own2[x] = own[x]
        BY <1>6, <2>2 DEF TypeOK
      <3> QED
        BY <1>1, <3>1 DEF Owned, RefInv, RefsGood, Live
    <2>9. ASSUME NEW x \in Good', fld'[x] # Nil, own2[fld'[x]] # Nil PROVE own2[x] = own2[fld'[x]]
      <3>1. CASE x = o
        <4>1. fld'[o] = v /\ v \in Good
          BY <1>4, <1>8, <2>9, <3>1
        <4> QED
          BY <1>8, <2>2, <2>6, <2>9, <3>1, <4>1
      <3>2. CASE x \in Good
        <4>1. fld'[x] = fld[x] /\ fld[x] \in Good
          BY <1>12, <2>9, <3>2 DEF RefInv, RefsGood
        <4> QED
          BY <1>1, <2>6, <2>9, <3>2, <4>1 DEF Owned
      <3> QED
        BY <1>7, <3>1, <3>2
    <2>10. ASSUME NEW h \in G, NEW i \in 1 .. Len(hand[h].work)
          PROVE  own2[hand[h].work[i]] = h /\ st'[hand[h].work[i]] = "handed"
      <3>1. hand[h].work \in Seq(Obj)
        BY DEF TypeOK, HandState, HandCall
      <3>2. own[hand[h].work[i]] = h /\ st[hand[h].work[i]] = "handed" /\ hand[h].work[i] \in Obj
        BY <1>1, <2>10, <3>1 DEF Owned
      <3> QED
        BY <1>3, <1>4, <2>2, <3>2
    <2>11. Owned(own2)'
      BY <1>3, <1>7, <2>4, <2>5, <2>7, <2>8, <2>9, <2>10 DEF Owned
    <2> QED
      BY <2>2, <2>11 DEF OwnExact
  <1>16. CountSum'
    <2> SUFFICES ASSUME NEW x \in Obj, st'[x] # "none"
                 PROVE  cnt'[x] = Cardinality(Locals(x))' + Cardinality(Fields(x))' + Cardinality(Decs(x))'
      BY DEF CountSum
    <2>1. Decs(x)' = Decs(x) /\ x # Nil
      BY <1>3, ConstAssumption DEF Decs
    <2>2. Fields(x)' \ {o} = Fields(x) \ {o} /\ o \notin Fields(x) /\ (o \in Fields(x)' <=> x = v)
      BY <1>3, <1>4, <1>10 DEF Fields
    <2>3. IsFiniteSet(Locals(x)) /\ Cardinality(Locals(x)) \in Nat /\ IsFiniteSet(Fields(x)) /\ Cardinality(Fields(x)) \in Nat
      BY HoldersFinite
    <2>4. Cardinality(Fields(x)') = Cardinality(Fields(x)) + (IF o \in Fields(x)' THEN 1 ELSE 0) - (IF o \in Fields(x) THEN 1 ELSE 0)
      BY <2>2, <2>3, SetCard
    <2>5. CASE x = o
      <3>1. Locals(o) = {}
        BY <1>6, <1>11 DEF Locals
      <3>2. Fields(o) = {}
        <4> SUFFICES ASSUME NEW y \in Fields(o) PROVE FALSE
          OBVIOUS
        <4>1. y \in Good /\ fld[y] = o
          BY <1>1, WorkLive DEF Fields, Good
        <4> QED
          BY <1>12, <4>1
      <3>3. Decs(o) = {}
        <4>1. \A h \in G : hand[h].pc = "dec" => hand[h].cur \in Live
          BY DEF RefInv, HandsExact, HandExact
        <4> QED
          BY <1>6, <4>1 DEF Decs, Good
      <3>4. Locals(o)' = {<<g, s>>}
        BY <1>5, <1>6, <1>11 DEF Locals
      <3>5. Cardinality({<<g, s>>}) = 1 /\ Cardinality({}) = 0
        BY FS_Singleton, FS_EmptySet
      <3>6. Cardinality(Fields(x)') = 0 /\ Cardinality(Decs(x)') = 0 /\ Cardinality(Locals(x)') = 1
        BY <1>9, <2>1, <2>2, <2>4, <2>5, <3>2, <3>3, <3>4, <3>5
      <3> QED
        BY <1>4, <2>5, <3>6
    <2>6. CASE x # o
      <3>1. cnt'[x] = cnt[x] /\ cnt[x] = Cardinality(Locals(x)) + Cardinality(Fields(x)) + Cardinality(Decs(x))
        BY <1>4, <2>6 DEF RefInv, CountSum
      <3>2. Cardinality(Locals(x)') = Cardinality(Locals(x)) - (IF x = v THEN 1 ELSE 0)
        <4>1. /\ Locals(x)' \ {<<g, t>>} = Locals(x) \ {<<g, t>>}
              /\ <<g, t>> \notin Locals(x)' /\ (<<g, t>> \in Locals(x) <=> x = v)
          <5>1. \A h \in G, r \in Slot : ~(h = g /\ r = t) => (loc'[h][r] = x <=> loc[h][r] = x)
            BY <1>3, <1>5, <2>1, <2>6
          <5>2. loc'[g][t] # x /\ (loc[g][t] = x <=> x = v)
            BY <1>2, <1>3, <1>5, <1>8, <2>1, <2>6
          <5> QED
            BY <5>1, <5>2 DEF Locals
        <4>2. Cardinality(Locals(x)') = Cardinality(Locals(x)) + (IF <<g, t>> \in Locals(x)' THEN 1 ELSE 0) - (IF <<g, t>> \in Locals(x) THEN 1 ELSE 0)
          BY <2>3, <4>1, SetCard
        <4> QED
          BY <2>3, <4>1, <4>2
      <3>3. Cardinality(Fields(x)') = Cardinality(Fields(x)) + (IF x = v THEN 1 ELSE 0)
        BY <2>2, <2>3, <2>4
      <3> QED
        BY <2>1, <2>3, <3>1, <3>2, <3>3, HoldersFinite
    <2> QED
      BY <2>5, <2>6
  <1> QED
    BY <1>7, <1>10, <1>13, <1>14, <1>15, <1>16 DEF RefInv

-----------------------------------------------------------------------------
(* What the cycle under way has not reached.                                *)

\* A step after which nothing new is isolated.
Backward ==
    /\ Pale' \subseteq Pale
    /\ \A x \in grey \cup Pale : fld[x] \in Pale' => fld'[x] = fld[x] /\ x \in grey' \cup Pale'
    /\ "globals" \in roots /\ glob \in Pale' => "globals" \in roots' /\ glob' = glob
    /\ \A y \in Pale' : CountedAhead(y) /\ cnt[y] # 0 => CountedAhead(y)' /\ cnt'[y] # 0

(* What is isolated after such a step was so before it, and unseen. *)
LEMMA TriBack ==
    ASSUME TypeOK, PhasesExact, CyclesExact, marking, NoneSeen, Backward,
           NEW W \in SUBSET Pale', Isolated(W)'
    PROVE  W \subseteq Pale /\ Isolated(W) /\ Unseen(W)
  <1>1. target # cyc
    BY Ages DEF CyclesExact
  <1>2. grey \cap Pale = {}
    BY <1>1 DEF PhasesExact, Pale
  <1>3. W \subseteq Pale
    BY DEF Backward
  <1>4. ASSUME NEW x \in grey \cup (Pale \ W) PROVE fld[x] \notin W
    <2> SUFFICES ASSUME fld[x] \in W PROVE FALSE
      OBVIOUS
    <2>1. fld'[x] = fld[x] /\ x \in grey' \cup Pale'
      BY <1>4 DEF Backward
    <2>2. x \notin W
      BY <1>2, <1>3, <1>4
    <2>3. x \in grey' \cup (Pale' \ W)
      BY <2>1, <2>2
    <2> QED
      BY <2>1, <2>3 DEF Isolated
  <1>5. "globals" \in roots => glob \notin W
    BY DEF Backward, Isolated
  <1>6. \A y \in W : ~(CountedAhead(y) /\ cnt[y] # 0)
    BY DEF Backward, Isolated
  <1>7. Isolated(W)
    BY <1>4, <1>5, <1>6 DEF Isolated
  <1> QED
    BY <1>3, <1>7 DEF NoneSeen

\* fgoEscMark on ps, as a change of what is reached.
Shades(ps) ==
    /\ Pale' = Pale \ ps /\ grey' = grey \cup (Pale \cap ps)
    /\ \A x \in rec : mark'[x] = cyc <=> mark[x] = cyc \/ x \in Pale \cap ps
    /\ UNCHANGED <<rec, cyc, marking>>

(* While it marks, the GC reaches what it is shown. *)
LEMMA MarkShades ==
    ASSUME TypeOK, RecInv, PhasesExact, CyclesExact, marking, NEW ps, fgoEscMark(ps),
           ps \cap rec \subseteq Live, UNCHANGED <<rec, cyc, target, marking>>
    PROVE  Shades(ps)
  <1>1. target # cyc /\ ~tabNil
    BY Ages DEF CyclesExact, PhasesExact
  <1>2. Reached(ps) = Pale \cap ps
    BY <1>1 DEF Reached, Pale, Live, RecInv, RecordsExact, TypeOK
  <1>3. /\ \A x \in Obj : mark'[x] = IF x \in Pale \cap ps THEN cyc ELSE mark[x]
        /\ grey' = grey \cup (Pale \cap ps)
    BY <1>2 DEF fgoEscMark
  <1>4. Pale' = Pale \ ps
    BY <1>1, <1>3 DEF Pale, TypeOK
  <1> QED
    BY <1>3, <1>4 DEF Shades, TypeOK

(* A step that stamps nothing. *)
LEMMA NoShades ==
    ASSUME UNCHANGED <<mark, grey, rec, cyc, target, marking>>
    PROVE  Shades({})
  BY DEF Shades, Pale

(* Shading, and a root or a queued object that has been dealt with. *)
LEMMA ShadeBack ==
    ASSUME NEW ps, Shades(ps), UNCHANGED <<cnt, lock, todo>>,
           \A x \in grey \cup Pale : fld[x] \in Pale' => fld'[x] = fld[x],
           "globals" \in roots /\ glob \in Pale' => "globals" \in roots' /\ glob' = glob,
           "counted" \in roots => "counted" \in roots'
    PROVE  Backward
  <1>1. \A y : CountedAhead(y) => CountedAhead(y)'
    BY DEF CountedAhead
  <1>2. \A x \in grey \cup Pale : x \in grey' \cup Pale'
    BY DEF Shades
  <1> QED
    BY <1>1, <1>2 DEF Backward, Shades

(* What counted fields and calls of fgoRCDec refer to stays ahead of the marker. *)
LEMMA AheadKeep ==
    ASSUME FieldsAhead, DecsAhead, Pale' \subseteq Pale,
           \A y \in Pale' : CountedAhead(y) => CountedAhead(y)',
           \A x \in Good' : (st'[x] = "counted" \/ InWork(x)') /\ fld'[x] \in Pale' =>
                x \in Good /\ (st[x] = "counted" \/ InWork(x)) /\ fld[x] = fld'[x],
           \A g \in G : hand'[g].pc = "dec" /\ hand'[g].cur \in Pale' =>
                hand[g].pc = "dec" /\ hand[g].cur = hand'[g].cur
    PROVE  FieldsAhead' /\ DecsAhead'
  BY DEF FieldsAhead, DecsAhead

(* Scanning a root or a queued object keeps Tricolor: what it leads to is reached. *)
LEMMA ScanTri ==
    ASSUME TypeOK, RecInv, PhasesExact, CyclesExact, RefInv, Tricolor, marking, NEW ps, Shades(ps),
           UNCHANGED <<st, cnt, fld, loc, gl, glob, hand, lock, todo>>, Live' = Live,
           roots' \subseteq roots, "counted" \in roots => "counted" \in roots',
           "globals" \in roots \ roots' => glob \in ps,
           \A g \in G : g \in roots \ roots' => gl[g] \in ps /\ \A s \in Slot : loc[g][s] \in ps
    PROVE  Tricolor'
  <1>1. Backward
    BY ShadeBack DEF Shades
  <1>2. FieldsAhead' /\ DecsAhead'
    <2>1. Good' = Good
      BY DEF Good
    <2>2. \A x : InWork(x)' = InWork(x)
      BY DEF InWork
    <2>3. \A y : CountedAhead(y) => CountedAhead(y)'
      BY DEF CountedAhead
    <2>4. Pale' \subseteq Pale
      BY DEF Shades
    <2> QED
      BY <2>1, <2>2, <2>3, <2>4, AheadKeep DEF Tricolor
  <1>3. NoneSeen'
    <2> SUFFICES ASSUME NEW W \in SUBSET Pale', Isolated(W)' PROVE Unseen(W)'
      BY DEF NoneSeen
    <2>1. Unseen(W) /\ W \cap ps = {}
      BY <1>1, TriBack DEF Tricolor, Shades
    <2>2. ASSUME NEW x \in rec', mark'[x] = cyc' PROVE fld'[x] \notin W
      <3>1. mark[x] = cyc \/ x \in grey'
        BY <2>2 DEF Shades
      <3> QED
        BY <2>1, <2>2, <3>1 DEF Unseen, Isolated, Shades
    <2>3. ASSUME NEW g \in G \ roots' PROVE gl'[g] \notin W /\ \A s \in Slot : loc'[g][s] \notin W
      BY <2>1, <2>3 DEF Unseen
    <2> QED
      BY <2>1, <2>2, <2>3 DEF Unseen
  <1> QED
    BY <1>2, <1>3 DEF Tricolor

(* The marker keeps Tricolor. *)
LEMMA MarkerTri ==
    ASSUME TypeOK, RecInv, PhasesExact, CyclesExact, RefInv, Tricolor, Marker
    PROVE  Tricolor'
  <1> USE DEF objVars, refVars, escVars, gcVars, swVars
  <1>0. RefsGood /\ ("counted" \in roots => marking) /\ (roots # {} => marking) /\ (grey # {} => marking)
    BY DEF RefInv, PhasesExact
  <1>1. ASSUME NEW g \in G, ScanStack(g) PROVE Tricolor'
    <2>1. PICK ps : ps = {gl[g]} \cup {loc[g][s] : s \in Slot}
      OBVIOUS
    <2>2. fgoEscMark(ps) /\ marking /\ UNCHANGED <<rec, cyc, target, marking>>
      BY <1>0, <1>1, <2>1 DEF ScanStack
    <2>3. ps \cap rec \subseteq Live
      BY <1>0, <2>1, RefsLive
    <2>4. Shades(ps) /\ Live' = Live
      BY <2>2, <2>3, MarkShades, MarkLive
    <2>5. roots' = roots \ {g} /\ g # "counted" /\ g # "globals"
      BY <1>1, ConstAssumption DEF ScanStack
    <2> QED
      BY <1>1, <2>1, <2>2, <2>4, <2>5, ScanTri DEF ScanStack
  <1>2. CASE ScanGlobals
    <2>1. fgoEscMark({glob}) /\ marking /\ UNCHANGED <<rec, cyc, target, marking>>
      BY <1>0, <1>2 DEF ScanGlobals
    <2>2. Shades({glob}) /\ Live' = Live
      BY <1>0, <2>1, RefsLive, MarkShades, MarkLive
    <2>3. roots' = roots \ {"globals"} /\ "globals" \notin G
      BY <1>2, ConstAssumption DEF ScanGlobals
    <2> QED
      BY <1>2, <2>1, <2>2, <2>3, ScanTri DEF ScanGlobals
  <1>3. CASE MarkCountedBegin
    <2>1. /\ marking /\ UNCHANGED <<st, cnt, fld, loc, gl, glob, hand, rec, mark, cyc, target, marking, roots, grey>>
          /\ "counted" \in roots /\ todo' = rec
      BY <1>0, <1>3 DEF MarkCountedBegin
    <2>2. Pale' = Pale /\ Good' = Good /\ Live' = Live /\ Pale \subseteq rec
      BY <2>1 DEF Pale, Good, Live
    <2>3. \A y \in Pale : CountedAhead(y)' /\ CountedAhead(y)
      BY <1>3, <2>1, <2>2 DEF CountedAhead, MarkCountedBegin, NoLock
    <2>4. \A x : InWork(x)' = InWork(x)
      BY <2>1 DEF InWork
    <2>5. FieldsAhead' /\ DecsAhead'
      BY <2>2, <2>3 DEF FieldsAhead, DecsAhead
    <2>6. Backward
      BY <2>1, <2>2, <2>3 DEF Backward
    <2>7. ASSUME NEW W \in SUBSET Pale', Isolated(W)' PROVE Unseen(W)'
      <3>1. Unseen(W)
        BY <2>1, <2>6, <2>7, TriBack DEF Tricolor
      <3> QED
        BY <2>1, <3>1 DEF Unseen
    <2> QED
      BY <2>5, <2>7 DEF Tricolor, NoneSeen
  <1>4. CASE MarkCountedRec
    <2>1. PICK o \in todo :
             LET R == {x \in {o} : StillCounted(x) /\ mark[x] # cyc}
             IN  /\ mark' = [x \in Obj |-> IF x \in R THEN cyc ELSE mark[x]]
                 /\ grey' = grey \cup R /\ todo' = todo \ {o}
      BY <1>4 DEF MarkCountedRec
    <2>2. /\ lock = "marker" /\ "counted" \in roots /\ marking /\ todo \subseteq rec
          /\ UNCHANGED <<st, cnt, fld, loc, gl, glob, hand, rec, cyc, target, marking, roots, lock>>
      BY <1>0, <1>4 DEF MarkCountedRec, PhasesExact, NoLock
    <2>3. PICK ps : ps = {x \in {o} : cnt[x] # 0}
      OBVIOUS
    <2>4. target # cyc /\ (cnt[o] # 0 => o \in Live) /\ o \in rec /\ o \in Obj
      <3>1. CountedLive
        BY CountedIsLive
      <3> QED
        BY <2>2, <3>1, Ages DEF CyclesExact, CountedLive, TypeOK
    <2>5. Pale \cap ps = {x \in {o} : StillCounted(x) /\ mark[x] # cyc}
      BY <2>2, <2>3, <2>4 DEF Pale, Live, StillCounted
    <2>6. /\ mark' = [x \in Obj |-> IF x \in Pale \cap ps THEN cyc ELSE mark[x]]
          /\ grey' = grey \cup (Pale \cap ps) /\ todo' = todo \ {o}
      BY <2>1, <2>5
    <2>7. Pale' = Pale \ ps
      BY <2>2, <2>4, <2>6 DEF Pale, TypeOK
    <2>8. \A x \in rec : mark'[x] = cyc <=> mark[x] = cyc \/ x \in Pale \cap ps
      BY <2>6 DEF TypeOK
    <2>9. ASSUME NEW y \in Pale', CountedAhead(y), cnt[y] # 0 PROVE CountedAhead(y)'
      <3>1. y # o
        BY <2>3, <2>7, <2>9
      <3> QED
        BY <2>2, <2>6, <2>9, <3>1 DEF CountedAhead
    <2>10. Good' = Good /\ Good \subseteq Obj /\ \A x : InWork(x)' = InWork(x)
      <3>1. Live' = Live
        BY <2>2, <2>6, <2>4 DEF Live, Pale, TypeOK
      <3> QED
        BY <2>2, <3>1 DEF Good, InWork, Live, TypeOK
    <2>11. FieldsAhead'
      <3> SUFFICES ASSUME NEW x \in Good, st[x] = "counted" \/ InWork(x), fld[x] \in Pale' PROVE CountedAhead(fld[x])'
        BY <2>2, <2>10 DEF FieldsAhead
      <3>1. fld[x] \in Pale /\ fld[x] \in Obj /\ st[fld[x]] = "handed"
        BY <2>7 DEF Pale, RecInv, RecordsExact, TypeOK
      <3>2. CountedAhead(fld[x])
        BY <2>2, <3>1 DEF Tricolor, FieldsAhead
      <3>3. x \in Fields(fld[x])
        BY <2>10 DEF Fields
      <3>4. cnt[fld[x]] # 0
        BY <3>1, <3>3, Holders DEF RefInv
      <3>5. PICK y : y = fld[x]
        OBVIOUS
      <3>6. CountedAhead(y)'
        BY <2>9, <3>2, <3>4, <3>5
      <3> QED
        BY <2>2, <3>5, <3>6
    <2>12. DecsAhead'
      <3> SUFFICES ASSUME NEW g \in G, hand[g].pc = "dec", hand[g].cur \in Pale' PROVE CountedAhead(hand[g].cur)'
        BY <2>2 DEF DecsAhead
      <3>1. PICK y : y = hand[g].cur
        OBVIOUS
      <3>2. y \in Pale /\ y \in Obj /\ st[y] = "handed"
        BY <2>7, <3>1 DEF Pale, RecInv, RecordsExact, TypeOK
      <3>3. CountedAhead(y)
        BY <2>2, <3>1, <3>2 DEF Tricolor, DecsAhead
      <3>4. cnt[y] # 0
        <4>1. g \in Decs(y)
          BY <3>1 DEF Decs
        <4> QED
          BY <3>2, <4>1, Holders DEF RefInv
      <3>5. CountedAhead(y)'
        BY <2>9, <3>1, <3>3, <3>4
      <3> QED
        BY <2>2, <3>1, <3>5
    <2>13. Backward
      BY <2>2, <2>6, <2>7, <2>9 DEF Backward
    <2>14. ASSUME NEW W \in SUBSET Pale', Isolated(W)' PROVE Unseen(W)'
      <3>1. Unseen(W)
        BY <2>2, <2>13, <2>14, TriBack DEF Tricolor
      <3>2. ASSUME NEW x \in rec', mark'[x] = cyc' PROVE fld'[x] \notin W
        <4>1. mark[x] = cyc \/ x \in grey'
          BY <2>2, <2>6, <2>8, <3>2
        <4> QED
          BY <2>2, <2>14, <3>1, <3>2, <4>1 DEF Unseen, Isolated
      <3> QED
        BY <2>2, <3>1, <3>2 DEF Unseen
    <2> QED
      BY <2>11, <2>12, <2>14 DEF Tricolor, NoneSeen
  <1>5. CASE MarkCountedEnd
    <2>1. /\ lock = "marker" /\ todo = {} /\ roots' = roots \ {"counted"} /\ lock' = NoLock
          /\ UNCHANGED <<st, cnt, fld, loc, gl, glob, hand, rec, mark, cyc, target, marking, grey>>
      BY <1>5 DEF MarkCountedEnd
    <2>2. marking /\ \A y : ~CountedAhead(y)
      BY <1>0, <2>1 DEF CountedAhead, PhasesExact
    <2>3. Pale' = Pale /\ Good' = Good /\ Live' = Live
      BY <2>1 DEF Pale, Good, Live
    <2>4. \A x : InWork(x)' = InWork(x)
      BY <2>1 DEF InWork
    <2>5. FieldsAhead' /\ DecsAhead'
      BY <2>1, <2>2, <2>3, <2>4 DEF FieldsAhead, DecsAhead, Tricolor
    <2>6. Backward
      BY <2>1, <2>2, <2>3 DEF Backward
    <2>7. ASSUME NEW W \in SUBSET Pale', Isolated(W)' PROVE Unseen(W)'
      <3>1. Unseen(W)
        BY <2>2, <2>6, <2>7, TriBack DEF Tricolor
      <3>2. G \ roots' = G \ roots
        BY <2>1, ConstAssumption
      <3> QED
        BY <2>1, <3>1, <3>2 DEF Unseen
    <2> QED
      BY <2>5, <2>7 DEF Tricolor, NoneSeen
  <1>6. CASE ScanObj
    <2>1. PICK o \in grey : /\ mark' = [x \in Obj |-> IF x \in Reached({fld[o]}) THEN cyc ELSE mark[x]]
                            /\ grey' = (grey \cup Reached({fld[o]})) \ {o}
      BY <1>6 DEF ScanObj
    <2>2. /\ marking /\ ~tabNil /\ target # cyc
          /\ UNCHANGED <<st, cnt, fld, loc, gl, glob, hand, rec, cyc, target, marking, roots, lock, todo>>
      BY <1>0, <1>6, <2>1, Ages DEF ScanObj, PhasesExact, CyclesExact
    <2>3. o \in rec /\ mark[o] = cyc /\ o \in Good /\ o \notin Pale
      BY <2>2 DEF PhasesExact, Good, Live, Pale
    <2>4. PICK ps : ps = {fld[o]}
      OBVIOUS
    <2>5. ps \cap rec \subseteq Live
      BY <1>0, <2>3, <2>4, RefsLive
    <2>6. Reached(ps) = Pale \cap ps
      BY <2>2, <2>5 DEF Reached, Pale, Live, RecInv, RecordsExact, TypeOK
    <2>7. /\ \A x \in Obj : mark'[x] = IF x \in Pale \cap ps THEN cyc ELSE mark[x]
          /\ grey' = (grey \cup (Pale \cap ps)) \ {o}
      BY <2>1, <2>4, <2>6
    <2>8. Pale' = Pale \ ps
      BY <2>2, <2>7 DEF Pale, TypeOK
    <2>9. Live' = Live /\ Good' = Good
      <3>1. Live' = Live
        BY <2>2, <2>7 DEF Live, Pale, TypeOK
      <3> QED
        BY <2>2, <3>1 DEF Good
    <2>10. \A x : InWork(x)' = InWork(x) /\ CountedAhead(x)' = CountedAhead(x)
      BY <2>2 DEF InWork, CountedAhead
    <2>11. FieldsAhead' /\ DecsAhead'
      BY <2>2, <2>8, <2>9, <2>10, AheadKeep DEF Tricolor
    <2>12. Backward
      <3>1. \A x \in grey \cup Pale : fld[x] \in Pale' => x \in grey' \cup Pale'
        BY <2>3, <2>4, <2>7, <2>8
      <3> QED
        BY <2>2, <2>8, <2>10, <3>1 DEF Backward
    <2>13. ASSUME NEW W \in SUBSET Pale', Isolated(W)' PROVE Unseen(W)'
      <3>1. Unseen(W)
        BY <2>2, <2>12, <2>13, TriBack DEF Tricolor
      <3>2. ASSUME NEW x \in rec', mark'[x] = cyc' PROVE fld'[x] \notin W
        <4>1. mark[x] = cyc \/ x \in grey'
          BY <2>2, <2>3, <2>7, <3>2 DEF TypeOK
        <4> QED
          BY <2>2, <2>13, <3>1, <3>2, <4>1 DEF Unseen, Isolated
      <3> QED
        BY <2>2, <3>1, <3>2 DEF Unseen
    <2> QED
      BY <2>11, <2>13 DEF Tricolor, NoneSeen
  <1>7. CASE gcMarkTermination
    BY <1>7 DEF gcMarkTermination, Tricolor
  <1> QED
    BY <1>1, <1>2, <1>3, <1>4, <1>5, <1>6, <1>7 DEF Marker

(* A new cycle has everything ahead of it. *)
LEMMA StartTri ==
    ASSUME TypeOK, RecInv, PhasesExact, CyclesExact, RefInv, gcStart
    PROVE  Tricolor'
  <1> USE DEF objVars, refVars, escVars, gcVars, swVars
  <1>1. ~marking /\ marking' /\ roots' = Jobs /\ UNCHANGED <<st, fld, loc, gl, glob, hand, rec, mark, lock, todo>>
    BY DEF gcStart
  <1>2. \A o \in rec : mark[o] # cyc'
    BY StartRefs
  <1>3. \A y : CountedAhead(y)'
    BY <1>1 DEF CountedAhead, Jobs, PhasesExact
  <1>4. FieldsAhead' /\ DecsAhead'
    BY <1>3 DEF FieldsAhead, DecsAhead
  <1>5. ASSUME NEW W \in SUBSET Pale', Isolated(W)' PROVE Unseen(W)'
    <2>1. "globals" \in roots' /\ G \ roots' = {}
      BY <1>1 DEF Jobs
    <2>2. glob' \notin W
      BY <1>5, <2>1 DEF Isolated
    <2> QED
      BY <1>1, <1>2, <2>1, <2>2 DEF Unseen
  <1> QED
    BY <1>4, <1>5 DEF Tricolor, NoneSeen

\* A step that the marker does not notice.
Still ==
    /\ UNCHANGED <<cnt, loc, gl, glob, hand, cyc, marking, roots, grey>>
    /\ Pale' = Pale /\ Good' = Good /\ rec' \subseteq rec
    /\ \A x \in rec' : mark'[x] = mark[x]
    /\ \A x \in Good : fld'[x] = fld[x] /\ st'[x] = st[x]
    /\ \A y \in Pale : CountedAhead(y)' <=> CountedAhead(y)

(* Such a step keeps Tricolor. *)
LEMMA StillTri ==
    ASSUME TypeOK, RecInv, PhasesExact, CyclesExact, RefInv, Tricolor, Still
    PROVE  Tricolor'
  <1> SUFFICES ASSUME marking PROVE FieldsAhead' /\ DecsAhead' /\ NoneSeen'
    BY DEF Tricolor, Still
  <1> USE DEF Still
  <1>1. \A x : InWork(x)' = InWork(x)
    BY DEF InWork
  <1>2. FieldsAhead' /\ DecsAhead'
    BY <1>1, AheadKeep DEF Tricolor
  <1>3. Pale \subseteq Good /\ grey \subseteq Good /\ \A x \in rec : mark[x] = cyc => x \in Good
    BY DEF Pale, Good, Live, PhasesExact
  <1>4. Backward
    BY <1>3 DEF Backward
  <1>5. ASSUME NEW W \in SUBSET Pale', Isolated(W)' PROVE Unseen(W)'
    <2>1. Unseen(W)
      BY <1>4, <1>5, TriBack DEF Tricolor
    <2>2. ASSUME NEW x \in rec', mark'[x] = cyc' PROVE fld'[x] \notin W
      BY <1>3, <2>1, <2>2 DEF Unseen
    <2> QED
      BY <2>1, <2>2 DEF Unseen
  <1> QED
    BY <1>2, <1>5 DEF NoneSeen

(* The marker does not notice the sweeper. *)
LEMMA SweeperTri ==
    ASSUME TypeOK, RecInv, PhasesExact, CyclesExact, RefInv, Tricolor, Sweeper
    PROVE  Tricolor'
  <1> USE DEF objVars, refVars, escVars, gcVars, swVars
  <1>1. Live' = Live
    BY SweeperRefs
  <1>2. CASE SweepBegin \/ SweepRebuild \/ SweepUnlock \/ SweepEnd
    <2>1. UNCHANGED <<st, cnt, fld, loc, gl, glob, hand, rec, mark, cyc, target, marking, roots, grey>>
      BY <1>2 DEF SweepBegin, SweepRebuild, SweepUnlock, SweepEnd
    <2>2. (lock # "marker" /\ lock' # "marker") \/ UNCHANGED <<lock, todo>>
      BY <1>2 DEF SweepBegin, SweepRebuild, SweepUnlock, SweepEnd, PhasesExact, NoLock
    <2>3. \A y : CountedAhead(y)' <=> CountedAhead(y)
      BY <2>1, <2>2 DEF CountedAhead
    <2>4. Still
      BY <2>1, <2>3 DEF Still, Pale, Good, Live
    <2> QED
      BY <2>4, StillTri
  <1>3. CASE SweepRec
    <2>1. PICK o \in todo :
             \/ Condemned(o) /\ rec' = rec \ {o} /\ mark' = [mark EXCEPT ![o] = 0]
             \/ UNCHANGED <<rec, mark>>
      BY <1>3 DEF SweepRec
    <2>2. /\ spc = "sweep" /\ o \in rec /\ lock # "marker"
          /\ UNCHANGED <<st, cnt, fld, loc, gl, glob, hand, cyc, target, marking, roots, grey, lock>>
      BY <1>3 DEF SweepRec, PhasesExact, NoLock
    <2>3. \A y : CountedAhead(y)' <=> CountedAhead(y)
      BY <2>2 DEF CountedAhead
    <2>4. rec' \subseteq rec /\ (\A x \in rec' : mark'[x] = mark[x]) /\ Pale' = Pale
      <3>1. CASE Condemned(o) /\ rec' = rec \ {o} /\ mark' = [mark EXCEPT ![o] = 0]
        <4>1. o \notin Live
          BY <2>2, <3>1, CondemnedOld
        <4>2. o \notin Pale
          BY <4>1 DEF Live, Pale
        <4> QED
          BY <2>2, <3>1, <4>2 DEF Pale, TypeOK
      <3>2. CASE UNCHANGED <<rec, mark>>
        BY <2>2, <3>2 DEF Pale
      <3> QED
        BY <2>1, <3>1, <3>2
    <2>5. Still
      BY <1>1, <2>2, <2>3, <2>4 DEF Still, Good
    <2> QED
      BY <2>5, StillTri
  <1>4. CASE SweepFree
    <2>1. PICK o \in dropped : st' = [st EXCEPT ![o] = "none"] /\ fld' = [fld EXCEPT ![o] = Nil]
      BY <1>4 DEF SweepFree
    <2>2. UNCHANGED <<cnt, loc, gl, glob, hand, rec, mark, cyc, target, marking, roots, grey, lock, todo>>
      BY <1>4 DEF SweepFree
    <2>3. o \in Obj /\ st[o] = "handed" /\ o \notin Good
      BY DEF RecInv, RecordsExact, TypeOK, Good, Live
    <2>4. \A x \in Obj : x # o => st'[x] = st[x] /\ fld'[x] = fld[x]
      BY <2>1 DEF TypeOK
    <2>5. Pale' = Pale /\ Good' = Good /\ Good \subseteq Obj
      BY <1>1, <2>1, <2>2, <2>3, <2>4 DEF Pale, Good, Live, TypeOK
    <2>6. \A y : CountedAhead(y)' <=> CountedAhead(y)
      BY <2>2 DEF CountedAhead
    <2>7. Still
      BY <2>2, <2>3, <2>4, <2>5, <2>6 DEF Still
    <2> QED
      BY <2>7, StillTri
  <1> QED
    BY <1>2, <1>3, <1>4 DEF Sweeper

\* A step of ordinary code: it changes traced pointers, and its write barrier shades ps.
Traces(ps) ==
    /\ Shades(ps) /\ UNCHANGED <<st, cnt, fld, loc, hand, roots, lock, todo>> /\ Live' = Live
    /\ glob' = glob \/ (glob \in ps \cup {Nil} /\ glob' = Nil)

(* It keeps Tricolor if a scanned goroutine's new traced pointer is not to an unseen object. *)
LEMMA TracesTri ==
    ASSUME TypeOK, RecInv, PhasesExact, CyclesExact, RefInv, Tricolor, marking, NEW ps, Traces(ps),
           NEW g \in G, \A h \in G : h # g => gl'[h] = gl[h],
           \A W \in SUBSET Pale' : Isolated(W) /\ Unseen(W) /\ g \notin roots => gl'[g] \notin W
    PROVE  Tricolor'
  <1> USE DEF Traces
  <1>0. Nil \notin Pale /\ Nil \notin Pale'
    BY ConstAssumption DEF Pale, TypeOK, Shades
  <1>1. Backward
    BY <1>0, ShadeBack DEF Shades
  <1>2. FieldsAhead' /\ DecsAhead'
    <2>1. Good' = Good
      BY DEF Good
    <2>2. \A x : InWork(x)' = InWork(x) /\ CountedAhead(x)' = CountedAhead(x)
      BY DEF InWork, CountedAhead
    <2>3. Pale' \subseteq Pale
      BY DEF Shades
    <2> QED
      BY <2>1, <2>2, <2>3, AheadKeep DEF Tricolor
  <1>3. ASSUME NEW W \in SUBSET Pale', Isolated(W)' PROVE Unseen(W)'
    <2>1. Unseen(W) /\ Isolated(W) /\ Nil \notin W
      BY <1>0, <1>1, <1>3, TriBack DEF Tricolor
    <2>2. ASSUME NEW x \in rec', mark'[x] = cyc' PROVE fld'[x] \notin W
      <3>1. mark[x] = cyc \/ x \in grey'
        BY <2>2 DEF Shades
      <3> QED
        BY <1>3, <2>1, <2>2, <3>1 DEF Unseen, Isolated, Shades
    <2>3. glob' \notin W
      BY <2>1 DEF Unseen
    <2>4. \A h \in G \ roots' : gl'[h] \notin W /\ \A s \in Slot : loc'[h][s] \notin W
      BY <2>1 DEF Unseen
    <2> QED
      BY <2>2, <2>3, <2>4 DEF Unseen
  <1> QED
    BY <1>2, <1>3 DEF Tricolor, NoneSeen, Shades

(* Ordinary code keeps Tricolor. *)
LEMMA TracedTri ==
    ASSUME TypeOK, RecInv, PhasesExact, CyclesExact, RefInv, Tricolor, NEW g \in G, Traced(g)
    PROVE  Tricolor'
  <1> USE DEF objVars, refVars, escVars, gcVars, swVars
  <1>1. Live' = Live /\ UNCHANGED <<st, cnt, fld, loc, hand, rec, cyc, target, marking, roots, lock, todo>>
    BY TracedRefsStep DEF Traced, LoadGlobal, LoadTracedField, ForgetTraced, ClearGlobal, fgoMakeStrong
  <1> SUFFICES ASSUME marking PROVE Tricolor'
    BY <1>1 DEF Tricolor
  <1>2. Nil \notin Pale' /\ target # cyc
    BY <1>1, ConstAssumption, Ages DEF Pale, TypeOK, CyclesExact
  <1>3. \A W \in SUBSET Pale' : Unseen(W) /\ g \notin roots => gl[g] \notin W
    BY DEF Unseen
  <1>4. ASSUME UNCHANGED <<mark, grey, glob>> PROVE Traces({})
    BY <1>1, <1>4, NoShades DEF Traces
  <1>5. CASE LoadGlobal(g)
    <2>1. Traces({}) /\ (\A h \in G : h # g => gl'[h] = gl[h]) /\ gl'[g] = glob
      BY <1>4, <1>5 DEF LoadGlobal, SetGl, TypeOK
    <2>2. \A W \in SUBSET Pale' : Unseen(W) => gl'[g] \notin W
      BY <2>1 DEF Unseen
    <2> QED
      BY <2>1, <2>2, TracesTri
  <1>6. CASE LoadTracedField(g)
    <2>1. Traces({}) /\ (\A h \in G : h # g => gl'[h] = gl[h]) /\ gl'[g] = fld[gl[g]] /\ gl[g] # Nil
      BY <1>4, <1>6 DEF LoadTracedField, SetGl, TypeOK
    <2>2. gl[g] \in rec /\ (mark[gl[g]] = cyc \/ gl[g] \in Pale)
      BY <2>1 DEF RefInv, RefsGood, Live, Pale
    <2>3. ASSUME NEW W \in SUBSET Pale', Isolated(W), Unseen(W), g \notin roots PROVE gl'[g] \notin W
      <3>1. gl[g] \notin W
        BY <1>3, <2>3
      <3> QED
        BY <2>1, <2>2, <2>3, <3>1 DEF Unseen, Isolated
    <2> QED
      BY <2>1, <2>3, TracesTri
  <1>7. CASE ForgetTraced(g)
    <2>1. Traces({}) /\ (\A h \in G : h # g => gl'[h] = gl[h]) /\ gl'[g] = Nil
      BY <1>4, <1>7 DEF ForgetTraced, SetGl, TypeOK
    <2> QED
      BY <1>2, <2>1, TracesTri
  <1>8. CASE ClearGlobal(g)
    <2>1. fgoEscMark({glob}) /\ glob' = Nil /\ gl' = gl
      BY <1>8 DEF ClearGlobal
    <2>2. {glob} \cap rec \subseteq Live
      BY RefsLive DEF RefInv
    <2>3. Shades({glob})
      BY <1>1, <2>1, <2>2, MarkShades
    <2>4. Traces({glob})
      BY <1>1, <2>1, <2>3 DEF Traces
    <2> QED
      BY <1>3, <2>1, <2>4, TracesTri
  <1>9. CASE fgoMakeStrong(g)
    <2>1. fgoEscMark({weak}) /\ glob' = glob /\ (\A h \in G : h # g => gl'[h] = gl[h]) /\ gl'[g] = weak
      BY <1>9 DEF fgoMakeStrong, ShadeStrong, SetGl, TypeOK
    <2>2. {weak} \cap rec \subseteq Live
      BY <1>9, StrongLive
    <2>3. Shades({weak})
      BY <1>1, <2>1, <2>2, MarkShades
    <2>4. Traces({weak})
      BY <1>1, <2>1, <2>3 DEF Traces
    <2>5. weak \notin Pale'
      BY <2>3 DEF Shades
    <2> QED
      BY <2>1, <2>4, <2>5, TracesTri
  <1> QED
    BY <1>5, <1>6, <1>7, <1>8, <1>9 DEF Traced

(* The stores that end a hand-off keep Tricolor: their write barrier shades both ends. *)
LEMMA StoreTri ==
    ASSUME TypeOK, TypeOK', RecInv, PhasesExact, CyclesExact, RefInv, Tricolor, NEW g \in G,
           StoreGlobal(g) \/ PassTraced(g) \/ StoreField(g) \/ fgoWeakHandle(g)
    PROVE  Tricolor'
  <1> USE DEF objVars, refVars, escVars, gcVars, swVars
  <1>1. PICK own \in [Obj -> G \cup {Nil}] : Owned(own)
    BY DEF RefInv, OwnExact
  <1>2. PICK v : v = loc[g][hand[g].slot]
    OBVIOUS
  <1>3. PICK b : b = hand[g].base
    OBVIOUS
  <1>4. /\ HandDone(g) /\ hand' = [hand EXCEPT ![g] = Idle]
        /\ UNCHANGED <<st, rec, cyc, target, marking, roots, lock, todo>>
    BY DEF StoreGlobal, PassTraced, StoreField, fgoWeakHandle
  <1>5. /\ v \in Live /\ hand[g].slot \in Slot
        /\ hand[g].then = "field" => b \in Live /\ b \in Obj /\ st[b] = "handed" /\ own[b] \in {g, Nil}
        /\ \A x : own[x] \in {g, Nil} => ~InWork(x)
    BY <1>1, <1>2, <1>3, <1>4, DoneFacts
  <1>6. Live' = Live
    BY StoreRefs
  <1> SUFFICES ASSUME marking PROVE Tricolor'
    BY <1>4 DEF Tricolor
  <1>7. PICK ps : ps = IF StoreGlobal(g) THEN {glob, v} ELSE IF StoreField(g) THEN {fld[b], v} ELSE {}
    OBVIOUS
  <1>8. Shades(ps)
    <2>1. CASE StoreGlobal(g)
      <3>1. ps = {glob, v} /\ fgoEscMark(ps)
        BY <1>2, <1>7, <2>1 DEF StoreGlobal
      <3>2. ps \cap rec \subseteq Live
        BY <1>5, <3>1, RefsLive DEF RefInv
      <3> QED
        BY <1>4, <3>1, <3>2, MarkShades
    <2>2. CASE ~StoreGlobal(g) /\ StoreField(g)
      <3>1. ps = {fld[b], v} /\ fgoEscMark(ps) /\ hand[g].then = "field"
        BY <1>2, <1>3, <1>7, <2>2 DEF StoreField
      <3>2. ps \cap rec \subseteq Live
        BY <1>5, <3>1, RefsLive DEF RefInv, Good
      <3> QED
        BY <1>4, <3>1, <3>2, MarkShades
    <2>3. CASE ~StoreGlobal(g) /\ ~StoreField(g)
      BY <1>4, <1>7, <2>3, NoShades DEF PassTraced, fgoWeakHandle
    <2> QED
      BY <2>1, <2>2, <2>3
  <1>9. /\ \A h \in G, s \in Slot : loc'[h][s] \in {loc[h][s], Nil}
        /\ \A h \in G : gl'[h] = gl[h] \/ (h = g /\ gl'[h] = v)
        /\ glob' = glob \/ (glob' = v /\ {glob, v} \subseteq ps)
        /\ \A x \in Obj : fld'[x] = fld[x] \/ (x = b /\ fld'[x] = v /\ {fld[b], v} \subseteq ps /\ hand[g].then = "field")
        /\ \A x \in Obj : cnt'[x] = cnt[x] \/ (x = v /\ v \in ps)
    <2>1. CASE StoreGlobal(g)
      BY <1>2, <1>7, <2>1 DEF StoreGlobal
    <2>2. CASE ~StoreGlobal(g) /\ StoreField(g)
      BY <1>2, <1>3, <1>5, <1>7, <2>2, SMTT(30) DEF StoreField, SetLoc, TypeOK
    <2>3. CASE PassTraced(g) \/ fgoWeakHandle(g)
      BY <1>2, <2>3 DEF PassTraced, fgoWeakHandle, TypeOK
    <2> QED
      BY <2>1, <2>2, <2>3
  <1>10. Pale' = Pale \ ps /\ Pale \subseteq Obj /\ Nil \notin Pale /\ grey \subseteq Obj
    BY <1>8, ConstAssumption DEF Shades, Pale, TypeOK
  <1>11. \A y : CountedAhead(y)' <=> CountedAhead(y)
    BY <1>4 DEF CountedAhead
  <1>12. Backward
    <2>1. \A x \in grey \cup Pale : x \in grey' \cup Pale'
      BY <1>8 DEF Shades
    <2>2. \A x \in grey \cup Pale : fld[x] \in Pale' => fld'[x] = fld[x]
      BY <1>9, <1>10
    <2>3. \A y \in Pale' : cnt'[y] = cnt[y]
      BY <1>9, <1>10
    <2> QED
      BY <1>4, <1>9, <1>10, <1>11, <2>1, <2>2, <2>3 DEF Backward
  <1>13. FieldsAhead' /\ DecsAhead'
    <2>1. Good' = Good /\ Good \subseteq Obj
      BY <1>4, <1>6 DEF Good, Live, TypeOK
    <2>2. \A h \in G : h # g => hand'[h] = hand[h]
      BY <1>4 DEF TypeOK
    <2>3. hand'[g] = Idle /\ hand[g].work = <<>>
      BY <1>4 DEF TypeOK, HandDone
    <2>4. \A x : InWork(x)' <=> InWork(x)
      <3>1. \A h \in G : hand'[h].work = hand[h].work
        BY <2>2, <2>3 DEF Idle
      <3> QED
        BY <3>1, WorkKeep
    <2>5. \A x \in Good : (st[x] = "counted" \/ InWork(x)) => fld'[x] = fld[x]
      BY <1>5, <1>9, <2>1
    <2>6. \A h \in G : hand'[h].pc = "dec" => hand[h].pc = "dec" /\ hand[h].cur = hand'[h].cur
      BY <2>2, <2>3 DEF Idle
    <2> QED
      BY <1>4, <1>10, <1>11, <2>1, <2>4, <2>5, <2>6, AheadKeep DEF Tricolor
  <1>14. ASSUME NEW W \in SUBSET Pale', Isolated(W)' PROVE Unseen(W)'
    <2>1. Unseen(W) /\ Nil \notin W /\ W \cap ps = {}
      BY <1>10, <1>12, <1>14, TriBack DEF Tricolor
    <2>2. ASSUME NEW x \in rec', mark'[x] = cyc' PROVE fld'[x] \notin W
      <3>1. x \in rec /\ x \in Obj /\ (mark[x] = cyc \/ x \in grey')
        BY <1>8, <2>2 DEF Shades, TypeOK
      <3>2. fld[x] \notin W \/ x \in grey'
        BY <2>1, <3>1 DEF Unseen
      <3> QED
        BY <1>9, <1>14, <2>1, <3>1, <3>2 DEF Isolated
    <2>3. glob' \notin W
      BY <1>9, <2>1 DEF Unseen
    <2>4. \A h \in G \ roots' : gl'[h] \notin W /\ \A s \in Slot : loc'[h][s] \notin W
      <3>1. g \notin roots => v \notin W
        BY <1>2, <1>5, <2>1 DEF Unseen
      <3> QED
        BY <1>4, <1>9, <2>1, <3>1 DEF Unseen
    <2> QED
      BY <2>2, <2>3, <2>4 DEF Unseen
  <1> QED
    BY <1>13, <1>14 DEF Tricolor, NoneSeen


\* A step of nogc code: the cycle's own state stays, and what it has yet to look at.
Nogcs ==
    /\ UNCHANGED <<gl, glob, cyc, marking, roots, grey, lock, todo>> /\ Pale' = Pale
    /\ \A x \in grey \cup Pale : fld'[x] = fld[x]
    /\ \A y \in Pale : CountedAhead(y) /\ cnt[y] # 0 => cnt'[y] # 0

(* It keeps Tricolor if it shows what has been looked at nothing that is cut off. *)
LEMMA NogcsTri ==
    ASSUME TypeOK, PhasesExact, CyclesExact, Tricolor, marking, Nogcs, FieldsAhead', DecsAhead',
           \A W \in SUBSET Pale : Isolated(W) /\ Isolated(W)' /\ Unseen(W) =>
              /\ \A x \in rec' : mark'[x] = cyc => fld'[x] \notin W
              /\ \A g \in G \ roots, s \in Slot : loc'[g][s] \notin W
    PROVE  Tricolor'
  <1> USE DEF Nogcs
  <1>1. \A y : CountedAhead(y)' <=> CountedAhead(y)
    BY DEF CountedAhead
  <1>2. Backward
    BY <1>1 DEF Backward
  <1>3. ASSUME NEW W \in SUBSET Pale', Isolated(W)' PROVE Unseen(W)'
    <2>1. W \in SUBSET Pale /\ Isolated(W) /\ Unseen(W)
      BY <1>2, <1>3, TriBack DEF Tricolor
    <2>2. /\ \A x \in rec' : mark'[x] = cyc => fld'[x] \notin W
          /\ \A g \in G \ roots, s \in Slot : loc'[g][s] \notin W
      BY <1>3, <2>1
    <2> QED
      BY <2>1, <2>2 DEF Unseen
  <1> QED
    BY <1>3 DEF Tricolor, NoneSeen

(* What the cycle has not reached yet is handed off, and white. *)
LEMMA PaleIs ==
    ASSUME TypeOK, RecInv, CyclesExact, marking
    PROVE  /\ \A y \in Pale : y \in rec /\ y \in Obj /\ y # Nil /\ st[y] = "handed" /\ White(y)
           /\ Nil \notin Pale /\ target # cyc
  <1>1. target # cyc
    BY Ages DEF CyclesExact
  <1> QED
    BY <1>1, ConstAssumption DEF Pale, White, RecInv, RecordsExact, TypeOK

(* fgoRCDec leaves the counts alone that fgoMarkCounted still has to look at. *)
LEMMA DecKeeps ==
    ASSUME TypeOK, RecInv, CyclesExact, marking, NoRace, NEW o, fgoRCDec(o)
    PROVE  \A y \in Pale : CountedAhead(y) => cnt'[y] = cnt[y]
  <1> SUFFICES ASSUME NEW y \in Pale, CountedAhead(y) PROVE cnt'[y] = cnt[y]
    OBVIOUS
  <1>1. White(y) /\ y \in Obj /\ st[y] = "handed"
    BY PaleIs
  <1>2. y \notin {o} \cup {fld[z] : z \in Dying(o)}
    BY <1>1 DEF fgoRCDec, NoRace
  <1>3. y # o /\ (\A z \in Dying(o) : fld[z] # y) /\ y \notin Dying(o)
    BY <1>1, <1>2 DEF Dying, Sole
  <1>4. Lost(y, Dying(o)) = 0
    BY <1>3 DEF Lost
  <1>5. cnt'[y] = cnt[y] - Lost(y, Dying(o)) - 0
    BY <1>1, <1>3 DEF fgoRCDec
  <1> QED
    BY <1>1, <1>4, <1>5 DEF TypeOK

(* A local that goes out of scope keeps Tricolor. *)
LEMMA DropTri ==
    ASSUME TypeOK, TypeOK', RecInv, PhasesExact, CyclesExact, RefInv, Tricolor, NoRace,
           NEW g \in G, NEW s \in Slot, DropLocal(g, s)
    PROVE  Tricolor'
  <1>1. PICK own \in [Obj -> G \cup {Nil}] : Owned(own)
    BY DEF RefInv, OwnExact
  <1>2. PICK o, D : o = loc[g][s] /\ D = Dying(o)
    OBVIOUS
  <1>3. Dropped(own, g, s, o, D)
    BY <1>1, <1>2, DropIs
  <1>4. Good' = Good \ D /\ Live' = Live
    BY <1>1, <1>3, DropRefs
  <1>5. fgoRCDec(o)
    BY <1>2 DEF DropLocal
  <1> SUFFICES ASSUME marking PROVE Tricolor'
    BY <1>3 DEF Tricolor, Dropped
  <1>6. \A x \in rec : x \in Obj /\ x \notin D
    BY <1>2 DEF Dying, Sole, RecInv, RecordsExact, TypeOK
  <1>7. UNCHANGED <<gl, glob, hand, rec, mark, cyc, marking, target, roots, grey, lock, todo>>
    BY <1>3 DEF Dropped
  <1>8. Pale' = Pale /\ \A x \in rec : fld'[x] = fld[x]
    BY <1>3, <1>6, <1>7 DEF Pale, Dropped
  <1>9. \A y \in Pale : CountedAhead(y) => cnt'[y] = cnt[y]
    BY <1>5, DecKeeps
  <1>10. Nogcs
    BY <1>7, <1>8, <1>9 DEF Nogcs, Pale, PhasesExact
  <1>11. FieldsAhead' /\ DecsAhead'
    <2>1. \A x : (InWork(x)' <=> InWork(x)) /\ (CountedAhead(x)' <=> CountedAhead(x))
      BY <1>7 DEF InWork, CountedAhead
    <2>2. \A x \in Good' : x \in Good /\ x \in Obj /\ fld'[x] = fld[x] /\ st'[x] = st[x]
      BY <1>3, <1>4 DEF Dropped, Good, Live, TypeOK
    <2> QED
      BY <1>7, <1>8, <2>1, <2>2, AheadKeep DEF Tricolor
  <1>12. \A h \in G, r \in Slot : loc'[h][r] \in {loc[h][r], Nil}
    BY <1>3 DEF Dropped
  <1>13. ASSUME NEW W \in SUBSET Pale, Unseen(W)
         PROVE  /\ \A x \in rec' : mark'[x] = cyc => fld'[x] \notin W
                /\ \A h \in G \ roots, r \in Slot : loc'[h][r] \notin W
    BY <1>7, <1>8, <1>12, <1>13, PaleIs DEF Unseen
  <1> QED
    BY <1>10, <1>11, <1>13, NogcsTri

(* A hand-off's call of fgoRCDec keeps Tricolor. *)
LEMMA HandDecTri ==
    ASSUME TypeOK, RecInv, PhasesExact, CyclesExact, RefInv, Tricolor, NoRace, NEW g \in G, HandDec(g)
    PROVE  Tricolor'
  <1> USE DEF objVars, refVars, escVars, gcVars, swVars
  <1>1. Live' = Live /\ UNCHANGED <<st, fld>> /\ \A x : InWork(x)' <=> InWork(x)
    BY HandDecRefs
  <1>2. UNCHANGED <<loc, gl, glob, rec, mark, cyc, marking, target, roots, grey, lock, todo>>
    BY DEF HandDec
  <1> SUFFICES ASSUME marking PROVE Tricolor'
    BY <1>2 DEF Tricolor
  <1>3. Pale' = Pale /\ Good' = Good
    BY <1>1, <1>2 DEF Pale, Good
  <1>4. \A y \in Pale : CountedAhead(y) => cnt'[y] = cnt[y]
    BY DecKeeps DEF HandDec
  <1>5. Nogcs
    BY <1>1, <1>2, <1>3, <1>4 DEF Nogcs
  <1>6. FieldsAhead' /\ DecsAhead'
    <2>1. \A x : CountedAhead(x)' <=> CountedAhead(x)
      BY <1>2 DEF CountedAhead
    <2>2. \A h \in G : hand'[h].pc = "dec" => hand'[h] = hand[h]
      BY DEF HandDec, TypeOK, HandState, HandCall
    <2> QED
      BY <1>1, <1>3, <2>1, <2>2, AheadKeep DEF Tricolor
  <1> QED
    BY <1>1, <1>2, <1>5, <1>6, NogcsTri DEF Unseen

(* A counted load keeps Tricolor: what a scanned goroutine can load is not cut off. *)
LEMMA CountsTri ==
    ASSUME TypeOK, RecInv, PhasesExact, CyclesExact, RefInv, Tricolor, NEW g \in G,
           (\E s \in Slot : TakeTraced(g, s)) \/ (\E s, t \in Slot : LoadField(g, s, t))
    PROVE  Tricolor'
  <1>1. PICK own \in [Obj -> G \cup {Nil}] : Owned(own)
    BY DEF RefInv, OwnExact
  <1>2. PICK t, x : /\ Counts(own, g, t, x)
                    /\ x = gl[g] \/ \E s \in Slot : loc[g][s] # Nil /\ x = fld[loc[g][s]]
    <2>1. \A s \in Slot : TakeTraced(g, s) => Counts(own, g, s, gl[g])
      BY <1>1, LoadCounts
    <2>2. \A s, t \in Slot : LoadField(g, s, t) => Counts(own, g, t, fld[loc[g][s]]) /\ loc[g][s] # Nil
      BY <1>1, LoadCounts DEF LoadField
    <2> QED
      BY <2>1, <2>2
  <1>3. /\ UNCHANGED <<st, fld, gl, glob, hand, rec, mark, cyc, marking, target, roots, grey, lock, todo>>
        /\ x \in Good /\ x \in Obj /\ t \in Slot
    BY <1>2 DEF Counts, Good, Live, TypeOK
  <1> SUFFICES ASSUME marking PROVE Tricolor'
    BY <1>3 DEF Tricolor
  <1>4. Pale' = Pale /\ Good' = Good
    BY <1>3 DEF Pale, Good, Live
  <1>5. \A y \in Obj : cnt'[y] = IF y = x THEN cnt[y] + 1 ELSE cnt[y]
    BY <1>2 DEF Counts, TypeOK
  <1>6. \A y \in Obj : st[y] # "none" => cnt[y] \in Nat
    BY Holders DEF RefInv
  <1>7. \A y \in Pale : cnt[y] # 0 \/ y = x => cnt'[y] # 0
    BY <1>5, <1>6, PaleIs
  <1>8. Nogcs
    BY <1>3, <1>4, <1>7 DEF Nogcs
  <1>9. \A y : (CountedAhead(y)' <=> CountedAhead(y)) /\ (InWork(y)' <=> InWork(y))
    BY <1>3 DEF CountedAhead, InWork
  <1>10. FieldsAhead' /\ DecsAhead'
    BY <1>3, <1>4, <1>9, AheadKeep DEF Tricolor
  <1>11. \A h \in G, r \in Slot : loc'[h][r] = IF h = g /\ r = t THEN x ELSE loc[h][r]
    BY <1>2 DEF Counts, SetLoc, TypeOK
  <1>12. ASSUME NEW W \in SUBSET Pale, Isolated(W), Isolated(W)', Unseen(W), g \notin roots PROVE x \notin W
    <2>1. SUFFICES ASSUME x \in W, NEW s \in Slot, loc[g][s] # Nil, x = fld[loc[g][s]] PROVE FALSE
      BY <1>2, <1>12 DEF Unseen
    <2>2. PICK b : b = loc[g][s]
      OBVIOUS
    <2>3. b \in Good /\ b \notin W /\ fld[b] = x
      BY <1>12, <2>1, <2>2 DEF RefInv, RefsGood, Unseen
    <2>4. CASE st[b] = "counted"
      <3>1. CountedAhead(x)
        BY <1>12, <2>1, <2>3, <2>4 DEF Tricolor, FieldsAhead
      <3>2. cnt'[x] # 0
        BY <1>7, <2>1
      <3> QED
        BY <1>9, <1>12, <2>1, <3>1, <3>2 DEF Isolated
    <2>5. CASE b \in Live
      <3>1. b \in rec /\ (mark[b] = cyc \/ b \in Pale)
        BY <2>5 DEF Live, Pale
      <3> QED
        BY <1>12, <2>1, <2>3, <3>1 DEF Unseen, Isolated
    <2> QED
      BY <2>3, <2>4, <2>5 DEF Good
  <1>13. ASSUME NEW W \in SUBSET Pale, Isolated(W), Isolated(W)', Unseen(W)
         PROVE  /\ \A y \in rec' : mark'[y] = cyc => fld'[y] \notin W
                /\ \A h \in G \ roots, r \in Slot : loc'[h][r] \notin W
    BY <1>3, <1>11, <1>12, <1>13 DEF Unseen
  <1> QED
    BY <1>8, <1>10, <1>13, NogcsTri

(* A composite literal keeps Tricolor: what it takes over is ahead of fgoMarkCounted. *)
LEMMA ConstructTri ==
    ASSUME TypeOK, RecInv, PhasesExact, CyclesExact, RefInv, Tricolor, NoRace,
           NEW g \in G, NEW s \in Slot, NEW t \in Slot, NEW o \in Obj, Construct(g, s, t, o)
    PROVE  Tricolor'
  <1> USE DEF objVars, refVars, escVars, gcVars, swVars
  <1>1. PICK v : v = IF s = t THEN Nil ELSE loc[g][t]
    OBVIOUS
  <1>2. Good' = Good \cup {o}
    BY ConstructRefs
  <1>3. /\ UNCHANGED <<gl, glob, hand, rec, mark, cyc, marking, target, roots, grey, lock, todo>>
        /\ st[o] = "none" /\ (~White(v) \/ CountedAhead(v))
        /\ fld' = [fld EXCEPT ![o] = v] /\ cnt' = [cnt EXCEPT ![o] = 1] /\ st' = [st EXCEPT ![o] = "counted"]
        /\ loc' = [loc EXCEPT ![g] = [r \in Slot |-> IF r = s THEN o ELSE IF r = t THEN Nil ELSE @[r]]]
    BY <1>1 DEF Construct, NoRace
  <1> SUFFICES ASSUME marking PROVE Tricolor'
    BY <1>3 DEF Tricolor
  <1>4. Pale' = Pale /\ o \notin rec /\ o \notin Pale
    BY <1>3 DEF Pale, RecInv, RecordsExact, TypeOK
  <1>5. \A x \in Obj : x # o => fld'[x] = fld[x] /\ cnt'[x] = cnt[x] /\ st'[x] = st[x]
    BY <1>3 DEF TypeOK
  <1>6. fld'[o] = v
    BY <1>3 DEF TypeOK
  <1>7. Nogcs
    <2>1. grey \cup Pale \subseteq rec /\ rec \subseteq Obj
      BY DEF Pale, PhasesExact, TypeOK
    <2> QED
      BY <1>3, <1>4, <1>5, <2>1 DEF Nogcs
  <1>8. \A y : (CountedAhead(y)' <=> CountedAhead(y)) /\ (InWork(y)' <=> InWork(y))
    BY <1>3 DEF CountedAhead, InWork
  <1>9. FieldsAhead'
    <2> SUFFICES ASSUME NEW x \in Good', st'[x] = "counted" \/ InWork(x)', fld'[x] \in Pale'
                 PROVE  CountedAhead(fld'[x])
      BY <1>3 DEF FieldsAhead, CountedAhead
    <2>1. CASE x = o
      BY <1>3, <1>4, <1>6, <2>1, PaleIs
    <2>2. CASE x # o
      <3>1. x \in Good /\ x \in Obj
        BY <1>2, <2>2 DEF Good, Live, TypeOK
      <3> QED
        BY <1>4, <1>5, <1>8, <2>2, <3>1 DEF Tricolor, FieldsAhead
    <2> QED
      BY <2>1, <2>2
  <1>10. DecsAhead'
    BY <1>3, <1>4, <1>8 DEF Tricolor, DecsAhead
  <1>11. \A h \in G, r \in Slot : loc'[h][r] \in {loc[h][r], Nil, o}
    BY <1>3 DEF TypeOK
  <1>12. ASSUME NEW W \in SUBSET Pale, Unseen(W)
         PROVE  /\ \A x \in rec' : mark'[x] = cyc => fld'[x] \notin W
                /\ \A h \in G \ roots, r \in Slot : loc'[h][r] \notin W
    <2>1. \A x \in rec : x \in Obj /\ x # o
      BY <1>4 DEF TypeOK
    <2> QED
      BY <1>3, <1>4, <1>5, <1>11, <1>12, <2>1, PaleIs DEF Unseen
  <1> QED
    BY <1>7, <1>9, <1>10, <1>12, NogcsTri

(* An object that is handed off counts as reached; what it points to is ahead. *)
LEMMA HandsTri ==
    ASSUME TypeOK, RecInv, PhasesExact, CyclesExact, RefInv, Tricolor, marking, NEW p \in Ref,
           IF p # Nil /\ st[p] = "counted" THEN fgoHandOne(p) ELSE NoHand,
           UNCHANGED <<cnt, fld, loc, gl, glob, lock, todo, cyc, marking, roots, grey, target>>,
           \A x : InWork(x)' => InWork(x) \/ (x = p /\ p # Nil /\ st[x] = "counted"),
           \A h \in G : hand'[h].pc = "dec" /\ hand'[h].cur \in Pale => CountedAhead(hand'[h].cur)
    PROVE  Tricolor'
  <1>1. PICK new : new = (p # Nil /\ st[p] = "counted")
    OBVIOUS
  <1>2. new => p \in Obj /\ p \notin rec /\ st[p] = "counted" /\ p \in Good
    BY <1>1 DEF Ref, RecInv, RecordsExact, TypeOK, Good
  <1>3. /\ \A x : x \in rec' <=> x \in rec \/ (new /\ x = p)
        /\ \A x \in rec : mark'[x] = mark[x]
        /\ \A x \in Obj : st'[x] = "counted" => st[x] = "counted"
        /\ new => mark'[p] = cyc /\ st'[p] = "handed"
        /\ \A x \in Obj : x # p => st'[x] = st[x]
        /\ ~new => st' = st
    <2>1. CASE new
      <3>1. fgoHandOne(p) /\ p \in Obj /\ p \notin rec
        BY <1>1, <1>2, <2>1
      <3>2. rec' = rec \cup {p} /\ st'[p] = "handed" /\ mark'[p] = cyc
        BY <3>1 DEF fgoHandOne, TypeOK
      <3>3. \A x \in Obj : x # p => st'[x] = st[x] /\ mark'[x] = mark[x]
        BY <3>1 DEF fgoHandOne, TypeOK
      <3>4. rec \subseteq Obj
        BY DEF TypeOK
      <3> QED
        BY <2>1, <3>1, <3>2, <3>3, <3>4
    <2>2. CASE ~new
      BY <1>1, <2>2 DEF NoHand
    <2> QED
      BY <1>1, <2>1, <2>2
  <1>4. Pale' = Pale
    BY <1>2, <1>3, PaleIs DEF Pale
  <1>5. \A x \in Good' : x \in Good /\ x \in Obj
    <2> SUFFICES ASSUME NEW x \in Good' PROVE x \in Good /\ x \in Obj
      OBVIOUS
    <2>1. CASE x \in Obj /\ st'[x] = "counted"
      BY <1>3, <2>1 DEF Good
    <2>2. CASE x \in Live'
      <3>1. x \in rec' /\ mark'[x] \in {target, cyc}
        BY <2>2 DEF Live
      <3> QED
        BY <1>2, <1>3, <3>1 DEF Good, Live, TypeOK
    <2> QED
      BY <2>1, <2>2 DEF Good
  <1>6. \A y : CountedAhead(y)' <=> CountedAhead(y)
    BY DEF CountedAhead
  <1>7. FieldsAhead'
    <2> SUFFICES ASSUME NEW x \in Good', st'[x] = "counted" \/ InWork(x)', fld[x] \in Pale
                 PROVE  CountedAhead(fld[x])'
      BY <1>4 DEF FieldsAhead
    <2>1. x \in Good /\ (st[x] = "counted" \/ InWork(x))
      BY <1>3, <1>5
    <2> QED
      BY <1>6, <2>1 DEF Tricolor, FieldsAhead
  <1>8. DecsAhead'
    <2> SUFFICES ASSUME NEW h \in G, hand'[h].pc = "dec", hand'[h].cur \in Pale PROVE CountedAhead(hand'[h].cur)
      BY <1>4 DEF DecsAhead, CountedAhead
    <2> QED
      OBVIOUS
  <1>9. Nogcs
    BY <1>4 DEF Nogcs
  <1>10. ASSUME NEW W \in SUBSET Pale, Isolated(W), Unseen(W), NEW x \in rec', mark'[x] = cyc PROVE fld[x] \notin W
    <2>1. CASE x \in rec
      BY <1>3, <1>10, <2>1 DEF Unseen
    <2>2. CASE new /\ x = p
      <3> SUFFICES ASSUME fld[p] \in W PROVE FALSE
        BY <2>2
      <3>1. CountedAhead(fld[p]) /\ fld[p] \in Obj /\ st[fld[p]] = "handed"
        BY <1>2, <1>10, <2>2, PaleIs DEF Tricolor, FieldsAhead
      <3>2. p \in Fields(fld[p])
        BY <1>2, <2>2 DEF Fields
      <3>3. cnt[fld[p]] # 0
        BY <3>1, <3>2, Holders DEF RefInv
      <3> QED
        BY <1>10, <3>1, <3>3 DEF Isolated
    <2> QED
      BY <1>3, <2>1, <2>2
  <1>11. ASSUME NEW W \in SUBSET Pale, Isolated(W), Isolated(W)', Unseen(W)
         PROVE  /\ \A x \in rec' : mark'[x] = cyc => fld'[x] \notin W
                /\ \A h \in G \ roots, r \in Slot : loc'[h][r] \notin W
    BY <1>10, <1>11 DEF Unseen
  <1> QED
    BY <1>7, <1>8, <1>9, <1>11, NogcsTri

(* fgoRCHandoff keeps Tricolor. *)
LEMMA HandoffTri ==
    ASSUME TypeOK, RecInv, PhasesExact, CyclesExact, RefInv, Tricolor, NEW g \in G, Calls(g) \/ HandField(g)
    PROVE  Tricolor'
  <1>1. ASSUME NEW p, Called(g, p) PROVE Tricolor'
    <2> USE DEF Called
    <2> SUFFICES ASSUME marking PROVE Tricolor'
      BY <1>1 DEF Tricolor
    <2>1. p \in Ref /\ p # Nil
      BY <1>1, ConstAssumption DEF Ref
    <2>2. \A h \in G : hand'[h].pc = "dec" /\ hand'[h].cur \in Pale => CountedAhead(hand'[h].cur)
      BY <1>1 DEF Tricolor, DecsAhead
    <2> QED
      BY <1>1, <2>1, <2>2, HandsTri
  <1>2. ASSUME NEW x, NEW c, Handed(g, x, c) PROVE Tricolor'
    <2> USE DEF Handed
    <2> SUFFICES ASSUME marking PROVE Tricolor'
      BY <1>2 DEF Tricolor
    <2>1. PICK own \in [Obj -> G \cup {Nil}] : Owned(own)
      BY DEF RefInv, OwnExact
    <2>2. x \in Good
      <3>1. PICK h \in G : \E i \in 1 .. Len(hand[h].work) : hand[h].work[i] = x
        BY <1>2 DEF InWork
      <3>2. own[x] = h
        BY <2>1, <3>1 DEF Owned
      <3> QED
        BY <1>2, <2>1, <3>2 DEF Owned, Good
    <2>3. c \in Pale => CountedAhead(c)
      BY <1>2, <2>2 DEF Tricolor, FieldsAhead
    <2>4. \A h \in G : hand'[h].pc = "dec" /\ hand'[h].cur \in Pale => CountedAhead(hand'[h].cur)
      BY <1>2, <2>3 DEF Tricolor, DecsAhead
    <2>5. \A y : InWork(y)' => InWork(y) \/ (y = c /\ c # Nil /\ st[y] = "counted")
      BY <1>2
    <2> QED
      BY <1>2, <2>4, <2>5, HandsTri
  <1> QED
    BY <1>1, <1>2, CallsRefs, HandFieldRefs

(***************************************************************************)
(* Every step keeps the invariant.                                          *)
(***************************************************************************)

(* Nogc code keeps its own part of the invariant and the marker's. *)
LEMMA NogcSafe ==
    ASSUME TypeOK, TypeOK', RecInv, SafeInv, NoRace, NEW g \in G, Nogc(g)
    PROVE  RefInv' /\ Tricolor'
  <1> USE DEF SafeInv
  <1>1. PICK own \in [Obj -> G \cup {Nil}] : Owned(own)
    BY DEF RefInv, OwnExact
  <1>2. ASSUME NEW s \in Slot, DropLocal(g, s) PROVE RefInv' /\ Tricolor'
    BY <1>1, <1>2, DropIs, DropRefs, DropTri
  <1>3. CASE (\E s \in Slot : TakeTraced(g, s)) \/ (\E s, t \in Slot : LoadField(g, s, t))
    BY <1>1, <1>3, LoadCounts, CountsRefs, CountsTri
  <1>4. ASSUME NEW s \in Slot, NEW t \in Slot, NEW o \in Obj, Construct(g, s, t, o) PROVE RefInv' /\ Tricolor'
    BY <1>4, ConstructRefs, ConstructTri
  <1>5. CASE Calls(g)
    BY <1>5, CallsRefs, HandoffTri
  <1> QED
    BY <1>2, <1>3, <1>4, <1>5 DEF Nogc, Calls

(* So does a hand-off. *)
LEMMA HandoffSafe ==
    ASSUME TypeOK, TypeOK', RecInv, SafeInv, NoRace, NEW g \in G, Handoff(g)
    PROVE  RefInv' /\ Tricolor'
  <1> USE DEF SafeInv
  <1>1. CASE HandObj(g)
    BY <1>1, CallsRefs, HandoffTri DEF Calls
  <1>2. CASE HandField(g)
    BY <1>2, HandFieldRefs, HandoffTri
  <1>3. CASE HandDec(g)
    BY <1>3, HandDecRefs, HandDecTri
  <1>4. CASE StoreGlobal(g) \/ PassTraced(g) \/ StoreField(g) \/ fgoWeakHandle(g)
    BY <1>4, StoreRefs, StoreTri
  <1> QED
    BY <1>1, <1>2, <1>3, <1>4 DEF Handoff

(* SafeInv is inductive. *)
LEMMA SafeStep ==
    ASSUME TypeOK, TypeOK', RecInv, SafeInv, NoRace, [Next]_vars
    PROVE  SafeInv'
  <1> USE DEF SafeInv
  <1>1. CyclesExact' /\ PhasesExact'
    BY CountedIsLive, CyclesStep, PhasesStep
  <1> SUFFICES RefInv' /\ Tricolor'
    BY <1>1
  <1>2. ASSUME NEW g \in G, Nogc(g) \/ Handoff(g) PROVE RefInv' /\ Tricolor'
    BY <1>2, NogcSafe, HandoffSafe
  <1>3. ASSUME NEW g \in G, Traced(g) PROVE RefInv' /\ Tricolor'
    BY <1>3, TracedRefsStep, TracedTri
  <1>4. CASE gcStart
    BY <1>4, StartRefs, StartTri
  <1>5. CASE Marker
    <2>1. RefInv'
      BY <1>5, MarkerRefs, TerminationRefs
    <2> QED
      BY <1>5, <2>1, MarkerTri
  <1>6. CASE Sweeper
    BY <1>6, SweeperRefs, SweeperTri
  <1>7. CASE UNCHANGED vars
    <2>1. UNCHANGED <<st, cnt, fld, loc, gl, glob, weak, hand, rec, mark, cyc, marking, target, roots, grey, lock, todo>>
      BY <1>7 DEF vars, objVars, refVars, escVars, gcVars, swVars
    <2>2. Live' = Live /\ Good' = Good /\ Pale' = Pale
      BY <2>1 DEF Live, Good, Pale
    <2>3. RefInv'
      <3>1. weak # Nil => weak \in rec
        BY DEF RefInv, RefsGood
      <3> QED
        BY <2>1, <2>2, <3>1, QuietRefs
    <2>4. Still
      BY <2>1, <2>2 DEF Still, CountedAhead
    <2> QED
      BY <2>3, <2>4, StillTri
  <1> QED
    BY <1>2, <1>3, <1>4, <1>5, <1>6, <1>7 DEF Next

(* At the start nothing is counted, handed off or referred to. *)
LEMMA SafeInit ==
    ASSUME Init
    PROVE  SafeInv
  <1> USE DEF Init
  <1>1. 0 % CycMod = 0 /\ Nil \notin Obj /\ Nil \notin G
    BY ConstAssumption
  <1>2. CyclesExact
    BY <1>1, ConstAssumption DEF CyclesExact, Age
  <1>3. PhasesExact
    BY DEF PhasesExact, NoLock
  <1>4. Good = {} /\ Live = {}
    BY DEF Good, Live
  <1>5. RefsGood
    BY <1>4 DEF RefsGood
  <1>6. \A g \in G : hand[g] = Idle
    OBVIOUS
  <1>7. HandsExact
    BY <1>6 DEF HandsExact, HandExact, Idle
  <1>8. OwnExact
    <2>1. PICK own : own = [o \in Obj |-> Nil]
      OBVIOUS
    <2>2. own \in [Obj -> G \cup {Nil}] /\ Owned(own)
      <3>1. \A g \in G : hand[g].work = <<>>
        BY <1>6 DEF Idle
      <3> QED
        BY <1>1, <1>4, <2>1, <3>1 DEF Owned
    <2> QED
      BY <2>2 DEF OwnExact
  <1>9. CountSum
    BY DEF CountSum
  <1>10. Tricolor
    BY DEF Tricolor
  <1> QED
    BY <1>2, <1>3, <1>5, <1>7, <1>8, <1>9, <1>10 DEF SafeInv, RefInv

(***************************************************************************)
(* The theorems.                                                            *)
(***************************************************************************)

(* SafeInv always holds where no race of Race happens. *)
LEMMA AlwaysSafe ==
    ASSUME NoRace
    PROVE  Spec => [](TypeOK /\ RecInv /\ SafeInv)
  <1>1. Init => TypeOK /\ RecInv /\ SafeInv
    BY TypeInit, RecInit, SafeInit
  <1>2. TypeOK /\ RecInv /\ SafeInv /\ [Next]_vars => (TypeOK /\ RecInv /\ SafeInv)'
    <2> SUFFICES ASSUME TypeOK, RecInv, SafeInv, [Next]_vars PROVE (TypeOK /\ RecInv /\ SafeInv)'
      OBVIOUS
    <2>1. TypeOK'
      BY TypeStep
    <2>2. RecInv'
      BY <2>1, RecStep
    <2> QED
      BY <2>1, <2>2, SafeStep
  <1> QED
    BY <1>1, <1>2, PTL DEF Spec

(* Memory safety (fgoRCDec, fgoRCHandoff, fgoEscMark, fgoMarkCounted and      *)
(* fgoEscSweeper together): for any number of objects, goroutines, locals and *)
(* cycles, an object that the program can still reach is neither freed nor    *)
(* condemned.                                                                 *)
THEOREM Safe ==
    ASSUME NoRace
    PROVE  Spec => []NoUseAfterFree
  <1>1. TypeOK /\ RecInv /\ SafeInv => NoUseAfterFree
    BY ReachableGood DEF SafeInv, RefInv
  <1> QED
    BY <1>1, AlwaysSafe, PTL

(* The counts that fgoRCInc, fgoRCDec and the hand-off keep are the number of *)
(* counted references, in every interleaving.                                 *)
THEOREM CountsAgree ==
    ASSUME NoRace
    PROVE  Spec => []CountsExact
  <1>1. SafeInv => CountsExact
    BY CountsFromSum DEF SafeInv, RefInv
  <1> QED
    BY <1>1, AlwaysSafe, PTL

(* A weak pointer never outlives its object's record: the sweeper clears it   *)
(* before the memory can be reused.                                           *)
THEOREM WeakNeverDangles ==
    ASSUME NoRace
    PROVE  Spec => []WeakCleared
  <1>1. TypeOK /\ RecInv /\ SafeInv => WeakCleared
    BY ReachableGood DEF SafeInv, RefInv
  <1> QED
    BY <1>1, AlwaysSafe, PTL
=============================================================================
