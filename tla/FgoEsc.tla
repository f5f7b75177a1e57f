------------------------------- MODULE FgoEsc -------------------------------
(***************************************************************************)
(* Handing nogc objects to the garbage collector.                          *)
(*                                                                         *)
(* Code compiled under nogc counts its references; the rest of the program *)
(* is traced.  An object that reaches code that does not count it is       *)
(* handed off (fgoRCHandoff): the GC gets a reference of its own (fgoHeld),*)
(* a record of the object in fgoEsc, and from then on traces it like a     *)
(* heap object.  Nogc code goes on counting its references to it, and the  *)
(* GC takes the counted ones as roots (fgoMarkCounted).  After each cycle  *)
(* fgoEscSweeper frees the objects no mark reached and nothing counts.     *)
(*                                                                         *)
(* The actors are the goroutines G, each running nogc code (counted locals *)
(* in Slot) and ordinary code (one traced local), the marking GC, and the  *)
(* sweeper, which runs beside the program and beside the next cycle.       *)
(* An object has one pointer field; strings, slices and mixed objects are  *)
(* left out here.                                                          *)
(***************************************************************************)
EXTENDS Integers, Sequences, FiniteSets

CONSTANTS
    Obj,        \* the nogc arena's objects, by address
    G,          \* goroutines
    Slot,       \* counted locals of a goroutine's nogc frames
    Nil,        \* the nil pointer
    CycMod,     \* GC cycle numbers wrap: 2^32 in the code
    MaxLag,     \* cycles the sweeper may fall behind the GC
    MaxCycle,   \* cycles a behaviour may start, or CycMod for no bound
    Escapes,    \* the ways of EscapeKinds in which objects leave nogc code
    Race        \* the races of Races that a run admits

EscapeKinds == {"global", "local", "weak"}

Races == {"uncount", "capture", "rebuild"}

ASSUME ConstAssumption ==
    /\ IsFiniteSet(Obj) /\ IsFiniteSet(G) /\ IsFiniteSet(Slot)
    /\ Nil \notin Obj \cup G /\ G \cap {"globals", "counted", "field", "dec"} = {}
    /\ MaxLag \in Nat
    /\ CycMod \in Nat /\ CycMod >= 2 * (MaxLag + 3)
    /\ MaxCycle \in Nat
    /\ Escapes \subseteq EscapeKinds
    /\ Race \subseteq Races

VARIABLES
    st,         \* fgoArena.state: what the object at an address is
    held,       \* the fgoHeld bit of its rc word
    cnt,        \* the rest of its rc word
    fld,        \* its pointer field
    loc,        \* counted locals
    gl,         \* each goroutine's traced local
    glob,       \* a traced global
    weak,       \* the value of the program's weak handle, Nil when cleared
    hand,       \* each goroutine's call of fgoRCHandoff, if it is in one
    rec,        \* objects with a record in fgoEsc.tab
    mark,       \* the records' cycle stamps
    tabNil,     \* fgoEsc.tab is nil while the sweeper rebuilds it
    lock,       \* holder of fgoEsc.lock over several steps
    cyc,        \* work.cycles
    marking,    \* gcphase is _GCmark
    grey,       \* reached objects still to be scanned
    roots,      \* root jobs this cycle has yet to do
    target, swept,  \* fgoEsc.target and fgoEsc.swept
    spc,        \* where the sweeper is
    scyc,       \* the cycle it sweeps for
    todo,       \* records the lock holder has yet to look at
    dropped     \* condemned objects the sweeper has yet to free

objVars == <<st, held, cnt, fld>>
refVars == <<loc, gl, glob, weak>>
gcVars  == <<cyc, marking, roots>>
escVars == <<rec, tabNil, lock>>
swVars  == <<target, swept, spc, scyc, todo, dropped>>
vars == <<objVars, refVars, hand, escVars, mark, gcVars, grey, swVars>>

Ref == Obj \cup {Nil}
NoLock == "free"

(* A root job per goroutine's stack, one for the globals and one for        *)
(* fgoMarkCounted (fixedRootFgoMixed).                                       *)
Jobs == G \cup {"globals", "counted"}

(* What fgoRCHandoff is called for: the caller's next step once all of      *)
(* objs, and what they reach, is handed off.                                *)
Idle == [pc |-> "run", objs |-> <<>>, work |-> <<>>, cur |-> Nil,
         then |-> "none", slot |-> Nil, base |-> Nil]

-----------------------------------------------------------------------------
(* Cycle numbers are compared as int32(a-b), here modulo CycMod.            *)
Behind(a, b) == LET d == (a - b) % CycMod
                IN  IF d < CycMod \div 2 THEN d ELSE 0

NextCycleUnbounded(c) == c + 1
NextCycle(c) == (c + 1) % CycMod

(* fgoEscMark on each of the pointers ps while the GC marks: it stamps the  *)
(* record of a handed-off object the first time and queues it for scanning. *)
(* A pointer it finds no record for is left alone.                           *)
Reached(ps) ==
    IF marking /\ ~tabNil
      THEN {o \in ps \cap rec : st[o] = "handed" /\ mark[o] # cyc}
      ELSE {}

fgoEscMark(ps) ==
    /\ mark' = [o \in Obj |-> IF o \in Reached(ps) THEN cyc ELSE mark[o]]
    /\ grey' = grey \cup Reached(ps)

(* An object of an earlier hand-off that the cycle under way has not        *)
(* reached, and whether fgoMarkCounted will still look at its count.        *)
White(o) == o # Nil /\ st[o] = "handed" /\ marking /\ mark[o] # cyc
CountedAhead(o) == "counted" \in roots /\ (lock = "marker" => o \in todo)

(* A caller drops a counted reference to o.  An object nobody else counts   *)
(* is released, and with it every object only a released one counted: the   *)
(* least set closed under that.                                             *)
Sole(x) == x # Nil /\ st[x] = "counted" /\ cnt[x] = 1

Dying(o) ==
    {x \in Obj : /\ Sole(x)
                 /\ \A S \in SUBSET Obj :
                      (/\ Sole(o) => o \in S
                       /\ \A y \in S : Sole(fld[y]) => fld[y] \in S) => x \in S}

(* The chain's last object may leave one reference to an object that stays. *)
Lost(x, D) == IF \E y \in D : fld[y] = x THEN 1 ELSE 0

fgoRCDec(o) ==
    LET D == Dying(o)
    IN  /\ \/ "uncount" \in Race
           \/ \A x \in {o} \cup {fld[y] : y \in D} : ~(White(x) /\ CountedAhead(x))
        /\ st' = [x \in Obj |-> IF x \in D THEN "none" ELSE st[x]]
        /\ cnt' = [x \in Obj |->
                     IF x \in D THEN 0
                     ELSE cnt[x] - Lost(x, D) - (IF x = o THEN 1 ELSE 0)]
        /\ fld' = [x \in Obj |-> IF x \in D THEN Nil ELSE fld[x]]
        /\ UNCHANGED held

fgoRCIncLost(o) == cnt' = cnt
fgoRCInc(o) == cnt' = [cnt EXCEPT ![o] = @ + 1]

SetLoc(g, s, r) == loc' = [loc EXCEPT ![g][s] = r]


-----------------------------------------------------------------------------
(* Nogc code.                                                               *)

Running(g) == hand[g].pc = "run"

(* A composite literal &T{f: v}: fgoRCNew gives a free object count 1, and   *)
(* the field takes over the reference local t held, with no write barrier.  *)
(* A recursive field of a counted object is only set here, so a counted     *)
(* object is younger than what it points to.                                *)
Construct(g, s, t, o) ==
    LET v == IF s = t THEN Nil ELSE loc[g][t]
    IN  /\ Running(g) /\ loc[g][s] = Nil
        /\ s # t => v # Nil
        /\ st[o] = "none"
        /\ "capture" \in Race \/ ~White(v) \/ CountedAhead(v)
        /\ st' = [st EXCEPT ![o] = "counted"]
        /\ cnt' = [cnt EXCEPT ![o] = 1]
        /\ fld' = [fld EXCEPT ![o] = v]
        /\ loc' = [loc EXCEPT ![g] = [r \in Slot |-> IF r = s THEN o
                                                     ELSE IF r = t THEN Nil ELSE @[r]]]
        /\ UNCHANGED <<held, gl, glob, weak, hand, escVars, mark, gcVars, grey, swVars>>

(* A local goes out of scope.                                               *)
DropLocal(g, s) ==
    /\ Running(g) /\ loc[g][s] # Nil
    /\ fgoRCDec(loc[g][s])
    /\ SetLoc(g, s, Nil)
    /\ UNCHANGED <<gl, glob, weak, hand, escVars, mark, gcVars, grey, swVars>>

(* Nogc code loads a field of an object it has, and counts what it loads.   *)
LoadField(g, s, t) ==
    /\ Running(g) /\ loc[g][s] # Nil /\ loc[g][t] = Nil
    /\ fld[loc[g][s]] # Nil
    /\ fgoRCInc(fld[loc[g][s]])
    /\ SetLoc(g, t, fld[loc[g][s]])
    /\ UNCHANGED <<st, held, fld, gl, glob, weak, hand, escVars, mark, gcVars, grey, swVars>>

(* Nogc code receives a traced pointer, and counts it.                      *)
TakeTraced(g, s) ==
    /\ Running(g) /\ loc[g][s] = Nil /\ gl[g] # Nil
    /\ fgoRCInc(gl[g])
    /\ SetLoc(g, s, gl[g])
    /\ UNCHANGED <<st, held, fld, gl, glob, weak, hand, escVars, mark, gcVars, grey, swVars>>

-----------------------------------------------------------------------------
(* fgoRCHandoff.                                                            *)

(* fgoHandOne, under fgoEsc.lock: the object gets the GC's reference and a  *)
(* record stamped with the current cycle.                                   *)
fgoHandOneUnrecorded(o) ==
    /\ lock = NoLock
    /\ st' = [st EXCEPT ![o] = "handed"]
    /\ held' = [held EXCEPT ![o] = TRUE]
    /\ mark' = [mark EXCEPT ![o] = cyc]
    /\ rec' = IF marking THEN rec ELSE rec \cup {o}
fgoHandOne(o) ==
    /\ lock = NoLock
    /\ st' = [st EXCEPT ![o] = "handed"]
    /\ held' = [held EXCEPT ![o] = TRUE]
    /\ rec' = rec \cup {o}
    /\ mark' = [mark EXCEPT ![o] = cyc]

NoHand == UNCHANGED <<st, held, rec, mark>>

(* A call of fgoRCHandoff on each of objs in order, after which the caller  *)
(* goes on with "then".  The first object is handed off, unless it already  *)
(* was.                                                                     *)
CallHandoff(g, objs, then, s, base) ==
    LET p == Head(objs)
    IN  /\ hand' = [hand EXCEPT ![g] =
                      [pc |-> "hand", objs |-> Tail(objs),
                       work |-> IF st[p] = "counted" THEN <<p>> ELSE <<>>,
                       cur |-> Nil, then |-> then, slot |-> s, base |-> base]]
        /\ IF st[p] = "counted" THEN fgoHandOne(p) ELSE NoHand
        /\ UNCHANGED <<cnt, fld, refVars, tabNil, lock, gcVars, grey, swVars>>

(* Nogc code stores an object in a global or passes it to ordinary code, or *)
(* makes a weak pointer to it (fgoWeakHandle).                              *)
Escape(g, s, then) ==
    /\ Running(g) /\ loc[g][s] # Nil
    /\ then = "weak" => weak = Nil
    /\ CallHandoff(g, <<loc[g][s]>>, then, s, Nil)

(* fgoRCStoreGC, and fgoRCStore into a handed-off object: both ends are     *)
(* handed off first.                                                        *)
fgoRCStoreGC(g, s, t) ==
    /\ Running(g) /\ s # t /\ loc[g][s] # Nil /\ loc[g][t] # Nil
    /\ CallHandoff(g, <<loc[g][s], loc[g][t]>>, "field", t, loc[g][s])

(* The next object of the call, when all that the one before reaches is     *)
(* done.                                                                    *)
HandObj(g) ==
    LET h == hand[g]
    IN  /\ h.pc = "hand" /\ h.work = <<>> /\ h.objs # <<>>
        /\ CallHandoff(g, h.objs, h.then, h.slot, h.base)

(* One field of an object of the worklist: what it points to is handed off  *)
(* too, and will be dropped by HandDec.                                     *)
HandField(g) ==
    LET h == hand[g]  x == h.work[Len(h.work)]  c == fld[x]
        rest == SubSeq(h.work, 1, Len(h.work) - 1)
        fresh == c # Nil /\ st[c] = "counted"
    IN  /\ h.pc = "hand" /\ h.work # <<>>
        /\ IF fresh THEN fgoHandOne(c) ELSE NoHand
        /\ hand' = [hand EXCEPT ![g].work = IF fresh THEN Append(rest, c) ELSE rest,
                                ![g].cur = c,
                                ![g].pc = IF c = Nil THEN "hand" ELSE "dec"]
        /\ UNCHANGED <<cnt, fld, refVars, tabNil, lock, gcVars, grey, swVars>>

(* fgoRCDec(c): the object handed off no longer counts what it points to.   *)
HandDec(g) ==
    /\ hand[g].pc = "dec"
    /\ fgoRCDec(hand[g].cur)
    /\ hand' = [hand EXCEPT ![g].pc = "hand", ![g].cur = Nil]
    /\ UNCHANGED <<refVars, escVars, mark, gcVars, grey, swVars>>

HandDone(g) == hand[g].pc = "hand" /\ hand[g].work = <<>> /\ hand[g].objs = <<>>

(* The store the hand-off was for.  Ordinary stores run the write barrier,  *)
(* which marks the pointer overwritten and the one written.                 *)
StoreGlobal(g) ==
    /\ HandDone(g) /\ hand[g].then = "global"
    /\ glob' = loc[g][hand[g].slot]
    /\ fgoEscMark({glob, loc[g][hand[g].slot]})
    /\ hand' = [hand EXCEPT ![g] = Idle]
    /\ UNCHANGED <<objVars, loc, gl, weak, escVars, gcVars, swVars>>

PassTraced(g) ==
    /\ HandDone(g) /\ hand[g].then = "local"
    /\ gl' = [gl EXCEPT ![g] = loc[g][hand[g].slot]]
    /\ hand' = [hand EXCEPT ![g] = Idle]
    /\ UNCHANGED <<objVars, loc, glob, weak, escVars, mark, gcVars, grey, swVars>>

StoreField(g) ==
    LET base == hand[g].base  s == hand[g].slot  v == loc[g][s]
    IN  /\ HandDone(g) /\ hand[g].then = "field"
        /\ fgoEscMark({fld[base], v})
        /\ fld' = [fld EXCEPT ![base] = v]
        /\ cnt' = [cnt EXCEPT ![v] = @ - 1]
        /\ SetLoc(g, s, Nil)
        /\ hand' = [hand EXCEPT ![g] = Idle]
        /\ UNCHANGED <<st, held, gl, glob, weak, escVars, gcVars, swVars>>

fgoWeakHandle(g) ==
    /\ HandDone(g) /\ hand[g].then = "weak"
    /\ lock = NoLock
    /\ weak' = loc[g][hand[g].slot]
    /\ hand' = [hand EXCEPT ![g] = Idle]
    /\ UNCHANGED <<objVars, loc, gl, glob, escVars, mark, gcVars, grey, swVars>>

-----------------------------------------------------------------------------
(* Ordinary code: traced pointers, no counting.                             *)

SetGl(g, r) == gl' = [gl EXCEPT ![g] = r]

LoadGlobal(g) ==
    /\ Running(g) /\ glob # Nil
    /\ SetGl(g, glob)
    /\ UNCHANGED <<objVars, loc, glob, weak, hand, escVars, mark, gcVars, grey, swVars>>

LoadTracedField(g) ==
    /\ Running(g) /\ gl[g] # Nil
    /\ SetGl(g, fld[gl[g]])
    /\ UNCHANGED <<objVars, loc, glob, weak, hand, escVars, mark, gcVars, grey, swVars>>

ForgetTraced(g) ==
    /\ Running(g) /\ gl[g] # Nil
    /\ SetGl(g, Nil)
    /\ UNCHANGED <<objVars, loc, glob, weak, hand, escVars, mark, gcVars, grey, swVars>>

ClearGlobal(g) ==
    /\ Running(g) /\ glob # Nil
    /\ glob' = Nil
    /\ fgoEscMark({glob})
    /\ UNCHANGED <<objVars, loc, gl, weak, hand, escVars, gcVars, swVars>>

(* fgoMakeStrong: a weak pointer gives a strong one unless the last cycle   *)
(* to end condemned the object; while marking it is shaded.                 *)
LastCycle == IF marking THEN (cyc - 1) % CycMod ELSE cyc

(* A pointer made strong while the GC marks may be the only one left.        *)
NoShade(o) == UNCHANGED <<mark, grey>>
ShadeStrong(o) == fgoEscMark({o})

fgoMakeStrong(g) ==
    /\ Running(g) /\ weak # Nil
    /\ lock = NoLock
    /\ weak \in rec
    /\ Behind(LastCycle, mark[weak]) = 0 \/ cnt[weak] # 0
    /\ SetGl(g, weak)
    /\ ShadeStrong(weak)
    /\ UNCHANGED <<objVars, loc, glob, weak, hand, escVars, gcVars, swVars>>

-----------------------------------------------------------------------------
(* The garbage collector.                                                   *)

(* gcStart: the cycle count goes up and every root is yet to be marked.     *)
(* Nothing makes it wait for fgoEscSweeper; MaxLag bounds how far behind    *)
(* that falls.                                                              *)
gcStart ==
    /\ ~marking
    /\ (target - swept) % CycMod <= MaxLag
    /\ MaxCycle = CycMod \/ cyc < MaxCycle
    /\ "rebuild" \in Race \/ ~tabNil
    /\ cyc' = NextCycle(cyc)
    /\ marking' = TRUE
    /\ roots' = Jobs
    /\ UNCHANGED <<objVars, refVars, hand, escVars, mark, grey, swVars>>

ScanStack(g) ==
    /\ g \in roots
    /\ fgoEscMark({gl[g]} \cup {loc[g][s] : s \in Slot})
    /\ roots' = roots \ {g}
    /\ UNCHANGED <<objVars, refVars, hand, escVars, cyc, marking, swVars>>

ScanGlobals ==
    /\ "globals" \in roots
    /\ fgoEscMark({glob})
    /\ roots' = roots \ {"globals"}
    /\ UNCHANGED <<objVars, refVars, hand, escVars, cyc, marking, swVars>>

(* fgoMarkCounted holds fgoEsc.lock while it looks at one record after      *)
(* another, and reaches the objects that are counted.                       *)
MarkCountedBegin ==
    /\ "counted" \in roots /\ lock = NoLock
    /\ lock' = "marker"
    /\ todo' = rec
    /\ UNCHANGED <<objVars, refVars, hand, rec, tabNil, mark, gcVars, grey,
                   target, swept, spc, scyc, dropped>>

NeverCounted(o) == FALSE
StillHeld(o) == held[o] \/ cnt[o] # 0
StillCounted(o) == cnt[o] # 0

MarkCountedRec ==
    /\ lock = "marker"
    /\ \E o \in todo :
         LET R == {x \in {o} : StillCounted(x) /\ mark[x] # cyc}
         IN  /\ mark' = [x \in Obj |-> IF x \in R THEN cyc ELSE mark[x]]
             /\ grey' = grey \cup R
             /\ todo' = todo \ {o}
    /\ UNCHANGED <<objVars, refVars, hand, escVars, gcVars,
                   target, swept, spc, scyc, dropped>>

MarkCountedEnd ==
    /\ lock = "marker" /\ todo = {}
    /\ lock' = NoLock
    /\ roots' = roots \ {"counted"}
    /\ UNCHANGED <<objVars, refVars, hand, rec, tabNil, mark, cyc, marking, grey, swVars>>

(* fgoEscReach's scan of an object it stamped.                              *)
ScanObj ==
    /\ \E o \in grey :
         /\ mark' = [x \in Obj |-> IF x \in Reached({fld[o]}) THEN cyc ELSE mark[x]]
         /\ grey' = (grey \cup Reached({fld[o]})) \ {o}
    /\ UNCHANGED <<objVars, refVars, hand, escVars, gcVars, swVars>>

(* Mark termination stops the world, and wakes the sweeper (fgoEscWake).    *)
gcMarkTermination ==
    /\ marking /\ roots = {} /\ grey = {}
    /\ lock = NoLock
    /\ marking' = FALSE
    /\ target' = cyc
    /\ UNCHANGED <<objVars, refVars, hand, escVars, mark, cyc, roots, grey,
                   swept, spc, scyc, todo, dropped>>

-----------------------------------------------------------------------------
(* fgoEscSweeper.                                                           *)

SweepBegin ==
    /\ spc = "parked" /\ swept # target /\ lock = NoLock
    /\ lock' = "sweeper"
    /\ spc' = "sweep"
    /\ scyc' = target
    /\ todo' = rec
    /\ UNCHANGED <<objVars, refVars, hand, rec, tabNil, mark, gcVars, grey,
                   target, swept, dropped>>

(* One record: an object the cycle did not reach is condemned if its count  *)
(* is only the GC's own (a compare-and-swap of fgoHeld for 0).              *)
Condemned(o) ==
    /\ Behind(scyc, mark[o]) > 0
    /\ held[o] /\ cnt[o] = 0

KeepWeak(o) == weak
ClearWeak(o) == IF weak = o THEN Nil ELSE weak

SweepRec ==
    /\ spc = "sweep"
    /\ \E o \in todo :
         /\ todo' = todo \ {o}
         /\ IF Condemned(o)
              THEN /\ held' = [held EXCEPT ![o] = FALSE]
                   /\ rec' = rec \ {o}
                   /\ mark' = [mark EXCEPT ![o] = 0]
                   /\ weak' = ClearWeak(o)
                   /\ dropped' = dropped \cup {o}
              ELSE UNCHANGED <<held, rec, mark, weak, dropped>>
    /\ UNCHANGED <<st, cnt, fld, loc, gl, glob, hand, tabNil, lock, gcVars,
                   grey, target, swept, spc, scyc>>

(* Mostly deleted slots: the table is rebuilt, and is nil meanwhile.        *)
SweepRebuild ==
    /\ spc = "sweep" /\ todo = {}
    /\ "rebuild" \in Race \/ ~marking
    /\ tabNil' = TRUE
    /\ spc' = "rebuild"
    /\ UNCHANGED <<objVars, refVars, hand, rec, lock, mark, gcVars, grey,
                   target, swept, scyc, todo, dropped>>

SweepUnlock ==
    /\ \/ spc = "sweep" /\ todo = {}
       \/ spc = "rebuild"
    /\ tabNil' = FALSE
    /\ lock' = NoLock
    /\ spc' = "free"
    /\ UNCHANGED <<objVars, refVars, hand, rec, mark, gcVars, grey,
                   target, swept, scyc, todo, dropped>>

(* The condemned objects are freed without the lock.                        *)
SweepFree ==
    /\ spc = "free"
    /\ \E o \in dropped :
         /\ st' = [st EXCEPT ![o] = "none"]
         /\ fld' = [fld EXCEPT ![o] = Nil]
         /\ dropped' = dropped \ {o}
    /\ UNCHANGED <<held, cnt, refVars, hand, escVars, mark, gcVars, grey,
                   target, swept, spc, scyc, todo>>

SweepEnd ==
    /\ spc = "free" /\ dropped = {} /\ lock = NoLock
    /\ swept' = scyc
    /\ spc' = "parked"
    /\ UNCHANGED <<objVars, refVars, hand, escVars, mark, gcVars, grey,
                   target, scyc, todo, dropped>>

-----------------------------------------------------------------------------
Init ==
    /\ st = [o \in Obj |-> "none"]
    /\ held = [o \in Obj |-> FALSE]
    /\ cnt = [o \in Obj |-> 0]
    /\ fld = [o \in Obj |-> Nil]
    /\ loc = [g \in G |-> [s \in Slot |-> Nil]]
    /\ gl = [g \in G |-> Nil]
    /\ glob = Nil /\ weak = Nil
    /\ hand = [g \in G |-> Idle]
    /\ rec = {} /\ tabNil = FALSE /\ lock = NoLock
    /\ mark = [o \in Obj |-> 0]
    /\ cyc = 0 /\ marking = FALSE /\ grey = {} /\ roots = {}
    /\ target = 0 /\ swept = 0 /\ spc = "parked" /\ scyc = 0
    /\ todo = {} /\ dropped = {}

Nogc(g) ==
    \/ \E s \in Slot :
         \/ DropLocal(g, s)
         \/ TakeTraced(g, s)
         \/ \E t \in Slot : LoadField(g, s, t) \/ fgoRCStoreGC(g, s, t)
         \/ \E t \in Slot, o \in Obj : Construct(g, s, t, o)
         \/ \E then \in Escapes : Escape(g, s, then)

Handoff(g) ==
    \/ HandObj(g) \/ HandField(g) \/ HandDec(g)
    \/ StoreGlobal(g) \/ PassTraced(g) \/ StoreField(g) \/ fgoWeakHandle(g)

Traced(g) ==
    \/ LoadGlobal(g) \/ LoadTracedField(g) \/ ForgetTraced(g) \/ ClearGlobal(g)
    \/ fgoMakeStrong(g)

Marker ==
    \/ \E g \in G : ScanStack(g)
    \/ ScanGlobals \/ MarkCountedBegin \/ MarkCountedRec \/ MarkCountedEnd
    \/ ScanObj \/ gcMarkTermination

Sweeper ==
    SweepBegin \/ SweepRec \/ SweepRebuild \/ SweepUnlock \/ SweepFree \/ SweepEnd

Next ==
    \/ \E g \in G : Nogc(g) \/ Handoff(g) \/ Traced(g)
    \/ gcStart \/ Marker \/ Sweeper

Spec == Init /\ [][Next]_vars

(* Sysmon forces a GC cycle when none ran for two minutes, the GC's workers *)
(* and the sweeper's goroutine are scheduled, and a goroutine inside a      *)
(* hand-off runs on.  Nothing is assumed of what the program does.          *)
Fairness ==
    /\ WF_vars(gcStart) /\ WF_vars(Marker) /\ WF_vars(Sweeper)
    /\ \A g \in G : WF_vars(Handoff(g))

FairSpec == Spec /\ Fairness
-----------------------------------------------------------------------------
(* Properties.                                                              *)

HandCall ==
    [pc : {"run", "hand", "dec"}, objs : Seq(Obj), work : Seq(Obj), cur : Ref,
     then : {"none", "global", "local", "weak", "field"},
     slot : Slot \cup {Nil}, base : Ref]

HandState == {h \in HandCall : h.pc # "run" => h.slot \in Slot}

(* The model's variables have the types the code gives them.                *)
TypeOK ==
    /\ st \in [Obj -> {"none", "counted", "handed"}]
    /\ held \in [Obj -> BOOLEAN]
    /\ cnt \in [Obj -> Int]
    /\ fld \in [Obj -> Ref]
    /\ loc \in [G -> [Slot -> Ref]]
    /\ gl \in [G -> Ref] /\ glob \in Ref /\ weak \in Ref
    /\ hand \in [G -> HandState]
    /\ rec \subseteq Obj /\ tabNil \in BOOLEAN
    /\ lock \in {NoLock, "marker", "sweeper"}
    /\ mark \in [Obj -> 0..CycMod-1]
    /\ cyc \in 0..CycMod-1 /\ marking \in BOOLEAN
    /\ grey \subseteq Obj /\ roots \subseteq Jobs
    /\ target \in 0..CycMod-1 /\ swept \in 0..CycMod-1 /\ scyc \in 0..CycMod-1
    /\ spc \in {"parked", "sweep", "rebuild", "free"}
    /\ todo \subseteq Obj /\ dropped \subseteq Obj

(* What the program can still use: what its locals and globals hold, and    *)
(* what that points to.                                                     *)
RootRefs == ({glob} \cup {gl[g] : g \in G} \cup {loc[g][s] : g \in G, s \in Slot}) \ {Nil}

Reachable ==
    {x \in Obj : \A S \in SUBSET Obj :
        (RootRefs \subseteq S /\ \A y \in S : fld[y] # Nil => fld[y] \in S) => x \in S}

(* Memory safety: whatever goroutines, marker and sweeper do in whatever    *)
(* order, no object the program can still reach is freed or condemned.      *)
NoUseAfterFree == \A o \in Reachable : st[o] # "none" /\ o \notin dropped

(* References that count o: locals, fields of counted objects, and fields   *)
(* of objects a hand-off under way has yet to turn into traced ones.        *)
InWork(x) == \E g \in G : \E i \in 1..Len(hand[g].work) : hand[g].work[i] = x

CountingHolders(o) ==
    {gs \in G \X Slot : loc[gs[1]][gs[2]] = o}
    \cup {<<"field", x>> : x \in {y \in Obj : fld[y] = o /\ (st[y] = "counted" \/ InWork(y))}}
    \cup {<<"dec", g>> : g \in {h \in G : hand[h].pc = "dec" /\ hand[h].cur = o}}

(* The counts are exact in every interleaving, so an object is released at  *)
(* its last counted reference and never before.                             *)
CountsExact == \A o \in Obj : st[o] # "none" => cnt[o] = Cardinality(CountingHolders(o))

(* fgoEsc has a record for each object that is handed off and not condemned,*)
(* and for nothing else: the chunk counts and the table never disagree.     *)
RecordsExact ==
    /\ \A o \in Obj : o \in rec <=> (st[o] = "handed" /\ held[o])
    /\ \A o \in dropped : st[o] = "handed" /\ ~held[o]

(* A weak pointer is cleared before the memory it points to can be reused.  *)
WeakCleared == weak # Nil => weak \in rec
(* A handed-off object the program can no longer reach, not even through    *)
(* its weak pointer.                                                        *)
Garbage(o) == st[o] = "handed" /\ o \notin Reachable /\ weak # o

(* Nothing leaks: garbage, a cycle of it too, is freed after some cycle,    *)
(* however the program goes on allocating and handing off beside the GC.    *)
GarbageFreed == \A o \in Obj : Garbage(o) ~> st[o] = "none"
=============================================================================
