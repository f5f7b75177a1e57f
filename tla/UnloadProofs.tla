---------------------------- MODULE UnloadProofs ----------------------------
(* Theorems about the unloading of a c-shared library (Unload).             *)
EXTENDS Unload, TLAPS

(***************************************************************************)
(* The inductive invariant, in named parts.                                 *)
(***************************************************************************)

\* Which places a thread of each kind can be at.
WorkerAt == {"none", "queued", "run", "enter", "sys", "poll", "polled", "park", "sleep",
             "awake", "unwind", "ret", "done", "dead"}
SysmonAt == {"tick", "tock", "deep", "woke", "unwind", "ret", "done", "dead"}
TemplateAt == {"none", "busy", "wait", "unwind", "ret", "done", "dead"}
Places ==
    /\ \A w \in Worker : st[w] \in WorkerAt
    /\ st[Sysmon] \in SysmonAt
    /\ st[Template] \in TemplateAt

\* What the destructor has done so far, by where it is.
World ==
    /\ upc # "idle" => gcwaiting
    /\ unloading => upc \in (Stopped \ {"flag"}) \cup {"refused"}
    /\ upc \in Stopped \ {"flag"} => unloading
    /\ upc \in Stopped => hasP = {}

\* A worker that runs, or is about to, holds a P.
RunHasP == \A w \in Worker : st[w] \in {"run", "enter", "queued"} => w \in hasP

\* Until the unload wakes everyone, a set note means that startm gave a parked M
\* its P, and an idle M has neither.
ParkExact ==
    ~unloading =>
        \A w \in Worker :
            /\ note[w] => w \in hasP /\ w \notin idle /\ st[w] \in {"park", "sleep"}
            /\ w \in idle => w \notin hasP /\ st[w] \in {"park", "sleep"}
            /\ st[w] = "awake" => w \in hasP

\* sysmon's note and its flag are never both set, and both are clear while it ticks.
SysmonExact ==
    /\ sysmonwait => ~note[Sysmon]
    /\ st[Sysmon] \in {"tick", "tock"} => ~note[Sysmon] /\ ~sysmonwait
TemplateExact == waiting => ~note[Template]

ThreadInv == Places /\ World /\ RunHasP /\ ParkExact /\ SysmonExact /\ TemplateExact

\* A host thread marked as in C is not in the Go code of a call, one that is about
\* to leave it has its P, and so nobody is in it once the world has stopped and
\* the marks were looked at.
HostExact ==
    /\ \A h \in inC : hst[h] # "in"
    /\ \A h \in Host : hst[h] = "leave" => h \in hasP
    /\ upc \in Stopped => \A h \in Host : hst[h] # "in"

\* What forgoExited, the list of Ms and the list of joinable threads say of a thread.
Ended == {"ret", "done", "dead"}
Joining == {"join", "joining", "release", "removing", "unmapped"}
LifeExact ==
    /\ \A m \in exited : st[m] \in Ended
    /\ \A m \in M \ allm : st[m] \in Ended \cup {"none"}
    /\ \A m \in M \ listed : st[m] \in {"none", "queued", "dead"}
    /\ upc \in Joining => allm \subseteq exited
    /\ upc \in Joining \ {"join", "joining"} => \A m \in M : st[m] \in {"none", "dead"}

\* What forgoMemRemove has done of its walk: nothing before its place overlaps the
\* range it forgets, and apart from that range nothing is lost or gained.
BeforeClear == \A i \in DOMAIN mem : i < at => Bytes(mem[i]) \cap Bytes(cut) = {}
KeptFrom(i) == UNION {Bytes(kept[j]) : j \in i .. Len(kept)}
WalkExact ==
    /\ upc # "removing" => at = 0
    /\ upc = "removing" =>
         /\ left > 0 /\ at > 0
         /\ cut = kept[left]
         /\ BeforeClear
         /\ Cover(mem) \ Bytes(cut) = whole \ KeptFrom(left)
    /\ upc \in {"release", "unmapped"} => Cover(mem) = whole \ KeptFrom(left + 1)
    /\ upc = "unmapped" => left = 0
    /\ Apart(mem)

-----------------------------------------------------------------------------
(* Type correctness.                                                        *)

\* The range to forget is a range; a walk that runs has a signal stack to forget.
WalkTypes ==
    /\ upc # "removing" => at = 0
    /\ upc = "removing" => left > 0 /\ at > 0 /\ cut \in Span
TypeInv == TypeOK /\ WalkTypes

(* What is cut off a range below and above lies within the address space. *)
LEMMA PartTypes ==
    ASSUME NEW r \in Span, cut \in Span
    PROVE  /\ r.base < cut.base => Lower(r) \in Span
           /\ cut.base + cut.len < r.base + r.len => Upper(r) \in Span
  BY SpaceIs DEF Span, Addr, Lower, Upper

(* One turn of forgoMemRemove's loop keeps a list of ranges. *)
LEMMA StepTypes ==
    ASSUME mem \in Seq(Span), cut \in Span, MemStep
    PROVE  mem' \in Seq(Span) /\ at' \in 1 .. Len(mem') + 1 /\ cut' = cut
  <1> DEFINE r == mem[at]
  <1>0. at \in 1 .. Len(mem) /\ r \in Span /\ cut' = cut
    BY DEF MemStep
  <1>1. /\ r.base \in Int /\ r.len \in Int /\ r.len > 0
        /\ cut.base \in Int /\ cut.len \in Int /\ cut.len > 0
    BY <1>0, SpaceIs, SMTT(30) DEF Span, Addr
  <1>2. CASE Covered(r) /\ mem' = DropAt(at) /\ at' = AfterDrop
    <2>1. mem[Len(mem)] \in Span
      BY <1>0
    <2>2. [mem EXCEPT ![at] = mem[Len(mem)]] \in Seq(Span)
      BY <1>0, <2>1
    <2> QED
      BY <1>0, <1>2, <2>2 DEF DropAt, AfterDrop
  <1>3. CASE ~Covered(r) /\ Inside(r) /\ mem' = SplitAt(at) /\ at' = at + 1
    <2>1. Lower(r) \in Span /\ Upper(r) \in Span
      BY <1>0, <1>1, <1>3, PartTypes DEF Inside
    <2>2. [mem EXCEPT ![at] = Lower(r)] \in Seq(Span)
      BY <1>0, <2>1
    <2> QED
      BY <1>0, <1>3, <2>1, <2>2 DEF SplitAt
  <1>4. CASE r.base < cut.base /\ mem' = [mem EXCEPT ![at] = Lower(r)] /\ at' = at + 1
    <2>1. Lower(r) \in Span
      BY <1>0, <1>4, PartTypes
    <2> QED
      BY <1>0, <1>4, <2>1
  <1>5. CASE ~Covered(r) /\ cut.base <= r.base /\ mem' = [mem EXCEPT ![at] = Upper(r)] /\ at' = at + 1
    <2>1. Upper(r) \in Span
      BY <1>0, <1>1, <1>5, PartTypes DEF Covered
    <2> QED
      BY <1>0, <1>5, <2>1
  <1>6. CASE mem' = mem /\ at' = at + 1
    BY <1>0, <1>6
  <1> QED
    BY <1>0, <1>2, <1>3, <1>4, <1>5, <1>6 DEF MemStep

(* Waking sysmon keeps the types of the notes and of its flag. *)
LEMMA WakeSysmonType ==
    ASSUME TypeOK, WakeSysmon
    PROVE  note' \in [M -> BOOLEAN] /\ sysmonwait' \in BOOLEAN
  BY DEF TypeOK, WakeSysmon

(* Every step keeps the types. *)
LEMMA TypeStep == TypeInv /\ [Next]_vars => TypeInv'
  <1> SUFFICES ASSUME TypeInv, [Next]_vars PROVE TypeInv'
    OBVIOUS
  <1> USE ThreadNames, Bounds DEF TypeInv, TypeOK, WalkTypes, M, Alive, Stopped, Goto, core, flags,
          sleeps, life, hosts, ends, destr, memVars, threadVars
  <1>1. CASE UNCHANGED vars
    BY <1>1 DEF vars
  <1>2. ASSUME NEW m \in Worker, WorkerNext(m) PROVE TypeInv'
    <2>1. CASE Newm(m)
      <3>1. note' \in [M -> BOOLEAN] /\ waiting' \in BOOLEAN
        BY <2>1 DEF Newm
      <3>2. /\ st' \in [M -> Alive \cup {"none", "queued", "dead"}] /\ hasP' \subseteq Worker \cup Host
            /\ allm' \subseteq M /\ listed' \subseteq M
        BY <2>1 DEF Newm
      <3> QED
        BY <2>1, <3>1, <3>2 DEF Newm
    <2>2. CASE Stopm(m)
      BY <2>2 DEF Stopm
    <2>3. CASE ParkCheck(m)
      BY <2>3 DEF ParkCheck, CheckExit
    <2>4. CASE NoteSleep(m)
      BY <2>4 DEF NoteSleep
    <2>5. CASE WakeCheck(m)
      BY <2>5 DEF WakeCheck, CheckExit
    <2>6. CASE Startm(m)
      BY <2>6 DEF Startm, PFree
    <2>7. CASE NetpollBlock(m)
      BY <2>7 DEF NetpollBlock
    <2>8. CASE NetpollEvent(m)
      BY <2>8 DEF NetpollEvent
    <2>9. CASE NetpollReturn(m)
      BY <2>9 DEF NetpollReturn, GetP, PFree
    <2>10. CASE EnterSyscall(m)
      <3>1. CASE gcwaiting
        BY <2>10, <3>1, WakeSysmonType DEF EnterSyscall
      <3>2. CASE ~gcwaiting
        BY <2>10, <3>2 DEF EnterSyscall
      <3> QED
        BY <3>1, <3>2
    <2>11. CASE InSyscall(m)
      BY <2>11, WakeSysmonType DEF InSyscall
    <2>12. CASE ExitSyscall(m)
      <3>1. CASE m \notin hasP /\ PFree
        BY <2>12, <3>1, WakeSysmonType DEF ExitSyscall, GetP
      <3>2. CASE ~(m \notin hasP /\ PFree)
        BY <2>12, <3>2 DEF ExitSyscall, GetP
      <3> QED
        BY <3>1, <3>2
    <2>13. CASE Mexit(m)
      BY <2>13 DEF Mexit
    <2>14. CASE TemplateStart(m)
      BY <2>14 DEF TemplateStart
    <2> QED
      BY <1>2, <2>1, <2>2, <2>3, <2>4, <2>5, <2>6, <2>7, <2>8, <2>9, <2>10, <2>11, <2>12, <2>13, <2>14 DEF WorkerNext
  <1>3. ASSUME NEW x \in Worker \cup Host, Retake(x) PROVE TypeInv'
    BY <1>3 DEF Retake
  <1>4. ASSUME NEW b \in BOOLEAN, SysmonWake(b) PROVE TypeInv'
    BY <1>4 DEF SysmonWake, CheckExit
  <1>5. CASE StartTemplateThread
    BY <1>5 DEF StartTemplateThread
  <1>6. CASE SysmonCheck
    BY <1>6 DEF SysmonCheck, CheckExit
  <1>7. CASE SysmonSleep
    <2>1. CASE gcwaiting \/ hasP = {}
      <3>0. st' = [st EXCEPT ![Sysmon] = "deep"] /\ sysmonwait' = TRUE
        BY <1>7, <2>1 DEF SysmonSleep
      <3>1. st' \in [M -> Alive \cup {"none", "queued", "dead"}] /\ sysmonwait' \in BOOLEAN
        BY <3>0
      <3> QED
        BY <1>7, <3>1 DEF SysmonSleep
    <2>2. CASE ~(gcwaiting \/ hasP = {})
      BY <1>7, <2>2 DEF SysmonSleep
    <2> QED
      BY <2>1, <2>2
  <1>8. CASE SysmonClear
    BY <1>8 DEF SysmonClear
  <1>9. CASE TemplateWait
    BY <1>9 DEF TemplateWait
  <1>10. CASE TemplateWake
    BY <1>10 DEF TemplateWake, CheckExit
  <1>11. ASSUME NEW m \in M, ThreadExit(m) \/ ThreadDone(m) \/ ThreadGone(m) PROVE TypeInv'
    BY <1>11 DEF ThreadExit, ThreadDone, ThreadGone
  <1>12. ASSUME NEW h \in Host, HostNext(h) PROVE TypeInv'
    <2>1. CASE HostCall(h)
      BY <2>1 DEF HostCall
    <2>2. CASE HostGetP(h)
      <3>1. CASE h \notin hasP
        BY <2>2, <3>1, WakeSysmonType DEF HostGetP
      <3>2. CASE h \in hasP
        BY <2>2, <3>2 DEF HostGetP
      <3> QED
        BY <3>1, <3>2
    <2>3. CASE HostStop(h)
      BY <2>3 DEF HostStop
    <2>4. CASE HostReturn(h)
      <3>1. CASE gcwaiting
        BY <2>4, <3>1, WakeSysmonType, SMTT(30) DEF HostReturn
      <3>2. CASE ~gcwaiting
        BY <2>4, <3>2 DEF HostReturn
      <3> QED
        BY <3>1, <3>2
    <2>5. CASE HostLeave(h)
      BY <2>5, WakeSysmonType DEF HostLeave
    <2>6. CASE HostFirstCall(h)
      BY <2>6 DEF HostFirstCall
    <2>7. CASE Needm(h)
      BY <2>7 DEF Needm
    <2>8. CASE HostGone(h)
      BY <2>8 DEF HostGone
    <2> QED
      BY <1>12, <2>1, <2>2, <2>3, <2>4, <2>5, <2>6, <2>7, <2>8 DEF HostNext
  <1>13. CASE Destructor
    <2>1. CASE StopTheWorld
      BY <2>1 DEF StopTheWorld
    <2>2. CASE StopSyscallPs
      BY <2>2 DEF StopSyscallPs
    <2>3. CASE CheckCalls
      BY <2>3 DEF CheckCalls
    <2>4. CASE SetUnloading
      BY <2>4 DEF SetUnloading
    <2>5. CASE WakeAll
      BY <2>5 DEF WakeAll
    <2>6. CASE CountRunning
      BY <2>6 DEF CountRunning
    <2>7. CASE TimeOut
      BY <2>7 DEF TimeOut
    <2>8. CASE JoinStart
      BY <2>8 DEF JoinStart
    <2>9. CASE JoinEnd
      BY <2>9 DEF JoinEnd
    <2>10. CASE Release
      BY <2>10 DEF Release, MemRemove
    <2>11. CASE Removing
      <3>1. mem' \in Seq(Span) /\ at' \in 1 .. Len(mem') + 1 /\ cut' = cut
        BY <2>11, StepTypes DEF Removing
      <3> QED
        BY <2>11, <3>1 DEF Removing
    <2>12. CASE Removed
      BY <2>12 DEF Removed, MemRemoved
    <2>13. CASE Unmap
      BY <2>13 DEF Unmap
    <2> QED
      BY <1>13, <2>1, <2>2, <2>3, <2>4, <2>5, <2>6, <2>7, <2>8, <2>9, <2>10, <2>11, <2>12, <2>13 DEF Destructor
  <1> QED
    BY <1>1, <1>2, <1>3, <1>4, <1>5, <1>6, <1>7, <1>8, <1>9, <1>10, <1>11, <1>12, <1>13 DEF Next

(* The initial states have the types. *)
LEMMA TypeInit == Init => TypeInv
  <1> SUFFICES ASSUME Init PROVE TypeInv
    OBVIOUS
  <1>1. /\ st \in [M -> Alive \cup {"none", "queued", "dead"}]
        /\ note \in [M -> BOOLEAN]
        /\ hst \in [Host -> {"new", "call", "want", "in", "leave", "back", "out"}]
    BY DEF Init, Alive
  <1>2. /\ idle \subseteq Worker /\ hasP \subseteq Worker \cup Host
        /\ allm \subseteq M /\ exited \subseteq M /\ listed \subseteq M /\ inC \subseteq Host
    BY ThreadNames DEF Init, M
  <1>3. kept \in Seq(Span) /\ left \in 0 .. Len(kept) /\ mem \in Seq(Span) /\ at \in 0 .. Len(mem) + 1
    BY DEF Init, MemInit
  <1> QED
    BY <1>1, <1>2, <1>3 DEF Init, MemInit, TypeInv, TypeOK, WalkTypes, Stopped

(* Every variable of the unload keeps its type: the destructor's place in the *)
(* list of ranges and in the list of signal stacks stays within their bounds, *)
(* and what forgoMemRemove leaves of a range is a range.                      *)
THEOREM TypeCorrect == Spec => []TypeOK
  <1>1. TypeInv => TypeOK
    BY DEF TypeInv
  <1> QED
    BY <1>1, TypeInit, TypeStep, PTL DEF Spec

(* Every step keeps what the threads and the destructor know of each other. *)
LEMMA ThreadStep == TypeOK /\ ThreadInv /\ [Next]_vars => ThreadInv'
  <1> SUFFICES ASSUME TypeOK, ThreadInv, [Next]_vars PROVE ThreadInv'
    OBVIOUS
  <1> USE ThreadNames DEF TypeOK, M, Goto, core, flags, sleeps, life, hosts, ends, destr, memVars,
          threadVars, Stopped, Over, ThreadInv, Places, WorkerAt, SysmonAt, TemplateAt, World,
          RunHasP, ParkExact, SysmonExact, TemplateExact
  <1>1. CASE UNCHANGED vars
    BY <1>1 DEF vars
  <1>2. ASSUME NEW m \in Worker, WorkerNext(m) PROVE ThreadInv'
    <2>1. CASE Newm(m)
      BY <2>1 DEF Newm, PFree
    <2>2. CASE Stopm(m)
      BY <2>2 DEF Stopm
    <2>3. CASE ParkCheck(m)
      BY <2>3 DEF ParkCheck, CheckExit
    <2>4. CASE NoteSleep(m)
      BY <2>4 DEF NoteSleep
    <2>5. CASE WakeCheck(m)
      BY <2>5 DEF WakeCheck, CheckExit
    <2>6. CASE Startm(m)
      BY <2>6 DEF Startm, PFree
    <2>7. CASE NetpollBlock(m)
      BY <2>7 DEF NetpollBlock
    <2>8. CASE NetpollEvent(m)
      BY <2>8 DEF NetpollEvent
    <2>9. CASE NetpollReturn(m)
      BY <2>9, SMTT(30) DEF NetpollReturn, GetP, PFree
    <2>10. CASE EnterSyscall(m)
      <3>1. CASE gcwaiting
        BY <2>10, <3>1 DEF EnterSyscall, WakeSysmon
      <3>2. CASE ~gcwaiting
        BY <2>10, <3>2 DEF EnterSyscall
      <3> QED
        BY <3>1, <3>2
    <2>11. CASE InSyscall(m)
      BY <2>11 DEF InSyscall, WakeSysmon
    <2>12. CASE ExitSyscall(m)
      <3>1. CASE m \notin hasP /\ PFree
        BY <2>12, <3>1, SMTT(30) DEF ExitSyscall, GetP, PFree, WakeSysmon
      <3>2. CASE ~(m \notin hasP /\ PFree)
        BY <2>12, <3>2 DEF ExitSyscall, GetP, PFree
      <3> QED
        BY <3>1, <3>2
    <2>13. CASE Mexit(m)
      BY <2>13 DEF Mexit
    <2>14. CASE TemplateStart(m)
      BY <2>14 DEF TemplateStart
    <2> QED
      BY <1>2, <2>1, <2>2, <2>3, <2>4, <2>5, <2>6, <2>7, <2>8, <2>9, <2>10, <2>11, <2>12, <2>13, <2>14 DEF WorkerNext
  <1>3. ASSUME NEW x \in Worker \cup Host, Retake(x) PROVE ThreadInv'
    BY <1>3 DEF Retake, InCalls
  <1>4. ASSUME NEW b \in BOOLEAN, SysmonWake(b) PROVE ThreadInv'
    BY <1>4 DEF SysmonWake, CheckExit
  <1>5. CASE StartTemplateThread
    BY <1>5 DEF StartTemplateThread
  <1>6. CASE SysmonCheck
    BY <1>6 DEF SysmonCheck, CheckExit
  <1>7. CASE SysmonSleep
    <2>1. CASE gcwaiting \/ hasP = {}
      BY <1>7, <2>1 DEF SysmonSleep
    <2>2. CASE ~(gcwaiting \/ hasP = {})
      BY <1>7, <2>2 DEF SysmonSleep
    <2> QED
      BY <2>1, <2>2
  <1>8. CASE SysmonClear
    BY <1>8 DEF SysmonClear
  <1>9. CASE TemplateWait
    BY <1>9 DEF TemplateWait
  <1>10. CASE TemplateWake
    BY <1>10 DEF TemplateWake, CheckExit
  <1>11. ASSUME NEW m \in M, ThreadExit(m) \/ ThreadDone(m) \/ ThreadGone(m) PROVE ThreadInv'
    BY <1>11 DEF ThreadExit, ThreadDone, ThreadGone
  <1>12. ASSUME NEW h \in Host, HostNext(h) PROVE ThreadInv'
    <2>1. CASE HostCall(h)
      BY <2>1 DEF HostCall
    <2>2. CASE HostGetP(h)
      <3>1. CASE h \notin hasP
        BY <2>2, <3>1 DEF HostGetP, PFree, WakeSysmon
      <3>2. CASE ~(h \notin hasP)
        BY <2>2, <3>2 DEF HostGetP
      <3> QED
        BY <3>1, <3>2
    <2>3. CASE HostStop(h)
      BY <2>3 DEF HostStop
    <2>4. CASE HostReturn(h)
      <3>1. CASE gcwaiting
        BY <2>4, <3>1 DEF HostReturn, WakeSysmon
      <3>2. CASE ~gcwaiting
        BY <2>4, <3>2 DEF HostReturn
      <3> QED
        BY <3>1, <3>2
    <2>5. CASE HostLeave(h)
      BY <2>5 DEF HostLeave, WakeSysmon
    <2>6. CASE HostFirstCall(h)
      BY <2>6 DEF HostFirstCall
    <2>7. CASE Needm(h)
      BY <2>7 DEF Needm
    <2>8. CASE HostGone(h)
      BY <2>8 DEF HostGone
    <2> QED
      BY <1>12, <2>1, <2>2, <2>3, <2>4, <2>5, <2>6, <2>7, <2>8 DEF HostNext
  <1>13. CASE Destructor
    <2>1. CASE StopTheWorld
      BY <2>1 DEF StopTheWorld, InCalls
    <2>2. CASE StopSyscallPs
      BY <2>2 DEF StopSyscallPs, InCalls
    <2>3. CASE CheckCalls
      BY <2>3 DEF CheckCalls
    <2>4. CASE SetUnloading
      BY <2>4 DEF SetUnloading
    <2>5. CASE WakeAll
      BY <2>5 DEF WakeAll
    <2>6. CASE CountRunning
      BY <2>6 DEF CountRunning
    <2>7. CASE TimeOut
      BY <2>7 DEF TimeOut
    <2>8. CASE JoinStart
      BY <2>8 DEF JoinStart
    <2>9. CASE JoinEnd
      BY <2>9 DEF JoinEnd
    <2>10. CASE Release
      BY <2>10 DEF Release
    <2>11. CASE Removing
      BY <2>11 DEF Removing
    <2>12. CASE Removed
      BY <2>12 DEF Removed
    <2>13. CASE Unmap
      BY <2>13 DEF Unmap
    <2> QED
      BY <1>13, <2>1, <2>2, <2>3, <2>4, <2>5, <2>6, <2>7, <2>8, <2>9, <2>10, <2>11, <2>12, <2>13 DEF Destructor
  <1> QED
    BY <1>1, <1>2, <1>3, <1>4, <1>5, <1>6, <1>7, <1>8, <1>9, <1>10, <1>11, <1>12, <1>13 DEF Next

(* Init establishes it. *)
LEMMA ThreadInit == Init => ThreadInv
  BY ThreadNames DEF Init, M, ThreadInv, Places, WorkerAt, SysmonAt, TemplateAt, World, Stopped,
     RunHasP, ParkExact, SysmonExact, TemplateExact

(* The type invariant and what the threads know of each other, together. *)
LEMMA ThreadsAlways == Spec => [](TypeInv /\ ThreadInv)
  <1>1. TypeInv => TypeOK
    BY DEF TypeInv
  <1> QED
    BY <1>1, TypeInit, TypeStep, ThreadInit, ThreadStep, PTL DEF Spec

(* Once the unload has stopped the world no thread gets a P or runs Go code *)
(* again, whichever way it comes back: from a call, the poller, its note,   *)
(* the template thread's queue.  This needs no assumption on the races.     *)
THEOREM WorldStaysStopped == Spec => []GoStays
  <1>1. ThreadInv => GoStays
    BY DEF ThreadInv, Places, WorkerAt, SysmonAt, TemplateAt, World, RunHasP, GoStays, M
  <1> QED
    BY <1>1, ThreadsAlways, PTL

(* notewakeup never meets a note that is set already: startm's, sysmon's    *)
(* or the template thread's, also while forgoWakeAll runs again and again.  *)
THEOREM NotesWokenOnce == Spec => []NoDoubleWake
  <1>1. TypeInv /\ ThreadInv => NoDoubleWake
    <2> SUFFICES ASSUME TypeInv, ThreadInv PROVE NoDoubleWake
      OBVIOUS
    <2>1. ASSUME PFree, NEW m \in idle PROVE ~note[m]
      BY <2>1 DEF TypeInv, TypeOK, ThreadInv, World, ParkExact, PFree, Stopped
    <2> QED
      BY <2>1 DEF ThreadInv, SysmonExact, TemplateExact, NoDoubleWake
  <1> QED
    BY <1>1, ThreadsAlways, PTL

-----------------------------------------------------------------------------
(* Nobody left inside.                                                      *)

(* A host thread in the Go code of a call is seen by the unload. *)
LEMMA HostStep == TypeOK /\ World /\ HostExact /\ [Next]_vars => HostExact'
  <1> SUFFICES ASSUME TypeOK, World, HostExact, [Next]_vars PROVE HostExact'
    OBVIOUS
  <1> USE ThreadNames DEF TypeOK, M, Goto, core, flags, sleeps, life, hosts, ends, destr, memVars,
          threadVars, Stopped, HostExact
  <1>1. CASE UNCHANGED vars
    BY <1>1 DEF vars
  <1>2. ASSUME NEW m \in Worker, WorkerNext(m) PROVE HostExact'
    <2>1. CASE Newm(m)
      BY <2>1 DEF Newm, PFree
    <2>2. CASE Stopm(m)
      BY <2>2 DEF Stopm
    <2>3. CASE ParkCheck(m)
      BY <2>3 DEF ParkCheck, CheckExit
    <2>4. CASE NoteSleep(m)
      BY <2>4 DEF NoteSleep
    <2>5. CASE WakeCheck(m)
      BY <2>5 DEF WakeCheck, CheckExit
    <2>6. CASE Startm(m)
      BY <2>6 DEF Startm, PFree
    <2>7. CASE NetpollBlock(m)
      BY <2>7 DEF NetpollBlock
    <2>8. CASE NetpollEvent(m)
      BY <2>8 DEF NetpollEvent
    <2>9. CASE NetpollReturn(m)
      BY <2>9 DEF NetpollReturn, GetP, PFree
    <2>10. CASE EnterSyscall(m)
      <3>1. CASE gcwaiting
        BY <2>10, <3>1 DEF EnterSyscall, WakeSysmon
      <3>2. CASE ~gcwaiting
        BY <2>10, <3>2 DEF EnterSyscall
      <3> QED
        BY <3>1, <3>2
    <2>11. CASE InSyscall(m)
      BY <2>11 DEF InSyscall, WakeSysmon
    <2>12. CASE ExitSyscall(m)
      <3>1. CASE m \notin hasP /\ PFree
        BY <2>12, <3>1 DEF ExitSyscall, GetP, PFree, WakeSysmon
      <3>2. CASE ~(m \notin hasP /\ PFree)
        BY <2>12, <3>2 DEF ExitSyscall, GetP, PFree
      <3> QED
        BY <3>1, <3>2
    <2>13. CASE Mexit(m)
      BY <2>13 DEF Mexit
    <2>14. CASE TemplateStart(m)
      BY <2>14 DEF TemplateStart
    <2> QED
      BY <1>2, <2>1, <2>2, <2>3, <2>4, <2>5, <2>6, <2>7, <2>8, <2>9, <2>10, <2>11, <2>12, <2>13, <2>14 DEF WorkerNext
  <1>3. ASSUME NEW x \in Worker \cup Host, Retake(x) PROVE HostExact'
    BY <1>3 DEF Retake, InCalls
  <1>4. ASSUME NEW b \in BOOLEAN, SysmonWake(b) PROVE HostExact'
    BY <1>4 DEF SysmonWake, CheckExit
  <1>5. CASE StartTemplateThread
    BY <1>5 DEF StartTemplateThread
  <1>6. CASE SysmonCheck
    BY <1>6 DEF SysmonCheck, CheckExit
  <1>7. CASE SysmonSleep
    <2>1. CASE gcwaiting \/ hasP = {}
      BY <1>7, <2>1 DEF SysmonSleep
    <2>2. CASE ~(gcwaiting \/ hasP = {})
      BY <1>7, <2>2 DEF SysmonSleep
    <2> QED
      BY <2>1, <2>2
  <1>8. CASE SysmonClear
    BY <1>8 DEF SysmonClear
  <1>9. CASE TemplateWait
    BY <1>9 DEF TemplateWait
  <1>10. CASE TemplateWake
    BY <1>10 DEF TemplateWake, CheckExit
  <1>11. ASSUME NEW m \in M, ThreadExit(m) \/ ThreadDone(m) \/ ThreadGone(m) PROVE HostExact'
    BY <1>11 DEF ThreadExit, ThreadDone, ThreadGone
  <1>12. ASSUME NEW h \in Host, HostNext(h) PROVE HostExact'
    <2>1. CASE HostCall(h)
      BY <2>1 DEF HostCall
    <2>2. CASE HostGetP(h)
      <3>1. CASE h \notin hasP
        BY <2>2, <3>1 DEF HostGetP, PFree, WakeSysmon, World
      <3>2. CASE ~(h \notin hasP)
        BY <2>2, <3>2 DEF HostGetP, World
      <3> QED
        BY <3>1, <3>2
    <2>3. CASE HostStop(h)
      BY <2>3 DEF HostStop
    <2>4. CASE HostReturn(h)
      <3>1. CASE gcwaiting
        BY <2>4, <3>1 DEF HostReturn, WakeSysmon
      <3>2. CASE ~gcwaiting
        BY <2>4, <3>2 DEF HostReturn
      <3> QED
        BY <3>1, <3>2
    <2>5. CASE HostLeave(h)
      BY <2>5 DEF HostLeave, WakeSysmon
    <2>6. CASE HostFirstCall(h)
      BY <2>6 DEF HostFirstCall
    <2>7. CASE Needm(h)
      BY <2>7 DEF Needm
    <2>8. CASE HostGone(h)
      BY <2>8 DEF HostGone
    <2> QED
      BY <1>12, <2>1, <2>2, <2>3, <2>4, <2>5, <2>6, <2>7, <2>8 DEF HostNext
  <1>13. CASE Destructor
    <2>1. CASE StopTheWorld
      BY <2>1 DEF StopTheWorld, InCalls
    <2>2. CASE StopSyscallPs
      BY <2>2 DEF StopSyscallPs, InCalls
    <2>3. CASE CheckCalls
      BY <2>3 DEF CheckCalls
    <2>4. CASE SetUnloading
      BY <2>4 DEF SetUnloading
    <2>5. CASE WakeAll
      BY <2>5 DEF WakeAll
    <2>6. CASE CountRunning
      BY <2>6 DEF CountRunning
    <2>7. CASE TimeOut
      BY <2>7 DEF TimeOut
    <2>8. CASE JoinStart
      BY <2>8 DEF JoinStart
    <2>9. CASE JoinEnd
      BY <2>9 DEF JoinEnd
    <2>10. CASE Release
      BY <2>10 DEF Release
    <2>11. CASE Removing
      BY <2>11 DEF Removing
    <2>12. CASE Removed
      BY <2>12 DEF Removed
    <2>13. CASE Unmap
      BY <2>13 DEF Unmap
    <2> QED
      BY <1>13, <2>1, <2>2, <2>3, <2>4, <2>5, <2>6, <2>7, <2>8, <2>9, <2>10, <2>11, <2>12, <2>13 DEF Destructor
  <1> QED
    BY <1>1, <1>2, <1>3, <1>4, <1>5, <1>6, <1>7, <1>8, <1>9, <1>10, <1>11, <1>12, <1>13 DEF Next

(* The lists of Ms and of joinable threads miss no thread that is inside. *)
LEMMA LifeStep ==
    ASSUME "detach" \notin Race
    PROVE  TypeOK /\ ThreadInv /\ LifeExact /\ [Next]_vars => LifeExact'
  <1> SUFFICES ASSUME TypeOK, ThreadInv, LifeExact, [Next]_vars PROVE LifeExact'
    OBVIOUS
  <1> USE ThreadNames DEF TypeOK, M, Goto, core, flags, sleeps, life, hosts, ends, destr, memVars,
          threadVars, Stopped, LifeExact, Ended, Joining
  <1>0. /\ upc # "idle" => gcwaiting
        /\ upc \in Stopped => \A w \in Worker : st[w] # "run"
    BY DEF ThreadInv, World, RunHasP
  <1>1. CASE UNCHANGED vars
    BY <1>1 DEF vars
  <1>2. ASSUME NEW m \in Worker, WorkerNext(m) PROVE LifeExact'
    <2>1. CASE Newm(m)
      BY <2>1, <1>0 DEF Newm, PFree
    <2>2. CASE Stopm(m)
      BY <2>2, <1>0 DEF Stopm
    <2>3. CASE ParkCheck(m)
      BY <2>3, <1>0 DEF ParkCheck, CheckExit
    <2>4. CASE NoteSleep(m)
      BY <2>4, <1>0 DEF NoteSleep
    <2>5. CASE WakeCheck(m)
      BY <2>5, <1>0 DEF WakeCheck, CheckExit
    <2>6. CASE Startm(m)
      BY <2>6, <1>0 DEF Startm, PFree
    <2>7. CASE NetpollBlock(m)
      BY <2>7, <1>0 DEF NetpollBlock
    <2>8. CASE NetpollEvent(m)
      BY <2>8, <1>0 DEF NetpollEvent
    <2>9. CASE NetpollReturn(m)
      BY <2>9, <1>0 DEF NetpollReturn, GetP, PFree
    <2>10. CASE EnterSyscall(m)
      <3>1. CASE gcwaiting
        BY <2>10, <1>0, <3>1 DEF EnterSyscall, WakeSysmon
      <3>2. CASE ~gcwaiting
        BY <2>10, <1>0, <3>2 DEF EnterSyscall
      <3> QED
        BY <3>1, <3>2
    <2>11. CASE InSyscall(m)
      BY <2>11, <1>0 DEF InSyscall, WakeSysmon
    <2>12. CASE ExitSyscall(m)
      <3>1. CASE m \notin hasP /\ PFree
        BY <2>12, <1>0, <3>1 DEF ExitSyscall, GetP, PFree, WakeSysmon
      <3>2. CASE ~(m \notin hasP /\ PFree)
        BY <2>12, <1>0, <3>2 DEF ExitSyscall, GetP, PFree
      <3> QED
        BY <3>1, <3>2
    <2>13. CASE Mexit(m)
      BY <2>13, <1>0 DEF Mexit
    <2>14. CASE TemplateStart(m)
      BY <2>14, <1>0 DEF TemplateStart
    <2> QED
      BY <1>2, <2>1, <2>2, <2>3, <2>4, <2>5, <2>6, <2>7, <2>8, <2>9, <2>10, <2>11, <2>12, <2>13, <2>14 DEF WorkerNext
  <1>3. ASSUME NEW x \in Worker \cup Host, Retake(x) PROVE LifeExact'
    BY <1>3, <1>0 DEF Retake, InCalls
  <1>4. ASSUME NEW b \in BOOLEAN, SysmonWake(b) PROVE LifeExact'
    BY <1>4, <1>0 DEF SysmonWake, CheckExit
  <1>5. CASE StartTemplateThread
    BY <1>5, <1>0 DEF StartTemplateThread
  <1>6. CASE SysmonCheck
    BY <1>6, <1>0 DEF SysmonCheck, CheckExit
  <1>7. CASE SysmonSleep
    <2>1. CASE gcwaiting \/ hasP = {}
      BY <1>7, <1>0, <2>1 DEF SysmonSleep
    <2>2. CASE ~(gcwaiting \/ hasP = {})
      BY <1>7, <1>0, <2>2 DEF SysmonSleep
    <2> QED
      BY <2>1, <2>2
  <1>8. CASE SysmonClear
    BY <1>8, <1>0 DEF SysmonClear
  <1>9. CASE TemplateWait
    BY <1>9, <1>0 DEF TemplateWait
  <1>10. CASE TemplateWake
    BY <1>10, <1>0 DEF TemplateWake, CheckExit
  <1>11. ASSUME NEW m \in M, ThreadExit(m) \/ ThreadDone(m) \/ ThreadGone(m) PROVE LifeExact'
    BY <1>11, <1>0 DEF ThreadExit, ThreadDone, ThreadGone
  <1>12. ASSUME NEW h \in Host, HostNext(h) PROVE LifeExact'
    <2>1. CASE HostCall(h)
      BY <2>1, <1>0 DEF HostCall
    <2>2. CASE HostGetP(h)
      <3>1. CASE h \notin hasP
        BY <2>2, <1>0, <3>1 DEF HostGetP, PFree, WakeSysmon
      <3>2. CASE ~(h \notin hasP)
        BY <2>2, <1>0, <3>2 DEF HostGetP
      <3> QED
        BY <3>1, <3>2
    <2>3. CASE HostStop(h)
      BY <2>3, <1>0 DEF HostStop
    <2>4. CASE HostReturn(h)
      <3>1. CASE gcwaiting
        BY <2>4, <1>0, <3>1 DEF HostReturn, WakeSysmon
      <3>2. CASE ~gcwaiting
        BY <2>4, <1>0, <3>2 DEF HostReturn
      <3> QED
        BY <3>1, <3>2
    <2>5. CASE HostLeave(h)
      BY <2>5, <1>0 DEF HostLeave, WakeSysmon
    <2>6. CASE HostFirstCall(h)
      BY <2>6, <1>0 DEF HostFirstCall
    <2>7. CASE Needm(h)
      BY <2>7, <1>0 DEF Needm
    <2>8. CASE HostGone(h)
      BY <2>8, <1>0 DEF HostGone
    <2> QED
      BY <1>12, <2>1, <2>2, <2>3, <2>4, <2>5, <2>6, <2>7, <2>8 DEF HostNext
  <1>13. CASE Destructor
    <2>1. CASE StopTheWorld
      BY <2>1, <1>0 DEF StopTheWorld, InCalls
    <2>2. CASE StopSyscallPs
      BY <2>2, <1>0 DEF StopSyscallPs, InCalls
    <2>3. CASE CheckCalls
      BY <2>3, <1>0 DEF CheckCalls
    <2>4. CASE SetUnloading
      BY <2>4, <1>0 DEF SetUnloading
    <2>5. CASE WakeAll
      BY <2>5, <1>0 DEF WakeAll
    <2>6. CASE CountRunning
      BY <2>6, <1>0 DEF CountRunning
    <2>7. CASE TimeOut
      BY <2>7, <1>0 DEF TimeOut
    <2>8. CASE JoinStart
      BY <2>8, <1>0 DEF JoinStart
    <2>9. CASE JoinEnd
      BY <2>9, <1>0 DEF JoinEnd, Joined
    <2>10. CASE Release
      BY <2>10, <1>0 DEF Release
    <2>11. CASE Removing
      BY <2>11, <1>0 DEF Removing
    <2>12. CASE Removed
      BY <2>12, <1>0 DEF Removed
    <2>13. CASE Unmap
      BY <2>13, <1>0 DEF Unmap
    <2> QED
      BY <1>13, <2>1, <2>2, <2>3, <2>4, <2>5, <2>6, <2>7, <2>8, <2>9, <2>10, <2>11, <2>12, <2>13 DEF Destructor
  <1> QED
    BY <1>1, <1>2, <1>3, <1>4, <1>5, <1>6, <1>7, <1>8, <1>9, <1>10, <1>11, <1>12, <1>13 DEF Next

(* When the library is unmapped each thread the runtime created has ended,  *)
(* and no host thread is in the Go code of a call, running or stopped; a    *)
(* thread on its way into that code or out of it is not waited for          *)
(* (CallsOver, which fails).  Without the race "detach".                    *)
THEOREM NobodyInside ==
    ASSUME "detach" \notin Race
    PROVE  Spec => []NoneInside
  <1>1. Init => HostExact /\ LifeExact
    BY ThreadNames DEF Init, M, HostExact, LifeExact, Stopped, Ended, Joining
  <1>2. TypeInv => TypeOK
    BY DEF TypeInv
  <1>3. World /\ HostExact /\ LifeExact => NoneInside
    BY DEF World, HostExact, LifeExact, NoneInside, Joining, Stopped, Alive
  <1>4. ThreadInv => World
    BY DEF ThreadInv
  <1> QED
    BY <1>1, <1>2, <1>3, <1>4, ThreadsAlways, HostStep, LifeStep, PTL DEF Spec
-----------------------------------------------------------------------------
(* What forgoMemRemove makes of the list.                                   *)

(* What is left of a range that the cut overlaps but does not cover. *)
LEMMA PartBytes ==
    ASSUME NEW r \in Span, cut \in Span, NEW x
    PROVE  /\ Covered(r) /\ x \in Bytes(r) => x \in Bytes(cut)
           /\ x \in Bytes(Lower(r)) /\ r.base < cut.base /\ cut.base < r.base + r.len
                => x \in Bytes(r) /\ x \notin Bytes(cut)
           /\ x \in Bytes(Upper(r)) /\ r.base < cut.base + cut.len
                => x \in Bytes(r) /\ x \notin Bytes(cut)
           /\ x \in Bytes(Lower(r)) => x \notin Bytes(Upper(r))
           /\ x \in Bytes(r) /\ x \notin Bytes(cut) => x \in Bytes(Lower(r)) \/ x \in Bytes(Upper(r))
           /\ x \in Bytes(Lower(r)) => r.base < cut.base
           /\ x \in Bytes(Upper(r)) => cut.base + cut.len < r.base + r.len
           /\ r.base + r.len <= cut.base \/ cut.base + cut.len <= r.base
                => ~(x \in Bytes(r) /\ x \in Bytes(cut))
  <1>1. r.base \in Int /\ r.len \in Int /\ cut.base \in Int /\ cut.len \in Int /\ cut.len > 0
    BY SpaceIs DEF Span, Addr
  <1> QED
    BY <1>1 DEF Bytes, Covered, Lower, Upper

(* Membership in what a list of ranges covers. *)
LEMMA CoverMember ==
    ASSUME NEW list, NEW x
    PROVE  x \in Cover(list) <=> \E i \in DOMAIN list : x \in Bytes(list[i])
  BY DEF Cover

(* A turn for a range that is dropped, and replaced by the last one. *)
LEMMA DropTurn ==
    ASSUME mem \in Seq(Span), cut \in Span, at \in 1 .. Len(mem), Apart(mem), BeforeClear,
           Covered(mem[at]), mem' = DropAt(at), at' = AfterDrop, cut' = cut
    PROVE  /\ Apart(mem') /\ BeforeClear'
           /\ Cover(mem') \ Bytes(cut) = Cover(mem) \ Bytes(cut)
  <1>1. /\ DOMAIN mem = 1 .. Len(mem) /\ DOMAIN mem' = 1 .. Len(mem) - 1
        /\ \A j \in DOMAIN mem' : mem'[j] = IF j = at THEN mem[Len(mem)] ELSE mem[j]
    BY DEF DropAt
  <1>2. Apart(mem')
    BY <1>1 DEF Apart
  <1>3. BeforeClear'
    BY <1>1 DEF BeforeClear, AfterDrop
  <1>4. ASSUME NEW x PROVE x \in Cover(mem') \ Bytes(cut) <=> x \in Cover(mem) \ Bytes(cut)
    <2>1. mem[at] \in Span
      OBVIOUS
    <2>2. x \in Bytes(mem[at]) => x \in Bytes(cut)
      BY <2>1, PartBytes
    <2>3. ASSUME NEW i \in DOMAIN mem, i # at, x \in Bytes(mem[i])
          PROVE  \E j \in DOMAIN mem' : x \in Bytes(mem'[j])
      <3>1. CASE i = Len(mem)
        <4>1. at # Len(mem) /\ Len(mem) \in Nat
          BY <2>3, <3>1
        <4>2. at \in 1 .. Len(mem) - 1
          BY <4>1
        <4> QED
          BY <1>1, <2>3, <3>1, <4>2
      <3>2. CASE i # Len(mem)
        BY <1>1, <2>3, <3>2
      <3> QED
        BY <3>1, <3>2
    <2>4. ASSUME NEW j \in DOMAIN mem', x \in Bytes(mem'[j])
          PROVE  \E i \in DOMAIN mem : x \in Bytes(mem[i])
      BY <1>1, <2>4
    <2> QED
      BY <2>2, <2>3, <2>4, CoverMember
  <1> QED
    BY <1>2, <1>3, <1>4

(* A turn for a range that is trimmed at one end. *)
LEMMA TrimTurn ==
    ASSUME mem \in Seq(Span), cut \in Span, at \in 1 .. Len(mem), Apart(mem), BeforeClear,
           NEW part, mem' = [mem EXCEPT ![at] = part], at' = at + 1, cut' = cut,
           \A x : x \in Bytes(part) <=> x \in Bytes(mem[at]) /\ x \notin Bytes(cut)
    PROVE  /\ Apart(mem') /\ BeforeClear'
           /\ Cover(mem') \ Bytes(cut) = Cover(mem) \ Bytes(cut)
  <1>1. /\ DOMAIN mem = 1 .. Len(mem) /\ DOMAIN mem' = DOMAIN mem
        /\ \A j \in DOMAIN mem' : mem'[j] = IF j = at THEN part ELSE mem[j]
    OBVIOUS
  <1>2. Apart(mem')
    BY <1>1 DEF Apart
  <1>3. BeforeClear'
    BY <1>1 DEF BeforeClear
  <1>4. ASSUME NEW x PROVE x \in Cover(mem') \ Bytes(cut) <=> x \in Cover(mem) \ Bytes(cut)
    BY <1>1, CoverMember
  <1> QED
    BY <1>2, <1>3, <1>4

(* A turn for a range that is split around the cut. *)
LEMMA SplitTurn ==
    ASSUME mem \in Seq(Span), cut \in Span, at \in 1 .. Len(mem), Apart(mem), BeforeClear,
           Inside(mem[at]), mem' = SplitAt(at), at' = at + 1, cut' = cut
    PROVE  /\ Apart(mem') /\ BeforeClear'
           /\ Cover(mem') \ Bytes(cut) = Cover(mem) \ Bytes(cut)
  <1> DEFINE lo == Lower(mem[at])
             hi == Upper(mem[at])
  <1>1. /\ DOMAIN mem = 1 .. Len(mem) /\ DOMAIN mem' = 1 .. Len(mem) + 1
        /\ \A j \in DOMAIN mem' :
             mem'[j] = IF j = at THEN lo ELSE IF j = Len(mem) + 1 THEN hi ELSE mem[j]
    BY DEF SplitAt
  <1>2. mem[at] \in Span
    OBVIOUS
  <1>3. /\ mem[at].base < cut.base /\ cut.base < mem[at].base + mem[at].len
        /\ mem[at].base < cut.base + cut.len
    BY <1>2, SpaceIs, SMTT(30) DEF Inside, Span, Addr
  <1>4. \A x : /\ x \in Bytes(lo) => x \in Bytes(mem[at]) /\ x \notin Bytes(cut) /\ x \notin Bytes(hi)
               /\ x \in Bytes(hi) => x \in Bytes(mem[at]) /\ x \notin Bytes(cut)
               /\ x \in Bytes(mem[at]) /\ x \notin Bytes(cut) => x \in Bytes(lo) \/ x \in Bytes(hi)
    BY <1>2, <1>3, PartBytes
  <1> HIDE DEF lo, hi
  <1>5. Apart(mem')
    BY <1>1, <1>4 DEF Apart
  <1>6. BeforeClear'
    BY <1>1, <1>4 DEF BeforeClear
  <1>7. ASSUME NEW x PROVE x \in Cover(mem') \ Bytes(cut) <=> x \in Cover(mem) \ Bytes(cut)
    <2>1. ASSUME NEW i \in DOMAIN mem, x \in Bytes(mem[i]), x \notin Bytes(cut)
          PROVE  \E j \in DOMAIN mem' : x \in Bytes(mem'[j])
      <3>1. CASE i # at
        BY <1>1, <2>1, <3>1
      <3>2. CASE x \in Bytes(lo)
        BY <1>1, <3>2
      <3>3. CASE x \in Bytes(hi)
        BY <1>1, <3>3
      <3> QED
        BY <1>4, <2>1, <3>1, <3>2, <3>3
    <2>2. ASSUME NEW j \in DOMAIN mem', x \in Bytes(mem'[j])
          PROVE  \E i \in DOMAIN mem : x \in Bytes(mem[i])
      BY <1>1, <1>4, <2>2
    <2> QED
      BY <2>1, <2>2, CoverMember
  <1> QED
    BY <1>5, <1>6, <1>7

(* A turn of the loop, whichever it is. *)
LEMMA LoopTurn ==
    ASSUME mem \in Seq(Span), cut \in Span, Apart(mem), BeforeClear, MemStep
    PROVE  /\ Apart(mem') /\ BeforeClear'
           /\ Cover(mem') \ Bytes(cut) = Cover(mem) \ Bytes(cut)
  <1> DEFINE r == mem[at]
  <1>0. at \in 1 .. Len(mem) /\ r \in Span /\ cut' = cut
    BY DEF MemStep
  <1>1. r.base \in Int /\ r.len \in Int /\ cut.base \in Int /\ cut.len \in Int /\ cut.len > 0
    BY <1>0, SpaceIs DEF Span, Addr
  <1>2. CASE Covered(r) /\ mem' = DropAt(at) /\ at' = AfterDrop
    BY <1>0, <1>2, DropTurn
  <1>3. CASE Inside(r) /\ mem' = SplitAt(at) /\ at' = at + 1
    BY <1>0, <1>3, SplitTurn
  <1>4. CASE /\ ~Inside(r) /\ r.base < cut.base /\ cut.base < r.base + r.len
             /\ mem' = [mem EXCEPT ![at] = Lower(r)] /\ at' = at + 1
    <2>1. r.base + r.len <= cut.base + cut.len
      BY <1>1, <1>4 DEF Inside
    <2>2. \A x : x \in Bytes(Lower(r)) <=> x \in Bytes(r) /\ x \notin Bytes(cut)
      BY <1>0, <1>1, <1>4, <2>1, PartBytes
    <2> QED
      BY <1>0, <1>4, <2>2, TrimTurn
  <1>5. CASE /\ cut.base <= r.base /\ r.base < cut.base + cut.len
             /\ mem' = [mem EXCEPT ![at] = Upper(r)] /\ at' = at + 1
    <2>1. \A x : x \in Bytes(Upper(r)) <=> x \in Bytes(r) /\ x \notin Bytes(cut)
      BY <1>0, <1>1, <1>5, PartBytes
    <2> QED
      BY <1>0, <1>5, <2>1, TrimTurn
  <1>6. CASE /\ r.base + r.len <= cut.base \/ cut.base + cut.len <= r.base
             /\ mem' = mem /\ at' = at + 1
    <2>1. \A x : ~(x \in Bytes(r) /\ x \in Bytes(cut))
      BY <1>0, <1>6, PartBytes
    <2>2. BeforeClear'
      BY <1>0, <1>6, <2>1 DEF BeforeClear
    <2> QED
      BY <1>6, <2>2
  <1>7. ~(r.base + r.len <= cut.base) <=> cut.base < r.base + r.len
    BY <1>1
  <1>8. ~(cut.base + cut.len <= r.base) <=> r.base < cut.base + cut.len
    BY <1>1
  <1> QED
    BY <1>2, <1>3, <1>4, <1>5, <1>6, <1>7, <1>8 DEF MemStep

\* The walk's part of the destructor's places.
Walking == {"release", "removing", "unmapped"}

(* Only the destructor's last actions touch the list of ranges. *)
LEMMA OthersKeepEnds ==
    ASSUME [Next]_vars
    PROVE  \/ JoinEnd \/ Release \/ Removing \/ Removed \/ Unmap
           \/ UNCHANGED ends /\ (upc' = upc \/ {upc, upc'} \cap Walking = {})
  <1> USE DEF destr, ends
  <1>1. CASE UNCHANGED vars
    BY <1>1 DEF vars
  <1>2. ASSUME NEW m \in Worker, WorkerNext(m) PROVE UNCHANGED destr
    BY <1>2 DEF WorkerNext, Newm, Stopm, ParkCheck, NoteSleep, WakeCheck, Startm, NetpollBlock,
       NetpollEvent, NetpollReturn, EnterSyscall, InSyscall, ExitSyscall, Mexit, TemplateStart
  <1>3. ASSUME \/ \E x \in Worker \cup Host : Retake(x)
               \/ StartTemplateThread \/ SysmonCheck \/ SysmonSleep \/ SysmonClear
               \/ \E b \in BOOLEAN : SysmonWake(b)
               \/ TemplateWait \/ TemplateWake
               \/ \E m \in M : ThreadExit(m) \/ ThreadDone(m) \/ ThreadGone(m)
        PROVE  UNCHANGED destr
    BY <1>3 DEF Retake, StartTemplateThread, SysmonCheck, SysmonSleep, SysmonClear, SysmonWake,
       TemplateWait, TemplateWake, ThreadExit, ThreadDone, ThreadGone
  <1>4. ASSUME NEW h \in Host, HostNext(h) PROVE UNCHANGED destr
    BY <1>4 DEF HostNext, HostFirstCall, Needm, HostCall, HostGetP, HostStop, HostReturn, HostLeave, HostGone
  <1>5. ASSUME \/ StopTheWorld \/ StopSyscallPs \/ CheckCalls \/ SetUnloading \/ WakeAll
               \/ CountRunning \/ TimeOut \/ JoinStart
        PROVE  UNCHANGED ends /\ (upc' = upc \/ {upc, upc'} \cap Walking = {})
    BY <1>5 DEF StopTheWorld, StopSyscallPs, CheckCalls, SetUnloading, WakeAll, CountRunning,
       TimeOut, JoinStart, Walking
  <1> QED
    BY <1>1, <1>2, <1>3, <1>4, <1>5 DEF Next, Destructor

(* Every step of the destructor keeps account of every address. *)
LEMMA WalkStep == TypeInv /\ WalkExact /\ [Next]_vars => WalkExact'
  <1> SUFFICES ASSUME TypeInv, WalkExact, [Next]_vars PROVE WalkExact'
    OBVIOUS
  <1>t. /\ mem \in Seq(Span) /\ kept \in Seq(Span) /\ left \in 0 .. Len(kept)
        /\ at \in Nat /\ (upc = "removing" => cut \in Span)
    BY DEF TypeInv, TypeOK, WalkTypes
  <1> USE DEF WalkExact, BeforeClear, KeptFrom
  <1>1. CASE UNCHANGED ends /\ (upc' = upc \/ {upc, upc'} \cap Walking = {})
    <2>1. UNCHANGED <<kept, left, whole, mem, at, cut>>
      BY <1>1 DEF ends, memVars
    <2>2. CASE upc' = upc
      BY <2>1, <2>2
    <2>3. CASE upc \notin Walking /\ upc' \notin Walking
      BY <2>1, <2>3 DEF Walking
    <2> QED
      BY <1>1, <2>2, <2>3
  <1>2. CASE JoinEnd
    <2>1. PICK list \in Lists, k \in Stacks :
             mem' = list /\ whole' = Cover(list) /\ kept' = k /\ left' = Len(k)
      BY <1>2 DEF JoinEnd
    <2>2. Apart(mem')
      BY <2>1, ListsApart
    <2>3. Len(k) \in Nat
      BY Bounds
    <2>4. KeptFrom(left + 1)' = {}
      BY <2>1, <2>3
    <2> QED
      BY <1>2, <2>1, <2>2, <2>4 DEF JoinEnd
  <1>3. CASE Release
    <2>1. KeptFrom(left) = Bytes(kept[left]) \cup KeptFrom(left + 1)
      BY <1>3, <1>t DEF Release
    <2> QED
      BY <1>3, <1>t, <2>1 DEF Release, MemRemove
  <1>4. CASE Removing
    <2>1. /\ Apart(mem') /\ BeforeClear'
          /\ Cover(mem') \ Bytes(cut) = Cover(mem) \ Bytes(cut)
      BY <1>4, <1>t, LoopTurn DEF Removing
    <2>2. cut' = cut /\ at' \in 1 .. Len(mem') + 1
      BY <1>4, <1>t, StepTypes DEF Removing
    <2> QED
      BY <1>4, <1>t, <2>1, <2>2 DEF Removing
  <1>5. CASE Removed
    <2>1. \A i \in DOMAIN mem : Bytes(mem[i]) \cap Bytes(cut) = {}
      BY <1>5, <1>t DEF Removed, MemRemoved
    <2>2. Cover(mem) \ Bytes(cut) = Cover(mem)
      BY <2>1, CoverMember
    <2> QED
      BY <1>5, <1>t, <2>2 DEF Removed, MemRemoved
  <1>6. CASE Unmap
    BY <1>6 DEF Unmap, ends, memVars
  <1> QED
    BY <1>1, <1>2, <1>3, <1>4, <1>5, <1>6, OthersKeepEnds

(* For every list of ranges that do not overlap, and every set of signal    *)
(* stacks that lie anywhere in them, in any order: the destructor unmaps    *)
(* exactly the rest, each address once.                                     *)
THEOREM UnmapsTheRest == Spec => []UnmapsExact
  <1>1. Init => WalkExact
    BY DEF Init, MemInit, WalkExact, Apart
  <1>2. TypeInv /\ WalkExact => UnmapsExact
    <2>1. TypeOK => KeptFrom(0 + 1) = UNION {Bytes(kept[i]) : i \in DOMAIN kept}
      BY DEF KeptFrom, TypeOK
    <2> QED
      BY <2>1 DEF TypeInv, WalkExact, UnmapsExact
  <1> QED
    BY <1>1, <1>2, TypeInit, TypeStep, WalkStep, PTL DEF Spec

=============================================================================
