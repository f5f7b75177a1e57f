------------------------------- MODULE Unload -------------------------------
(***************************************************************************)
(* Unloading a c-shared library (runtime/forgo_unload.go, forgo_stw.go,     *)
(* runtime/cgo/gcc_forgo_unload_unix.c and the hooks in runtime/proc.go).   *)
(* One thread runs the library's destructor: it stops the world, makes      *)
(* every thread the runtime created leave, joins them and unmaps what the   *)
(* runtime mapped.  The other threads are the runtime's Ms - the workers    *)
(* that run goroutines, sysmon and the template thread - and host threads   *)
(* that call into the library.  Only a thread with a P runs Go code.        *)
(*                                                                         *)
(* Race names what the passing run leaves out: "detach" (a thread that      *)
(* detaches itself before the join is still in the library's code for a     *)
(* moment).                                                                 *)
(***************************************************************************)
EXTENDS ForgoMem, FiniteSets

CONSTANTS
    Worker,   \* the Ms that run goroutines, created or not
    M0,       \* the one on the runtime's first thread
    Host,     \* the host's threads that call into the library
    Sysmon, Template,
    Procs,    \* gomaxprocs
    Lists,    \* the range lists the runtime may have recorded
    Stacks,   \* the signal stacks host threads may have: sequences of ranges
    Race

M == Worker \cup {Sysmon, Template}
RaceKind == {"detach"}

ASSUME ThreadNames ==
    /\ Worker \cap Host = {} /\ {Sysmon, Template} \cap (Worker \cup Host) = {}
    /\ Sysmon # Template /\ M0 \in Worker
ASSUME Bounds ==
    /\ Procs \in Nat \ {0} /\ Race \subseteq RaceKind
    /\ Lists \subseteq Seq(Span) /\ Stacks \subseteq Seq(Span)
\* Each range is a mapping the system made anew (sysAlloc, sysReserve): no two overlap.
ASSUME ListsApart == \A list \in Lists : Apart(list)

VARIABLES
    st,         \* M -> where the thread is
    note,       \* M -> whether the note it sleeps on is set
    idle,       \* sched.midle: the Ms startm may take
    hasP,       \* the threads that hold a P, or have been given one
    gcwaiting,  \* sched.gcwaiting
    unloading,  \* forgoUnloading
    sysmonwait, waiting,  \* sched.sysmonwait and newmHandoff.waiting
    allm,       \* the Ms in the list of Ms
    exited,     \* the Ms with forgoExited set
    listed,     \* forgo_threads: the joinable threads
    joining,    \* forgo_joining
    hst,        \* Host -> where the thread is: in the library unless "new" or "out"
    inC,        \* the host threads whose extra M has isExtraInC set
    upc,        \* where the destructor is
    kept,       \* the signal stacks of host threads, which must stay mapped
    left,       \* how many of them forgoMemRemove has not been called for
    whole       \* every address the runtime had mapped

core == <<st, note, idle, hasP>>
flags == <<gcwaiting, unloading>>
sleeps == <<sysmonwait, waiting>>
life == <<allm, exited, listed>>
hosts == <<hst, inC>>
ends == <<kept, left, whole, memVars>>
destr == <<joining, upc, ends>>
threadVars == <<core, flags, sleeps, life, joining, hosts>>
vars == <<threadVars, upc, ends>>

\* Where the destructor is after it has stopped the world.
Stopped == {"flag", "wake", "count", "join", "joining", "release", "removing", "unmapped"}
Over == {"unmapped", "refused"}
\* Where a thread that runs the library's code can be.
Alive == {"run", "enter", "sys", "poll", "polled", "park", "sleep", "awake", "unwind",
          "ret", "done", "tick", "tock", "deep", "woke", "busy", "wait"}

Init ==
    /\ st = [m \in M |-> IF m = M0 THEN "run" ELSE IF m = Sysmon THEN "tick" ELSE "none"]
    /\ hasP = {M0}
    /\ allm = {M0, Sysmon}
    /\ listed = {M0, Sysmon}
    /\ note = [m \in M |-> FALSE]
    /\ idle = {} /\ exited = {}
    /\ gcwaiting = FALSE /\ unloading = FALSE
    /\ sysmonwait = FALSE /\ waiting = FALSE /\ joining = FALSE
    /\ hst = [h \in Host |-> "new"]
    /\ inC = Host
    /\ upc = "idle"
    /\ kept = <<>> /\ left = 0 /\ whole = {}
    /\ MemInit

PFreeStopped == Cardinality(hasP) < Procs
PFree == ~gcwaiting /\ Cardinality(hasP) < Procs
Goto(m, s) == st' = [st EXCEPT ![m] = s]
-----------------------------------------------------------------------------
(* Workers.  A goroutine's M may start others, park when there is nothing   *)
(* to do or the world stops, block in the network poller, or make a call.   *)

\* newm by startm, through the template thread when the caller's thread is not
\* in a known state.
Newm(w) ==
    /\ PFree
    /\ st[w] = "none" /\ w \in Worker
    /\ hasP' = hasP \cup {w}
    /\ allm' = allm \cup {w}
    /\ \/ /\ Goto(w, "run")
          /\ listed' = listed \cup {w}
          /\ UNCHANGED <<note, waiting>>
       \/ /\ st[Template] # "none"
          /\ Goto(w, "queued")
          /\ note' = [note EXCEPT ![Template] = @ \/ waiting]
          /\ waiting' = FALSE
          /\ UNCHANGED listed
    /\ UNCHANGED <<idle, flags, sysmonwait, exited, destr, hosts>>

\* startTemplateThread.
StartTemplateThread ==
    /\ \E m \in Worker : st[m] = "run"
    /\ st[Template] = "none"
    /\ Goto(Template, "busy")
    /\ allm' = allm \cup {Template}
    /\ listed' = listed \cup {Template}
    /\ UNCHANGED <<note, idle, hasP, flags, sleeps, exited, destr, hosts>>

\* stopm: onto the idle list, the P given up.  A running M gets here when it has
\* nothing to run, and when it is told to stop for gcwaiting.
Stopm(m) ==
    /\ st[m] = "run"
    /\ Goto(m, "park")
    /\ hasP' = hasP \ {m}
    /\ idle' = idle \cup {m}
    /\ UNCHANGED <<note, flags, sleeps, life, destr, hosts>>

\* mPark: forgoCheckExit, notesleep, noteclear, forgoCheckExit.
CheckExit(m, s) == Goto(m, IF unloading THEN "unwind" ELSE s)

ParkCheck(m) ==
    /\ st[m] = "park"
    /\ CheckExit(m, "sleep")
    /\ UNCHANGED <<note, idle, hasP, flags, sleeps, life, destr, hosts>>
NoteSleep(m) ==
    /\ st[m] = "sleep" /\ note[m]
    /\ Goto(m, "awake")
    /\ note' = [note EXCEPT ![m] = FALSE]
    /\ UNCHANGED <<idle, hasP, flags, sleeps, life, destr, hosts>>
WakeCheck(m) ==
    /\ st[m] = "awake"
    /\ CheckExit(m, "run")
    /\ UNCHANGED <<note, idle, hasP, flags, sleeps, life, destr, hosts>>

\* startm with an idle M: it is given the P and woken.
Startm(m) ==
    /\ PFree
    /\ m \in idle
    /\ idle' = idle \ {m}
    /\ hasP' = hasP \cup {m}
    /\ note' = [note EXCEPT ![m] = TRUE]
    /\ UNCHANGED <<st, flags, sleeps, life, destr, hosts>>

\* The last M to run blocks in netpoll, or the signal receiver in its note,
\* without a P.
NetpollBlock(m) ==
    /\ st[m] = "run" /\ ~gcwaiting
    /\ Goto(m, "poll")
    /\ hasP' = hasP \ {m}
    /\ UNCHANGED <<note, idle, flags, sleeps, life, destr, hosts>>
NetpollEvent(m) ==
    /\ st[m] = "poll"
    /\ Goto(m, "polled")
    /\ UNCHANGED <<note, idle, hasP, flags, sleeps, life, destr, hosts>>

\* A thread that enters a call, or gets a P back, wakes sysmon.
WakeSysmon ==
    /\ note' = [note EXCEPT ![Sysmon] = @ \/ sysmonwait]
    /\ sysmonwait' = FALSE

\* reentersyscall looks at gcwaiting and gives the P away if it is set; it is in
\* the call only a step later, with its P.  C calls go the same way.
EnterSyscall(m) ==
    /\ st[m] = "run"
    /\ IF gcwaiting THEN Goto(m, "sys") /\ hasP' = hasP \ {m} /\ WakeSysmon
                    ELSE Goto(m, "enter") /\ UNCHANGED <<hasP, note, sysmonwait>>
    /\ UNCHANGED <<idle, flags, waiting, life, destr, hosts>>
InSyscall(m) ==
    /\ st[m] = "enter"
    /\ Goto(m, "sys")
    /\ WakeSysmon
    /\ UNCHANGED <<idle, hasP, flags, waiting, life, destr, hosts>>

\* exitsyscall, and the way on from netpoll: with a P the M runs on, without one
\* it parks.
GetP(m) ==
    \/ /\ m \in hasP \/ PFree
       /\ hasP' = hasP \cup {m}
       /\ Goto(m, "run")
       /\ UNCHANGED idle
    \/ /\ m \notin hasP /\ ~PFree
       /\ Goto(m, "park")
       /\ idle' = idle \cup {m}
       /\ UNCHANGED hasP
ExitSyscall(m) ==
    /\ st[m] = "sys"
    /\ GetP(m)
    /\ IF m \notin hasP /\ PFree THEN WakeSysmon ELSE UNCHANGED <<note, sysmonwait>>
    /\ UNCHANGED <<flags, waiting, life, destr, hosts>>
NetpollReturn(m) ==
    /\ st[m] = "polled"
    /\ GetP(m)
    /\ UNCHANGED <<note, flags, sleeps, life, destr, hosts>>

\* A goroutine that ends while locked to its thread ends the thread: mexit.  The
\* first thread parks for good instead, where startm does not find it.
Mexit(m) ==
    /\ st[m] = "run"
    /\ Goto(m, IF m = M0 THEN "park" ELSE "ret")
    /\ hasP' = hasP \ {m}
    /\ allm' = IF m = M0 THEN allm ELSE allm \ {m}
    /\ UNCHANGED <<note, idle, flags, sleeps, exited, listed, destr, hosts>>

\* The threads in calls that still have their P (setBlockOnExitSyscall): the
\* goroutine is in _Gsyscall, a host thread's also until exitsyscall begins.
InCalls ==
    {x \in hasP : IF x \in Host THEN hst[x] \in {"back", "out", "want"} ELSE st[x] = "sys"}

\* sysmon takes the P of a thread that stays in a call.
Retake(x) ==
    /\ x \in InCalls /\ ~gcwaiting /\ st[Sysmon] = "tick"
    /\ hasP' = hasP \ {x}
    /\ UNCHANGED <<st, note, idle, flags, sleeps, life, destr, hosts>>

-----------------------------------------------------------------------------
(* sysmon and the template thread sleep on notes of their own.              *)

\* Between its look at the flag and its sleep sysmon may miss a wake-up.
SysmonCheck ==
    /\ st[Sysmon] = "tick"
    /\ CheckExit(Sysmon, "tock")
    /\ UNCHANGED <<note, idle, hasP, flags, sleeps, life, destr, hosts>>
SysmonSleep ==
    /\ st[Sysmon] = "tock"
    /\ IF gcwaiting \/ hasP = {}
       THEN Goto(Sysmon, "deep") /\ sysmonwait' = TRUE
       ELSE Goto(Sysmon, "tick") /\ UNCHANGED sysmonwait
    /\ UNCHANGED <<note, idle, hasP, flags, waiting, life, destr, hosts>>
\* notetsleep ends because the note is set, or after up to a minute.
SysmonWake(woken) ==
    /\ st[Sysmon] = "deep"
    /\ woken => note[Sysmon]
    /\ CheckExit(Sysmon, "woke")
    /\ UNCHANGED <<note, idle, hasP, flags, sleeps, life, destr, hosts>>
SysmonClear ==
    /\ st[Sysmon] = "woke"
    /\ Goto(Sysmon, "tick")
    /\ sysmonwait' = FALSE
    /\ note' = [note EXCEPT ![Sysmon] = FALSE]
    /\ UNCHANGED <<idle, hasP, flags, waiting, life, destr, hosts>>

TemplateStart(w) ==
    /\ st[Template] = "busy"
    /\ st[w] = "queued"
    /\ Goto(w, "run")
    /\ listed' = listed \cup {w}
    /\ UNCHANGED <<note, idle, hasP, flags, sleeps, allm, exited, destr, hosts>>
TemplateWaitStale ==
    /\ st[Template] = "busy"
    /\ \A w \in Worker : st[w] # "queued"
    /\ Goto(Template, "wait")
    /\ waiting' = TRUE
    /\ UNCHANGED <<note, idle, hasP, flags, sysmonwait, life, destr, hosts>>
TemplateWait ==
    /\ st[Template] = "busy"
    /\ \A w \in Worker : st[w] # "queued"
    /\ Goto(Template, "wait")
    /\ waiting' = TRUE
    /\ note' = [note EXCEPT ![Template] = FALSE]
    /\ UNCHANGED <<idle, hasP, flags, sysmonwait, life, destr, hosts>>
TemplateWake ==
    /\ st[Template] = "wait" /\ note[Template]
    /\ CheckExit(Template, "busy")
    /\ UNCHANGED <<note, idle, hasP, flags, sleeps, life, destr, hosts>>

-----------------------------------------------------------------------------
(* The end of a thread: forgoThreadExit, then _cgo_forgo_thread_done.       *)

ThreadExit(m) ==
    /\ st[m] = "unwind"
    /\ Goto(m, "ret")
    /\ exited' = exited \cup {m}
    /\ UNCHANGED <<note, idle, hasP, flags, sleeps, allm, listed, destr, hosts>>
\* Before the join a thread takes itself off the list and detaches; it then still
\* has to return from the library's code.
ThreadDone(m) ==
    /\ st[m] = "ret"
    /\ listed' = IF joining THEN listed ELSE listed \ {m}
    /\ Goto(m, IF joining \/ "detach" \in Race THEN "done" ELSE "dead")
    /\ UNCHANGED <<note, idle, hasP, flags, sleeps, allm, exited, destr, hosts>>
ThreadGone(m) ==
    /\ st[m] = "done"
    /\ Goto(m, "dead")
    /\ UNCHANGED <<note, idle, hasP, flags, sleeps, life, destr, hosts>>

-----------------------------------------------------------------------------
(* Host threads: cgocallback.  The host starts no call once it unloads the  *)
(* library; one it started before may be anywhere.  An extra M on the list  *)
(* has isExtraInC set.  On a thread's first call needm takes one and clears *)
(* the mark; on later ones the thread has its M, and the mark stays set     *)
(* until exitsyscall has a P.                                               *)

HostFirstCall(h) ==
    /\ upc = "idle" /\ hst[h] = "new"
    /\ hst' = [hst EXCEPT ![h] = "call"]
    /\ UNCHANGED <<core, flags, sleeps, life, destr, inC>>
Needm(h) ==
    /\ hst[h] = "call"
    /\ hst' = [hst EXCEPT ![h] = "want"]
    /\ inC' = inC \ {h}
    /\ UNCHANGED <<core, flags, sleeps, life, destr>>
HostCall(h) ==
    /\ upc = "idle" /\ hst[h] = "out"
    /\ hst' = [hst EXCEPT ![h] = "want"]
    /\ UNCHANGED <<core, flags, sleeps, life, destr, inC>>
HostGetP(h) ==
    /\ hst[h] = "want" /\ (h \in hasP \/ PFree)
    /\ hasP' = hasP \cup {h}
    /\ hst' = [hst EXCEPT ![h] = "in"]
    /\ inC' = inC \ {h}
    /\ IF h \notin hasP THEN WakeSysmon ELSE UNCHANGED <<note, sysmonwait>>
    /\ UNCHANGED <<st, idle, flags, waiting, life, destr>>
\* The call is preempted when the world stops.
HostStop(h) ==
    /\ hst[h] = "in" /\ h \in hasP /\ gcwaiting
    /\ hasP' = hasP \ {h}
    /\ UNCHANGED <<st, note, idle, flags, sleeps, life, destr, hosts>>
\* The way back to C, with the P: the mark is set, then reentersyscall runs as in
\* EnterSyscall.
HostReturn(h) ==
    /\ hst[h] = "in" /\ h \in hasP
    /\ inC' = inC \cup {h}
    /\ IF gcwaiting
       THEN hst' = [hst EXCEPT ![h] = "back"] /\ hasP' = hasP \ {h} /\ WakeSysmon
       ELSE hst' = [hst EXCEPT ![h] = "leave"] /\ UNCHANGED <<hasP, note, sysmonwait>>
    /\ UNCHANGED <<st, idle, flags, waiting, life, destr>>
HostLeave(h) ==
    /\ hst[h] = "leave"
    /\ hst' = [hst EXCEPT ![h] = "back"]
    /\ WakeSysmon
    /\ UNCHANGED <<st, idle, hasP, flags, waiting, life, destr, inC>>
\* The rest of reentersyscall, cgocallbackg, cgocallback and crosscall2, and the
\* exported function's C wrapper.
HostGone(h) ==
    /\ hst[h] = "back"
    /\ hst' = [hst EXCEPT ![h] = "out"]
    /\ UNCHANGED <<core, flags, sleeps, life, destr, inC>>
-----------------------------------------------------------------------------
(* The destructor: forgo_unload, forgoUnload.                               *)

\* stopTheWorldWithSema takes the idle Ps, and those of threads in calls.
StopTheWorld ==
    /\ upc = "idle"
    /\ upc' = "stopping"
    /\ gcwaiting' = TRUE
    /\ hasP' = hasP \ InCalls
    /\ UNCHANGED <<st, note, idle, unloading, sleeps, life, joining, hosts, ends>>
\* forgoStopSyscallPs, in each round of the wait.
StopSyscallPsNever == FALSE
StopSyscallPs ==
    /\ upc = "stopping" /\ InCalls # {}
    /\ hasP' = hasP \ InCalls
    /\ UNCHANGED <<st, note, idle, flags, sleeps, life, destr, hosts>>
\* Every P has stopped; no host thread may be in a call.
CheckCalls ==
    /\ upc = "stopping" /\ hasP = {}
    /\ upc' = IF Host \subseteq inC THEN "flag" ELSE "refused"
    /\ UNCHANGED <<threadVars, ends>>
SetUnloading ==
    /\ upc = "flag"
    /\ upc' = "wake"
    /\ unloading' = TRUE
    /\ UNCHANGED <<core, gcwaiting, sleeps, life, joining, hosts, ends>>

\* forgoWakeAll.  An M that is not asleep keeps its note set.
WakeAll ==
    /\ upc = "wake"
    /\ upc' = "count"
    /\ idle' = {}
    /\ note' = [m \in M |-> CASE m = Sysmon -> note[m] \/ sysmonwait
                              [] m = Template -> note[m] \/ waiting
                              [] OTHER -> note[m] \/ m \in allm \ exited]
    /\ sysmonwait' = FALSE /\ waiting' = FALSE
    /\ st' = [m \in M |-> IF st[m] = "poll" THEN "polled" ELSE st[m]]
    /\ UNCHANGED <<hasP, flags, life, joining, hosts, ends>>
CountRunning ==
    /\ upc = "count"
    /\ upc' = IF allm \subseteq exited THEN "join" ELSE "wake"
    /\ UNCHANGED <<threadVars, ends>>
\* Five seconds are over; they are enough for every M that is not in a call.
TimeOut ==
    /\ upc = "count"
    /\ \E m \in allm \ exited : st[m] = "sys"
    /\ upc' = "refused"
    /\ UNCHANGED <<threadVars, ends>>

\* x_cgo_forgo_join.
JoinStart ==
    /\ upc = "join"
    /\ upc' = "joining"
    /\ joining' = TRUE
    /\ UNCHANGED <<core, flags, sleeps, life, hosts, ends>>
JoinedEarly == \A m \in listed : st[m] \in {"dead", "done"}
Joined == \A m \in listed : st[m] = "dead"

\* Every listed thread has been joined.  What the runtime mapped is some list of
\* ranges, and the host threads' signal stacks lie somewhere in them.
JoinEnd ==
    /\ upc = "joining" /\ Joined
    /\ upc' = "release"
    /\ \E list \in Lists, k \in Stacks :
         /\ \A i \in DOMAIN k : Bytes(k[i]) \subseteq Cover(list)
         /\ mem' = list
         /\ whole' = Cover(list)
         /\ kept' = k
         /\ left' = Len(k)
    /\ UNCHANGED <<threadVars, at, cut>>
\* forgoMemRemove for each signal stack, the destructor's own thread's last.
Release ==
    /\ upc = "release" /\ left > 0
    /\ MemRemove(kept[left])
    /\ upc' = "removing"
    /\ UNCHANGED <<threadVars, kept, left, whole>>
Removing ==
    /\ upc = "removing"
    /\ MemStep
    /\ UNCHANGED <<threadVars, upc, kept, left, whole>>
Removed ==
    /\ upc = "removing"
    /\ MemRemoved
    /\ left' = left - 1
    /\ upc' = "release"
    /\ UNCHANGED <<threadVars, kept, whole>>
\* forgoMemTake; the destructor unmaps the ranges and the library goes away.
Unmap ==
    /\ upc = "release" /\ left = 0
    /\ upc' = "unmapped"
    /\ UNCHANGED <<threadVars, ends>>

WorkerNext(m) ==
    \/ Newm(m) \/ Stopm(m) \/ ParkCheck(m) \/ NoteSleep(m) \/ WakeCheck(m) \/ Startm(m)
    \/ NetpollBlock(m) \/ NetpollEvent(m) \/ NetpollReturn(m)
    \/ EnterSyscall(m) \/ InSyscall(m) \/ ExitSyscall(m) \/ Mexit(m) \/ TemplateStart(m)
HostNext(h) ==
    \/ HostFirstCall(h) \/ Needm(h) \/ HostCall(h) \/ HostGetP(h)
    \/ HostStop(h) \/ HostReturn(h) \/ HostLeave(h) \/ HostGone(h)
Destructor ==
    \/ StopTheWorld \/ StopSyscallPs \/ CheckCalls \/ SetUnloading \/ WakeAll \/ CountRunning
    \/ TimeOut \/ JoinStart \/ JoinEnd \/ Release \/ Removing \/ Removed \/ Unmap

Next ==
    /\ upc \notin Over
    /\ \/ \E m \in Worker : WorkerNext(m)
       \/ \E x \in Worker \cup Host : Retake(x)
       \/ StartTemplateThread
       \/ SysmonCheck \/ SysmonSleep \/ (\E b \in BOOLEAN : SysmonWake(b)) \/ SysmonClear
       \/ TemplateWait \/ TemplateWake
       \/ \E m \in M : ThreadExit(m) \/ ThreadDone(m) \/ ThreadGone(m)
       \/ \E h \in Host : HostNext(h)
       \/ Destructor

Spec == Init /\ [][Next]_vars

(* Threads run on, and a goroutine that the world's stop preempts stops.    *)
(* Nothing is assumed of calls: a system call may never return, the host    *)
(* may never unload, sysmon may sleep its minute.  The clock runs: a call   *)
(* that never returns is met at the end of the five seconds.                *)
Fairness ==
    /\ WF_vars(Destructor /\ upc # "idle")
    /\ SF_vars(TimeOut)
    /\ \A m \in Worker :
         /\ WF_vars(gcwaiting /\ Stopm(m))
         /\ WF_vars(ParkCheck(m) \/ NoteSleep(m) \/ WakeCheck(m) \/ NetpollReturn(m)
                      \/ InSyscall(m) \/ TemplateStart(m))
    /\ \A m \in M : WF_vars(ThreadExit(m) \/ ThreadDone(m) \/ ThreadGone(m))
    /\ WF_vars(SysmonCheck \/ SysmonSleep \/ SysmonClear) /\ WF_vars(SysmonWake(TRUE))
    /\ WF_vars(TemplateWait) /\ WF_vars(TemplateWake)
    /\ \A h \in Host : WF_vars(HostStop(h)) /\ WF_vars(HostLeave(h))
FairSpec == Spec /\ Fairness
-----------------------------------------------------------------------------
TypeOK ==
    /\ st \in [M -> Alive \cup {"none", "queued", "dead"}]
    /\ note \in [M -> BOOLEAN]
    /\ idle \subseteq Worker
    /\ hasP \subseteq Worker \cup Host
    /\ gcwaiting \in BOOLEAN /\ unloading \in BOOLEAN
    /\ sysmonwait \in BOOLEAN /\ waiting \in BOOLEAN
    /\ allm \subseteq M /\ exited \subseteq M /\ listed \subseteq M
    /\ joining \in BOOLEAN
    /\ hst \in [Host -> {"new", "call", "want", "in", "leave", "back", "out"}]
    /\ inC \subseteq Host
    /\ upc \in Stopped \cup {"idle", "stopping", "refused"}
    /\ kept \in Seq(Span) /\ left \in 0 .. Len(kept)
    /\ mem \in Seq(Span) /\ at \in 0 .. Len(mem) + 1

(* Once the library is unmapped every thread the runtime created has ended, *)
(* detached or joined (forgoUnload waits until each one has really gone),   *)
(* and no host thread is in the Go code of a call, running or stopped in    *)
(* it.  One that is on its way in, before needm or exitsyscall clears       *)
(* isExtraInC, or on its way out, after cgocallbackg has set it, is not     *)
(* waited for: CallsOver.                                                   *)
NoneInside ==
    upc = "unmapped" => /\ \A m \in M : st[m] \notin Alive \cup {"queued"}
                        /\ \A h \in Host : hst[h] \notin {"in", "leave"}

(* forgo_unload.go:92-93: "A host thread that is inside a call into this    *)
(* library still has Go frames on its stack; the library cannot go away     *)
(* under it."  README.md:1211-1212: "No host thread may be inside a call    *)
(* into the library while it is being unloaded; that is a fatal error too." *)
(* Threads that CheckCalls takes for outside break it.                      *)
CallsOver == upc = "unmapped" => \A h \in Host : hst[h] \in {"new", "out"}

(* Goroutines are never resumed once the unload has stopped the world: no M *)
(* that comes back from a call, the poller or its note runs Go code.        *)
GoStays ==
    upc \in Stopped => /\ hasP = {}
                       /\ \A m \in M : st[m] \notin {"run", "enter"}

(* No note is woken twice, on which notewakeup throws: startm, which needs  *)
(* a P, finds an idle M's note clear, and whoever wakes sysmon or the       *)
(* template thread theirs, also while forgoWakeAll wakes them repeatedly.   *)
NoDoubleWake ==
    /\ PFree => \A m \in idle : ~note[m]
    /\ sysmonwait => ~note[Sysmon]
    /\ waiting => ~note[Template]

(* The destructor unmaps exactly what the runtime mapped and the host       *)
(* threads do not use any more, each address once (forgoMemRemove).         *)
UnmapsExact ==
    upc = "unmapped" =>
        /\ Cover(mem) = whole \ UNION {Bytes(kept[i]) : i \in DOMAIN kept}
        /\ Apart(mem)

(* An unload that has begun ends: it succeeds, or is refused for a call     *)
(* that did not return.  No thread sleeps through the wake-ups, and no      *)
(* thread that went back to C keeps the world from stopping.                *)
UnloadEnds == upc = "stopping" ~> upc \in Over
=============================================================================
