----------------------------- MODULE HotReload -----------------------------
(***************************************************************************)
(* forgo run --watch: recompiling on save and putting the new code into    *)
(* the running program.                                                    *)
(*                                                                         *)
(* The watcher polls the source tree; on a change it links the program     *)
(* against the record of what runs, at the next free place of the region   *)
(* the agent reserved, leaves the image and a request in the control       *)
(* directory, and waits up to 30 seconds for the answer.  The agent, a     *)
(* goroutine of the program, polls for requests; it copies the image into  *)
(* place, adds it to the runtime's modules, and with the world stopped     *)
(* redirects the entry of each changed function.                           *)
(*                                                                         *)
(* A place (slot) of the region holds one image; slot 0 is the program as  *)
(* it was started.  A function is what its body's version is; which        *)
(* functions a body calls does not change.  Packages that a reload adds,   *)
(* and their init, are left out.                                           *)
(***************************************************************************)
EXTENDS Integers, Sequences, FiniteSets

CONSTANTS
    F,          \* functions
    Root,       \* the one the runtime calls
    Calls,      \* the functions each function calls
    Ver,        \* versions of a body
    Broken,     \* versions that do not compile
    Args,       \* each version's argument frame size
    First,      \* the version of every function at first
    None,
    Slots,      \* images the reserved region has room for
    MaxEdits,   \* edits a behaviour may make
    Race        \* the races of Races that a run admits

Races == {"late"}

ASSUME ConstAssumption ==
    /\ IsFiniteSet(F) /\ Root \in F /\ Calls \in [F -> SUBSET F]
    /\ First \in Ver \ Broken /\ None \notin Ver
    /\ Broken \subseteq Ver /\ Args \in [Ver -> Nat]
    /\ Slots \in Nat /\ MaxEdits \in Nat
    /\ Race \subseteq Races

VARIABLES
    src,        \* the source tree
    edits,      \* edits made so far
    told,       \* what the watcher said of the last edit once it saw it: none, ok, err
    wpc,        \* where the watcher is
    seen,       \* its last snapshot of the tree's sizes and times: the edits it shows
    record,     \* w.record: the version of each function that runs
    gen,        \* w.gen
    nextBase,   \* w.nextBase, 0 when there is no agent
    req,        \* req-<gen> and img-<gen>: what each link produced
    request,    \* the request file, 0 when empty
    resp,       \* resp-<gen>
    apc,        \* where the agent is
    lastSeen,   \* the generation it has taken up
    mem,        \* the code in each slot
    module,     \* the slots in the runtime's module list
    jump,       \* the slot to which each function's entry leads, 0 for itself
    frames,     \* a goroutine's stack of bodies
    entry,      \* its program counter is in the first bytes of the last one
    built       \* the source trees that were built

edVars == <<src, edits>>
wVars == <<wpc, seen, record, gen, nextBase>>
ctlVars == <<req, request, resp>>
procVars == <<mem, module, jump>>
gVars == <<frames, entry>>
vars == <<edVars, told, wVars, ctlVars, apc, lastSeen, procVars, gVars, built>>

Gens == 1..MaxEdits
Empty == [f \in F |-> None]
NoReq == [base |-> 0, code |-> Empty, patches |-> {}, tree |-> Empty]

-----------------------------------------------------------------------------
(* The linker.                                                              *)

(* fgohotPin: the functions whose contents differ from what runs.           *)
Changed == {f \in F : record[f] # src[f]}

(* fgohotPatchFreshText: callers of a patched function are patched too,     *)
(* until nothing changes.                                                   *)
PatchedShallow(S) == S
Patched(S) ==
    LET p[n \in 0..Cardinality(F)] ==
          IF n = 0 THEN S
          ELSE LET q == p[n - 1] IN q \cup {g \in F : Calls[g] \cap q # {}}
    IN  p[Cardinality(F)]

Refused == \E f \in Changed : Args[record[f]] # Args[src[f]]

(* fgohotUnpinSectionRelative may lay out unchanged functions (extra) too,  *)
(* without redirecting them.                                                *)
HotLink(extra) ==
    [base |-> nextBase,
     code |-> [f \in F |-> IF f \in Patched(Changed) \cup extra THEN src[f] ELSE None],
     patches |-> Patched(Changed),
     tree |-> src]

-----------------------------------------------------------------------------
(* The user.                                                                *)

(* A file is saved.  What is saved before the first build has read the tree *)
(* is the tree it builds; the watcher's first snapshot is of the tree it    *)
(* finds once the program has been built, started and greeted.              *)
Edit(f, v) ==
    /\ edits < MaxEdits /\ v # src[f]
    /\ wpc # "build"
    /\ src' = [src EXCEPT ![f] = v]
    /\ edits' = edits + 1
    /\ told' = "none"
    /\ UNCHANGED <<wVars, ctlVars, apc, lastSeen, procVars, gVars, built>>

-----------------------------------------------------------------------------
(* The watcher: run and reload.                                             *)

(* The first build, and the program's start.                                *)
Start ==
    /\ wpc = "build"
    /\ \A f \in F : src[f] \notin Broken
    /\ wpc' = "start"
    /\ record' = src
    /\ UNCHANGED <<edVars, told, seen, gen, nextBase, ctlVars, apc, lastSeen,
                   procVars, gVars, built>>

(* handshake: the agent answers, or has failed to start or to answer in 10  *)
(* seconds.  That the record cannot be read or rewritten (correctASLR) is   *)
(* left out.                                                                *)
handshake(ok) ==
    /\ wpc = "start"
    /\ wpc' = "snapshot"
    /\ nextBase' = IF ok THEN 1 ELSE 0
    /\ apc' = IF ok THEN "poll" ELSE "none"
    /\ UNCHANGED <<edVars, told, seen, record, gen, ctlVars, lastSeen, procVars, gVars, built>>

Snapshot ==
    /\ wpc = "snapshot"
    /\ wpc' = "loop"
    /\ seen' = edits
    /\ UNCHANGED <<edVars, told, record, gen, nextBase, ctlVars, apc, lastSeen,
                   procVars, gVars, built>>

(* A tick finds the tree changed.                                           *)
Tick ==
    /\ wpc = "loop" /\ seen # edits
    /\ seen' = edits
    /\ IF nextBase = 0 THEN UNCHANGED <<wpc, gen>>
                       ELSE wpc' = "link" /\ gen' = gen + 1
    /\ UNCHANGED <<edVars, told, record, nextBase, ctlVars, apc, lastSeen,
                   procVars, gVars, built>>

(* What reload leaves of the snapshot once it returns.                      *)
SeenNow == edits
SeenAfter == seen

Return(verdict) ==
    /\ wpc' = "loop"
    /\ told' = IF seen = edits THEN verdict ELSE told
    /\ seen' = SeenAfter

(* The build fails, or the linker refuses the change, or there is no room.  *)
RoomAny == TRUE
Room == nextBase <= Slots

ReloadFails ==
    /\ wpc = "link"
    /\ (\E f \in F : src[f] \in Broken) \/ Refused \/ ~Room
    /\ Return("err")
    /\ UNCHANGED <<edVars, record, gen, nextBase, ctlVars, apc, lastSeen,
                   procVars, gVars, built>>

(* The image is linked; deliver writes it and empties the request file.     *)
deliver(extra) ==
    /\ wpc = "link"
    /\ (\A f \in F : src[f] \notin Broken) /\ ~Refused /\ Room
    /\ req' = [req EXCEPT ![gen] = HotLink(extra)]
    /\ built' = built \cup {src}
    /\ request' = 0
    /\ wpc' = "write"
    /\ UNCHANGED <<edVars, told, seen, record, gen, nextBase, resp, apc, lastSeen,
                   procVars, gVars>>

WriteRequest ==
    /\ wpc = "write"
    /\ request' = gen
    /\ wpc' = "wait"
    /\ UNCHANGED <<edVars, told, seen, record, gen, nextBase, req, resp, apc, lastSeen,
                   procVars, gVars, built>>

(* Only once the agent confirms does the record, and the base, move on.     *)
NextBaseSame(b) == b
NextBase(b) == b + 1

Confirmed ==
    /\ wpc = "wait" /\ resp[gen] = "ok"
    /\ record' = req[gen].tree
    /\ nextBase' = NextBase(nextBase)
    /\ Return("ok")
    /\ UNCHANGED <<edVars, gen, ctlVars, apc, lastSeen, procVars, gVars, built>>

Failed ==
    /\ wpc = "wait" /\ resp[gen] = "err"
    /\ Return("err")
    /\ UNCHANGED <<edVars, record, gen, nextBase, ctlVars, apc, lastSeen,
                   procVars, gVars, built>>

(* "The program did not answer": the request stays where it is.             *)
TimedOut ==
    /\ wpc = "wait" /\ resp[gen] = "none"
    /\ "late" \in Race \/ apc = "poll"
    /\ Return("err")
    /\ UNCHANGED <<edVars, record, gen, nextBase, ctlVars, apc, lastSeen,
                   procVars, gVars, built>>

-----------------------------------------------------------------------------
(* The agent: serve and apply.                                              *)

serve ==
    /\ apc = "poll" /\ request # 0 /\ request # lastSeen
    /\ "late" \in Race \/ wpc = "wait"
    /\ lastSeen' = request
    /\ apc' = "map"
    /\ UNCHANGED <<edVars, told, wVars, ctlVars, procVars, gVars, built>>

Answer(a) ==
    /\ resp' = [resp EXCEPT ![lastSeen] = a]
    /\ apc' = "poll"

(* commit fails and nothing is written.                                     *)
CommitFails ==
    /\ apc = "map"
    /\ Answer("err")
    /\ UNCHANGED <<edVars, told, wVars, req, request, lastSeen, procVars, gVars, built>>

(* commit and copyIn: the image is in place before anything looks at what   *)
(* was there.  protect or resolveImports may still fail.                    *)
CopyIn(ok) ==
    /\ apc = "map"
    /\ mem' = [mem EXCEPT ![req[lastSeen].base] = req[lastSeen].code]
    /\ IF ok THEN apc' = "add" /\ UNCHANGED resp ELSE Answer("err")
    /\ UNCHANGED <<edVars, told, wVars, req, request, lastSeen, module, jump, gVars, built>>

(* addModule refuses an image that overlaps a module it has.                *)
addModule ==
    LET b == req[lastSeen].base
    IN  /\ apc = "add"
        /\ IF b \in module
             THEN Answer("err") /\ UNCHANGED module
             ELSE apc' = "patch" /\ module' = module \cup {b} /\ UNCHANGED resp
        /\ UNCHANGED <<edVars, told, wVars, req, request, lastSeen, mem, jump, gVars, built>>

(* fgohotCheckStacks: a goroutine is in the bytes to overwrite.             *)
AtEntry ==
    /\ entry /\ frames # <<>>
    /\ frames[Len(frames)].slot = 0
    /\ frames[Len(frames)].f \in req[lastSeen].patches

(* fgohotPatch, with the world stopped: all entries are redirected or none. *)
(* That the OS refuses to change the protection of the program's own text   *)
(* is left out.                                                             *)
JumpsOne(r) == [f \in F |-> IF f \in r.patches /\ f # Root THEN r.base ELSE jump[f]]
Jumps(r) == [f \in F |-> IF f \in r.patches THEN r.base ELSE jump[f]]

patchText ==
    /\ apc = "patch" /\ ~AtEntry
    /\ jump' = Jumps(req[lastSeen])
    /\ Answer("ok")
    /\ UNCHANGED <<edVars, told, wVars, req, request, lastSeen, mem, module, gVars, built>>

PatchRefused ==
    /\ apc = "patch" /\ AtEntry
    /\ Answer("err")
    /\ UNCHANGED <<edVars, told, wVars, req, request, lastSeen, procVars, gVars, built>>

-----------------------------------------------------------------------------
(* The program: one goroutine calls and returns.                            *)

(* A call of c from code in slot s goes to the copy of c in the same image, *)
(* if it has one, and else to c's entry in the program as it was started.   *)
Target(s, c) == [slot |-> IF s # 0 /\ mem[s][c] # None THEN s ELSE jump[c], f |-> c]

Running == wpc \notin {"build", "done"}

Call(c) ==
    /\ Running /\ ~entry
    /\ IF frames = <<>> THEN c = Root ELSE c \in Calls[frames[Len(frames)].f]
    /\ frames' = Append(frames, Target(IF frames = <<>> THEN 0 ELSE frames[Len(frames)].slot, c))
    /\ entry' = TRUE
    /\ UNCHANGED <<edVars, told, wVars, ctlVars, apc, lastSeen, procVars, built>>

Step ==
    /\ Running /\ entry
    /\ entry' = FALSE
    /\ UNCHANGED <<edVars, told, wVars, ctlVars, apc, lastSeen, procVars, frames, built>>

Ret ==
    /\ Running /\ ~entry /\ frames # <<>>
    /\ frames' = SubSeq(frames, 1, Len(frames) - 1)
    /\ UNCHANGED <<edVars, told, wVars, ctlVars, apc, lastSeen, procVars, entry, built>>

(* The program exits, and the watcher with it.                              *)
Exit ==
    /\ wpc = "loop" /\ apc \in {"none", "poll"}
    /\ wpc' = "done"
    /\ apc' = "none"
    /\ UNCHANGED <<edVars, told, seen, record, gen, nextBase, ctlVars, lastSeen,
                   procVars, gVars, built>>

-----------------------------------------------------------------------------
Init ==
    /\ src = [f \in F |-> First] /\ edits = 0 /\ told = "none"
    /\ wpc = "build" /\ seen = 0 /\ record = Empty
    /\ gen = 0 /\ nextBase = 0
    /\ req = [g \in Gens |-> NoReq] /\ request = 0
    /\ resp = [g \in Gens |-> "none"]
    /\ apc = "none" /\ lastSeen = 0
    /\ mem = [s \in 0..Slots |-> IF s = 0 THEN src ELSE Empty]
    /\ module = {0} /\ jump = [f \in F |-> 0]
    /\ frames = <<>> /\ entry = FALSE
    /\ built = {src}

Watcher ==
    \/ Start \/ Snapshot \/ Tick \/ ReloadFails \/ WriteRequest \/ Confirmed
    \/ Failed \/ TimedOut
    \/ \E ok \in BOOLEAN : handshake(ok)
    \/ \E extra \in SUBSET (F \ Changed) : deliver(extra)

Agent ==
    \/ serve \/ CommitFails \/ addModule \/ patchText \/ PatchRefused
    \/ \E ok \in BOOLEAN : CopyIn(ok)

Program == Step \/ Ret \/ \E c \in F : Call(c)

Next ==
    \/ \E f \in F, v \in Ver : Edit(f, v)
    \/ Watcher \/ Agent \/ Program \/ Exit

Spec == Init /\ [][Next]_vars

(* The watcher's loop and the agent's goroutine run on.                     *)
FairSpec == Spec /\ WF_vars(Watcher) /\ WF_vars(Agent)

-----------------------------------------------------------------------------
(* Properties.                                                              *)

Tree == [F -> Ver]
Image == [F -> Ver \cup {None}]

(* The model's variables have the types the code gives them.                *)
TypeOK ==
    /\ src \in Tree /\ edits \in 0..MaxEdits /\ told \in {"none", "ok", "err"}
    /\ wpc \in {"build", "start", "snapshot", "loop", "link", "write", "wait", "done"}
    /\ seen \in 0..MaxEdits /\ record \in Image
    /\ gen \in 0..MaxEdits /\ nextBase \in 0..(Slots + 1)
    /\ req \in [Gens -> [base : 0..Slots, code : Image, patches : SUBSET F, tree : Image]]
    /\ request \in 0..MaxEdits /\ resp \in [Gens -> {"none", "ok", "err"}]
    /\ apc \in {"none", "poll", "map", "add", "patch"} /\ lastSeen \in 0..MaxEdits
    /\ mem \in [0..Slots -> Image] /\ module \subseteq 0..Slots /\ jump \in [F -> 0..Slots]
    /\ frames \in Seq([slot : 0..Slots, f : F]) /\ entry \in BOOLEAN
    /\ built \subseteq Tree

(* The bodies that a call through an entry leads to, directly or through    *)
(* the calls they make.  A call that leaves an image goes through an entry, *)
(* so as many rounds as there are functions find them all.                  *)
Bodies ==
    LET b[n \in 0..Cardinality(F)] ==
          IF n = 0 THEN {Target(0, f) : f \in F}
          ELSE LET q == b[n - 1]
               IN  q \cup UNION {{Target(x.slot, c) : c \in Calls[x.f]} : x \in q}
    IN  b[Cardinality(F)]

(* When a reload is confirmed every call of a function through its entry,   *)
(* and every call that makes in turn, runs the version the record names:    *)
(* what the next link compares the sources with is what runs.               *)
CallsCurrent ==
    wpc = "loop" /\ apc = "poll" =>
        \A b \in Bodies : mem[b.slot][b.f] = record[b.f]

(* Code that may still run is never overwritten: no step changes a slot     *)
(* that an entry leads to or that the goroutine is executing in.            *)
InUse == {0} \cup {jump[f] : f \in F} \cup {frames[i].slot : i \in 1..Len(frames)}
CodeIntact == [][Running => \A s \in InUse : mem'[s] = mem[s]]_vars

(* A call through an entry runs the code of a tree that was built, whole.   *)
Swap == INSTANCE HotSwap WITH tree <- built,
                              code <- [f \in F |-> mem[jump[f]][f]]
Swaps == Swap!Spec

(* An edit made once the watcher's loop has its first snapshot, also one    *)
(* made while a reload is under way, is applied, or the user told it was    *)
(* not.                                                                     *)
EditsApplied ==
    (Running /\ wpc \notin {"start", "snapshot"} /\ nextBase # 0 /\ seen # edits)
        ~> (record = src \/ told = "err" \/ wpc = "done")
=============================================================================
