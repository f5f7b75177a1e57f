# Verification of forgo

Forgo is a fork of Go. It adds memory that is reference counted beside the
garbage collector's (`nogc`), reloading of code into a running program
(`forgo run --watch`), Go libraries that a C host can unload, several Go
runtimes in one process, and a handful of language constructs. This directory
holds TLA+ models of all but the language constructs, the TLC configurations that
check them, and TLAPS proofs. Paths below are relative to the repository root, which `PROJECT.json`
calls `src/`; `forgo_rc.go` is `src/runtime/forgo_rc.go`.

## The system's parts

| part | source | state | operations | hard behaviours | what makes it correct | here |
|---|---|---|---|---|---|---|
| counting and hand-off | `src/runtime/forgo_rc.go`, `src/fgo/nogc` | rc words, `fgoArena.state`, `fgoEsc` (table of records, cycle stamps), weak handles | count, release, `fgoRCHandoff`, `fgoEscMark`, `fgoMarkCounted`, `fgoEscSweeper`, `fgoMakeStrong` | goroutines, marker and sweeper interleave without a common lock; cycle numbers wrap | nothing reachable is freed; garbage is freed; counts and records agree with the references | `FgoEsc`, `FgoEscProofs` |
| buffers of nogc objects | `src/runtime/forgo_rc.go`, and what `src/cmd/compile/internal/ssa/forgo_rc.go` and `walk/forgo_rc.go` emit | string, slice and pointer-slice fields, buffers, the frame's owned slots | store, read, take apart, copy out, hand off, release on panic | views outlive hand-offs; a panic between two steps | one owner per buffer; nothing readable is freed; nothing is left behind | `FgoBuf`, `FgoBufProofs` |
| tagged fields | `src/runtime/forgo_rc_tag.go` | shared objects, special records, `fgoTag.pending` | `fgoRCStoreTag`, `fgoTagStore`, `fgoTagLoad`, `fgoTagDead`, `fgoTagDrain` | goroutines share counted objects; the GC's sweeper drops references | atomic counts exactly where needed; freed at the last reference | `FgoShare`, `FgoShareProofs` |
| nogc allocator | `src/runtime/forgo_rc.go` | per-M free lists, spare batches, chunks | allocate, free, refill, spare, reuse in place | freed on another M; unlocked look at shared state | no block handed out twice or lost | `FgoAlloc`, `FgoAllocProofs` |
| hot reload | `src/cmd/go/internal/run/forgo_watch.go`, `src/runtime/fgohot`, `src/runtime/forgo_hot.go`, `src/cmd/link/internal/ld/forgo_hot.go` | control directory, symbol record, region, module list, function entries | build, link against the record, deliver, map, add module, patch | two processes talk through files; timeouts; goroutines run in the code that changes | calls run the code the record names; code in use stays; edits are applied | `HotReload`, `HotSwap`, `HotReloadProofs` |
| unloading | `src/runtime/forgo_unload*.go`, `forgo_stw.go`, `cgo/gcc_forgo_unload_unix.c` | `forgoUnloading`, Ms and their notes, `forgo_threads`, `forgoMem` ranges | `forgoUnload`, Ms leaving, joining, unmapping | every M must notice and exit, wherever it is; host threads may be inside | no thread runs in unmapped code; exactly the memory nobody uses is returned; it ends | `Unload`, `ForgoMem`, `UnloadProofs` |
| several runtimes | `src/runtime/forgo_multiruntime*.go`, `forgo_unload_unix.go`, `signal_unix.go` | chain of signal handlers, stubs | load, enable, disable, ignore, unload, forward | any order of them in any runtime | a signal reaches the runtimes it belongs to and no unmapped code | `SigChain`, `SigChainProofs` |
| compiler: counting pass | `src/cmd/compile/internal/ssa/forgo_rc.go`, `fgorc`, ... | none across functions | SSA to SSA | | | not modelled |
| front end, compile-time evaluation | `src/cmd/compile/internal/noder/forgo_*.go`, `forgo/` | none | syntax rewriting, interpretation | | | not modelled |
| installation, editors, test hosts | `install/`, `forgopls/`, `editors/`, `pluginval/` | none | I/O | | | not modelled |

How they meet: compiled nogc code calls the runtime's counting entry points. A
pointer that leaves nogc code passes `fgoRCHandoff`; from then on the GC's
marking calls into `fgoEsc`, and mark termination wakes `fgoEscSweeper`. Tagged
fields hand off too, and the GC's span sweeper calls back into
`forgo_rc_tag.go`. Both end in the allocator's free lists. The watcher and the
program it runs share only the control directory; inside the program the agent
goroutine calls the runtime, which stops the world to patch. An unload stops the
world too, makes every thread of its runtime leave through `forgoCheckExit`, takes
its handlers out of the signal chain that all runtimes of the process share, or
leaves a stub in it, and unmaps what `forgoMem` lists.

`PROJECT.json` lists what is hard to test in this code under `hazards`, each at
its line, with the properties that would catch it going wrong.

## Modules

The `MC` modules only add the symmetry sets, the call graph or the address ranges
that the configurations use. The modules with `Proofs` in their names and `Lemmas` hold
theorems; see Proofs.

### FgoEsc: counting and the hand-off to the GC

State: per object its state (`st`: none, counted, handed), the `fgoHeld` bit
(`held`) and the rest of the rc word (`cnt`), its pointer field (`fld`); counted
locals (`loc`), a traced local per goroutine (`gl`), a traced global (`glob`) and
a weak handle (`weak`); `rec`, `mark`, `tabNil`, `lock` are `fgoEsc`; `cyc`,
`marking`, `grey`, `roots` the GC cycle; `target`, `swept`, `spc`, `scyc`, `todo`,
`dropped` the sweeper.

- Nogc code: `Construct`, `DropLocal`, `LoadField`, `TakeTraced`, `Escape`,
  `fgoRCStoreGC`. `fgoRCDec` includes the release of everything that dies with
  the object, as `fgoRCRelease` does before it returns.
- A hand-off takes several steps (`HandObj`, `HandField`, `HandDec`, then the
  store it is for), since only `fgoHandOne` holds `fgoEsc.lock`.
- Ordinary code moves traced pointers with the write barrier (`fgoEscMark` of
  the old and the new value).
- The GC: `gcStart`, one root job per stack, one for globals, `fgoMarkCounted`
  record by record under the lock, `ScanObj`, `gcMarkTermination`.
- `fgoEscSweeper`: record by record under the lock, the possible rebuild of the
  table, then freeing without the lock, beside the next cycle.

Objects have one pointer field; buffers are FgoBuf's, mixed objects are left out. Root
jobs of upstream Go are atomic: a stack is scanned with its goroutine stopped.

### FgoBuf: strings, slices and pointer slices in nogc objects

State: `mem` is the nogc memory (per object its state, count and field, per buffer
its state and elements, and for a handed-off object the field as the GC sees it);
the frame of one goroutine has slots that own references (`loc`), a reuse token
(`tok`), a copied string (`dup`) or a new slice (`made`) on its way to a store, and a
view into a buffer (`view`); `glob` and `out` are what GC memory points to.

- Stores: `fgoPtrsMake` builds a slice, element by element (`fgoPtrsAppend`), as the
  compiler's `fgoBuildPtrSlice` does; `fgoPtrsPut` (with `Tainted`) stores it. They are two
  steps, since other code runs, or panics, in between. `fgoStrSet`, and `fgoStrDup` / `StrPutDup`
  where the compiler copies at the read. Scalar slices follow the same code as strings.
- Reads: `ReadField` to `EndView` is what the compiler lets nogc code do with a
  field, `LoadElem` and `fgoPtrsTake` get elements, `Clone` is a read that outlives
  the frame. `LoadElem` always counts; the compiler leaves the pair of count changes
  out where the holder surely lives on.
- `DropRef`, `fgoRCDropReuse`, `fgoRCNewAt`, `Escape`, and `fgoRCReleaseFrame` when a
  panic discards the frame. It knows of owned pointers, tokens and copied strings, and
  not of a slice under way (`made`): a panic then is the race `build` below. Each is one
  step: counted objects belong to one goroutine.
- The GC: `GcReach` is what a whole cycle marks, `SweepObj` and `SweepBuf` free the
  rest; FgoEsc models the cycle step by step.

The work lists of `fgoRCRelease`, `fgoRCHandoff` and `fgoEscReach` are modelled by what
they have collected when they end, the least set closed under what a round adds
(`Dying`, `Reach`, `Traced`).

A field holds either pointers or data; a large buffer (`fgoRCMaxSize`) has memory of
its own and is never given to the GC (`leaked`, as the comment on `fgoHandBuf` says).
Slices longer than `fgoRCMaxSize`, here in elements, are in one; strings may be in
either. `MaxLen` bounds the length of slices in a run, not in the proofs. One slice is
under way at a time; the code may nest the building of several.
A GC heap pointer in a slice under way sits in memory that the GC does not scan until the
store; the model has no state of the GC heap's own objects and says nothing of it.

### FgoShare: tagged fields and shared objects

Adds the shared state, tagged fields of GC heap objects, and their special
records (`watched`). `fgoTagDrain` begins each store, followed by `fgoRCStoreTag`
/ `StoreTagHeap` (nogc code) or `fgoTagStore` (other code); drops are separate
steps (`dec`, `DropNext`) because other goroutines run between them. `fgoTagLoad`
and `HandOne` ... `HandDone` are the hand-off of what other code reads.
`fgoTagDead` is the GC freeing the holder; `fgoEscFree` stands for FgoEsc's whole
sweep. The program is free of data races on the tagged fields themselves
(`MayRead`, `MayWrite`).

### FgoAlloc: the allocator

Sizes are units of `fgoRCAlign`; addresses are units of the arena. Free blocks
are linked through `link` (their rc words), as in the code, so list corruption
shows. `AllocCached` stops where `fgoRCRefill` looks at the spare batches without
the lock; `fgoRCRefill` goes on under it. An M may exit (`mexit`); it then leaves `allm`,
and nothing looks at its lists or its counter again. `Stranded` is the memory on those
lists, `fgoRCStats` the sum of the counters of the Ms that are left and of `fgoRC`, so
`NoLeak` says that no other memory is lost, and `LiveExact` that what `nogc.Live` reports
is wrong by what the exited Ms' counters held and by no more. What the documentation of
`nogc.Live` and the comment on `fgoRCKeep` say, `LiveReported` and `NotStranded`, does
not hold; see below.

### HotReload and HotSwap

The watcher (`wpc`), the agent (`apc`), the control files (`req`, `request`,
`resp`), the code in each slot of the region (`mem`), the entries (`jump`) and one
goroutine with its stack of bodies (`frames`), which may be at the first bytes of
a function (`entry`). `HotLink` is the linker's choice of what to lay out and
redirect. `seen` is the number of edits the watcher's snapshot shows, since
snapshots compare sizes and modification times, not contents. `told` records
whether the user has been told about the last edit.

`HotSwap` is the promise to the user: the program's code is that of one source
tree that was built, and changes from one to the next at once. `HotReload`
implements it (`Swaps`), with the code a call through the entries reaches as the
abstract program's code.

Left out: packages that a reload adds, changed types and globals, segment layout,
import resolution, failures to read or rewrite the record file, and the OS
refusing to change the protection of the program's own text.

### SigChain: the signal handlers of several runtimes

Two signals stand for the two kinds: one that `Notify` asks for and the one a
runtime preempts its own threads with. `top` is the handler the kernel calls, `fwd`
what each runtime recorded below it (`fwdSig`), `handler`, `below`, `published` and
`stubbed` the variables of `forgo_multiruntime_unix.go` and `forgo_unload_unix.go`,
`ent` the entries of the stubs. `Load`, `SigEnable` (three steps: the kernel's handler
is read, replaced, then recorded), `SigDisable`, `SigIgnore`, `Unload`, and a C library
that puts a forwarding handler on top (`HostInstall`). What a signal does is computed
by walking the chain (`Deliver`, `Preempt`), through trampolines, stubs of unloaded
runtimes and the mark on copies that are handed down. Left out: SIGPROF, synchronous
signals, Windows.

### Unload and ForgoMem

Every thread has a place (`st`): workers run, park (`mPark` in three steps, around
each of which the unload may come), block in the poller or in a call; sysmon and the
template thread sleep on notes of their own. `note`, `idle`, `hasP`, `allm`, `exited`,
`listed`, `joining` are the runtime's variables of those names. The destructor (`upc`)
stops the world, with `forgoStopSyscallPs`, checks for calls in progress, sets
`forgoUnloading`, wakes everybody again and again, counts, gives up after five seconds,
joins and unmaps. A thread whose note is woken twice would throw; `NoDoubleWake` says
nobody does.

Host threads come from C and go back at any time. A thread is in the library from
`HostFirstCall` or `HostCall` on, and out of it only with `HostGone`, after the rest of
`reentersyscall`, `cgocallbackg`, `cgocallback`, `crosscall2` and the exported function's
wrapper. The destructor sees less of that: `isExtraInC` (`inC`), which `CheckCalls` looks
at, is cleared by `Needm` on a first call, by `HostGetP` on later ones, and set again by
`HostReturn`. `NoneInside` therefore claims of host threads that none runs, or is stopped
in, the Go code of a call (`in`, `leave`); that none is in the library at all is
`CallsOver`, which does not hold; see below.

`ForgoMem` is the list of mapped ranges and `forgoMemRemove`'s walk of it, step by
step: the entry at `i` is dropped, or split, while the list is walked.

Left out: Windows, unloading at process exit, thread-local keys, the poller's file
descriptors.

## Runs

Passing runs. Distinct states are for the configuration in the repository.

| run | instance | checks | states |
|---|---|---|---|
| `esc_safety` | 2 objects, 1 goroutine with 2 counted and a traced local, 2 cycles | `NoUseAfterFree`, `CountsExact`, `RecordsExact` | 1.5 M |
| `esc_liveness` | 1 object, all escapes, unbounded cycles modulo 8, fairness | `TypeOK`, `NoUseAfterFree`, `WeakCleared`, `GarbageFreed` | 0.4 M |
| `buf_safety` | 2 objects, 2 buffers, 2 owned slots, slices of up to 2 elements, those of 2 in large buffers | `TypeOK`, `RefsExact`, `NoDangling`, `NothingLeft` | 1.1 M |
| `share_safety` | 3 objects, 2 goroutines, a tagged field, a GC heap object | `TypeOK`, `CountsExact`, `FreedAtLast`, `SharedClosed`, `MarksExact` | 0.3 M |
| `alloc_safety` | 2 Ms, a cached and a larger class, 2 chunks of 3 units, one spare batch, counters up to 2 from 0 | `TypeOK`, `ListsExact`, `Disjoint`, `NoLeak`, `LiveExact` | 1.1 M |
| `hot` | 2 functions; versions that compile, change the frame or do not compile; 3 edits, room for 2 images, fairness | `TypeOK`, `CallsCurrent`, `CodeIntact`, `Swaps`, `EditsApplied` | 0.5 M |
| `sig_chain` | 3 runtimes, a host handler, a forwarding C handler | `TypeOK`, `DeliveryEnds`, `AllHear`, `MarkedStay`, `GivenBack`, `PreemptArrives`, `HandlersChained`, `StubsLive` | 0.6 M |
| `unload` | 2 workers, sysmon, the template thread, a host thread, 2 Ps; 2 range lists, 4 sets of signal stacks; fairness | `TypeOK`, `NoneInside`, `GoStays`, `NoDoubleWake`, `UnmapsExact`, `UnloadEnds` | 1.0 M |

Why the bounds are enough for what the properties are about. Two objects make
chains, cycles and an object held only through another; the hand-off and the
cycle's actors interleave fully even with one goroutine, since marker, sweeper
and goroutine are separate actors. Two cycles let a sweep run beside the next
mark phase. `CycMod = 8` makes cycle numbers wrap in `esc_liveness`; `MaxLag`
bounds how far the sweeper falls behind the GC, and the code's comparison needs
the lag to stay below half the modulus (2^31 cycles). A third object in
`share_safety` lets a shared object's field be replaced. One spare batch and a
keep of one unit make batches fill and merge; chunks of three units with blocks
of one and two make the rest of a chunk be given up. Room for two images and three
edits give code of three generations and a full region. Two buffers let one be
replaced by another while a view of it or a copy is under way, and slices of two hold
an object twice. Counters up to two from 0 (`MaxLive`) let an M free what another
allocated and more. Three runtimes put one below, one above and one in the middle that
goes. In `unload` two workers are one that blocks and one that is started meanwhile;
the range lists and stacks make `forgoMemRemove` drop the first and the last entry,
cut at both ends and split.

Deadlock is not checked in the runs with `CHECK_DEADLOCK FALSE`: their bounds
(cycles, chunks, edits) or the program's end really stop the system.

Runs that TLC must find violated, each a finding of `PROJECT.json`:

| run | property | what the code does |
|---|---|---|
| `esc_count` | `NoUseAfterFree` | counts change around `fgoMarkCounted`'s one look at them, and a hand-off stamps an object without scanning it; a reachable object is condemned |
| `share_handoff` | `LocalsCounted` | a hand-off of a shared object is not atomic against stores into it and other hand-offs of it |
| `hot_late` | `CodeIntact` | a request the watcher gave up on is applied later, and the next reload overwrites it |
| `unload_join` | `NoneInside` | a thread that is done before the join begins detaches itself; the library is unmapped while it is still in it |

### The races that passing runs leave out

The constant `Race` of a module names orders of steps, or uses, after which the
module's properties fail. A passing run has `Race = {}`: it shows that the protocol is
right but for them. Those of the violation runs:

- `uncount`: a counted reference to an unreached object is dropped while
  `fgoMarkCounted` has yet to look at it; `capture`: nogc code puts an unreached
  object that `fgoMarkCounted` has passed into a new counted object (`esc_count`);
- `handoffs`, `mutate`: a shared object is handed off twice at once, or stored
  into in the middle of its hand-off (`share_handoff`);
- `late`: the agent takes up a request the watcher gave up on (`hot_late`);
- `detach`: a thread that detaches itself before the join (`unload_join`).

The others have no run of their own; adding the name to `Race` in the module's
configuration shows a trace, sometimes of another property that fails as well:

- `rebuild` (FgoEsc, `NoUseAfterFree`): when most slots of a table of more than 1024 are
  deleted, the sweeper rebuilds `fgoEsc.tab`, which is nil meanwhile (`forgo_rc.go:1364`).
  The next cycle may be marking: what `fgoEscMark` looks up then is not found, the mark is
  lost, and the sweeper condemns a reachable object. The model rebuilds a table of any size.
- `heapfirst` (FgoShare, `FreedAtLast`): nogc code stores a GC heap pointer into an empty
  tagged field (`forgo_rc_tag.go:116`), which then never gets its special record, since
  `fgoTagPut` adds one only over nil (`:152`). What it holds later is not released with the
  holder, though `README.md:745-746` says so.
- `heapnogc` (FgoShare, `FreedAtLast`): nogc code stores a GC heap pointer over a nogc object
  (`forgo_rc_tag.go:116`), whose reference is then never dropped.
- `build` (FgoBuf, `RefsExact`, `NothingLeft`): the compiler builds a slice of pointers by calls of
  `fgoPtrsMake` and `fgoPtrsAppend1`/`N` (`walk/forgo_rc.go:122-136`), and stores it by a call
  of its own. In between come the nil check of the object (`ssagen/forgo_rc.go:74`, `:151`) and
  the later fields of a literal, which may panic. No shadow list has the slice, so
  `fgoRCReleaseFrame` leaves the buffer and its elements' counts for ever, though
  `README.md:820-823` and the comment at `forgo_rc.go:1909-1918` say that panics release what
  unwound frames owned.
- `cycle` (FgoBuf, `NothingLeft`): `types/forgo_rc.go:66-69` says nogc code hands the
  object to the GC before it assigns a recursive field, a slice of pointers too, and
  `README.md:857-858` that a cycle goes through the GC. Only pointer fields are stored that
  way (`ssa/forgo_rc.go:449`); a slice field is stored by `fgoPtrsPut`
  (`ssagen/forgo_rc.go:78`), which hands off only for tainted slices.
  `t.Kids = append(t.Kids, t)` keeps `t` for ever.
- `large` (FgoBuf, `NoDangling`): a buffer above `fgoRCMaxSize` lies outside the arena,
  and `fgoStrClone`, `fgoSliceClone` and `fgoPtrsClone` (`forgo_rc.go:1624`, `:1702`, `:1796`)
  return what lies outside it uncopied, though `README.md:829-832` says the read copies
  onto the GC heap. The buffer is freed with its object. The GC does not scan the
  elements of such a buffer after a hand-off either, though views stay valid (`:1025`).
  Without this no buffer gets into GC memory: `NoDangling` then says nothing of `out`.
- `overwrite` (FgoBuf, `NoDangling`): a store frees the field's old buffer
  (`forgo_rc.go:1614`) while a view of it is in use; the object is alive, its buffer is not.
- `reset` (SigChain, `AllHear`; with an unload, `DeliveryEnds`): `forgoSigKeepChained`
  looks for other handlers only when this runtime installed one
  (`forgo_multiruntime_unix.go:184`); `signal.Reset()` in a runtime that never called
  `Notify` puts back what it found when it was loaded and takes the signal away from
  the runtimes above, which the comment at `:36-39` says no longer happens.
- `ignore` (SigChain, `HandlersChained`): `sigignore` replaces the whole chain but
  clears only its own runtime's record; the others still think they are in it.
- `stub` (SigChain, `AllHear`): `Notify` on top of an unloaded runtime's stub does not
  see the runtime below the stub, which loses the signal.
- `enable` (SigChain, `AllHear`, `DeliveryEnds`): two runtimes run `Notify` at once; no
  lock is shared between them.

Passing runs and theorems say nothing of what happens after these. Which theorems need the
restriction is said with each below; the type invariants of all modules but FgoBuf are proved
with every set of races.

### What modules state and the code does not keep

Three sentences of the code's texts are stated as formulas and violated with `Race = {}`, beside
the properties that the passing runs check. Named as `INVARIANT` (`NotStranded` as `PROPERTY`)
in the module's configuration each shows a trace:

- `CallsOver` (Unload): the comment at `forgo_unload.go:92-93` and `README.md:1211-1212` say that
  no host thread is inside a call when the library goes; an unload that finds one is a fatal
  error. `isExtraInC` is still set before `needm` clears it (`proc.go:2467`), or, on a later call,
  before `exitsyscall` has a P (`cgocall.go:349-353`), and is set again from `cgocall.go:373` on.
  The unload does not see a thread in these stretches of the library's code, and unmaps it.
- `LiveReported` (FgoAlloc): `nogc.go:89-90` says `Live` reports how many objects and string
  buffers are allocated and not yet freed. `fgoRCStats` sums over `allm`, which an M that exits
  leaves (`proc.go:2057-2062`) with all that it had counted, as the comment at
  `forgo_rc.go:1846-1847` says.
- `NotStranded` (FgoAlloc): `forgo_rc.go:149-152` says memory freed on one M is not stranded
  there while another M carves new chunks. `mexit` does not look at the free lists of an M
  that exits, nor at what is left of its chunk.

### Other places where code and text differ

Met while modelling, described here and not stated in a module:

- `forgo_rc.go:153-154` says no M holds much more than `fgoRCKeep` bytes of free
  memory of a class. When the spare stack is full, lists are joined to its top
  batch (`:393`), which grows without bound and goes to one M whole.
- `fgohot.go:38` says each reload consumes a fresh slice. The image is added to
  the module list before `patchText` may refuse; the watcher then links the retry
  at the same place, and `addModule` refuses it as overlapping.
- `forgo_watch.go:22-23` says the next call runs the new code. A frame that runs in
  an image of an earlier reload calls that image's copies for as long as it lives;
  `CallsCurrent` is therefore about calls through the entries.
- `forgo_watch.go:14-15` says every change links again. A file saved between the
  first build and the first snapshot (`:201`) is in neither the program nor the
  watcher's difference; `EditsApplied` is therefore about later edits.
- `forgo_watch.go:192` says the program will not reload after a failed handshake;
  when `correctASLR` failed, `nextBase` is set and it does.

### Fairness

`FgoEsc`'s `FairSpec` assumes that cycles go on being started (sysmon forces one
when none ran for two minutes), that the GC's workers and the sweeper's goroutine
are scheduled, and that a goroutine inside a hand-off runs on. Nothing is assumed
of the program: it may stop, or allocate and hand off for ever. `HotReload`'s
assumes that the watcher's loop and the agent's goroutine run on; the user and the
program may stop at any point. `Unload`'s assumes that a destructor that has begun, and
the runtime's threads once they are runnable, are scheduled by the OS (weak fairness of
each), that a goroutine reaches a preemption point when the world stops, and that the
clock runs: the time-out is strongly fair because between two looks at it the destructor
wakes and counts. Nothing is assumed of system calls, C code or the host.

## Proofs

Every theorem is of the whole specification, for every value of the constants that the
module's assumptions allow, checked by TLAPS down to the last leaf. All invariants that the
passing runs check are proved, under the restriction the table names. Each module's inductive invariant is a conjunction of named
parts, defined before the lemmas about it; TLC finds it true of the configurations above.
There is one lemma per action, or group of actions that disturb the same parts.

| module | theorems (property) | races | inductive invariant |
|---|---|---|---|
| `FgoEscProofs` | `TypeCorrect` (`TypeOK`), `RecordsAgree` (`RecordsExact`); `Safe` (`NoUseAfterFree`), `CountsAgree` (`CountsExact`), `WeakNeverDangles` (`WeakCleared`) | any; none | `RecInv`; `SafeInv` |
| `FgoBufProofs` | `BufTypes` (`TypeOK`), `CountsExact` (`RefsExact`), `NothingDangles` (`NoDangling`); `FrameLeavesNothing` (`NothingLeft`) | not `large`, `overwrite`, `build`; none | `BufInv`; and `Acyclic` |
| `FgoAllocProofs` | `TypeCorrect` (`TypeOK`), `ListsTrue` (`ListsExact`), `HandedOutOnce` (`Disjoint`), `NothingLost` (`NoLeak`), `LiveTrue` (`LiveExact`) | has none | `AllocInv` |
| `HotReloadProofs` | `TypeCorrect` (`TypeOK`); `CodeNeverOverwritten` (`CodeIntact`), `RecordRuns` (`CallsCurrent`), `SwapsWhole` (`Swaps`) | any; not `late` | `ReloadInv` |
| `UnloadProofs` | `TypeCorrect` (`TypeOK`), `WorldStaysStopped` (`GoStays`), `NotesWokenOnce` (`NoDoubleWake`), `UnmapsTheRest` (`UnmapsExact`); `NobodyInside` (`NoneInside`) | any; not `detach` | `ThreadInv`, `HostExact`, `LifeExact`, `WalkExact` |
| `SigChainProofs` | `TypeCorrect` (`TypeOK`); `NoDeadStub` (`StubsLive`), `WalksEnd` (`DeliveryEnds`), `HostSpared` (`MarkedStay`), `SignalGivenBack` (`GivenBack`), `PreemptionArrives` (`PreemptArrives`), `RecordsChain` (`HandlersChained`); `EveryoneHears` (`AllHear`) | any; not `reset`, `ignore`, `enable`; none | `ChainInv`; and `AboveExact` |
| `FgoShareProofs` | `TypeCorrect` (`TypeOK`); `CountsAgree` (`CountsExact`), `FreedWithLast` (`FreedAtLast`), `SharedStaysClosed` (`SharedClosed`), `MarksAgree` (`MarksExact`) | any; none | `TypeInv`; `ShareInv` |

Where a race is excluded, the property is false with it: the violation runs and the list of
races above show how.

**Records of the hand-off** (`FgoEscProofs`, its first part). `RecordsExact` alone is not inductive: the
sweeper condemns by the rc word alone, and an object that is not handed off but has the
`fgoHeld` bit set would be condemned. `RecInv` adds that only handed-off objects have the
bit. A release frees counted objects, which have no record (`RecDec`); a hand-off sets bit
and record together (`RecHand`); the sweeper clears both before it frees (`RecSweeper`).

**Memory safety of the hand-off** (`FgoEscProofs`, its second part), for any number of objects, goroutines
and locals. `SafeInv` has four parts.

- `CyclesExact` speaks of cycle numbers by their age, since they wrap: the sweeper's
  target is the last cycle to end, and no stamp is older than the last sweep that ended.
  With that a record the sweeper condemns was reached neither by the last cycle nor by
  the one under way (`CondemnedOld`), as long as the sweeper's lag stays below half the
  modulus, which `ConstAssumption` says.
- `PhasesExact` says who holds `fgoEsc.lock` and what only happens during a cycle.
- `RefInv` is about the program's references. What it refers to is counted, or was reached
  by the last cycle to end or the one under way (`RefsGood`). An owner that the program does
  not have (`OwnExact`) gives each counted object, and what a hand-off has handed off so far,
  to one goroutine: no other goroutine and no traced reference sees it, which is why a hand-off
  need not be atomic. `CountSum` is `CountsExact` by kinds of reference; by it, what goes with an
  object in `fgoRCDec` is a chain of objects that only the one before refers to (`DyingChain`).
- `Tricolor` is the marker's part. A set of objects that the cycle has not reached yet, into
  which nothing that it still has to look at leads, is not referred to by anything that it has
  looked at. With no work left the set of all unreached objects is such a set, so that the end of
  the cycle leaves every reference with a reached object. The write barrier, the hand-off's
  stamps and `fgoMarkCounted` each keep this, `fgoMarkCounted` only without `capture` and
  `uncount`.

**The allocator** (`FgoAllocProofs`), for any number of Ms, size classes and chunks. Free
lists are links in the blocks themselves. The invariant gives each block the place it is
in and its position there (`Held`), counted from the list's end: a push or a pop at the
front then moves no other block, and joining two lists moves one of them by the other's
length. That a list's nodes are the blocks of its place (`NodesAre`) is the only use of
induction. `Room` keeps what is carved below the next chunk and outside what is left of
others; `RefillExact` says that the M that looks at the spare batches without the lock still has
an empty list when it takes one under it.

**Hot reload** (`HotReloadProofs`), for every set of functions, call graph, number of edits
and slots. `TurnsExact` and `SlotsExact` say that watcher and agent take turns and that
slots in use are below the next free one, hence never overwritten. `CodeExact` does not
follow calls: it says that some set of bodies contains those the entries lead to, is
closed under calls, and is of the tree the user was told of. `RecordRuns` and the
refinement `SwapsWhole` (`HotSwap`'s promise) follow. The linker's `Patched`, a loop of as many
rounds as there are functions, is shown to reach a fixed point (`PatchedClosed`): a round that
changes nothing is reached by then, since each round before adds a function.

**Unloading** (`UnloadProofs`), for any number of threads and ranges. `ParkExact` ties
notes, the idle list and Ps to where each M is; `LifeExact` ties `forgoExited`, the list of Ms
and the joinable threads to which threads have ended; `HostExact` the mark on a host
thread's M to where the thread is: one that has it is not in the Go code of a call, and the
unload refuses while one has it not. `WalkExact` says of `forgoMemRemove`,
which changes the list it walks, that nothing before its place overlaps the range that it
forgets, and that nothing else is lost.

**Buffers** (`FgoBufProofs`), for any number of objects, buffers and slots and any
bound on slices. The parts of `BufInv` that are about the memory take it, and the references from
outside, as parameters (`Sound`), so that they can be said of the memory between two steps of
a runtime call: a store is a hand-off, a write, a drop and a free, and each has a lemma of its
own (`HandoffSound`, `DecSound`, ...) that the actions' lemmas put together.

- `MemExact` says that owned buffers are those of fields, one each, and copies under way
  (`FieldsExact`), and that a count is the references from fields and the given number of
  others, none to what is not there (`CountSum`). `CountsExact` follows.
- `GcSafe` says of a set of handed-off objects that it is closed under what they refer to and
  holds what GC memory, counts and the viewed buffer refer to. What a cycle reaches is the
  least such set (`FoundSafe`), so a step need only keep some such set safe (`InvNext`).
- A slice under way is one more reference to each of its elements, and owns its buffer
  (`Made`), like the copy of a string. It is what a panic loses, hence without `build`.
- `ViewHeld` says that a view is of a field of an object that the frame refers to, or of a
  buffer that a hand-off has left to the GC; that buffer is why a view outlives the hand-off.

`NothingLeft` does not follow from `BufInv`: objects that refer to each other are counted by
each other alone. `Acyclic` says of every set of objects that one of them is in no field of the
others; a slice that is stored does not reach its object, which is where `cycle` matters.

**The signal chain** (`SigChainProofs`), for any number of runtimes. `ChainInv` follows no chain.
`Exact` says that whoever forwards to a handler is the only one to, and finds it installed;
`Rooted` that of any handlers in the chain one is forwarded to from outside the set, so there
are no cycles and everything is reached from the top; `EndsIn` what is below them all;
`StubsExact` and `BelowExact` what each link is, stubs of unloaded runtimes included. From that a
chain is a path from the top through each of its handlers once (`ChainPath`), no longer than the
number of runtimes and the C handler, and a walk of it is an induction over the path's
positions: what has been heard, kept and marked so far (`Going`), and how it ends (`Ended`).
`PreemptArrives` is the same for the runtime that sent the signal (`Sent`, `Arrived`). For
`AllHear`, `AboveExact` adds that every runtime above another one knows that it is: a `Notify`
above a stub does not (`stub`).

**Tagged fields and shared objects** (`FgoShareProofs`), for any number of objects, goroutines and
tagged fields. `ShareInv` has six parts. `CountSum` is `CountsExact` by the six kinds of reference
(locals, tagged fields, fields, exchanges, queued drops, hand-offs), and adds that nothing refers
to an object that is free or on `fgoTag.pending`, without which `fgoTagDrain` might give back a
reference that another holder has too. `LiveCounted` says that any other counted or shared object
has a positive count; with `CountSum`, `FreedAtLast` follows. `QueuesExact` says that what waits to
be dropped waits once. `RefsGood` closes the shared and handed-off objects under references, but
for the one that a hand-off has just read. `ActsExact` says what a `fgoTagLoad` under way has
handed off so far, and that it is alone; `MarksExact` is inductive beside these. An action
changes the references of one goroutine, field or object, and one lemma per kind of reference
(`LocalsMove` to `FieldsMove`) turns that into numbers. The release of what nothing counts any more
is, as in FgoEsc, a chain into which only the dropped reference leads (`ReleasedChain`), so that
an object outside loses at most one reference from it.

`Lemmas` has what several of the proofs need. Of induction: the least member of a set of numbers,
induction over `0 .. N` stated of sets instead of predicates (`UpTo`), and that a recursive function
over `0 .. N` exists (`Recursion`), derived from the library's well-foundedness of `<` on the
naturals. Of counting: what one member more or less does to a cardinality (`SetCard`), tagged sets
(`TagCard`), and that a finite chain has one end (`ChainEnd`).

The assumptions are the named `ASSUME`s of the modules, which TLC evaluates in every run. Sets of
objects, goroutines, slots, functions and runtimes are finite where the theorems count them; `Nil` and the
tags of roots are no objects; the cycle modulus is at least twice the sweeper's lag; Unload's
ranges do not overlap to begin with (`ListsApart`: each is a mapping the system made anew) and lie
within the address space.

Only model-checked: liveness (`GarbageFreed`, `EditsApplied`, `UnloadEnds`), which needs
fairness and `ENABLED`, out of the prover's reach. What the violation runs show is shown by
their traces. FgoBuf's type invariant is proved without `large`, `overwrite` and `build` only: that
counts never go below zero follows from the rest of `BufInv`, which those break.

## Not modelled

- Upstream Go. The repository is the whole Go tree: compiler back ends, generated SSA
  rewrite rules and opcode tables, the standard library. Nearly all of its lines are
  not forgo's, and most are generated or sequential translation with no state to check.
  What forgo's code meets of upstream's runtime is in the modules (`PROJECT.json`,
  component "upstream Go"). The modules' share of the whole tree is therefore small; of
  the forgo runtime's own files most operations that change state are modelled.
- The counting pass, the front end and compile-time evaluation: they translate whole
  functions, sequentially; their input is out of a model checker's reach. FgoBuf, FgoEsc
  and FgoShare state what the code they emit does.
- Mixed objects, the keep masks of specialised drops and `fgoRCVet`; Windows; packages
  that a reload adds; installation, editors and test hosts.

## Plan

Done: FgoEsc, FgoBuf, FgoShare, FgoAlloc, HotReload with HotSwap, SigChain, Unload with
ForgoMem; the theorems above. What could follow:

- mixed objects, which the GC scans as roots, in `FgoEsc`, and packages that a reload adds, in
  `HotReload`;
- the order of clean-up that `with` and `try` lower to, as a small module.
