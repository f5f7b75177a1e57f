------------------------------ MODULE SigChain ------------------------------
(***************************************************************************)
(* Signal handlers of several forgo runtimes in one process                *)
(* (runtime/forgo_multiruntime_unix.go, runtime/forgo_unload_unix.go and    *)
(* the hooks in runtime/signal_unix.go).  Each runtime is a c-shared        *)
(* library.  A signal has one handler, and handlers form a chain: each      *)
(* remembers the one it replaced.  Two signals stand for the two kinds: an  *)
(* asynchronous one that os/signal.Notify asks for ("notify": SIGTERM) and  *)
(* the one a runtime sends to its own threads ("preempt": SIGURG), whose    *)
(* handler is installed when the library is loaded.                         *)
(*                                                                         *)
(* A runtime installs its handler through a stub mapped outside the         *)
(* library, so a runtime stands for its stub's address here.  What a signal *)
(* does when it arrives is computed from the state: Deliver and Preempt     *)
(* walk the chain handler by handler.                                       *)
(*                                                                         *)
(* Race names the calls the passing run leaves out: "reset" (Reset of a     *)
(* signal this runtime holds no handler for), "ignore" (Ignore while the    *)
(* chain holds other handlers), "stub" (Notify on top of an unloaded        *)
(* runtime's stub) and "enable" (calls of other runtimes in the middle of a *)
(* Notify: each runtime has a lock, the process has none).                  *)
(***************************************************************************)
EXTENDS Integers, FiniteSets

CONSTANTS
    Runtime,   \* the libraries; one that is loaded again is another member
    DFL, IGN,  \* the default action and ignoring the signal
    Host,      \* a C handler that keeps the signal, there from the start
    Reporter,  \* a C handler installed later that forwards (a crash reporter)
    None,      \* no handler recorded
    Race

Sig == {"notify", "preempt"}
Base == {DFL, IGN, Host}
Handler == Runtime \cup Base \cup {Reporter}
RaceKind == {"reset", "ignore", "stub", "enable"}
StubKind == {"jump", "unmarked", "ignore", "default"}

ASSUME Names ==
    /\ IsFiniteSet(Runtime)
    /\ {DFL, IGN, Host, Reporter, None} \cap Runtime = {}
    /\ DFL \notin {IGN, Host} /\ IGN # Host
    /\ {Reporter, None} \cap Base = {} /\ Reporter # None
ASSUME RaceIs == Race \subseteq RaceKind

VARIABLES
    life,       \* Runtime -> "new", "loaded" or "gone"
    mapped,     \* the runtimes whose stub is mapped
    top,        \* Sig -> the handler the kernel calls (getsig)
    fwd,        \* Runtime -> Sig -> fwdSig, and forgoSigSaved: the one it replaced
    handling,   \* handlingSig of "notify": the runtimes that listen for it
    handler,    \* forgoSigHandler: the Notify handler a runtime recorded, or None
    below,      \* forgoSigBelowGo: the runtimes above another one's Notify handler
    published,  \* forgo_sighandler: the handler a module reports as its own
    stubbed,    \* forgoSigStubbed: the signals a runtime has its stub installed
                \* for; once unloaded, those it left the stub in the chain for
    ent,        \* Runtime -> Sig -> its stub's entry: [fn, kind]
    pc,         \* Runtime -> how far sigenable is: "idle", "set" or "record"
    reported,   \* Sig -> the handler Reporter replaced, or None
    base,       \* Sig -> the handler before any library was loaded
    plain       \* nobody called Ignore, or Reset without a handler, so far

vars == <<life, mapped, top, fwd, handling, handler, below, published, stubbed,
          ent, pc, reported, base, plain>>

Loaded == {r \in Runtime : life[r] = "loaded"}
Gone == {r \in Runtime : life[r] = "gone"}

Init ==
    /\ base \in [Sig -> Base]
    /\ base["preempt"] = DFL
    /\ top = base
    /\ life = [r \in Runtime |-> "new"]
    /\ mapped = {}
    /\ fwd = [r \in Runtime |-> [s \in Sig |-> DFL]]
    /\ handling = {}
    /\ handler = [r \in Runtime |-> None]
    /\ below = {}
    /\ published = [r \in Runtime |-> None]
    /\ stubbed = [r \in Runtime |-> {}]
    /\ ent = [r \in Runtime |-> [s \in Sig |-> [fn |-> r, kind |-> "jump"]]]
    /\ pc = [r \in Runtime |-> "idle"]
    /\ reported = [s \in Sig |-> None]
    /\ plain = TRUE

\* Between the steps of a Notify other runtimes wait, unless "enable" is a race.
Undisturbed(r) ==
    \/ "enable" \in Race
    \/ \A q \in Runtime \ {r} : pc[q] = "idle"

-----------------------------------------------------------------------------
(* Loading: initsig with preinit set.  It records the handler of every      *)
(* signal and installs this runtime's for SIGURG, not for SIGTERM.          *)

Load(r) ==
    /\ life[r] = "new"
    /\ Undisturbed(r)
    /\ life' = [life EXCEPT ![r] = "loaded"]
    /\ mapped' = mapped \cup {r}
    /\ fwd' = [fwd EXCEPT ![r] = top]
    /\ top' = [top EXCEPT !["preempt"] = r]
    /\ stubbed' = [stubbed EXCEPT ![r] = {"preempt"}]
    /\ UNCHANGED <<handling, handler, below, published, ent, pc, reported, base, plain>>

(* Notify for the first channel: sigenable.  A runtime whose handler is     *)
(* recorded as still in the chain only starts listening again.              *)

SigStillChainedNever(r) == FALSE
SigStillChained(r) == handler[r] # None

SigEnable(r) ==
    /\ r \in Loaded \ handling
    /\ pc[r] = "idle"
    /\ Undisturbed(r)
    /\ "stub" \in Race \/ top["notify"] \notin Gone
    /\ handling' = handling \cup {r}
    /\ IF SigStillChained(r)
       THEN UNCHANGED <<fwd, pc>>
       ELSE /\ fwd' = [fwd EXCEPT ![r]["notify"] = top["notify"]]
            /\ pc' = [pc EXCEPT ![r] = "set"]
    /\ UNCHANGED <<life, mapped, top, handler, below, published, stubbed, ent,
                   reported, base, plain>>

\* setsig, through forgoSigStubFn.
SetSig(r) ==
    /\ pc[r] = "set"
    /\ life[r] = "loaded"
    /\ top' = [top EXCEPT !["notify"] = r]
    /\ ent' = [ent EXCEPT ![r]["notify"] = [fn |-> r, kind |-> "jump"]]
    /\ stubbed' = [stubbed EXCEPT ![r] = @ \cup {"notify"}]
    /\ pc' = [pc EXCEPT ![r] = "record"]
    /\ UNCHANGED <<life, mapped, fwd, handling, handler, below, published,
                   reported, base, plain>>

\* Whether the module that holds handler h reports h as its Notify handler; a
\* stub leads to its module only while that is loaded (the table's owner).
IsGoSigHandler(h) == h \in Loaded /\ published[h] = h

\* forgoSigInstalled: records and publishes what getsig reports now.
SigInstalled(r) ==
    /\ pc[r] = "record"
    /\ life[r] = "loaded"
    /\ handler' = [handler EXCEPT ![r] = top["notify"]]
    /\ published' = [published EXCEPT ![r] = top["notify"]]
    /\ below' = IF IsGoSigHandler(fwd[r]["notify"]) THEN below \cup {r} ELSE below \ {r}
    /\ pc' = [pc EXCEPT ![r] = "idle"]
    /\ UNCHANGED <<life, mapped, top, fwd, handling, stubbed, ent, reported, base, plain>>

(* Reset, or Stop of the last channel: sigdisable.  forgoSigKeepChained     *)
(* leaves the handler in place when another one is on top.                  *)

SigKeepChainedNever(r) == FALSE
SigKeepChained(r) == handler[r] # None /\ top["notify"] # handler[r]

SigDisable(r) ==
    /\ r \in Loaded
    /\ pc[r] = "idle"
    /\ Undisturbed(r)
    /\ "reset" \in Race \/ handler[r] # None
    /\ handling' = handling \ {r}
    /\ plain' = (plain /\ handler[r] # None)
    /\ IF SigKeepChained(r)
       THEN UNCHANGED <<top, handler, below, stubbed>>
       ELSE /\ handler' = [handler EXCEPT ![r] = None]
            /\ below' = below \ {r}
            /\ top' = [top EXCEPT !["notify"] = fwd[r]["notify"]]
            /\ stubbed' = [stubbed EXCEPT ![r] = @ \ {"notify"}]
    /\ UNCHANGED <<life, mapped, fwd, published, ent, pc, reported, base>>

\* Whether the chain holds no handler but r's.
Alone(r) ==
    \/ top["notify"] \in Base /\ "notify" \notin stubbed[r]
    \/ top["notify"] = r /\ fwd[r]["notify"] \in Base

SigUnchainedNot(r) == UNCHANGED <<handler, below>>
SigUnchained(r) ==
    /\ handler' = [handler EXCEPT ![r] = None]
    /\ below' = below \ {r}

\* Ignore: sigignore drops the whole chain.
SigIgnore(r) ==
    /\ r \in Loaded
    /\ pc[r] = "idle"
    /\ Undisturbed(r)
    /\ "ignore" \in Race \/ Alone(r)
    /\ handling' = handling \ {r}
    /\ top' = [top EXCEPT !["notify"] = IGN]
    /\ stubbed' = [stubbed EXCEPT ![r] = @ \ {"notify"}]
    /\ SigUnchained(r)
    /\ plain' = FALSE
    /\ UNCHANGED <<life, mapped, fwd, published, ent, pc, reported, base>>

(* Unloading.  forgoRestoreHandlers redirects the stub of each signal to    *)
(* the handler below, restores that handler where the stub is on top, and   *)
(* has the stub unmapped when it was on top of every chain it is in.  The   *)
(* library's own variables are gone with it.                                *)

SigStubRedirectRaw(r, s) == [fn |-> fwd[r][s], kind |-> fwd[r][s]]
SigStubRedirectJump(r, s) ==
    LET h == fwd[r][s] IN
    CASE h = IGN -> [ent[r][s] EXCEPT !.kind = "ignore"]
      [] h = DFL -> [ent[r][s] EXCEPT !.kind = IF s = "preempt" THEN "ignore" ELSE "default"]
      [] OTHER -> [fn |-> h, kind |-> "jump"]
SigStubRedirectIgnore(r, s) ==
    LET h == fwd[r][s] IN
    CASE h \in {IGN, DFL} -> [ent[r][s] EXCEPT !.kind = "ignore"]
      [] OTHER -> [fn |-> h, kind |-> IF s = "notify" /\ r \in below
                                      THEN "jump" ELSE "unmarked"]
SigStubRedirect(r, s) ==
    LET h == fwd[r][s] IN
    CASE h = IGN -> [ent[r][s] EXCEPT !.kind = "ignore"]
      [] h = DFL -> [ent[r][s] EXCEPT !.kind = IF s = "preempt" THEN "ignore" ELSE "default"]
      [] OTHER -> [fn |-> h, kind |-> IF s = "notify" /\ r \in below
                                      THEN "jump" ELSE "unmarked"]

ChainedNever(r) == {}
Chained(r) == {s \in stubbed[r] : top[s] # r}

Unload(r) ==
    /\ r \in Loaded
    /\ Undisturbed(r)
    /\ life' = [life EXCEPT ![r] = "gone"]
    /\ ent' = [ent EXCEPT ![r] =
                 [s \in Sig |-> IF s \in stubbed[r] THEN SigStubRedirect(r, s) ELSE ent[r][s]]]
    /\ top' = [s \in Sig |-> IF s \in stubbed[r] /\ top[s] = r THEN fwd[r][s] ELSE top[s]]
    /\ mapped' = IF Chained(r) = {} THEN mapped \ {r} ELSE mapped
    /\ handling' = handling \ {r}
    /\ pc' = [pc EXCEPT ![r] = "idle"]
    /\ fwd' = [fwd EXCEPT ![r] = [s \in Sig |-> DFL]]
    /\ handler' = [handler EXCEPT ![r] = None]
    /\ below' = below \ {r}
    /\ published' = [published EXCEPT ![r] = None]
    /\ stubbed' = [stubbed EXCEPT ![r] = Chained(r)]
    /\ UNCHANGED <<reported, base, plain>>

\* The host installs a handler of its own that forwards to what it found.
HostInstall(s) ==
    /\ reported[s] = None
    /\ \A q \in Runtime : pc[q] = "idle" \/ "enable" \in Race
    /\ reported' = [reported EXCEPT ![s] = top[s]]
    /\ top' = [top EXCEPT ![s] = Reporter]
    /\ UNCHANGED <<life, mapped, fwd, handling, handler, below, published, stubbed,
                   ent, pc, base, plain>>

Next ==
    \/ \E r \in Runtime :
          \/ Load(r) \/ SigEnable(r) \/ SetSig(r) \/ SigInstalled(r)
          \/ SigDisable(r) \/ SigIgnore(r) \/ Unload(r)
    \/ \E s \in Sig : HostInstall(s)

Spec == Init /\ [][Next]_vars
-----------------------------------------------------------------------------
(* What happens to a signal that arrives now.  A walk holds the handler to  *)
(* be called, whether the signal is marked, the runtimes that have handled  *)
(* it, and how it ended ("walk" while it has not).                          *)

\* sigtrampgo for an asynchronous signal: forgoSigNotifyFwd, then sigfwdgo.
Trampoline(w, r) ==
    LET hears == r \in handling
        heard == IF hears THEN w.heard \cup {r} ELSE w.heard
        next == fwd[r]["notify"]
    IN  IF w.marked \/ (handler[r] # None /\ hears)
        THEN IF r \in below
             THEN [w EXCEPT !.heard = heard, !.at = next, !.marked = TRUE]
             ELSE [w EXCEPT !.heard = heard, !.end = "kept"]
        ELSE IF hears
             THEN [w EXCEPT !.heard = heard, !.end = "kept"]
             ELSE [w EXCEPT !.at = next]

\* The stub's code, for signal s; own is what the runtime's handler does.
Stub(w, r, s, own) ==
    LET e == ent[r][s] IN
    CASE e.kind = "jump" /\ e.fn = r -> IF r \in Loaded THEN own ELSE [w EXCEPT !.end = "crash"]
      [] e.kind = "jump" /\ e.fn # r -> [w EXCEPT !.at = e.fn]
      [] e.kind # "jump" /\ w.marked -> [w EXCEPT !.end = "dropped"]
      [] e.kind = "unmarked" /\ ~w.marked -> [w EXCEPT !.at = e.fn]
      [] e.kind = "ignore" /\ ~w.marked -> [w EXCEPT !.end = "ignored"]
      [] e.kind = "default" /\ ~w.marked -> [w EXCEPT !.end = "default"]

\* A marked signal that arrives at anything but a stub has left the runtimes.
Ends(w) ==
    CASE w.at = Host -> "host" [] w.at = DFL -> "default" [] OTHER -> "ignored"

Call(w, s, own) ==
    CASE w.at \in Runtime -> IF w.at \in mapped THEN Stub(w, w.at, s, own)
                             ELSE [w EXCEPT !.end = "crash"]
      [] w.at = Reporter -> [w EXCEPT !.at = reported[s]]
      [] OTHER -> [w EXCEPT !.end = IF w.marked THEN "leak" ELSE Ends(w)]

Start(s) == [at |-> top[s], marked |-> FALSE, heard |-> {}, end |-> "walk"]

\* Each handler is called at most once, so this many calls end every walk.
Hops == Cardinality(Runtime) + 2

Deliver ==
    LET walk[n \in 0 .. Hops] ==
            IF n = 0 THEN Start("notify")
            ELSE LET w == walk[n - 1] IN
                 IF w.end # "walk" THEN w
                 ELSE Call(w, "notify", IF w.at \in Runtime THEN Trampoline(w, w.at) ELSE w)
    IN  walk[Hops]

\* SIGURG on a thread that runs r's Go code: forgoSigfwdForeign forwards it in
\* every other runtime, which then finds nothing of its own to do.
SigfwdForeignKept(w, r) ==
    IF w.at = r THEN [w EXCEPT !.heard = {r}, !.end = "kept"] ELSE [w EXCEPT !.end = "ignored"]
SigfwdForeign(w, r) ==
    LET next == fwd[w.at]["preempt"] IN
    IF w.at = r THEN [w EXCEPT !.heard = {r}, !.end = "kept"]
    ELSE IF next \in {DFL, IGN} THEN [w EXCEPT !.end = "ignored"]
    ELSE [w EXCEPT !.at = next]

Preempt(r) ==
    LET walk[n \in 0 .. Hops] ==
            IF n = 0 THEN Start("preempt")
            ELSE LET w == walk[n - 1] IN
                 IF w.end # "walk" THEN w
                 ELSE Call(w, "preempt", IF w.at \in Runtime THEN SigfwdForeign(w, r) ELSE w)
    IN  walk[Hops]
-----------------------------------------------------------------------------
TypeOK ==
    /\ life \in [Runtime -> {"new", "loaded", "gone"}]
    /\ mapped \subseteq Runtime
    /\ top \in [Sig -> Handler]
    /\ fwd \in [Runtime -> [Sig -> Handler]]
    /\ handling \subseteq Runtime
    /\ handler \in [Runtime -> Handler \cup {None}]
    /\ below \subseteq Runtime
    /\ published \in [Runtime -> Handler \cup {None}]
    /\ stubbed \in [Runtime -> SUBSET Sig]
    /\ ent \in [Runtime -> [Sig -> [fn : Handler, kind : StubKind]]]
    /\ pc \in [Runtime -> {"idle", "set", "record"}]
    /\ reported \in [Sig -> Handler \cup {None}]
    /\ base \in [Sig -> Base]
    /\ plain \in BOOLEAN

\* What x forwards a signal to, or None; x is the kernel when it is None.
Link(x, s) ==
    CASE x = None -> top[s]
      [] x = Reporter -> reported[s]
      [] x \in Loaded /\ s \in stubbed[x] -> fwd[x][s]
      [] x \in Gone /\ s \in stubbed[x] /\ ent[x][s].kind \in {"jump", "unmarked"}
           -> ent[x][s].fn
      [] OTHER -> None

Quiet == \A r \in Runtime : pc[r] = "idle"

(* A signal's walk down the chain ends: no handler forwards to itself       *)
(* however often Notify is called (forgoSigStillChained), and none jumps    *)
(* into an unmapped stub or an unloaded library (forgoRestoreHandlers).     *)
DeliveryEnds ==
    /\ Deliver.end \notin {"walk", "crash"}
    /\ \A r \in Loaded : Preempt(r).end \notin {"walk", "crash"}

(* Notify signals reach every forgo runtime that asked for them             *)
(* (forgoSigNotifyFwd), whatever was enabled, reset or unloaded in between, *)
(* as long as no C handler stands between the runtimes.                     *)
AllHear == Quiet /\ reported["notify"] = None => handling = Deliver.heard

(* The host's own handler, or the default action, never sees a signal that  *)
(* a runtime kept and handed down marked, also after an unload redirected a *)
(* stub (forgoSigStubRedirect).                                             *)
MarkedStay == Deliver.end # "leak"

(* When no runtime listens any more, the signal does what it did before any *)
(* library was loaded: sigdisable and forgoRestoreHandlers give it back.    *)
GivenBack ==
    Quiet /\ plain /\ handling = {} =>
        Deliver.end = Ends([at |-> base["notify"]])

(* A preemption request reaches the runtime that sent it, through every     *)
(* runtime loaded, and every stub left, above it (forgoSigfwdForeign).      *)
PreemptArrives == \A r \in Loaded : Preempt(r).heard = {r}

(* forgoSigHandler is set exactly while the runtime's Notify handler is in  *)
(* the process's chain, as its comment says: the runtimes that hold one are *)
(* those reached from the top.                                              *)
InChain ==
    LET upto[n \in 0 .. Hops] ==
            IF n = 0 THEN {top["notify"]}
            ELSE upto[n - 1] \cup {Link(h, "notify") : h \in upto[n - 1] \ {None}}
    IN  upto[Hops]
HandlersChained ==
    Quiet => {r \in Loaded : handler[r] # None} = Loaded \cap InChain

(* Every handler that something forwards a signal to is still there: a stub *)
(* is mapped, its library is loaded and has it installed for that signal or *)
(* the unload redirected it, and no second handler forwards to it.  This is *)
(* why forgoRestoreHandlers may unmap a stub it finds on top.               *)
Links == Runtime \cup {Reporter, None}
StubsLive ==
    \A s \in Sig, x \in Links :
        LET r == Link(x, s) IN
        r \in Runtime =>
            /\ r \in mapped
            /\ s \in stubbed[r]
            /\ r \in Gone => ent[r][s].kind # "jump" \/ ent[r][s].fn # r
            /\ \A y \in Links : Link(y, s) = r => y = x
=============================================================================
