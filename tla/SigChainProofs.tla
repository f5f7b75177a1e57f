--------------------------- MODULE SigChainProofs ---------------------------
(* Theorems about the signal handlers of several runtimes (SigChain).       *)
EXTENDS SigChain, Lemmas

(***************************************************************************)
(* The inductive invariant, in named parts.  It speaks of single links of   *)
(* the chain, and of sets of handlers that something outside forwards to.   *)
(***************************************************************************)

\* At most one Notify is under way, in a loaded runtime, and nothing has come
\* between its steps.
NotifyExact ==
    /\ \A q, r \in Runtime : pc[q] # "idle" /\ pc[r] # "idle" => q = r
    /\ \A r \in Runtime :
         /\ pc[r] # "idle" => life[r] = "loaded" /\ handler[r] = None
         /\ pc[r] = "set" => fwd[r]["notify"] = top["notify"] /\ "notify" \notin stubbed[r]
         /\ pc[r] = "record" => top["notify"] = r /\ "notify" \in stubbed[r]

\* forgoSigStubbed and forgoSigHandler agree; a stub that may be in a chain is mapped
\* and leads to a library that is there, or where the unload redirected it.
Own(r) == [fn |-> r, kind |-> "jump"]
StubsExact ==
    \A r \in Runtime :
        /\ life[r] = "new" => stubbed[r] = {} /\ handler[r] = None
        /\ life[r] = "loaded" => r \in mapped /\ "preempt" \in stubbed[r]
        /\ life[r] # "gone" => \A s \in Sig : ent[r][s] = Own(r)
        /\ life[r] = "loaded" /\ pc[r] = "idle" =>
             handler[r] = IF "notify" \in stubbed[r] THEN r ELSE None
        /\ stubbed[r] # {} => r \in mapped
        /\ life[r] = "gone" =>
             \A s \in stubbed[r] : ent[r][s].kind # "jump" \/ ent[r][s].fn # r

\* Whoever forwards to a handler is the only one to, and finds it installed for that
\* signal.
Exact(link, nodes) ==
    \A x \in Links, r \in Runtime \cup {Reporter} :
        link[x] = r => r \in nodes /\ \A y \in Links : link[y] = r => y = x
\* Of any handlers in the chain, one is forwarded to by another one or the kernel:
\* the chain has no cycle, and all of it is reached from the top.
Rooted(link, nodes) ==
    \A S \in SUBSET nodes : S # {} => \E x \in S, y \in Links \ S : link[y] = x
\* A chain can end in nothing but b.
EndsIn(link, b) == \A x \in Links : link[x] \in Base => link[x] = b
LinkMap(s) == [x \in Links |-> Link(x, s)]
Nodes(s) == {r \in Runtime : s \in stubbed[r]} \cup (IF reported[s] = None THEN {} ELSE {Reporter})
ChainFor(s) ==
    /\ Exact(LinkMap(s), Nodes(s)) /\ Rooted(LinkMap(s), Nodes(s))
    /\ s = "preempt" \/ plain => EndsIn(LinkMap(s), base[s])
LinksExact == \A s \in Sig : ChainFor(s)

\* Who listens has its handler in the chain, and what a runtime remembers about the
\* handler below its own (forgoSigBelowGo) agrees with what it forwards to.
BelowExact ==
    \A r \in Runtime :
        /\ r \in handling => life[r] = "loaded" /\ (pc[r] = "idle" => "notify" \in stubbed[r])
        /\ r \in below => /\ life[r] = "loaded" /\ handler[r] # None
                           /\ fwd[r]["notify"] \in Runtime
        /\ life[r] = "gone" => \A s \in stubbed[r] :
             /\ ent[r][s].kind = "jump" => s = "notify" /\ ent[r][s].fn \in Runtime
             /\ ent[r][s].kind = "unmarked" => ent[r][s].fn \notin {IGN, DFL}

\* What a stub does that forwards to nobody is what the signal did before any library
\* was loaded.
BaseExact ==
    /\ base["preempt"] = DFL
    /\ plain => \A r \in Runtime : life[r] = "gone" /\ "notify" \in stubbed[r] =>
         /\ ent[r]["notify"].kind = "ignore" => base["notify"] = IGN
         /\ ent[r]["notify"].kind = "default" => base["notify"] = DFL

\* Every runtime above another one's handler knows it is (no Notify above a stub).
AboveExact ==
    \A r \in Runtime :
        /\ life[r] = "loaded" /\ pc[r] = "idle" /\ "notify" \in stubbed[r] =>
             published[r] = r /\ (fwd[r]["notify"] \in Runtime => r \in below)
        /\ pc[r] # "idle" => fwd[r]["notify"] \notin Gone
        /\ life[r] = "gone" /\ "notify" \in stubbed[r] /\ ent[r]["notify"].kind = "unmarked" =>
             ent[r]["notify"].fn \notin Runtime

ChainInv == NotifyExact /\ StubsExact /\ LinksExact /\ BelowExact /\ BaseExact
-----------------------------------------------------------------------------
(* Type correctness.                                                        *)

(* What the unload makes of a stub's entry is an entry. *)
LEMMA RedirectType ==
    ASSUME TypeOK, NEW r \in Runtime, NEW s \in Sig
    PROVE  SigStubRedirect(r, s) \in [fn : Handler, kind : StubKind]
  <1>1. fwd[r][s] \in Handler /\ ent[r][s] \in [fn : Handler, kind : StubKind]
    BY DEF TypeOK
  <1>2. CASE fwd[r][s] = IGN
    BY <1>1, <1>2 DEF SigStubRedirect, StubKind
  <1>3. CASE fwd[r][s] = DFL /\ fwd[r][s] # IGN
    BY <1>1, <1>3 DEF SigStubRedirect, StubKind
  <1>4. CASE fwd[r][s] # DFL /\ fwd[r][s] # IGN
    BY <1>1, <1>4 DEF SigStubRedirect, StubKind
  <1> QED
    BY <1>2, <1>3, <1>4

(* Every step keeps the types. *)
LEMMA TypeStep == TypeOK /\ [Next]_vars => TypeOK'
  <1> SUFFICES ASSUME TypeOK, [Next]_vars PROVE TypeOK'
    OBVIOUS
  <1> USE Names DEF TypeOK, Sig
  <1>1. CASE UNCHANGED vars
    BY <1>1 DEF vars
  <1>2. ASSUME NEW r \in Runtime, Load(r) PROVE TypeOK'
    BY <1>2 DEF Load, Handler
  <1>3. ASSUME NEW r \in Runtime, SigEnable(r) PROVE TypeOK'
    <2>1. CASE SigStillChained(r)
      BY <1>3, <2>1 DEF SigEnable
    <2>2. CASE ~SigStillChained(r)
      <3>1. fwd' = [fwd EXCEPT ![r]["notify"] = top["notify"]] /\ top["notify"] \in Handler
        BY <1>3, <2>2 DEF SigEnable
      <3>2. fwd' \in [Runtime -> [Sig -> Handler]]
        BY <3>1
      <3> QED
        BY <1>3, <2>2, <3>2, ZenonT(30) DEF SigEnable
    <2> QED
      BY <2>1, <2>2
  <1>4. ASSUME NEW r \in Runtime, SetSig(r) PROVE TypeOK'
    <2>1. r \in Handler /\ [fn |-> r, kind |-> "jump"] \in [fn : Handler, kind : StubKind]
      BY DEF Handler, StubKind
    <2>2. ent' \in [Runtime -> [Sig -> [fn : Handler, kind : StubKind]]]
      BY <1>4, <2>1 DEF SetSig
    <2> QED
      BY <1>4, <2>1, <2>2 DEF SetSig
  <1>5. ASSUME NEW r \in Runtime, SigInstalled(r) PROVE TypeOK'
    BY <1>5 DEF SigInstalled
  <1>6. ASSUME NEW r \in Runtime, SigDisable(r) PROVE TypeOK'
    <2>1. CASE SigKeepChained(r)
      BY <1>6, <2>1 DEF SigDisable
    <2>2. CASE ~SigKeepChained(r)
      <3>1. fwd[r]["notify"] \in Handler /\ plain' \in BOOLEAN
        BY <1>6 DEF SigDisable
      <3>2. /\ top' = [top EXCEPT !["notify"] = fwd[r]["notify"]]
            /\ stubbed' = [stubbed EXCEPT ![r] = @ \ {"notify"}]
        BY <1>6, <2>2 DEF SigDisable
      <3>3. top' \in [Sig -> Handler] /\ stubbed' \in [Runtime -> SUBSET Sig]
        BY <3>1, <3>2
      <3> QED
        BY <1>6, <2>2, <3>1, <3>3 DEF SigDisable
    <2> QED
      BY <2>1, <2>2
  <1>7. ASSUME NEW r \in Runtime, SigIgnore(r) PROVE TypeOK'
    BY <1>7 DEF SigIgnore, SigUnchained, Handler, Base
  <1>8. ASSUME NEW r \in Runtime, Unload(r) PROVE TypeOK'
    <2>1. ent' \in [Runtime -> [Sig -> [fn : Handler, kind : StubKind]]]
      BY <1>8, RedirectType DEF Unload
    <2>2. fwd' \in [Runtime -> [Sig -> Handler]] /\ top' \in [Sig -> Handler]
      BY <1>8 DEF Unload, Handler, Base
    <2>3. mapped' \subseteq Runtime /\ stubbed' \in [Runtime -> SUBSET Sig]
      BY <1>8 DEF Unload, Chained
    <2> QED
      BY <1>8, <2>1, <2>2, <2>3 DEF Unload
  <1>9. ASSUME NEW s \in Sig, HostInstall(s) PROVE TypeOK'
    BY <1>9 DEF HostInstall, Handler
  <1> QED
    BY <1>1, <1>2, <1>3, <1>4, <1>5, <1>6, <1>7, <1>8, <1>9 DEF Next

(* The initial states have the types. *)
LEMMA TypeInit == Init => TypeOK
  <1> SUFFICES ASSUME Init PROVE TypeOK
    OBVIOUS
  <1>1. top \in [Sig -> Handler] /\ fwd \in [Runtime -> [Sig -> Handler]]
    BY DEF Init, Handler, Base
  <1>2. ent \in [Runtime -> [Sig -> [fn : Handler, kind : StubKind]]]
    BY DEF Init, Handler, StubKind
  <1> QED
    BY <1>1, <1>2 DEF Init, TypeOK

(* Every variable of the signal chain keeps its type; in particular what    *)
(* an unload writes into a stub is one of the entries the stub's code       *)
(* knows, and every handler a runtime records is a handler or none.         *)
THEOREM TypeCorrect == Spec => []TypeOK
  BY TypeInit, TypeStep, PTL DEF Spec

-----------------------------------------------------------------------------
(* The links of the chain.                                                  *)

\* What each runtime forwards s to.
StubLinks(s) ==
    [r \in Runtime |->
        IF s \notin stubbed[r] THEN None
        ELSE IF life[r] = "loaded" THEN fwd[r][s]
        ELSE IF life[r] = "gone" /\ ent[r][s].kind \in {"jump", "unmarked"} THEN ent[r][s].fn
        ELSE None]

(* The links, by who forwards. *)
LEMMA LinkIs ==
    ASSUME NEW s \in Sig
    PROVE  /\ LinkMap(s)[None] = top[s] /\ LinkMap(s)[Reporter] = reported[s]
           /\ \A r \in Runtime : LinkMap(s)[r] = StubLinks(s)[r]
  BY Names DEF Link, LinkMap, StubLinks, Links, Loaded, Gone

(* The same for the state after a step. *)
LEMMA LinkIsNext ==
    ASSUME NEW s \in Sig
    PROVE  /\ LinkMap(s)'[None] = top'[s] /\ LinkMap(s)'[Reporter] = reported'[s]
           /\ \A r \in Runtime : LinkMap(s)'[r] = StubLinks(s)'[r]
  BY Names DEF Link, LinkMap, StubLinks, Links, Loaded, Gone

\* What can be in a chain.
Inner == Runtime \cup {Reporter}

(* Links that keep what they forward to the inner handlers keep a chain a chain. *)
LEMMA SameChain ==
    ASSUME NEW link, NEW new, NEW nodes \in SUBSET Inner, Exact(link, nodes), Rooted(link, nodes),
           \A x \in Links : new[x] = link[x] \/ (new[x] \notin Inner /\ link[x] \notin Inner)
    PROVE  Exact(new, nodes) /\ Rooted(new, nodes)
  <1>1. Exact(new, nodes)
    BY DEF Exact, Inner
  <1>2. Rooted(new, nodes)
    <2> SUFFICES ASSUME NEW S \in SUBSET nodes, S # {} PROVE \E x \in S, y \in Links \ S : new[y] = x
      BY DEF Rooted
    <2>1. PICK x \in S, y \in Links \ S : link[y] = x
      BY DEF Rooted
    <2>2. x \in Inner
      OBVIOUS
    <2> QED
      BY <2>1, <2>2
  <1> QED
    BY <1>1, <1>2

(* So does a handler that puts itself on top. *)
LEMMA PushChain ==
    ASSUME NEW link, NEW new, NEW nodes \in SUBSET Inner, Exact(link, nodes), Rooted(link, nodes),
           NEW p \in Inner, p \notin nodes, link[p] = None,
           new[None] = p, new[p] = link[None],
           \A x \in Links \ {None, p} : new[x] = link[x]
    PROVE  Exact(new, nodes \cup {p}) /\ Rooted(new, nodes \cup {p})
  <1> USE Names DEF Inner, Links
  <1>1. \A x \in Links : link[x] # p
    BY DEF Exact
  <1>2. Exact(new, nodes \cup {p})
    BY <1>1 DEF Exact
  <1>3. Rooted(new, nodes \cup {p})
    <2> SUFFICES ASSUME NEW S \in SUBSET (nodes \cup {p}), S # {}
                 PROVE  \E x \in S, y \in Links \ S : new[y] = x
      BY DEF Rooted
    <2>0. None \in Links /\ p \in Links /\ None \notin nodes \cup {p}
      OBVIOUS
    <2>1. CASE p \in S
      BY <2>0, <2>1
    <2>2. CASE p \notin S
      <3>1. PICK x \in S, y \in Links \ S : link[y] = x
        BY <2>2 DEF Rooted
      <3>2. CASE y = None
        BY <2>0, <2>2, <3>1, <3>2
      <3>3. CASE y # None
        <4>1. x \in nodes /\ x # None
          BY <2>0, <2>2
        <4> QED
          BY <2>2, <3>1, <3>3, <4>1
      <3> QED
        BY <3>2, <3>3
    <2> QED
      BY <2>1, <2>2
  <1> QED
    BY <1>2, <1>3

(* And a handler on top that takes itself out. *)
LEMMA PopChain ==
    ASSUME NEW link, NEW new, NEW nodes \in SUBSET Inner, Exact(link, nodes), Rooted(link, nodes),
           NEW p \in Inner, link[None] = p, new[p] = None,
           new[None] = link[p] \/ (new[None] \notin Inner /\ link[p] \notin Inner),
           \A x \in Links \ {None, p} : new[x] = link[x]
    PROVE  Exact(new, nodes \ {p}) /\ Rooted(new, nodes \ {p})
  <1> USE Names DEF Inner, Links
  <1>0. \A y \in Links : link[y] = p => y = None
    BY DEF Exact
  <1>1. Exact(new, nodes \ {p})
    BY <1>0 DEF Exact
  <1>2. Rooted(new, nodes \ {p})
    <2> SUFFICES ASSUME NEW S \in SUBSET (nodes \ {p}), S # {}
                 PROVE  \E x \in S, y \in Links \ S : new[y] = x
      BY DEF Rooted
    <2>0. None \in Links /\ None \notin S /\ p \notin S
      OBVIOUS
    <2>1. PICK x \in S, y \in Links \ S : link[y] = x
      BY DEF Rooted
    <2>2. y # None /\ x \in Inner
      BY <2>0, <2>1
    <2>3. CASE y = p
      BY <2>0, <2>1, <2>2, <2>3
    <2>4. CASE y # p
      BY <2>1, <2>2, <2>4
    <2> QED
      BY <2>3, <2>4
  <1> QED
    BY <1>1, <1>2

(* A handler does not forward to itself. *)
LEMMA NoSelf ==
    ASSUME NEW link, NEW nodes \in SUBSET Inner, Exact(link, nodes), Rooted(link, nodes), NEW p \in Inner
    PROVE  link[p] # p
  <1> SUFFICES ASSUME link[p] = p PROVE FALSE
    OBVIOUS
  <1>1. p \in nodes /\ \A y \in Links : link[y] = p => y = p
    BY DEF Exact, Inner, Links
  <1>2. \E x \in {p}, y \in Links \ {p} : link[y] = x
    <2>1. {p} \in SUBSET nodes /\ {p} # {}
      BY <1>1
    <2> QED
      BY <2>1 DEF Rooted
  <1> QED
    BY <1>1, <1>2

\* A step that leaves what others forward s to, and whether they are in its chain; what
\* ended the chain may change only by Ignore.
Others(s, p) ==
    /\ base' = base /\ (plain' => plain)
    /\ \A r \in Runtime \ {p} : /\ StubLinks(s)'[r] = StubLinks(s)[r]
                                /\ s \in stubbed[r] <=> s \in stubbed'[r]

(* A step that changes no link to an inner handler keeps the chain. *)
LEMMA SameLinks ==
    ASSUME NEW s \in Sig, ChainFor(s), Others(s, None), reported'[s] = reported[s],
           top'[s] = top[s] \/ (top'[s] \notin Inner /\ top[s] \notin Inner /\ s = "notify" /\ ~plain')
    PROVE  ChainFor(s)'
  <1>0. Nodes(s)' = Nodes(s) /\ Nodes(s) \in SUBSET Inner
    BY Names DEF Others, Nodes, Inner
  <1>1. /\ \A x \in Links : LinkMap(s)'[x] = LinkMap(s)[x]
                              \/ (LinkMap(s)'[x] \notin Inner /\ LinkMap(s)[x] \notin Inner)
        /\ s = "preempt" \/ plain' => \A x \in Links : LinkMap(s)'[x] = LinkMap(s)[x]
    BY Names, LinkIs, LinkIsNext DEF Links, Others
  <1>2. Exact(LinkMap(s)', Nodes(s)) /\ Rooted(LinkMap(s)', Nodes(s))
    BY <1>0, <1>1, SameChain DEF ChainFor
  <1>3. s = "preempt" \/ plain' => EndsIn(LinkMap(s)', base[s])
    BY <1>1 DEF ChainFor, EndsIn, Others
  <1> QED
    BY <1>0, <1>2, <1>3 DEF ChainFor, EndsIn, Exact, Rooted, Others

(* So does one by which a runtime whom nobody forwards to puts itself on top. *)
LEMMA PushLink ==
    ASSUME NEW s \in Sig, ChainFor(s), NEW p \in Runtime, Others(s, p), reported'[s] = reported[s],
           s \notin stubbed[p], s \in stubbed'[p], top'[s] = p, StubLinks(s)'[p] = top[s]
    PROVE  ChainFor(s)'
  <1>0. /\ Nodes(s)' = Nodes(s) \cup {p} /\ p \notin Nodes(s) /\ p \in Inner
        /\ Nodes(s) \in SUBSET Inner
    BY Names DEF Others, Nodes, Inner
  <1>1. /\ LinkMap(s)[p] = None /\ LinkMap(s)'[None] = p /\ LinkMap(s)'[p] = LinkMap(s)[None]
        /\ \A x \in Links \ {None, p} : LinkMap(s)'[x] = LinkMap(s)[x]
    BY Names, LinkIs, LinkIsNext DEF Links, Others, StubLinks
  <1>2. Exact(LinkMap(s)', Nodes(s)') /\ Rooted(LinkMap(s)', Nodes(s)')
    BY <1>0, <1>1, PushChain DEF ChainFor
  <1>3. s = "preempt" \/ plain' => EndsIn(LinkMap(s)', base[s])
    <2>1. p \notin Base /\ None \in Links
      BY Names DEF Base, Links
    <2> QED
      BY <1>1, <2>1 DEF ChainFor, EndsIn, Others
  <1> QED
    BY <1>2, <1>3 DEF ChainFor, EndsIn, Exact, Rooted, Others

(* So does the host's forwarding handler. *)
LEMMA PushReporter ==
    ASSUME NEW s \in Sig, ChainFor(s), Others(s, None), reported[s] = None,
           top'[s] = Reporter, reported'[s] = top[s], top[s] # None
    PROVE  ChainFor(s)'
  <1>0. /\ Nodes(s)' = Nodes(s) \cup {Reporter} /\ Reporter \notin Nodes(s) /\ Reporter \in Inner
        /\ Nodes(s) \in SUBSET Inner
    BY Names DEF Others, Nodes, Inner
  <1>1. /\ LinkMap(s)[Reporter] = None /\ LinkMap(s)'[None] = Reporter
        /\ LinkMap(s)'[Reporter] = LinkMap(s)[None]
        /\ \A x \in Links \ {None, Reporter} : LinkMap(s)'[x] = LinkMap(s)[x]
    BY Names, LinkIs, LinkIsNext DEF Links, Others
  <1>2. Exact(LinkMap(s)', Nodes(s)') /\ Rooted(LinkMap(s)', Nodes(s)')
    BY <1>0, <1>1, PushChain DEF ChainFor
  <1>3. s = "preempt" \/ plain' => EndsIn(LinkMap(s)', base[s])
    <2>1. Reporter \notin Base /\ None \in Links
      BY Names DEF Base, Links
    <2> QED
      BY <1>1, <2>1 DEF ChainFor, EndsIn, Others
  <1> QED
    BY <1>2, <1>3 DEF ChainFor, EndsIn, Exact, Rooted, Others

(* So does one after which a stub does itself what it forwarded to. *)
LEMMA StopLink ==
    ASSUME NEW s \in Sig, ChainFor(s), NEW p \in Runtime, Others(s, p), reported'[s] = reported[s],
           top'[s] = top[s], s \in stubbed[p], s \in stubbed'[p],
           StubLinks(s)[p] \in {IGN, DFL}, StubLinks(s)'[p] = None
    PROVE  ChainFor(s)'
  <1>0. Nodes(s)' = Nodes(s) /\ Nodes(s) \in SUBSET Inner
    BY Names DEF Others, Nodes, Inner
  <1>1. /\ LinkMap(s)'[p] = None /\ LinkMap(s)[p] \notin Inner /\ None \notin Inner
        /\ \A x \in Links \ {p} : LinkMap(s)'[x] = LinkMap(s)[x]
    <2>1. LinkMap(s)'[p] = None /\ LinkMap(s)[p] \in {IGN, DFL}
      BY LinkIs, LinkIsNext
    <2>2. {IGN, DFL, None} \cap Inner = {}
      BY Names DEF Inner, Base
    <2>3. ASSUME NEW x \in Links \ {p} PROVE LinkMap(s)'[x] = LinkMap(s)[x]
      <3>1. x \in Runtime \/ x = None \/ x = Reporter
        BY DEF Links
      <3> QED
        BY <3>1, LinkIs, LinkIsNext DEF Others
    <2> QED
      BY <2>1, <2>2, <2>3
  <1>2. Exact(LinkMap(s)', Nodes(s)) /\ Rooted(LinkMap(s)', Nodes(s))
    BY <1>0, <1>1, SameChain DEF ChainFor
  <1>3. s = "preempt" \/ plain' => EndsIn(LinkMap(s)', base[s])
    <2>1. None \notin Base
      BY Names
    <2> QED
      BY <1>1, <2>1 DEF ChainFor, EndsIn, Others
  <1> QED
    BY <1>0, <1>2, <1>3 DEF ChainFor, EndsIn, Exact, Rooted, Others

(* So does a step by which the stub on top takes itself out. *)
LEMMA PopLink ==
    ASSUME NEW s \in Sig, ChainFor(s), NEW p \in Runtime, Others(s, p), reported'[s] = reported[s],
           top[s] = p, s \notin stubbed'[p],
           \/ top'[s] = StubLinks(s)[p]
           \/ top'[s] \notin Inner /\ StubLinks(s)[p] \notin Inner /\ s = "notify" /\ ~plain'
    PROVE  ChainFor(s)'
  <1>0. /\ Nodes(s)' = Nodes(s) \ {p} /\ p \in Inner /\ Nodes(s) \in SUBSET Inner
    BY Names DEF Others, Nodes, Inner
  <1>1. /\ LinkMap(s)[None] = p /\ LinkMap(s)'[p] = None
        /\ \/ LinkMap(s)'[None] = LinkMap(s)[p]
           \/ LinkMap(s)'[None] \notin Inner /\ LinkMap(s)[p] \notin Inner /\ s = "notify" /\ ~plain'
        /\ \A x \in Links \ {None, p} : LinkMap(s)'[x] = LinkMap(s)[x]
    BY Names, LinkIs, LinkIsNext DEF Links, Others, StubLinks
  <1>2. Exact(LinkMap(s)', Nodes(s)') /\ Rooted(LinkMap(s)', Nodes(s)')
    BY <1>0, <1>1, PopChain DEF ChainFor
  <1>3. s = "preempt" \/ plain' => EndsIn(LinkMap(s)', base[s])
    <2> SUFFICES ASSUME s = "preempt" \/ plain', NEW x \in Links, LinkMap(s)'[x] \in Base
                 PROVE  LinkMap(s)'[x] = base[s]
      BY DEF EndsIn
    <2>1. p \in Links /\ None \in Links /\ None \notin Base
      BY Names DEF Base, Links
    <2>2. LinkMap(s)'[None] = LinkMap(s)[p] /\ EndsIn(LinkMap(s), base[s])
      BY <1>1 DEF ChainFor, Others
    <2> QED
      BY <1>1, <2>1, <2>2 DEF EndsIn
  <1> QED
    BY <1>2, <1>3 DEF ChainFor, EndsIn, Exact, Rooted, Others

\* The calls the theorem leaves out; Notify above an unloaded runtime's stub is not
\* among them.
Ordered == Race \cap {"reset", "ignore", "enable"} = {}

(* Every step keeps the parts that speak of one runtime. *)
LEMMA RuntimeStep ==
    ASSUME Ordered, TypeOK, ChainInv, [Next]_vars
    PROVE  NotifyExact' /\ StubsExact' /\ BelowExact'
  <1>0. ASSUME NEW r \in Runtime, NEW s \in Sig PROVE StubLinks(s)[r] # r
    <2>1. LinkMap(s)[r] = StubLinks(s)[r] /\ r \in Inner
      BY LinkIs DEF Inner
    <2>2. Exact(LinkMap(s), Nodes(s)) /\ Rooted(LinkMap(s), Nodes(s)) /\ Nodes(s) \in SUBSET Inner
      BY DEF ChainInv, LinksExact, ChainFor, Nodes, Inner
    <2>3. LinkMap(s)[r] # r
      BY <2>1, <2>2, NoSelf
    <2> QED
      BY <2>1, <2>3
  <1> USE Names DEF TypeOK, Sig, Ordered, ChainInv, NotifyExact, StubsExact, BelowExact, Undisturbed, Loaded
  <1> DEFINE Good == NotifyExact' /\ StubsExact' /\ BelowExact'
  <1>1. CASE UNCHANGED vars
    BY <1>1 DEF vars
  <1>2. ASSUME NEW r \in Runtime, Load(r) PROVE Good
    <2>1. /\ life' = [life EXCEPT ![r] = "loaded"] /\ life[r] = "new"
          /\ mapped' = mapped \cup {r} /\ fwd' = [fwd EXCEPT ![r] = top]
          /\ top' = [top EXCEPT !["preempt"] = r]
          /\ stubbed' = [stubbed EXCEPT ![r] = {"preempt"}]
          /\ UNCHANGED <<handling, handler, below, ent, pc>>
      BY <1>2 DEF Load
    <2> QED
      BY <2>1
  <1>3. ASSUME NEW r \in Runtime, SigEnable(r) PROVE Good
    <2>0. /\ life[r] = "loaded" /\ pc[r] = "idle" /\ \A q \in Runtime \ {r} : pc[q] = "idle"
          /\ handling' = handling \cup {r}
          /\ UNCHANGED <<life, mapped, top, handler, below, stubbed, ent>>
      BY <1>3 DEF SigEnable
    <2>1. CASE SigStillChained(r)
      <3>1. UNCHANGED <<fwd, pc>> /\ handler[r] # None
        BY <1>3, <2>1 DEF SigEnable, SigStillChained
      <3> QED
        BY <2>0, <3>1
    <2>2. CASE ~SigStillChained(r)
      <3>1. /\ handler[r] = None
            /\ pc' = [pc EXCEPT ![r] = "set"]
            /\ fwd' = [fwd EXCEPT ![r]["notify"] = top["notify"]]
        BY <1>3, <2>2 DEF SigEnable, SigStillChained
      <3>2. fwd'[r]["notify"] = top["notify"]
        BY <3>1
      <3>3. NotifyExact'
        BY <2>0, <3>1, <3>2
      <3>4. StubsExact'
        BY <2>0, <3>1
      <3>5. BelowExact'
        BY <2>0, <3>1
      <3> QED
        BY <3>3, <3>4, <3>5
    <2> QED
      BY <2>1, <2>2
  <1>4. ASSUME NEW r \in Runtime, SetSig(r) PROVE Good
    <2>1. /\ pc[r] = "set" /\ life[r] = "loaded"
          /\ top' = [top EXCEPT !["notify"] = r]
          /\ ent' = [ent EXCEPT ![r]["notify"] = Own(r)]
          /\ stubbed' = [stubbed EXCEPT ![r] = @ \cup {"notify"}]
          /\ pc' = [pc EXCEPT ![r] = "record"]
          /\ UNCHANGED <<life, mapped, fwd, handling, handler, below>>
      BY <1>4 DEF SetSig, Own
    <2>2. \A q \in Runtime, s \in Sig : ent'[q][s] = IF q = r /\ s = "notify" THEN Own(r) ELSE ent[q][s]
      BY <2>1
    <2>3. NotifyExact'
      BY <2>1
    <2>4. StubsExact'
      BY <2>1, <2>2
    <2>5. BelowExact'
      BY <2>1, <2>2
    <2> QED
      BY <2>3, <2>4, <2>5
  <1>5. ASSUME NEW r \in Runtime, SigInstalled(r) PROVE Good
    <2>1. /\ pc[r] = "record" /\ life[r] = "loaded" /\ top["notify"] = r
          /\ handler' = [handler EXCEPT ![r] = top["notify"]]
          /\ pc' = [pc EXCEPT ![r] = "idle"]
          /\ \/ below' = below \cup {r} /\ fwd[r]["notify"] \in Runtime
             \/ below' = below \ {r}
          /\ UNCHANGED <<life, mapped, top, fwd, handling, stubbed, ent>>
      BY <1>5 DEF SigInstalled, IsGoSigHandler
    <2> QED
      BY <2>1
  <1>6. ASSUME NEW r \in Runtime, SigDisable(r) PROVE Good
    <2>0. /\ life[r] = "loaded" /\ pc[r] = "idle" /\ \A q \in Runtime \ {r} : pc[q] = "idle"
          /\ handling' = handling \ {r}
          /\ UNCHANGED <<life, mapped, fwd, ent, pc>>
      BY <1>6 DEF SigDisable
    <2>1. CASE SigKeepChained(r)
      <3>1. UNCHANGED <<top, handler, below, stubbed>>
        BY <1>6, <2>1 DEF SigDisable
      <3> QED
        BY <2>0, <3>1
    <2>2. CASE ~SigKeepChained(r)
      <3>1. /\ handler' = [handler EXCEPT ![r] = None]
            /\ below' = below \ {r}
            /\ stubbed' = [stubbed EXCEPT ![r] = @ \ {"notify"}]
        BY <1>6, <2>2 DEF SigDisable
      <3> QED
        BY <2>0, <3>1
    <2> QED
      BY <2>1, <2>2
  <1>7. ASSUME NEW r \in Runtime, SigIgnore(r) PROVE Good
    <2>1. /\ life[r] = "loaded" /\ pc[r] = "idle" /\ \A q \in Runtime \ {r} : pc[q] = "idle"
          /\ handling' = handling \ {r} /\ below' = below \ {r}
          /\ stubbed' = [stubbed EXCEPT ![r] = @ \ {"notify"}]
          /\ handler' = [handler EXCEPT ![r] = None]
          /\ UNCHANGED <<life, mapped, fwd, ent, pc>>
      BY <1>7 DEF SigIgnore, SigUnchained
    <2> QED
      BY <2>1
  <1>8. ASSUME NEW r \in Runtime, Unload(r) PROVE Good
    <2>0. /\ life[r] = "loaded" /\ \A q \in Runtime \ {r} : pc[q] = "idle"
          /\ life' = [life EXCEPT ![r] = "gone"] /\ pc' = [pc EXCEPT ![r] = "idle"]
          /\ mapped' = IF Chained(r) = {} THEN mapped \ {r} ELSE mapped
          /\ handling' = handling \ {r} /\ below' = below \ {r}
          /\ handler' = [handler EXCEPT ![r] = None]
          /\ fwd' = [fwd EXCEPT ![r] = [s \in Sig |-> DFL]]
          /\ stubbed' = [stubbed EXCEPT ![r] = Chained(r)]
          /\ \A q \in Runtime \ {r} : ent'[q] = ent[q]
      BY <1>8 DEF Unload
    <2>1. ASSUME NEW s \in stubbed[r]
          PROVE  /\ SigStubRedirect(r, s).kind # "jump" \/ SigStubRedirect(r, s).fn # r
                 /\ SigStubRedirect(r, s).kind = "jump" =>
                      s = "notify" /\ SigStubRedirect(r, s).fn \in Runtime
                 /\ SigStubRedirect(r, s).kind = "unmarked" => SigStubRedirect(r, s).fn \notin {IGN, DFL}
      <3>1. s \in Sig /\ StubLinks(s)[r] = fwd[r][s]
        BY <2>0, <2>1 DEF StubLinks
      <3>2. fwd[r][s] # r
        BY <1>0, <3>1
      <3>3. ent[r][s] \in [fn : Handler, kind : StubKind]
        BY <3>1
      <3>4. CASE fwd[r][s] \in {IGN, DFL}
        <4>1. SigStubRedirect(r, s).kind \in {"ignore", "default"}
          BY <3>3, <3>4 DEF SigStubRedirect
        <4> QED
          BY <4>1
      <3>5. CASE fwd[r][s] \notin {IGN, DFL}
        <4>1. SigStubRedirect(r, s) = [fn |-> fwd[r][s], kind |-> IF s = "notify" /\ r \in below
                                                                THEN "jump" ELSE "unmarked"]
          BY <3>5 DEF SigStubRedirect
        <4> QED
          BY <3>2, <3>5, <4>1
      <3> QED
        BY <3>4, <3>5
    <2>3. NotifyExact'
      BY <2>0
    <2>4. Chained(r) \subseteq stubbed[r]
      BY DEF Chained
    <2>5. \A s \in stubbed'[r] : ent'[r][s] = SigStubRedirect(r, s)
      <3>1. stubbed'[r] = Chained(r)
        BY <2>0
      <3>2. ent'[r] = [s \in Sig |-> IF s \in stubbed[r] THEN SigStubRedirect(r, s) ELSE ent[r][s]]
        BY <1>8 DEF Unload
      <3> QED
        BY <2>4, <3>1, <3>2
    <2>6. StubsExact'
      BY <2>0, <2>1, <2>4, <2>5
    <2>7. BelowExact'
      BY <2>0, <2>1, <2>4, <2>5
    <2> QED
      BY <2>3, <2>6, <2>7
  <1>9. ASSUME NEW s \in Sig, HostInstall(s) PROVE Good
    BY <1>9 DEF HostInstall
  <1> QED
    BY <1>1, <1>2, <1>3, <1>4, <1>5, <1>6, <1>7, <1>8, <1>9 DEF Next

(* Every step keeps the links exact, and with them what ends a chain. *)
LEMMA LinkStep ==
    ASSUME Ordered, TypeOK, ChainInv, [Next]_vars
    PROVE  LinksExact'
  <1> SUFFICES ASSUME NEW s \in Sig PROVE ChainFor(s)'
    BY DEF LinksExact
  <1> USE Names DEF TypeOK, Ordered, Undisturbed, Loaded
  <1>0. ChainFor(s) /\ NotifyExact /\ StubsExact
    BY DEF ChainInv, LinksExact
  <1>1. CASE UNCHANGED vars
    <2>1. Others(s, None) /\ reported'[s] = reported[s] /\ top'[s] = top[s]
      BY <1>1 DEF vars, StubLinks, Others
    <2> QED
      BY <1>0, <2>1, SameLinks
  <1>2. ASSUME NEW r \in Runtime, Load(r) PROVE ChainFor(s)'
    <2>1. s \notin stubbed[r]
      BY <1>0, <1>2 DEF Load, StubsExact
    <2>2. Others(s, r) /\ reported'[s] = reported[s]
      BY <1>2 DEF Load, StubLinks, Others
    <2>3. CASE s = "preempt"
      <3>1. top'[s] = r /\ StubLinks(s)'[r] = top[s] /\ s \in stubbed'[r]
        BY <1>2, <2>3 DEF Load, StubLinks
      <3> QED
        BY <1>0, <2>1, <2>2, <3>1, PushLink
    <2>4. CASE s # "preempt"
      <3>1. top'[s] = top[s] /\ StubLinks(s)'[r] = StubLinks(s)[r] /\ s \notin stubbed'[r]
        BY <1>2, <2>1, <2>4 DEF Load, StubLinks
      <3>2. Others(s, None)
        BY <2>1, <2>2, <3>1 DEF Others
      <3> QED
        BY <1>0, <2>2, <3>1, <3>2, SameLinks
    <2> QED
      BY <2>3, <2>4
  <1>3. ASSUME NEW r \in Runtime, SigEnable(r) PROVE ChainFor(s)'
    <2>1. UNCHANGED <<life, top, stubbed, ent, reported, base, plain>>
      BY <1>3 DEF SigEnable
    <2>2. \A q \in Runtime : q # r \/ s # "notify" => fwd'[q][s] = fwd[q][s]
      <3>1. CASE SigStillChained(r)
        BY <1>3, <3>1 DEF SigEnable
      <3>2. CASE ~SigStillChained(r)
        BY <1>3, <3>2 DEF SigEnable
      <3> QED
        BY <3>1, <3>2
    <2>3. "notify" \in stubbed[r] => fwd' = fwd
      BY <1>0, <1>3 DEF SigEnable, SigStillChained, StubsExact
    <2>4. Others(s, None)
      BY <2>1, <2>2, <2>3 DEF StubLinks, Others
    <2> QED
      BY <1>0, <2>1, <2>4, SameLinks
  <1>4. ASSUME NEW r \in Runtime, SetSig(r) PROVE ChainFor(s)'
    <2>1. /\ UNCHANGED <<life, fwd, reported>> /\ life[r] = "loaded" /\ Others(s, r)
          /\ stubbed'[r] = stubbed[r] \cup {"notify"}
      BY <1>4 DEF SetSig, StubLinks, Others
    <2>2. CASE s = "notify"
      <3>1. s \notin stubbed[r] /\ fwd[r][s] = top[s]
        BY <1>0, <1>4, <2>2 DEF SetSig, NotifyExact
      <3>2. top'[s] = r /\ StubLinks(s)'[r] = top[s] /\ s \in stubbed'[r]
        BY <1>4, <2>1, <2>2, <3>1 DEF SetSig, StubLinks
      <3> QED
        BY <1>0, <2>1, <3>1, <3>2, PushLink
    <2>3. CASE s # "notify"
      <3>1. top'[s] = top[s] /\ StubLinks(s)'[r] = StubLinks(s)[r]
        BY <1>4, <2>1, <2>3 DEF SetSig, StubLinks
      <3>2. Others(s, None)
        BY <2>1, <2>3, <3>1 DEF Others
      <3> QED
        BY <1>0, <2>1, <3>1, <3>2, SameLinks
    <2> QED
      BY <2>2, <2>3
  <1>5. ASSUME NEW r \in Runtime, SigInstalled(r) PROVE ChainFor(s)'
    <2>1. UNCHANGED <<top, reported>> /\ Others(s, None)
      BY <1>5 DEF SigInstalled, StubLinks, Others
    <2> QED
      BY <1>0, <2>1, SameLinks
  <1>6. ASSUME NEW r \in Runtime, SigDisable(r) PROVE ChainFor(s)'
    <2>0. /\ UNCHANGED <<life, fwd, ent, reported, base>> /\ life[r] = "loaded"
          /\ plain' => plain
      BY <1>6 DEF SigDisable
    <2>1. CASE SigKeepChained(r)
      <3>1. UNCHANGED <<top, stubbed>> /\ Others(s, None)
        BY <1>6, <2>0, <2>1 DEF SigDisable, StubLinks, Others
      <3> QED
        BY <1>0, <2>0, <3>1, SameLinks
    <2>2. CASE ~SigKeepChained(r)
      <3>1. /\ top' = [top EXCEPT !["notify"] = fwd[r]["notify"]]
            /\ stubbed' = [stubbed EXCEPT ![r] = @ \ {"notify"}]
        BY <1>6, <2>2 DEF SigDisable
      <3>2. top["notify"] = r /\ "notify" \in stubbed[r]
        BY <1>0, <1>6, <2>2 DEF SigDisable, SigKeepChained, StubsExact
      <3>3. Others(s, r)
        BY <2>0, <3>1 DEF StubLinks, Others
      <3>4. CASE s = "notify"
        <4>1. top[s] = r /\ top'[s] = StubLinks(s)[r] /\ s \notin stubbed'[r]
          BY <2>0, <3>1, <3>2, <3>4 DEF StubLinks, Sig
        <4> QED
          BY <1>0, <2>0, <3>3, <4>1, PopLink
      <3>5. CASE s # "notify"
        <4>1. top'[s] = top[s] /\ Others(s, None)
          BY <2>0, <3>1, <3>5 DEF StubLinks, Others
        <4> QED
          BY <1>0, <2>0, <4>1, SameLinks
      <3> QED
        BY <3>4, <3>5
    <2> QED
      BY <2>1, <2>2
  <1>7. ASSUME NEW r \in Runtime, SigIgnore(r) PROVE ChainFor(s)'
    <2>1. /\ top' = [top EXCEPT !["notify"] = IGN]
          /\ stubbed' = [stubbed EXCEPT ![r] = @ \ {"notify"}]
          /\ UNCHANGED <<life, fwd, ent, reported, base>> /\ ~plain' /\ Alone(r)
          /\ life[r] = "loaded"
      BY <1>7 DEF SigIgnore
    <2>2. Others(s, r)
      BY <2>1 DEF StubLinks, Others
    <2>3. CASE s # "notify"
      <3>1. top'[s] = top[s] /\ Others(s, None)
        BY <2>1, <2>3 DEF StubLinks, Others
      <3> QED
        BY <1>0, <2>1, <3>1, SameLinks
    <2>4. CASE s = "notify"
      <3>1. top'[s] \notin Inner /\ s \notin stubbed'[r] /\ \A h \in Base : h \notin Inner
        BY <2>1, <2>4 DEF Inner, Base
      <3>2. CASE s \in stubbed[r]
        <4>1. top[s] = r /\ StubLinks(s)[r] \in Base
          BY <2>1, <2>4, <3>1, <3>2 DEF Alone, StubLinks, Base
        <4> QED
          BY <1>0, <2>1, <2>2, <2>4, <3>1, <4>1, PopLink
      <3>3. CASE s \notin stubbed[r] /\ top[s] \in Base
        <4>1. Others(s, None)
          BY <2>1, <2>2, <3>1, <3>3 DEF StubLinks, Others
        <4> QED
          BY <1>0, <2>1, <2>4, <3>1, <3>3, <4>1, SameLinks
      <3>4. CASE s \notin stubbed[r] /\ top[s] = r
        <4>1. LinkMap(s)[None] = r /\ None \in Links /\ r \notin Nodes(s)
          BY <3>4, LinkIs DEF Links, Nodes
        <4> QED
          BY <1>0, <4>1 DEF ChainFor, Exact
      <3> QED
        BY <2>1, <2>4, <3>2, <3>3, <3>4 DEF Alone
    <2> QED
      BY <2>3, <2>4
  <1>8. ASSUME NEW r \in Runtime, Unload(r) PROVE ChainFor(s)'
    <2>1. /\ life' = [life EXCEPT ![r] = "gone"] /\ life[r] = "loaded"
          /\ UNCHANGED <<reported, base, plain>>
          /\ stubbed' = [stubbed EXCEPT ![r] = Chained(r)]
          /\ fwd' = [fwd EXCEPT ![r] = [t \in Sig |-> DFL]]
          /\ top'[s] = IF s \in stubbed[r] /\ top[s] = r THEN fwd[r][s] ELSE top[s]
          /\ \A q \in Runtime \ {r} : ent'[q] = ent[q]
      BY <1>8 DEF Unload
    <2>2. ent'[r][s] = IF s \in stubbed[r] THEN SigStubRedirect(r, s) ELSE ent[r][s]
      BY <1>8 DEF Unload
    <2>3. Others(s, r)
      BY <2>1 DEF StubLinks, Others
    <2>4. CASE s \in stubbed[r] /\ top[s] = r
      <3>1. top'[s] = StubLinks(s)[r] /\ s \notin stubbed'[r]
        BY <2>1, <2>4 DEF StubLinks, Chained
      <3> QED
        BY <1>0, <2>1, <2>3, <2>4, <3>1, PopLink
    <2>5. CASE s \in stubbed[r] /\ top[s] # r
      <3>1. s \in stubbed'[r] /\ top'[s] = top[s] /\ life'[r] = "gone"
        BY <2>1, <2>5 DEF Chained
      <3>2. StubLinks(s)[r] = fwd[r][s] /\ fwd[r][s] \in Handler
        BY <2>1, <2>5 DEF StubLinks
      <3>3. CASE fwd[r][s] \in {IGN, DFL}
        <4>1. SigStubRedirect(r, s).kind \in {"ignore", "default"}
          BY <3>3 DEF SigStubRedirect
        <4>2. StubLinks(s)'[r] = None
          BY <2>2, <2>5, <3>1, <4>1 DEF StubLinks
        <4> QED
          BY <1>0, <2>1, <2>3, <2>5, <3>1, <3>2, <3>3, <4>2, StopLink
      <3>4. CASE fwd[r][s] \notin {IGN, DFL}
        <4>1. /\ SigStubRedirect(r, s).kind \in {"jump", "unmarked"}
              /\ SigStubRedirect(r, s).fn = fwd[r][s]
          BY <3>4 DEF SigStubRedirect
        <4>2. StubLinks(s)'[r] = StubLinks(s)[r]
          BY <2>2, <2>5, <3>1, <3>2, <4>1 DEF StubLinks
        <4>3. Others(s, None)
          BY <2>3, <2>5, <3>1, <4>2 DEF Others
        <4> QED
          BY <1>0, <2>1, <3>1, <4>3, SameLinks
      <3> QED
        BY <3>3, <3>4
    <2>6. CASE s \notin stubbed[r]
      <3>1. top'[s] = top[s] /\ StubLinks(s)'[r] = StubLinks(s)[r] /\ s \notin stubbed'[r]
        BY <2>1, <2>6 DEF StubLinks, Chained
      <3>2. Others(s, None)
        BY <2>3, <2>6, <3>1 DEF Others
      <3> QED
        BY <1>0, <2>1, <3>1, <3>2, SameLinks
    <2> QED
      BY <2>4, <2>5, <2>6
  <1>9. ASSUME NEW t \in Sig, HostInstall(t) PROVE ChainFor(s)'
    <2>1. Others(s, None)
      BY <1>9 DEF HostInstall, StubLinks, Others
    <2>2. CASE s = t
      <3>1. top'[s] = Reporter /\ reported'[s] = top[s] /\ reported[s] = None
        BY <1>9, <2>2 DEF HostInstall
      <3>2. top[s] # None
        BY DEF Handler, Base
      <3> QED
        BY <1>0, <2>1, <3>1, <3>2, PushReporter
    <2>3. CASE s # t
      <3>1. top'[s] = top[s] /\ reported'[s] = reported[s]
        BY <1>9, <2>3 DEF HostInstall
      <3> QED
        BY <1>0, <2>1, <3>1, SameLinks
    <2> QED
      BY <2>2, <2>3
  <1> QED
    BY <1>1, <1>2, <1>3, <1>4, <1>5, <1>6, <1>7, <1>8, <1>9 DEF Next

(* Every step keeps what the stubs that forward to nobody do. *)
LEMMA BaseStep ==
    ASSUME Ordered, TypeOK, ChainInv, [Next]_vars
    PROVE  BaseExact'
  <1> USE Names DEF TypeOK, Sig, Ordered, ChainInv, BaseExact, Loaded
  <1>1. CASE UNCHANGED vars
    BY <1>1 DEF vars
  <1>2. ASSUME NEW r \in Runtime, Load(r) PROVE BaseExact'
    BY <1>2 DEF Load
  <1>3. ASSUME NEW r \in Runtime, SigEnable(r) PROVE BaseExact'
    <2>1. UNCHANGED <<life, stubbed, ent, base, plain>>
      BY <1>3 DEF SigEnable
    <2> QED
      BY <2>1
  <1>4. ASSUME NEW r \in Runtime, SetSig(r) PROVE BaseExact'
    <2>1. /\ UNCHANGED <<life, base, plain>> /\ life[r] = "loaded"
          /\ \A q \in Runtime \ {r} : ent'[q] = ent[q] /\ stubbed'[q] = stubbed[q]
      BY <1>4 DEF SetSig
    <2> QED
      BY <2>1
  <1>5. ASSUME NEW r \in Runtime, SigInstalled(r) PROVE BaseExact'
    BY <1>5 DEF SigInstalled
  <1>6. ASSUME NEW r \in Runtime, SigDisable(r) PROVE BaseExact'
    <2>1. UNCHANGED <<life, ent, base>> /\ (plain' => plain)
      BY <1>6 DEF SigDisable
    <2>2. \A q \in Runtime : stubbed'[q] \subseteq stubbed[q]
      <3>1. CASE UNCHANGED stubbed
        BY <3>1
      <3>2. CASE stubbed' = [stubbed EXCEPT ![r] = @ \ {"notify"}]
        BY <3>2
      <3> QED
        BY <1>6, <3>1, <3>2 DEF SigDisable
    <2> QED
      BY <2>1, <2>2
  <1>7. ASSUME NEW r \in Runtime, SigIgnore(r) PROVE BaseExact'
    BY <1>7 DEF SigIgnore
  <1>8. ASSUME NEW r \in Runtime, Unload(r) PROVE BaseExact'
    <2>1. /\ life' = [life EXCEPT ![r] = "gone"] /\ life[r] = "loaded"
          /\ UNCHANGED <<base, plain>>
          /\ \A q \in Runtime \ {r} : ent'[q] = ent[q] /\ stubbed'[q] = stubbed[q]
          /\ stubbed'[r] \subseteq stubbed[r]
      BY <1>8 DEF Unload, Chained
    <2>2. ASSUME plain, "notify" \in stubbed[r]
          PROVE  /\ SigStubRedirect(r, "notify").kind = "ignore" => base["notify"] = IGN
                 /\ SigStubRedirect(r, "notify").kind = "default" => base["notify"] = DFL
      <3>1. LinkMap("notify")[r] = fwd[r]["notify"] /\ r \in Links
        BY <2>1, <2>2, LinkIs DEF StubLinks, Links
      <3>2. fwd[r]["notify"] \in Base => fwd[r]["notify"] = base["notify"]
        BY <2>2, <3>1 DEF LinksExact, ChainFor, EndsIn
      <3>3. ent[r]["notify"] \in [fn : Handler, kind : StubKind]
        OBVIOUS
      <3> QED
        BY <3>2, <3>3 DEF SigStubRedirect, Base
    <2>3. "notify" \in stubbed[r] => ent'[r]["notify"] = SigStubRedirect(r, "notify")
      BY <1>8 DEF Unload
    <2> QED
      BY <2>1, <2>2, <2>3
  <1>9. ASSUME NEW s \in Sig, HostInstall(s) PROVE BaseExact'
    BY <1>9 DEF HostInstall
  <1> QED
    BY <1>1, <1>2, <1>3, <1>4, <1>5, <1>6, <1>7, <1>8, <1>9 DEF Next

(* The initial states: no stub is installed, and only the kernel forwards. *)
LEMMA ChainInit == Init => ChainInv
  <1> SUFFICES ASSUME Init PROVE ChainInv
    OBVIOUS
  <1>1. NotifyExact /\ StubsExact /\ BelowExact /\ BaseExact
    BY DEF Init, NotifyExact, StubsExact, BelowExact, BaseExact, Own
  <1>2. ASSUME NEW s \in Sig PROVE ChainFor(s)
    <2>1. /\ top[s] = base[s] /\ base[s] \in Base /\ reported[s] = None
          /\ \A r \in Runtime : StubLinks(s)[r] = None
      BY <1>2 DEF Init, StubLinks
    <2>2. Nodes(s) = {}
      BY <1>2 DEF Init, Nodes
    <2>3. \A x \in Links : LinkMap(s)[x] = IF x = None THEN base[s] ELSE None
      BY <2>1, LinkIs, Names DEF Links
    <2>4. Exact(LinkMap(s), Nodes(s)) /\ EndsIn(LinkMap(s), base[s])
      BY <2>1, <2>3, Names DEF Exact, EndsIn, Base
    <2>5. Rooted(LinkMap(s), Nodes(s))
      BY <2>2 DEF Rooted
    <2> QED
      BY <2>4, <2>5 DEF ChainFor
  <1> QED
    BY <1>1, <1>2 DEF ChainInv, LinksExact

(* The invariant holds in every state, as long as no call comes in the ways *)
(* that Race names, but for Notify above an unloaded runtime's stub.        *)
LEMMA Chains == ASSUME Ordered PROVE Spec => [](TypeOK /\ ChainInv)
  <1>1. TypeOK /\ ChainInv /\ [Next]_vars => ChainInv'
    BY RuntimeStep, LinkStep, BaseStep DEF ChainInv
  <1> QED
    BY <1>1, TypeInit, TypeStep, ChainInit, PTL DEF Spec

(* For any number of runtimes, and however their loading, Notify, Stop,     *)
(* Reset and unloading follow each other: a handler that anything forwards  *)
(* a signal to is mapped and installed, leads to a library that is there,   *)
(* and is forwarded to by nothing else; so the stub an unload finds on top  *)
(* of its chains may be unmapped.                                           *)
THEOREM NoDeadStub ==
    ASSUME Ordered
    PROVE  Spec => []StubsLive
  <1>1. TypeOK /\ ChainInv => StubsLive
    <2> SUFFICES ASSUME TypeOK, ChainInv, NEW s \in Sig, NEW x \in Links, Link(x, s) \in Runtime
                 PROVE  LET r == Link(x, s) IN
                          /\ r \in mapped /\ s \in stubbed[r]
                          /\ r \in Gone => ent[r][s].kind # "jump" \/ ent[r][s].fn # r
                          /\ \A y \in Links : Link(y, s) = r => y = x
      BY DEF StubsLive
    <2>1. Exact(LinkMap(s), Nodes(s)) /\ \A y \in Links : LinkMap(s)[y] = Link(y, s)
      BY DEF ChainInv, LinksExact, ChainFor, LinkMap
    <2> DEFINE r == Link(x, s)
    <2>2. r \in Nodes(s) /\ \A y \in Links : Link(y, s) = r => y = x
      BY <2>1 DEF Exact
    <2>3. s \in stubbed[r]
      BY <2>2, Names DEF Nodes
    <2> QED
      BY <2>2, <2>3 DEF ChainInv, StubsExact, Gone
  <1> QED
    BY <1>1, Chains, PTL

-----------------------------------------------------------------------------
(* What a signal's walk down the chain reaches.                             *)

(* Without Notify above an unloaded runtime's stub, every runtime above     *)
(* another one's handler knows that it is.                                  *)
LEMMA AboveStep ==
    ASSUME Race = {}, TypeOK, ChainInv, AboveExact, [Next]_vars
    PROVE  AboveExact'
  <1> USE Names DEF TypeOK, Sig, AboveExact, Undisturbed, Loaded, Gone
  <1>0. NotifyExact /\ StubsExact
    BY DEF ChainInv
  <1>1. CASE UNCHANGED vars
    BY <1>1 DEF vars
  <1>2. ASSUME NEW r \in Runtime, Load(r) PROVE AboveExact'
    <2>1. /\ life' = [life EXCEPT ![r] = "loaded"] /\ life[r] = "new"
          /\ \A q \in Runtime \ {r} : pc[q] = "idle"
          /\ stubbed' = [stubbed EXCEPT ![r] = {"preempt"}] /\ fwd' = [fwd EXCEPT ![r] = top]
          /\ UNCHANGED <<below, published, ent, pc>>
      BY <1>2 DEF Load
    <2> QED
      BY <1>0, <2>1 DEF NotifyExact
  <1>3. ASSUME NEW r \in Runtime, SigEnable(r) PROVE AboveExact'
    <2>0. /\ life[r] = "loaded" /\ pc[r] = "idle" /\ \A q \in Runtime \ {r} : pc[q] = "idle"
          /\ UNCHANGED <<life, below, published, stubbed, ent>>
      BY <1>3 DEF SigEnable
    <2>1. CASE SigStillChained(r)
      BY <1>3, <2>0, <2>1 DEF SigEnable
    <2>2. CASE ~SigStillChained(r)
      <3>1. /\ pc' = [pc EXCEPT ![r] = "set"] /\ top["notify"] \notin Gone
            /\ fwd' = [fwd EXCEPT ![r]["notify"] = top["notify"]]
        BY <1>3, <2>2 DEF SigEnable, SigStillChained
      <3>2. fwd'[r]["notify"] = top["notify"] /\ \A q \in Runtime \ {r} : fwd'[q] = fwd[q]
        BY <3>1
      <3> QED
        BY <2>0, <3>1, <3>2
    <2> QED
      BY <2>1, <2>2
  <1>4. ASSUME NEW r \in Runtime, SetSig(r) PROVE AboveExact'
    <2>1. /\ pc[r] = "set" /\ life[r] = "loaded" /\ pc' = [pc EXCEPT ![r] = "record"]
          /\ \A q \in Runtime \ {r} : ent'[q] = ent[q] /\ stubbed'[q] = stubbed[q]
          /\ UNCHANGED <<life, fwd, below, published>>
      BY <1>4 DEF SetSig
    <2> QED
      BY <2>1
  <1>5. ASSUME NEW r \in Runtime, SigInstalled(r) PROVE AboveExact'
    <2>1. /\ pc[r] = "record" /\ life[r] = "loaded" /\ top["notify"] = r /\ "notify" \in stubbed[r]
          /\ published' = [published EXCEPT ![r] = r]
          /\ pc' = [pc EXCEPT ![r] = "idle"]
          /\ below' = IF IsGoSigHandler(fwd[r]["notify"]) THEN below \cup {r} ELSE below \ {r}
          /\ UNCHANGED <<life, fwd, stubbed, ent>>
      BY <1>0, <1>5 DEF SigInstalled, NotifyExact
    <2>2. ASSUME fwd[r]["notify"] \in Runtime PROVE IsGoSigHandler(fwd[r]["notify"])
      <3> DEFINE h == fwd[r]["notify"]
      <3>1. LinkMap("notify")[r] = h /\ r \in Links
        BY <2>1, LinkIs DEF StubLinks, Links
      <3>2. h \in Nodes("notify")
        BY <2>2, <3>1 DEF ChainInv, LinksExact, ChainFor, Exact
      <3>3. "notify" \in stubbed[h] /\ life[h] # "gone"
        BY <2>1, <2>2, <3>2 DEF Nodes
      <3>4. h # r
        <4>1. r \in Inner /\ Nodes("notify") \in SUBSET Inner
          BY DEF Inner, Nodes
        <4> QED
          BY <3>1, <4>1, NoSelf DEF ChainInv, LinksExact, ChainFor
      <3>5. life[h] = "loaded" /\ pc[h] = "idle"
        BY <1>0, <2>1, <2>2, <3>3, <3>4 DEF StubsExact, NotifyExact
      <3> QED
        BY <2>2, <3>3, <3>5 DEF IsGoSigHandler
    <2> QED
      BY <2>1, <2>2
  <1>6. ASSUME NEW r \in Runtime, SigDisable(r) PROVE AboveExact'
    <2>0. /\ life[r] = "loaded" /\ pc[r] = "idle" /\ UNCHANGED <<life, fwd, published, ent, pc>>
      BY <1>6 DEF SigDisable
    <2>1. CASE SigKeepChained(r)
      BY <1>6, <2>0, <2>1 DEF SigDisable
    <2>2. CASE ~SigKeepChained(r)
      <3>1. below' = below \ {r} /\ stubbed' = [stubbed EXCEPT ![r] = @ \ {"notify"}]
        BY <1>6, <2>2 DEF SigDisable
      <3> QED
        BY <2>0, <3>1
    <2> QED
      BY <2>1, <2>2
  <1>7. ASSUME NEW r \in Runtime, SigIgnore(r) PROVE AboveExact'
    <2>1. /\ life[r] = "loaded" /\ below' = below \ {r}
          /\ stubbed' = [stubbed EXCEPT ![r] = @ \ {"notify"}]
          /\ UNCHANGED <<life, fwd, published, ent, pc>>
      BY <1>7 DEF SigIgnore, SigUnchained
    <2> QED
      BY <2>1
  <1>8. ASSUME NEW r \in Runtime, Unload(r) PROVE AboveExact'
    <2>1. /\ life[r] = "loaded" /\ life' = [life EXCEPT ![r] = "gone"]
          /\ \A q \in Runtime \ {r} : pc[q] = "idle"
          /\ pc' = [pc EXCEPT ![r] = "idle"] /\ below' = below \ {r}
          /\ \A q \in Runtime \ {r} : /\ ent'[q] = ent[q] /\ stubbed'[q] = stubbed[q]
                                      /\ fwd'[q] = fwd[q] /\ published'[q] = published[q]
          /\ stubbed'[r] = Chained(r)
      BY <1>8 DEF Unload
    <2>2. ASSUME "notify" \in Chained(r), ent'[r]["notify"].kind = "unmarked"
          PROVE  ent'[r]["notify"].fn \notin Runtime
      <3>1. "notify" \in stubbed[r] /\ top["notify"] # r
        BY <2>2 DEF Chained
      <3>2. pc[r] = "idle"
        BY <1>0, <3>1 DEF NotifyExact
      <3>3. ent'[r]["notify"] = SigStubRedirect(r, "notify")
        BY <1>8, <3>1 DEF Unload
      <3>4. CASE fwd[r]["notify"] \in {IGN, DFL}
        BY <2>2, <3>3, <3>4 DEF SigStubRedirect
      <3>5. CASE fwd[r]["notify"] \notin {IGN, DFL}
        <4>1. ent'[r]["notify"] = [fn |-> fwd[r]["notify"], kind |-> IF r \in below THEN "jump" ELSE "unmarked"]
          BY <3>3, <3>5 DEF SigStubRedirect
        <4> QED
          BY <2>1, <2>2, <3>1, <3>2, <4>1
      <3> QED
        BY <3>4, <3>5
    <2> QED
      BY <2>1, <2>2
  <1>9. ASSUME NEW s \in Sig, HostInstall(s) PROVE AboveExact'
    BY <1>9 DEF HostInstall
  <1> QED
    BY <1>1, <1>2, <1>3, <1>4, <1>5, <1>6, <1>7, <1>8, <1>9 DEF Next

(* So it is in every state. *)
LEMMA Aboves == ASSUME Race = {} PROVE Spec => [](TypeOK /\ ChainInv /\ AboveExact)
  <1>1. Ordered
    BY DEF Ordered
  <1>2. Init => AboveExact
    BY Names DEF Init, AboveExact
  <1>3. TypeOK /\ ChainInv /\ AboveExact /\ [Next]_vars => AboveExact'
    BY AboveStep
  <1> QED
    BY <1>1, <1>2, <1>3, Chains, PTL DEF Spec

\* The handlers that a signal passes, in order: the inner ones up to k, and where it
\* ends there.
IsPath(link, nodes, k, p) ==
    /\ p[0] = link[None] /\ p[k] \notin nodes
    /\ \A i \in 0 .. k - 1 : p[i] \in nodes /\ p[i + 1] = link[p[i]]

(* A chain has such a path, no longer than the number of handlers, and      *)
(* every inner handler is on it.                                            *)
LEMMA ChainPath ==
    ASSUME NEW link, NEW nodes \in SUBSET Inner, Exact(link, nodes), Rooted(link, nodes),
           \A x \in Links : link[x] \in Handler \cup {None},
           \A x \in Links \ nodes : x # None => link[x] = None
    PROVE  \E k \in 0 .. Hops - 1 : \E p \in [0 .. k -> Handler \cup {None}] :
             IsPath(link, nodes, k, p) /\ nodes \subseteq {p[i] : i \in 0 .. k - 1}
  <1> DEFINE A == Handler \cup {None}
             N == Hops - 1
             step == [h \in A |-> IF h \in nodes THEN link[h] ELSE h]
  <1>0. /\ N \in Nat /\ IsFiniteSet(nodes) /\ Cardinality(nodes) \in Nat /\ Cardinality(nodes) <= N
        /\ Hops \in Nat /\ Hops = N + 1
    <2>1. IsFiniteSet(Runtime) /\ Cardinality(Runtime) \in Nat
      BY Names, FS_CardinalityType
    <2>2. IsFiniteSet(Inner) /\ Cardinality(Inner) = Cardinality(Runtime) + 1
      BY <2>1, Names, FS_AddElement DEF Inner
    <2>3. IsFiniteSet(nodes) /\ Cardinality(nodes) <= Cardinality(Inner) /\ Cardinality(nodes) \in Nat
      BY <2>2, FS_Subset, FS_CardinalityType
    <2> QED
      BY <2>1, <2>2, <2>3 DEF Hops
  <1>1. nodes \subseteq A /\ nodes \subseteq Links /\ None \in Links /\ None \notin nodes
    BY Names DEF Inner, Links, Handler
  <1>2. step \in [A -> A] /\ link[None] \in A
    BY <1>1
  <1> HIDE DEF N, A, step
  <1>3. PICK f \in [0 .. N -> A] :
           \A n \in 0 .. N : f[n] = IF n = 0 THEN link[None] ELSE step[f[n - 1]]
    <2>1. Recursive(N, A, link[None], step)
      BY <1>0, <1>2, Recursion
    <2> QED
      BY <2>1 DEF Recursive
  <1>4. f[0] = link[None] /\ \A n \in 0 .. N - 1 : f[n] \in nodes => f[n + 1] = link[f[n]]
    <2>1. f[0] = link[None]
      BY <1>0, <1>3
    <2>2. ASSUME NEW n \in 0 .. N - 1, f[n] \in nodes PROVE f[n + 1] = link[f[n]]
      <3>1. f[n + 1] = step[f[n]] /\ f[n] \in A
        BY <1>0, <1>3
      <3> QED
        BY <2>2, <3>1 DEF step
    <2> QED
      BY <2>1, <2>2
  <1>5. ASSUME \A n \in 0 .. N : f[n] \in nodes PROVE FALSE
    <2>1. f \in [0 .. N -> nodes]
      BY <1>3, <1>5
    <2>2. IsFiniteSet(0 .. N) /\ Cardinality(0 .. N) = N + 1
      BY <1>0, FS_Interval
    <2>3. \E i, j \in 0 .. N : i # j /\ f[i] = f[j]
      BY <1>0, <2>1, <2>2, FS_PigeonHole
    <2>4. PICK i \in 0 .. N, j \in 0 .. N : i < j /\ f[i] = f[j]
      BY <2>3
    <2> DEFINE S == {f[m] : m \in i .. j - 1}
    <2>5. S \in SUBSET nodes /\ S # {}
      BY <1>0, <1>5, <2>4
    <2>6. PICK x \in S, y \in Links \ S : link[y] = x
      BY <2>5 DEF Rooted
    <2>7. PICK m \in i .. j - 1 : x = f[m]
      BY <2>6
    <2> DEFINE l == IF m = i THEN j - 1 ELSE m - 1
    <2>8. l \in i .. j - 1 /\ l \in 0 .. N - 1 /\ f[l + 1] = x
      BY <1>0, <2>4, <2>7
    <2>9. f[l] \in S /\ f[l] \in Links /\ link[f[l]] = x
      BY <1>1, <1>4, <1>5, <2>5, <2>8
    <2>10. x \in Runtime \cup {Reporter}
      BY <2>5, <2>6 DEF Inner
    <2> QED
      BY <2>6, <2>9, <2>10 DEF Exact
  <1> DEFINE T == {n \in 0 .. N : f[n] \notin nodes}
  <1>6. PICK k \in T : \A m \in T : k <= m
    <2>1. T \subseteq Nat /\ T # {}
      BY <1>0, <1>5
    <2> HIDE DEF T
    <2> QED
      BY <2>1, LeastMember
  <1>7. k \in 0 .. N /\ f[k] \notin nodes /\ \A i \in 0 .. k - 1 : f[i] \in nodes
    BY <1>0, <1>6
  <1> DEFINE p == [i \in 0 .. k |-> f[i]]
  <1>8. p \in [0 .. k -> A] /\ \A i \in 0 .. k : p[i] = f[i]
    BY <1>0, <1>3, <1>7
  <1> HIDE DEF p
  <1>9. IsPath(link, nodes, k, p)
    BY <1>0, <1>4, <1>7, <1>8 DEF IsPath
  <1>10. nodes \subseteq {p[i] : i \in 0 .. k - 1}
    <2> DEFINE V == {p[i] : i \in 0 .. k - 1}
               U == nodes \ V
    <2> SUFFICES ASSUME U # {} PROVE FALSE
      OBVIOUS
    <2>1. PICK x \in U, y \in Links \ U : link[y] = x
      <3>1. U \in SUBSET nodes
        OBVIOUS
      <3> HIDE DEF U
      <3> QED
        BY <3>1 DEF Rooted
    <2>2. x \in nodes /\ x \notin V /\ x \in Inner
      BY <2>1
    <2>3. CASE y = None
      <3>1. p[0] = x
        BY <1>9, <2>1, <2>3 DEF IsPath
      <3>2. CASE k = 0
        BY <1>9, <2>2, <3>1, <3>2 DEF IsPath
      <3>3. CASE k # 0
        <4>1. 0 \in 0 .. k - 1
          BY <1>0, <1>7, <3>3
        <4> QED
          BY <2>2, <3>1, <4>1
      <3> QED
        BY <3>2, <3>3
    <2>4. CASE y \in V
      <3>1. PICK i \in 0 .. k - 1 : y = p[i]
        BY <2>4
      <3>2. p[i + 1] = x
        BY <1>9, <2>1, <3>1 DEF IsPath
      <3>3. i + 1 \in 0 .. k - 1 \/ i + 1 = k
        BY <1>0, <1>7
      <3> QED
        BY <1>9, <2>2, <3>2, <3>3 DEF IsPath
    <2>5. CASE y \notin V /\ y # None
      <3>1. y \notin nodes
        BY <2>1, <2>5
      <3> QED
        BY <1>1, <2>1, <2>2, <2>5, <3>1
    <2> QED
      BY <2>3, <2>4, <2>5
  <1>11. k \in 0 .. Hops - 1
    BY <1>0, <1>7
  <1>12. p \in [0 .. k -> Handler \cup {None}]
    BY <1>8 DEF A
  <1> QED
    BY <1>9, <1>10, <1>11, <1>12

\* The walks, and a call of the next handler.
WalkT == [at : Handler \cup {None}, marked : BOOLEAN, heard : SUBSET Runtime,
          end : {"walk", "kept", "crash", "dropped", "ignored", "default", "host", "leak"}]
DeliverNext(w) ==
    IF w.end # "walk" THEN w
    ELSE Call(w, "notify", IF w.at \in Runtime THEN Trampoline(w, w.at) ELSE w)
PreemptNext(r, w) ==
    IF w.end # "walk" THEN w
    ELSE Call(w, "preempt", IF w.at \in Runtime THEN SigfwdForeign(w, r) ELSE w)

(* A call makes a walk of a walk. *)
LEMMA CallType ==
    ASSUME TypeOK, NEW w \in WalkT, NEW s \in Sig, NEW own \in WalkT
    PROVE  Call(w, s, own) \in WalkT
  <1> USE DEF TypeOK, WalkT
  <1>1. CASE w.at \in Runtime
    <2>1. ent[w.at][s] \in [fn : Handler, kind : StubKind]
      BY <1>1
    <2>2. Stub(w, w.at, s, own) \in WalkT
      BY <1>1, <2>1 DEF Stub, StubKind
    <2> QED
      BY <1>1, <2>2 DEF Call
  <1>2. CASE w.at \notin Runtime /\ w.at = Reporter
    BY <1>2 DEF Call
  <1>3. CASE w.at \notin Runtime /\ w.at # Reporter
    BY <1>3 DEF Call, Ends
  <1> QED
    BY <1>1, <1>2, <1>3

(* A step of a Notify signal's walk makes a walk of a walk. *)
LEMMA DeliverType == ASSUME TypeOK, NEW w \in WalkT PROVE DeliverNext(w) \in WalkT
  <1>1. ASSUME NEW r \in Runtime PROVE Trampoline(w, r) \in WalkT
    <2>1. w.heard \cup {r} \in SUBSET Runtime /\ fwd[r]["notify"] \in Handler
      BY DEF TypeOK, WalkT, Sig
    <2> QED
      BY <2>1 DEF WalkT, Trampoline
  <1> QED
    BY <1>1, CallType DEF DeliverNext, Sig

(* So does a step of a preemption request's. *)
LEMMA PreemptType ==
    ASSUME TypeOK, NEW r \in Runtime, NEW w \in WalkT
    PROVE  PreemptNext(r, w) \in WalkT
  <1>1. ASSUME w.at \in Runtime PROVE SigfwdForeign(w, r) \in WalkT
    <2>1. {r} \in SUBSET Runtime /\ fwd[w.at]["preempt"] \in Handler
      BY <1>1 DEF TypeOK, Sig
    <2> QED
      BY <2>1 DEF WalkT, SigfwdForeign
  <1> QED
    BY <1>1, CallType DEF PreemptNext, Sig

(* And a walk begins as one. *)
LEMMA StartType == ASSUME TypeOK, NEW s \in Sig PROVE Start(s) \in WalkT
  BY DEF TypeOK, WalkT, Start

(* The most calls that a walk can take. *)
LEMMA HopsNat == Hops \in Nat /\ Hops = Cardinality(Runtime) + 2 /\ Cardinality(Runtime) \in Nat
  BY Names, FS_CardinalityType DEF Hops

(* Deliver is the last of the walks that begin at the top, call by call. *)
LEMMA DeliverIs ==
    ASSUME TypeOK
    PROVE  \E f \in [0 .. Hops -> WalkT] :
             /\ f[0] = Start("notify") /\ Deliver = f[Hops]
             /\ \A n \in 0 .. Hops - 1 : f[n + 1] = DeliverNext(f[n])
  <1> DEFINE step == [w \in WalkT |-> DeliverNext(w)]
             IsWalk(g) == g = [n \in 0 .. Hops |-> IF n = 0 THEN Start("notify") ELSE DeliverNext(g[n - 1])]
             R == CHOOSE g : IsWalk(g)
  <1>0. Hops \in Nat
    BY HopsNat
  <1>1. step \in [WalkT -> WalkT] /\ Start("notify") \in WalkT
    BY DeliverType, StartType DEF Sig
  <1> HIDE DEF step
  <1>2. PICK g \in [0 .. Hops -> WalkT] :
           \A n \in 0 .. Hops : g[n] = IF n = 0 THEN Start("notify") ELSE step[g[n - 1]]
    <2>1. Recursive(Hops, WalkT, Start("notify"), step)
      BY <1>0, <1>1, Recursion
    <2> QED
      BY <2>1 DEF Recursive
  <1>3. ASSUME NEW n \in 0 .. Hops, n # 0 PROVE step[g[n - 1]] = DeliverNext(g[n - 1])
    <2>1. n - 1 \in 0 .. Hops
      BY <1>0, <1>3
    <2> QED
      BY <2>1 DEF step
  <1>4. IsWalk(g)
    BY <1>2, <1>3
  <1>5. Deliver = R[Hops]
    BY DEF Deliver, DeliverNext
  <1> HIDE DEF IsWalk
  <1>6. IsWalk(R)
    BY <1>4
  <1> HIDE DEF R
  <1>7. \A n \in 0 .. Hops : R[n] = IF n = 0 THEN Start("notify") ELSE DeliverNext(R[n - 1])
    BY <1>6 DEF IsWalk
  <1>8. R[0] = Start("notify") /\ \A n \in 0 .. Hops - 1 : R[n + 1] = DeliverNext(R[n])
    BY <1>0, <1>7
  <1>9. \A n \in 0 .. Hops : R[n] \in WalkT
    <2> DEFINE T == {n \in 0 .. Hops : R[n] \in WalkT}
    <2>1. 0 \in T /\ \A n \in 0 .. Hops - 1 : n \in T => n + 1 \in T
      BY <1>0, <1>1, <1>8, DeliverType
    <2> HIDE DEF T
    <2>2. 0 .. Hops \subseteq T
      BY <1>0, <2>1, UpTo
    <2> QED
      BY <2>2 DEF T
  <1>10. R \in [0 .. Hops -> WalkT]
    BY <1>6, <1>9 DEF IsWalk
  <1> QED
    BY <1>5, <1>8, <1>10

(* So is Preempt. *)
LEMMA PreemptIs ==
    ASSUME TypeOK, NEW r \in Runtime
    PROVE  \E f \in [0 .. Hops -> WalkT] :
             /\ f[0] = Start("preempt") /\ Preempt(r) = f[Hops]
             /\ \A n \in 0 .. Hops - 1 : f[n + 1] = PreemptNext(r, f[n])
  <1> DEFINE step == [w \in WalkT |-> PreemptNext(r, w)]
             IsWalk(g) == g = [n \in 0 .. Hops |-> IF n = 0 THEN Start("preempt") ELSE PreemptNext(r, g[n - 1])]
             R == CHOOSE g : IsWalk(g)
  <1>0. Hops \in Nat
    BY HopsNat
  <1>1. step \in [WalkT -> WalkT] /\ Start("preempt") \in WalkT
    BY PreemptType, StartType DEF Sig
  <1> HIDE DEF step
  <1>2. PICK g \in [0 .. Hops -> WalkT] :
           \A n \in 0 .. Hops : g[n] = IF n = 0 THEN Start("preempt") ELSE step[g[n - 1]]
    <2>1. Recursive(Hops, WalkT, Start("preempt"), step)
      BY <1>0, <1>1, Recursion
    <2> QED
      BY <2>1 DEF Recursive
  <1>3. ASSUME NEW n \in 0 .. Hops, n # 0 PROVE step[g[n - 1]] = PreemptNext(r, g[n - 1])
    <2>1. n - 1 \in 0 .. Hops
      BY <1>0, <1>3
    <2> QED
      BY <2>1 DEF step
  <1>4. IsWalk(g)
    BY <1>2, <1>3
  <1>5. Preempt(r) = R[Hops]
    BY DEF Preempt, PreemptNext
  <1> HIDE DEF IsWalk
  <1>6. IsWalk(R)
    BY <1>4
  <1> HIDE DEF R
  <1>7. \A n \in 0 .. Hops : R[n] = IF n = 0 THEN Start("preempt") ELSE PreemptNext(r, R[n - 1])
    BY <1>6 DEF IsWalk
  <1>8. R[0] = Start("preempt") /\ \A n \in 0 .. Hops - 1 : R[n + 1] = PreemptNext(r, R[n])
    BY <1>0, <1>7
  <1>9. \A n \in 0 .. Hops : R[n] \in WalkT
    <2> DEFINE T == {n \in 0 .. Hops : R[n] \in WalkT}
    <2>1. 0 \in T /\ \A n \in 0 .. Hops - 1 : n \in T => n + 1 \in T
      BY <1>0, <1>1, <1>8, PreemptType
    <2> HIDE DEF T
    <2>2. 0 .. Hops \subseteq T
      BY <1>0, <2>1, UpTo
    <2> QED
      BY <2>2 DEF T
  <1>10. R \in [0 .. Hops -> WalkT]
    BY <1>6, <1>9 DEF IsWalk
  <1> QED
    BY <1>5, <1>8, <1>10

(* A signal's path from the top. *)
LEMMA SigPath ==
    ASSUME TypeOK, ChainInv, NEW s \in Sig
    PROVE  \E k \in 0 .. Hops - 1 : \E p \in [0 .. k -> Handler \cup {None}] :
             IsPath(LinkMap(s), Nodes(s), k, p) /\ Nodes(s) \subseteq {p[i] : i \in 0 .. k - 1}
  <1>1. /\ Nodes(s) \in SUBSET Inner
        /\ Exact(LinkMap(s), Nodes(s)) /\ Rooted(LinkMap(s), Nodes(s))
    BY DEF ChainInv, LinksExact, ChainFor, Nodes, Inner
  <1>2. ASSUME NEW x \in Links
        PROVE  /\ LinkMap(s)[x] \in Handler \cup {None}
               /\ x \notin Nodes(s) /\ x # None => LinkMap(s)[x] = None
    <2>1. x = None \/ x = Reporter \/ x \in Runtime
      BY DEF Links
    <2>2. CASE x \in Runtime
      <3>1. fwd[x][s] \in Handler /\ ent[x][s].fn \in Handler
        BY <2>2 DEF TypeOK
      <3>2. LinkMap(s)[x] = StubLinks(s)[x] /\ StubLinks(s)[x] \in Handler \cup {None}
        BY <2>2, <3>1, LinkIs DEF StubLinks
      <3>3. s \notin stubbed[x] => StubLinks(s)[x] = None
        BY <2>2 DEF StubLinks
      <3> QED
        BY <2>2, <3>2, <3>3 DEF Nodes
    <2>3. CASE x \in {None, Reporter}
      BY <2>3, LinkIs DEF TypeOK, Nodes
    <2> QED
      BY <2>1, <2>2, <2>3
  <1> QED
    BY <1>1, <1>2, ChainPath

\* The handlers of the first n places of a path.
First(p, n) == {p[i] : i \in 0 .. n - 1}

(* What the stubs and handlers in a chain are. *)
LEMMA NodeIs ==
    ASSUME TypeOK, ChainInv, NEW s \in Sig, NEW x \in Nodes(s)
    PROVE  /\ x \in Handler /\ LinkMap(s)[x] \in Handler \cup {None}
           /\ LinkMap(s)[x] \in Inner => LinkMap(s)[x] \in Nodes(s)
           /\ \/ x = Reporter /\ x \notin Runtime /\ LinkMap(s)[x] = reported[s] /\ reported[s] # None
              \/ /\ x \in Runtime /\ x \in Loaded /\ x \in mapped /\ ent[x][s] = Own(x)
                 /\ LinkMap(s)[x] = fwd[x][s] /\ fwd[x][s] \in Handler
              \/ /\ x \in Runtime /\ x \notin Loaded /\ x \in mapped /\ x \notin handling
                 /\ \/ /\ ent[x][s].kind = "jump" /\ s = "notify" /\ ent[x][s].fn \in Runtime
                       /\ ent[x][s].fn # x /\ LinkMap(s)[x] = ent[x][s].fn
                    \/ /\ ent[x][s].kind = "unmarked" /\ ent[x][s].fn \in Handler \ {IGN, DFL}
                       /\ LinkMap(s)[x] = ent[x][s].fn
                       /\ AboveExact /\ s = "notify" => ent[x][s].fn \notin Runtime
                    \/ /\ ent[x][s].kind = "ignore" /\ LinkMap(s)[x] = None
                       /\ plain /\ s = "notify" => base[s] = IGN
                    \/ /\ ent[x][s].kind = "default" /\ LinkMap(s)[x] = None
                       /\ plain /\ s = "notify" => base[s] = DFL
  <1> USE Names
  <1>0. x \in Links /\ Exact(LinkMap(s), Nodes(s))
    BY DEF ChainInv, LinksExact, ChainFor, Nodes, Links
  <1>1. LinkMap(s)[x] \in Inner => LinkMap(s)[x] \in Nodes(s)
    BY <1>0 DEF Exact, Inner
  <1>2. CASE x = Reporter
    <2>1. reported[s] # None
      BY <1>2 DEF Nodes
    <2> QED
      BY <1>1, <1>2, <2>1, LinkIs DEF TypeOK, Handler
  <1>3. CASE x \in Runtime /\ life[x] = "loaded"
    <2>1. s \in stubbed[x]
      BY <1>3 DEF Nodes
    <2>2. x \in Loaded /\ x \in mapped /\ \A q \in Sig : ent[x][q] = Own(x)
      BY <1>3 DEF ChainInv, StubsExact, Loaded
    <2>3. LinkMap(s)[x] = fwd[x][s] /\ fwd[x][s] \in Handler
      BY <1>3, <2>1, LinkIs DEF TypeOK, StubLinks
    <2> QED
      BY <1>1, <1>3, <2>2, <2>3 DEF Handler
  <1>4. CASE x \in Runtime /\ life[x] # "loaded"
    <2>1. s \in stubbed[x] /\ life[x] = "gone" /\ x \in mapped /\ x \notin handling /\ x \notin Loaded
      BY <1>4 DEF Nodes, TypeOK, ChainInv, StubsExact, BelowExact, Loaded
    <2>2. ent[x][s] \in [fn : Handler, kind : StubKind]
      BY <1>4 DEF TypeOK
    <2>3. LinkMap(s)[x] = IF ent[x][s].kind \in {"jump", "unmarked"} THEN ent[x][s].fn ELSE None
      BY <1>4, <2>1, LinkIs DEF StubLinks
    <2>4. /\ ent[x][s].kind = "jump" => s = "notify" /\ ent[x][s].fn \in Runtime /\ ent[x][s].fn # x
          /\ ent[x][s].kind = "unmarked" => ent[x][s].fn \notin {IGN, DFL}
      BY <1>4, <2>1 DEF ChainInv, StubsExact, BelowExact
    <2>5. /\ ent[x][s].kind = "ignore" /\ plain /\ s = "notify" => base[s] = IGN
          /\ ent[x][s].kind = "default" /\ plain /\ s = "notify" => base[s] = DFL
      BY <1>4, <2>1 DEF ChainInv, BaseExact
    <2>6. AboveExact /\ s = "notify" /\ ent[x][s].kind = "unmarked" => ent[x][s].fn \notin Runtime
      BY <1>4, <2>1 DEF AboveExact
    <2>7. x \in Handler
      BY <1>4 DEF Handler
    <2>8. ent[x][s].kind \in {"jump", "unmarked", "ignore", "default"} /\ ent[x][s].fn \in Handler
      BY <2>2 DEF StubKind
    <2> QED
      BY <1>1, <1>4, <2>1, <2>3, <2>4, <2>5, <2>6, <2>7, <2>8
  <1> QED
    BY <1>2, <1>3, <1>4 DEF Nodes

\* A walk of a Notify signal that has come to x, past the handlers in H: who listens has
\* heard it, and it is marked only on its way from one runtime to the next.
Going(w, x, H) ==
    /\ w \in WalkT /\ w.end = "walk" /\ w.at = x /\ x # None
    /\ w.heard = handling \cap H
    /\ w.marked => x \in Runtime /\ w.heard # {}
\* One that has ended at x.  When every runtime knows that it is above another one,
\* no inner handler is below x.
AllKnow == AboveExact /\ Quiet /\ reported["notify"] = None
Ended(w, x, H) ==
    /\ w \in WalkT /\ w.end \notin {"walk", "crash", "leak"}
    /\ w.heard = handling \cap (H \cup {x})
    /\ plain /\ handling = {} => w.end = Ends([at |-> base["notify"]])
    /\ AllKnow => x \notin Nodes("notify") \/ LinkMap("notify")[x] \notin Nodes("notify")

(* A call takes the walk on to what x forwards to, or ends it at x. *)
LEMMA DeliverStep ==
    ASSUME TypeOK, ChainInv, NEW x \in Nodes("notify"), NEW w, NEW H, Going(w, x, H)
    PROVE  \/ Going(DeliverNext(w), LinkMap("notify")[x], H \cup {x})
           \/ Ended(DeliverNext(w), x, H)
  <1> USE Names
  <1> DEFINE v == DeliverNext(w)
             y == LinkMap("notify")[x]
  <1>0. /\ "notify" \in Sig /\ v \in WalkT /\ w \in WalkT
        /\ v = Call(w, "notify", IF x \in Runtime THEN Trampoline(w, x) ELSE w)
        /\ y \in Inner => y \in Nodes("notify")
    BY NodeIs, DeliverType DEF Sig, Going, DeliverNext
  <1>1. CASE x = Reporter
    <2>1. x \notin Runtime /\ y = reported["notify"] /\ y # None /\ x \notin handling
      BY <1>0, <1>1, NodeIs DEF TypeOK
    <2>2. v = [w EXCEPT !.at = reported["notify"]] /\ ~w.marked
      BY <1>0, <1>1, <2>1 DEF Going, Call
    <2> QED
      BY <1>0, <2>1, <2>2 DEF Going, WalkT
  <1>2. CASE x \in Loaded
    <2>1. /\ x \in mapped /\ ent[x]["notify"] = Own(x) /\ y = fwd[x]["notify"] /\ y \in Handler /\ y # None
          /\ x \in Runtime
      BY <1>0, <1>2, NodeIs DEF Loaded, Handler
    <2>2. v = Trampoline(w, x)
      BY <1>0, <1>2, <2>1 DEF Going, Call, Stub, Own
    <2>3. /\ x \in below => y \in Runtime
          /\ AllKnow /\ x \notin below => y \notin Nodes("notify")
      <3>1. x \in below => y \in Runtime
        BY <2>1 DEF ChainInv, BelowExact
      <3>2. ASSUME AllKnow, x \notin below, y \in Nodes("notify") PROVE FALSE
        <4>1. "notify" \in stubbed[x] /\ pc[x] = "idle"
          BY <2>1, <3>2 DEF Nodes, AllKnow, Quiet
        <4>2. y \notin Runtime
          BY <1>2, <2>1, <3>2, <4>1 DEF AllKnow, AboveExact, Loaded
        <4> QED
          BY <3>2, <4>2 DEF Nodes, AllKnow
      <3> QED
        BY <3>1, <3>2
    <2>4. AllKnow /\ x \in handling => handler[x] # None
      <3>1. AllKnow => pc[x] = "idle"
        BY <2>1 DEF AllKnow, Quiet
      <3> QED
        BY <1>2, <2>1, <3>1 DEF ChainInv, StubsExact, BelowExact, Loaded
    <2>5. CASE w.marked \/ (handler[x] # None /\ x \in handling)
      <3>1. (IF x \in handling THEN w.heard \cup {x} ELSE w.heard) = handling \cap (H \cup {x})
        BY DEF Going
      <3>2. handling \cap (H \cup {x}) # {}
        BY <2>5 DEF Going
      <3>3. CASE x \in below
        <4>1. v = [w EXCEPT !.heard = handling \cap (H \cup {x}), !.at = y, !.marked = TRUE]
          BY <2>1, <2>2, <2>5, <3>1, <3>3 DEF Trampoline
        <4> QED
          BY <1>0, <2>1, <2>3, <3>2, <3>3, <4>1 DEF Going, WalkT
      <3>4. CASE x \notin below
        <4>1. v = [w EXCEPT !.heard = handling \cap (H \cup {x}), !.end = "kept"]
          BY <2>2, <2>5, <3>1, <3>4 DEF Trampoline
        <4>2. v.end = "kept" /\ v.heard = handling \cap (H \cup {x})
          BY <1>0, <4>1 DEF WalkT
        <4> QED
          BY <1>0, <2>3, <3>2, <3>4, <4>2 DEF Ended
      <3> QED
        BY <3>3, <3>4
    <2>6. CASE ~(w.marked \/ (handler[x] # None /\ x \in handling)) /\ x \in handling
      <3>1. v = [w EXCEPT !.heard = w.heard \cup {x}, !.end = "kept"]
        BY <2>2, <2>6 DEF Trampoline
      <3>2. v.end = "kept" /\ v.heard = w.heard \cup {x}
        BY <1>0, <3>1 DEF WalkT
      <3>4. v.heard = handling \cap (H \cup {x})
        BY <1>0, <2>6, <3>2 DEF Going
      <3>3. ~AllKnow /\ handling # {}
        BY <2>4, <2>6
      <3> QED
        BY <1>0, <3>2, <3>3, <3>4 DEF Ended
    <2>7. CASE ~w.marked /\ x \notin handling
      <3>1. v = [w EXCEPT !.at = y]
        BY <2>1, <2>2, <2>7 DEF Trampoline
      <3> QED
        BY <1>0, <2>1, <2>7, <3>1 DEF Going, WalkT
    <2> QED
      BY <2>5, <2>6, <2>7
  <1>3. CASE x \in Runtime /\ x \notin Loaded
    <2>0. x # Reporter /\ x \in mapped /\ x \notin handling
      BY <1>0, <1>3, NodeIs
    <2> DEFINE e == ent[x]["notify"]
               own == Trampoline(w, x)
    <2>1. v = Stub(w, x, "notify", own) /\ handling \cap (H \cup {x}) = w.heard
      BY <1>0, <1>3, <2>0 DEF Going, Call
    <2>2. CASE e.kind = "jump"
      <3>1. e.fn \in Runtime /\ e.fn # x /\ y = e.fn
        BY <1>0, <1>3, <2>0, <2>2, NodeIs
      <3>2. v = [w EXCEPT !.at = y]
        BY <2>1, <2>2, <3>1 DEF Stub
      <3> QED
        BY <1>0, <2>1, <3>1, <3>2 DEF Going, WalkT
    <2>3. CASE e.kind # "jump" /\ w.marked
      <3>1. v = [w EXCEPT !.end = "dropped"]
        BY <2>1, <2>3 DEF Stub
      <3>2. v.end = "dropped" /\ v.heard = handling \cap (H \cup {x}) /\ handling # {}
        BY <1>0, <2>1, <2>3, <3>1 DEF Going, WalkT
      <3>3. AllKnow => y \notin Nodes("notify")
        <4>1. AllKnow => y \notin Runtime /\ (y = None \/ y \in Handler)
          BY <1>0, <1>3, <2>0, <2>3, NodeIs DEF AllKnow
        <4> QED
          BY <4>1 DEF AllKnow, Nodes
      <3> QED
        BY <1>0, <3>2, <3>3 DEF Ended
    <2>4. CASE e.kind = "unmarked" /\ ~w.marked
      <3>1. e.fn \in Handler /\ y = e.fn
        BY <1>0, <1>3, <2>0, <2>4, NodeIs
      <3>2. v = [w EXCEPT !.at = y]
        BY <2>1, <2>4, <3>1 DEF Stub
      <3>3. y # None
        BY <3>1 DEF Handler
      <3> QED
        BY <1>0, <2>1, <2>4, <3>1, <3>2, <3>3 DEF Going, WalkT
    <2>5. CASE e.kind \in {"ignore", "default"} /\ ~w.marked
      <3>1. y = None /\ (plain => base["notify"] = IF e.kind = "ignore" THEN IGN ELSE DFL)
        BY <1>0, <1>3, <2>0, <2>5, NodeIs
      <3>2. v = [w EXCEPT !.end = IF e.kind = "ignore" THEN "ignored" ELSE "default"]
        BY <2>1, <2>5 DEF Stub
      <3>3. v.end = (IF e.kind = "ignore" THEN "ignored" ELSE "default") /\ v.heard = handling \cap (H \cup {x})
        BY <1>0, <2>1, <2>5, <3>2 DEF Going, WalkT
      <3>4. plain => v.end = Ends([at |-> base["notify"]])
        BY <2>5, <3>1, <3>3 DEF Ends
      <3>5. y \notin Nodes("notify")
        BY <3>1 DEF Nodes
      <3> QED
        BY <1>0, <2>5, <3>3, <3>4, <3>5 DEF Ended
    <2>6. e.kind \in {"jump", "unmarked", "ignore", "default"}
      BY <1>0, <1>3, <2>0, NodeIs
    <2> QED
      BY <2>2, <2>3, <2>4, <2>5, <2>6
  <1> QED
    BY <1>0, <1>1, <1>2, <1>3, NodeIs

(* A call of what is no inner handler ends it. *)
LEMMA DeliverLast ==
    ASSUME TypeOK, ChainInv, NEW x, x \notin Inner, NEW w, NEW H, Going(w, x, H),
           plain => x = base["notify"]
    PROVE  Ended(DeliverNext(w), x, H)
  <1> USE Names
  <1> DEFINE v == DeliverNext(w)
  <1>0. /\ v \in WalkT /\ w \in WalkT /\ v = Call(w, "notify", w) /\ x \notin Runtime /\ x # Reporter
    BY DeliverType DEF Sig, Going, DeliverNext, Inner
  <1>1. v = [w EXCEPT !.end = Ends(w)]
    BY <1>0 DEF Going, Call
  <1>2. v.end = Ends(w) /\ v.heard = handling \cap (H \cup {x}) /\ Ends(w) \in {"host", "default", "ignored"}
    <2>1. x \notin handling
      BY <1>0 DEF TypeOK
    <2> QED
      BY <1>0, <1>1, <2>1 DEF Going, WalkT, Ends
  <1>3. plain => v.end = Ends([at |-> base["notify"]])
    BY <1>0, <1>2 DEF Ends, Going
  <1>4. x \notin Nodes("notify")
    BY DEF Nodes, Inner
  <1> QED
    BY <1>0, <1>2, <1>3, <1>4 DEF Ended

(* So a walk of a Notify signal ends, at a handler x of its path. *)
LEMMA DeliverEnds ==
    ASSUME TypeOK, ChainInv
    PROVE  /\ Deliver.end \notin {"walk", "crash", "leak"}
           /\ plain /\ handling = {} => Deliver.end = Ends([at |-> base["notify"]])
           /\ AllKnow => handling = Deliver.heard
  <1> USE Names
  <1> DEFINE link == LinkMap("notify")
             nodes == Nodes("notify")
  <1>1. PICK k \in 0 .. Hops - 1 : \E p \in [0 .. k -> Handler \cup {None}] :
           IsPath(link, nodes, k, p) /\ nodes \subseteq First(p, k)
    BY SigPath DEF Sig, First
  <1>2. PICK p \in [0 .. k -> Handler \cup {None}] : IsPath(link, nodes, k, p) /\ nodes \subseteq First(p, k)
    BY <1>1
  <1>3. PICK f \in [0 .. Hops -> WalkT] :
           /\ f[0] = Start("notify") /\ Deliver = f[Hops]
           /\ \A n \in 0 .. Hops - 1 : f[n + 1] = DeliverNext(f[n])
    BY DeliverIs
  <1>4. Hops \in Nat /\ k \in Nat /\ k + 1 \in 0 .. Hops
    BY HopsNat, <1>1
  <1> DEFINE Done(n) == \E m \in 0 .. k : Ended(f[n], p[m], First(p, m))
             T == {n \in 0 .. k : Going(f[n], p[n], First(p, n)) \/ Done(n)}
             D == {i \in 0 .. Hops - (k + 1) : Done(k + 1 + i)}
  <1>5. \A n \in 0 .. Hops - 1 : Done(n) => Done(n + 1)
    <2>1. ASSUME NEW n \in 0 .. Hops - 1, NEW m \in 0 .. k, Ended(f[n], p[m], First(p, m)) PROVE f[n + 1] = f[n]
      BY <1>3, <2>1 DEF Ended, DeliverNext
    <2> QED
      BY <2>1
  <1>6. 0 \in T
    <2>1. p[0] = top["notify"] /\ top["notify"] # None
      BY <1>2, LinkIs DEF IsPath, Sig, TypeOK, Handler, Base
    <2>2. First(p, 0) = {}
      BY DEF First
    <2>3. f[0] \in WalkT
      BY <1>3, <1>4
    <2> QED
      BY <1>3, <1>4, <2>1, <2>2, <2>3 DEF Going, Start
  <1>7. ASSUME NEW n \in 0 .. k - 1, n \in T PROVE n + 1 \in T
    <2>1. n \in 0 .. Hops - 1 /\ n + 1 \in 0 .. k /\ n \in 0 .. k
      BY <1>4
    <2>2. CASE Done(n)
      BY <1>5, <2>1, <2>2
    <2>3. CASE Going(f[n], p[n], First(p, n))
      <3>1. p[n] \in nodes /\ p[n + 1] = link[p[n]] /\ First(p, n + 1) = First(p, n) \cup {p[n]}
        BY <1>2, <1>4 DEF IsPath, First
      <3>2. f[n + 1] = DeliverNext(f[n])
        BY <1>3, <2>1
      <3>4. \/ Going(DeliverNext(f[n]), LinkMap("notify")[p[n]], First(p, n) \cup {p[n]})
            \/ Ended(DeliverNext(f[n]), p[n], First(p, n))
        BY <2>3, <3>1, DeliverStep
      <3>3. \/ Going(f[n + 1], p[n + 1], First(p, n + 1))
            \/ Ended(f[n + 1], p[n], First(p, n))
        BY <3>1, <3>2, <3>4
      <3> QED
        BY <2>1, <3>3
    <2> QED
      BY <1>7, <2>2, <2>3
  <1>8. k \in T
    <2> HIDE DEF T
    <2>1. 0 .. k \subseteq T
      BY <1>4, <1>6, <1>7, UpTo
    <2> QED
      BY <1>4, <2>1
  <1>9. Done(k + 1)
    <2>1. CASE Done(k)
      BY <1>1, <1>5, <2>1
    <2>2. CASE Going(f[k], p[k], First(p, k))
      <3>1. p[k] \notin Inner /\ (plain => p[k] = base["notify"])
        <4>1. p[k] \in Handler /\ p[k] \notin nodes
          BY <1>2, <1>4, <2>2 DEF Going, IsPath
        <4>2. \E x \in Links : p[k] = link[x]
          <5>1. CASE k = 0
            BY <1>2, <5>1 DEF IsPath, Links
          <5>2. CASE k # 0
            <6>1. k - 1 \in 0 .. k - 1 /\ (k - 1) + 1 = k
              BY <1>4, <5>2
            <6>2. p[k - 1] \in nodes /\ p[k] = link[p[k - 1]]
              BY <1>2, <6>1 DEF IsPath
            <6>3. nodes \subseteq Links
              BY DEF Nodes, Links
            <6> QED
              BY <6>2, <6>3
          <5> QED
            BY <5>1, <5>2
        <4>3. ChainFor("notify")
          BY DEF ChainInv, LinksExact, Sig
        <4>4. p[k] \notin Inner
          BY <4>1, <4>2, <4>3 DEF ChainFor, Exact, Inner
        <4>5. p[k] \in Base
          BY <4>1, <4>4 DEF Handler, Inner
        <4> QED
          BY <4>2, <4>3, <4>4, <4>5 DEF ChainFor, EndsIn
      <3>2. f[k + 1] = DeliverNext(f[k])
        BY <1>1, <1>3
      <3> QED
        BY <1>4, <2>2, <3>1, <3>2, DeliverLast
    <2> QED
      BY <1>8, <2>1, <2>2
  <1>10. Done(Hops)
    <2> DEFINE N == Hops - (k + 1)
    <2>1. N \in Nat
      BY <1>4
    <2>2. 0 \in D
      BY <1>4, <1>9
    <2>3. ASSUME NEW i \in 0 .. N - 1, i \in D PROVE i + 1 \in D
      <3>1. k + 1 + i \in 0 .. Hops - 1 /\ k + 1 + (i + 1) = k + 1 + i + 1 /\ i + 1 \in 0 .. N
        BY <1>4
      <3> QED
        BY <1>5, <2>3, <3>1
    <2>4. N \in D
      <3> HIDE DEF D, N
      <3>1. 0 .. N \subseteq D
        BY <2>1, <2>2, <2>3, UpTo
      <3> QED
        BY <2>1, <3>1
    <2>5. k + 1 + N = Hops
      BY <1>4
    <2> QED
      BY <2>4, <2>5
  <1>11. PICK m \in 0 .. k : Ended(Deliver, p[m], First(p, m))
    BY <1>3, <1>10
  <1>12. ASSUME AllKnow PROVE handling = Deliver.heard
    <2>1. nodes \subseteq First(p, m) \cup {p[m]}
      <3>1. CASE m = k
        BY <1>2, <3>1
      <3>2. CASE m # k
        <4>1. m \in 0 .. k - 1
          BY <1>4, <3>2
        <4>2. p[m] \in nodes /\ p[m + 1] \notin nodes
          BY <1>2, <1>11, <1>12, <4>1 DEF IsPath, Ended
        <4>3. m + 1 = k
          BY <1>2, <1>4, <4>1, <4>2 DEF IsPath
        <4>4. First(p, k) = First(p, m) \cup {p[m]}
          BY <1>4, <4>3 DEF First
        <4> QED
          BY <1>2, <4>4
      <3> QED
        BY <3>1, <3>2
    <2>2. handling \subseteq nodes
      BY <1>12 DEF AllKnow, Quiet, ChainInv, BelowExact, Nodes, TypeOK
    <2> QED
      BY <1>11, <2>1, <2>2 DEF Ended
  <1> QED
    BY <1>11, <1>12 DEF Ended

\* A walk of the signal that r sends to its own thread, at x past the handlers in H.
Sent(r, w, x, H) ==
    /\ w \in WalkT /\ w.end = "walk" /\ w.at = x /\ x # None
    /\ ~w.marked /\ w.heard = {} /\ r \notin H
\* One that has ended at x: there is r, or no inner handler is below.
Arrived(r, w, x, H) ==
    /\ w.end \notin {"walk", "crash"}
    /\ \/ w.heard = {r}
       \/ /\ r \notin H \cup {x}
          /\ x \notin Nodes("preempt") \/ LinkMap("preempt")[x] \notin Nodes("preempt")

(* A call takes that walk on to what x forwards to, or ends it at x. *)
LEMMA PreemptStep ==
    ASSUME TypeOK, ChainInv, NEW r \in Loaded, NEW x \in Nodes("preempt"), NEW w, NEW H, Sent(r, w, x, H)
    PROVE  \/ Sent(r, PreemptNext(r, w), LinkMap("preempt")[x], H \cup {x})
           \/ Arrived(r, PreemptNext(r, w), x, H)
  <1> USE Names
  <1> DEFINE v == PreemptNext(r, w)
             y == LinkMap("preempt")[x]
  <1>0. /\ "preempt" \in Sig /\ v \in WalkT /\ w \in WalkT /\ r \in Runtime
        /\ v = Call(w, "preempt", IF x \in Runtime THEN SigfwdForeign(w, r) ELSE w)
    BY NodeIs, PreemptType DEF Sig, Sent, PreemptNext, Loaded
  <1>1. CASE x = Reporter
    <2>1. x \notin Runtime /\ y = reported["preempt"] /\ y # None
      BY <1>0, <1>1, NodeIs
    <2>2. v = [w EXCEPT !.at = reported["preempt"]]
      BY <1>0, <1>1, <2>1 DEF Sent, Call
    <2> QED
      BY <1>0, <1>1, <2>1, <2>2 DEF Sent, WalkT
  <1>2. CASE x \in Loaded
    <2>1. /\ x \in mapped /\ ent[x]["preempt"] = Own(x) /\ y = fwd[x]["preempt"] /\ y \in Handler /\ y # None
          /\ x \in Runtime
      BY <1>0, <1>2, NodeIs DEF Loaded, Handler
    <2>2. v = SigfwdForeign(w, r) /\ w.at = x
      BY <1>0, <1>2, <2>1 DEF Sent, Call, Stub, Own
    <2>3. CASE x = r
      <3>1. v = [w EXCEPT !.heard = {r}, !.end = "kept"]
        BY <2>2, <2>3 DEF SigfwdForeign
      <3>2. v.heard = {r} /\ v.end = "kept"
        BY <1>0, <3>1 DEF WalkT
      <3> QED
        BY <3>2 DEF Arrived
    <2>4. CASE x # r /\ y \in {DFL, IGN}
      <3>1. v = [w EXCEPT !.end = "ignored"]
        BY <2>1, <2>2, <2>4 DEF SigfwdForeign
      <3>2. v.end = "ignored"
        BY <1>0, <3>1 DEF WalkT
      <3>3. y \notin Runtime /\ y # Reporter
        BY <2>4 DEF Base
      <3>4. y \notin Nodes("preempt")
        BY <3>3 DEF Nodes
      <3> QED
        BY <2>4, <3>2, <3>4 DEF Arrived, Sent
    <2>5. CASE x # r /\ y \notin {DFL, IGN}
      <3>1. v = [w EXCEPT !.at = y]
        BY <2>1, <2>2, <2>5 DEF SigfwdForeign
      <3> QED
        BY <1>0, <2>1, <2>5, <3>1 DEF Sent, WalkT
    <2> QED
      BY <2>3, <2>4, <2>5
  <1>3. CASE x \in Runtime /\ x \notin Loaded
    <2>0. x # Reporter /\ x \in mapped /\ x # r
      BY <1>0, <1>3, NodeIs
    <2> DEFINE e == ent[x]["preempt"]
               own == SigfwdForeign(w, r)
    <2>1. v = Stub(w, x, "preempt", own)
      BY <1>0, <1>3, <2>0 DEF Sent, Call
    <2>2. CASE e.kind = "unmarked"
      <3>1. e.fn \in Handler /\ y = e.fn /\ y # None
        BY <1>0, <1>3, <2>0, <2>2, NodeIs DEF Handler
      <3>2. v = [w EXCEPT !.at = y]
        BY <2>1, <2>2, <3>1 DEF Stub, Sent
      <3> QED
        BY <1>0, <2>0, <3>1, <3>2 DEF Sent, WalkT
    <2>3. CASE e.kind \in {"ignore", "default"}
      <3>1. y = None
        BY <1>0, <1>3, <2>0, <2>3, NodeIs
      <3>2. v = [w EXCEPT !.end = IF e.kind = "ignore" THEN "ignored" ELSE "default"]
        BY <2>1, <2>3 DEF Stub, Sent
      <3>3. v.end \in {"ignored", "default"}
        BY <1>0, <3>2 DEF WalkT
      <3>4. y \notin Nodes("preempt")
        BY <3>1 DEF Nodes
      <3> QED
        BY <2>0, <3>3, <3>4 DEF Arrived, Sent
    <2>4. e.kind \in {"unmarked", "ignore", "default"}
      BY <1>0, <1>3, <2>0, NodeIs
    <2> QED
      BY <2>2, <2>3, <2>4
  <1> QED
    BY <1>0, <1>1, <1>2, <1>3, NodeIs

(* So a preemption request arrives at the runtime that sent it. *)
LEMMA PreemptEnds ==
    ASSUME TypeOK, ChainInv, NEW r \in Loaded
    PROVE  Preempt(r).end \notin {"walk", "crash"} /\ Preempt(r).heard = {r}
  <1> USE Names
  <1> DEFINE link == LinkMap("preempt")
             nodes == Nodes("preempt")
  <1>0. r \in Runtime /\ r \in nodes
    BY DEF Loaded, ChainInv, StubsExact, Nodes
  <1>1. PICK k \in 0 .. Hops - 1 : \E p \in [0 .. k -> Handler \cup {None}] :
           IsPath(link, nodes, k, p) /\ nodes \subseteq First(p, k)
    BY SigPath DEF Sig, First
  <1>2. PICK p \in [0 .. k -> Handler \cup {None}] : IsPath(link, nodes, k, p) /\ nodes \subseteq First(p, k)
    BY <1>1
  <1>3. PICK f \in [0 .. Hops -> WalkT] :
           /\ f[0] = Start("preempt") /\ Preempt(r) = f[Hops]
           /\ \A n \in 0 .. Hops - 1 : f[n + 1] = PreemptNext(r, f[n])
    BY <1>0, PreemptIs
  <1>4. Hops \in Nat /\ k \in Nat /\ k + 1 \in 0 .. Hops
    BY HopsNat, <1>1
  <1> DEFINE Done(n) == \E m \in 0 .. k : Arrived(r, f[n], p[m], First(p, m))
             T == {n \in 0 .. k : Sent(r, f[n], p[n], First(p, n)) \/ Done(n)}
             D == {i \in 0 .. Hops - k : Done(k + i)}
  <1>5. \A n \in 0 .. Hops - 1 : Done(n) => Done(n + 1)
    <2>1. ASSUME NEW n \in 0 .. Hops - 1, NEW m \in 0 .. k, Arrived(r, f[n], p[m], First(p, m)) PROVE f[n + 1] = f[n]
      BY <1>3, <2>1 DEF Arrived, PreemptNext
    <2> QED
      BY <2>1
  <1>6. 0 \in T
    <2>1. p[0] = top["preempt"] /\ top["preempt"] # None
      BY <1>2, LinkIs DEF IsPath, Sig, TypeOK, Handler, Base
    <2>2. First(p, 0) = {}
      BY DEF First
    <2>3. f[0] \in WalkT
      BY <1>3, <1>4
    <2> QED
      BY <1>3, <1>4, <2>1, <2>2, <2>3 DEF Sent, Start
  <1>7. ASSUME NEW n \in 0 .. k - 1, n \in T PROVE n + 1 \in T
    <2>1. n \in 0 .. Hops - 1 /\ n + 1 \in 0 .. k /\ n \in 0 .. k
      BY <1>4
    <2>2. CASE Done(n)
      BY <1>5, <2>1, <2>2
    <2>3. CASE Sent(r, f[n], p[n], First(p, n))
      <3>1. p[n] \in nodes /\ p[n + 1] = link[p[n]] /\ First(p, n + 1) = First(p, n) \cup {p[n]}
        BY <1>2, <1>4 DEF IsPath, First
      <3>2. f[n + 1] = PreemptNext(r, f[n])
        BY <1>3, <2>1
      <3>4. \/ Sent(r, PreemptNext(r, f[n]), LinkMap("preempt")[p[n]], First(p, n) \cup {p[n]})
            \/ Arrived(r, PreemptNext(r, f[n]), p[n], First(p, n))
        BY <2>3, <3>1, PreemptStep
      <3>3. \/ Sent(r, f[n + 1], p[n + 1], First(p, n + 1))
            \/ Arrived(r, f[n + 1], p[n], First(p, n))
        BY <3>1, <3>2, <3>4
      <3> QED
        BY <2>1, <3>3
    <2> QED
      BY <1>7, <2>2, <2>3
  <1>8. k \in T
    <2> HIDE DEF T
    <2>1. 0 .. k \subseteq T
      BY <1>4, <1>6, <1>7, UpTo
    <2> QED
      BY <1>4, <2>1
  <1>9. Done(k)
    <2>1. r \in First(p, k)
      BY <1>0, <1>2
    <2> QED
      BY <1>8, <2>1 DEF Sent
  <1>10. Done(Hops)
    <2> DEFINE N == Hops - k
    <2>1. N \in Nat
      BY <1>4
    <2>2. 0 \in D
      BY <1>4, <1>9
    <2>3. ASSUME NEW i \in 0 .. N - 1, i \in D PROVE i + 1 \in D
      <3>1. k + i \in 0 .. Hops - 1 /\ k + (i + 1) = k + i + 1 /\ i + 1 \in 0 .. N
        BY <1>4
      <3> QED
        BY <1>5, <2>3, <3>1
    <2>4. N \in D
      <3> HIDE DEF D, N
      <3>1. 0 .. N \subseteq D
        BY <2>1, <2>2, <2>3, UpTo
      <3> QED
        BY <2>1, <3>1
    <2>5. k + N = Hops
      BY <1>4
    <2> QED
      BY <2>4, <2>5
  <1>11. PICK m \in 0 .. k : Arrived(r, Preempt(r), p[m], First(p, m))
    BY <1>3, <1>10
  <1>12. ASSUME r \notin First(p, m) \cup {p[m]}, p[m] \notin nodes \/ link[p[m]] \notin nodes PROVE FALSE
    <2>1. CASE m = k
      BY <1>0, <1>2, <1>12, <2>1
    <2>2. CASE m # k
      <3>1. m \in 0 .. k - 1
        BY <1>4, <2>2
      <3>2. p[m] \in nodes /\ p[m + 1] \notin nodes
        BY <1>2, <1>12, <3>1 DEF IsPath
      <3>3. m + 1 = k
        BY <1>2, <1>4, <3>1, <3>2 DEF IsPath
      <3>4. First(p, k) = First(p, m) \cup {p[m]}
        BY <1>4, <3>3 DEF First
      <3> QED
        BY <1>0, <1>2, <1>12, <3>4
    <2> QED
      BY <2>1, <2>2
  <1> QED
    BY <1>11, <1>12 DEF Arrived

(* InChain has every handler of the chain, and but for these only what ends *)
(* it.                                                                      *)
LEMMA InChainIs ==
    ASSUME TypeOK, ChainInv
    PROVE  Nodes("notify") \subseteq InChain /\ Runtime \cap InChain \subseteq Nodes("notify")
  <1> USE Names
  <1> DEFINE link == LinkMap("notify")
             nodes == Nodes("notify")
             A == Handler \cup {None}
             Add(q) == q \cup {Link(h, "notify") : h \in q \ {None}}
             step == [q \in SUBSET A |-> Add(q)]
             IsUpto(g) == g = [n \in 0 .. Hops |-> IF n = 0 THEN {top["notify"]} ELSE Add(g[n - 1])]
             R == CHOOSE g : IsUpto(g)
  <1>0. Hops \in Nat
    BY HopsNat
  <1>1. {top["notify"]} \in SUBSET A /\ \A q \in SUBSET A : Add(q) \in SUBSET A
    <2>1. ASSUME NEW h \in Handler PROVE Link(h, "notify") \in A
      BY DEF TypeOK, Link, Loaded, Gone, Handler, Base, Sig
    <2> QED
      BY <2>1 DEF TypeOK, Sig
  <1>2. InChain = R[Hops]
    BY DEF InChain
  <1> HIDE DEF Add, A
  <1>3. step \in [SUBSET A -> SUBSET A]
    BY <1>1
  <1> HIDE DEF step
  <1>4. PICK g \in [0 .. Hops -> SUBSET A] :
           \A n \in 0 .. Hops : g[n] = IF n = 0 THEN {top["notify"]} ELSE step[g[n - 1]]
    <2>1. Recursive(Hops, SUBSET A, {top["notify"]}, step)
      BY <1>0, <1>1, <1>3, Recursion
    <2> QED
      BY <2>1 DEF Recursive
  <1>5. ASSUME NEW n \in 0 .. Hops, n # 0 PROVE step[g[n - 1]] = Add(g[n - 1])
    <2>1. n - 1 \in 0 .. Hops
      BY <1>0, <1>5
    <2> QED
      BY <1>4, <2>1 DEF step
  <1>6. IsUpto(g)
    BY <1>4, <1>5
  <1> HIDE DEF IsUpto
  <1>7. IsUpto(R)
    BY <1>6
  <1> HIDE DEF R
  <1>8. R[0] = {top["notify"]} /\ \A n \in 0 .. Hops - 1 : R[n + 1] = Add(R[n])
    <2>1. \A n \in 0 .. Hops : R[n] = IF n = 0 THEN {top["notify"]} ELSE Add(R[n - 1])
      BY <1>7 DEF IsUpto
    <2> QED
      BY <1>0, <2>1
  <1>9. ChainFor("notify") /\ link[None] = top["notify"] /\ \A x \in Links : link[x] = Link(x, "notify")
    BY LinkIs DEF ChainInv, LinksExact, Sig, LinkMap
  \* Only handlers of the chain, and what ends it.
  <1> DEFINE Only == {h \in Handler \cup {None} : h \in Inner => h \in nodes}
             T == {n \in 0 .. Hops : R[n] \subseteq Only}
  <1>10. ASSUME NEW h \in Only, h # None PROVE Link(h, "notify") \in Only
    <2>1. CASE h \in Links
      <3>1. link[h] = Link(h, "notify") /\ (link[h] \in Inner => link[h] \in nodes)
        BY <1>9, <2>1 DEF ChainFor, Exact, Inner
      <3>2. Link(h, "notify") \in Handler \cup {None}
        BY <2>1, <1>10 DEF TypeOK, Link, Loaded, Gone, Handler, Base, Sig, Links
      <3> QED
        BY <3>1, <3>2
    <2>2. CASE h \notin Links
      <3>1. Link(h, "notify") = None
        BY <2>2 DEF Link, Links, Loaded, Gone
      <3> QED
        BY <3>1 DEF Inner
    <2> QED
      BY <2>1, <2>2
  <1>11. R[Hops] \subseteq Only
    <2>1. 0 \in T
      <3>1. top["notify"] \in Only
        BY <1>9 DEF TypeOK, Sig, ChainFor, Exact, Inner, Links
      <3> QED
        BY <1>0, <1>8, <3>1
    <2>2. \A n \in 0 .. Hops - 1 : n \in T => n + 1 \in T
      BY <1>0, <1>8, <1>10 DEF Add
    <2> HIDE DEF T
    <2>3. 0 .. Hops \subseteq T
      BY <1>0, <2>1, <2>2, UpTo
    <2> QED
      BY <1>0, <2>3 DEF T
  \* All handlers of the chain.
  <1>12. PICK k \in 0 .. Hops - 1 : \E p \in [0 .. k -> Handler \cup {None}] :
           IsPath(link, nodes, k, p) /\ nodes \subseteq First(p, k)
    BY SigPath DEF Sig, First
  <1>13. PICK p \in [0 .. k -> Handler \cup {None}] : IsPath(link, nodes, k, p) /\ nodes \subseteq First(p, k)
    BY <1>12
  <1> DEFINE U == {n \in 0 .. Hops : First(p, IF n < k THEN n + 1 ELSE k) \subseteq R[n]}
  <1>14. First(p, k) \subseteq R[Hops]
    <2>1. 0 \in U
      <3>1. p[0] = top["notify"]
        BY <1>9, <1>13 DEF IsPath
      <3> QED
        BY <1>0, <1>8, <1>12, <3>1 DEF First
    <2>2. ASSUME NEW n \in 0 .. Hops - 1, n \in U PROVE n + 1 \in U
      <3>1. R[n + 1] = Add(R[n])
        BY <1>8
      <3>2. CASE n + 1 < k
        <4>0. n \in 0 .. k - 1 /\ p[n + 1] = link[p[n]] /\ p[n] \in nodes
          BY <1>0, <1>12, <1>13, <3>2 DEF IsPath
        <4>5. nodes \subseteq Links \ {None}
          BY Names DEF Nodes, Links
        <4>1. p[n + 1] = Link(p[n], "notify") /\ p[n] \in nodes /\ p[n] # None
          BY <1>9, <4>0, <4>5
        <4>2. p[n] \in R[n]
          BY <1>0, <2>2, <3>2 DEF First
        <4>3. First(p, n + 1 + 1) = First(p, n + 1) \cup {p[n + 1]}
          BY <1>0 DEF First
        <4>4. First(p, n + 1) \subseteq R[n]
          BY <1>0, <1>12, <2>2, <3>2
        <4> QED
          BY <1>0, <1>12, <2>2, <3>1, <3>2, <4>1, <4>2, <4>3, <4>4 DEF Add
      <3>3. CASE ~(n + 1 < k)
        <4>1. First(p, k) \subseteq R[n]
          <5>1. CASE n < k
            <6>1. n + 1 = k
              BY <1>0, <1>12, <3>3, <5>1
            <6> QED
              BY <2>2, <5>1, <6>1
          <5>2. CASE ~(n < k)
            BY <2>2, <5>2
          <5> QED
            BY <5>1, <5>2
        <4> QED
          BY <1>0, <3>1, <3>3, <4>1 DEF Add
      <3> QED
        BY <3>2, <3>3
    <2> HIDE DEF U
    <2>3. 0 .. Hops \subseteq U
      BY <1>0, <2>1, <2>2, UpTo
    <2> QED
      BY <1>0, <1>12, <2>3 DEF U
  <1> QED
    BY <1>2, <1>11, <1>13, <1>14 DEF Inner

(* For any number of runtimes: however often Notify is called, whatever is  *)
(* unloaded, a signal's walk down the chain ends, and jumps neither into an *)
(* unmapped stub nor into a library that is gone.                           *)
THEOREM WalksEnd == ASSUME Ordered PROVE Spec => []DeliveryEnds
  <1>1. TypeOK /\ ChainInv => DeliveryEnds
    BY DeliverEnds, PreemptEnds DEF DeliveryEnds
  <1> QED
    BY <1>1, Chains, PTL

(* The handler that the host had, or the default action, never sees a       *)
(* signal that a runtime has kept.                                          *)
THEOREM HostSpared == ASSUME Ordered PROVE Spec => []MarkedStay
  <1>1. TypeOK /\ ChainInv => MarkedStay
    BY DeliverEnds DEF MarkedStay
  <1> QED
    BY <1>1, Chains, PTL

(* When nobody listens, the signal does what it did before the first        *)
(* library was loaded, unless one has called Ignore.                        *)
THEOREM SignalGivenBack == ASSUME Ordered PROVE Spec => []GivenBack
  <1>1. TypeOK /\ ChainInv => GivenBack
    BY DeliverEnds DEF GivenBack
  <1> QED
    BY <1>1, Chains, PTL

(* A runtime's preemption requests reach it, however many runtimes and      *)
(* stubs are above it in the chain.                                         *)
THEOREM PreemptionArrives == ASSUME Ordered PROVE Spec => []PreemptArrives
  <1>1. TypeOK /\ ChainInv => PreemptArrives
    BY PreemptEnds DEF PreemptArrives
  <1> QED
    BY <1>1, Chains, PTL

(* forgoSigHandler is set exactly in the runtimes whose handler a walk from *)
(* the top of the chain comes to.                                           *)
THEOREM RecordsChain == ASSUME Ordered PROVE Spec => []HandlersChained
  <1>1. ASSUME TypeOK, ChainInv PROVE HandlersChained
    <2> SUFFICES ASSUME Quiet, NEW r \in Loaded PROVE handler[r] # None <=> r \in InChain
      BY DEF HandlersChained
    <2>1. r \in Runtime /\ life[r] = "loaded" /\ pc[r] = "idle"
      BY DEF Loaded, Quiet
    <2>2. handler[r] # None <=> "notify" \in stubbed[r]
      BY <1>1, <2>1, Names DEF ChainInv, StubsExact
    <2>3. r \in Nodes("notify") <=> "notify" \in stubbed[r]
      BY <2>1, Names DEF Nodes
    <2> QED
      BY <1>1, <2>1, <2>2, <2>3, InChainIs
  <1> QED
    BY <1>1, Chains, PTL

(* A Notify signal reaches every runtime that asked for it, in whatever     *)
(* order runtimes were loaded, enabled, reset and unloaded, as long as no C *)
(* handler stands between them and no call came in the ways Race names.     *)
THEOREM EveryoneHears == ASSUME Race = {} PROVE Spec => []AllHear
  <1>1. TypeOK /\ ChainInv /\ AboveExact => AllHear
    BY DeliverEnds DEF AllHear, AllKnow
  <1> QED
    BY <1>1, Aboves, PTL

=============================================================================
