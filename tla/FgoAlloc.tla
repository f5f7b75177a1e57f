------------------------------ MODULE FgoAlloc ------------------------------
(***************************************************************************)
(* The nogc allocator: per-M caches of free blocks by size class, linked   *)
(* through their headers' rc words, the shared stack of spare batches, the *)
(* shared lists of the classes too large for the caches, chunks carved     *)
(* from the arena, and reuse of a dying object's memory in place.          *)
(*                                                                         *)
(* A class is a block's size in units of fgoRCAlign; an address is a       *)
(* unit's number in the arena, from 1.  An object is allocated on one M    *)
(* and may be freed on another, as goroutines move.  What an M does with   *)
(* its own cache needs no lock; only fgoRCRefill looks at shared state     *)
(* before it takes fgoRC.lock.                                             *)
(***************************************************************************)
EXTENDS Integers, Sequences, FiniteSets

CONSTANTS
    M,              \* the runtime's Ms
    fgoRCClasses,   \* size classes 1..fgoRCClasses
    fgoRCCached,    \* the classes the caches serve
    fgoRCChunk,     \* units an M carves at a time
    MaxChunks,      \* chunks the arena has room for
    fgoRCSpares,    \* spare batches per class, before they are merged
    fgoRCKeep,      \* units of free memory of a class an M keeps
    MaxLive,        \* how far a live counter may be from 0
    MayExit         \* whether Ms exit

ASSUME ConstAssumption ==
    /\ fgoRCClasses \in Nat \ {0} /\ fgoRCCached \in 0..fgoRCClasses
    /\ fgoRCChunk \in Nat /\ fgoRCChunk >= fgoRCClasses
    /\ MaxChunks \in Nat /\ fgoRCKeep \in Nat /\ MaxLive \in Nat
    /\ fgoRCSpares \in Nat \ {0}
    /\ MayExit \in BOOLEAN

Class == 1..fgoRCClasses
Cached == 1..fgoRCCached
Addr == 1..(fgoRCChunk * MaxChunks)
Shared == "fgoRC"           \* the owner of what fgoRC.lock guards
Owner == M \cup {Shared}
NoList == [head |-> 0, tail |-> 0, n |-> 0]
NoChunk == [next |-> 1, end |-> 1]

VARIABLES
    list,       \* free, tail and nfree of each M's cache, by class
    large,      \* fgoRC.free of the classes that are not cached
    spare,      \* fgoRC.spare[:nspare], by class
    chunk,      \* the chunk each M, and fgoRC, carves
    next,       \* fgoArena.next, in chunks handed out
    link,       \* the rc word of a free block: the next one, or 0 (0 in use)
    class,      \* a block's class: 0 where none was carved
    obj,        \* objects in use
    token,      \* reuse tokens: dying objects whose memory is kept
    live,       \* each M's live counter, and fgoRC's
    refill,     \* the class an M has seen spare batches for, or 0
    gone        \* Ms that have exited: they are no longer in allm

vars == <<list, large, spare, chunk, next, link, class, obj, token, live, refill, gone>>

Running(m) == m \in M \ gone /\ refill[m] = 0
keep(c) == fgoRCKeep \div c

(* rc.live++ and rc.live--, of an M's counter or of fgoRC's.  An M that     *)
(* frees what others allocate counts below 0.                               *)
Counts(o, d) ==
    /\ live[o] + d \in -MaxLive..MaxLive
    /\ live' = [live EXCEPT ![o] = @ + d]

-----------------------------------------------------------------------------
(* fgoRCTake, carving only: the rest of a chunk too small for the block is  *)
(* given up.                                                                *)
Fits(o, c) == chunk[o].next + c <= chunk[o].end
CarveAt(o, c) == IF Fits(o, c) THEN chunk[o].next ELSE next * fgoRCChunk + 1

Carve(o, c) ==
    /\ Fits(o, c) \/ next < MaxChunks
    /\ chunk' = [chunk EXCEPT ![o] =
                   [next |-> CarveAt(o, c) + c,
                    end |-> IF Fits(o, c) THEN @.end ELSE (next + 1) * fgoRCChunk + 1]]
    /\ next' = IF Fits(o, c) THEN next ELSE next + 1
    /\ class' = [class EXCEPT ![CarveAt(o, c)] = c]

(* A free list without its first block.                                     *)
Popped(l) == [head |-> link[l.head],
              tail |-> IF link[l.head] = 0 THEN 0 ELSE l.tail,
              n |-> l.n - 1]

(* fgoRCTakeCached from a list that is not empty.  The block's rc word then *)
(* holds its count, no link.                                                *)
TakeFrom(m, c, l) ==
    /\ list' = [list EXCEPT ![m][c] = Popped(l)]
    /\ link' = [link EXCEPT ![l.head] = 0]
    /\ obj' = obj \cup {l.head}
    /\ Counts(m, 1)
    /\ UNCHANGED <<large, chunk, next, class, token, gone>>

CarveNew(o, c) ==
    /\ Carve(o, c)
    /\ obj' = obj \cup {CarveAt(o, c)}
    /\ Counts(o, 1)
    /\ UNCHANGED <<list, large, spare, link, token, gone>>

(* fgoRCAllocZ and fgoBufAlloc of a cached class.  With an empty list       *)
(* fgoRCRefill looks for spare batches, without the lock.                   *)
AllocCached(m, c) ==
    /\ Running(m) /\ c \in Cached
    /\ \/ list[m][c].head # 0 /\ TakeFrom(m, c, list[m][c]) /\ UNCHANGED <<spare, refill>>
       \/ list[m][c].head = 0 /\ spare[c] = <<>> /\ CarveNew(m, c) /\ UNCHANGED refill
       \/ /\ list[m][c].head = 0 /\ spare[c] # <<>>
          /\ refill' = [refill EXCEPT ![m] = c]
          /\ UNCHANGED <<list, large, spare, chunk, next, link, class, obj, token, live, gone>>

(* Under fgoRC.lock: another M may have taken the last batch meanwhile.     *)
fgoRCRefill(m) ==
    LET c == refill[m]  k == Len(spare[c])
    IN  /\ c # 0
        /\ refill' = [refill EXCEPT ![m] = 0]
        /\ \/ k # 0 /\ TakeFrom(m, c, spare[c][k])
                    /\ spare' = [spare EXCEPT ![c] = SubSeq(@, 1, k - 1)]
           \/ k = 0 /\ CarveNew(m, c)

(* The larger classes, under fgoRC.lock.                                    *)
AllocLarge(m, c) ==
    /\ Running(m) /\ c \notin Cached
    /\ \/ /\ large[c] # 0
          /\ large' = [large EXCEPT ![c] = link[large[c]]]
          /\ link' = [link EXCEPT ![large[c]] = 0]
          /\ obj' = obj \cup {large[c]}
          /\ Counts(Shared, 1)
          /\ UNCHANGED <<list, spare, chunk, next, class, token, gone>>
       \/ large[c] = 0 /\ CarveNew(Shared, c)
    /\ UNCHANGED refill

-----------------------------------------------------------------------------
(* fgoRCSpare: a list moves whole onto the spare stack, or, when that is    *)
(* full, in front of its top batch.                                         *)
fgoRCSpareLost(c, l, s) ==
    IF Len(s) < fgoRCSpares
      THEN [spare |-> Append(s, l), link |-> 0]
      ELSE [spare |-> [s EXCEPT ![Len(s)] = [head |-> l.head, tail |-> @.tail, n |-> l.n + @.n]],
            link |-> 0]
fgoRCSpareUnbounded(c, l, s) == [spare |-> Append(s, l), link |-> 0]
fgoRCSpareDropped(c, l, s) ==
    IF Len(s) < fgoRCSpares
      THEN [spare |-> Append(s, l), link |-> 0]
      ELSE [spare |-> s, link |-> 0]
fgoRCSpare(c, l, s) ==
    IF Len(s) < fgoRCSpares
      THEN [spare |-> Append(s, l), link |-> 0]
      ELSE [spare |-> [s EXCEPT ![Len(s)] = [head |-> l.head, tail |-> @.tail, n |-> l.n + @.n]],
            link |-> s[Len(s)].head]

(* fgoRCFreeClass: block b goes to the front of m's list, which moves to    *)
(* the spare batches when it has grown past keep.                           *)
Pushed(l, b) == [head |-> b, tail |-> IF l.head = 0 THEN b ELSE l.tail, n |-> l.n + 1]

fgoRCFreeClass(m, b, c) ==
    IF c \in Cached
      THEN LET l == Pushed(list[m][c], b)
               linked == [link EXCEPT ![b] = list[m][c].head]
               moved == fgoRCSpare(c, l, spare[c])
           IN  /\ IF l.n > keep(c)
                    THEN /\ spare' = [spare EXCEPT ![c] = moved.spare]
                         /\ link' = [linked EXCEPT ![l.tail] = moved.link]
                         /\ list' = [list EXCEPT ![m][c] = NoList]
                    ELSE /\ link' = linked
                         /\ list' = [list EXCEPT ![m][c] = l]
                         /\ UNCHANGED spare
               /\ Counts(m, -1)
               /\ UNCHANGED large
      ELSE /\ link' = [link EXCEPT ![b] = large[c]]
           /\ large' = [large EXCEPT ![c] = b]
           /\ Counts(Shared, -1)
           /\ UNCHANGED <<list, spare>>

(* fgoRCFree and fgoBufFree, on whatever M the goroutine runs.              *)
fgoRCFree(m, b) ==
    /\ Running(m) /\ b \in obj
    /\ fgoRCFreeClass(m, b, class[b])
    /\ obj' = obj \ {b}
    /\ UNCHANGED <<chunk, next, class, token, refill, gone>>

-----------------------------------------------------------------------------
(* fgoRCDropReuse and its kin: the object dies, its memory is kept.         *)
fgoRCDropReuseDiscount(m, b) ==
    /\ Running(m) /\ b \in obj
    /\ obj' = obj \ {b}
    /\ token' = token \cup {b}
    /\ Counts(m, -1)
    /\ UNCHANGED <<list, large, spare, chunk, next, link, class, refill, gone>>
fgoRCDropReuse(m, b) ==
    /\ Running(m) /\ b \in obj
    /\ obj' = obj \ {b}
    /\ token' = token \cup {b}
    /\ UNCHANGED <<list, large, spare, chunk, next, link, class, live, refill, gone>>

(* fgoRCNewAt: a token of the right class becomes the new object; any other *)
(* is freed, and after releasem, so perhaps on another M, the goroutine     *)
(* goes on to fgoRCAllocZ: AllocCached or AllocLarge.                       *)
SameClassAny(b, c) == TRUE
SameClass(b, c) == class[b] = c

fgoRCNewAt(m, b, c) ==
    /\ Running(m) /\ b \in token
    /\ token' = token \ {b}
    /\ IF SameClass(b, c)
         THEN /\ obj' = obj \cup {b}
              /\ class' = [class EXCEPT ![b] = c]
              /\ UNCHANGED <<list, large, spare, link, live>>
         ELSE /\ fgoRCFreeClass(m, b, class[b])
              /\ UNCHANGED <<obj, class>>
    /\ UNCHANGED <<chunk, next, refill, gone>>

(* An M exits (a goroutine locked to its thread ends) and leaves allm:      *)
(* nothing looks at its cache or its counter again.                         *)
mexit(m) ==
    /\ MayExit /\ Running(m) /\ gone \cup {m} # M
    /\ gone' = gone \cup {m}
    /\ UNCHANGED <<list, large, spare, chunk, next, link, class, obj, token, live, refill>>

-----------------------------------------------------------------------------
Init ==
    /\ list = [m \in M |-> [c \in Cached |-> NoList]]
    /\ large = [c \in Class \ Cached |-> 0]
    /\ spare = [c \in Cached |-> <<>>]
    /\ chunk = [o \in Owner |-> NoChunk]
    /\ next = 0
    /\ link = [a \in Addr |-> 0]
    /\ class = [a \in Addr |-> 0]
    /\ obj = {} /\ token = {}
    /\ live = [o \in Owner |-> 0]
    /\ refill = [m \in M |-> 0]
    /\ gone = {}

Next ==
    \E m \in M :
      \/ fgoRCRefill(m) \/ mexit(m)
      \/ \E c \in Class : AllocCached(m, c) \/ AllocLarge(m, c)
      \/ \E b \in Addr : fgoRCFree(m, b) \/ fgoRCDropReuse(m, b)
      \/ \E b \in Addr, c \in Class : fgoRCNewAt(m, b, c)

Spec == Init /\ [][Next]_vars

-----------------------------------------------------------------------------
(* Properties.                                                              *)

FreeList == [head : Addr \cup {0}, tail : Addr \cup {0}, n : Int]

(* The model's variables have the types the code gives them.                *)
TypeOK ==
    /\ list \in [M -> [Cached -> FreeList]]
    /\ large \in [Class \ Cached -> Addr \cup {0}]
    /\ spare \in [Cached -> Seq(FreeList)]
    /\ \A c \in Cached : Len(spare[c]) <= fgoRCSpares
    /\ chunk \in [Owner -> [next : Nat, end : Nat]]
    /\ next \in 0..MaxChunks
    /\ link \in [Addr -> Addr \cup {0}]
    /\ class \in [Addr -> Class \cup {0}]
    /\ obj \subseteq Addr /\ token \subseteq Addr
    /\ live \in [Owner -> -MaxLive..MaxLive]
    /\ refill \in [M -> Cached \cup {0}] /\ gone \subseteq M

(* The blocks of the list that starts at h: the least set with h, closed    *)
(* under link.                                                              *)
Nodes(h) ==
    LET at[i \in 0..Cardinality(Addr)] ==
          IF i = 0 THEN h ELSE LET b == at[i-1] IN IF b = 0 THEN 0 ELSE link[b]
    IN  {at[i] : i \in DOMAIN at} \ {0}

(* Every free list of a cached class: of an M, or a spare batch.            *)
Lists(c) == {list[m][c] : m \in M} \cup {spare[c][i] : i \in 1..Len(spare[c])}

(* A list's tail is its last block and its n its length, so that moving it  *)
(* whole or joining two loses no block: an M trusts both without walking it.*)
ListsExact ==
    \A c \in Cached : \A l \in Lists(c) :
        /\ l.n = Cardinality(Nodes(l.head))
        /\ IF l.head = 0 THEN l.tail = 0 ELSE l.tail \in Nodes(l.head) /\ link[l.tail] = 0
        /\ \A b \in Nodes(l.head) : class[b] = c

(* The places a block can be in, the lists of the Ms in ms among them, each *)
(* with the blocks it holds.                                                *)
Places(ms) ==
    {<<<<"obj">>, obj>>, <<<<"token">>, token>>}
    \cup {<<<<"list", m, c>>, Nodes(list[m][c].head)>> : m \in ms, c \in Cached}
    \cup {<<<<"large", c>>, Nodes(large[c])>> : c \in Class \ Cached}
    \cup UNION {{<<<<"spare", c, i>>, Nodes(spare[c][i].head)>> : i \in 1..Len(spare[c])} :
                  c \in Cached}

Carved == {a \in Addr : class[a] # 0}
Extent(b) == b..(b + class[b] - 1)

(* Memory is handed out once: no two blocks overlap, none lies in what is   *)
(* left of a chunk, and no block is in two places.                          *)
Disjoint ==
    /\ \A a, b \in Carved : a # b => Extent(a) \cap Extent(b) = {}
    /\ \A b \in Carved : \A o \in Owner :
         Extent(b) \cap (chunk[o].next..(chunk[o].end - 1)) = {}
    /\ \A p, q \in Places(M) : p[1] # q[1] => p[2] \cap q[2] = {}

(* What was free in an M's cache when it exited.                            *)
Stranded == UNION {Nodes(list[m][c].head) : m \in gone, c \in Cached}

(* No memory is lost but what exited Ms kept: each other block ever carved  *)
(* is in use, kept for reuse, or on a list from which an allocation will    *)
(* take it, that of an M that runs or one they share.                       *)
NoLeak == UNION {p[2] : p \in Places(M \ gone)} = Carved \ Stranded

(* The sum of the live counters of the owners in S: what those above 0      *)
(* count, less what those below 0 do.                                       *)
Units(f, S) == UNION {{<<o, i>> : i \in 1..f[o]} : o \in S}
Total(S) == Cardinality(Units(live, S)) - Cardinality(Units([o \in S |-> -live[o]], S))

(* fgoRCStats walks allm: the counters of the Ms that run, and fgoRC's.     *)
fgoRCStats == Total(Owner \ gone)

(* What nogc.Live reports is wrong by what the exited Ms' counters held and *)
(* by no more: with them it is the number of objects in use and to be       *)
(* reused, whichever Ms they were allocated and freed on.                   *)
LiveExact == fgoRCStats + Total(gone) = Cardinality(obj) + Cardinality(token)

(* nogc.go:89-90: "Live reports how many nogc objects and string buffers    *)
(* are allocated and not yet freed."  An M that exits breaks it.            *)
LiveReported == fgoRCStats = Cardinality(obj) + Cardinality(token)

(* forgo_rc.go:149-152: "So that memory freed on one M is not stranded      *)
(* there while another M carves new chunks, a free list that grows past     *)
(* fgoRCKeep bytes moves" to the spare batches: no M carves a new chunk     *)
(* while blocks are out of reach on another's lists.  One that exits leaves *)
(* its lists as they are, which breaks it.                                  *)
NotStranded == [][next' # next => Stranded = {}]_vars
=============================================================================
