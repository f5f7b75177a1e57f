--------------------------- MODULE FgoAllocProofs ---------------------------
(* The nogc allocator hands out each piece of memory once and loses none    *)
(* (FgoAlloc), for every number of Ms, classes and chunks.                  *)
EXTENDS FgoAlloc, Lemmas, FiniteSetTheorems

(***************************************************************************)
(* The inductive invariant.  The free lists are links through the blocks    *)
(* themselves; what they hold is told by two functions the program does not *)
(* have: the place each block is in, and its position in the list there,    *)
(* counted from the list's end, so that a push or a pop at the front moves  *)
(* no other block.                                                          *)
(***************************************************************************)

Nowhere == <<"nowhere">>
AtObj == <<"obj">>
AtToken == <<"token">>
AtList(m, c) == <<"list", m, c>>
AtLarge(c) == <<"large", c>>
AtSpare(c, i) == <<"spare", c, i>>

\* From h, the links lk lead through the n blocks of place p, in order.
Chain(home, pos, lk, p, h, n) ==
    /\ n \in Nat
    /\ IF n = 0 THEN h = 0 ELSE h \in Addr /\ home[h] = p /\ pos[h] = n
    /\ \A a \in Addr : home[a] = p =>
          /\ pos[a] \in 1 .. n
          /\ IF pos[a] = 1 THEN lk[a] = 0
             ELSE lk[a] \in Addr /\ home[lk[a]] = p /\ pos[lk[a]] = pos[a] - 1
    /\ \A a, b \in Addr : home[a] = p /\ home[b] = p /\ pos[a] = pos[b] => a = b
    /\ \A i \in 1 .. n : \E a \in Addr : home[a] = p /\ pos[a] = i

\* The list l holds the blocks of place p, all of class c.
Listed(home, pos, lk, cl, p, l, c) ==
    /\ Chain(home, pos, lk, p, l.head, l.n)
    /\ IF l.head = 0 THEN l.tail = 0 ELSE l.tail \in Addr /\ home[l.tail] = p /\ pos[l.tail] = 1
    /\ \A a \in Addr : home[a] = p => cl[a] = c

\* Each block that was carved is in one place.
Housed(home) ==
    \A a \in Addr :
       /\ class[a] = 0 <=> home[a] = Nowhere
       /\ a \in obj <=> home[a] = AtObj
       /\ a \in token <=> home[a] = AtToken
       /\ \/ home[a] \in {Nowhere, AtObj, AtToken}
          \/ \E m \in M, c \in Cached : home[a] = AtList(m, c)
          \/ \E c \in Class \ Cached : home[a] = AtLarge(c)
          \/ \E c \in Cached : \E i \in 1 .. Len(spare[c]) : home[a] = AtSpare(c, i)

ListsHeld(home, pos) ==
    \A m \in M, c \in Cached : Listed(home, pos, link, class, AtList(m, c), list[m][c], c)
SparesHeld(home, pos) ==
    \A c \in Cached : \A i \in 1 .. Len(spare[c]) :
        spare[c][i].head # 0 /\ Listed(home, pos, link, class, AtSpare(c, i), spare[c][i], c)
LargeHeld(home, pos) ==
    \A c \in Class \ Cached :
        /\ \E n \in Nat : Chain(home, pos, link, AtLarge(c), large[c], n)
        /\ \A a \in Addr : home[a] = AtLarge(c) => class[a] = c

Held(home, pos) ==
    Housed(home) /\ ListsHeld(home, pos) /\ SparesHeld(home, pos) /\ LargeHeld(home, pos)

\* What has been carved lies below the next chunk, and outside what is left of others.
Top == next * fgoRCChunk + 1
Room ==
    /\ \A o \in Owner : 1 <= chunk[o].next /\ chunk[o].next <= chunk[o].end /\ chunk[o].end <= Top
    /\ \A o, q \in Owner : o # q => chunk[o].end <= chunk[q].next \/ chunk[q].end <= chunk[o].next
    /\ \A b \in Carved : b + class[b] <= Top
    /\ \A b \in Carved, o \in Owner : b + class[b] <= chunk[o].next \/ chunk[o].end <= b
    /\ \A a, b \in Carved : a # b => a + class[a] <= b \/ b + class[b] <= a

\* An M that is about to look for spare batches has an empty list.
RefillExact == \A m \in M : refill[m] # 0 => list[m][refill[m]].head = 0

\* The counters of all Ms, those that have exited too, and fgoRC's.
LiveInv ==
    /\ IsFiniteSet(Units(live, Owner)) /\ IsFiniteSet(Units([o \in Owner |-> -live[o]], Owner))
    /\ Total(Owner) = Cardinality(obj) + Cardinality(token)

AllocInv ==
    TypeOK /\ Room /\ (\E home, pos : Held(home, pos)) /\ RefillExact /\ LiveInv

(* The places are different ones. *)
LEMMA PlacesApart ==
    /\ AtObj # AtToken /\ AtObj # Nowhere /\ AtToken # Nowhere
    /\ \A m, c : AtList(m, c) \notin {Nowhere, AtObj, AtToken}
    /\ \A c : AtLarge(c) \notin {Nowhere, AtObj, AtToken}
    /\ \A c, i : AtSpare(c, i) \notin {Nowhere, AtObj, AtToken}
    /\ \A m, c, d : AtList(m, c) # AtLarge(d)
    /\ \A m, c, d, i : AtList(m, c) # AtSpare(d, i)
    /\ \A c, d, i : AtLarge(c) # AtSpare(d, i)
    /\ \A m, c, n, d : AtList(m, c) = AtList(n, d) => m = n /\ c = d
    /\ \A c, d : AtLarge(c) = AtLarge(d) => c = d
    /\ \A c, i, d, j : AtSpare(c, i) = AtSpare(d, j) => c = d /\ i = j
  <1>1. Nowhere[1] = "nowhere" /\ AtObj[1] = "obj" /\ AtToken[1] = "token"
    BY DEF Nowhere, AtObj, AtToken
  <1>2. \A m, c : AtList(m, c)[1] = "list" /\ AtList(m, c)[2] = m /\ AtList(m, c)[3] = c
    BY DEF AtList
  <1>3. \A c : AtLarge(c)[1] = "large" /\ AtLarge(c)[2] = c
    BY DEF AtLarge
  <1>4. \A c, i : AtSpare(c, i)[1] = "spare" /\ AtSpare(c, i)[2] = c /\ AtSpare(c, i)[3] = i
    BY DEF AtSpare
  <1>5. /\ AtObj # AtToken /\ AtObj # Nowhere /\ AtToken # Nowhere
        /\ \A m, c : AtList(m, c) \notin {Nowhere, AtObj, AtToken}
        /\ \A c : AtLarge(c) \notin {Nowhere, AtObj, AtToken}
        /\ \A c, i : AtSpare(c, i) \notin {Nowhere, AtObj, AtToken}
    BY <1>1, <1>2, <1>3, <1>4
  <1>6. /\ \A m, c, d : AtList(m, c) # AtLarge(d)
        /\ \A m, c, d, i : AtList(m, c) # AtSpare(d, i)
        /\ \A c, d, i : AtLarge(c) # AtSpare(d, i)
    BY <1>2, <1>3, <1>4
  <1>7. ASSUME NEW m, NEW c, NEW n, NEW d, AtList(m, c) = AtList(n, d) PROVE m = n /\ c = d
    BY <1>2, <1>7
  <1>8. ASSUME NEW c, NEW d, AtLarge(c) = AtLarge(d) PROVE c = d
    BY <1>3, <1>8
  <1>9. ASSUME NEW c, NEW i, NEW d, NEW j, AtSpare(c, i) = AtSpare(d, j) PROVE c = d /\ i = j
    BY <1>4, <1>9
  <1> QED
    BY <1>5, <1>6, <1>7, <1>8, <1>9, Zenon

-----------------------------------------------------------------------------
(* Chains.                                                                  *)

(* A chain whose blocks all go from p to q, or just stay. *)
LEMMA ChainKeep ==
    ASSUME NEW home, NEW pos, NEW lk, NEW p, NEW h, NEW n, Chain(home, pos, lk, p, h, n),
           NEW home2, NEW pos2, NEW lk2, NEW q,
           \A a \in Addr : home2[a] = q <=> home[a] = p,
           \A a \in Addr : home[a] = p => pos2[a] = pos[a] /\ lk2[a] = lk[a]
    PROVE  Chain(home2, pos2, lk2, q, h, n)
  BY DEF Chain

(* A list that stays. *)
LEMMA ListedKeep ==
    ASSUME NEW home, NEW pos, NEW lk, NEW cl, NEW p, NEW l, NEW c, Listed(home, pos, lk, cl, p, l, c),
           NEW home2, NEW pos2, NEW lk2, NEW cl2,
           \A a \in Addr : home2[a] = p <=> home[a] = p,
           \A a \in Addr : home[a] = p => pos2[a] = pos[a] /\ lk2[a] = lk[a] /\ cl2[a] = cl[a]
    PROVE  Listed(home2, pos2, lk2, cl2, p, l, c)
  <1>1. Chain(home2, pos2, lk2, p, l.head, l.n)
    BY ChainKeep DEF Listed
  <1> QED
    BY <1>1 DEF Listed

(* The chain of a place without blocks. *)
LEMMA ChainEmpty ==
    ASSUME NEW home, NEW pos, NEW lk, NEW p, \A a \in Addr : home[a] # p
    PROVE  Chain(home, pos, lk, p, 0, 0)
  BY DEF Chain

(* A list is empty when its place is. *)
LEMMA ChainNone ==
    ASSUME NEW home, NEW pos, NEW lk, NEW p, NEW h, NEW n, Chain(home, pos, lk, p, h, n)
    PROVE  /\ 0 \notin Addr /\ n \in Nat /\ (h = 0 <=> n = 0)
           /\ h = 0 => \A a \in Addr : home[a] # p
           /\ h # 0 => h \in Addr /\ home[h] = p /\ pos[h] = n
           /\ h # 0 => (lk[h] = 0 <=> n = 1)
  <1>1. 0 \notin Addr
    BY ConstAssumption DEF Addr
  <1> QED
    BY <1>1 DEF Chain

\* b is put in front of the n blocks of p, the first of which is h.
InFront(home, pos, lk, p, h, n, b, home2, pos2, lk2) ==
    /\ b \in Addr /\ home[b] # p
    /\ \A a \in Addr : home2[a] = p <=> home[a] = p \/ a = b
    /\ \A a \in Addr : home[a] = p => pos2[a] = pos[a] /\ lk2[a] = lk[a]
    /\ pos2[b] = n + 1 /\ lk2[b] = h

(* A block is put in front. *)
LEMMA ChainPush ==
    ASSUME NEW home, NEW pos, NEW lk, NEW p, NEW h, NEW n, Chain(home, pos, lk, p, h, n),
           NEW b, NEW home2, NEW pos2, NEW lk2, InFront(home, pos, lk, p, h, n, b, home2, pos2, lk2)
    PROVE  Chain(home2, pos2, lk2, p, b, n + 1)
  <1> USE DEF InFront
  <1>1. n \in Nat /\ 0 \notin Addr
    BY ChainNone
  <1>2. ASSUME NEW a \in Addr, home2[a] = p
        PROVE  /\ pos2[a] \in 1 .. n + 1
               /\ IF pos2[a] = 1 THEN lk2[a] = 0
                  ELSE lk2[a] \in Addr /\ home2[lk2[a]] = p /\ pos2[lk2[a]] = pos2[a] - 1
    <2>1. CASE a = b
      BY <1>1, <2>1 DEF Chain
    <2>2. CASE home[a] = p
      BY <1>1, <2>2 DEF Chain
    <2> QED
      BY <1>2, <2>1, <2>2
  <1>3. ASSUME NEW a \in Addr, NEW e \in Addr, home2[a] = p, home2[e] = p, pos2[a] = pos2[e] PROVE a = e
    <2>1. \A x \in Addr : home[x] = p => pos[x] \in 1 .. n
      BY DEF Chain
    <2> QED
      BY <1>1, <1>3, <2>1 DEF Chain
  <1>4. ASSUME NEW i \in 1 .. n + 1 PROVE \E a \in Addr : home2[a] = p /\ pos2[a] = i
    <2>1. CASE i = n + 1
      BY <2>1
    <2>2. CASE i \in 1 .. n
      <3>1. PICK a \in Addr : home[a] = p /\ pos[a] = i
        BY <2>2 DEF Chain
      <3> QED
        BY <3>1
    <2> QED
      BY <1>1, <2>1, <2>2
  <1> QED
    BY <1>1, <1>2, <1>3, <1>4 DEF Chain

(* The first block is taken, and the rest goes from p to q, or stays. *)
LEMMA ChainPop ==
    ASSUME NEW home, NEW pos, NEW lk, NEW p, NEW h, NEW n, Chain(home, pos, lk, p, h, n), h # 0,
           NEW home2, NEW pos2, NEW lk2, NEW q,
           \A a \in Addr : home2[a] = q <=> home[a] = p /\ a # h,
           \A a \in Addr : home[a] = p /\ a # h => pos2[a] = pos[a] /\ lk2[a] = lk[a]
    PROVE  Chain(home2, pos2, lk2, q, lk[h], n - 1)
  <1>1. n \in Nat /\ n # 0 /\ h \in Addr /\ home[h] = p /\ pos[h] = n /\ (lk[h] = 0 <=> n = 1) /\ 0 \notin Addr
    BY ChainNone
  <1>2. \A a \in Addr : home[a] = p /\ a # h => pos[a] \in 1 .. n - 1
    BY <1>1 DEF Chain
  <1>3. n # 1 => lk[h] \in Addr /\ home[lk[h]] = p /\ pos[lk[h]] = n - 1 /\ lk[h] # h
    BY <1>1 DEF Chain
  <1>4. ASSUME NEW a \in Addr, home2[a] = q
        PROVE  /\ pos2[a] \in 1 .. n - 1
               /\ IF pos2[a] = 1 THEN lk2[a] = 0
                  ELSE lk2[a] \in Addr /\ home2[lk2[a]] = q /\ pos2[lk2[a]] = pos2[a] - 1
    <2>1. home[a] = p /\ a # h /\ pos2[a] = pos[a] /\ lk2[a] = lk[a] /\ pos[a] \in 1 .. n - 1
      BY <1>2, <1>4
    <2>2. CASE pos[a] = 1
      BY <2>1, <2>2 DEF Chain
    <2>3. CASE pos[a] # 1
      <3>1. lk[a] \in Addr /\ home[lk[a]] = p /\ pos[lk[a]] = pos[a] - 1
        BY <2>1, <2>3 DEF Chain
      <3>2. lk[a] # h
        BY <1>1, <2>1, <3>1
      <3> QED
        BY <2>1, <2>3, <3>1, <3>2
    <2> QED
      BY <2>2, <2>3
  <1>5. ASSUME NEW a \in Addr, NEW e \in Addr, home2[a] = q, home2[e] = q, pos2[a] = pos2[e] PROVE a = e
    BY <1>5 DEF Chain
  <1>6. ASSUME NEW i \in 1 .. n - 1 PROVE \E a \in Addr : home2[a] = q /\ pos2[a] = i
    <2>1. i \in 1 .. n /\ i # n
      BY <1>1
    <2>2. PICK a \in Addr : home[a] = p /\ pos[a] = i
      BY <2>1 DEF Chain
    <2> QED
      BY <1>1, <2>1, <2>2
  <1>7. IF n - 1 = 0 THEN lk[h] = 0 ELSE lk[h] \in Addr /\ home2[lk[h]] = q /\ pos2[lk[h]] = n - 1
    BY <1>1, <1>3
  <1> QED
    BY <1>1, <1>4, <1>5, <1>6, <1>7 DEF Chain

(* The chain of p is put in front of that of q, by the link of its last block t. *)
LEMMA ChainJoin ==
    ASSUME NEW home, NEW pos, NEW lk, NEW p, NEW h, NEW n, Chain(home, pos, lk, p, h, n), h # 0,
           NEW q, NEW k, NEW j, Chain(home, pos, lk, q, k, j), k # 0, p # q,
           NEW t \in Addr, home[t] = p, pos[t] = 1, NEW home2, NEW pos2, NEW lk2,
           \A a \in Addr : home2[a] = q <=> home[a] = p \/ home[a] = q,
           \A a \in Addr : home[a] = p => pos2[a] = pos[a] + j,
           \A a \in Addr : home[a] = q => pos2[a] = pos[a],
           \A a \in Addr : a # t => lk2[a] = lk[a], lk2[t] = k
    PROVE  Chain(home2, pos2, lk2, q, h, n + j)
  <1>1. /\ n \in Nat /\ n # 0 /\ h \in Addr /\ home[h] = p /\ pos[h] = n /\ 0 \notin Addr
        /\ j \in Nat /\ j # 0 /\ k \in Addr /\ home[k] = q /\ pos[k] = j
    BY ChainNone
  <1>2. ASSUME NEW a \in Addr, home[a] = p
        PROVE  /\ pos[a] \in 1 .. n
               /\ IF pos[a] = 1 THEN a = t
                  ELSE lk[a] \in Addr /\ home[lk[a]] = p /\ pos[lk[a]] = pos[a] - 1
    BY <1>2 DEF Chain
  <1>3. ASSUME NEW a \in Addr, home[a] = q
        PROVE  /\ pos[a] \in 1 .. j
               /\ IF pos[a] = 1 THEN lk[a] = 0
                  ELSE lk[a] \in Addr /\ home[lk[a]] = q /\ pos[lk[a]] = pos[a] - 1
    BY <1>3 DEF Chain
  <1>4. ASSUME NEW a \in Addr, home2[a] = q
        PROVE  /\ pos2[a] \in 1 .. n + j
               /\ IF pos2[a] = 1 THEN lk2[a] = 0
                  ELSE lk2[a] \in Addr /\ home2[lk2[a]] = q /\ pos2[lk2[a]] = pos2[a] - 1
    <2>1. CASE home[a] = p
      <3>1. CASE pos[a] = 1
        <4>1. a = t /\ lk2[a] = k /\ pos2[a] = 1 + j /\ pos2[k] = j
          BY <1>1, <1>2, <2>1, <3>1
        <4> QED
          BY <1>1, <4>1
      <3>2. CASE pos[a] # 1
        <4>1. lk[a] \in Addr /\ home[lk[a]] = p /\ pos[lk[a]] = pos[a] - 1 /\ pos[a] \in 1 .. n /\ a # t
          BY <1>2, <2>1, <3>2
        <4>2. lk2[a] = lk[a] /\ pos2[a] = pos[a] + j /\ pos2[lk[a]] = pos[a] - 1 + j
          BY <2>1, <4>1
        <4> QED
          BY <1>1, <3>2, <4>1, <4>2
      <3> QED
        BY <3>1, <3>2
    <2>2. CASE home[a] = q
      <3>1. a # t /\ pos2[a] = pos[a] /\ lk2[a] = lk[a]
        BY <2>2
      <3> QED
        BY <1>1, <1>3, <2>2, <3>1
    <2> QED
      BY <1>4, <2>1, <2>2
  <1>5. ASSUME NEW a \in Addr, NEW e \in Addr, home2[a] = q, home2[e] = q, pos2[a] = pos2[e] PROVE a = e
    <2>1. \A x, y \in Addr : home[x] = p /\ home[y] = p /\ pos[x] = pos[y] => x = y
      BY DEF Chain
    <2>2. \A x, y \in Addr : home[x] = q /\ home[y] = q /\ pos[x] = pos[y] => x = y
      BY DEF Chain
    <2> QED
      BY <1>1, <1>2, <1>3, <1>5, <2>1, <2>2
  <1>6. ASSUME NEW i \in 1 .. n + j PROVE \E a \in Addr : home2[a] = q /\ pos2[a] = i
    <2>1. CASE i \in 1 .. j
      <3>1. PICK a \in Addr : home[a] = q /\ pos[a] = i
        BY <2>1 DEF Chain
      <3> QED
        BY <3>1
    <2>2. CASE i - j \in 1 .. n
      <3>1. PICK a \in Addr : home[a] = p /\ pos[a] = i - j
        BY <2>2 DEF Chain
      <3>2. pos2[a] = i
        BY <1>1, <3>1
      <3> QED
        BY <3>1, <3>2
    <2> QED
      BY <1>1, <2>1, <2>2
  <1>7. n + j \in Nat /\ n + j # 0 /\ home2[h] = q /\ pos2[h] = n + j
    BY <1>1
  <1> QED
    BY <1>1, <1>4, <1>5, <1>6, <1>7 DEF Chain

-----------------------------------------------------------------------------
(* Walking a list along its links finds the blocks of its place.            *)

Blocks(home, p) == {a \in Addr : home[a] = p}

\* Nodes, without the local recursive function.
IsWalk(f, h) ==
    f = [i \in 0 .. Cardinality(Addr) |->
           IF i = 0 THEN h ELSE IF f[i - 1] = 0 THEN 0 ELSE link[f[i - 1]]]

(* The arena is finite. *)
LEMMA ArenaFinite ==
    /\ IsFiniteSet(Addr) /\ Cardinality(Addr) \in Nat /\ 0 \notin Addr
    /\ \A S \in SUBSET Addr : IsFiniteSet(S) /\ Cardinality(S) \in Nat
  <1>1. fgoRCChunk * MaxChunks \in Nat
    BY ConstAssumption
  <1>2. IsFiniteSet(Addr)
    BY <1>1, FS_Interval DEF Addr
  <1>3. \A S \in SUBSET Addr : IsFiniteSet(S)
    BY <1>2, FS_Subset
  <1>4. \A S \in SUBSET Addr : Cardinality(S) \in Nat
    BY <1>3, FS_CardinalityType
  <1>5. 0 \notin Addr /\ Addr \in SUBSET Addr
    BY DEF Addr
  <1> QED
    BY <1>3, <1>4, <1>5

(* A chain of n links has n blocks. *)
LEMMA ChainCount ==
    ASSUME NEW home, NEW pos, NEW lk, NEW p, NEW h, NEW n, Chain(home, pos, lk, p, h, n)
    PROVE  Cardinality(Blocks(home, p)) = n /\ n <= Cardinality(Addr)
  <1> DEFINE B == Blocks(home, p)
             f == [a \in B |-> pos[a]]
  <1>1. n \in Nat
    BY DEF Chain
  <1>2. f \in [B -> 1 .. n]
    BY DEF Blocks, Chain
  <1>3. IsInjective(f)
    BY DEF Blocks, Chain, IsInjective
  <1>4. \A i \in 1 .. n : \E a \in B : f[a] = i
    BY DEF Blocks, Chain
  <1>5. f \in Bijection(B, 1 .. n)
    BY <1>2, <1>3, <1>4 DEF Bijection, Injection, Surjection
  <1>6. IsFiniteSet(B) /\ B \in SUBSET Addr
    BY ArenaFinite DEF Blocks
  <1>7. Cardinality(1 .. n) = Cardinality(B)
    <2> HIDE DEF B, f
    <2>1. ExistsBijection(B, 1 .. n)
      BY <1>5 DEF ExistsBijection
    <2> QED
      BY <1>6, <2>1, FS_Bijection
  <1>8. Cardinality(1 .. n) = n
    BY <1>1, FS_Interval
  <1>9. Cardinality(B) <= Cardinality(Addr)
    BY <1>6, ArenaFinite, FS_Subset
  <1> QED
    BY <1>7, <1>8, <1>9

(* What Nodes finds from h. *)
LEMMA NodesAre ==
    ASSUME NEW home, NEW pos, NEW p, NEW h, NEW n, Chain(home, pos, link, p, h, n)
    PROVE  Nodes(h) = Blocks(home, p) /\ Cardinality(Nodes(h)) = n
  <1> DEFINE N == Cardinality(Addr)
             R == CHOOSE f : IsWalk(f, h)
             F == [i \in 0 .. N |-> IF i < n THEN CHOOSE a \in Addr : home[a] = p /\ pos[a] = n - i ELSE 0]
  <1>1. n \in Nat /\ n <= N /\ N \in Nat /\ 0 \notin Addr
    <2>1. n \in Nat
      BY DEF Chain
    <2>2. n <= Cardinality(Addr)
      BY ChainCount
    <2> QED
      BY <2>1, <2>2, ArenaFinite
  <1>2. ASSUME NEW i \in 0 .. N, i < n PROVE F[i] \in Addr /\ home[F[i]] = p /\ pos[F[i]] = n - i
    <2>1. n - i \in 1 .. n
      BY <1>1, <1>2
    <2>2. \E a \in Addr : home[a] = p /\ pos[a] = n - i
      BY <2>1 DEF Chain
    <2> QED
      BY <1>2, <2>2
  <1>3. \A i \in 0 .. N : ~(i < n) => F[i] = 0
    OBVIOUS
  <1>4. ASSUME NEW a \in Addr, home[a] = p PROVE \E i \in 0 .. N : i < n /\ F[i] = a
    <2>1. pos[a] \in 1 .. n
      BY <1>4 DEF Chain
    <2>2. n - pos[a] \in 0 .. N /\ n - pos[a] < n /\ n - (n - pos[a]) = pos[a]
      BY <1>1, <2>1
    <2>3. F[n - pos[a]] = a
      BY <1>2, <1>4, <2>2 DEF Chain
    <2> QED
      BY <2>2, <2>3
  <1>5. DOMAIN F = 0 .. N /\ F = [i \in 0 .. N |-> F[i]]
    OBVIOUS
  <1> HIDE DEF F
  <1>6. F[0] = h
    <2>1. CASE n = 0
      BY <1>1, <1>3, <2>1 DEF Chain
    <2>2. CASE n # 0
      BY <1>1, <1>2, <2>2 DEF Chain
    <2> QED
      BY <2>1, <2>2
  <1>7. ASSUME NEW i \in 0 .. N, i # 0 PROVE F[i] = IF F[i - 1] = 0 THEN 0 ELSE link[F[i - 1]]
    <2>1. i - 1 \in 0 .. N
      BY <1>1, <1>7
    <2>2. CASE ~(i - 1 < n)
      BY <1>1, <1>3, <2>1, <2>2
    <2>3. CASE i - 1 < n
      <3>1. F[i - 1] \in Addr /\ home[F[i - 1]] = p /\ pos[F[i - 1]] = n - (i - 1)
        BY <1>2, <2>1, <2>3
      <3>2. CASE i = n
        <4>1. pos[F[i - 1]] = 1 /\ F[i] = 0
          BY <1>1, <1>3, <3>1, <3>2
        <4> QED
          BY <1>1, <3>1, <4>1 DEF Chain
      <3>3. CASE i < n
        <4>1. pos[F[i - 1]] # 1 /\ F[i] \in Addr /\ home[F[i]] = p /\ pos[F[i]] = n - i
          BY <1>1, <1>2, <3>1, <3>3
        <4>2. link[F[i - 1]] \in Addr /\ home[link[F[i - 1]]] = p /\ pos[link[F[i - 1]]] = n - (i - 1) - 1
          BY <3>1, <4>1 DEF Chain
        <4>3. pos[link[F[i - 1]]] = pos[F[i]]
          BY <1>1, <4>1, <4>2
        <4> QED
          BY <1>1, <3>1, <4>1, <4>2, <4>3 DEF Chain
      <3> QED
        BY <1>1, <2>3, <3>2, <3>3
    <2> QED
      BY <2>2, <2>3
  <1>8. \A i \in 0 .. N : F[i] = IF i = 0 THEN h ELSE IF F[i - 1] = 0 THEN 0 ELSE link[F[i - 1]]
    BY <1>6, <1>7
  <1>9. IsWalk(F, h)
    BY <1>5, <1>8 DEF IsWalk
  <1>10. IsWalk(R, h)
    BY <1>9
  <1>11. Nodes(h) = {R[i] : i \in DOMAIN R} \ {0}
    BY DEF Nodes, IsWalk
  <1> HIDE DEF R
  <1>12. DOMAIN R = 0 .. N /\ \A i \in 0 .. N : R[i] = IF i = 0 THEN h ELSE IF R[i - 1] = 0 THEN 0 ELSE link[R[i - 1]]
    BY <1>10 DEF IsWalk
  <1>13. \A i \in 0 .. N : R[i] = F[i]
    <2> DEFINE T == {i \in 0 .. N : R[i] = F[i]}
    <2>1. 0 \in T
      BY <1>1, <1>6, <1>12
    <2>2. ASSUME NEW i \in 0 .. N - 1, i \in T PROVE i + 1 \in T
      <3>1. i + 1 \in 0 .. N /\ i + 1 # 0 /\ i + 1 - 1 = i /\ R[i] = F[i]
        BY <1>1, <2>2
      <3> QED
        BY <1>8, <1>12, <3>1
    <2>3. 0 .. N \subseteq T
      <3> HIDE DEF T
      <3> QED
        BY <1>1, <2>1, <2>2, UpTo
    <2> QED
      BY <2>3
  <1>14. Nodes(h) = Blocks(home, p)
    <2>1. \A x : x \in Nodes(h) <=> \E i \in 0 .. N : x = F[i] /\ x # 0
      BY <1>11, <1>12, <1>13
    <2>2. \A i \in 0 .. N : F[i] # 0 => F[i] \in Addr /\ home[F[i]] = p
      BY <1>2, <1>3
    <2>3. \A a \in Addr : home[a] = p => \E i \in 0 .. N : F[i] = a
      BY <1>4
    <2> QED
      BY <1>1, <2>1, <2>2, <2>3 DEF Blocks
  <1> QED
    BY <1>14, ChainCount

(***************************************************************************)
(* From the invariant to the properties.                                    *)
(***************************************************************************)

(* A list's blocks are those of its place. *)
LEMMA ListedIs ==
    ASSUME NEW home, NEW pos, NEW p, NEW l, NEW c, Listed(home, pos, link, class, p, l, c)
    PROVE  /\ Nodes(l.head) = Blocks(home, p) /\ l.n = Cardinality(Nodes(l.head))
           /\ IF l.head = 0 THEN l.tail = 0 ELSE l.tail \in Nodes(l.head) /\ link[l.tail] = 0
           /\ \A b \in Nodes(l.head) : class[b] = c
  <1>1. Nodes(l.head) = Blocks(home, p) /\ l.n = Cardinality(Nodes(l.head))
    BY NodesAre DEF Listed
  <1>2. l.head # 0 => l.tail \in Blocks(home, p) /\ link[l.tail] = 0
    BY DEF Listed, Blocks, Chain
  <1> QED
    BY <1>1, <1>2 DEF Listed, Blocks

(* The lists' tails and lengths are right. *)
LEMMA HeldLists ==
    ASSUME NEW home, NEW pos, Held(home, pos)
    PROVE  ListsExact
  <1> SUFFICES ASSUME NEW c \in Cached, NEW l \in Lists(c)
               PROVE  /\ l.n = Cardinality(Nodes(l.head))
                      /\ IF l.head = 0 THEN l.tail = 0 ELSE l.tail \in Nodes(l.head) /\ link[l.tail] = 0
                      /\ \A b \in Nodes(l.head) : class[b] = c
    BY DEF ListsExact
  <1>1. \E p : Listed(home, pos, link, class, p, l, c)
    BY DEF Lists, Held, ListsHeld, SparesHeld
  <1> QED
    BY <1>1, ListedIs

(* The places of the model are those of the invariant. *)
LEMMA HeldPlaces ==
    ASSUME TypeOK, NEW home, NEW pos, Held(home, pos)
    PROVE  /\ \A p \in Places(M) : p[2] = Blocks(home, p[1])
           /\ \A a \in Carved : \E p \in Places(M) : a \in p[2]
           /\ \A p \in Places(M) : p[2] \subseteq Carved
  <1>1. <<AtObj, obj>> \in Places(M) /\ <<AtToken, token>> \in Places(M)
    BY DEF Places, AtObj, AtToken
  <1>2. \A m \in M, c \in Cached : <<AtList(m, c), Nodes(list[m][c].head)>> \in Places(M)
    BY DEF Places, AtList
  <1>3. \A c \in Class \ Cached : <<AtLarge(c), Nodes(large[c])>> \in Places(M)
    BY DEF Places, AtLarge
  <1>4. \A c \in Cached : \A i \in 1 .. Len(spare[c]) : <<AtSpare(c, i), Nodes(spare[c][i].head)>> \in Places(M)
    BY DEF Places, AtSpare
  <1>5. ASSUME NEW p \in Places(M)
        PROVE  \/ p = <<AtObj, obj>> \/ p = <<AtToken, token>>
               \/ \E m \in M, c \in Cached : p = <<AtList(m, c), Nodes(list[m][c].head)>>
               \/ \E c \in Class \ Cached : p = <<AtLarge(c), Nodes(large[c])>>
               \/ \E c \in Cached : \E i \in 1 .. Len(spare[c]) : p = <<AtSpare(c, i), Nodes(spare[c][i].head)>>
    BY <1>5 DEF Places, AtObj, AtToken, AtList, AtLarge, AtSpare
  <1>6. obj = Blocks(home, AtObj) /\ token = Blocks(home, AtToken)
    BY DEF Held, Housed, Blocks, TypeOK
  <1>7. \A m \in M, c \in Cached : Nodes(list[m][c].head) = Blocks(home, AtList(m, c))
    BY ListedIs DEF Held, ListsHeld
  <1>8. \A c \in Class \ Cached : Nodes(large[c]) = Blocks(home, AtLarge(c))
    BY NodesAre DEF Held, LargeHeld
  <1>9. \A c \in Cached : \A i \in 1 .. Len(spare[c]) : Nodes(spare[c][i].head) = Blocks(home, AtSpare(c, i))
    BY ListedIs DEF Held, SparesHeld
  <1>10. ASSUME NEW p \in Places(M) PROVE p[2] = Blocks(home, p[1]) /\ p[1] # Nowhere
    BY <1>5, <1>6, <1>7, <1>8, <1>9, PlacesApart
  <1>11. ASSUME NEW a \in Carved PROVE \E p \in Places(M) : a \in p[2]
    <2>1. a \in Addr /\ home[a] # Nowhere
      BY DEF Carved, Held, Housed
    <2>2. \E p \in Places(M) : p[1] = home[a]
      <3>1. \/ home[a] \in {AtObj, AtToken}
            \/ \E m \in M, c \in Cached : home[a] = AtList(m, c)
            \/ \E c \in Class \ Cached : home[a] = AtLarge(c)
            \/ \E c \in Cached : \E i \in 1 .. Len(spare[c]) : home[a] = AtSpare(c, i)
        BY <2>1 DEF Held, Housed
      <3>2. \A x, y : <<x, y>>[1] = x
        OBVIOUS
      <3> QED
        BY <1>1, <1>2, <1>3, <1>4, <3>1, <3>2
    <2> QED
      BY <1>10, <2>1, <2>2 DEF Blocks
  <1>12. ASSUME NEW p \in Places(M) PROVE p[2] \subseteq Carved
    BY <1>10 DEF Blocks, Carved, Held, Housed
  <1> QED
    BY <1>10, <1>11, <1>12

(* No memory is in two places, and none is lost. *)
LEMMA HeldDisjoint ==
    ASSUME TypeOK, Room, NEW home, NEW pos, Held(home, pos)
    PROVE  Disjoint /\ NoLeak
  <1>1. \A b \in Carved : b \in Int /\ class[b] \in Int
    BY ConstAssumption DEF Carved, Addr, TypeOK, Class
  <1>2. ASSUME NEW a \in Carved, NEW b \in Carved, a # b PROVE Extent(a) \cap Extent(b) = {}
    BY <1>1, <1>2 DEF Room, Extent
  <1>3. ASSUME NEW b \in Carved, NEW o \in Owner PROVE Extent(b) \cap (chunk[o].next .. (chunk[o].end - 1)) = {}
    <2>1. chunk[o].next \in Int /\ chunk[o].end \in Int
      BY DEF TypeOK
    <2> QED
      BY <1>1, <2>1 DEF Room, Extent
  <1>4. ASSUME NEW p \in Places(M), NEW q \in Places(M), p[1] # q[1] PROVE p[2] \cap q[2] = {}
    BY <1>4, HeldPlaces DEF Blocks
  <1>5. UNION {p[2] : p \in Places(M)} = Carved
    BY HeldPlaces
  <1>6. NoLeak
    <2>1. gone \subseteq M
      BY DEF TypeOK
    <2>2. ASSUME NEW p \in Places(M \ gone)
          PROVE  p \in Places(M) /\ \A m \in gone, c \in Cached : p[1] # AtList(m, c)
      <3>1. \/ p = <<AtObj, obj>> \/ p = <<AtToken, token>>
            \/ \E m \in M \ gone, c \in Cached : p = <<AtList(m, c), Nodes(list[m][c].head)>>
            \/ \E c \in Class \ Cached : p = <<AtLarge(c), Nodes(large[c])>>
            \/ \E c \in Cached : \E i \in 1 .. Len(spare[c]) : p = <<AtSpare(c, i), Nodes(spare[c][i].head)>>
        BY <2>2 DEF Places, AtObj, AtToken, AtList, AtLarge, AtSpare
      <3>2. \A m \in gone, c \in Cached : p[1] # AtList(m, c)
        BY <3>1, PlacesApart
      <3>3. p \in Places(M)
        BY <2>2 DEF Places
      <3> QED
        BY <3>2, <3>3
    <2>3. ASSUME NEW p \in Places(M)
          PROVE  \/ p \in Places(M \ gone)
                 \/ \E m \in gone, c \in Cached : p[2] = Nodes(list[m][c].head)
      BY <2>1, <2>3 DEF Places
    <2>4. \A m \in gone, c \in Cached : <<AtList(m, c), Nodes(list[m][c].head)>> \in Places(M)
      BY <2>1 DEF Places, AtList
    <2>5. ASSUME NEW p \in Places(M \ gone), NEW a \in p[2] PROVE a \in Carved \ Stranded
      <3>1. a \in Carved
        BY <1>5, <2>2, <2>5
      <3>2. ASSUME NEW m \in gone, NEW c \in Cached PROVE a \notin Nodes(list[m][c].head)
        <4>1. PICK q : q = <<AtList(m, c), Nodes(list[m][c].head)>>
          OBVIOUS
        <4>2. q[1] = AtList(m, c) /\ q[2] = Nodes(list[m][c].head) /\ q \in Places(M)
          BY <2>4, <4>1
        <4> QED
          BY <1>4, <2>2, <2>5, <4>2
      <3> QED
        BY <3>1, <3>2 DEF Stranded
    <2>6. ASSUME NEW a \in Carved \ Stranded PROVE \E p \in Places(M \ gone) : a \in p[2]
      <3>1. PICK p \in Places(M) : a \in p[2]
        BY <1>5
      <3>2. \A m \in gone, c \in Cached : a \notin Nodes(list[m][c].head)
        BY <2>6 DEF Stranded
      <3> QED
        BY <2>3, <3>1, <3>2
    <2> QED
      BY <2>5, <2>6 DEF NoLeak
  <1> QED
    BY <1>2, <1>3, <1>4, <1>6 DEF Disjoint

(***************************************************************************)
(* Steps.                                                                   *)
(***************************************************************************)

(* A list without its first block. *)
LEMMA ListedPop ==
    ASSUME NEW home, NEW pos, NEW lk, NEW cl, NEW p, NEW l, NEW c, Listed(home, pos, lk, cl, p, l, c),
           l.head # 0, NEW home2, NEW pos2, NEW lk2, NEW cl2, NEW q,
           \A a \in Addr : home2[a] = q <=> home[a] = p /\ a # l.head,
           \A a \in Addr : home[a] = p /\ a # l.head => pos2[a] = pos[a] /\ lk2[a] = lk[a] /\ cl2[a] = cl[a],
           NEW r, r = [head |-> lk[l.head], tail |-> IF lk[l.head] = 0 THEN 0 ELSE l.tail, n |-> l.n - 1]
    PROVE  Listed(home2, pos2, lk2, cl2, q, r, c)
  <1>1. Chain(home2, pos2, lk2, q, lk[l.head], l.n - 1)
    BY ChainPop, SMTT(30) DEF Listed
  <1>2. l.n \in Nat /\ pos[l.head] = l.n /\ (lk[l.head] = 0 <=> l.n = 1)
    BY ChainNone DEF Listed
  <1>3. lk[l.head] # 0 => l.tail \in Addr /\ home2[l.tail] = q /\ pos2[l.tail] = 1
    BY <1>2 DEF Listed
  <1> QED
    BY <1>1, <1>3 DEF Listed

(* A list with one more block in front. *)
LEMMA ListedPush ==
    ASSUME NEW home, NEW pos, NEW lk, NEW cl, NEW p, NEW l, NEW c, Listed(home, pos, lk, cl, p, l, c),
           NEW b \in Addr, home[b] # p, cl[b] = c, NEW home2, NEW pos2, NEW lk2,
           \A a \in Addr : home2[a] = p <=> home[a] = p \/ a = b,
           \A a \in Addr : home[a] = p => pos2[a] = pos[a] /\ lk2[a] = lk[a],
           pos2[b] = l.n + 1, lk2[b] = l.head
    PROVE  Listed(home2, pos2, lk2, cl, p, Pushed(l, b), c)
  <1>a. InFront(home, pos, lk, p, l.head, l.n, b, home2, pos2, lk2)
    BY DEF InFront
  <1>1. Chain(home2, pos2, lk2, p, b, l.n + 1)
    BY <1>a, ChainPush DEF Listed
  <1>2. b # 0 /\ l.n \in Nat /\ (l.head = 0 <=> l.n = 0)
    BY ChainNone DEF Listed
  <1>3. Pushed(l, b) = [head |-> b, tail |-> IF l.head = 0 THEN b ELSE l.tail, n |-> l.n + 1]
    BY DEF Pushed
  <1>4. IF l.head = 0 THEN pos2[b] = 1 ELSE l.tail \in Addr /\ home2[l.tail] = p /\ pos2[l.tail] = 1
    BY <1>2 DEF Listed
  <1> QED
    BY <1>1, <1>2, <1>3, <1>4 DEF Listed

(* A list that moves whole. *)
LEMMA ListedMove ==
    ASSUME NEW home, NEW pos, NEW lk, NEW cl, NEW p, NEW l, NEW c, Listed(home, pos, lk, cl, p, l, c),
           NEW home2, NEW lk2, NEW q,
           \A a \in Addr : home2[a] = q <=> home[a] = p,
           \A a \in Addr : home[a] = p => lk2[a] = lk[a]
    PROVE  Listed(home2, pos, lk2, cl, q, l, c)
  <1>1. Chain(home2, pos, lk2, q, l.head, l.n)
    BY ChainKeep DEF Listed
  <1> QED
    BY <1>1 DEF Listed

\* List l of p is put in front of list k of q, which makes list r.
JoinedTo(home, pos, lk, p, l, q, k, home2, pos2, lk2, r) ==
    /\ l.head # 0 /\ k.head # 0 /\ p # q
    /\ \A a \in Addr : home2[a] = q <=> home[a] = p \/ home[a] = q
    /\ \A a \in Addr : home[a] = p => pos2[a] = pos[a] + k.n
    /\ \A a \in Addr : home[a] = q => pos2[a] = pos[a]
    /\ \A a \in Addr : a # l.tail => lk2[a] = lk[a]
    /\ lk2[l.tail] = k.head /\ r.head = l.head /\ r.tail = k.tail /\ r.n = l.n + k.n

(* A list that is put in front of another. *)
LEMMA ListedJoin ==
    ASSUME NEW home, NEW pos, NEW lk, NEW cl, NEW p, NEW l, NEW c, Listed(home, pos, lk, cl, p, l, c),
           NEW q, NEW k, Listed(home, pos, lk, cl, q, k, c), NEW home2, NEW pos2, NEW lk2,
           NEW r, JoinedTo(home, pos, lk, p, l, q, k, home2, pos2, lk2, r)
    PROVE  Listed(home2, pos2, lk2, cl, q, r, c)
  <1> USE DEF JoinedTo
  <1>1. l.tail \in Addr /\ home[l.tail] = p /\ pos[l.tail] = 1
    BY DEF Listed
  <1>2. Chain(home2, pos2, lk2, q, l.head, l.n + k.n)
    BY <1>1, ChainJoin DEF Listed
  <1>3. k.tail \in Addr /\ home2[k.tail] = q /\ pos2[k.tail] = 1
    BY DEF Listed
  <1>4. \A a \in Addr : home2[a] = q => cl[a] = c
    BY DEF Listed
  <1> QED
    BY <1>2, <1>3, <1>4 DEF Listed

\* A step that does nothing to the blocks of p, nor brings any there.
Untouched(home, pos, home2, pos2, p) ==
    \A a \in Addr :
       /\ home2[a] = p <=> home[a] = p
       /\ home[a] = p => pos2[a] = pos[a] /\ link'[a] = link[a] /\ class'[a] = class[a]

\* What a step does to the lists: each is the same and untouched, or is made anew.
ListsStep(home, pos, home2, pos2) ==
    \A m \in M, c \in Cached :
       \/ list'[m][c] = list[m][c] /\ Untouched(home, pos, home2, pos2, AtList(m, c))
       \/ Listed(home2, pos2, link', class', AtList(m, c), list'[m][c], c)
SparesStep(home, pos, home2, pos2) ==
    \A c \in Cached : \A i \in 1 .. Len(spare'[c]) :
       \/ /\ i \in 1 .. Len(spare[c]) /\ spare'[c][i] = spare[c][i]
          /\ Untouched(home, pos, home2, pos2, AtSpare(c, i))
       \/ spare'[c][i].head # 0 /\ Listed(home2, pos2, link', class', AtSpare(c, i), spare'[c][i], c)
LargeStep(home, pos, home2, pos2) ==
    \A c \in Class \ Cached :
       \/ large'[c] = large[c] /\ Untouched(home, pos, home2, pos2, AtLarge(c))
       \/ /\ \E n \in Nat : Chain(home2, pos2, link', AtLarge(c), large'[c], n)
          /\ \A a \in Addr : home2[a] = AtLarge(c) => class'[a] = c

(* Such a step keeps Held. *)
LEMMA HeldStep ==
    ASSUME NEW home, NEW pos, Held(home, pos), NEW home2, NEW pos2, Housed(home2)',
           ListsStep(home, pos, home2, pos2), SparesStep(home, pos, home2, pos2),
           LargeStep(home, pos, home2, pos2)
    PROVE  Held(home2, pos2)'
  <1>1. ASSUME NEW m \in M, NEW c \in Cached
        PROVE  Listed(home2, pos2, link', class', AtList(m, c), list'[m][c], c)
    <2>1. CASE list'[m][c] = list[m][c] /\ Untouched(home, pos, home2, pos2, AtList(m, c))
      <3>1. Listed(home, pos, link, class, AtList(m, c), list[m][c], c)
        BY DEF Held, ListsHeld
      <3> QED
        BY <2>1, <3>1, ListedKeep DEF Untouched
    <2> QED
      BY <2>1 DEF ListsStep
  <1>2. ASSUME NEW c \in Cached, NEW i \in 1 .. Len(spare'[c])
        PROVE  spare'[c][i].head # 0 /\ Listed(home2, pos2, link', class', AtSpare(c, i), spare'[c][i], c)
    <2>1. CASE i \in 1 .. Len(spare[c]) /\ spare'[c][i] = spare[c][i] /\ Untouched(home, pos, home2, pos2, AtSpare(c, i))
      <3>1. Listed(home, pos, link, class, AtSpare(c, i), spare[c][i], c) /\ spare[c][i].head # 0
        BY <2>1 DEF Held, SparesHeld
      <3> QED
        BY <2>1, <3>1, ListedKeep DEF Untouched
    <2> QED
      BY <1>2, <2>1 DEF SparesStep
  <1>3. ASSUME NEW c \in Class \ Cached
        PROVE  /\ \E n \in Nat : Chain(home2, pos2, link', AtLarge(c), large'[c], n)
               /\ \A a \in Addr : home2[a] = AtLarge(c) => class'[a] = c
    <2>1. CASE large'[c] = large[c] /\ Untouched(home, pos, home2, pos2, AtLarge(c))
      <3>1. PICK n \in Nat : Chain(home, pos, link, AtLarge(c), large[c], n)
        BY DEF Held, LargeHeld
      <3>2. Chain(home2, pos2, link', AtLarge(c), large'[c], n)
        BY <2>1, <3>1, ChainKeep DEF Untouched
      <3> QED
        BY <2>1, <3>2 DEF Untouched, Held, LargeHeld
    <2> QED
      BY <2>1 DEF LargeStep
  <1> QED
    BY <1>1, <1>2, <1>3 DEF Held, ListsHeld, SparesHeld, LargeHeld

\* One block goes to place q; the others are as they were.
Moves(home, pos, home2, pos2, b, q) ==
    /\ home2[b] = q /\ class'[b] # 0
    /\ \A a \in Addr : a # b => home2[a] = home[a] /\ pos2[a] = pos[a] /\ link'[a] = link[a] /\ class'[a] = class[a]

(* Only the two places it goes from and to are touched. *)
LEMMA MoveTouches ==
    ASSUME NEW home, NEW pos, NEW home2, NEW pos2, NEW b \in Addr, NEW q, Moves(home, pos, home2, pos2, b, q)
    PROVE  \A p : p # q /\ p # home[b] => Untouched(home, pos, home2, pos2, p)
  BY DEF Moves, Untouched

(* Each block is still in one place. *)
LEMMA MoveHoused ==
    ASSUME NEW home, Housed(home), NEW pos, NEW home2, NEW pos2, NEW b \in Addr, NEW q,
           Moves(home, pos, home2, pos2, b, q), \A c \in Cached : Len(spare'[c]) = Len(spare[c]),
           \/ q \in {AtObj, AtToken} \/ (\E m \in M, c \in Cached : q = AtList(m, c))
           \/ \E c \in Class \ Cached : q = AtLarge(c),
           \A a \in Addr : a # b => (a \in obj' <=> a \in obj) /\ (a \in token' <=> a \in token),
           b \in obj' <=> q = AtObj, b \in token' <=> q = AtToken
    PROVE  Housed(home2)'
  <1>1. q # Nowhere
    BY PlacesApart
  <1> SUFFICES ASSUME NEW a \in Addr
               PROVE  /\ class'[a] = 0 <=> home2[a] = Nowhere
                      /\ a \in obj' <=> home2[a] = AtObj
                      /\ a \in token' <=> home2[a] = AtToken
                      /\ \/ home2[a] \in {Nowhere, AtObj, AtToken}
                         \/ \E m \in M, c \in Cached : home2[a] = AtList(m, c)
                         \/ \E c \in Class \ Cached : home2[a] = AtLarge(c)
                         \/ \E c \in Cached : \E i \in 1 .. Len(spare'[c]) : home2[a] = AtSpare(c, i)
    BY DEF Housed
  <1>2. CASE a = b
    BY <1>1, <1>2 DEF Moves
  <1>3. CASE a # b
    BY <1>3 DEF Moves, Housed
  <1> QED
    BY <1>2, <1>3

(* A block that goes between two places that are not lists. *)
LEMMA PlainMove ==
    ASSUME NEW home, NEW pos, Held(home, pos), NEW home2, NEW b \in Addr, NEW q, Moves(home, pos, home2, pos, b, q),
           q \in {AtObj, AtToken}, home[b] \in {Nowhere, AtObj, AtToken}, UNCHANGED <<list, large, spare>>,
           \A a \in Addr : a # b => (a \in obj' <=> a \in obj) /\ (a \in token' <=> a \in token),
           b \in obj' <=> q = AtObj, b \in token' <=> q = AtToken
    PROVE  Held(home2, pos)'
  <1>1. Housed(home2)'
    BY MoveHoused DEF Held
  <1>2. \A p : p \notin {Nowhere, AtObj, AtToken} => Untouched(home, pos, home2, pos, p)
    BY MoveTouches
  <1>3. /\ \A m \in M, c \in Cached : Untouched(home, pos, home2, pos, AtList(m, c))
        /\ \A c : Untouched(home, pos, home2, pos, AtLarge(c))
        /\ \A c, i : Untouched(home, pos, home2, pos, AtSpare(c, i))
    BY <1>2, PlacesApart
  <1>4. ListsStep(home, pos, home2, pos) /\ SparesStep(home, pos, home2, pos) /\ LargeStep(home, pos, home2, pos)
    BY <1>3 DEF ListsStep, SparesStep, LargeStep
  <1> QED
    BY <1>1, <1>4, HeldStep

-----------------------------------------------------------------------------
(* Allocation.                                                              *)

(* The first block of an M's own list. *)
LEMMA TakeListHeld ==
    ASSUME TypeOK, NEW home, NEW pos, Held(home, pos), NEW m \in M, NEW c \in Cached,
           list[m][c].head # 0, TakeFrom(m, c, list[m][c]), spare' = spare
    PROVE  (\E home2, pos2 : Held(home2, pos2)') /\ list[m][c].head \in Addr /\ list[m][c].head \notin obj \cup token
           /\ list'[m][c] \in FreeList
  <1>1. PICK l : l = list[m][c]
    OBVIOUS
  <1>2. PICK h : h = l.head
    OBVIOUS
  <1>3. Listed(home, pos, link, class, AtList(m, c), l, c) /\ l \in FreeList
    BY <1>1 DEF Held, ListsHeld, TypeOK
  <1>4. h \in Addr /\ home[h] = AtList(m, c) /\ class[h] = c /\ h # 0 /\ l.n \in Nat
    BY <1>1, <1>2, <1>3, ChainNone DEF Listed
  <1>5. PICK home2 : home2 = [a \in Addr |-> IF a = h THEN AtObj ELSE home[a]]
    OBVIOUS
  <1>6. /\ list' = [list EXCEPT ![m][c] = Popped(l)] /\ link' = [link EXCEPT ![h] = 0] /\ obj' = obj \cup {h}
        /\ UNCHANGED <<large, class, token>>
    BY <1>1, <1>2 DEF TakeFrom
  <1>7. c \in Class /\ c # 0
    BY ConstAssumption DEF Cached, Class
  <1>8. h \notin obj \cup token
    BY <1>4, PlacesApart DEF Held, Housed
  <1>9. Moves(home, pos, home2, pos, h, AtObj)
    BY <1>4, <1>5, <1>6, <1>7 DEF Moves, TypeOK
  <1>10. Housed(home2)'
    <2>1. /\ \A a \in Addr : a # h => (a \in obj' <=> a \in obj) /\ (a \in token' <=> a \in token)
          /\ h \in obj' /\ (h \in token' <=> AtObj = AtToken)
      BY <1>6, <1>8, PlacesApart
    <2> QED
      BY <1>4, <1>9, <2>1, MoveHoused DEF Held
  <1>11. \A p : p # AtObj /\ p # AtList(m, c) => Untouched(home, pos, home2, pos, p)
    BY <1>4, <1>9, MoveTouches
  <1>12. list'[m][c] = Popped(l) /\ \A n \in M, d \in Cached : n # m \/ d # c => list'[n][d] = list[n][d]
    BY <1>6 DEF TypeOK
  <1>13. Listed(home2, pos, link', class', AtList(m, c), list'[m][c], c)
    <2>1. \A a \in Addr : home2[a] = AtList(m, c) <=> home[a] = AtList(m, c) /\ a # l.head
      BY <1>2, <1>5, PlacesApart
    <2>2. \A a \in Addr : a # l.head => link'[a] = link[a] /\ class'[a] = class[a]
      BY <1>2, <1>6 DEF TypeOK
    <2>3. Popped(l) = [head |-> link[l.head], tail |-> IF link[l.head] = 0 THEN 0 ELSE l.tail, n |-> l.n - 1]
      BY DEF Popped
    <2> QED
      BY <1>2, <1>3, <1>4, <1>12, <2>1, <2>2, <2>3, ListedPop
  <1>14. ListsStep(home, pos, home2, pos)
    BY <1>11, <1>12, <1>13, PlacesApart DEF ListsStep
  <1>15. SparesStep(home, pos, home2, pos) /\ LargeStep(home, pos, home2, pos)
    BY <1>6, <1>11, PlacesApart DEF SparesStep, LargeStep
  <1>16. Held(home2, pos)'
    BY <1>10, <1>14, <1>15, HeldStep
  <1>17. list'[m][c] \in FreeList
    BY <1>2, <1>3, <1>4, <1>12 DEF Popped, FreeList, TypeOK
  <1> QED
    BY <1>1, <1>2, <1>4, <1>8, <1>16, <1>17

(* The first block of the top spare batch; the rest becomes the M's list. *)
LEMMA TakeSpareHeld ==
    ASSUME TypeOK, NEW home, NEW pos, Held(home, pos), NEW m \in M, NEW c \in Cached, NEW k,
           k = Len(spare[c]), k # 0, list[m][c].head = 0, TakeFrom(m, c, spare[c][k]),
           spare' = [spare EXCEPT ![c] = SubSeq(spare[c], 1, k - 1)]
    PROVE  (\E home2, pos2 : Held(home2, pos2)') /\ spare[c][k].head \in Addr /\ spare[c][k].head \notin obj \cup token
           /\ list'[m][c] \in FreeList
  <1>1. PICK l : l = spare[c][k]
    OBVIOUS
  <1>2. PICK h : h = l.head
    OBVIOUS
  <1>3. spare[c] \in Seq(FreeList) /\ k \in Nat /\ k \in 1 .. Len(spare[c])
    BY DEF TypeOK
  <1>4. Listed(home, pos, link, class, AtSpare(c, k), l, c) /\ l \in FreeList /\ l.head # 0
    BY <1>1, <1>3 DEF Held, SparesHeld
  <1>5. h \in Addr /\ home[h] = AtSpare(c, k) /\ class[h] = c /\ h # 0 /\ l.n \in Nat
    BY <1>2, <1>4, ChainNone DEF Listed
  <1>6. \A a \in Addr : home[a] # AtList(m, c)
    <2>1. Chain(home, pos, link, AtList(m, c), list[m][c].head, list[m][c].n)
      BY DEF Held, ListsHeld, Listed
    <2> QED
      BY <2>1, ChainNone
  <1>7. PICK home2 : home2 = [a \in Addr |-> IF a = h THEN AtObj
                                             ELSE IF home[a] = AtSpare(c, k) THEN AtList(m, c) ELSE home[a]]
    OBVIOUS
  <1>8. /\ list' = [list EXCEPT ![m][c] = Popped(l)] /\ link' = [link EXCEPT ![h] = 0] /\ obj' = obj \cup {h}
        /\ UNCHANGED <<large, class, token>>
    BY <1>1, <1>2 DEF TakeFrom
  <1>9. /\ Len(spare'[c]) = k - 1 /\ \A i \in 1 .. k - 1 : spare'[c][i] = spare[c][i]
        /\ \A d \in Cached : d # c => spare'[d] = spare[d]
    <2>1. spare'[c] = SubSeq(spare[c], 1, k - 1) /\ \A d \in Cached : d # c => spare'[d] = spare[d]
      BY DEF TypeOK
    <2> QED
      BY <1>3, <2>1
  <1>10. h \notin obj \cup token
    BY <1>5, PlacesApart DEF Held, Housed
  <1>11. Housed(home2)'
    <2> SUFFICES ASSUME NEW a \in Addr
                 PROVE  /\ class'[a] = 0 <=> home2[a] = Nowhere
                        /\ a \in obj' <=> home2[a] = AtObj
                        /\ a \in token' <=> home2[a] = AtToken
                        /\ \/ home2[a] \in {Nowhere, AtObj, AtToken}
                           \/ \E n \in M, d \in Cached : home2[a] = AtList(n, d)
                           \/ \E d \in Class \ Cached : home2[a] = AtLarge(d)
                           \/ \E d \in Cached : \E i \in 1 .. Len(spare'[d]) : home2[a] = AtSpare(d, i)
      BY DEF Housed
    <2>1. CASE a = h
      <3>1. home2[a] = AtObj /\ class'[a] # 0 /\ a \in obj' /\ a \notin token'
        BY <1>5, <1>7, <1>8, <1>10, <2>1, ConstAssumption DEF Cached
      <3> QED
        BY <3>1, PlacesApart
    <2>2. CASE a # h /\ home[a] = AtSpare(c, k)
      <3>1. home2[a] = AtList(m, c) /\ class'[a] # 0 /\ a \notin obj' /\ a \notin token'
        BY <1>7, <1>8, <2>2, PlacesApart DEF Held, Housed
      <3> QED
        BY <3>1, PlacesApart
    <2>3. CASE a # h /\ home[a] # AtSpare(c, k)
      <3>1. home2[a] = home[a] /\ class'[a] = class[a] /\ (a \in obj' <=> a \in obj) /\ (a \in token' <=> a \in token)
        BY <1>7, <1>8, <2>3
      <3>2. \A d \in Cached : \A i \in 1 .. Len(spare[d]) : home[a] = AtSpare(d, i) => i \in 1 .. Len(spare'[d])
        BY <1>3, <1>9, <2>3
      <3> QED
        BY <3>1, <3>2 DEF Held, Housed
    <2> QED
      BY <2>1, <2>2, <2>3
  <1>12. \A p : p # AtObj /\ p # AtList(m, c) /\ p # AtSpare(c, k) => Untouched(home, pos, home2, pos, p)
    BY <1>5, <1>7, <1>8 DEF Untouched, TypeOK
  <1>13. list'[m][c] = Popped(l) /\ \A n \in M, d \in Cached : n # m \/ d # c => list'[n][d] = list[n][d]
    BY <1>8 DEF TypeOK
  <1>14. Listed(home2, pos, link', class', AtList(m, c), list'[m][c], c)
    <2>1. \A a \in Addr : home2[a] = AtList(m, c) <=> home[a] = AtSpare(c, k) /\ a # l.head
      BY <1>2, <1>6, <1>7, PlacesApart
    <2>2. \A a \in Addr : a # l.head => link'[a] = link[a] /\ class'[a] = class[a]
      BY <1>2, <1>8 DEF TypeOK
    <2>3. Popped(l) = [head |-> link[l.head], tail |-> IF link[l.head] = 0 THEN 0 ELSE l.tail, n |-> l.n - 1]
      BY DEF Popped
    <2> QED
      BY <1>4, <1>13, <2>1, <2>2, <2>3, ListedPop
  <1>15. ListsStep(home, pos, home2, pos)
    BY <1>12, <1>13, <1>14, PlacesApart DEF ListsStep
  <1>16. SparesStep(home, pos, home2, pos)
    <2> SUFFICES ASSUME NEW d \in Cached, NEW i \in 1 .. Len(spare'[d])
                 PROVE  /\ i \in 1 .. Len(spare[d]) /\ spare'[d][i] = spare[d][i]
                        /\ Untouched(home, pos, home2, pos, AtSpare(d, i))
      BY DEF SparesStep
    <2>1. AtSpare(d, i) # AtSpare(c, k)
      BY <1>3, <1>9, PlacesApart
    <2> QED
      BY <1>3, <1>9, <1>12, <2>1, PlacesApart
  <1>17. LargeStep(home, pos, home2, pos)
    BY <1>8, <1>12, PlacesApart DEF LargeStep
  <1>18. Held(home2, pos)'
    BY <1>11, <1>15, <1>16, <1>17, HeldStep
  <1>19. list'[m][c] \in FreeList
    BY <1>2, <1>4, <1>5, <1>13 DEF Popped, FreeList, TypeOK
  <1> QED
    BY <1>1, <1>2, <1>5, <1>10, <1>18, <1>19

(* The first block of a shared list. *)
LEMMA TakeLargeHeld ==
    ASSUME TypeOK, NEW home, NEW pos, Held(home, pos), NEW c \in Class \ Cached, NEW h, h = large[c], h # 0,
           large' = [large EXCEPT ![c] = link[h]], link' = [link EXCEPT ![h] = 0], obj' = obj \cup {h},
           UNCHANGED <<list, spare, class, token>>
    PROVE  (\E home2, pos2 : Held(home2, pos2)') /\ h \in Addr /\ h \notin obj \cup token
  <1>1. PICK n \in Nat : Chain(home, pos, link, AtLarge(c), h, n)
    BY DEF Held, LargeHeld
  <1>2. h \in Addr /\ home[h] = AtLarge(c)
    BY <1>1, ChainNone
  <1>3. class[h] = c /\ c # 0
    BY <1>2 DEF Held, LargeHeld, Class
  <1>4. h \notin obj \cup token
    BY <1>2, PlacesApart DEF Held, Housed
  <1>5. PICK home2 : home2 = [a \in Addr |-> IF a = h THEN AtObj ELSE home[a]]
    OBVIOUS
  <1>6. Moves(home, pos, home2, pos, h, AtObj)
    BY <1>2, <1>3, <1>5 DEF Moves, TypeOK
  <1>7. Housed(home2)'
    <2>1. /\ \A a \in Addr : a # h => (a \in obj' <=> a \in obj) /\ (a \in token' <=> a \in token)
          /\ h \in obj' /\ (h \in token' <=> AtObj = AtToken)
      BY <1>4, PlacesApart
    <2> QED
      BY <1>2, <1>6, <2>1, MoveHoused DEF Held
  <1>8. \A p : p # AtObj /\ p # AtLarge(c) => Untouched(home, pos, home2, pos, p)
    BY <1>2, <1>6, MoveTouches
  <1>9. large'[c] = link[h] /\ \A d \in Class \ Cached : d # c => large'[d] = large[d]
    BY DEF TypeOK
  <1>10. /\ \E j \in Nat : Chain(home2, pos, link', AtLarge(c), large'[c], j)
         /\ \A a \in Addr : home2[a] = AtLarge(c) => class'[a] = c
    <2>1. \A a \in Addr : home2[a] = AtLarge(c) <=> home[a] = AtLarge(c) /\ a # h
      BY <1>5, PlacesApart
    <2>2. \A a \in Addr : a # h => link'[a] = link[a]
      BY DEF TypeOK
    <2>3. Chain(home2, pos, link', AtLarge(c), link[h], n - 1)
      <3>1. PICK lk2 : lk2 = link'
        OBVIOUS
      <3>2. \A a \in Addr : home[a] = AtLarge(c) /\ a # h => pos[a] = pos[a] /\ lk2[a] = link[a]
        BY <2>2, <3>1
      <3>3. Chain(home2, pos, lk2, AtLarge(c), link[h], n - 1)
        BY <1>1, <2>1, <3>2, ChainPop
      <3> QED
        BY <3>1, <3>3
    <2>4. n - 1 \in Nat
      BY <2>3 DEF Chain
    <2> QED
      BY <1>9, <2>1, <2>3, <2>4 DEF Held, LargeHeld
  <1>11. LargeStep(home, pos, home2, pos)
    BY <1>8, <1>9, <1>10, PlacesApart DEF LargeStep
  <1>12. ListsStep(home, pos, home2, pos) /\ SparesStep(home, pos, home2, pos)
    BY <1>8, PlacesApart DEF ListsStep, SparesStep
  <1>13. Held(home2, pos)'
    BY <1>7, <1>11, <1>12, HeldStep
  <1> QED
    BY <1>2, <1>4, <1>13

(* Carving: the block lies where nothing was carved before. *)
LEMMA CarveRoom ==
    ASSUME TypeOK, Room, NEW o \in Owner, NEW c \in Class, Carve(o, c)
    PROVE  /\ Room' /\ CarveAt(o, c) \in Addr /\ class[CarveAt(o, c)] = 0
           /\ next' \in 0 .. MaxChunks /\ chunk' \in [Owner -> [next : Nat, end : Nat]]
           /\ class' \in [Addr -> Class \cup {0}]
  <1>1. PICK x : x = CarveAt(o, c)
    OBVIOUS
  <1>2. PICK top : top = Top
    OBVIOUS
  <1>3. /\ c \in Nat /\ c >= 1 /\ c <= fgoRCChunk /\ fgoRCChunk \in Nat /\ MaxChunks \in Nat /\ next \in Nat /\ next <= MaxChunks
        /\ top \in Nat /\ top = next * fgoRCChunk + 1
    <2>1. c \in Nat /\ c >= 1 /\ c <= fgoRCChunk /\ fgoRCChunk \in Nat /\ MaxChunks \in Nat /\ next \in Nat /\ next <= MaxChunks
      BY ConstAssumption DEF Class, TypeOK
    <2>2. next * fgoRCChunk \in Nat
      BY <2>1
    <2> QED
      BY <1>2, <2>1, <2>2 DEF Top
  <1>4. \A i \in 0 .. MaxChunks : i * fgoRCChunk <= fgoRCChunk * MaxChunks
    BY ConstAssumption
  <1>5. \A q \in Owner : /\ chunk[q].next \in Nat /\ chunk[q].end \in Nat /\ 1 <= chunk[q].next
                         /\ chunk[q].next <= chunk[q].end /\ chunk[q].end <= top
    BY <1>2 DEF Room, TypeOK
  <1>6. \A b \in Carved : b \in Addr /\ b \in Nat /\ class[b] \in Nat /\ class[b] >= 1
    BY ConstAssumption DEF Carved, Addr, TypeOK, Class
  <1>7. PICK e, t : /\ e = (IF Fits(o, c) THEN chunk[o].end ELSE (next + 1) * fgoRCChunk + 1)
                    /\ t = (IF Fits(o, c) THEN top ELSE top + fgoRCChunk)
    OBVIOUS
  <1>8. /\ chunk' = [chunk EXCEPT ![o] = [next |-> x + c, end |-> e]]
        /\ next' = IF Fits(o, c) THEN next ELSE next + 1
        /\ class' = [class EXCEPT ![x] = c]
    BY <1>1, <1>7 DEF Carve
  <1>9. (next + 1) * fgoRCChunk = next * fgoRCChunk + fgoRCChunk
    BY <1>3
  <1>10. next' \in 0 .. MaxChunks /\ Top' = t
    <2>1. CASE Fits(o, c)
      BY <1>2, <1>3, <1>7, <1>8, <2>1 DEF Top
    <2>2. CASE ~Fits(o, c)
      <3>1. next < MaxChunks /\ next' = next + 1
        BY <1>8, <2>2 DEF Carve
      <3> QED
        BY <1>2, <1>3, <1>7, <1>9, <2>2, <3>1 DEF Top
    <2> QED
      BY <2>1, <2>2
  <1>11. t \in Nat /\ t <= fgoRCChunk * MaxChunks + 1
    <2>1. PICK i : i = next'
      OBVIOUS
    <2>2. i \in 0 .. MaxChunks /\ t = i * fgoRCChunk + 1
      BY <1>10, <2>1 DEF Top
    <2>3. i * fgoRCChunk <= fgoRCChunk * MaxChunks /\ i * fgoRCChunk \in Nat /\ fgoRCChunk * MaxChunks \in Nat
      BY <1>3, <1>4, <2>2
    <2> QED
      BY <2>2, <2>3
  <1>12. /\ x \in Nat /\ x >= 1 /\ e \in Nat /\ x + c <= e /\ e <= t /\ top <= t
         /\ \/ x = chunk[o].next /\ e = chunk[o].end
            \/ x = top
    <2>1. CASE Fits(o, c)
      BY <1>1, <1>3, <1>5, <1>7, <2>1 DEF Fits, CarveAt
    <2>2. CASE ~Fits(o, c)
      BY <1>1, <1>2, <1>3, <1>7, <1>9, <2>2 DEF CarveAt, Top
    <2> QED
      BY <2>1, <2>2
  <1>13. x \in Addr
    BY <1>3, <1>11, <1>12, ConstAssumption DEF Addr
  <1>14. \A b \in Carved : b + class[b] <= x \/ e <= b
    BY <1>2, <1>3, <1>5, <1>6, <1>12 DEF Room
  <1>15. x \notin Carved
    BY <1>3, <1>6, <1>12, <1>14
  <1>16. \A q \in Owner : q # o => chunk[q].end <= x \/ e <= chunk[q].next
    BY <1>3, <1>5, <1>12 DEF Room
  <1>17. /\ \A b : b \in Carved' <=> b \in Carved \/ b = x
         /\ class'[x] = c /\ \A b \in Carved : class'[b] = class[b]
    BY <1>3, <1>8, <1>13, <1>15 DEF Carved, TypeOK
  <1>18. /\ chunk'[o].next = x + c /\ chunk'[o].end = e
         /\ \A q \in Owner : q # o => chunk'[q] = chunk[q]
    BY <1>8 DEF TypeOK
  <1>19. Room'
    <2>1. \A q \in Owner : 1 <= chunk'[q].next /\ chunk'[q].next <= chunk'[q].end /\ chunk'[q].end <= Top'
      BY <1>3, <1>5, <1>10, <1>11, <1>12, <1>18
    <2>2. \A q, r \in Owner : q # r => chunk'[q].end <= chunk'[r].next \/ chunk'[r].end <= chunk'[q].next
      <3> SUFFICES ASSUME NEW q \in Owner, NEW r \in Owner, q # r
                   PROVE  chunk'[q].end <= chunk'[r].next \/ chunk'[r].end <= chunk'[q].next
        OBVIOUS
      <3>1. CASE q = o
        BY <1>3, <1>5, <1>12, <1>16, <1>18, <3>1
      <3>2. CASE r = o
        BY <1>3, <1>5, <1>12, <1>16, <1>18, <3>2
      <3>3. CASE q # o /\ r # o
        BY <1>18, <3>3 DEF Room
      <3> QED
        BY <3>1, <3>2, <3>3
    <2>3. \A b \in Carved' : b + class'[b] <= Top'
      BY <1>2, <1>3, <1>6, <1>10, <1>11, <1>12, <1>17 DEF Room
    <2>4. \A b \in Carved', q \in Owner : b + class'[b] <= chunk'[q].next \/ chunk'[q].end <= b
      <3> SUFFICES ASSUME NEW b \in Carved', NEW q \in Owner PROVE b + class'[b] <= chunk'[q].next \/ chunk'[q].end <= b
        OBVIOUS
      <3>1. CASE b = x
        BY <1>3, <1>5, <1>12, <1>16, <1>17, <1>18, <3>1
      <3>2. CASE b \in Carved /\ q # o
        BY <1>17, <1>18, <3>2 DEF Room
      <3>3. CASE b \in Carved /\ q = o
        BY <1>3, <1>6, <1>12, <1>14, <1>17, <1>18, <3>3
      <3> QED
        BY <1>17, <3>1, <3>2, <3>3
    <2>5. \A a, b \in Carved' : a # b => a + class'[a] <= b \/ b + class'[b] <= a
      <3> SUFFICES ASSUME NEW a \in Carved', NEW b \in Carved', a # b PROVE a + class'[a] <= b \/ b + class'[b] <= a
        OBVIOUS
      <3>1. CASE a = x
        BY <1>3, <1>6, <1>12, <1>14, <1>17, <3>1
      <3>2. CASE b = x
        BY <1>3, <1>6, <1>12, <1>14, <1>17, <3>2
      <3>3. CASE a \in Carved /\ b \in Carved
        BY <1>17, <3>3 DEF Room
      <3> QED
        BY <1>17, <3>1, <3>2, <3>3
    <2> QED
      BY <2>1, <2>2, <2>3, <2>4, <2>5 DEF Room
  <1>20. class[x] = 0
    BY <1>13, <1>15 DEF Carved
  <1>21. chunk' \in [Owner -> [next : Nat, end : Nat]] /\ class' \in [Addr -> Class \cup {0}]
    <2>1. [next |-> x + c, end |-> e] \in [next : Nat, end : Nat] /\ c \in Class \cup {0}
      BY <1>3, <1>12
    <2>2. chunk' \in [Owner -> [next : Nat, end : Nat]]
      BY <1>8, <2>1 DEF TypeOK
    <2>3. class' \in [Addr -> Class \cup {0}]
      BY <1>8, <2>1 DEF TypeOK
    <2> QED
      BY <2>2, <2>3
  <1> QED
    BY <1>1, <1>10, <1>13, <1>19, <1>20, <1>21

(* A block that was just carved is an object. *)
LEMMA CarveHeld ==
    ASSUME TypeOK, Room, NEW home, NEW pos, Held(home, pos), NEW o \in Owner, NEW c \in Class, CarveNew(o, c)
    PROVE  (\E home2, pos2 : Held(home2, pos2)') /\ CarveAt(o, c) \notin obj \cup token
  <1>1. PICK x : x = CarveAt(o, c)
    OBVIOUS
  <1>2. x \in Addr /\ class[x] = 0
    BY <1>1, CarveRoom DEF CarveNew
  <1>3. class' = [class EXCEPT ![x] = c] /\ obj' = obj \cup {x} /\ UNCHANGED <<list, large, spare, link, token>>
    BY <1>1 DEF CarveNew, Carve
  <1>4. home[x] = Nowhere /\ x \notin obj /\ x \notin token
    BY <1>2, PlacesApart DEF Held, Housed
  <1>5. PICK home2 : home2 = [a \in Addr |-> IF a = x THEN AtObj ELSE home[a]]
    OBVIOUS
  <1>6. Moves(home, pos, home2, pos, x, AtObj)
    BY <1>2, <1>3, <1>5 DEF Moves, TypeOK, Class
  <1>7. Held(home2, pos)'
    BY <1>2, <1>3, <1>4, <1>6, PlainMove, PlacesApart
  <1> QED
    BY <1>1, <1>4, <1>7

-----------------------------------------------------------------------------
(* Freeing.                                                                 *)

\* Block b, of class c, is an object or a token no longer.
Freed(home, b, c) ==
    /\ b \in Addr /\ home[b] \in {AtObj, AtToken} /\ class[b] = c /\ c \in Class /\ class' = class
    /\ \A a \in Addr : a # b => (a \in obj' <=> a \in obj) /\ (a \in token' <=> a \in token)
    /\ b \notin obj' /\ b \notin token'

(* The block in front of the M's list, before the list goes anywhere. *)
LEMMA FreePushed ==
    ASSUME TypeOK, NEW home, NEW pos, Held(home, pos), NEW m \in M, NEW c \in Cached, NEW b, Freed(home, b, c),
           NEW l, l = list[m][c], NEW lk, \A a \in Addr : lk[a] = IF a = b THEN l.head ELSE link[a],
           NEW home1, \A a \in Addr : home1[a] = IF a = b THEN AtList(m, c) ELSE home[a],
           NEW pos1, \A a \in Addr : pos1[a] = IF a = b THEN l.n + 1 ELSE pos[a]
    PROVE  /\ Listed(home1, pos1, lk, class, AtList(m, c), Pushed(l, b), c)
           /\ Pushed(l, b) \in FreeList /\ Pushed(l, b).head = b /\ b # 0 /\ Pushed(l, b).n \in Nat
           /\ \A a \in Addr : lk[a] \in Addr \cup {0}
  <1>1. Listed(home, pos, link, class, AtList(m, c), l, c) /\ l \in FreeList
    BY DEF Held, ListsHeld, TypeOK
  <1>2. b \in Addr /\ home[b] # AtList(m, c) /\ class[b] = c
    BY PlacesApart DEF Freed
  <1>3. (\A a \in Addr : lk[a] \in Addr \cup {0}) /\ lk[b] = l.head /\ \A a \in Addr : a # b => lk[a] = link[a]
    BY <1>1, <1>2 DEF TypeOK, FreeList
  <1>4. \A a \in Addr : home1[a] = AtList(m, c) <=> home[a] = AtList(m, c) \/ a = b
    OBVIOUS
  <1>5. \A a \in Addr : home[a] = AtList(m, c) => pos1[a] = pos[a] /\ lk[a] = link[a]
    BY <1>2, <1>3
  <1>6. pos1[b] = l.n + 1
    BY <1>2
  <1>7. Listed(home1, pos1, lk, class, AtList(m, c), Pushed(l, b), c)
    BY <1>1, <1>2, <1>3, <1>4, <1>5, <1>6, ListedPush, SMTT(60)
  <1>8. l.n \in Nat /\ 0 \notin Addr
    BY <1>1, ChainNone DEF Listed
  <1>9. Pushed(l, b) \in FreeList /\ Pushed(l, b).head = b /\ b # 0 /\ Pushed(l, b).n \in Nat
    BY <1>1, <1>2, <1>8 DEF Pushed, FreeList
  <1> QED
    BY <1>3, <1>7, <1>9

(* It stays there. *)
LEMMA FreeKeepHeld ==
    ASSUME TypeOK, NEW home, NEW pos, Held(home, pos), NEW m \in M, NEW c \in Cached, NEW b, Freed(home, b, c),
           link' = [link EXCEPT ![b] = list[m][c].head],
           list' = [list EXCEPT ![m][c] = Pushed(list[m][c], b)], UNCHANGED <<spare, large>>
    PROVE  /\ \E home2, pos2 : Held(home2, pos2)'
           /\ list'[m][c] \in FreeList /\ list'[m][c].head # 0 /\ link' \in [Addr -> Addr \cup {0}]
  <1>1. PICK l : l = list[m][c]
    OBVIOUS
  <1>2. PICK lk : lk = link'
    OBVIOUS
  <1>3. PICK home2, pos2 : /\ home2 = [a \in Addr |-> IF a = b THEN AtList(m, c) ELSE home[a]]
                           /\ pos2 = [a \in Addr |-> IF a = b THEN l.n + 1 ELSE pos[a]]
    OBVIOUS
  <1>4. /\ \A a \in Addr : lk[a] = IF a = b THEN l.head ELSE link[a]
        /\ \A a \in Addr : home2[a] = IF a = b THEN AtList(m, c) ELSE home[a]
        /\ \A a \in Addr : pos2[a] = IF a = b THEN l.n + 1 ELSE pos[a]
    BY <1>1, <1>2, <1>3 DEF TypeOK
  <1>5. /\ Listed(home2, pos2, lk, class, AtList(m, c), Pushed(l, b), c)
        /\ Pushed(l, b) \in FreeList /\ Pushed(l, b).head = b /\ b # 0
        /\ \A a \in Addr : lk[a] \in Addr \cup {0}
    BY <1>1, <1>4, FreePushed
  <1>6. list'[m][c] = Pushed(l, b) /\ \A n \in M, d \in Cached : n # m \/ d # c => list'[n][d] = list[n][d]
    BY <1>1 DEF TypeOK
  <1>7. b \in Addr /\ home[b] \in {AtObj, AtToken} /\ class'[b] # 0 /\ class' = class
    BY DEF Freed, Class
  <1>8. Moves(home, pos, home2, pos2, b, AtList(m, c))
    BY <1>3, <1>7 DEF Moves, TypeOK
  <1>9. Housed(home2)'
    <2>1. /\ \A d \in Cached : Len(spare'[d]) = Len(spare[d])
          /\ \A a \in Addr : a # b => (a \in obj' <=> a \in obj) /\ (a \in token' <=> a \in token)
          /\ (b \in obj' <=> AtList(m, c) = AtObj) /\ (b \in token' <=> AtList(m, c) = AtToken)
      BY PlacesApart DEF Freed
    <2> QED
      BY <1>7, <1>8, <2>1, MoveHoused DEF Held
  <1>10. \A p : p # AtList(m, c) /\ p \notin {AtObj, AtToken} => Untouched(home, pos, home2, pos2, p)
    BY <1>7, <1>8, MoveTouches
  <1>11. ListsStep(home, pos, home2, pos2)
    BY <1>2, <1>5, <1>6, <1>7, <1>10, PlacesApart DEF ListsStep
  <1>12. SparesStep(home, pos, home2, pos2) /\ LargeStep(home, pos, home2, pos2)
    BY <1>10, PlacesApart DEF SparesStep, LargeStep
  <1>13. Held(home2, pos2)'
    BY <1>9, <1>11, <1>12, HeldStep
  <1>14. link' \in [Addr -> Addr \cup {0}]
    BY <1>2, <1>5 DEF TypeOK
  <1> QED
    BY <1>5, <1>6, <1>13, <1>14

(* A block of a class that is not cached. *)
LEMMA FreeLargeHeld ==
    ASSUME TypeOK, NEW home, NEW pos, Held(home, pos), NEW c \in Class \ Cached, NEW b, Freed(home, b, c),
           link' = [link EXCEPT ![b] = large[c]], large' = [large EXCEPT ![c] = b], UNCHANGED <<list, spare>>
    PROVE  \E home2, pos2 : Held(home2, pos2)'
  <1>1. PICK n \in Nat : Chain(home, pos, link, AtLarge(c), large[c], n)
    BY DEF Held, LargeHeld
  <1>2. PICK home2, pos2 : /\ home2 = [a \in Addr |-> IF a = b THEN AtLarge(c) ELSE home[a]]
                           /\ pos2 = [a \in Addr |-> IF a = b THEN n + 1 ELSE pos[a]]
    OBVIOUS
  <1>3. b \in Addr /\ home[b] \in {AtObj, AtToken} /\ class'[b] # 0 /\ class' = class /\ class[b] = c
    BY DEF Freed, Class
  <1>4. Moves(home, pos, home2, pos2, b, AtLarge(c))
    BY <1>2, <1>3 DEF Moves, TypeOK
  <1>5. Housed(home2)'
    <2>1. /\ \A d \in Cached : Len(spare'[d]) = Len(spare[d])
          /\ \A a \in Addr : a # b => (a \in obj' <=> a \in obj) /\ (a \in token' <=> a \in token)
          /\ (b \in obj' <=> AtLarge(c) = AtObj) /\ (b \in token' <=> AtLarge(c) = AtToken)
      BY PlacesApart DEF Freed
    <2> QED
      BY <1>3, <1>4, <2>1, MoveHoused DEF Held
  <1>6. \A p : p # AtLarge(c) /\ p \notin {AtObj, AtToken} => Untouched(home, pos, home2, pos2, p)
    BY <1>3, <1>4, MoveTouches
  <1>7. large'[c] = b /\ \A d \in Class \ Cached : d # c => large'[d] = large[d]
    BY DEF TypeOK
  <1>8. Chain(home2, pos2, link', AtLarge(c), b, n + 1)
    <2>1. home[b] # AtLarge(c) /\ pos2[b] = n + 1 /\ link'[b] = large[c]
      BY <1>2, <1>3, PlacesApart DEF TypeOK
    <2>2. \A a \in Addr : home2[a] = AtLarge(c) <=> home[a] = AtLarge(c) \/ a = b
      BY <1>2
    <2>3. \A a \in Addr : home[a] = AtLarge(c) => pos2[a] = pos[a] /\ link'[a] = link[a]
      BY <1>2, <2>1 DEF TypeOK
    <2>4. PICK lk : lk = link'
      OBVIOUS
    <2>5. lk[b] = large[c] /\ \A a \in Addr : home[a] = AtLarge(c) => pos2[a] = pos[a] /\ lk[a] = link[a]
      BY <2>1, <2>3, <2>4
    <2>6. InFront(home, pos, link, AtLarge(c), large[c], n, b, home2, pos2, lk)
      BY <1>3, <2>1, <2>2, <2>5 DEF InFront
    <2>7. Chain(home2, pos2, lk, AtLarge(c), b, n + 1)
      BY <1>1, <2>6, ChainPush
    <2> QED
      BY <2>4, <2>7
  <1>9. \A a \in Addr : home2[a] = AtLarge(c) => class'[a] = c
    BY <1>2, <1>3 DEF Held, LargeHeld
  <1>10. LargeStep(home, pos, home2, pos2)
    <2> SUFFICES ASSUME NEW d \in Class \ Cached
                 PROVE  \/ large'[d] = large[d] /\ Untouched(home, pos, home2, pos2, AtLarge(d))
                        \/ /\ \E j \in Nat : Chain(home2, pos2, link', AtLarge(d), large'[d], j)
                           /\ \A a \in Addr : home2[a] = AtLarge(d) => class'[a] = d
      BY DEF LargeStep
    <2>1. CASE d = c
      BY <1>1, <1>7, <1>8, <1>9, <2>1
    <2>2. CASE d # c
      BY <1>6, <1>7, <2>2, PlacesApart
    <2> QED
      BY <2>1, <2>2
  <1>11. ListsStep(home, pos, home2, pos2) /\ SparesStep(home, pos, home2, pos2)
    BY <1>6, PlacesApart DEF ListsStep, SparesStep
  <1> QED
    BY <1>5, <1>10, <1>11, HeldStep

\* Block b and m's list of class c go to place q.
Gathered(home, m, c, b, q) == [a \in Addr |-> IF a = b \/ home[a] = AtList(m, c) THEN q ELSE home[a]]

(* Each block is still in one place. *)
LEMMA GatherHoused ==
    ASSUME TypeOK, NEW home, Housed(home), NEW m \in M, NEW c \in Cached, NEW b, Freed(home, b, c),
           NEW i \in 1 .. Len(spare'[c]),
           \A d \in Cached : \A j \in 1 .. Len(spare[d]) : j \in 1 .. Len(spare'[d]),
           NEW home2, home2 = Gathered(home, m, c, b, AtSpare(c, i))
    PROVE  Housed(home2)'
  <1> SUFFICES ASSUME NEW a \in Addr
               PROVE  /\ class'[a] = 0 <=> home2[a] = Nowhere
                      /\ a \in obj' <=> home2[a] = AtObj
                      /\ a \in token' <=> home2[a] = AtToken
                      /\ \/ home2[a] \in {Nowhere, AtObj, AtToken}
                         \/ \E n \in M, d \in Cached : home2[a] = AtList(n, d)
                         \/ \E d \in Class \ Cached : home2[a] = AtLarge(d)
                         \/ \E d \in Cached : \E j \in 1 .. Len(spare'[d]) : home2[a] = AtSpare(d, j)
    BY DEF Housed
  <1>1. CASE a = b \/ home[a] = AtList(m, c)
    <2>1. home2[a] = AtSpare(c, i)
      BY <1>1 DEF Gathered
    <2>2. class'[a] # 0 /\ a \notin obj' /\ a \notin token'
      BY <1>1, PlacesApart DEF Freed, Housed, Class
    <2> QED
      BY <2>1, <2>2, PlacesApart
  <1>2. CASE a # b /\ home[a] # AtList(m, c)
    <2>1. home2[a] = home[a] /\ class'[a] = class[a] /\ (a \in obj' <=> a \in obj) /\ (a \in token' <=> a \in token)
      BY <1>2 DEF Gathered, Freed
    <2> QED
      BY <2>1 DEF Housed
  <1> QED
    BY <1>1, <1>2

(* The M's list has grown past keep and becomes a spare batch of its own. *)
LEMMA FreeSpareHeld ==
    ASSUME TypeOK, NEW home, NEW pos, Held(home, pos), NEW m \in M, NEW c \in Cached, NEW b, Freed(home, b, c),
           NEW l, l = Pushed(list[m][c], b), Len(spare[c]) < fgoRCSpares,
           spare'[c] = Append(spare[c], l), \A d \in Cached : d # c => spare'[d] = spare[d],
           \A a \in Addr : link'[a] = IF a = l.tail THEN 0 ELSE IF a = b THEN list[m][c].head ELSE link[a],
           \A n \in M, d \in Cached : list'[n][d] = IF n = m /\ d = c THEN NoList ELSE list[n][d], UNCHANGED large
    PROVE  /\ \E home2, pos2 : Held(home2, pos2)'
           /\ \A a \in Addr : link'[a] \in Addr \cup {0}
  <1>1. PICK l0 : l0 = list[m][c]
    OBVIOUS
  <1>2. PICK lk : lk = [link EXCEPT ![b] = l0.head]
    OBVIOUS
  <1>3. PICK home1, pos2, k, q : /\ home1 = [a \in Addr |-> IF a = b THEN AtList(m, c) ELSE home[a]]
                                 /\ pos2 = [a \in Addr |-> IF a = b THEN l0.n + 1 ELSE pos[a]]
                                 /\ k = Len(spare[c]) + 1 /\ q = AtSpare(c, k)
    OBVIOUS
  <1>4. PICK home2 : home2 = Gathered(home, m, c, b, q)
    OBVIOUS
  <1>5. /\ Listed(home1, pos2, lk, class, AtList(m, c), l, c)
        /\ l \in FreeList /\ l.head # 0 /\ lk \in [Addr -> Addr \cup {0}]
    <2>1. /\ \A a \in Addr : lk[a] = IF a = b THEN l0.head ELSE link[a]
          /\ \A a \in Addr : home1[a] = IF a = b THEN AtList(m, c) ELSE home[a]
          /\ \A a \in Addr : pos2[a] = IF a = b THEN l0.n + 1 ELSE pos[a]
      BY <1>2, <1>3 DEF TypeOK
    <2>2. /\ Listed(home1, pos2, lk, class, AtList(m, c), l, c)
          /\ l \in FreeList /\ l.head = b /\ b # 0 /\ \A a \in Addr : lk[a] \in Addr \cup {0}
      BY <1>1, <2>1, FreePushed
    <2> QED
      BY <1>2, <2>2 DEF TypeOK
  <1>6. /\ b \in Addr /\ home[b] \in {AtObj, AtToken} /\ class' = class
    BY DEF Freed
  <1>7. \A a \in Addr : link'[a] = lk[a]
    <2>1. l.tail \in Addr /\ lk[l.tail] = 0
      BY <1>5 DEF Listed, Chain
    <2> QED
      BY <1>1, <1>2, <2>1 DEF TypeOK
  <1>8. /\ Len(spare'[c]) = k /\ spare'[c][k] = l /\ spare'[c] \in Seq(FreeList)
        /\ \A i \in 1 .. Len(spare[c]) : i \in 1 .. Len(spare'[c]) /\ spare'[c][i] = spare[c][i]
        /\ \A i \in 1 .. Len(spare'[c]) : i # k => i \in 1 .. Len(spare[c])
        /\ \A d \in Cached : d # c => spare'[d] = spare[d]
        /\ k \in 1 .. Len(spare'[c]) /\ k \notin 1 .. Len(spare[c])
    <2>1. spare'[c] = Append(spare[c], l) /\ spare[c] \in Seq(FreeList)
      BY DEF TypeOK
    <2> QED
      BY <1>3, <1>5, <2>1
  <1>9. Housed(home2)'
    <2>1. \A d \in Cached : \A j \in 1 .. Len(spare[d]) : j \in 1 .. Len(spare'[d])
      BY <1>8
    <2>2. Housed(home) /\ home2 = Gathered(home, m, c, b, AtSpare(c, k))
      BY <1>3, <1>4 DEF Held
    <2> QED
      BY <1>8, <2>1, <2>2, GatherHoused
  <1>10. \A a \in Addr : home[a] # q
    BY <1>3, <1>8, PlacesApart DEF Held, Housed
  <1>11. \A a \in Addr : a # b => pos2[a] = pos[a] /\ lk[a] = link[a]
    BY <1>2, <1>3, <1>6 DEF TypeOK
  <1>12. \A a \in Addr : home2[a] = IF a = b \/ home[a] = AtList(m, c) THEN q ELSE home[a]
    BY <1>4 DEF Gathered
  <1>13. \A p : p \notin {q, AtList(m, c), AtObj, AtToken} => Untouched(home, pos, home2, pos2, p)
    BY <1>6, <1>7, <1>11, <1>12 DEF Untouched
  <1>14. Listed(home2, pos2, link', class', q, l, c)
    <2>1. \A a \in Addr : home2[a] = q <=> home1[a] = AtList(m, c)
      BY <1>3, <1>10, <1>12
    <2>2. PICK lk2 : lk2 = link'
      OBVIOUS
    <2>3. \A a \in Addr : home1[a] = AtList(m, c) => lk2[a] = lk[a]
      BY <1>7, <2>2
    <2>4. Listed(home2, pos2, lk2, class, q, l, c)
      BY <1>5, <2>1, <2>3, ListedMove
    <2> QED
      BY <1>6, <2>2, <2>4
  <1>15. SparesStep(home, pos, home2, pos2)
    <2> SUFFICES ASSUME NEW d \in Cached, NEW i \in 1 .. Len(spare'[d])
                 PROVE  \/ /\ i \in 1 .. Len(spare[d]) /\ spare'[d][i] = spare[d][i]
                           /\ Untouched(home, pos, home2, pos2, AtSpare(d, i))
                        \/ spare'[d][i].head # 0 /\ Listed(home2, pos2, link', class', AtSpare(d, i), spare'[d][i], d)
      BY DEF SparesStep
    <2>1. CASE d = c /\ i = k
      BY <1>3, <1>5, <1>8, <1>14, <2>1
    <2>2. CASE ~(d = c /\ i = k)
      <3>1. AtSpare(d, i) \notin {q, AtList(m, c), AtObj, AtToken}
        BY <1>3, <2>2, PlacesApart
      <3>2. i \in 1 .. Len(spare[d]) /\ spare'[d][i] = spare[d][i]
        BY <1>8, <2>2
      <3> QED
        BY <1>13, <3>1, <3>2
    <2> QED
      BY <2>1, <2>2
  <1>16. ListsStep(home, pos, home2, pos2)
    <2> SUFFICES ASSUME NEW n \in M, NEW d \in Cached
                 PROVE  \/ list'[n][d] = list[n][d] /\ Untouched(home, pos, home2, pos2, AtList(n, d))
                        \/ Listed(home2, pos2, link', class', AtList(n, d), list'[n][d], d)
      BY DEF ListsStep
    <2>1. CASE n = m /\ d = c
      <3>1. \A a \in Addr : home2[a] # AtList(m, c)
        BY <1>3, <1>12, PlacesApart
      <3>2. list'[m][c] = NoList
        OBVIOUS
      <3>3. Listed(home2, pos2, link', class', AtList(m, c), NoList, c)
        BY <3>1, ChainEmpty DEF Listed, NoList
      <3> QED
        BY <2>1, <3>2, <3>3
    <2>2. CASE ~(n = m /\ d = c)
      <3>1. AtList(n, d) \notin {q, AtList(m, c), AtObj, AtToken}
        BY <1>3, <2>2, PlacesApart
      <3>2. list'[n][d] = list[n][d]
        BY <2>2
      <3> QED
        BY <1>13, <3>1, <3>2
    <2> QED
      BY <2>1, <2>2
  <1>17. LargeStep(home, pos, home2, pos2)
    BY <1>3, <1>13, PlacesApart DEF LargeStep
  <1>18. Held(home2, pos2)'
    BY <1>9, <1>15, <1>16, <1>17, HeldStep
  <1>19. \A a \in Addr : link'[a] \in Addr \cup {0}
    BY <1>5, <1>7
  <1> QED
    BY <1>18, <1>19

(* The spare stack is full: the M's list goes in front of its top batch. *)
LEMMA FreeJoinHeld ==
    ASSUME TypeOK, NEW home, NEW pos, Held(home, pos), NEW m \in M, NEW c \in Cached, NEW b, Freed(home, b, c),
           NEW l, l = Pushed(list[m][c], b), ~(Len(spare[c]) < fgoRCSpares), NEW t, t = spare[c][Len(spare[c])], NEW r,
           r.head = l.head, r.tail = t.tail, r.n = l.n + t.n, Len(spare'[c]) = Len(spare[c]),
           \A i \in 1 .. Len(spare[c]) : spare'[c][i] = IF i = Len(spare[c]) THEN r ELSE spare[c][i],
           \A d \in Cached : d # c => spare'[d] = spare[d],
           \A a \in Addr : link'[a] = IF a = l.tail THEN t.head ELSE IF a = b THEN list[m][c].head ELSE link[a],
           \A n \in M, d \in Cached : list'[n][d] = IF n = m /\ d = c THEN NoList ELSE list[n][d], UNCHANGED large
    PROVE  /\ \E home2, pos2 : Held(home2, pos2)'
           /\ \A a \in Addr : link'[a] \in Addr \cup {0}
  <1>1. PICK l0 : l0 = list[m][c]
    OBVIOUS
  <1>2. PICK lk, lk2 : lk = [link EXCEPT ![b] = l0.head] /\ lk2 = link'
    OBVIOUS
  <1>3. PICK home1, pos1, k, q : /\ home1 = [a \in Addr |-> IF a = b THEN AtList(m, c) ELSE home[a]]
                                 /\ pos1 = [a \in Addr |-> IF a = b THEN l0.n + 1 ELSE pos[a]]
                                 /\ k = Len(spare[c]) /\ q = AtSpare(c, k)
    OBVIOUS
  <1>4. PICK home2, pos2 : /\ home2 = Gathered(home, m, c, b, q)
                           /\ pos2 = [a \in Addr |-> IF a = b \/ home[a] = AtList(m, c) THEN pos1[a] + t.n ELSE pos1[a]]
    OBVIOUS
  <1>5. k \in Nat /\ k \in 1 .. Len(spare[c]) /\ spare[c] \in Seq(FreeList) /\ t \in FreeList /\ k = fgoRCSpares
    <2>1. spare[c] \in Seq(FreeList) /\ Len(spare[c]) <= fgoRCSpares /\ Len(spare[c]) \in Nat
      BY DEF TypeOK
    <2> QED
      BY <1>3, <2>1, ConstAssumption
  <1>6. Listed(home, pos, link, class, q, t, c) /\ t.head # 0
    <2>1. t = spare[c][k]
      BY <1>3
    <2>2. spare[c][k].head # 0 /\ Listed(home, pos, link, class, AtSpare(c, k), spare[c][k], c)
      BY <1>5 DEF Held, SparesHeld
    <2> QED
      BY <1>3, <2>1, <2>2
  <1>7. /\ Listed(home1, pos1, lk, class, AtList(m, c), l, c)
        /\ l \in FreeList /\ l.head # 0 /\ lk \in [Addr -> Addr \cup {0}] /\ l.n \in Nat
    <2>1. /\ \A a \in Addr : lk[a] = IF a = b THEN l0.head ELSE link[a]
          /\ \A a \in Addr : home1[a] = IF a = b THEN AtList(m, c) ELSE home[a]
          /\ \A a \in Addr : pos1[a] = IF a = b THEN l0.n + 1 ELSE pos[a]
      BY <1>2, <1>3 DEF TypeOK
    <2>2. l = Pushed(l0, b)
      BY <1>1
    <2>3. /\ Listed(home1, pos1, lk, class, AtList(m, c), Pushed(l0, b), c)
          /\ Pushed(l0, b) \in FreeList /\ Pushed(l0, b).head = b /\ b # 0 /\ Pushed(l0, b).n \in Nat
          /\ \A a \in Addr : lk[a] \in Addr \cup {0}
      BY <1>1, <2>1, FreePushed
    <2>4. lk \in [Addr -> Addr \cup {0}]
      BY <1>2, <2>3 DEF TypeOK
    <2> QED
      BY <2>2, <2>3, <2>4
  <1>8. b \in Addr /\ home[b] \in {AtObj, AtToken} /\ class' = class
    BY DEF Freed
  <1>9. /\ \A a \in Addr : home1[a] = IF a = b THEN AtList(m, c) ELSE home[a]
        /\ \A a \in Addr : home2[a] = IF a = b \/ home[a] = AtList(m, c) THEN q ELSE home[a]
        /\ \A a \in Addr : a # b => pos1[a] = pos[a] /\ lk[a] = link[a]
        /\ \A a \in Addr : pos2[a] = IF a = b \/ home[a] = AtList(m, c) THEN pos1[a] + t.n ELSE pos1[a]
    BY <1>2, <1>3, <1>4, <1>8 DEF Gathered, TypeOK
  <1>10. q \notin {AtList(m, c), AtObj, AtToken} /\ AtList(m, c) \notin {AtObj, AtToken}
    BY <1>3, PlacesApart
  <1>11. Listed(home1, pos1, lk, class, q, t, c)
    <2>1. \A a \in Addr : home1[a] = q <=> home[a] = q
      BY <1>8, <1>9, <1>10
    <2>2. \A a \in Addr : home[a] = q => pos1[a] = pos[a] /\ lk[a] = link[a] /\ class[a] = class[a]
      BY <1>8, <1>9, <1>10
    <2> QED
      BY <1>6, <2>1, <2>2, ListedKeep
  <1>12. l.tail \in Addr /\ home1[l.tail] = AtList(m, c)
    BY <1>7 DEF Listed
  <1>13. lk2[l.tail] = t.head /\ \A a \in Addr : a # l.tail => lk2[a] = lk[a]
    BY <1>1, <1>2, <1>7, <1>12 DEF TypeOK
  <1>14. \A a \in Addr : link'[a] \in Addr \cup {0}
    <2>1. t.head \in Addr \cup {0}
      BY <1>5 DEF FreeList
    <2> QED
      BY <1>2, <1>7, <1>13, <2>1
  <1>17. Listed(home2, pos2, lk2, class, q, r, c)
    <2>1. \A a \in Addr : home2[a] = q <=> home1[a] = AtList(m, c) \/ home1[a] = q
      BY <1>9, <1>10
    <2>2. \A a \in Addr : home1[a] = AtList(m, c) => pos2[a] = pos1[a] + t.n
      BY <1>9
    <2>3. \A a \in Addr : home1[a] = q => pos2[a] = pos1[a]
      BY <1>8, <1>9, <1>10
    <2>4. AtList(m, c) # q
      BY <1>10
    <2>5. JoinedTo(home1, pos1, lk, AtList(m, c), l, q, t, home2, pos2, lk2, r)
      BY <1>6, <1>7, <1>13, <2>1, <2>2, <2>3, <2>4 DEF JoinedTo
    <2> QED
      BY <1>7, <1>11, <2>5, ListedJoin
  <1>18. /\ Len(spare'[c]) = k /\ spare'[c][k] = r
         /\ \A i \in 1 .. Len(spare[c]) : i \in 1 .. Len(spare'[c]) /\ (i # k => spare'[c][i] = spare[c][i])
         /\ \A i \in 1 .. Len(spare'[c]) : i \in 1 .. Len(spare[c])
         /\ k \in 1 .. Len(spare'[c])
    BY <1>3, <1>5
  <1>19. Housed(home2)'
    <2>1. \A d \in Cached : \A j \in 1 .. Len(spare[d]) : j \in 1 .. Len(spare'[d])
      BY <1>18
    <2>2. Housed(home) /\ home2 = Gathered(home, m, c, b, AtSpare(c, k))
      BY <1>3, <1>4 DEF Held
    <2> QED
      BY <1>18, <2>1, <2>2, GatherHoused
  <1>20. \A p : p \notin {q, AtList(m, c), AtObj, AtToken} => Untouched(home, pos, home2, pos2, p)
    <2> SUFFICES ASSUME NEW p, p \notin {q, AtList(m, c), AtObj, AtToken}, NEW a \in Addr
                 PROVE  /\ home2[a] = p <=> home[a] = p
                        /\ home[a] = p => pos2[a] = pos[a] /\ link'[a] = link[a] /\ class'[a] = class[a]
      BY DEF Untouched
    <2>1. home[a] = p => a # b /\ a # l.tail
      BY <1>8, <1>9, <1>12
    <2> QED
      BY <1>2, <1>8, <1>9, <1>13, <2>1
  <1>21. SparesStep(home, pos, home2, pos2)
    <2> SUFFICES ASSUME NEW d \in Cached, NEW i \in 1 .. Len(spare'[d])
                 PROVE  \/ /\ i \in 1 .. Len(spare[d]) /\ spare'[d][i] = spare[d][i]
                           /\ Untouched(home, pos, home2, pos2, AtSpare(d, i))
                        \/ spare'[d][i].head # 0 /\ Listed(home2, pos2, link', class', AtSpare(d, i), spare'[d][i], d)
      BY DEF SparesStep
    <2>1. CASE d = c /\ i = k
      BY <1>2, <1>3, <1>7, <1>8, <1>17, <1>18, <2>1
    <2>2. CASE ~(d = c /\ i = k)
      <3>1. AtSpare(d, i) \notin {q, AtList(m, c), AtObj, AtToken}
        BY <1>3, <2>2, PlacesApart
      <3>2. i \in 1 .. Len(spare[d]) /\ spare'[d][i] = spare[d][i]
        BY <1>18, <2>2
      <3> QED
        BY <1>20, <3>1, <3>2
    <2> QED
      BY <2>1, <2>2
  <1>22. ListsStep(home, pos, home2, pos2)
    <2> SUFFICES ASSUME NEW n \in M, NEW d \in Cached
                 PROVE  \/ list'[n][d] = list[n][d] /\ Untouched(home, pos, home2, pos2, AtList(n, d))
                        \/ Listed(home2, pos2, link', class', AtList(n, d), list'[n][d], d)
      BY DEF ListsStep
    <2>1. CASE n = m /\ d = c
      <3>1. \A a \in Addr : home2[a] # AtList(m, c)
        BY <1>9, <1>10
      <3>2. list'[m][c] = NoList
        OBVIOUS
      <3>3. Listed(home2, pos2, link', class', AtList(m, c), NoList, c)
        BY <3>1, ChainEmpty DEF Listed, NoList
      <3> QED
        BY <2>1, <3>2, <3>3
    <2>2. CASE ~(n = m /\ d = c)
      <3>1. AtList(n, d) \notin {q, AtList(m, c), AtObj, AtToken}
        BY <1>3, <2>2, PlacesApart
      <3>2. list'[n][d] = list[n][d]
        BY <2>2
      <3> QED
        BY <1>20, <3>1, <3>2
    <2> QED
      BY <2>1, <2>2
  <1>23. LargeStep(home, pos, home2, pos2)
    BY <1>3, <1>20, PlacesApart DEF LargeStep
  <1>24. Held(home2, pos2)'
    BY <1>19, <1>21, <1>22, <1>23, HeldStep
  <1> QED
    BY <1>14, <1>24

(* fgoRCFreeClass, whichever way it goes. *)
LEMMA FreeHeld ==
    ASSUME TypeOK, NEW home, NEW pos, Held(home, pos), NEW m \in M, NEW b, Freed(home, b, class[b]),
           fgoRCFreeClass(m, b, class[b])
    PROVE  /\ \E home2, pos2 : Held(home2, pos2)'
           /\ list' \in [M -> [Cached -> FreeList]] /\ large' \in [Class \ Cached -> Addr \cup {0}]
           /\ spare' \in [Cached -> Seq(FreeList)] /\ \A d \in Cached : Len(spare'[d]) <= fgoRCSpares
           /\ link' \in [Addr -> Addr \cup {0}] /\ Counts(IF class[b] \in Cached THEN m ELSE Shared, -1)
           /\ \A n \in M, d \in Cached : n # m => list'[n][d] = list[n][d]
  <1>1. PICK c : c = class[b]
    OBVIOUS
  <1>2. b \in Addr /\ c \in Class /\ Freed(home, b, c)
    BY <1>1 DEF Freed
  <1>3. CASE c \notin Cached
    <2>1. /\ link' = [link EXCEPT ![b] = large[c]] /\ large' = [large EXCEPT ![c] = b] /\ Counts(Shared, -1)
          /\ UNCHANGED <<list, spare>>
      BY <1>1, <1>3 DEF fgoRCFreeClass
    <2>2. \E home2, pos2 : Held(home2, pos2)'
      BY <1>2, <1>3, <2>1, FreeLargeHeld
    <2>3. large' \in [Class \ Cached -> Addr \cup {0}] /\ link' \in [Addr -> Addr \cup {0}]
      BY <1>2, <1>3, <2>1 DEF TypeOK
    <2> QED
      BY <1>1, <1>3, <2>1, <2>2, <2>3 DEF TypeOK
  <1>4. CASE c \in Cached
    <2>1. PICK l : l = Pushed(list[m][c], b)
      OBVIOUS
    <2>2. Counts(m, -1) /\ UNCHANGED large
      BY <1>1, <1>4 DEF fgoRCFreeClass
    <2>3. CASE ~(l.n > keep(c))
      <3>1. /\ link' = [link EXCEPT ![b] = list[m][c].head] /\ list' = [list EXCEPT ![m][c] = l] /\ UNCHANGED spare
        BY <1>1, <1>4, <2>1, <2>3 DEF fgoRCFreeClass
      <3>2. (\E home2, pos2 : Held(home2, pos2)') /\ list'[m][c] \in FreeList /\ link' \in [Addr -> Addr \cup {0}]
        BY <1>2, <1>4, <2>1, <2>2, <3>1, FreeKeepHeld
      <3>3. l \in FreeList
        BY <1>4, <3>1, <3>2 DEF TypeOK
      <3>4. list' \in [M -> [Cached -> FreeList]]
        BY <1>4, <3>1, <3>3 DEF TypeOK
      <3> QED
        BY <1>1, <1>4, <2>2, <3>1, <3>2, <3>4 DEF TypeOK
    <2>4. CASE l.n > keep(c)
      <3>1. PICK mv : mv = fgoRCSpare(c, l, spare[c])
        OBVIOUS
      <3>2. /\ spare' = [spare EXCEPT ![c] = mv.spare] /\ list' = [list EXCEPT ![m][c] = NoList]
            /\ link' = [[link EXCEPT ![b] = list[m][c].head] EXCEPT ![l.tail] = mv.link]
        BY <1>1, <1>4, <2>1, <2>4, <3>1 DEF fgoRCFreeClass
      <3>3. /\ \A d \in Cached : d # c => spare'[d] = spare[d]
            /\ \A n \in M, d \in Cached : list'[n][d] = IF n = m /\ d = c THEN NoList ELSE list[n][d]
            /\ spare'[c] = mv.spare
            /\ l \in FreeList /\ l.tail \in Addr /\ l.n \in Nat
            /\ DOMAIN link' = Addr
        <4>1. /\ list[m][c] \in FreeList /\ 0 \notin Addr
              /\ IF list[m][c].head = 0 THEN list[m][c].tail = 0 ELSE list[m][c].tail \in Addr
              /\ list[m][c].n \in Nat
          BY <1>4, ChainNone DEF Held, ListsHeld, Listed, TypeOK
        <4>2. l \in FreeList /\ l.tail \in Addr /\ l.n \in Nat
          BY <1>2, <2>1, <4>1 DEF Pushed, FreeList
        <4>3. /\ \A d \in Cached : d # c => spare'[d] = spare[d]
              /\ spare'[c] = mv.spare /\ DOMAIN link' = Addr
          BY <1>4, <3>2 DEF TypeOK
        <4>4. \A n \in M, d \in Cached : list'[n][d] = IF n = m /\ d = c THEN NoList ELSE list[n][d]
          BY <1>4, <3>2 DEF TypeOK
        <4> QED
          BY <4>2, <4>3, <4>4
      <3>4. \A a \in Addr : link'[a] = IF a = l.tail THEN mv.link ELSE IF a = b THEN list[m][c].head ELSE link[a]
        BY <3>2, <3>3 DEF TypeOK
      <3>5. /\ \E home2, pos2 : Held(home2, pos2)'
            /\ spare'[c] \in Seq(FreeList) /\ Len(spare'[c]) <= fgoRCSpares /\ \A a \in Addr : link'[a] \in Addr \cup {0}
        <4>1. CASE Len(spare[c]) < fgoRCSpares
          <5>1. mv.spare = Append(spare[c], l) /\ mv.link = 0
            BY <3>1, <4>1 DEF fgoRCSpare
          <5>2. /\ spare'[c] = Append(spare[c], l)
                /\ \A a \in Addr : link'[a] = IF a = l.tail THEN 0 ELSE IF a = b THEN list[m][c].head ELSE link[a]
            BY <3>3, <3>4, <5>1
          <5>3. (\E home2, pos2 : Held(home2, pos2)') /\ \A a \in Addr : link'[a] \in Addr \cup {0}
            BY <1>2, <1>4, <2>1, <2>2, <3>3, <4>1, <5>2, FreeSpareHeld
          <5>4. spare'[c] \in Seq(FreeList) /\ Len(spare'[c]) <= fgoRCSpares
            BY <1>4, <3>3, <4>1, <5>2, ConstAssumption DEF TypeOK
          <5> QED
            BY <5>3, <5>4
        <4>2. CASE ~(Len(spare[c]) < fgoRCSpares)
          <5>1. PICK s, j, t : s = spare[c] /\ j = Len(s) /\ t = s[j]
            OBVIOUS
          <5>2. s \in Seq(FreeList) /\ j \in 1 .. Len(s) /\ t \in FreeList /\ Len(s) <= fgoRCSpares
            <6>1. s \in Seq(FreeList) /\ Len(s) \in Nat /\ Len(s) # 0 /\ Len(s) <= fgoRCSpares
              BY <1>4, <4>2, <5>1, ConstAssumption DEF TypeOK
            <6> QED
              BY <5>1, <6>1
          <5>3. PICK r : r = [head |-> l.head, tail |-> t.tail, n |-> l.n + t.n]
            OBVIOUS
          <5>4. r \in FreeList /\ r.head = l.head /\ r.tail = t.tail /\ r.n = l.n + t.n
            BY <3>3, <5>2, <5>3 DEF FreeList
          <5>5. mv.spare = [s EXCEPT ![j] = r] /\ mv.link = t.head
            BY <3>1, <4>2, <5>1, <5>3 DEF fgoRCSpare
          <5>6. mv.spare[j] = r /\ Len(mv.spare) = j /\ \A i \in 1 .. Len(s) : i # j => mv.spare[i] = s[i]
            BY <5>1, <5>2, <5>5
          <5>7. mv.spare \in Seq(FreeList)
            BY <5>2, <5>4, <5>5
          <5>8. /\ Len(spare'[c]) = Len(spare[c])
                /\ \A i \in 1 .. Len(spare[c]) : spare'[c][i] = IF i = Len(spare[c]) THEN r ELSE spare[c][i]
                /\ \A a \in Addr : link'[a] = IF a = l.tail THEN t.head ELSE IF a = b THEN list[m][c].head ELSE link[a]
                /\ t = spare[c][Len(spare[c])]
            BY <3>3, <3>4, <5>1, <5>5, <5>6
          <5>9. (\E home2, pos2 : Held(home2, pos2)') /\ \A a \in Addr : link'[a] \in Addr \cup {0}
            BY <1>2, <1>4, <2>1, <2>2, <3>3, <4>2, <5>4, <5>8, FreeJoinHeld
          <5> QED
            BY <3>3, <5>1, <5>2, <5>6, <5>7, <5>9
        <4> QED
          BY <4>1, <4>2
      <3>6. spare' = [spare EXCEPT ![c] = spare'[c]]
        BY <1>4, <3>2 DEF TypeOK
      <3>7. spare' \in [Cached -> Seq(FreeList)] /\ \A d \in Cached : Len(spare'[d]) <= fgoRCSpares
        <4>1. DOMAIN spare' = Cached /\ \A d \in Cached : d # c => spare'[d] = spare[d]
          BY <3>2 DEF TypeOK
        <4>2. spare' = [d \in Cached |-> spare'[d]]
          BY <3>2 DEF TypeOK
        <4>3. \A d \in Cached : spare'[d] \in Seq(FreeList) /\ Len(spare'[d]) <= fgoRCSpares
          BY <3>5, <4>1 DEF TypeOK
        <4> QED
          BY <4>2, <4>3
      <3>8. link' \in [Addr -> Addr \cup {0}]
        <4>1. link' = [a \in Addr |-> link'[a]]
          BY <3>2 DEF TypeOK
        <4> QED
          BY <3>5, <4>1
      <3>9. NoList \in FreeList
        BY DEF NoList, FreeList
      <3>10. list' \in [M -> [Cached -> FreeList]]
        BY <3>2, <3>9 DEF TypeOK
      <3>11. large' \in [Class \ Cached -> Addr \cup {0}] /\ \A n \in M, d \in Cached : n # m => list'[n][d] = list[n][d]
        BY <2>2, <3>2 DEF TypeOK
      <3> QED
        BY <1>1, <1>4, <2>2, <3>7, <3>10, <3>11, <3>5, <3>8
    <2> QED
      BY <2>3, <2>4
  <1> QED
    BY <1>3, <1>4

-----------------------------------------------------------------------------
(* The invariant.                                                           *)

(* One more unit at o, or one less. *)
LEMMA UnitsMore ==
    ASSUME NEW S, NEW f, NEW g, NEW o \in S, \A q \in S : f[q] \in Int, IsFiniteSet(Units(f, S)),
           g[o] = f[o] + 1, \A q \in S : q # o => g[q] = f[q]
    PROVE  /\ IsFiniteSet(Units(g, S))
           /\ Cardinality(Units(g, S)) = IF f[o] >= 0 THEN Cardinality(Units(f, S)) + 1
                                         ELSE Cardinality(Units(f, S))
  <1>1. \A h, x : x \in Units(h, S) <=> \E q \in S : \E i \in 1 .. h[q] : x = <<q, i>>
    BY DEF Units
  <1>2. CASE f[o] >= 0
    <2>1. PICK u : u = <<o, f[o] + 1>>
      OBVIOUS
    <2>2. u \notin Units(f, S)
      BY <1>1, <2>1
    <2>3. \A q \in S : \A i : i \in 1 .. g[q] <=> i \in 1 .. f[q] \/ (q = o /\ i = f[o] + 1)
      BY <1>2
    <2>4. Units(g, S) = Units(f, S) \cup {u}
      BY <1>1, <2>1, <2>3
    <2> QED
      BY <1>2, <2>2, <2>4, FS_AddElement
  <1>3. CASE ~(f[o] >= 0)
    <2>1. \A q \in S : 1 .. g[q] = 1 .. f[q]
      BY <1>3
    <2>2. Units(g, S) = Units(f, S)
      <3>1. \A x : x \in Units(g, S) <=> \E q \in S : \E i \in 1 .. g[q] : x = <<q, i>>
        BY <1>1
      <3>2. \A x : x \in Units(f, S) <=> \E q \in S : \E i \in 1 .. f[q] : x = <<q, i>>
        BY <1>1
      <3>3. \A x : x \in Units(g, S) => x \in Units(f, S)
        BY <2>1, <3>1, <3>2
      <3>4. \A x : x \in Units(f, S) => x \in Units(g, S)
        BY <2>1, <3>1, <3>2
      <3> QED
        BY <3>3, <3>4
    <2> QED
      BY <1>3, <2>2
  <1> QED
    BY <1>2, <1>3

LEMMA UnitsLess ==
    ASSUME NEW S, NEW f, NEW g, NEW o \in S, \A q \in S : f[q] \in Int, IsFiniteSet(Units(f, S)),
           g[o] = f[o] - 1, \A q \in S : q # o => g[q] = f[q]
    PROVE  /\ IsFiniteSet(Units(g, S))
           /\ Cardinality(Units(g, S)) = IF f[o] > 0 THEN Cardinality(Units(f, S)) - 1
                                         ELSE Cardinality(Units(f, S))
  <1>1. \A h, x : x \in Units(h, S) <=> \E q \in S : \E i \in 1 .. h[q] : x = <<q, i>>
    BY DEF Units
  <1>2. CASE f[o] > 0
    <2>1. PICK u : u = <<o, f[o]>>
      OBVIOUS
    <2>2. u \in Units(f, S)
      BY <1>1, <1>2, <2>1
    <2>3. \A q \in S : \A i : i \in 1 .. g[q] <=> i \in 1 .. f[q] /\ ~(q = o /\ i = f[o])
      BY <1>2
    <2>4. Units(g, S) = Units(f, S) \ {u}
      BY <1>1, <2>1, <2>3
    <2> QED
      BY <1>2, <2>2, <2>4, FS_RemoveElement
  <1>3. CASE ~(f[o] > 0)
    <2>1. \A q \in S : 1 .. g[q] = 1 .. f[q]
      BY <1>3
    <2>2. Units(g, S) = Units(f, S)
      <3>1. \A x : x \in Units(g, S) <=> \E q \in S : \E i \in 1 .. g[q] : x = <<q, i>>
        BY <1>1
      <3>2. \A x : x \in Units(f, S) <=> \E q \in S : \E i \in 1 .. f[q] : x = <<q, i>>
        BY <1>1
      <3>3. \A x : x \in Units(g, S) => x \in Units(f, S)
        BY <2>1, <3>1, <3>2
      <3>4. \A x : x \in Units(f, S) => x \in Units(g, S)
        BY <2>1, <3>1, <3>2
      <3> QED
        BY <3>3, <3>4
    <2> QED
      BY <1>3, <2>2
  <1> QED
    BY <1>2, <1>3

(* A counter's step is a step of the sum. *)
LEMMA CountsSum ==
    ASSUME TypeOK, LiveInv, NEW o \in Owner, NEW d \in {1, -1}, Counts(o, d)
    PROVE  /\ live' \in [Owner -> -MaxLive..MaxLive]
           /\ IsFiniteSet(Units(live, Owner)') /\ IsFiniteSet(Units([q \in Owner |-> -live[q]], Owner)')
           /\ Total(Owner)' = Total(Owner) + d
  <1> DEFINE neg == [q \in Owner |-> -live[q]]
             neg2 == [q \in Owner |-> -live'[q]]
  <1>1. /\ live' \in [Owner -> -MaxLive..MaxLive] /\ MaxLive \in Nat
        /\ live'[o] = live[o] + d /\ \A q \in Owner : q # o => live'[q] = live[q]
    BY ConstAssumption DEF TypeOK, Counts
  <1>2. /\ \A q \in Owner : live[q] \in Int /\ neg[q] \in Int /\ neg[q] = -live[q]
        /\ neg2[o] = neg[o] - d /\ \A q \in Owner : q # o => neg2[q] = neg[q]
    BY <1>1 DEF TypeOK
  <1>3. /\ IsFiniteSet(Units(live, Owner)) /\ IsFiniteSet(Units(neg, Owner))
        /\ Cardinality(Units(live, Owner)) \in Nat /\ Cardinality(Units(neg, Owner)) \in Nat
    BY FS_CardinalityType DEF LiveInv
  <1>4. Total(Owner) = Cardinality(Units(live, Owner)) - Cardinality(Units(neg, Owner))
    BY DEF Total
  <1>5. /\ Total(Owner)' = Cardinality(Units(live', Owner)) - Cardinality(Units(neg2, Owner))
        /\ Units(live, Owner)' = Units(live', Owner)
        /\ Units([q \in Owner |-> -live[q]], Owner)' = Units(neg2, Owner)
    BY DEF Total, Units
  <1> HIDE DEF neg, neg2
  <1>6. CASE d = 1
    <2>1. /\ IsFiniteSet(Units(live', Owner))
          /\ Cardinality(Units(live', Owner)) = IF live[o] >= 0 THEN Cardinality(Units(live, Owner)) + 1
                                                ELSE Cardinality(Units(live, Owner))
      BY <1>1, <1>2, <1>3, <1>6, UnitsMore
    <2>2. /\ IsFiniteSet(Units(neg2, Owner))
          /\ Cardinality(Units(neg2, Owner)) = IF neg[o] > 0 THEN Cardinality(Units(neg, Owner)) - 1
                                               ELSE Cardinality(Units(neg, Owner))
      BY <1>2, <1>3, <1>6, UnitsLess
    <2> QED
      BY <1>1, <1>2, <1>3, <1>4, <1>5, <1>6, <2>1, <2>2
  <1>7. CASE d = -1
    <2>1. live'[o] = live[o] - 1 /\ neg2[o] = neg[o] + 1
      BY <1>1, <1>2, <1>7
    <2>2. /\ IsFiniteSet(Units(live', Owner))
          /\ Cardinality(Units(live', Owner)) = IF live[o] > 0 THEN Cardinality(Units(live, Owner)) - 1
                                                ELSE Cardinality(Units(live, Owner))
      BY <1>1, <1>2, <1>3, <2>1, UnitsLess
    <2>3. /\ IsFiniteSet(Units(neg2, Owner))
          /\ Cardinality(Units(neg2, Owner)) = IF neg[o] >= 0 THEN Cardinality(Units(neg, Owner)) + 1
                                               ELSE Cardinality(Units(neg, Owner))
      BY <1>2, <1>3, <2>1, UnitsMore
    <2> QED
      BY <1>1, <1>2, <1>3, <1>4, <1>5, <1>7, <2>2, <2>3
  <1> QED
    BY <1>6, <1>7

(* No counter moved. *)
LEMMA CountsSame ==
    ASSUME TypeOK, LiveInv, live' = live
    PROVE  /\ live' \in [Owner -> -MaxLive..MaxLive]
           /\ IsFiniteSet(Units(live, Owner)') /\ IsFiniteSet(Units([q \in Owner |-> -live[q]], Owner)')
           /\ Total(Owner)' = Total(Owner)
  BY DEF TypeOK, LiveInv, Units, Total

(* The sum over all owners is that over those still counted and the rest. *)
LEMMA TotalSplit ==
    ASSUME TypeOK, LiveInv
    PROVE  Total(Owner) = Total(Owner \ gone) + Total(gone) /\ Total(Owner) \in Int
  <1>1. gone \subseteq Owner
    BY DEF TypeOK, Owner
  <1>2. ASSUME NEW f, IsFiniteSet(Units(f, Owner))
        PROVE  /\ Cardinality(Units(f, Owner)) = Cardinality(Units(f, Owner \ gone)) + Cardinality(Units(f, gone))
               /\ Cardinality(Units(f, Owner \ gone)) \in Nat /\ Cardinality(Units(f, gone)) \in Nat
    <2>1. \A S, x : x \in Units(f, S) <=> \E q \in S : \E i \in 1 .. f[q] : x = <<q, i>>
      BY DEF Units
    <2>2. PICK A, B : A = Units(f, Owner \ gone) /\ B = Units(f, gone)
      OBVIOUS
    <2>3. Units(f, Owner) = A \cup B /\ A \cap B = {}
      BY <1>1, <2>1, <2>2
    <2>4. IsFiniteSet(A) /\ IsFiniteSet(B)
      BY <1>2, <2>3, FS_Subset
    <2>5. Cardinality(A) \in Nat /\ Cardinality(B) \in Nat /\ Cardinality(A \cap B) = 0
      BY <2>3, <2>4, FS_CardinalityType, FS_EmptySet
    <2>6. Cardinality(A \cup B) = Cardinality(A) + Cardinality(B) - Cardinality(A \cap B)
      BY <2>4, FS_Union
    <2>7. Cardinality(Units(f, Owner)) = Cardinality(A) + Cardinality(B)
      BY <2>3, <2>5, <2>6
    <2> QED
      BY <2>2, <2>5, <2>7
  <1> DEFINE neg(S) == [q \in S |-> -live[q]]
  <1>3. ASSUME NEW S \in SUBSET Owner PROVE Units(neg(S), S) = Units(neg(Owner), S)
    <2>1. \A q \in S : neg(S)[q] = neg(Owner)[q]
      OBVIOUS
    <2>2. \A x : x \in Units(neg(S), S) <=> \E q \in S : \E i \in 1 .. neg(S)[q] : x = <<q, i>>
      BY DEF Units
    <2>3. \A x : x \in Units(neg(Owner), S) <=> \E q \in S : \E i \in 1 .. neg(Owner)[q] : x = <<q, i>>
      BY DEF Units
    <2> HIDE DEF neg
    <2>4. \A x : x \in Units(neg(S), S) <=> x \in Units(neg(Owner), S)
      BY <2>1, <2>2, <2>3, Zenon
    <2> QED
      BY <2>4
  <1>4. \A S : Total(S) = Cardinality(Units(live, S)) - Cardinality(Units(neg(S), S))
    BY DEF Total
  <1>5. IsFiniteSet(Units(live, Owner)) /\ IsFiniteSet(Units(neg(Owner), Owner))
    BY DEF LiveInv
  <1> HIDE DEF neg
  <1>7. /\ Owner \ gone \in SUBSET Owner /\ gone \in SUBSET Owner
    BY <1>1
  <1>6. /\ Total(Owner) = Cardinality(Units(live, Owner)) - Cardinality(Units(neg(Owner), Owner))
        /\ Total(Owner \ gone) = Cardinality(Units(live, Owner \ gone)) - Cardinality(Units(neg(Owner), Owner \ gone))
        /\ Total(gone) = Cardinality(Units(live, gone)) - Cardinality(Units(neg(Owner), gone))
    BY <1>3, <1>4, <1>7
  <1>8. PICK f, g : f = live /\ g = neg(Owner)
    OBVIOUS
  <1>9. /\ Cardinality(Units(f, Owner)) = Cardinality(Units(f, Owner \ gone)) + Cardinality(Units(f, gone))
        /\ Cardinality(Units(f, Owner \ gone)) \in Nat /\ Cardinality(Units(f, gone)) \in Nat
    BY <1>2, <1>5, <1>8
  <1>10. /\ Cardinality(Units(g, Owner)) = Cardinality(Units(g, Owner \ gone)) + Cardinality(Units(g, gone))
         /\ Cardinality(Units(g, Owner \ gone)) \in Nat /\ Cardinality(Units(g, gone)) \in Nat
    BY <1>2, <1>5, <1>8
  <1> QED
    BY <1>6, <1>8, <1>9, <1>10

(* What live must count when a block comes or goes. *)
LEMMA OneMoreOrLess ==
    ASSUME TypeOK, NEW b \in Addr
    PROVE  /\ Cardinality(obj) \in Nat /\ Cardinality(token) \in Nat
           /\ b \notin obj => Cardinality(obj \cup {b}) = Cardinality(obj) + 1
           /\ b \in obj => Cardinality(obj \ {b}) = Cardinality(obj) - 1
           /\ b \notin token => Cardinality(token \cup {b}) = Cardinality(token) + 1
           /\ b \in token => Cardinality(token \ {b}) = Cardinality(token) - 1
  <1>1. /\ IsFiniteSet(obj) /\ IsFiniteSet(token)
        /\ Cardinality(obj) \in Nat /\ Cardinality(token) \in Nat
    BY ArenaFinite DEF TypeOK
  <1>2. b \notin obj => Cardinality(obj \cup {b}) = Cardinality(obj) + 1
    BY <1>1, FS_AddElement
  <1>3. b \in obj => Cardinality(obj \ {b}) = Cardinality(obj) - 1
    BY <1>1, FS_RemoveElement
  <1>4. b \notin token => Cardinality(token \cup {b}) = Cardinality(token) + 1
    BY <1>1, FS_AddElement
  <1>5. b \in token => Cardinality(token \ {b}) = Cardinality(token) - 1
    BY <1>1, FS_RemoveElement
  <1> QED
    BY <1>1, <1>2, <1>3, <1>4, <1>5

(* Nothing carved: the room is as it was. *)
LEMMA RoomSame ==
    ASSUME Room, UNCHANGED <<chunk, next, class>>
    PROVE  Room'
  BY DEF Room, Top, Carved

(* A block taken from list l becomes an object. *)
LEMMA TakeKeeps ==
    ASSUME AllocInv, NEW m \in M, NEW c \in Cached, NEW l, TakeFrom(m, c, l), \E home2, pos2 : Held(home2, pos2)',
           l.head \in Addr, l.head \notin obj \cup token, list'[m][c] \in FreeList,
           spare' \in [Cached -> Seq(FreeList)], \A d \in Cached : Len(spare'[d]) <= fgoRCSpares,
           refill' \in [M -> Cached \cup {0}],
           \A n \in M : refill'[n] # 0 => n # m /\ refill'[n] = refill[n]
    PROVE  AllocInv'
  <1>1. PICK h : h = l.head
    OBVIOUS
  <1>2. /\ list' = [list EXCEPT ![m][c] = Popped(l)] /\ link' = [link EXCEPT ![h] = 0] /\ obj' = obj \cup {h}
        /\ Counts(m, 1) /\ UNCHANGED <<large, chunk, next, class, token, gone>>
    BY <1>1 DEF TakeFrom
  <1>3. TypeOK /\ Room /\ RefillExact /\ LiveInv /\ h \in Addr /\ h \notin obj /\ h \notin token
    BY <1>1 DEF AllocInv
  <1>4. list'[m][c] = Popped(l) /\ \A n \in M, d \in Cached : n # m => list'[n][d] = list[n][d]
    BY <1>2, <1>3 DEF TypeOK
  <1>5. list' \in [M -> [Cached -> FreeList]]
    <2>1. Popped(l) \in FreeList
      BY <1>4
    <2> QED
      BY <1>2, <1>3, <2>1 DEF TypeOK
  <1>6. /\ link' \in [Addr -> Addr \cup {0}] /\ obj' \subseteq Addr /\ live' \in [Owner -> -MaxLive..MaxLive]
        /\ IsFiniteSet(Units(live, Owner)') /\ IsFiniteSet(Units([q \in Owner |-> -live[q]], Owner)')
        /\ Total(Owner)' = Total(Owner) + 1
    <2>1. m \in Owner
      BY DEF Owner
    <2>2. /\ live' \in [Owner -> -MaxLive..MaxLive] /\ Total(Owner)' = Total(Owner) + 1
          /\ IsFiniteSet(Units(live, Owner)') /\ IsFiniteSet(Units([q \in Owner |-> -live[q]], Owner)')
      BY <1>2, <1>3, <2>1, CountsSum
    <2>3. link' \in [Addr -> Addr \cup {0}] /\ obj' \subseteq Addr
      BY <1>2, <1>3 DEF TypeOK
    <2> QED
      BY <2>2, <2>3
  <1>7. TypeOK'
    BY <1>2, <1>3, <1>5, <1>6 DEF TypeOK
  <1>8. Room'
    BY <1>2, <1>3, RoomSame
  <1>9. RefillExact'
    BY <1>3, <1>4 DEF RefillExact, TypeOK
  <1>10. LiveInv'
    <2>1. Cardinality(obj \cup {h}) = Cardinality(obj) + 1
      BY <1>3, OneMoreOrLess
    <2>2. Cardinality(obj') = Cardinality(obj) + 1 /\ Cardinality(token') = Cardinality(token)
      BY <1>2, <2>1
    <2>3. Cardinality(obj) \in Nat /\ Cardinality(token) \in Nat
      BY <1>3, <1>2, OneMoreOrLess DEF TypeOK
    <2> QED
      BY <1>2, <1>3, <1>6, <2>2, <2>3 DEF LiveInv
  <1> QED
    BY <1>7, <1>8, <1>9, <1>10 DEF AllocInv

(* A block that is carved becomes an object. *)
LEMMA CarveKeeps ==
    ASSUME AllocInv, NEW o \in Owner, NEW c \in Class, CarveNew(o, c), refill' \in [M -> Cached \cup {0}],
           \A n \in M : refill'[n] # 0 => refill'[n] = refill[n]
    PROVE  AllocInv'
  <1>1. PICK x : x = CarveAt(o, c)
    OBVIOUS
  <1>2. TypeOK /\ Room /\ RefillExact /\ LiveInv
    BY DEF AllocInv
  <1>3. PICK home, pos : Held(home, pos)
    BY DEF AllocInv
  <1>4. (\E home2, pos2 : Held(home2, pos2)') /\ x \notin obj /\ x \notin token
    BY <1>1, <1>2, <1>3, CarveHeld
  <1>5. obj' = obj \cup {x} /\ Counts(o, 1) /\ UNCHANGED <<list, large, spare, link, token, gone>> /\ Carve(o, c)
    BY <1>1 DEF CarveNew
  <1>6. /\ x \in Addr /\ Room' /\ next' \in 0 .. MaxChunks
        /\ chunk' \in [Owner -> [next : Nat, end : Nat]] /\ class' \in [Addr -> Class \cup {0}]
    BY <1>1, <1>2, <1>5, CarveRoom
  <1>10. /\ live' \in [Owner -> -MaxLive..MaxLive] /\ Total(Owner)' = Total(Owner) + 1
         /\ IsFiniteSet(Units(live, Owner)') /\ IsFiniteSet(Units([q \in Owner |-> -live[q]], Owner)')
    BY <1>2, <1>5, CountsSum
  <1>7. TypeOK'
    BY <1>2, <1>5, <1>6, <1>10 DEF TypeOK
  <1>8. RefillExact'
    BY <1>2, <1>5 DEF RefillExact
  <1>9. LiveInv'
    <2>1. Cardinality(obj \cup {x}) = Cardinality(obj) + 1
      BY <1>2, <1>4, <1>6, OneMoreOrLess
    <2>2. Cardinality(obj') = Cardinality(obj) + 1 /\ Cardinality(token') = Cardinality(token)
      BY <1>5, <2>1
    <2>3. Cardinality(obj) \in Nat /\ Cardinality(token) \in Nat
      BY <1>2, <1>6, OneMoreOrLess DEF TypeOK
    <2> QED
      BY <1>2, <1>5, <1>10, <2>2, <2>3 DEF LiveInv
  <1> QED
    BY <1>4, <1>6, <1>7, <1>8, <1>9 DEF AllocInv

(* An object's or a token's block goes to its class's list. *)
LEMMA FreeKeeps ==
    ASSUME AllocInv, NEW m \in M, Running(m), NEW b \in Addr, fgoRCFreeClass(m, b, class[b]),
           \/ b \in obj /\ obj' = obj \ {b} /\ token' = token
           \/ b \in token /\ token' = token \ {b} /\ obj' = obj,
           UNCHANGED <<chunk, next, class, refill, gone>>
    PROVE  AllocInv'
  <1>1. TypeOK /\ Room /\ RefillExact /\ LiveInv
    BY DEF AllocInv
  <1>2. PICK home, pos : Held(home, pos)
    BY DEF AllocInv
  <1>3. /\ home[b] \in {AtObj, AtToken} /\ class[b] # 0 /\ ~(b \in obj /\ b \in token)
    BY <1>2, PlacesApart DEF Held, Housed
  <1>4. Freed(home, b, class[b])
    BY <1>1, <1>3 DEF Freed, TypeOK
  <1>5. /\ \E home2, pos2 : Held(home2, pos2)'
        /\ list' \in [M -> [Cached -> FreeList]] /\ large' \in [Class \ Cached -> Addr \cup {0}]
        /\ spare' \in [Cached -> Seq(FreeList)] /\ \A d \in Cached : Len(spare'[d]) <= fgoRCSpares
        /\ link' \in [Addr -> Addr \cup {0}] /\ Counts(IF class[b] \in Cached THEN m ELSE Shared, -1)
        /\ \A n \in M, d \in Cached : n # m => list'[n][d] = list[n][d]
    BY <1>1, <1>2, <1>4, FreeHeld
  <1>10. /\ live' \in [Owner -> -MaxLive..MaxLive] /\ Total(Owner)' = Total(Owner) - 1
         /\ IsFiniteSet(Units(live, Owner)') /\ IsFiniteSet(Units([q \in Owner |-> -live[q]], Owner)')
    <2>1. PICK o \in Owner : Counts(o, -1)
      BY <1>5 DEF Owner
    <2>2. Total(Owner)' = Total(Owner) + -1
      BY <1>1, <2>1, CountsSum
    <2>3. Total(Owner) \in Int
      BY <1>1, TotalSplit
    <2>4. Total(Owner)' = Total(Owner) - 1
      BY <2>2, <2>3
    <2> QED
      BY <1>1, <2>1, <2>4, CountsSum
  <1>6. TypeOK'
    BY <1>1, <1>5, <1>10 DEF TypeOK
  <1>7. Room'
    BY <1>1, RoomSame
  <1>8. RefillExact'
    BY <1>1, <1>5 DEF RefillExact, Running, TypeOK
  <1>9. LiveInv'
    <2>1. /\ b \in obj => Cardinality(obj \ {b}) = Cardinality(obj) - 1
          /\ b \in token => Cardinality(token \ {b}) = Cardinality(token) - 1
      BY <1>1, OneMoreOrLess
    <2>2. \/ Cardinality(obj') = Cardinality(obj) - 1 /\ Cardinality(token') = Cardinality(token)
          \/ Cardinality(obj') = Cardinality(obj) /\ Cardinality(token') = Cardinality(token) - 1
      BY <2>1
    <2>3. Cardinality(obj) \in Nat /\ Cardinality(token) \in Nat
      BY <1>1, OneMoreOrLess DEF TypeOK
    <2> QED
      BY <1>1, <1>10, <2>2, <2>3 DEF LiveInv
  <1> QED
    BY <1>5, <1>6, <1>7, <1>8, <1>9 DEF AllocInv

(* An object becomes a token or a token an object. *)
LEMMA ReuseKeeps ==
    ASSUME AllocInv, NEW b \in Addr,
           \/ b \in obj /\ obj' = obj \ {b} /\ token' = token \cup {b}
           \/ b \in token /\ token' = token \ {b} /\ obj' = obj \cup {b},
           UNCHANGED <<list, large, spare, chunk, next, link, class, live, refill, gone>>
    PROVE  AllocInv'
  <1>1. TypeOK /\ Room /\ RefillExact /\ LiveInv
    BY DEF AllocInv
  <1>2. PICK home, pos : Held(home, pos)
    BY DEF AllocInv
  <1>3. home[b] \in {AtObj, AtToken} /\ class[b] # 0 /\ ~(b \in obj /\ b \in token)
    BY <1>2, PlacesApart DEF Held, Housed
  <1>4. PICK q : q = IF b \in obj THEN AtToken ELSE AtObj
    OBVIOUS
  <1>5. PICK home2 : home2 = [a \in Addr |-> IF a = b THEN q ELSE home[a]]
    OBVIOUS
  <1>6. Moves(home, pos, home2, pos, b, q)
    BY <1>3, <1>5 DEF Moves
  <1>7. /\ \A a \in Addr : a # b => (a \in obj' <=> a \in obj) /\ (a \in token' <=> a \in token)
        /\ (b \in obj' <=> q = AtObj) /\ (b \in token' <=> q = AtToken) /\ q \in {AtObj, AtToken}
    BY <1>3, <1>4, PlacesApart
  <1>8. Held(home2, pos)'
    BY <1>2, <1>3, <1>6, <1>7, PlainMove
  <1>9. TypeOK' /\ RefillExact'
    BY <1>1 DEF TypeOK, RefillExact
  <1>10. Room'
    BY <1>1, RoomSame
  <1>11. LiveInv'
    <2>1. /\ b \in obj => Cardinality(obj \ {b}) = Cardinality(obj) - 1
          /\ b \notin obj => Cardinality(obj \cup {b}) = Cardinality(obj) + 1
          /\ b \in token => Cardinality(token \ {b}) = Cardinality(token) - 1
          /\ b \notin token => Cardinality(token \cup {b}) = Cardinality(token) + 1
      BY <1>1, OneMoreOrLess
    <2>2. \/ Cardinality(obj') = Cardinality(obj) - 1 /\ Cardinality(token') = Cardinality(token) + 1
          \/ Cardinality(obj') = Cardinality(obj) + 1 /\ Cardinality(token') = Cardinality(token) - 1
      BY <1>3, <2>1
    <2>3. Cardinality(obj) \in Nat /\ Cardinality(token) \in Nat
      BY <1>1, OneMoreOrLess DEF TypeOK
    <2> QED
      BY <1>1, <2>2, <2>3, CountsSame DEF LiveInv
  <1> QED
    BY <1>8, <1>9, <1>10, <1>11 DEF AllocInv

(* Every step keeps the invariant. *)
LEMMA AllocStep ==
    ASSUME AllocInv, [Next]_vars
    PROVE  AllocInv'
  <1>1. TypeOK /\ Room /\ RefillExact /\ LiveInv
    BY DEF AllocInv
  <1>2. PICK home, pos : Held(home, pos)
    BY DEF AllocInv
  <1>3. \A m : Running(m) => m \in M /\ refill[m] = 0 /\ m \notin gone
    BY DEF Running
  <1>4. ASSUME NEW m \in M, NEW c \in Class, AllocCached(m, c) PROVE AllocInv'
    <2>1. Running(m) /\ c \in Cached /\ m \in M /\ m \in Owner
      BY <1>3, <1>4 DEF AllocCached, Owner
    <2>2. CASE list[m][c].head # 0 /\ TakeFrom(m, c, list[m][c]) /\ UNCHANGED <<spare, refill>>
      <3>1. /\ \E home2, pos2 : Held(home2, pos2)'
            /\ list[m][c].head \in Addr /\ list[m][c].head \notin obj \cup token /\ list'[m][c] \in FreeList
        BY <1>1, <1>2, <2>1, <2>2, TakeListHeld
      <3>2. /\ spare' \in [Cached -> Seq(FreeList)] /\ \A d \in Cached : Len(spare'[d]) <= fgoRCSpares
            /\ refill' \in [M -> Cached \cup {0}]
            /\ \A n \in M : refill'[n] # 0 => n # m /\ refill'[n] = refill[n]
        BY <1>1, <1>3, <2>1, <2>2 DEF TypeOK
      <3> QED
        BY <2>1, <2>2, <3>1, <3>2, TakeKeeps
    <2>3. CASE list[m][c].head = 0 /\ spare[c] = <<>> /\ CarveNew(m, c) /\ UNCHANGED refill
      BY <1>1, <2>1, <2>3, CarveKeeps DEF TypeOK
    <2>4. CASE /\ list[m][c].head = 0 /\ spare[c] # <<>> /\ refill' = [refill EXCEPT ![m] = c]
               /\ UNCHANGED <<list, large, spare, chunk, next, link, class, obj, token, live, gone>>
      <3>1. Held(home, pos)'
        BY <1>2, <2>4 DEF Held, Housed, ListsHeld, SparesHeld, LargeHeld
      <3>2. TypeOK'
        BY <1>1, <2>1, <2>4 DEF TypeOK
      <3>3. Room'
        BY <1>1, <2>4, RoomSame
      <3>4. RefillExact' /\ LiveInv'
        BY <1>1, <2>1, <2>4, CountsSame DEF RefillExact, LiveInv, TypeOK
      <3> QED
        BY <3>1, <3>2, <3>3, <3>4 DEF AllocInv
    <2> QED
      BY <1>4, <2>2, <2>3, <2>4 DEF AllocCached
  <1>5. ASSUME NEW m \in M, fgoRCRefill(m) PROVE AllocInv'
    <2>1. PICK c, k : c = refill[m] /\ k = Len(spare[c])
      OBVIOUS
    <2>2. c # 0 /\ refill' = [refill EXCEPT ![m] = 0] /\ m \in Owner /\ c \in Cached /\ c \in Class
      BY <1>1, <1>5, <2>1, ConstAssumption DEF fgoRCRefill, TypeOK, Owner, Cached, Class
    <2>3. /\ refill' \in [M -> Cached \cup {0}] /\ \A n \in M : refill'[n] # 0 => n # m /\ refill'[n] = refill[n]
      BY <1>1, <2>2 DEF TypeOK
    <2>4. list[m][c].head = 0
      BY <1>1, <2>1, <2>2 DEF RefillExact
    <2>5. CASE /\ k # 0 /\ TakeFrom(m, c, spare[c][k])
               /\ spare' = [spare EXCEPT ![c] = SubSeq(spare[c], 1, k - 1)]
      <3>1. /\ \E home2, pos2 : Held(home2, pos2)'
            /\ spare[c][k].head \in Addr /\ spare[c][k].head \notin obj \cup token /\ list'[m][c] \in FreeList
        BY <1>1, <1>2, <2>1, <2>2, <2>4, <2>5, TakeSpareHeld
      <3>2. spare[c] \in Seq(FreeList) /\ k \in Nat /\ k <= fgoRCSpares /\ fgoRCSpares \in Nat
        BY <1>1, <2>1, <2>2, ConstAssumption DEF TypeOK
      <3>3. SubSeq(spare[c], 1, k - 1) \in Seq(FreeList) /\ Len(SubSeq(spare[c], 1, k - 1)) <= fgoRCSpares
        BY <2>1, <2>5, <3>2
      <3>4. spare' \in [Cached -> Seq(FreeList)]
        BY <1>1, <2>2, <2>5, <3>3 DEF TypeOK
      <3>5. \A d \in Cached : Len(spare'[d]) <= fgoRCSpares
        BY <1>1, <2>2, <2>5, <3>3 DEF TypeOK
      <3> QED
        BY <2>2, <2>3, <2>5, <3>1, <3>4, <3>5, TakeKeeps
    <2>6. CASE k = 0 /\ CarveNew(m, c)
      BY <2>2, <2>3, <2>6, CarveKeeps
    <2> QED
      BY <1>5, <2>1, <2>5, <2>6 DEF fgoRCRefill
  <1>6. ASSUME NEW m \in M, NEW c \in Class, AllocLarge(m, c) PROVE AllocInv'
    <2>1. c \in Class \ Cached /\ UNCHANGED refill
      BY <1>6 DEF AllocLarge
    <2>2. CASE large[c] = 0 /\ CarveNew(Shared, c)
      BY <1>1, <2>1, <2>2, CarveKeeps DEF TypeOK, Owner
    <2>3. CASE large[c] # 0
      <3>1. PICK h : h = large[c]
        OBVIOUS
      <3>2. /\ large' = [large EXCEPT ![c] = link[h]] /\ link' = [link EXCEPT ![h] = 0] /\ obj' = obj \cup {h}
            /\ Counts(Shared, 1) /\ UNCHANGED <<list, spare, chunk, next, class, token, gone>>
        BY <1>6, <2>3, <3>1 DEF AllocLarge
      <3>3. (\E home2, pos2 : Held(home2, pos2)') /\ h \in Addr /\ h \notin obj /\ h \notin token
        BY <1>1, <1>2, <2>1, <2>3, <3>1, <3>2, TakeLargeHeld
      <3>4. link[h] \in Addr \cup {0}
        BY <1>1, <3>3 DEF TypeOK
      <3>5. large' \in [Class \ Cached -> Addr \cup {0}] /\ link' \in [Addr -> Addr \cup {0}]
        BY <1>1, <2>1, <3>2, <3>4 DEF TypeOK
      <3>10. /\ live' \in [Owner -> -MaxLive..MaxLive] /\ Total(Owner)' = Total(Owner) + 1
             /\ IsFiniteSet(Units(live, Owner)') /\ IsFiniteSet(Units([q \in Owner |-> -live[q]], Owner)')
        <4>1. Shared \in Owner
          BY DEF Owner
        <4> QED
          BY <1>1, <3>2, <4>1, CountsSum
      <3>6. TypeOK'
        BY <1>1, <2>1, <3>2, <3>3, <3>5, <3>10 DEF TypeOK
      <3>7. Room'
        BY <1>1, <3>2, RoomSame
      <3>8. RefillExact'
        BY <1>1, <2>1, <3>2 DEF RefillExact
      <3>9. LiveInv'
        <4>1. Cardinality(obj \cup {h}) = Cardinality(obj) + 1
          BY <1>1, <3>3, OneMoreOrLess
        <4>2. Cardinality(obj') = Cardinality(obj) + 1 /\ Cardinality(token') = Cardinality(token)
          BY <3>2, <4>1
        <4>3. Cardinality(obj) \in Nat /\ Cardinality(token) \in Nat
          BY <1>1, <3>3, OneMoreOrLess DEF TypeOK
        <4> QED
          BY <1>1, <3>10, <4>2, <4>3 DEF LiveInv
      <3> QED
        BY <3>3, <3>6, <3>7, <3>8, <3>9 DEF AllocInv
    <2> QED
      BY <1>6, <2>2, <2>3 DEF AllocLarge
  <1>7. ASSUME NEW m \in M, NEW b \in Addr, fgoRCFree(m, b) PROVE AllocInv'
    BY <1>7, FreeKeeps DEF fgoRCFree
  <1>8. ASSUME NEW m \in M, NEW b \in Addr, fgoRCDropReuse(m, b) PROVE AllocInv'
    BY <1>8, ReuseKeeps DEF fgoRCDropReuse
  <1>9. ASSUME NEW m \in M, NEW b \in Addr, NEW c \in Class, fgoRCNewAt(m, b, c) PROVE AllocInv'
    <2>1. Running(m) /\ b \in token /\ token' = token \ {b} /\ UNCHANGED <<chunk, next, refill, gone>>
      BY <1>9 DEF fgoRCNewAt
    <2>2. CASE class[b] = c
      <3>1. obj' = obj \cup {b} /\ class' = [class EXCEPT ![b] = c] /\ UNCHANGED <<list, large, spare, link, live>>
        BY <1>9, <2>2 DEF fgoRCNewAt, SameClass
      <3>2. class' = class
        BY <1>1, <2>2, <3>1 DEF TypeOK
      <3> QED
        BY <2>1, <3>1, <3>2, ReuseKeeps
    <2>3. CASE class[b] # c
      <3>1. fgoRCFreeClass(m, b, class[b]) /\ UNCHANGED <<obj, class>>
        BY <1>9, <2>3 DEF fgoRCNewAt, SameClass
      <3> QED
        BY <2>1, <3>1, FreeKeeps
    <2> QED
      BY <2>2, <2>3
  <1>10. ASSUME NEW m \in M, mexit(m) PROVE AllocInv'
    <2>1. gone' = gone \cup {m} /\ UNCHANGED <<list, large, spare, chunk, next, link, class, obj, token, live, refill>>
      BY <1>10 DEF mexit
    <2>2. Held(home, pos)'
      BY <1>2, <2>1 DEF Held, Housed, ListsHeld, SparesHeld, LargeHeld
    <2>3. TypeOK' /\ RefillExact' /\ LiveInv'
      BY <1>1, <2>1, CountsSame DEF TypeOK, RefillExact, LiveInv
    <2>4. Room'
      BY <1>1, <2>1, RoomSame
    <2> QED
      BY <2>2, <2>3, <2>4 DEF AllocInv
  <1>11. CASE UNCHANGED vars
    <2>1. Held(home, pos)'
      BY <1>2, <1>11 DEF Held, Housed, ListsHeld, SparesHeld, LargeHeld, vars
    <2>2. TypeOK' /\ RefillExact' /\ LiveInv'
      BY <1>1, <1>11, CountsSame DEF TypeOK, RefillExact, LiveInv, vars
    <2>3. Room'
      BY <1>1, <1>11, RoomSame DEF vars
    <2> QED
      BY <2>1, <2>2, <2>3 DEF AllocInv
  <1> QED
    BY <1>4, <1>5, <1>6, <1>7, <1>8, <1>9, <1>10, <1>11 DEF Next

(* At the start nothing is carved. *)
LEMMA AllocStart ==
    ASSUME Init
    PROVE  AllocInv
  <1>1. PICK home, pos : home = [a \in Addr |-> Nowhere] /\ pos = [a \in Addr |-> 0]
    OBVIOUS
  <1>2. \A p : p # Nowhere => Chain(home, pos, link, p, 0, 0)
    BY <1>1, ChainEmpty
  <1>3. TypeOK
    <2>1. NoList \in FreeList /\ NoChunk \in [next : Nat, end : Nat]
      BY DEF NoList, FreeList, NoChunk
    <2>2. chunk \in [Owner -> [next : Nat, end : Nat]] /\ next \in 0 .. MaxChunks
      BY <2>1, ConstAssumption DEF Init
    <2>3. spare \in [Cached -> Seq(FreeList)] /\ \A c \in Cached : Len(spare[c]) <= fgoRCSpares
      BY ConstAssumption DEF Init
    <2>4. list \in [M -> [Cached -> FreeList]] /\ large \in [Class \ Cached -> Addr \cup {0}]
      BY <2>1 DEF Init
    <2>5. live \in [Owner -> -MaxLive..MaxLive]
      BY ConstAssumption DEF Init
    <2> QED
      BY <2>2, <2>3, <2>4, <2>5 DEF TypeOK, Init
  <1>4. Room
    <2>1. Carved = {} /\ \A o \in Owner : chunk[o] = NoChunk
      BY DEF Init, Carved
    <2>2. Top = 1
      BY ConstAssumption DEF Init, Top
    <2> QED
      BY <2>1, <2>2 DEF Room, NoChunk
  <1>5. Housed(home)
    BY <1>1, PlacesApart DEF Housed, Init
  <1>6. ListsHeld(home, pos)
    <2> SUFFICES ASSUME NEW m \in M, NEW c \in Cached
                 PROVE  Listed(home, pos, link, class, AtList(m, c), list[m][c], c)
      BY DEF ListsHeld
    <2>1. list[m][c] = NoList
      BY DEF Init
    <2>2. NoList.head = 0 /\ NoList.tail = 0 /\ NoList.n = 0
      BY DEF NoList
    <2>3. AtList(m, c) # Nowhere
      BY PlacesApart
    <2>4. Chain(home, pos, link, AtList(m, c), 0, 0)
      BY <1>2, <2>3
    <2>5. \A a \in Addr : home[a] # AtList(m, c)
      BY <1>1, <2>3
    <2> QED
      BY <2>1, <2>2, <2>4, <2>5 DEF Listed
  <1>7. SparesHeld(home, pos)
    <2>1. \A c \in Cached : Len(spare[c]) = 0
      BY DEF Init
    <2> QED
      BY <2>1 DEF SparesHeld
  <1>8. LargeHeld(home, pos)
    <2> SUFFICES ASSUME NEW c \in Class \ Cached
                 PROVE  /\ \E n \in Nat : Chain(home, pos, link, AtLarge(c), large[c], n)
                        /\ \A a \in Addr : home[a] = AtLarge(c) => class[a] = c
      BY DEF LargeHeld
    <2>1. AtLarge(c) # Nowhere /\ large[c] = 0
      BY PlacesApart DEF Init
    <2>2. Chain(home, pos, link, AtLarge(c), large[c], 0)
      BY <1>2, <2>1
    <2> QED
      BY <1>1, <2>1, <2>2
  <1>9. Held(home, pos)
    BY <1>5, <1>6, <1>7, <1>8 DEF Held
  <1>10. RefillExact
    BY DEF RefillExact, Init
  <1>11. LiveInv
    <2>1. Units(live, Owner) = {} /\ Units([o \in Owner |-> -live[o]], Owner) = {}
      BY DEF Units, Init
    <2>2. Total(Owner) = Cardinality({}) - Cardinality({}) /\ Cardinality({}) = 0 /\ IsFiniteSet({})
      BY <2>1, FS_EmptySet DEF Total
    <2>3. Total(Owner) = 0 /\ Cardinality(obj) = 0 /\ Cardinality(token) = 0
      BY <2>2 DEF Init
    <2> QED
      BY <2>1, <2>2, <2>3 DEF LiveInv
  <1> QED
    BY <1>3, <1>4, <1>9, <1>10, <1>11 DEF AllocInv

(* The invariant holds always. *)
LEMMA AlwaysAlloc == Spec => []AllocInv
  <1>1. Init => AllocInv
    BY AllocStart
  <1>2. AllocInv /\ [Next]_vars => AllocInv'
    BY AllocStep
  <1> QED
    BY <1>1, <1>2, PTL DEF Spec

-----------------------------------------------------------------------------

(* The variables keep their types: each M's lists, the spare batches, never *)
(* more than fgoRCSpares of a class, the chunks and the blocks' rc words.   *)
THEOREM TypeCorrect == Spec => []TypeOK
  <1>1. AllocInv => TypeOK
    BY DEF AllocInv
  <1> QED
    BY <1>1, AlwaysAlloc, PTL

(* Every free list's tail is its last block and its count its length, so    *)
(* that fgoRCSpare and fgoRCRefill may move a list whole, or join two, by   *)
(* these alone.                                                             *)
THEOREM ListsTrue == Spec => []ListsExact
  <1>1. AllocInv => ListsExact
    BY HeldLists DEF AllocInv
  <1> QED
    BY <1>1, AlwaysAlloc, PTL

(* Memory is handed out once: no two blocks that were carved overlap, none  *)
(* lies in what is left of a chunk, and no block is in two places: in use,  *)
(* kept for reuse, on a list of an M's, on fgoRC's, in a spare batch.       *)
THEOREM HandedOutOnce == Spec => []Disjoint
  <1>1. AllocInv => Disjoint
    BY HeldDisjoint DEF AllocInv
  <1> QED
    BY <1>1, AlwaysAlloc, PTL

(* No block is lost by a push, a pop, a batch that moves or one that is put *)
(* in front of another: what was carved, and is not stranded on the lists   *)
(* of an M that has exited, is in one of those places.                      *)
THEOREM NothingLost == Spec => []NoLeak
  <1>1. AllocInv => NoLeak
    BY HeldDisjoint DEF AllocInv
  <1> QED
    BY <1>1, AlwaysAlloc, PTL

(* The live counters the Ms in allm and fgoRC keep, with those of the Ms    *)
(* that have exited, sum to the number of objects in use or to be reused:   *)
(* nogc.Live is wrong by what the exited Ms' counters held, and by no more. *)
THEOREM LiveTrue == Spec => []LiveExact
  <1>1. AllocInv => LiveExact
    BY TotalSplit DEF AllocInv, LiveInv, LiveExact, fgoRCStats
  <1> QED
    BY <1>1, AlwaysAlloc, PTL
=============================================================================
