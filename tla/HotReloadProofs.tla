--------------------------- MODULE HotReloadProofs ---------------------------
(* Theorems about forgo run --watch (HotReload).                             *)
EXTENDS HotReload, FiniteSetTheorems, SequenceTheorems, Lemmas

(***************************************************************************)
(* The inductive invariant, in named parts.                                 *)
(***************************************************************************)

\* What keeps the watcher's counters in range.
Counters ==
    /\ gen <= seen /\ seen <= edits
    /\ wpc \in {"build", "start"} => nextBase = 0
    /\ wpc \in {"link", "write", "wait"} => gen >= 1 /\ nextBase >= 1
    /\ wpc \in {"write", "wait"} => nextBase <= Slots
    /\ apc \in {"map", "add", "patch"} => lastSeen >= 1
TypeInv == TypeOK /\ Counters

\* The theorems below are about the watcher and the agent when no answer comes late.
InTime == "late" \notin Race

\* Watcher and agent work on the same generation, and take turns.
TurnsExact ==
    /\ lastSeen <= gen
    /\ \A g \in Gens : g > lastSeen => resp[g] = "none"
    /\ wpc \in {"link", "write"} => lastSeen < gen
    /\ wpc = "wait" => request = gen
    /\ apc \in {"map", "add", "patch"} => wpc = "wait" /\ lastSeen = gen /\ resp[gen] = "none"

\* The agent has put the new code in, and the watcher has not read that yet.
Applied == wpc = "wait" /\ resp[gen] = "ok"
\* The tree whose code the program's calls run.
CurrentTree == IF wpc = "build" THEN src ELSE IF Applied THEN req[gen].tree ELSE record

\* What the linker made is whole: all that differs from the record is redirected,
\* with its callers, and what is laid out is the new tree's code.
Whole(r) ==
    /\ r.base = nextBase /\ r.tree \in built
    /\ \A f \in F : /\ f \in r.patches => r.code[f] # None
                    /\ f \notin r.patches => r.tree[f] = record[f]
                    /\ r.code[f] # None => r.code[f] = r.tree[f]
                    /\ Calls[f] \cap r.patches # {} => f \in r.patches
LinkExact ==
    /\ wpc \in {"write", "wait"} => Whole(req[gen])
    /\ apc \in {"add", "patch"} => mem[req[gen].base] = req[gen].code

\* The slots in use are below the next free one.
Low == {s \in 0 .. Slots : s = 0 \/ s < nextBase \/ (Applied /\ s = nextBase)}
SlotsExact ==
    /\ \A f \in F : jump[f] \in Low
    /\ \A i \in 1 .. Len(frames) : frames[i].slot \in Low

\* Some set of bodies has every one that an entry leads to, is closed under calls,
\* and is of the current tree.
ClosedCurrent(X) ==
    /\ \A f \in F : Target(0, f) \in X
    /\ \A x \in X : /\ mem[x.slot][x.f] = CurrentTree[x.f]
                    /\ \A c \in Calls[x.f] : Target(x.slot, c) \in X
CodeExact == \E X \in SUBSET [slot : Low, f : F] : ClosedCurrent(X)
BuildExact == wpc = "build" => mem[0] = src /\ jump = [f \in F |-> 0] /\ frames = <<>>

ReloadInv == TurnsExact /\ LinkExact /\ SlotsExact /\ CodeExact /\ BuildExact
-----------------------------------------------------------------------------
(* The linker's closure under callers.                                      *)

\* The rounds of fgohotPatchFreshText.
Callers(q) == q \cup {g \in F : Calls[g] \cap q # {}}
IsRounds(p, S) ==
    p = [n \in 0 .. Cardinality(F) |-> IF n = 0 THEN S ELSE Callers(p[n - 1])]

(* The rounds are defined, each is a set of functions, and the last is what *)
(* Patched returns.                                                         *)
LEMMA RoundsExist ==
    ASSUME NEW S \in SUBSET F
    PROVE  \E p \in [0 .. Cardinality(F) -> SUBSET F] :
             IsRounds(p, S) /\ Patched(S) = p[Cardinality(F)]
  <1> DEFINE N == Cardinality(F)
             step == [q \in SUBSET F |-> Callers(q)]
             R == CHOOSE p : IsRounds(p, S)
  <1>0. N \in Nat
    BY ConstAssumption, FS_CardinalityType
  <1>1. step \in [SUBSET F -> SUBSET F]
    BY DEF Callers
  <1> HIDE DEF N, step
  <1>2. PICK p \in [0 .. N -> SUBSET F] :
           \A n \in 0 .. N : p[n] = IF n = 0 THEN S ELSE step[p[n - 1]]
    <2>1. Recursive(N, SUBSET F, S, step)
      BY <1>0, <1>1, Recursion
    <2> QED
      BY <2>1 DEF Recursive
  <1>3. ASSUME NEW n \in 0 .. N, n # 0 PROVE step[p[n - 1]] = Callers(p[n - 1])
    <2>1. n - 1 \in 0 .. N
      BY <1>0, <1>3
    <2> QED
      BY <2>1 DEF step
  <1>4. \A n \in 0 .. N : p[n] = IF n = 0 THEN S ELSE Callers(p[n - 1])
    BY <1>2, <1>3
  <1>5. IsRounds(p, S)
    BY <1>2, <1>4 DEF IsRounds, N
  <1>6. IsRounds(R, S)
    BY <1>5
  <1>7. Patched(S) = R[N]
    BY DEF Patched, IsRounds, Callers, N
  <1> HIDE DEF R
  <1>8. R[0] = S /\ \A n \in 0 .. N - 1 : R[n + 1] = Callers(R[n])
    <2>1. \A n \in 0 .. N : R[n] = IF n = 0 THEN S ELSE Callers(R[n - 1])
      BY <1>6 DEF IsRounds, N
    <2> QED
      BY <1>0, <2>1
  <1>9. \A n \in 0 .. N : R[n] \in SUBSET F
    <2> DEFINE T == {n \in 0 .. N : R[n] \in SUBSET F}
    <2>1. 0 \in T /\ \A n \in 0 .. N - 1 : n \in T => n + 1 \in T
      BY <1>0, <1>8 DEF Callers
    <2>2. 0 .. N \subseteq T
      <3> HIDE DEF T
      <3> QED
        BY <1>0, <2>1, UpTo
    <2> QED
      BY <2>2
  <1>10. R \in [0 .. N -> SUBSET F]
    BY <1>6, <1>9 DEF IsRounds, N
  <1> QED
    BY <1>6, <1>7, <1>10 DEF N

(* Patched returns the functions given and all that call one of them,       *)
(* directly or not: as many rounds as there are functions are enough.       *)
LEMMA PatchedClosed ==
    ASSUME NEW S \in SUBSET F
    PROVE  /\ S \subseteq Patched(S) /\ Patched(S) \subseteq F
           /\ \A g \in F : Calls[g] \cap Patched(S) # {} => g \in Patched(S)
  <1> DEFINE N == Cardinality(F)
  <1>0. N \in Nat
    BY ConstAssumption, FS_CardinalityType
  <1>1. PICK p \in [0 .. N -> SUBSET F] : IsRounds(p, S) /\ Patched(S) = p[N]
    BY RoundsExist
  <1> HIDE DEF N
  <1>2. p[0] = S /\ \A n \in 0 .. N - 1 : p[n + 1] = Callers(p[n])
    <2>1. \A n \in 0 .. N : p[n] = IF n = 0 THEN S ELSE Callers(p[n - 1])
      BY <1>1 DEF IsRounds, N
    <2> QED
      BY <1>0, <2>1
  <1>3. \A n \in 0 .. N : /\ S \subseteq p[n]
                          /\ Callers(p[n]) = p[n] \/ Cardinality(p[n]) >= n
    <2> DEFINE T == {n \in 0 .. N : /\ S \subseteq p[n]
                                    /\ Callers(p[n]) = p[n] \/ Cardinality(p[n]) >= n}
    <2>1. 0 \in T
      <3>1. Cardinality(p[0]) >= 0
        <4>1. IsFiniteSet(p[0])
          BY ConstAssumption, FS_Subset, <1>0
        <4> QED
          BY <4>1, FS_CardinalityType
      <3> QED
        BY <1>0, <1>2, <3>1
    <2>2. ASSUME NEW n \in 0 .. N - 1, n \in T PROVE n + 1 \in T
      <3>1. n + 1 \in 0 .. N /\ p[n + 1] = Callers(p[n]) /\ p[n] \in SUBSET F
        BY <1>0, <1>2
      <3>2. p[n] \subseteq p[n + 1] /\ p[n + 1] \subseteq F
        BY <3>1 DEF Callers
      <3>3. CASE Callers(p[n]) = p[n]
        BY <2>2, <3>1, <3>3
      <3>4. CASE Callers(p[n]) # p[n] /\ Cardinality(p[n]) >= n
        <4>1. IsFiniteSet(p[n]) /\ IsFiniteSet(p[n + 1])
          BY <3>2, ConstAssumption, FS_Subset
        <4>2. /\ Cardinality(p[n]) <= Cardinality(p[n + 1])
              /\ Cardinality(p[n + 1]) = Cardinality(p[n]) => p[n + 1] = p[n]
          BY <3>2, <4>1, FS_Subset
        <4>3. Cardinality(p[n]) \in Nat /\ Cardinality(p[n + 1]) \in Nat
          BY <4>1, FS_CardinalityType
        <4>4. Cardinality(p[n + 1]) >= n + 1
          BY <3>1, <3>4, <4>2, <4>3
        <4> QED
          BY <2>2, <3>1, <3>2, <4>4
      <3> QED
        BY <2>2, <3>3, <3>4
    <2>3. 0 .. N \subseteq T
      <3> HIDE DEF T
      <3> QED
        BY <1>0, <2>1, <2>2, UpTo
    <2> QED
      BY <2>3
  <1>4. S \subseteq p[N] /\ p[N] \in SUBSET F
    BY <1>0, <1>3
  <1>5. Callers(p[N]) = p[N]
    <2>1. CASE Cardinality(p[N]) >= N
      <3>1. p[N] = F
        BY <1>0, <1>4, <2>1, ConstAssumption, FS_Subset, FS_CardinalityType DEF N
      <3> QED
        BY <3>1 DEF Callers
    <2> QED
      BY <1>0, <1>3, <2>1
  <1> QED
    BY <1>1, <1>4, <1>5 DEF Callers
-----------------------------------------------------------------------------
(* Types.                                                                   *)

(* A sequence that is not empty has a last element, and loses it by a step. *)
LEMMA LastOf ==
    ASSUME NEW X, NEW s \in Seq(X), s # <<>>
    PROVE  /\ Len(s) \in 1 .. Len(s) /\ s[Len(s)] \in X
           /\ SubSeq(s, 1, Len(s) - 1) \in Seq(X)
           /\ Len(SubSeq(s, 1, Len(s) - 1)) = Len(s) - 1
           /\ \A i \in 1 .. Len(s) - 1 : SubSeq(s, 1, Len(s) - 1)[i] = s[i]
  <1>1. Len(s) \in Nat /\ Len(s) # 0
    OBVIOUS
  <1>2. Len(s) \in 1 .. Len(s) /\ s[Len(s)] \in X
    BY <1>1
  <1>3. 1 \in Int /\ Len(s) - 1 \in Int /\ \A i \in 1 .. Len(s) - 1 : i \in 1 .. Len(s) /\ s[i] \in X
    BY <1>1
  <1>4. /\ SubSeq(s, 1, Len(s) - 1) \in Seq(X)
        /\ Len(SubSeq(s, 1, Len(s) - 1)) = IF 1 <= Len(s) - 1 THEN Len(s) - 1 - 1 + 1 ELSE 0
        /\ \A i \in 1 .. Len(s) - 1 - 1 + 1 : SubSeq(s, 1, Len(s) - 1)[i] = s[1 + i - 1]
    BY <1>3, SubSeqProperties
  <1>5. Len(SubSeq(s, 1, Len(s) - 1)) = Len(s) - 1
    <2>1. PICK k \in Nat : k = Len(s) - 1
      BY <1>1
    <2>2. Len(SubSeq(s, 1, k)) = IF 1 <= k THEN k - 1 + 1 ELSE 0
      BY <1>4, <2>1, Zenon
    <2>3. (1 <= k => k - 1 + 1 = k) /\ (~(1 <= k) => k = 0)
      OBVIOUS
    <2>4. Len(SubSeq(s, 1, k)) = k
      BY <2>2, <2>3, Zenon
    <2> QED
      BY <2>1, <2>4, Zenon
  <1>6. ASSUME NEW i \in 1 .. Len(s) - 1 PROVE SubSeq(s, 1, Len(s) - 1)[i] = s[i]
    <2>1. i \in 1 .. Len(s) - 1 - 1 + 1 /\ 1 + i - 1 = i
      BY <1>1
    <2>2. SubSeq(s, 1, Len(s) - 1)[i] = s[1 + i - 1]
      BY <1>4, <2>1, Zenon
    <2> QED
      BY <2>1, <2>2, Zenon
  <1> QED
    BY <1>2, <1>4, <1>5, <1>6

(* Every variable's type and the watcher's counters hold at first. *)
LEMMA TypeInit == Init => TypeInv
  <1> SUFFICES ASSUME Init PROVE TypeInv
    OBVIOUS
  <1>1. src \in Tree /\ src \in Image /\ Empty \in Image
    BY ConstAssumption DEF Init, Tree, Image, Empty
  <1>2. mem \in [0 .. Slots -> Image]
    BY <1>1 DEF Init
  <1>3. NoReq \in [base : 0 .. Slots, code : Image, patches : SUBSET F, tree : Image]
    BY <1>1, ConstAssumption DEF NoReq
  <1>4. req \in [Gens -> [base : 0 .. Slots, code : Image, patches : SUBSET F, tree : Image]]
    BY <1>3 DEF Init
  <1>5. TypeOK
    <2>1. module \subseteq 0 .. Slots /\ jump \in [F -> 0 .. Slots]
      BY ConstAssumption DEF Init
    <2>2. resp \in [Gens -> {"none", "ok", "err"}]
      BY DEF Init
    <2>3. frames \in Seq([slot : 0 .. Slots, f : F]) /\ entry \in BOOLEAN /\ built \subseteq Tree
      <3>1. frames = <<>> /\ entry = FALSE /\ built = {src}
        BY DEF Init
      <3>2. <<>> \in Seq([slot : 0 .. Slots, f : F])
        OBVIOUS
      <3> QED
        BY <1>1, <3>1, <3>2, Zenon
    <2>4. /\ edits \in 0 .. MaxEdits /\ seen \in 0 .. MaxEdits /\ gen \in 0 .. MaxEdits
          /\ request \in 0 .. MaxEdits /\ lastSeen \in 0 .. MaxEdits
          /\ nextBase \in 0 .. (Slots + 1)
      BY ConstAssumption DEF Init
    <2>5. record \in Image /\ told = "none" /\ wpc = "build" /\ apc = "none"
      BY <1>1 DEF Init
    <2> QED
      BY <1>1, <1>2, <1>4, <2>1, <2>2, <2>3, <2>4, <2>5 DEF TypeOK
  <1> QED
    BY <1>5, ConstAssumption DEF Init, TypeInv, Counters

(* Every step keeps the types and the counters, whatever answers come late. *)
LEMMA TypeStep ==
    ASSUME TypeInv, [Next]_vars
    PROVE  TypeInv'
  <1>1. CASE Start
    BY <1>1, ConstAssumption DEF Start, TypeInv, TypeOK, Counters, Tree, Image, Gens, edVars, wVars, ctlVars, procVars, gVars, vars
  <1>2. CASE Snapshot
    BY <1>2, ConstAssumption DEF Snapshot, TypeInv, TypeOK, Counters, Return, SeenAfter, Answer, Gens, edVars, wVars, ctlVars, procVars, gVars, vars
  <1>3. CASE Tick
    BY <1>3, ConstAssumption, SMTT(30) DEF Tick, TypeInv, TypeOK, Counters, Return, SeenAfter, Answer, Gens, edVars, wVars, ctlVars, procVars, gVars, vars
  <1>4. CASE ReloadFails
    BY <1>4, ConstAssumption DEF ReloadFails, TypeInv, TypeOK, Counters, Return, SeenAfter, Answer, Gens, edVars, wVars, ctlVars, procVars, gVars, vars
  <1>5. CASE WriteRequest
    BY <1>5, ConstAssumption DEF WriteRequest, TypeInv, TypeOK, Counters, Return, SeenAfter, Answer, Gens, edVars, wVars, ctlVars, procVars, gVars, vars
  <1>6. CASE Confirmed
    BY <1>6, ConstAssumption DEF Confirmed, TypeInv, TypeOK, Counters, NextBase, Return, SeenAfter, Answer, Gens, edVars, wVars, ctlVars, procVars, gVars, vars
  <1>7. CASE Failed
    BY <1>7, ConstAssumption DEF Failed, TypeInv, TypeOK, Counters, Return, SeenAfter, Answer, Gens, edVars, wVars, ctlVars, procVars, gVars, vars
  <1>8. CASE TimedOut
    BY <1>8, ConstAssumption DEF TimedOut, TypeInv, TypeOK, Counters, Return, SeenAfter, Answer, Gens, edVars, wVars, ctlVars, procVars, gVars, vars
  <1>9. CASE serve
    BY <1>9, ConstAssumption DEF serve, TypeInv, TypeOK, Counters, Return, SeenAfter, Answer, Gens, edVars, wVars, ctlVars, procVars, gVars, vars
  <1>10. CASE CommitFails
    BY <1>10, ConstAssumption DEF CommitFails, TypeInv, TypeOK, Counters, Return, SeenAfter, Answer, Gens, edVars, wVars, ctlVars, procVars, gVars, vars
  <1>11. CASE addModule
    <2>1. lastSeen \in Gens
      BY <1>11 DEF addModule, TypeInv, TypeOK, Counters, Gens
    <2>2. req[lastSeen].base \in 0 .. Slots
      BY <2>1 DEF TypeInv, TypeOK
    <2>3. TypeOK'
      BY <1>11, <2>1, <2>2 DEF addModule, Answer, TypeInv, TypeOK, edVars, wVars, ctlVars, procVars, gVars, vars
    <2> QED
      BY <1>11, <2>3 DEF addModule, Answer, TypeInv, Counters, edVars, wVars, ctlVars, procVars, gVars, vars
  <1>12. CASE patchText
    <2>1. lastSeen \in Gens
      BY <1>12 DEF patchText, TypeInv, TypeOK, Counters, Gens
    <2>2. req[lastSeen].base \in 0 .. Slots
      BY <2>1 DEF TypeInv, TypeOK
    <2>3. jump' \in [F -> 0 .. Slots]
      BY <1>12, <2>2 DEF patchText, Jumps, TypeInv, TypeOK
    <2>4. TypeOK'
      BY <1>12, <2>1, <2>3 DEF patchText, Answer, TypeInv, TypeOK, edVars, wVars, ctlVars, procVars, gVars, vars
    <2> QED
      BY <1>12, <2>4 DEF patchText, Answer, TypeInv, Counters, edVars, wVars, ctlVars, procVars, gVars, vars
  <1>13. CASE PatchRefused
    BY <1>13, ConstAssumption DEF PatchRefused, TypeInv, TypeOK, Counters, Return, SeenAfter, Answer, Gens, edVars, wVars, ctlVars, procVars, gVars, vars
  <1>14. CASE Step
    BY <1>14, ConstAssumption, ZenonT(30) DEF Step, TypeInv, TypeOK, Counters, Return, SeenAfter, Answer, Gens, edVars, wVars, ctlVars, procVars, gVars, vars
  <1>15. CASE Ret
    <2>1. frames' \in Seq([slot : 0 .. Slots, f : F])
      BY <1>15, LastOf DEF Ret, TypeInv, TypeOK
    <2>2. TypeOK'
      BY <1>15, <2>1 DEF Ret, TypeInv, TypeOK, edVars, wVars, ctlVars, procVars, gVars, vars
    <2> QED
      BY <1>15, <2>2 DEF Ret, TypeInv, Counters, edVars, wVars, ctlVars, procVars, gVars, vars
  <1>16. CASE Exit
    BY <1>16, ConstAssumption DEF Exit, TypeInv, TypeOK, Counters, Return, SeenAfter, Answer, Gens, edVars, wVars, ctlVars, procVars, gVars, vars
  <1>17. ASSUME NEW ok \in BOOLEAN, handshake(ok) PROVE TypeInv'
    BY <1>17, ConstAssumption DEF handshake, TypeInv, TypeOK, Counters, Return, SeenAfter, Answer, Gens, edVars, wVars, ctlVars, procVars, gVars, vars
  <1>18. ASSUME NEW extra \in SUBSET (F \ Changed), deliver(extra) PROVE TypeInv'
    <2>1. Patched(Changed) \subseteq F
      BY PatchedClosed DEF Changed
    <2>2. HotLink(extra) \in [base : 0 .. Slots, code : Image, patches : SUBSET F, tree : Image]
      <3> DEFINE P == Patched(Changed)
      <3> HIDE DEF P
      <3>1. [f \in F |-> IF f \in P \cup extra THEN src[f] ELSE None] \in Image
        BY DEF TypeInv, TypeOK, Tree, Image
      <3>2. nextBase \in 0 .. Slots /\ src \in Image /\ P \in SUBSET F
        BY <1>18, <2>1 DEF P, TypeInv, TypeOK, Tree, Image, Room, deliver
      <3> QED
        BY <3>1, <3>2 DEF HotLink, P
    <2>3. req' \in [Gens -> [base : 0 .. Slots, code : Image, patches : SUBSET F, tree : Image]]
      BY <1>18, <2>2 DEF deliver, TypeInv, TypeOK
    <2>4. nextBase <= Slots
      BY <1>18 DEF deliver, Room
    <2>5. TypeOK'
      BY <1>18, <2>3, ConstAssumption DEF deliver, TypeInv, TypeOK, edVars, wVars, ctlVars, procVars, gVars, vars
    <2> QED
      BY <1>18, <2>4, <2>5 DEF deliver, TypeInv, Counters, edVars, wVars, ctlVars, procVars, gVars, vars
  <1>19. ASSUME NEW ok \in BOOLEAN, CopyIn(ok) PROVE TypeInv'
    <2>1. lastSeen \in Gens
      BY <1>19 DEF CopyIn, TypeInv, TypeOK, Counters, Gens
    <2>2. mem' \in [0 .. Slots -> Image] /\ resp' \in [Gens -> {"none", "ok", "err"}]
      BY <1>19, <2>1 DEF CopyIn, Answer, TypeInv, TypeOK
    <2>3. TypeOK'
      BY <1>19, <2>1, <2>2 DEF CopyIn, Answer, TypeInv, TypeOK, edVars, wVars, ctlVars, procVars, gVars, vars
    <2> QED
      BY <1>19, <2>3 DEF CopyIn, Answer, TypeInv, Counters, edVars, wVars, ctlVars, procVars, gVars, vars
  <1>20. ASSUME NEW c \in F, Call(c) PROVE TypeInv'
    <2>1. \A s \in 0 .. Slots : Target(s, c) \in [slot : 0 .. Slots, f : F]
      BY DEF Target, TypeInv, TypeOK
    <2>2. frames # <<>> => frames[Len(frames)].slot \in 0 .. Slots
      <3>1. frames \in Seq([slot : 0 .. Slots, f : F])
        BY DEF TypeInv, TypeOK
      <3>2. frames # <<>> => frames[Len(frames)] \in [slot : 0 .. Slots, f : F]
        BY <3>1, LastOf
      <3> QED
        BY <3>2
    <2>3. frames' \in Seq([slot : 0 .. Slots, f : F])
      <3> DEFINE s == IF frames = <<>> THEN 0 ELSE frames[Len(frames)].slot
      <3>1. Target(s, c) \in [slot : 0 .. Slots, f : F]
        BY <2>1, <2>2, ConstAssumption
      <3>2. frames' = Append(frames, Target(s, c))
        BY <1>20 DEF Call
      <3>3. frames \in Seq([slot : 0 .. Slots, f : F])
        BY DEF TypeInv, TypeOK
      <3> HIDE DEF s
      <3> QED
        BY <3>1, <3>2, <3>3
    <2>4. TypeOK'
      BY <1>20, <2>3 DEF Call, TypeInv, TypeOK, edVars, wVars, ctlVars, procVars, gVars, vars
    <2> QED
      BY <1>20, <2>4 DEF Call, TypeInv, Counters, edVars, wVars, ctlVars, procVars, gVars, vars
  <1>21. ASSUME NEW f \in F, NEW v \in Ver, Edit(f, v) PROVE TypeInv'
    <2>1. src' \in Tree
      BY <1>21 DEF Edit, TypeInv, TypeOK, Tree
    <2>2. TypeOK'
      BY <1>21, <2>1, ConstAssumption DEF Edit, TypeInv, TypeOK, edVars, wVars, ctlVars, procVars, gVars, vars
    <2> QED
      BY <1>21, <2>2 DEF Edit, TypeInv, TypeOK, Counters, edVars, wVars, ctlVars, procVars, gVars, vars
  <1>22. CASE UNCHANGED vars
    BY <1>22, ConstAssumption DEF TypeInv, TypeOK, Counters, Return, SeenAfter, Answer, Gens, edVars, wVars, ctlVars, procVars, gVars, vars
  <1> QED
    BY <1>1, <1>2, <1>3, <1>4, <1>5, <1>6, <1>7, <1>8, <1>9, <1>10, <1>11, <1>12, <1>13, <1>14, <1>15, <1>16, <1>17, <1>18, <1>19, <1>20, <1>21, <1>22
       DEF Next, Watcher, Agent, Program

(* TypeOK holds in every reachable state, for every program, number of edits, *)
(* region and race.                                                          *)
THEOREM TypeCorrect == Spec => []TypeOK
  <1>1. TypeInv => TypeOK
    BY DEF TypeInv
  <1> QED
    BY <1>1, TypeInit, TypeStep, PTL DEF Spec

-----------------------------------------------------------------------------
(* Watcher and agent.                                                       *)

(* Watcher and agent take turns when no answer comes late: the agent works  *)
(* only while the watcher waits, and on the generation it waits for.        *)
LEMMA TurnsStep ==
    ASSUME TypeInv, TurnsExact, InTime, [Next]_vars
    PROVE  TurnsExact'
  <1>1. CASE Start
    BY <1>1 DEF Start, TypeInv, TypeOK, Counters, TurnsExact, InTime, Return, Answer, Gens, edVars, wVars, ctlVars, procVars, gVars, vars
  <1>2. CASE Snapshot
    BY <1>2 DEF Snapshot, TypeInv, TypeOK, Counters, TurnsExact, InTime, Return, Answer, Gens, edVars, wVars, ctlVars, procVars, gVars, vars
  <1>3. CASE Tick
    BY <1>3 DEF Tick, TypeInv, TypeOK, Counters, TurnsExact, InTime, Return, Answer, Gens, edVars, wVars, ctlVars, procVars, gVars, vars
  <1>4. CASE ReloadFails
    BY <1>4 DEF ReloadFails, TypeInv, TypeOK, Counters, TurnsExact, InTime, Return, Answer, Gens, edVars, wVars, ctlVars, procVars, gVars, vars
  <1>5. CASE WriteRequest
    BY <1>5 DEF WriteRequest, TypeInv, TypeOK, Counters, TurnsExact, InTime, Return, Answer, Gens, edVars, wVars, ctlVars, procVars, gVars, vars
  <1>6. CASE Confirmed
    BY <1>6 DEF Confirmed, TypeInv, TypeOK, Counters, TurnsExact, InTime, Return, Answer, Gens, edVars, wVars, ctlVars, procVars, gVars, vars
  <1>7. CASE Failed
    BY <1>7 DEF Failed, TypeInv, TypeOK, Counters, TurnsExact, InTime, Return, Answer, Gens, edVars, wVars, ctlVars, procVars, gVars, vars
  <1>8. CASE TimedOut
    BY <1>8 DEF TimedOut, TypeInv, TypeOK, Counters, TurnsExact, InTime, Return, Answer, Gens, edVars, wVars, ctlVars, procVars, gVars, vars
  <1>9. CASE serve
    BY <1>9 DEF serve, TypeInv, TypeOK, Counters, TurnsExact, InTime, Return, Answer, Gens, edVars, wVars, ctlVars, procVars, gVars, vars
  <1>10. CASE CommitFails
    BY <1>10 DEF CommitFails, TypeInv, TypeOK, Counters, TurnsExact, InTime, Return, Answer, Gens, edVars, wVars, ctlVars, procVars, gVars, vars
  <1>11. CASE addModule
    <2>1. lastSeen = gen /\ gen \in Gens /\ wpc = "wait" /\ request = gen /\ resp[gen] = "none"
      BY <1>11 DEF addModule, TypeInv, TypeOK, Counters, TurnsExact, Gens
    <2>2. /\ lastSeen' = lastSeen /\ gen' = gen /\ wpc' = wpc /\ request' = request
          /\ apc' \in {"poll", "add", "patch"} /\ (apc' # "poll" => resp' = resp)
          /\ \A g \in Gens : g # gen => resp'[g] = resp[g]
      BY <1>11, <2>1 DEF addModule, Answer, TypeInv, TypeOK, edVars, wVars, ctlVars, procVars, gVars, vars
    <2>3. \A g \in Gens : g > lastSeen' => resp'[g] = "none"
      BY <2>1, <2>2 DEF TurnsExact, Gens
    <2> QED
      BY <2>1, <2>2, <2>3 DEF TurnsExact
  <1>12. CASE patchText
    BY <1>12 DEF patchText, TypeInv, TypeOK, Counters, TurnsExact, InTime, Return, Answer, Gens, edVars, wVars, ctlVars, procVars, gVars, vars
  <1>13. CASE PatchRefused
    BY <1>13 DEF PatchRefused, TypeInv, TypeOK, Counters, TurnsExact, InTime, Return, Answer, Gens, edVars, wVars, ctlVars, procVars, gVars, vars
  <1>14. CASE Step
    BY <1>14 DEF Step, TypeInv, TypeOK, Counters, TurnsExact, InTime, Return, Answer, Gens, edVars, wVars, ctlVars, procVars, gVars, vars
  <1>15. CASE Ret
    BY <1>15 DEF Ret, TypeInv, TypeOK, Counters, TurnsExact, InTime, Return, Answer, Gens, edVars, wVars, ctlVars, procVars, gVars, vars
  <1>16. CASE Exit
    BY <1>16 DEF Exit, TypeInv, TypeOK, Counters, TurnsExact, InTime, Return, Answer, Gens, edVars, wVars, ctlVars, procVars, gVars, vars
  <1>17. ASSUME NEW ok \in BOOLEAN, handshake(ok) PROVE TurnsExact'
    BY <1>17 DEF handshake, TypeInv, TypeOK, Counters, TurnsExact, InTime, Return, Answer, Gens, edVars, wVars, ctlVars, procVars, gVars, vars
  <1>18. ASSUME NEW extra \in SUBSET (F \ Changed), deliver(extra) PROVE TurnsExact'
    BY <1>18 DEF deliver, TypeInv, TypeOK, Counters, TurnsExact, InTime, Return, Answer, Gens, edVars, wVars, ctlVars, procVars, gVars, vars
  <1>19. ASSUME NEW ok \in BOOLEAN, CopyIn(ok) PROVE TurnsExact'
    <2>1. lastSeen = gen /\ gen \in Gens /\ wpc = "wait" /\ request = gen /\ resp[gen] = "none"
      BY <1>19 DEF CopyIn, TypeInv, TypeOK, Counters, TurnsExact, Gens
    <2>2. /\ lastSeen' = lastSeen /\ gen' = gen /\ wpc' = wpc /\ request' = request
          /\ apc' \in {"poll", "add", "patch"} /\ (apc' # "poll" => resp' = resp)
          /\ \A g \in Gens : g # gen => resp'[g] = resp[g]
      BY <1>19, <2>1 DEF CopyIn, Answer, TypeInv, TypeOK, edVars, wVars, ctlVars, procVars, gVars, vars
    <2>3. \A g \in Gens : g > lastSeen' => resp'[g] = "none"
      BY <2>1, <2>2 DEF TurnsExact, Gens
    <2> QED
      BY <2>1, <2>2, <2>3 DEF TurnsExact
  <1>20. ASSUME NEW c \in F, Call(c) PROVE TurnsExact'
    BY <1>20 DEF Call, TypeInv, TypeOK, Counters, TurnsExact, InTime, Return, Answer, Gens, edVars, wVars, ctlVars, procVars, gVars, vars
  <1>21. ASSUME NEW f \in F, NEW v \in Ver, Edit(f, v) PROVE TurnsExact'
    BY <1>21 DEF Edit, TypeInv, TypeOK, Counters, TurnsExact, InTime, Return, Answer, Gens, edVars, wVars, ctlVars, procVars, gVars, vars
  <1>22. CASE UNCHANGED vars
    BY <1>22 DEF TypeInv, TypeOK, Counters, TurnsExact, InTime, Return, Answer, Gens, edVars, wVars, ctlVars, procVars, gVars, vars
  <1> QED
    BY <1>1, <1>2, <1>3, <1>4, <1>5, <1>6, <1>7, <1>8, <1>9, <1>10, <1>11, <1>12, <1>13, <1>14, <1>15, <1>16, <1>17, <1>18, <1>19, <1>20, <1>21, <1>22
       DEF Next, Watcher, Agent, Program

(* What the linker has made stays whole until the watcher has its answer,   *)
(* and what the agent has copied in is what the linker made.                *)
LEMMA LinkStep ==
    ASSUME TypeInv, TurnsExact, LinkExact, InTime, [Next]_vars
    PROVE  LinkExact'
  <1>1. CASE Start
    BY <1>1 DEF Start, TypeInv, TypeOK, Counters, TurnsExact, LinkExact, Whole, InTime, Return, Answer, Gens, edVars, wVars, ctlVars, procVars, gVars, vars
  <1>2. CASE Snapshot
    BY <1>2 DEF Snapshot, TypeInv, TypeOK, Counters, TurnsExact, LinkExact, Whole, InTime, Return, Answer, Gens, edVars, wVars, ctlVars, procVars, gVars, vars
  <1>3. CASE Tick
    BY <1>3 DEF Tick, TypeInv, TypeOK, Counters, TurnsExact, LinkExact, Whole, InTime, Return, Answer, Gens, edVars, wVars, ctlVars, procVars, gVars, vars
  <1>4. CASE ReloadFails
    BY <1>4 DEF ReloadFails, TypeInv, TypeOK, Counters, TurnsExact, LinkExact, Whole, InTime, Return, Answer, Gens, edVars, wVars, ctlVars, procVars, gVars, vars
  <1>5. CASE WriteRequest
    BY <1>5 DEF WriteRequest, TypeInv, TypeOK, Counters, TurnsExact, LinkExact, Whole, InTime, Return, Answer, Gens, edVars, wVars, ctlVars, procVars, gVars, vars
  <1>6. CASE Confirmed
    BY <1>6 DEF Confirmed, TypeInv, TypeOK, Counters, TurnsExact, LinkExact, Whole, InTime, Return, Answer, Gens, edVars, wVars, ctlVars, procVars, gVars, vars
  <1>7. CASE Failed
    BY <1>7 DEF Failed, TypeInv, TypeOK, Counters, TurnsExact, LinkExact, Whole, InTime, Return, Answer, Gens, edVars, wVars, ctlVars, procVars, gVars, vars
  <1>8. CASE TimedOut
    BY <1>8 DEF TimedOut, TypeInv, TypeOK, Counters, TurnsExact, LinkExact, Whole, InTime, Return, Answer, Gens, edVars, wVars, ctlVars, procVars, gVars, vars
  <1>9. CASE serve
    BY <1>9 DEF serve, TypeInv, TypeOK, Counters, TurnsExact, LinkExact, Whole, InTime, Return, Answer, Gens, edVars, wVars, ctlVars, procVars, gVars, vars
  <1>10. CASE CommitFails
    BY <1>10 DEF CommitFails, TypeInv, TypeOK, Counters, TurnsExact, LinkExact, Whole, InTime, Return, Answer, Gens, edVars, wVars, ctlVars, procVars, gVars, vars
  <1>11. CASE addModule
    BY <1>11 DEF addModule, TypeInv, TypeOK, Counters, TurnsExact, LinkExact, Whole, InTime, Return, Answer, Gens, edVars, wVars, ctlVars, procVars, gVars, vars
  <1>12. CASE patchText
    BY <1>12 DEF patchText, TypeInv, TypeOK, Counters, TurnsExact, LinkExact, Whole, InTime, Return, Answer, Gens, edVars, wVars, ctlVars, procVars, gVars, vars
  <1>13. CASE PatchRefused
    BY <1>13 DEF PatchRefused, TypeInv, TypeOK, Counters, TurnsExact, LinkExact, Whole, InTime, Return, Answer, Gens, edVars, wVars, ctlVars, procVars, gVars, vars
  <1>14. CASE Step
    BY <1>14 DEF Step, TypeInv, TypeOK, Counters, TurnsExact, LinkExact, Whole, InTime, Return, Answer, Gens, edVars, wVars, ctlVars, procVars, gVars, vars
  <1>15. CASE Ret
    BY <1>15 DEF Ret, TypeInv, TypeOK, Counters, TurnsExact, LinkExact, Whole, InTime, Return, Answer, Gens, edVars, wVars, ctlVars, procVars, gVars, vars
  <1>16. CASE Exit
    BY <1>16 DEF Exit, TypeInv, TypeOK, Counters, TurnsExact, LinkExact, Whole, InTime, Return, Answer, Gens, edVars, wVars, ctlVars, procVars, gVars, vars
  <1>17. ASSUME NEW ok \in BOOLEAN, handshake(ok) PROVE LinkExact'
    BY <1>17 DEF handshake, TypeInv, TypeOK, Counters, TurnsExact, LinkExact, Whole, InTime, Return, Answer, Gens, edVars, wVars, ctlVars, procVars, gVars, vars
  <1>18. ASSUME NEW extra \in SUBSET (F \ Changed), deliver(extra) PROVE LinkExact'
    <2>0. PICK P, r : P = Patched(Changed) /\ r = HotLink(extra)
      OBVIOUS
    <2>1. /\ Changed \subseteq P /\ P \subseteq F
          /\ \A g \in F : Calls[g] \cap P # {} => g \in P
      BY <2>0, PatchedClosed DEF Changed
    <2>2. /\ r.base = nextBase /\ r.tree = src /\ r.patches = P
          /\ r.code = [f \in F |-> IF f \in P \cup extra THEN src[f] ELSE None]
      BY <2>0 DEF HotLink
    <2>3. gen \in Gens /\ req' [gen] = r /\ gen' = gen
      BY <1>18, <2>0 DEF deliver, TypeInv, TypeOK, Counters, Gens, wVars
    <2>4. src \in [F -> Ver] /\ built' = built \cup {src} /\ nextBase' = nextBase /\ record' = record
      BY <1>18 DEF deliver, TypeInv, TypeOK, Tree, wVars
    <2>5. \A f \in F : f \notin P => src[f] = record[f]
      BY <2>1 DEF Changed
    <2>6. r.base = nextBase' /\ r.tree \in built'
      BY <2>2, <2>4
    <2>61. ASSUME NEW f \in F
           PROVE  /\ f \in r.patches => r.code[f] # None
                  /\ f \notin r.patches => r.tree[f] = record'[f]
                  /\ r.code[f] # None => r.code[f] = r.tree[f]
                  /\ Calls[f] \cap r.patches # {} => f \in r.patches
      BY <2>1, <2>2, <2>4, <2>5, ConstAssumption
    <2>7. Whole(req[gen])'
      BY <2>3, <2>6, <2>61 DEF Whole
    <2>8. apc' \notin {"add", "patch"}
      BY <1>18 DEF deliver, TurnsExact
    <2> QED
      BY <2>7, <2>8 DEF LinkExact
  <1>19. ASSUME NEW ok \in BOOLEAN, CopyIn(ok) PROVE LinkExact'
    BY <1>19 DEF CopyIn, TypeInv, TypeOK, Counters, TurnsExact, LinkExact, Whole, InTime, Return, Answer, Gens, edVars, wVars, ctlVars, procVars, gVars, vars
  <1>20. ASSUME NEW c \in F, Call(c) PROVE LinkExact'
    BY <1>20 DEF Call, TypeInv, TypeOK, Counters, TurnsExact, LinkExact, Whole, InTime, Return, Answer, Gens, edVars, wVars, ctlVars, procVars, gVars, vars
  <1>21. ASSUME NEW f \in F, NEW v \in Ver, Edit(f, v) PROVE LinkExact'
    BY <1>21 DEF Edit, TypeInv, TypeOK, Counters, TurnsExact, LinkExact, Whole, InTime, Return, Answer, Gens, edVars, wVars, ctlVars, procVars, gVars, vars
  <1>22. CASE UNCHANGED vars
    BY <1>22 DEF TypeInv, TypeOK, Counters, TurnsExact, LinkExact, Whole, InTime, Return, Answer, Gens, edVars, wVars, ctlVars, procVars, gVars, vars
  <1> QED
    BY <1>1, <1>2, <1>3, <1>4, <1>5, <1>6, <1>7, <1>8, <1>9, <1>10, <1>11, <1>12, <1>13, <1>14, <1>15, <1>16, <1>17, <1>18, <1>19, <1>20, <1>21, <1>22
       DEF Next, Watcher, Agent, Program

-----------------------------------------------------------------------------
(* The program's code.                                                      *)

\* A step that changes no code that runs.
Steady ==
    /\ Low \subseteq Low' /\ CurrentTree' = CurrentTree
    /\ jump' = jump /\ \A s \in Low : mem'[s] = mem[s]

(* Only patchText changes the code that runs: CopyIn writes to a slot that  *)
(* nothing leads to.                                                        *)
LEMMA SteadyStep ==
    ASSUME TypeInv, TurnsExact, LinkExact, InTime, [Next]_vars, ~patchText
    PROVE  Steady
  <1>1. CASE Start
    BY <1>1 DEF Start, TypeInv, TypeOK, Counters, TurnsExact, Steady, Low, Applied, CurrentTree, InTime, Return, Answer, Gens, edVars, wVars, ctlVars, procVars, gVars, vars
  <1>2. CASE Snapshot
    BY <1>2 DEF Snapshot, TypeInv, TypeOK, Counters, TurnsExact, Steady, Low, Applied, CurrentTree, InTime, Return, Answer, Gens, edVars, wVars, ctlVars, procVars, gVars, vars
  <1>3. CASE Tick
    BY <1>3 DEF Tick, TypeInv, TypeOK, Counters, TurnsExact, Steady, Low, Applied, CurrentTree, InTime, Return, Answer, Gens, edVars, wVars, ctlVars, procVars, gVars, vars
  <1>4. CASE ReloadFails
    BY <1>4 DEF ReloadFails, TypeInv, TypeOK, Counters, TurnsExact, Steady, Low, Applied, CurrentTree, InTime, Return, Answer, Gens, edVars, wVars, ctlVars, procVars, gVars, vars
  <1>5. CASE WriteRequest
    BY <1>5 DEF WriteRequest, TypeInv, TypeOK, Counters, TurnsExact, Steady, Low, Applied, CurrentTree, InTime, Return, Answer, Gens, edVars, wVars, ctlVars, procVars, gVars, vars
  <1>6. CASE Confirmed
    BY <1>6 DEF Confirmed, TypeInv, TypeOK, Counters, TurnsExact, Steady, Low, Applied, CurrentTree, InTime, NextBase, Return, Answer, Gens, edVars, wVars, ctlVars, procVars, gVars, vars
  <1>7. CASE Failed
    BY <1>7 DEF Failed, TypeInv, TypeOK, Counters, TurnsExact, Steady, Low, Applied, CurrentTree, InTime, Return, Answer, Gens, edVars, wVars, ctlVars, procVars, gVars, vars
  <1>8. CASE TimedOut
    BY <1>8 DEF TimedOut, TypeInv, TypeOK, Counters, TurnsExact, Steady, Low, Applied, CurrentTree, InTime, Return, Answer, Gens, edVars, wVars, ctlVars, procVars, gVars, vars
  <1>9. CASE serve
    BY <1>9 DEF serve, TypeInv, TypeOK, Counters, TurnsExact, Steady, Low, Applied, CurrentTree, InTime, Return, Answer, Gens, edVars, wVars, ctlVars, procVars, gVars, vars
  <1>10. CASE CommitFails
    BY <1>10 DEF CommitFails, TypeInv, TypeOK, Counters, TurnsExact, Steady, Low, Applied, CurrentTree, InTime, Return, Answer, Gens, edVars, wVars, ctlVars, procVars, gVars, vars
  <1>11. CASE addModule
    <2>1. lastSeen = gen /\ gen \in Gens /\ wpc = "wait" /\ resp[gen] = "none"
      BY <1>11 DEF addModule, TypeInv, TypeOK, Counters, TurnsExact, Gens
    <2>2. ~Applied /\ ~Applied'
      BY <1>11, <2>1 DEF addModule, Answer, Applied, TypeInv, TypeOK, wVars
    <2> QED
      BY <1>11, <2>1, <2>2 DEF addModule, Steady, Low, CurrentTree, edVars, wVars, ctlVars, procVars, gVars, vars
  <1>12. CASE patchText
    BY <1>12
  <1>13. CASE PatchRefused
    BY <1>13 DEF PatchRefused, TypeInv, TypeOK, Counters, TurnsExact, Steady, Low, Applied, CurrentTree, InTime, Return, Answer, Gens, edVars, wVars, ctlVars, procVars, gVars, vars
  <1>14. CASE Step
    BY <1>14 DEF Step, TypeInv, TypeOK, Counters, TurnsExact, Steady, Low, Applied, CurrentTree, InTime, Return, Answer, Gens, edVars, wVars, ctlVars, procVars, gVars, vars
  <1>15. CASE Ret
    BY <1>15 DEF Ret, TypeInv, TypeOK, Counters, TurnsExact, Steady, Low, Applied, CurrentTree, InTime, Return, Answer, Gens, edVars, wVars, ctlVars, procVars, gVars, vars
  <1>16. CASE Exit
    BY <1>16 DEF Exit, TypeInv, TypeOK, Counters, TurnsExact, Steady, Low, Applied, CurrentTree, InTime, Return, Answer, Gens, edVars, wVars, ctlVars, procVars, gVars, vars
  <1>17. ASSUME NEW ok \in BOOLEAN, handshake(ok) PROVE Steady
    BY <1>17 DEF handshake, TypeInv, TypeOK, Counters, TurnsExact, Steady, Low, Applied, CurrentTree, InTime, Return, Answer, Gens, edVars, wVars, ctlVars, procVars, gVars, vars
  <1>18. ASSUME NEW extra \in SUBSET (F \ Changed), deliver(extra) PROVE Steady
    BY <1>18 DEF deliver, TypeInv, TypeOK, Counters, TurnsExact, Steady, Low, Applied, CurrentTree, InTime, Return, Answer, Gens, edVars, wVars, ctlVars, procVars, gVars, vars
  <1>19. ASSUME NEW ok \in BOOLEAN, CopyIn(ok) PROVE Steady
    <2>1. lastSeen = gen /\ gen \in Gens /\ wpc = "wait" /\ resp[gen] = "none"
      BY <1>19 DEF CopyIn, TypeInv, TypeOK, Counters, TurnsExact, Gens
    <2>2. req[gen].base = nextBase /\ nextBase \in 1 .. Slots
      BY <2>1 DEF LinkExact, Whole, TypeInv, TypeOK, Counters
    <2>3. ~Applied /\ nextBase \notin Low
      BY <2>1, <2>2 DEF Applied, Low
    <2>4. \A s \in Low : mem'[s] = mem[s]
      BY <1>19, <2>1, <2>2, <2>3 DEF CopyIn, Low, TypeInv, TypeOK
    <2>5. ~Applied'
      BY <1>19, <2>1 DEF CopyIn, Answer, Applied, TypeInv, TypeOK, wVars
    <2> QED
      BY <1>19, <2>1, <2>3, <2>4, <2>5 DEF CopyIn, Steady, Low, CurrentTree, edVars, wVars, ctlVars, procVars, gVars, vars
  <1>20. ASSUME NEW c \in F, Call(c) PROVE Steady
    BY <1>20 DEF Call, TypeInv, TypeOK, Counters, TurnsExact, Steady, Low, Applied, CurrentTree, InTime, Return, Answer, Gens, edVars, wVars, ctlVars, procVars, gVars, vars
  <1>21. ASSUME NEW f \in F, NEW v \in Ver, Edit(f, v) PROVE Steady
    BY <1>21 DEF Edit, TypeInv, TypeOK, Counters, TurnsExact, Steady, Low, Applied, CurrentTree, InTime, Return, Answer, Gens, edVars, wVars, ctlVars, procVars, gVars, vars
  <1>22. CASE UNCHANGED vars
    BY <1>22 DEF TypeInv, TypeOK, Counters, TurnsExact, Steady, Low, Applied, CurrentTree, InTime, Return, Answer, Gens, edVars, wVars, ctlVars, procVars, gVars, vars
  <1> QED
    BY <1>1, <1>2, <1>3, <1>4, <1>5, <1>6, <1>7, <1>8, <1>9, <1>10, <1>11, <1>12, <1>13, <1>14, <1>15, <1>16, <1>17, <1>18, <1>19, <1>20, <1>21, <1>22
       DEF Next, Watcher, Agent, Program

(* Entries and frames lead only to slots in use, before and after a step.   *)
LEMMA SlotsStep ==
    ASSUME TypeInv, TurnsExact, LinkExact, SlotsExact, InTime, [Next]_vars
    PROVE  SlotsExact'
  <1>1. CASE patchText
    <2>1. lastSeen = gen /\ gen \in Gens /\ wpc = "wait"
      BY <1>1 DEF patchText, TypeInv, TypeOK, Counters, TurnsExact, Gens
    <2>2. req[gen].base = nextBase /\ nextBase \in 0 .. Slots
      BY <2>1 DEF LinkExact, Whole, TypeInv, TypeOK, Counters
    <2>3. Applied' /\ nextBase' = nextBase /\ frames' = frames
      BY <1>1, <2>1 DEF patchText, Answer, Applied, TypeInv, TypeOK, wVars, gVars
    <2>4. Low \subseteq Low' /\ nextBase \in Low'
      BY <2>2, <2>3 DEF Low
    <2>5. \A f \in F : jump'[f] \in Low'
      BY <1>1, <2>1, <2>2, <2>4 DEF patchText, Jumps, SlotsExact
    <2> QED
      BY <2>3, <2>4, <2>5 DEF SlotsExact
  <1>2. CASE ~patchText
    <2>1. Steady
      BY <1>2, SteadyStep
    <2>2. \A f \in F : jump'[f] \in Low'
      BY <2>1 DEF Steady, SlotsExact
    <2>3. frames \in Seq([slot : 0 .. Slots, f : F])
      BY DEF TypeInv, TypeOK
    <2>4. \A i \in 1 .. Len(frames) : frames[i].slot \in Low'
      BY <2>1 DEF Steady, SlotsExact
    <2>5. ASSUME NEW c \in F, Call(c) PROVE SlotsExact'
      <3> DEFINE s == IF frames = <<>> THEN 0 ELSE frames[Len(frames)].slot
      <3>1. frames' = Append(frames, Target(s, c))
        BY <2>5 DEF Call
      <3>2. s \in Low
        <4>1. frames # <<>> => Len(frames) \in 1 .. Len(frames)
          BY <2>3, LastOf
        <4>2. 0 \in Low
          BY ConstAssumption DEF Low
        <4> QED
          BY <4>1, <4>2 DEF SlotsExact
      <3>3. Target(s, c).slot \in Low'
        BY <2>1, <3>2 DEF Target, Steady, SlotsExact
      <3> HIDE DEF s
      <3>4. PICK x : x = Target(s, c)
        OBVIOUS
      <3>5. frames' = Append(frames, x) /\ x.slot \in Low'
        BY <3>1, <3>3, <3>4
      <3>6. \A i \in 1 .. Len(frames') : frames'[i].slot \in Low'
        BY <2>3, <2>4, <3>5
      <3> QED
        BY <2>2, <3>6 DEF SlotsExact
    <2>6. CASE Ret
      <3>1. \A i \in 1 .. Len(frames') : frames'[i].slot \in Low'
        <4>1. frames' = SubSeq(frames, 1, Len(frames) - 1) /\ frames # <<>>
          BY <2>6 DEF Ret
        <4>2. /\ Len(frames') = Len(frames) - 1
              /\ \A i \in 1 .. Len(frames) - 1 : frames'[i] = frames[i]
              /\ Len(frames) \in Nat
          BY <2>3, <4>1, LastOf
        <4> QED
          BY <2>4, <4>2
      <3> QED
        BY <2>2, <3>1 DEF SlotsExact
    <2>7. CASE frames' = frames
      BY <2>2, <2>4, <2>7 DEF SlotsExact
    <2>8. frames' = frames \/ Ret \/ \E c \in F : Call(c)
      BY DEF Next, Watcher, Agent, Program, Start, Snapshot, Tick, ReloadFails, WriteRequest,
             Confirmed, Failed, TimedOut, serve, CommitFails, addModule, patchText, PatchRefused,
             Step, Exit, handshake, deliver, CopyIn, Edit, gVars, vars
    <2> QED
      BY <2>5, <2>6, <2>7, <2>8
  <1> QED
    BY <1>1, <1>2

(* The bodies that calls lead to stay those of one tree, closed under calls. *)
LEMMA CodeStep ==
    ASSUME TypeInv, TurnsExact, LinkExact, SlotsExact, CodeExact, InTime, [Next]_vars
    PROVE  CodeExact'
  <1>0. PICK X \in SUBSET [slot : Low, f : F] : ClosedCurrent(X)
    BY DEF CodeExact
  <1>1. CASE patchText
    <2>1. lastSeen = gen /\ gen \in Gens /\ wpc = "wait" /\ resp[gen] = "none"
      BY <1>1 DEF patchText, TypeInv, TypeOK, Counters, TurnsExact, Gens
    <2>2. PICK r : r = req[gen]
      OBVIOUS
    <2>3. /\ Whole(r) /\ mem[nextBase] = r.code /\ nextBase \in 1 .. Slots
          /\ r.patches \subseteq F
      BY <1>1, <2>1, <2>2 DEF patchText, LinkExact, Whole, TypeInv, TypeOK, Counters
    <2>4. /\ ~Applied /\ Applied' /\ nextBase' = nextBase /\ mem' = mem
          /\ req' = req /\ gen' = gen /\ wpc' = wpc
      BY <1>1, <2>1 DEF patchText, Answer, Applied, TypeInv, TypeOK, wVars
    <2>5. CurrentTree = record /\ CurrentTree' = r.tree
      BY <2>1, <2>2, <2>4 DEF CurrentTree, Applied
    <2>6. \A f \in F : jump'[f] = IF f \in r.patches THEN nextBase ELSE jump[f]
      BY <1>1, <2>1, <2>2, <2>3 DEF patchText, Jumps, Whole
    <2>7. Low \subseteq Low' /\ nextBase \in Low' /\ nextBase \notin Low
      BY <2>3, <2>4 DEF Low
    <2> DEFINE New == {[slot |-> nextBase, f |-> f] : f \in {g \in F : r.code[g] # None}}
               Y == {x \in X : x.f \notin r.patches} \cup New
    <2>8. PICK Z : Z = Y
      OBVIOUS
    <2>9. Z \in SUBSET [slot : Low', f : F]
      BY <2>7, <2>8
    <2>10. \A x \in X : x.slot # 0 => mem'[x.slot] = mem[x.slot]
      BY <2>4
    <2>11. ASSUME NEW f \in F PROVE Target(0, f)' \in Z
      <3>1. Target(0, f) = [slot |-> jump[f], f |-> f] /\ Target(0, f)' = [slot |-> jump'[f], f |-> f]
        BY DEF Target
      <3>2. CASE f \in r.patches
        BY <2>3, <2>6, <2>8, <3>1, <3>2 DEF Whole
      <3>3. CASE f \notin r.patches
        BY <1>0, <2>6, <2>8, <3>1, <3>3 DEF ClosedCurrent
      <3> QED
        BY <3>2, <3>3
    <2>12. ASSUME NEW x \in X, x.f \notin r.patches
           PROVE  /\ mem'[x.slot][x.f] = CurrentTree'[x.f]
                  /\ \A c \in Calls[x.f] : Target(x.slot, c)' \in Z
      <3>1. x.slot \in Low /\ x.f \in F
        OBVIOUS
      <3>2. mem'[x.slot][x.f] = CurrentTree'[x.f]
        BY <1>0, <2>3, <2>4, <2>5, <2>12, <3>1 DEF ClosedCurrent, Whole
      <3>3. ASSUME NEW c \in Calls[x.f] PROVE Target(x.slot, c)' \in Z
        <4>1. c \in F /\ c \notin r.patches
          BY <2>3, <2>12, <3>1, ConstAssumption DEF Whole
        <4>2. Target(x.slot, c)' = Target(x.slot, c) /\ Target(x.slot, c).f = c
          BY <2>4, <2>6, <4>1 DEF Target
        <4>3. Target(x.slot, c) \in X
          BY <1>0 DEF ClosedCurrent
        <4> QED
          BY <2>8, <4>1, <4>2, <4>3
      <3> QED
        BY <3>2, <3>3
    <2>13. ASSUME NEW f \in F, r.code[f] # None
           PROVE  /\ mem'[nextBase][f] = CurrentTree'[f]
                  /\ \A c \in Calls[f] : Target(nextBase, c)' \in Z
      <3>1. mem'[nextBase][f] = CurrentTree'[f]
        BY <2>3, <2>4, <2>5, <2>13 DEF Whole
      <3>2. ASSUME NEW c \in Calls[f] PROVE Target(nextBase, c)' \in Z
        <4>1. c \in F /\ nextBase # 0
          BY <2>3, ConstAssumption
        <4>2. CASE r.code[c] # None
          <5>1. Target(nextBase, c)' = [slot |-> nextBase, f |-> c]
            BY <2>3, <2>4, <4>1, <4>2 DEF Target
          <5> QED
            BY <2>8, <4>1, <4>2, <5>1
        <4>3. CASE r.code[c] = None
          <5>1. c \notin r.patches
            BY <2>3, <4>1, <4>3 DEF Whole
          <5>2. Target(nextBase, c)' = [slot |-> jump[c], f |-> c]
            BY <2>3, <2>4, <2>6, <4>1, <4>3, <5>1 DEF Target
          <5>3. [slot |-> jump[c], f |-> c] \in X
            <6>1. Target(0, c) \in X
              BY <1>0, <4>1 DEF ClosedCurrent
            <6> QED
              BY <6>1 DEF Target
          <5> QED
            BY <2>8, <5>1, <5>2, <5>3
        <4> QED
          BY <4>2, <4>3
      <3> QED
        BY <3>1, <3>2
    <2>14. ASSUME NEW z \in Z
           PROVE  /\ mem'[z.slot][z.f] = CurrentTree'[z.f]
                  /\ \A c \in Calls[z.f] : Target(z.slot, c)' \in Z
      <3>1. CASE z \in X /\ z.f \notin r.patches
        BY <2>12, <3>1
      <3>2. CASE \E f \in F : r.code[f] # None /\ z = [slot |-> nextBase, f |-> f]
        <4>1. PICK f \in F : r.code[f] # None /\ z = [slot |-> nextBase, f |-> f]
          BY <3>2
        <4>2. z.slot = nextBase /\ z.f = f
          BY <4>1
        <4>3. /\ mem'[nextBase][f] = CurrentTree'[f]
              /\ \A c \in Calls[f] : Target(nextBase, c)' \in Z
          BY <2>13, <4>1
        <4> QED
          BY <2>4, <4>2, <4>3 DEF Target
      <3> QED
        BY <2>8, <3>1, <3>2
    <2>15. ClosedCurrent(Z)'
      BY <2>11, <2>14 DEF ClosedCurrent
    <2> QED
      BY <2>9, <2>15 DEF CodeExact
  <1>2. CASE ~patchText
    <2>1. Steady
      BY <1>2, SteadyStep
    <2>2. X \in SUBSET [slot : Low', f : F]
      BY <2>1 DEF Steady
    <2>3. 0 \in Low
      BY ConstAssumption DEF Low
    <2>4. \A s \in Low, c \in F : Target(s, c)' = Target(s, c)
      BY <2>1 DEF Steady, Target
    <2>5. \A f \in F : Target(0, f)' \in X
      BY <1>0, <2>3, <2>4 DEF ClosedCurrent
    <2>6. ASSUME NEW x \in X
          PROVE  /\ mem'[x.slot][x.f] = CurrentTree'[x.f]
                 /\ \A c \in Calls[x.f] : Target(x.slot, c)' \in X
      <3>1. x.slot \in Low /\ x.f \in F
        OBVIOUS
      <3>2. \A c \in Calls[x.f] : c \in F
        BY <3>1, ConstAssumption
      <3> QED
        BY <1>0, <2>1, <2>4, <3>1, <3>2 DEF ClosedCurrent, Steady
    <2>7. ClosedCurrent(X)'
      BY <2>5, <2>6 DEF ClosedCurrent
    <2> QED
      BY <2>2, <2>7 DEF CodeExact
  <1> QED
    BY <1>1, <1>2

(* Nothing happens to the program's code while the first build runs. *)
LEMMA BuildStep ==
    ASSUME TypeInv, TurnsExact, BuildExact, InTime, [Next]_vars
    PROVE  BuildExact'
  <1>1. CASE Start
    BY <1>1 DEF Start, BuildExact, TypeInv, TypeOK, Counters, TurnsExact, InTime, Running, Return, edVars, wVars, ctlVars, procVars, gVars, vars
  <1>2. CASE Snapshot
    BY <1>2 DEF Snapshot, BuildExact, TypeInv, TypeOK, Counters, TurnsExact, InTime, Running, Return, edVars, wVars, ctlVars, procVars, gVars, vars
  <1>3. CASE Tick
    BY <1>3 DEF Tick, BuildExact, TypeInv, TypeOK, Counters, TurnsExact, InTime, Running, Return, edVars, wVars, ctlVars, procVars, gVars, vars
  <1>4. CASE ReloadFails
    BY <1>4 DEF ReloadFails, BuildExact, TypeInv, TypeOK, Counters, TurnsExact, InTime, Running, Return, edVars, wVars, ctlVars, procVars, gVars, vars
  <1>5. CASE WriteRequest
    BY <1>5 DEF WriteRequest, BuildExact, TypeInv, TypeOK, Counters, TurnsExact, InTime, Running, Return, edVars, wVars, ctlVars, procVars, gVars, vars
  <1>6. CASE Confirmed
    BY <1>6 DEF Confirmed, BuildExact, TypeInv, TypeOK, Counters, TurnsExact, InTime, Running, Return, edVars, wVars, ctlVars, procVars, gVars, vars
  <1>7. CASE Failed
    BY <1>7 DEF Failed, BuildExact, TypeInv, TypeOK, Counters, TurnsExact, InTime, Running, Return, edVars, wVars, ctlVars, procVars, gVars, vars
  <1>8. CASE TimedOut
    BY <1>8 DEF TimedOut, BuildExact, TypeInv, TypeOK, Counters, TurnsExact, InTime, Running, Return, edVars, wVars, ctlVars, procVars, gVars, vars
  <1>9. CASE serve
    BY <1>9 DEF serve, BuildExact, TypeInv, TypeOK, Counters, TurnsExact, InTime, Running, Return, edVars, wVars, ctlVars, procVars, gVars, vars
  <1>10. CASE CommitFails
    BY <1>10 DEF CommitFails, BuildExact, TypeInv, TypeOK, Counters, TurnsExact, InTime, Running, Return, edVars, wVars, ctlVars, procVars, gVars, vars
  <1>11. CASE addModule
    BY <1>11 DEF addModule, BuildExact, TypeInv, TypeOK, Counters, TurnsExact, InTime, Running, Return, edVars, wVars, ctlVars, procVars, gVars, vars
  <1>12. CASE patchText
    BY <1>12 DEF patchText, BuildExact, TypeInv, TypeOK, Counters, TurnsExact, InTime, Running, Return, edVars, wVars, ctlVars, procVars, gVars, vars
  <1>13. CASE PatchRefused
    BY <1>13 DEF PatchRefused, BuildExact, TypeInv, TypeOK, Counters, TurnsExact, InTime, Running, Return, edVars, wVars, ctlVars, procVars, gVars, vars
  <1>14. CASE Step
    BY <1>14 DEF Step, BuildExact, TypeInv, TypeOK, Counters, TurnsExact, InTime, Running, Return, edVars, wVars, ctlVars, procVars, gVars, vars
  <1>15. CASE Ret
    BY <1>15 DEF Ret, BuildExact, TypeInv, TypeOK, Counters, TurnsExact, InTime, Running, Return, edVars, wVars, ctlVars, procVars, gVars, vars
  <1>16. CASE Exit
    BY <1>16 DEF Exit, BuildExact, TypeInv, TypeOK, Counters, TurnsExact, InTime, Running, Return, edVars, wVars, ctlVars, procVars, gVars, vars
  <1>17. ASSUME NEW ok \in BOOLEAN, handshake(ok) PROVE BuildExact'
    BY <1>17 DEF handshake, BuildExact, TypeInv, TypeOK, Counters, TurnsExact, InTime, Running, Return, edVars, wVars, ctlVars, procVars, gVars, vars
  <1>18. ASSUME NEW extra \in SUBSET (F \ Changed), deliver(extra) PROVE BuildExact'
    BY <1>18 DEF deliver, BuildExact, TypeInv, TypeOK, Counters, TurnsExact, InTime, Running, Return, edVars, wVars, ctlVars, procVars, gVars, vars
  <1>19. ASSUME NEW ok \in BOOLEAN, CopyIn(ok) PROVE BuildExact'
    BY <1>19 DEF CopyIn, BuildExact, TypeInv, TypeOK, Counters, TurnsExact, InTime, Running, Return, edVars, wVars, ctlVars, procVars, gVars, vars
  <1>20. ASSUME NEW c \in F, Call(c) PROVE BuildExact'
    BY <1>20 DEF Call, BuildExact, TypeInv, TypeOK, Counters, TurnsExact, InTime, Running, Return, edVars, wVars, ctlVars, procVars, gVars, vars
  <1>21. ASSUME NEW f \in F, NEW v \in Ver, Edit(f, v) PROVE BuildExact'
    BY <1>21 DEF Edit, BuildExact, TypeInv, TypeOK, Counters, TurnsExact, InTime, Running, Return, edVars, wVars, ctlVars, procVars, gVars, vars
  <1>22. CASE UNCHANGED vars
    BY <1>22 DEF BuildExact, TypeInv, TypeOK, Counters, TurnsExact, InTime, Running, Return, edVars, wVars, ctlVars, procVars, gVars, vars
  <1> QED
    BY <1>1, <1>2, <1>3, <1>4, <1>5, <1>6, <1>7, <1>8, <1>9, <1>10, <1>11, <1>12, <1>13, <1>14, <1>15, <1>16, <1>17, <1>18, <1>19, <1>20, <1>21, <1>22
       DEF Next, Watcher, Agent, Program

(* The invariant holds at first. *)
LEMMA ReloadInit == Init => ReloadInv
  <1> SUFFICES ASSUME Init PROVE ReloadInv
    OBVIOUS
  <1>1. TurnsExact /\ LinkExact /\ BuildExact
    BY ConstAssumption DEF Init, TurnsExact, LinkExact, BuildExact, Gens
  <1>2. 0 \in Low /\ CurrentTree = src /\ mem[0] = src /\ jump = [f \in F |-> 0] /\ frames = <<>>
    BY ConstAssumption DEF Init, Low, CurrentTree
  <1>3. SlotsExact
    BY <1>2 DEF SlotsExact
  <1>4. CodeExact
    <2>1. PICK X : X = {[slot |-> 0, f |-> f] : f \in F}
      OBVIOUS
    <2>2. \A c \in F : Target(0, c) = [slot |-> 0, f |-> c]
      BY <1>2 DEF Target
    <2>3. ClosedCurrent(X)
      BY <1>2, <2>1, <2>2, ConstAssumption DEF ClosedCurrent
    <2> QED
      BY <1>2, <2>1, <2>3 DEF CodeExact
  <1> QED
    BY <1>1, <1>3, <1>4 DEF ReloadInv

(* When no answer comes late, every step keeps the invariant. *)
LEMMA ReloadStep ==
    ASSUME TypeInv, ReloadInv, InTime, [Next]_vars
    PROVE  ReloadInv'
  BY TurnsStep, LinkStep, SlotsStep, CodeStep, BuildStep DEF ReloadInv

(* So it holds in every reachable state. *)
LEMMA Reloads ==
    ASSUME InTime
    PROVE  Spec => [](TypeInv /\ ReloadInv)
  <1>1. TypeInv /\ ReloadInv /\ [Next]_vars => TypeInv' /\ ReloadInv'
    BY TypeStep, ReloadStep
  <1> QED
    BY <1>1, TypeInit, ReloadInit, PTL DEF Spec

(* Slots that entries or frames lead to are in use. *)
LEMMA InUseLow ==
    ASSUME SlotsExact
    PROVE  InUse \subseteq Low
  BY ConstAssumption DEF SlotsExact, InUse, Low

(* CodeIntact: when no answer comes late, no step of the watcher, the agent  *)
(* or the program overwrites a slot that an entry leads to or that the       *)
(* goroutine is executing in, for every program and every number of reloads. *)
THEOREM CodeNeverOverwritten ==
    ASSUME InTime
    PROVE  Spec => CodeIntact
  <1>1. ASSUME TypeInv, ReloadInv, [Next]_vars
        PROVE  [Running => \A s \in InUse : mem'[s] = mem[s]]_vars
    <2>1. CASE patchText
      BY <2>1 DEF patchText
    <2>2. CASE ~patchText
      BY <1>1, <2>2, SteadyStep, InUseLow DEF Steady, ReloadInv
    <2> QED
      BY <2>1, <2>2
  <1> QED
    BY <1>1, Reloads, PTL DEF Spec, CodeIntact

(* What the entries lead to is, function by function, the current tree. *)
LEMMA CodeIs ==
    ASSUME TypeInv, ReloadInv
    PROVE  [f \in F |-> mem[jump[f]][f]] = CurrentTree
  <1>1. CurrentTree \in [F -> Ver \cup {None}]
    <2>1. src \in [F -> Ver \cup {None}] /\ record \in [F -> Ver \cup {None}]
      BY DEF TypeInv, TypeOK, Tree, Image
    <2>2. Applied => req[gen].tree \in [F -> Ver \cup {None}]
      <3>1. Applied => gen \in Gens
        BY DEF TypeInv, TypeOK, Counters, Applied, Gens
      <3>2. Applied => req[gen].tree \in Image
        BY <3>1 DEF TypeInv, TypeOK
      <3> QED
        BY <3>2 DEF Image
    <2> QED
      BY <2>1, <2>2 DEF CurrentTree
  <1>2. PICK X \in SUBSET [slot : Low, f : F] : ClosedCurrent(X)
    BY DEF ReloadInv, CodeExact
  <1>3. ASSUME NEW f \in F PROVE mem[jump[f]][f] = CurrentTree[f]
    <2>1. Target(0, f).slot = jump[f] /\ Target(0, f).f = f
      BY DEF Target
    <2> QED
      BY <1>2, <2>1 DEF ClosedCurrent
  <1> QED
    BY <1>1, <1>3

(* Every step is a step of HotSwap or leaves its variables as they are. *)
LEMMA SwapStep ==
    ASSUME TypeInv, ReloadInv, InTime, [Next]_vars
    PROVE  [Swap!Next]_(Swap!vars)
  <1>1. CASE patchText
    <2>1. lastSeen = gen /\ gen \in Gens /\ wpc = "wait" /\ resp[gen] = "none"
      BY <1>1 DEF patchText, ReloadInv, TypeInv, TypeOK, Counters, TurnsExact, Gens
    <2>2. PICK r : r = req[gen]
      OBVIOUS
    <2>3. /\ Whole(r) /\ mem[nextBase] = r.code /\ r.patches \subseteq F
          /\ r.tree \in [F -> Ver \cup {None}]
      BY <1>1, <2>1, <2>2 DEF patchText, ReloadInv, LinkExact, Whole, TypeInv, TypeOK, Counters, Image
    <2>4. /\ src' = src /\ built' = built /\ mem' = mem
          /\ \A f \in F : jump'[f] = IF f \in r.patches THEN nextBase ELSE jump[f]
      BY <1>1, <2>1, <2>2, <2>3 DEF patchText, Jumps, Whole, edVars
    <2>5. [f \in F |-> mem[jump[f]][f]] = record
      BY <2>1, CodeIs DEF CurrentTree, Applied
    <2>6. ASSUME NEW f \in F PROVE mem'[jump'[f]][f] = r.tree[f]
      <3>1. mem[jump[f]][f] = record[f]
        BY <2>5
      <3> QED
        BY <2>3, <2>4, <3>1 DEF Whole
    <2>7. [f \in F |-> mem[jump[f]][f]]' = r.tree /\ r.tree \in built
      BY <2>3, <2>6 DEF Whole
    <2> QED
      BY <2>4, <2>7 DEF Swap!Next, Swap!Swap
  <1>2. CASE ~patchText
    <2>1. Steady /\ \A f \in F : jump[f] \in Low
      BY <1>2, SteadyStep DEF ReloadInv, SlotsExact
    <2>2. [f \in F |-> mem[jump[f]][f]]' = [f \in F |-> mem[jump[f]][f]]
      BY <2>1 DEF Steady
    <2>3. ASSUME NEW f \in F, NEW v \in Ver, Edit(f, v) PROVE Swap!Next
      BY TypeStep, <2>2, <2>3 DEF Edit, TypeInv, TypeOK, Tree, Swap!Next, Swap!Edit
    <2>4. ASSUME NEW extra \in SUBSET (F \ Changed), deliver(extra) PROVE Swap!Next
      BY <2>2, <2>4 DEF deliver, edVars, Swap!Next, Swap!Build
    <2>5. CASE src' = src /\ built' = built
      BY <2>2, <2>5 DEF Swap!vars
    <2>6. \/ src' = src /\ built' = built
          \/ \E f \in F, v \in Ver : Edit(f, v)
          \/ \E extra \in SUBSET (F \ Changed) : deliver(extra)
      BY DEF Next, Watcher, Agent, Program, Start, Snapshot, Tick, ReloadFails, WriteRequest,
             Confirmed, Failed, TimedOut, serve, CommitFails, addModule, patchText, PatchRefused,
             Call, Ret, Step, Exit, handshake, CopyIn, edVars, vars
    <2> QED
      BY <2>3, <2>4, <2>5, <2>6
  <1> QED
    BY <1>1, <1>2

(* Swaps: when no answer comes late, the program, the watcher and the agent *)
(* implement HotSwap.  Whatever is reloaded, refused or timed out, a call   *)
(* through an entry runs the code of one tree that was built, and goes over *)
(* to the next as a whole.                                                  *)
THEOREM SwapsWhole ==
    ASSUME InTime
    PROVE  Spec => Swaps
  <1>1. Init => Swap!Init
    <2> SUFFICES ASSUME Init PROVE Swap!Init
      OBVIOUS
    <2>1. src \in [F -> Ver] /\ built = {src}
      BY ConstAssumption DEF Init
    <2>2. [f \in F |-> mem[jump[f]][f]] = src
      BY TypeInit, ReloadInit, CodeIs DEF Init, CurrentTree
    <2> QED
      BY <2>1, <2>2 DEF Swap!Init
  <1>2. TypeInv /\ ReloadInv /\ [Next]_vars => [Swap!Next]_(Swap!vars)
    BY SwapStep
  <1> QED
    BY <1>1, <1>2, Reloads, PTL DEF Spec, Swaps, Swap!Spec

(* The rounds of Bodies stay within every set that has the entries' bodies  *)
(* and is closed under calls.                                               *)
LEMMA BodiesWithin ==
    ASSUME TypeInv, NEW X \in SUBSET [slot : 0 .. Slots, f : F],
           \A f \in F : Target(0, f) \in X,
           \A x \in X : \A c \in Calls[x.f] : Target(x.slot, c) \in X
    PROVE  Bodies \subseteq X
  <1> DEFINE N == Cardinality(F)
             Round(q) == q \cup UNION {{Target(x.slot, c) : c \in Calls[x.f]} : x \in q}
             Start0 == {Target(0, f) : f \in F}
             IsB(b) == b = [n \in 0 .. N |-> IF n = 0 THEN Start0 ELSE Round(b[n - 1])]
             step == [q \in SUBSET X |-> Round(q)]
             R == CHOOSE b : IsB(b)
  <1>0. N \in Nat
    BY ConstAssumption, FS_CardinalityType
  <1>1. Start0 \in SUBSET X
    OBVIOUS
  <1>2. \A q \in SUBSET X : Round(q) \in SUBSET X
    OBVIOUS
  <1>3. Bodies = R[N]
    BY DEF Bodies
  <1> HIDE DEF N, Round, Start0
  <1>4. step \in [SUBSET X -> SUBSET X]
    BY <1>2
  <1> HIDE DEF step
  <1>5. PICK b \in [0 .. N -> SUBSET X] :
           \A n \in 0 .. N : b[n] = IF n = 0 THEN Start0 ELSE step[b[n - 1]]
    <2>1. Recursive(N, SUBSET X, Start0, step)
      BY <1>0, <1>1, <1>4, Recursion
    <2> QED
      BY <2>1 DEF Recursive
  <1>6. ASSUME NEW n \in 0 .. N, n # 0 PROVE step[b[n - 1]] = Round(b[n - 1])
    <2>1. n - 1 \in 0 .. N
      BY <1>0, <1>6
    <2> QED
      BY <2>1 DEF step
  <1>7. \A n \in 0 .. N : b[n] = IF n = 0 THEN Start0 ELSE Round(b[n - 1])
    BY <1>5, <1>6
  <1>8. IsB(b)
    BY <1>5, <1>7
  <1> HIDE DEF IsB
  <1>9. IsB(R)
    BY <1>8
  <1> HIDE DEF R
  <1>10. R[0] = Start0 /\ \A n \in 0 .. N - 1 : R[n + 1] = Round(R[n])
    <2>1. \A n \in 0 .. N : R[n] = IF n = 0 THEN Start0 ELSE Round(R[n - 1])
      BY <1>9 DEF IsB
    <2> QED
      BY <1>0, <2>1
  <1>11. 0 .. N \subseteq {n \in 0 .. N : R[n] \in SUBSET X}
    <2> DEFINE T == {n \in 0 .. N : R[n] \in SUBSET X}
    <2>1. 0 \in T /\ \A n \in 0 .. N - 1 : n \in T => n + 1 \in T
      BY <1>0, <1>1, <1>2, <1>10
    <2> HIDE DEF T
    <2>2. 0 .. N \subseteq T
      BY <1>0, <2>1, UpTo
    <2> QED
      BY <2>2 DEF T
  <1>12. R[N] \in SUBSET X
    BY <1>0, <1>11
  <1> QED
    BY <1>3, <1>12

(* CallsCurrent: when no answer comes late and the watcher is between       *)
(* reloads, every body that a call through an entry reaches, directly or    *)
(* through calls, is of the version the record names, however the functions *)
(* call each other.                                                         *)
THEOREM RecordRuns ==
    ASSUME InTime
    PROVE  Spec => []CallsCurrent
  <1>1. ASSUME TypeInv, ReloadInv PROVE CallsCurrent
    <2> SUFFICES ASSUME wpc = "loop", NEW x \in Bodies PROVE mem[x.slot][x.f] = record[x.f]
      BY DEF CallsCurrent
    <2>1. PICK X \in SUBSET [slot : Low, f : F] : ClosedCurrent(X)
      BY <1>1 DEF ReloadInv, CodeExact
    <2>2. X \in SUBSET [slot : 0 .. Slots, f : F]
      BY <2>1 DEF Low
    <2>3. Bodies \subseteq X
      BY <1>1, <2>1, <2>2, BodiesWithin DEF ClosedCurrent
    <2>4. CurrentTree = record
      BY DEF CurrentTree, Applied
    <2> QED
      BY <2>1, <2>3, <2>4 DEF ClosedCurrent
  <1> QED
    BY <1>1, Reloads, PTL

=============================================================================
