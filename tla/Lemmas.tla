------------------------------ MODULE Lemmas ------------------------------
(***************************************************************************)
(* Facts that the proofs about several modules need.                       *)
(*                                                                         *)
(* First induction over the natural numbers, and the existence of recursive*)
(* functions, in a form without operator parameters: a property is the set *)
(* of the numbers that have it, and the step of a recursion a function.    *)
(* The proofs about recursive definitions rest on these two.  Then the     *)
(* cardinality of finite sets, for counts that are numbers of references.  *)
(***************************************************************************)
EXTENDS Integers, FiniteSetTheorems, WellFoundedInduction, TLAPS

(* The order of the library's theorem, spelled out. *)
LEMMA LessThanIs == OpToRel(<, Nat) = {ss \in Nat \X Nat : ss[1] < ss[2]}
  BY Zenon DEF OpToRel

(* A set of numbers that is not empty has a least member. *)
LEMMA LeastMember ==
    ASSUME NEW T, T \subseteq Nat, T # {}
    PROVE  \E n \in T : \A m \in T : n <= m
  <1>1. PICK n \in T : \A m \in T : ~(<<m, n>> \in OpToRel(<, Nat))
    BY WFMin, NatLessThanWellFounded
  <1>2. \A m \in T : <<m, n>> \notin {ss \in Nat \X Nat : ss[1] < ss[2]}
    BY <1>1, LessThanIs, Zenon
  <1>3. ASSUME NEW m \in T PROVE n <= m
    <2>1. n \in Nat /\ m \in Nat
      OBVIOUS
    <2>2. <<m, n>> \in Nat \X Nat /\ <<m, n>>[1] = m /\ <<m, n>>[2] = n
      BY <2>1
    <2>3. ~(m < n)
      BY <1>2, <2>2
    <2> QED
      BY <2>1, <2>3
  <1> QED
    BY <1>3

(* A set with 0 and the successor of each of its numbers below N has all the *)
(* numbers up to N.                                                          *)
LEMMA UpTo ==
    ASSUME NEW N \in Nat, NEW T, 0 \in T, \A n \in 0 .. N - 1 : n \in T => n + 1 \in T
    PROVE  0 .. N \subseteq T
  <1> DEFINE U == (0 .. N) \ T
  <1> SUFFICES ASSUME U # {} PROVE FALSE
    OBVIOUS
  <1>1. PICK n \in U : \A m \in U : n <= m
    <2>1. U \subseteq Nat
      OBVIOUS
    <2> QED
      BY <2>1, LeastMember
  <1>2. n - 1 \in 0 .. N - 1 /\ n - 1 \notin U
    BY <1>1
  <1>3. n - 1 + 1 \in T
    BY <1>2
  <1> QED
    BY <1>1, <1>3

(* There is a function on 0 .. N that starts at b and goes on by step. *)
Recursive(N, A, b, step) ==
    \E f \in [0 .. N -> A] : \A n \in 0 .. N : f[n] = IF n = 0 THEN b ELSE step[f[n - 1]]

(* A recursion that starts at b and goes on by step defines a function. *)
LEMMA Recursion ==
    ASSUME NEW N \in Nat, NEW A, NEW b \in A, NEW step \in [A -> A]
    PROVE  Recursive(N, A, b, step)
  <1> DEFINE Upto(k) == \E f \in [0 .. k -> A] :
                          \A n \in 0 .. k : f[n] = IF n = 0 THEN b ELSE step[f[n - 1]]
             T == {k \in 0 .. N : Upto(k)}
  <1>1. 0 \in T
    <2> DEFINE g == [n \in 0 .. 0 |-> b]
    <2>1. g \in [0 .. 0 -> A] /\ \A n \in 0 .. 0 : n = 0 /\ g[n] = b
      OBVIOUS
    <2>2. Upto(0)
      BY <2>1
    <2> QED
      BY <2>2
  <1>2. ASSUME NEW k \in 0 .. N - 1, k \in T PROVE k + 1 \in T
    <2>1. PICK f \in [0 .. k -> A] :
             \A n \in 0 .. k : f[n] = IF n = 0 THEN b ELSE step[f[n - 1]]
      BY <1>2
    <2> DEFINE g == [n \in 0 .. k + 1 |-> IF n = k + 1 THEN step[f[k]] ELSE f[n]]
    <2>2. g \in [0 .. k + 1 -> A]
      OBVIOUS
    <2>3. \A n \in 0 .. k + 1 : g[n] = IF n = 0 THEN b ELSE step[g[n - 1]]
      BY <2>1
    <2>4. Upto(k + 1)
      BY <2>2, <2>3
    <2> QED
      BY <2>4
  <1>3. N \in T
    <2> HIDE DEF T
    <2> QED
      BY <1>1, <1>2, UpTo
  <1> QED
    BY <1>3 DEF Recursive
-----------------------------------------------------------------------------
(* Finite sets.                                                             *)

(* Two sets that differ at most in x. *)
LEMMA SetCard ==
    ASSUME NEW S, IsFiniteSet(S), NEW T, NEW x, T \ {x} = S \ {x}
    PROVE  /\ IsFiniteSet(T) /\ Cardinality(T) \in Nat /\ Cardinality(S) \in Nat
           /\ Cardinality(T) = Cardinality(S) + (IF x \in T THEN 1 ELSE 0) - (IF x \in S THEN 1 ELSE 0)
  <1>1. IsFiniteSet(S \ {x}) /\ Cardinality(S \ {x}) = IF x \in S THEN Cardinality(S) - 1 ELSE Cardinality(S)
    BY FS_RemoveElement
  <1>2. CASE x \in T
    <2>1. T = (S \ {x}) \cup {x}
      BY <1>2
    <2>2. IsFiniteSet(T) /\ Cardinality(T) = Cardinality(S \ {x}) + 1
      BY <1>1, <2>1, FS_AddElement
    <2> QED
      BY <1>1, <1>2, <2>2, FS_CardinalityType
  <1>3. CASE x \notin T
    <2>1. T = S \ {x}
      BY <1>3
    <2> QED
      BY <1>1, <1>3, <2>1, FS_CardinalityType
  <1> QED
    BY <1>2, <1>3

(* Tagging the members of a set keeps its cardinality. *)
LEMMA TagCard ==
    ASSUME NEW S, IsFiniteSet(S), NEW tag
    PROVE  LET T == {<<tag, x>> : x \in S} IN IsFiniteSet(T) /\ Cardinality(T) = Cardinality(S)
  <1> DEFINE T == {<<tag, x>> : x \in S}
             f == [x \in S |-> <<tag, x>>]
  <1>1. f \in [S -> T] /\ (\A a, b \in S : f[a] = f[b] => a = b) /\ (\A t \in T : \E x \in S : f[x] = t)
    OBVIOUS
  <1> HIDE DEF f, T
  <1>2. f \in Bijection(S, T)
    BY <1>1 DEF Bijection, Injection, Surjection, IsInjective
  <1>3. ExistsBijection(S, T)
    BY <1>2 DEF ExistsBijection
  <1>4. IsFiniteSet(T) /\ Cardinality(T) = Cardinality(S)
    BY <1>3, FS_Bijection
  <1> QED
    BY <1>4 DEF T

(* A finite chain: each member but the first is the successor of one other, so *)
(* one member has its successor outside.                                       *)
LEMMA ChainEnd ==
    ASSUME NEW D, IsFiniteSet(D), NEW o \in D, NEW f,
           \A x \in D : x # o => \E y \in D : f[y] = x,
           \A y, z \in D : f[y] = f[z] /\ f[y] \in D => y = z,
           \A y \in D : f[y] # o
    PROVE  \E e \in D : \A y \in D : f[y] \notin D <=> y = e
  <1> DEFINE E == {z \in D : f[z] \in D}
             F == [z \in E |-> f[z]]
             T == D \ {o}
  <1>1. F \in [E -> T] /\ (\A a, b \in E : F[a] = F[b] => a = b) /\ (\A t \in T : \E x \in E : F[x] = t)
    OBVIOUS
  <1>2. E \in SUBSET D
    OBVIOUS
  <1> HIDE DEF E, F, T
  <1>3. F \in Bijection(E, T)
    BY <1>1 DEF Bijection, Injection, Surjection, IsInjective
  <1>4. ExistsBijection(E, T)
    BY <1>3 DEF ExistsBijection
  <1>5. IsFiniteSet(E)
    BY <1>2, FS_Subset
  <1>6. Cardinality(T) = Cardinality(E)
    BY <1>4, <1>5, FS_Bijection
  <1>7. Cardinality(T) = Cardinality(D) - 1
    BY FS_RemoveElement DEF T
  <1>8. IsFiniteSet(D \ E) /\ Cardinality(D \ E) = Cardinality(D) - Cardinality(D \cap E)
    BY FS_Difference
  <1>9. D \cap E = E
    BY <1>2
  <1>10. Cardinality(D) \in Nat /\ Cardinality(E) \in Nat
    BY <1>5, FS_CardinalityType
  <1>a. Cardinality(D \ E) = Cardinality(D) - Cardinality(E)
    BY <1>8, <1>9
  <1>11. Cardinality(D \ E) = 1
    BY <1>6, <1>7, <1>a, <1>10
  <1>12. \E e : D \ E = {e}
    BY <1>8, <1>11, FS_Singleton
  <1>13. PICK e : D \ E = {e}
    BY <1>12
  <1>14. e \in D /\ \A y \in D : f[y] \notin D <=> y = e
    BY <1>13 DEF E
  <1> QED
    BY <1>14
=============================================================================
