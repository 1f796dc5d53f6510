------------------------------ MODULE Induction ------------------------------
(***************************************************************************)
(* Induction for the proofs of this project, over sets of numbers instead  *)
(* of predicates, and what it gives for a loop over a sequence: the values *)
(* that its accumulator takes one after the other.                         *)
(***************************************************************************)
EXTENDS Naturals, FiniteSetsExt, WellFoundedInduction, TLAPS

(* Induction over a set of numbers: a set that holds n whenever it holds   *)
(* everything below n holds every number.                                  *)
LEMMA AllNumbers ==
  ASSUME NEW T, \A n \in Nat : 0..(n - 1) \subseteq T => n \in T
  PROVE  Nat \subseteq T
<1> DEFINE R == OpToRel(<, Nat)
           U == {n \in Nat : n \notin T}
<1>1. IsWellFoundedOn(R, Nat)
  BY NatLessThanWellFounded
<1>2. \A i, j \in Nat : <<i, j>> \in R <=> i < j
  BY DEF OpToRel
<1> HIDE DEF R
<1>3. SUFFICES ASSUME U # {} PROVE FALSE
  OBVIOUS
<1>4. PICK x \in U : \A y \in U : ~ (<<y, x>> \in R)
  BY <1>1, <1>3, WFMin
<1>5. \A y \in U : ~ (y < x)
  BY <1>4, <1>2
<1>6. 0..(x - 1) \subseteq T
  BY <1>5
<1> QED BY <1>4, <1>6

(* A set that holds 0 and with n also n + 1 holds every number. *)
LEMMA NextNumbers ==
  ASSUME NEW T, 0 \in T, \A n \in Nat : n \in T => n + 1 \in T
  PROVE  Nat \subseteq T
<1>1. ASSUME NEW n \in Nat, 0..(n - 1) \subseteq T PROVE n \in T
  <2>1. CASE n = 0
    BY <2>1
  <2>2. CASE n # 0
    <3>1. n - 1 \in Nat /\ n - 1 \in 0..(n - 1) /\ (n - 1) + 1 = n
      BY <2>2
    <3> QED BY <3>1, <1>1
  <2> QED BY <2>1, <2>2
<1> QED BY <1>1, AllNumbers

(* Every nonempty set of numbers has a smallest one. *)
LEMMA Smallest ==
  ASSUME NEW S, S \subseteq Nat, S # {}
  PROVE  \E x \in S : \A y \in S : x <= y
<1> DEFINE T == {n \in Nat : n \notin S}
<1> SUFFICES ASSUME \A x \in S : \E y \in S : ~ (x <= y) PROVE FALSE
  OBVIOUS
<1>1. ASSUME NEW n \in Nat, 0..(n - 1) \subseteq T PROVE n \in T
  BY <1>1
<1>2. Nat \subseteq T
  BY <1>1, AllNumbers
<1> QED BY <1>2

-----------------------------------------------------------------------------
(* Loops.  A fold over a sequence of length n is a recursive function on   *)
(* the sets of its positions, which takes the largest position last.       *)

LEMMA LargestOf ==
  ASSUME NEW k \in Nat, NEW s, s \subseteq 1..k, k \in s
  PROVE  Max(s) = k
<1>1. \A y \in s : k >= y
  OBVIOUS
<1>2. \A x \in s : (\A y \in s : x >= y) => x = k
  OBVIOUS
<1> QED BY <1>1, <1>2 DEF Max

LEMMA LargestBelow ==
  ASSUME NEW k \in Nat, NEW s, s \subseteq 1..k, s # {}
  PROVE  Max(s) \in s /\ \A y \in s : y <= Max(s)
<1> DEFINE T == {m \in Nat : m <= k => \A u \in SUBSET (1..m) :
                   u # {} => \E x \in u : \A y \in u : x >= y}
<1>1. 0 \in T
  <2>1. 1..0 = {} /\ \A u \in SUBSET {} : u = {}
    OBVIOUS
  <2> QED BY <2>1
<1>2. ASSUME NEW m \in Nat, m \in T PROVE m + 1 \in T
  <2> SUFFICES ASSUME m + 1 <= k, NEW u \in SUBSET (1..(m + 1)), u # {}
               PROVE  \E x \in u : \A y \in u : x >= y
    OBVIOUS
  <2>1. CASE m + 1 \in u
    BY <2>1
  <2>2. CASE m + 1 \notin u
    <3>1. u \subseteq 1..m /\ m <= k
      BY <2>2
    <3> QED BY <3>1, <1>2
  <2> QED BY <2>1, <2>2
<1>3. Nat \subseteq T
  <2> HIDE DEF T
  <2> QED BY <1>1, <1>2, NextNumbers
<1>4. \E x \in s : \A y \in s : x >= y
  BY <1>3
<1>5. Max(s) \in s /\ \A y \in s : Max(s) >= y
  BY <1>4 DEF Max
<1> QED BY <1>5

(* There is such a function, for every step that stays in a set V.         *)
LEMMA FoldExists ==
  ASSUME NEW V, NEW base \in V, NEW n \in Nat, NEW step \in [V \X (1..n) -> V]
  PROVE  \E f \in [SUBSET (1..n) -> V] : \A s \in SUBSET (1..n) :
           /\ f[s] = IF s = {} THEN base ELSE step[<<f[s \ {Max(s)}], Max(s)>>]
           /\ s # {} => <<f[s \ {Max(s)}], Max(s)>> \in V \X (1..n)
<1> DEFINE Fold(f, m) ==
             /\ f \in [SUBSET (1..m) -> V]
             /\ \A s \in SUBSET (1..m) :
                  f[s] = IF s = {} THEN base ELSE step[<<f[s \ {Max(s)}], Max(s)>>]
           T == {m \in Nat : m <= n => \E f : Fold(f, m)}
<1>1. 0 \in T
  <2>1. Fold([s \in SUBSET (1..0) |-> base], 0)
    OBVIOUS
  <2> QED BY <2>1
<1>2. ASSUME NEW m \in Nat, m \in T PROVE m + 1 \in T
  <2> SUFFICES ASSUME m + 1 <= n PROVE \E f : Fold(f, m + 1)
    <3> HIDE DEF Fold
    <3> QED OBVIOUS
  <2>1. PICK f : Fold(f, m)
    <3> HIDE DEF Fold
    <3> QED BY <1>2
  <2> DEFINE h == [s \in SUBSET (1..(m + 1)) |->
                     IF m + 1 \in s THEN step[<<f[s \ {m + 1}], m + 1>>] ELSE f[s]]
  <2>2. ASSUME NEW s \in SUBSET (1..(m + 1)), m + 1 \in s
        PROVE  /\ Max(s) = m + 1 /\ s # {} /\ h[s] \in V
               /\ h[s] = step[<<h[s \ {m + 1}], m + 1>>]
    <3>1. Max(s) = m + 1
      <4>1. m + 1 \in Nat /\ s \subseteq 1..(m + 1)
        OBVIOUS
      <4> QED BY <4>1, <2>2, LargestOf
    <3>2. s \ {m + 1} \in SUBSET (1..m) /\ m + 1 \in 1..n
      OBVIOUS
    <3>3. f[s \ {m + 1}] \in V /\ h[s \ {m + 1}] = f[s \ {m + 1}]
      BY <2>1, <3>2
    <3>4. h[s] = step[<<f[s \ {m + 1}], m + 1>>]
      BY <2>2
    <3> QED BY <2>2, <3>1, <3>2, <3>3, <3>4
  <2>3. ASSUME NEW s \in SUBSET (1..(m + 1)), m + 1 \notin s
        PROVE  /\ h[s] \in V
               /\ h[s] = IF s = {} THEN base ELSE step[<<h[s \ {Max(s)}], Max(s)>>]
    <3>1. s \in SUBSET (1..m) /\ h[s] = f[s]
      BY <2>3
    <3>2. s # {} => Max(s) \in s
      BY <3>1, LargestBelow
    <3>3. h[s \ {Max(s)}] = f[s \ {Max(s)}]
      BY <2>3
    <3> QED BY <2>1, <3>1, <3>2, <3>3
  <2>4. h \in [SUBSET (1..(m + 1)) -> V]
    <3>1. \A s \in SUBSET (1..(m + 1)) : h[s] \in V
      BY <2>2, <2>3
    <3> QED BY <3>1
  <2>5. \A s \in SUBSET (1..(m + 1)) :
          h[s] = IF s = {} THEN base ELSE step[<<h[s \ {Max(s)}], Max(s)>>]
    BY <2>2, <2>3
  <2> HIDE DEF h
  <2>6. Fold(h, m + 1)
    BY <2>4, <2>5
  <2> QED BY <2>6
<1>3. Nat \subseteq T
  <2> HIDE DEF T
  <2> QED BY <1>1, <1>2, NextNumbers
<1>4. \E f : Fold(f, n)
  <2> HIDE DEF Fold
  <2>1. n \in T /\ n <= n
    BY <1>3
  <2> QED BY <2>1
<1>5. PICK f : Fold(f, n)
  BY <1>4
<1>6. ASSUME NEW s \in SUBSET (1..n), s # {}
      PROVE  <<f[s \ {Max(s)}], Max(s)>> \in V \X (1..n)
  <2>1. Max(s) \in s
    BY <1>6, LargestBelow
  <2> QED BY <2>1, <1>5
<1> QED BY <1>5, <1>6

(* The first k positions are the k-th and the k - 1 before it.             *)
LEMMA FirstPositions ==
  ASSUME NEW n \in Nat, NEW k \in 1..n
  PROVE  /\ (1..k) \in SUBSET (1..n) /\ (1..k) # {}
         /\ Max(1..k) = k /\ (1..k) \ {k} = 1..(k - 1)
<1>1. Max(1..k) = k
  BY LargestOf
<1> QED BY <1>1
(* What a loop does: its accumulator takes the values g[0], ..., g[n]; f    *)
(* obeys the recursion of a fold, and every function that obeys it ends in *)
(* g[n].                                                                   *)
Runs(g, f, V, base, n, step) ==
  /\ g \in [0..n -> V] /\ f \in [SUBSET (1..n) -> V]
  /\ g[0] = base
  /\ \A k \in 1..n : g[k - 1] \in V /\ g[k] = step[<<g[k - 1], k>>]
  /\ \A u \in SUBSET (1..n) :
       /\ f[u] = IF u = {} THEN base ELSE step[<<f[u \ {Max(u)}], Max(u)>>]
       /\ u # {} => f[u \ {Max(u)}] \in V /\ Max(u) \in 1..n
  /\ \A h : (/\ h[{}] = base
             /\ \A k \in 1..n : h[1..(k - 1)] \in V => h[1..k] = step[<<h[1..(k - 1)], k>>])
            => h[1..n] = g[n]

LEMMA Loop ==
  ASSUME NEW V, NEW base \in V, NEW n \in Nat, NEW step \in [V \X (1..n) -> V]
  PROVE  \E g, f : Runs(g, f, V, base, n, step)
<1>1. PICK f \in [SUBSET (1..n) -> V] : \A u \in SUBSET (1..n) :
        /\ f[u] = IF u = {} THEN base ELSE step[<<f[u \ {Max(u)}], Max(u)>>]
        /\ u # {} => <<f[u \ {Max(u)}], Max(u)>> \in V \X (1..n)
  BY FoldExists
<1> DEFINE g == [k \in 0..n |-> f[1..k]]
<1>2. 1..0 = {} /\ \A k \in 0..n : (1..k) \in SUBSET (1..n)
  OBVIOUS
<1>3. g \in [0..n -> V] /\ g[0] = base
  <2>1. \A k \in 0..n : f[1..k] \in V
    BY <1>1, <1>2
  <2>2. f[{}] = base
    BY <1>1
  <2>3. 0 \in 0..n
    OBVIOUS
  <2> QED BY <2>1, <2>2, <2>3, <1>2
<1>4. ASSUME NEW k \in 1..n PROVE g[k - 1] \in V /\ g[k] = step[<<g[k - 1], k>>]
  <2>1. k - 1 \in 0..n /\ k \in 0..n
    OBVIOUS
  <2>2. f[1..k] = step[<<f[1..(k - 1)], k>>]
    BY <1>1, FirstPositions
  <2> QED BY <2>1, <2>2, <1>3
<1>5. ASSUME NEW u \in SUBSET (1..n), u # {} PROVE f[u \ {Max(u)}] \in V /\ Max(u) \in 1..n
  BY <1>1, <1>5
<1> HIDE DEF g
<1>6. ASSUME NEW h, h[{}] = base,
             \A k \in 1..n : h[1..(k - 1)] \in V => h[1..k] = step[<<h[1..(k - 1)], k>>]
      PROVE  h[1..n] = g[n]
  <2> DEFINE T == {k \in Nat : k <= n => h[1..k] = g[k]}
  <2>1. 0 \in T
    BY <1>2, <1>3, <1>6
  <2>2. ASSUME NEW k \in Nat, k \in T PROVE k + 1 \in T
    <3> SUFFICES ASSUME k + 1 <= n PROVE h[1..(k + 1)] = g[k + 1]
      OBVIOUS
    <3>1. k + 1 \in 1..n /\ (k + 1) - 1 = k /\ h[1..k] = g[k]
      BY <2>2
    <3>2. g[k] \in V /\ g[k + 1] = step[<<g[k], k + 1>>]
      BY <3>1, <1>4
    <3>3. h[1..((k + 1) - 1)] \in V => h[1..(k + 1)] = step[<<h[1..((k + 1) - 1)], k + 1>>]
      BY <3>1, <1>6
    <3> QED BY <3>1, <3>2, <3>3
  <2> HIDE DEF T
  <2>3. n \in T
    BY <2>1, <2>2, NextNumbers
  <2> QED BY <2>3 DEF T
<1>7. Runs(g, f, V, base, n, step)
  BY <1>1, <1>3, <1>4, <1>5, <1>6 DEF Runs
<1> QED BY <1>7
=============================================================================
