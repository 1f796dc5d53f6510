------------------------- MODULE HistoryIndexProofs -------------------------
(***************************************************************************)
(* Proofs about HistoryIndex: however the pipe cuts git's output, the      *)
(* scanner finds the commits in it, and the index and its answers hold     *)
(* each of them as often as they should.                                   *)
(***************************************************************************)
EXTENDS HistoryIndex, Induction, FiniteSetTheorems, SequenceTheorems

(* What git writes, position by position.                                  *)

Piece == [commit: Nat, part: Nat]

Pieces(l, pass, i) == l[i].message + (IF pass = "manifests" THEN l[i].patch ELSE 0)

(* Commit k stands in s behind its first c pieces.                         *)
Stands(l, pass, k, s, c) ==
  s[c + 1] = Nul /\ \A p \in 1..Pieces(l, pass, k) : s[c + 1 + p] = [commit |-> k, part |-> p]

(* a[k] pieces belong to the first k commits.                              *)
Layout(l, pass, a) ==
  /\ Output(l, pass) \in Seq(Piece)
  /\ a \in [0..Len(l) -> Nat] /\ a[0] = 0 /\ a[Len(l)] = Len(Output(l, pass))
  /\ \A k \in 1..Len(l) :
       /\ Written(l, pass, k) =>
            /\ a[k] = a[k - 1] + 1 + Pieces(l, pass, k)
            /\ Stands(l, pass, k, Output(l, pass), a[k - 1])
       /\ ~Written(l, pass, k) => a[k] = a[k - 1]

LEMMA LogTypes ==
  ASSUME NEW l \in Logs
  PROVE  /\ l \in Seq(Range(l)) /\ Len(l) \in Nat /\ DOMAIN l = 1..Len(l)
         /\ \A i \in 1..Len(l) : /\ l[i].mentions \subseteq Names /\ l[i].changes \subseteq Names
                                /\ l[i].manifest \in BOOLEAN
BY HistoryAssumption

LEMMA RecordFacts ==
  ASSUME NEW l \in Logs, NEW pass, NEW i \in 1..Len(l)
  PROVE  /\ Pieces(l, pass, i) \in Nat \ {0}
         /\ Record(l, pass, i) \in Seq(Piece) /\ Len(Record(l, pass, i)) = Pieces(l, pass, i)
         /\ \A p \in 1..Pieces(l, pass, i) : Record(l, pass, i)[p] = [commit |-> i, part |-> p]
<1>1. Len(l) \in Nat /\ l[i].message \in Nat \ {0} /\ l[i].patch \in Nat
  BY LogTypes, HistoryAssumption
<1>2. Pieces(l, pass, i) \in Nat \ {0}
  BY <1>1 DEF Pieces
<1>3. Record(l, pass, i) = [p \in 1..Pieces(l, pass, i) |-> [commit |-> i, part |-> p]]
  BY Zenon DEF Record, Pieces
<1>4. \A p \in 1..Pieces(l, pass, i) : [commit |-> i, part |-> p] \in Piece
  BY <1>1, <1>2 DEF Piece
<1> QED BY <1>2, <1>3, <1>4

(* One more commit. *)
LEMMA WrittenText ==
  ASSUME NEW l \in Logs, NEW pass, NEW out \in Seq(Piece), NEW i \in 1..Len(l)
  PROVE  LET t == out \o <<Nul>> \o Record(l, pass, i)
         IN /\ t \in Seq(Piece) /\ Len(t) = Len(out) + 1 + Pieces(l, pass, i)
            /\ \A q \in 1..Len(out) : t[q] = out[q]
            /\ Stands(l, pass, i, t, Len(out))
<1> DEFINE u == out \o <<Nul>>
           r == Record(l, pass, i)
           t == u \o r
<1>1. /\ r \in Seq(Piece) /\ Len(r) = Pieces(l, pass, i) /\ Pieces(l, pass, i) \in Nat
      /\ \A p \in 1..Pieces(l, pass, i) : r[p] = [commit |-> i, part |-> p]
  BY RecordFacts
<1>2. Nul \in Piece
  BY DEF Nul, Piece
<1>3. /\ u \in Seq(Piece) /\ Len(u) = Len(out) + 1 /\ u[Len(out) + 1] = Nul
      /\ \A q \in 1..Len(out) : u[q] = out[q]
  BY <1>2
<1> HIDE DEF u, r
<1>4. /\ t \in Seq(Piece) /\ Len(t) = Len(u) + Len(r)
      /\ \A q \in 1..Len(u) : t[q] = u[q]
      /\ \A p \in 1..Len(r) : t[Len(u) + p] = r[p]
  <2>1. u \in Seq(Piece) /\ r \in Seq(Piece)
    BY <1>1, <1>3
  <2>2. /\ t \in Seq(Piece) /\ Len(t) = Len(u) + Len(r)
        /\ \A q \in 1..(Len(u) + Len(r)) : t[q] = IF q <= Len(u) THEN u[q] ELSE r[q - Len(u)]
    BY ONLY <2>1, ConcatProperties
  <2>3. Len(u) \in Nat /\ Len(r) \in Nat
    BY <1>1, <1>3
  <2>4. ASSUME NEW p \in 1..Len(r) PROVE t[Len(u) + p] = r[p]
    <3>1. Len(u) + p \in 1..(Len(u) + Len(r)) /\ ~(Len(u) + p <= Len(u)) /\ (Len(u) + p) - Len(u) = p
      BY <2>3
    <3> QED BY <2>2, <3>1
  <2> QED BY <2>2, <2>3, <2>4
<1> HIDE DEF t
<1>5. /\ t \in Seq(Piece) /\ Len(t) = Len(out) + 1 + Pieces(l, pass, i)
      /\ \A q \in 1..Len(out) : t[q] = out[q]
      /\ t[Len(out) + 1] = Nul
      /\ \A p \in 1..Pieces(l, pass, i) : t[Len(out) + 1 + p] = [commit |-> i, part |-> p]
  <2>1. Len(out) \in Nat
    OBVIOUS
  <2>2. \A p \in 1..Len(r) : t[Len(out) + 1 + p] = r[p]
    BY <1>3, <1>4
  <2>3. \A q \in 1..Len(out) : q \in 1..Len(u)
    BY <2>1, <1>3
  <2>4. Len(out) + 1 \in 1..Len(u)
    BY <2>1, <1>3
  <2> QED BY <2>1, <2>2, <2>3, <2>4, <1>1, <1>3, <1>4
<1> QED BY <1>5 DEF t, u, r, Stands

(* The prefixes of the stream, commit by commit.                           *)
Growth(l, pass, g) ==
  /\ g \in [0..Len(l) -> Seq(Piece)] /\ g[0] = <<>> /\ Output(l, pass) = g[Len(l)]
  /\ \A k \in 1..Len(l) :
       g[k] = IF Written(l, pass, k) THEN g[k - 1] \o <<Nul>> \o Record(l, pass, k) ELSE g[k - 1]

LEMMA StreamGrows ==
  ASSUME NEW l \in Logs, NEW pass
  PROVE  \E g : Growth(l, pass, g)
<1> DEFINE n == Len(l)
           V == Seq(Piece)
           s == [i \in DOMAIN l |-> i]
           next(out, i) == IF Written(l, pass, i) THEN out \o <<Nul>> \o Record(l, pass, i) ELSE out
           step == [p \in V \X (1..n) |-> next(p[1], p[2])]
           Rec(f) == f = [u \in SUBSET (1..n) |-> IF u = {} THEN <<>>
                            ELSE next(f[u \ {Max(u)}], s[Max(u)])]
           iter == CHOOSE f : Rec(f)
<1>1. n \in Nat /\ DOMAIN l = 1..n /\ DOMAIN s = 1..n /\ \A k \in 1..n : s[k] = k
  BY LogTypes
<1>2. step \in [V \X (1..n) -> V]
  <2>1. ASSUME NEW out \in V, NEW k \in 1..n PROVE next(out, k) \in V
    BY WrittenText
  <2> HIDE DEF V, next, n
  <2> QED BY <2>1
<1>3. PICK g, f : Runs(g, f, V, <<>>, n, step)
  <2>1. <<>> \in V
    OBVIOUS
  <2> HIDE DEF step, n, V
  <2> QED BY <1>1, <1>2, <2>1, Loop
<1>4. Rec(f)
  <2> HIDE DEF next, n
  <2> QED BY <1>1, <1>3 DEF Runs
<1>5. Rec(iter)
  <2> HIDE DEF Rec
  <2> QED BY <1>4
<1>6. Output(l, pass) = iter[1..n]
  <2>1. Output(l, pass) = iter[DOMAIN s]
    BY <1>1, Zenon DEF Output, FoldLeftDomain, FoldLeft, MapThenFoldSet
  <2> QED BY <2>1, <1>1
<1> HIDE DEF iter, n, next, V, s
<1>7. iter[1..n] = g[n]
  <2>1. iter[{}] = <<>>
    BY <1>5
  <2>2. ASSUME NEW k \in 1..n, iter[1..(k - 1)] \in V
        PROVE  iter[1..k] = step[<<iter[1..(k - 1)], k>>]
    <3>1. /\ (1..k) \in SUBSET (1..n) /\ (1..k) # {}
          /\ Max(1..k) = k /\ (1..k) \ {k} = 1..(k - 1)
      BY <1>1, FirstPositions
    <3>2. iter[1..k] = next(iter[1..(k - 1)], s[k])
      BY <1>5, <3>1
    <3>3. step[<<iter[1..(k - 1)], k>>] = next(iter[1..(k - 1)], k)
      BY <2>2
    <3> QED BY <1>1, <3>2, <3>3
  <2> QED BY <2>1, <2>2, <1>3 DEF Runs
<1>8. /\ g \in [0..n -> V] /\ g[0] = <<>>
      /\ \A k \in 1..n : g[k - 1] \in V /\ g[k] = next(g[k - 1], k)
  BY <1>3 DEF Runs
<1>9. Growth(l, pass, g)
  BY <1>6, <1>7, <1>8 DEF Growth, n, V, next
<1> QED BY <1>9

LEMMA StreamHasLayout ==
  ASSUME NEW l \in Logs, NEW pass
  PROVE  \E a : Layout(l, pass, a)
<1>1. PICK g : Growth(l, pass, g)
  BY StreamGrows
<1>2. Len(l) \in Nat
  BY LogTypes
<1> DEFINE a == [k \in 0..Len(l) |-> Len(g[k])]
           Same(k) == Len(g[k]) <= Len(Output(l, pass)) /\ \A q \in 1..Len(g[k]) : Output(l, pass)[q] = g[k][q]
           T == {m \in Nat : m <= Len(l) => Same(Len(l) - m)}
<1>3. \A k \in 0..Len(l) : g[k] \in Seq(Piece) /\ Len(g[k]) \in Nat
  BY <1>1 DEF Growth
<1>4. ASSUME NEW k \in 1..Len(l)
      PROVE  /\ Pieces(l, pass, k) \in Nat
             /\ Written(l, pass, k) =>
                  /\ Len(g[k]) = Len(g[k - 1]) + 1 + Pieces(l, pass, k)
                  /\ \A q \in 1..Len(g[k - 1]) : g[k][q] = g[k - 1][q]
                  /\ Stands(l, pass, k, g[k], Len(g[k - 1]))
             /\ ~Written(l, pass, k) => g[k] = g[k - 1]
  <2>1. k - 1 \in 0..Len(l) /\ g[k - 1] \in Seq(Piece) /\ Pieces(l, pass, k) \in Nat
    BY <1>2, <1>3, RecordFacts
  <2>2. CASE Written(l, pass, k)
    <3> DEFINE out == g[k - 1]
               t == out \o <<Nul>> \o Record(l, pass, k)
    <3>1. g[k] = t
      BY <1>1, <2>2 DEF Growth
    <3>2. /\ Len(t) = Len(out) + 1 + Pieces(l, pass, k)
          /\ \A q \in 1..Len(out) : t[q] = out[q]
          /\ Stands(l, pass, k, t, Len(out))
      <4>1. out \in Seq(Piece)
        BY <2>1
      <4> HIDE DEF out
      <4> QED BY <4>1, WrittenText
    <3> HIDE DEF t
    <3> QED BY <2>1, <2>2, <3>1, <3>2
  <2>3. CASE ~Written(l, pass, k)
    BY <1>1, <2>1, <2>3 DEF Growth
  <2> QED BY <2>2, <2>3
<1>5. 0 \in T
  BY <1>1, <1>2, <1>3 DEF Growth
<1>6. ASSUME NEW m \in Nat, m \in T PROVE m + 1 \in T
  <2> SUFFICES ASSUME m + 1 <= Len(l) PROVE Same(Len(l) - (m + 1))
    BY <1>2
  <2> DEFINE k == Len(l) - m
  <2>1. k \in 1..Len(l) /\ k - 1 = Len(l) - (m + 1) /\ Same(k) /\ k - 1 \in 0..Len(l) /\ k \in 0..Len(l)
    BY <1>2, <1>6
  <2> HIDE DEF k
  <2>2. Len(g[k]) \in Nat /\ Len(g[k - 1]) \in Nat
    BY <2>1, <1>3
  <2>3. Len(g[k - 1]) <= Len(g[k]) /\ \A q \in 1..Len(g[k - 1]) : g[k][q] = g[k - 1][q]
    <3>1. CASE Written(l, pass, k)
      <4>1. /\ Len(g[k]) = Len(g[k - 1]) + 1 + Pieces(l, pass, k) /\ Pieces(l, pass, k) \in Nat
            /\ \A q \in 1..Len(g[k - 1]) : g[k][q] = g[k - 1][q]
        BY <2>1, <3>1, <1>4
      <4> QED BY <4>1, <2>2
    <3>2. CASE ~Written(l, pass, k)
      <4>1. g[k] = g[k - 1]
        BY <2>1, <3>2, <1>4
      <4> QED BY <4>1, <2>2
    <3> QED BY <3>1, <3>2
  <2>4. Len(Output(l, pass)) \in Nat
    BY <1>1, <1>2, <1>3 DEF Growth
  <2>5. Same(k - 1)
    BY <2>1, <2>2, <2>3, <2>4
  <2> QED BY <2>1, <2>5
<1>7. \A k \in 0..Len(l) : Same(k)
  <2>1. Nat \subseteq T
    <3> HIDE DEF T
    <3> QED BY <1>5, <1>6, NextNumbers
  <2>2. ASSUME NEW k \in 0..Len(l) PROVE Same(k)
    <3>1. Len(l) - k \in Nat /\ Len(l) - (Len(l) - k) = k /\ Len(l) - k <= Len(l)
      BY <1>2
    <3>2. Len(l) - k \in T
      BY <3>1, <2>1
    <3>3. Same(Len(l) - (Len(l) - k))
      BY <3>1, <3>2
    <3> HIDE DEF Same
    <3> QED BY <3>1, <3>3
  <2> QED BY <2>2
<1>8. Layout(l, pass, a)
  <2>1. /\ Output(l, pass) \in Seq(Piece)
        /\ a \in [0..Len(l) -> Nat] /\ a[0] = 0 /\ a[Len(l)] = Len(Output(l, pass))
    BY <1>1, <1>2, <1>3 DEF Growth
  <2>2. ASSUME NEW k \in 1..Len(l)
        PROVE  /\ Written(l, pass, k) => /\ a[k] = a[k - 1] + 1 + Pieces(l, pass, k)
                                         /\ Stands(l, pass, k, Output(l, pass), a[k - 1])
               /\ ~Written(l, pass, k) => a[k] = a[k - 1]
    <3>1. k \in 0..Len(l) /\ k - 1 \in 0..Len(l) /\ a[k] = Len(g[k]) /\ a[k - 1] = Len(g[k - 1])
      BY <1>2
    <3>2. Same(k) /\ Len(g[k]) \in Nat /\ Len(g[k - 1]) \in Nat
      BY <3>1, <1>3, <1>7
    <3> HIDE DEF a
    <3>3. CASE Written(l, pass, k)
      <4>1. /\ Len(g[k]) = Len(g[k - 1]) + 1 + Pieces(l, pass, k) /\ Pieces(l, pass, k) \in Nat
            /\ Stands(l, pass, k, g[k], Len(g[k - 1]))
        BY <3>3, <1>4
      <4>2. Len(g[k - 1]) + 1 \in 1..Len(g[k]) /\
            \A p \in 1..Pieces(l, pass, k) : Len(g[k - 1]) + 1 + p \in 1..Len(g[k])
        BY <3>2, <4>1
      <4>3. /\ Output(l, pass)[Len(g[k - 1]) + 1] = g[k][Len(g[k - 1]) + 1]
            /\ \A p \in 1..Pieces(l, pass, k) :
                 Output(l, pass)[Len(g[k - 1]) + 1 + p] = g[k][Len(g[k - 1]) + 1 + p]
        BY <4>2, <3>2
      <4>4. Stands(l, pass, k, Output(l, pass), Len(g[k - 1]))
        BY <4>1, <4>3 DEF Stands
      <4> QED BY <4>1, <4>4, <3>1, <3>3
    <3> QED BY <3>3, <3>1, <1>4
  <2> HIDE DEF a
  <2> QED BY <2>1, <2>2 DEF Layout
<1> QED BY <1>8

(* Commits that are not written take no room, the others do. *)
LEMMA LayoutGrows ==
  ASSUME NEW l \in Logs, NEW pass, NEW a, Layout(l, pass, a), NEW k \in 0..Len(l), NEW i \in k..Len(l)
  PROVE  /\ a[k] \in Nat /\ a[i] \in Nat /\ a[k] <= a[i]
         /\ (\A j \in (k + 1)..i : ~Written(l, pass, j)) => a[i] = a[k]
         /\ (\E j \in (k + 1)..i : Written(l, pass, j)) => a[k] < a[i]
<1>1. Len(l) \in Nat
  BY LogTypes
<1> DEFINE Still(m) == /\ a[k] <= a[m]
                       /\ (\A j \in (k + 1)..m : ~Written(l, pass, j)) => a[m] = a[k]
                       /\ (\E j \in (k + 1)..m : Written(l, pass, j)) => a[k] < a[m]
           T == {d \in Nat : k + d <= Len(l) => Still(k + d)}
<1>2. \A m \in 0..Len(l) : a[m] \in Nat
  BY DEF Layout
<1>3. 0 \in T
  BY <1>1, <1>2
<1>4. ASSUME NEW d \in Nat, d \in T PROVE d + 1 \in T
  <2> SUFFICES ASSUME k + (d + 1) <= Len(l) PROVE Still(k + (d + 1))
    OBVIOUS
  <2> DEFINE m == k + (d + 1)
  <2>1. m \in 1..Len(l) /\ m - 1 = k + d /\ m \in 0..Len(l) /\ m - 1 \in 0..Len(l) /\ k <= m - 1
    BY <1>1
  <2>2. Still(m - 1)
    BY <1>1, <1>4, <2>1
  <2>3. a[m] = IF Written(l, pass, m) THEN a[m - 1] + 1 + Pieces(l, pass, m) ELSE a[m - 1]
    BY <2>1 DEF Layout
  <2>4. Pieces(l, pass, m) \in Nat /\ a[m] \in Nat /\ a[m - 1] \in Nat /\ a[k] \in Nat
    BY <2>1, <1>2, RecordFacts
  <2>5. (k + 1)..m = ((k + 1)..(m - 1)) \cup {m}
    BY <1>1, <2>1
  <2> SUFFICES Still(m)
    OBVIOUS
  <2> HIDE DEF m
  <2>6. CASE Written(l, pass, m)
    <3>1. a[m - 1] < a[m] /\ a[k] <= a[m - 1]
      BY <2>2, <2>3, <2>4, <2>6
    <3>2. a[k] < a[m] /\ m \in (k + 1)..m
      BY <3>1, <2>1, <2>4
    <3> QED BY <3>2, <2>4, <2>6
  <2>7. CASE ~Written(l, pass, m)
    <3>1. a[m] = a[m - 1]
      BY <2>3, <2>7
    <3> QED BY <3>1, <2>2, <2>5, <2>7
  <2> QED BY <2>6, <2>7
<1>5. Still(i)
  <2>1. Nat \subseteq T
    <3> HIDE DEF T
    <3> QED BY <1>3, <1>4, NextNumbers
  <2>2. i - k \in Nat /\ k + (i - k) = i /\ i <= Len(l)
    BY <1>1
  <2>3. Still(k + (i - k))
    BY <2>1, <2>2
  <2> HIDE DEF Still
  <2> QED BY <2>2, <2>3
<1> QED BY <1>1, <1>2, <1>5

(* After the first k commits the stream goes on with the next one written. *)
LEMMA NextWritten ==
  ASSUME NEW l \in Logs, NEW pass, NEW a, Layout(l, pass, a), NEW k \in 0..Len(l), a[k] < Len(Output(l, pass))
  PROVE  \E m \in (k + 1)..Len(l) :
           Written(l, pass, m) /\ a[m - 1] = a[k] /\ \A j \in (k + 1)..(m - 1) : ~Written(l, pass, j)
<1>1. Len(l) \in Nat /\ Len(l) \in k..Len(l) /\ a[Len(l)] = Len(Output(l, pass))
  BY LogTypes DEF Layout
<1> DEFINE S == {j \in (k + 1)..Len(l) : Written(l, pass, j)}
<1>2. S # {}
  <2>1. a[k] \in Nat /\ a[Len(l)] \in Nat
        /\ ((\A j \in (k + 1)..Len(l) : ~Written(l, pass, j)) => a[Len(l)] = a[k])
    BY <1>1, LayoutGrows
  <2> QED BY <2>1, <1>1
<1>3. PICK m \in S : \A y \in S : m <= y
  <2>1. S \subseteq Nat
    BY <1>1
  <2> HIDE DEF S
  <2> QED BY <1>2, <2>1, Smallest
<1>4. /\ m \in (k + 1)..Len(l) /\ Written(l, pass, m) /\ m - 1 \in k..Len(l)
      /\ \A j \in (k + 1)..(m - 1) : ~Written(l, pass, j)
  BY <1>1, <1>3
<1>5. a[m - 1] = a[k]
  BY <1>4, LayoutGrows
<1> QED BY <1>4, <1>5

LEMMA NothingWritten ==
  ASSUME NEW l \in Logs, NEW pass, NEW a, Layout(l, pass, a), NEW k \in 0..Len(l), a[k] = Len(Output(l, pass))
  PROVE  \A j \in (k + 1)..Len(l) : ~Written(l, pass, j)
<1>1. Len(l) \in Nat /\ Len(l) \in k..Len(l) /\ a[Len(l)] = Len(Output(l, pass))
  BY LogTypes DEF Layout
<1>2. a[k] \in Nat /\ a[Len(l)] \in Nat
      /\ ((\E j \in (k + 1)..Len(l) : Written(l, pass, j)) => a[k] < a[Len(l)])
  BY <1>1, LayoutGrows
<1> QED BY <1>1, <1>2

-----------------------------------------------------------------------------
(* What the index holds after the first m commits.                         *)

Size == Len(log)

Entry == [commit: Nat, whole: BOOLEAN]
Excerpted == [commit: Nat, whole: BOOLEAN, changes: SUBSET Names]

NamedUpTo(m) ==
  \A n \in Names :
    /\ byName[n] \in Seq(Entry) /\ InOrder(byName[n])
    /\ \A k \in DOMAIN byName[n] : byName[n][k].commit <= m
    /\ \A i \in 1..m :
         Cardinality(Places(byName[n], i)) = IF Mentions(n, i) THEN Times(n) ELSE 0

ManifestUpTo(m) ==
  /\ manifest \in Seq(Excerpted) /\ InOrder(manifest)
  /\ \A k \in DOMAIN manifest :
       manifest[k].commit <= m /\ manifest[k].changes = log[manifest[k].commit].changes
  /\ \A i \in 1..m :
       Cardinality(Places(manifest, i)) = IF log[i].manifest THEN 1 ELSE 0

IndexUpTo(m) ==
  /\ pc = "messages" => NamedUpTo(m) /\ manifest = <<>>
  /\ pc = "manifests" => paths /\ NamedUpTo(Size) /\ ManifestUpTo(m)

IndexDone ==
  pc = "done" => /\ NamedUpTo(Size)
                 /\ paths => ManifestUpTo(Size)
                 /\ ~paths => manifest = <<>>

(* Commits that git does not write need no delivery.                       *)
Indexed(m) ==
  \E i \in 0..m : IndexUpTo(i) /\ \A j \in (i + 1)..m : ~Written(log, pc, j)

(* The scanner stands at the beginning, or behind the NUL of a commit.     *)
Reached(a, c) ==
  \/ c = 0 /\ Indexed(0)
  \/ \E m \in 1..Size : Written(log, pc, m) /\ c = a[m - 1] + 1 /\ Indexed(m - 1)

(* The buffer is the piece of the stream up to what was read.              *)
PipeInv ==
  /\ sent <= Len(Stream) /\ Len(buffer) <= taken
  /\ \A j \in 1..Len(buffer) : buffer[j] = Stream[taken - Len(buffer) + j]
  /\ scan \in {"eof", "ended"} => git # "running" /\ sent = taken
  /\ git = "exited" => sent = Len(Stream)
  /\ scan \in {"reading", "eof"} => \E a : Layout(log, pc, a) /\ Reached(a, taken - Len(buffer))
  /\ scan = "ended" /\ git = "exited" => Indexed(Size)

HistoryInv ==
  /\ TypeOK /\ buffer \in Seq(Piece)
  /\ ~Ended => PipeInv
  /\ IndexDone

-----------------------------------------------------------------------------
(* Delivering a commit.                                                    *)

(* u is s with t more entries for c, behind those of earlier commits.      *)
Adds(s, u, t, c) ==
  /\ t \in Nat /\ c \in Nat /\ Len(s) \in Nat /\ DOMAIN s = 1..Len(s)
  /\ DOMAIN u = 1..(Len(s) + t)
  /\ \A k \in 1..Len(s) : u[k] = s[k] /\ s[k].commit \in Nat /\ s[k].commit < c
  /\ \A k \in (Len(s) + 1)..(Len(s) + t) : u[k].commit = c

LEMMA PlacesAdded ==
  ASSUME NEW s, NEW u, NEW t, NEW c, Adds(s, u, t, c)
  PROVE  /\ Cardinality(Places(u, c)) = t
         /\ \A i \in Nat : i # c => Places(u, i) = Places(s, i)
<1>0. /\ t \in Nat /\ c \in Nat /\ Len(s) \in Nat /\ DOMAIN s = 1..Len(s)
      /\ DOMAIN u = 1..(Len(s) + t)
      /\ \A k \in 1..Len(s) : u[k] = s[k] /\ s[k].commit \in Nat /\ s[k].commit < c
      /\ \A k \in (Len(s) + 1)..(Len(s) + t) : u[k].commit = c
  BY DEF Adds
<1>1. Places(u, c) = (Len(s) + 1)..(Len(s) + t)
  BY <1>0 DEF Places
<1>2. Cardinality((Len(s) + 1)..(Len(s) + t)) = t
  <2>1. Cardinality((Len(s) + 1)..(Len(s) + t)) =
          IF Len(s) + 1 > Len(s) + t THEN 0 ELSE (Len(s) + t) - (Len(s) + 1) + 1
    <3>1. Len(s) + 1 \in Int /\ Len(s) + t \in Int
      BY <1>0
    <3> QED BY ONLY <3>1, FS_Interval
  <2> QED BY <1>0, <2>1
<1>3. ASSUME NEW i \in Nat, i # c PROVE Places(u, i) = Places(s, i)
  <2>1. \A k \in (Len(s) + 1)..(Len(s) + t) : u[k].commit # i
    BY <1>0, <1>3
  <2>2. 1..(Len(s) + t) = 1..Len(s) \cup ((Len(s) + 1)..(Len(s) + t))
    BY <1>0
  <2> QED BY <1>0, <2>1, <2>2 DEF Places
<1> QED BY <1>1, <1>2, <1>3

LEMMA TimesType ==
  ASSUME NEW n
  PROVE  Times(n) \in Nat /\ (n \in Range(Needles) => Times(n) # 0)
<1> DEFINE S == {k \in DOMAIN Needles : Needles[k] = n}
<1>1. DOMAIN Needles = 1..Len(Needles) /\ Len(Needles) \in Nat
  BY HistoryAssumption
<1>2. IsFiniteSet(1..Len(Needles))
  BY <1>1, FS_Interval
<1>3. IsFiniteSet(S)
  BY <1>1, <1>2, FS_Subset
<1>4. n \in Range(Needles) => S # {}
  BY DEF Range
<1> HIDE DEF S
<1>5. Cardinality(S) \in Nat /\ (S # {} => Cardinality(S) # 0)
  BY <1>3, FS_CardinalityType, FS_EmptySet
<1>6. Times(n) = Cardinality(S)
  BY DEF Times, S
<1> QED BY <1>4, <1>5, <1>6

LEMMA EntryFacts ==
  ASSUME NEW s, s \in Seq(Entry) \/ s \in Seq(Excerpted)
  PROVE  Len(s) \in Nat /\ DOMAIN s = 1..Len(s) /\ \A k \in 1..Len(s) : s[k].commit \in Nat
<1>1. CASE s \in Seq(Entry)
  <2>1. Len(s) \in Nat /\ DOMAIN s = 1..Len(s) /\ \A k \in 1..Len(s) : s[k] \in Entry
    BY <1>1
  <2> QED BY <2>1 DEF Entry
<1>2. CASE s \in Seq(Excerpted)
  <2>1. Len(s) \in Nat /\ DOMAIN s = 1..Len(s) /\ \A k \in 1..Len(s) : s[k] \in Excerpted
    BY <1>2
  <2> QED BY <2>1 DEF Excerpted
<1> QED BY <1>1, <1>2

LEMMA NoPlaces ==
  ASSUME NEW s, NEW i, \A k \in DOMAIN s : s[k].commit # i
  PROVE  Cardinality(Places(s, i)) = 0
<1>1. Places(s, i) = {}
  BY DEF Places
<1> QED BY <1>1, FS_EmptySet

(* Commits that git does not write add nothing. *)
LEMMA IndexSkips ==
  ASSUME log \in Logs, NEW k \in 0..Size, NEW m \in k..Size, IndexUpTo(k),
         \A j \in (k + 1)..m : ~Written(log, pc, j)
  PROVE  IndexUpTo(m)
<1>1. Size \in Nat /\ \A i \in 1..Size : log[i].manifest \in BOOLEAN
  BY LogTypes DEF Size
<1>2. CASE pc = "messages"
  <2>1. m = k
    <3>1. \A j \in (k + 1)..m : FALSE
      BY <1>2 DEF Written
    <3>2. m # k => m \in (k + 1)..m
      BY <1>1
    <3> QED BY <3>1, <3>2
  <2> QED BY <2>1
<1>3. CASE pc = "manifests"
  <2>1. paths /\ NamedUpTo(Size) /\ ManifestUpTo(k)
    BY <1>3 DEF IndexUpTo
  <2>2. manifest \in Seq(Excerpted) /\ DOMAIN manifest = 1..Len(manifest)
    BY <2>1 DEF ManifestUpTo
  <2>3. \A j \in 1..Len(manifest) : manifest[j].commit \in Nat /\ manifest[j].commit <= k
    BY <2>1, <2>2, EntryFacts DEF ManifestUpTo
  <2>4. ASSUME NEW i \in 1..m
        PROVE  Cardinality(Places(manifest, i)) = IF log[i].manifest THEN 1 ELSE 0
    <3>1. CASE i \in 1..k
      BY <3>1, <2>1 DEF ManifestUpTo
    <3>2. CASE i \in (k + 1)..m
      <4>1. ~log[i].manifest
        BY <1>3, <3>2 DEF Written
      <4>2. \A j \in DOMAIN manifest : manifest[j].commit # i
        BY <3>2, <2>2, <2>3
      <4>3. Cardinality(Places(manifest, i)) = 0
        BY <4>2, NoPlaces
      <4> QED BY <4>1, <4>3
    <3> QED BY <1>1, <3>1, <3>2
  <2>5. \A j \in DOMAIN manifest :
          manifest[j].commit <= m /\ manifest[j].changes = log[manifest[j].commit].changes
    BY <1>1, <2>1, <2>2, <2>3 DEF ManifestUpTo
  <2>6. ManifestUpTo(m)
    BY <2>1, <2>4, <2>5 DEF ManifestUpTo
  <2> QED BY <1>3, <2>1, <2>6 DEF IndexUpTo
<1>4. CASE pc \notin {"messages", "manifests"}
  BY <1>4 DEF IndexUpTo
<1> QED BY <1>2, <1>3, <1>4

(* A whole commit adds its entries, once for every dependency it mentions. *)
LEMMA MessageDelivered ==
  ASSUME log \in Logs, log' = log, pc = "messages", NEW m \in 1..Size, NamedUpTo(m - 1),
         byName' = [n \in Names |->
                      IF n \in log[m].mentions
                      THEN byName[n] \o [k \in 1..Times(n) |-> [commit |-> m, whole |-> TRUE]]
                      ELSE byName[n]]
  PROVE  NamedUpTo(m)'
<1>1. /\ Size \in Nat /\ DOMAIN log = 1..Size /\ m \in Nat /\ m - 1 \in Nat
      /\ Size' = Size /\ DOMAIN log' = 1..Size
  BY LogTypes DEF Size
<1>2. SUFFICES ASSUME NEW n \in Names
      PROVE  LET u == byName'[n]
             IN /\ u \in Seq(Entry)
                /\ \A k \in DOMAIN u : u[k].whole /\ u[k].commit \in DOMAIN log
                /\ \A j, k \in DOMAIN u : j <= k => u[j].commit <= u[k].commit
                /\ \A k \in DOMAIN u : u[k].commit <= m
                /\ \A i \in 1..m : Cardinality(Places(u, i)) =
                                     IF n \in log[i].mentions THEN Times(n) ELSE 0
  BY <1>1 DEF NamedUpTo, InOrder, Mentions, Places, Times
<1> DEFINE s == byName[n]
<1>0. PICK u : u = byName'[n]
  OBVIOUS
<1>3. /\ s \in Seq(Entry) /\ Len(s) \in Nat /\ DOMAIN s = 1..Len(s)
      /\ \A k \in 1..Len(s) : /\ s[k].whole /\ s[k].commit \in 1..Size
                              /\ s[k].commit \in Nat /\ s[k].commit < m
      /\ \A j, k \in 1..Len(s) : j <= k => s[j].commit <= s[k].commit
      /\ \A i \in 1..(m - 1) : Cardinality(Places(s, i)) =
                                 IF n \in log[i].mentions THEN Times(n) ELSE 0
  <2>1. s \in Seq(Entry) /\ InOrder(s) /\ (\A k \in DOMAIN s : s[k].commit <= m - 1)
        /\ \A i \in 1..(m - 1) : Cardinality(Places(s, i)) =
                                   IF n \in log[i].mentions THEN Times(n) ELSE 0
    BY DEF NamedUpTo, Mentions
  <2> HIDE DEF s
  <2>2. Len(s) \in Nat /\ DOMAIN s = 1..Len(s) /\ \A k \in 1..Len(s) : s[k].commit \in Nat
    BY <2>1, EntryFacts
  <2>3. \A j, k \in 1..Len(s) : j <= k => s[j].commit <= s[k].commit
    BY <2>1, <2>2 DEF InOrder
  <2>4. ASSUME NEW k \in 1..Len(s)
        PROVE  s[k].whole /\ s[k].commit \in 1..Size /\ s[k].commit \in Nat /\ s[k].commit < m
    <3>1. s[k].whole /\ s[k].commit \in 1..Size
      BY <2>1, <2>2, <1>1 DEF InOrder
    <3>2. s[k].commit \in Nat /\ s[k].commit <= m - 1
      BY <2>1, <2>2
    <3> QED BY <3>1, <3>2, <1>1
  <2> QED BY <2>1, <2>2, <2>3, <2>4
<1>4. \A i \in 1..m : i = m \/ i \in 1..(m - 1)
  BY <1>1
<1>5. CASE n \in log[m].mentions
  <2> DEFINE t == Times(n)
             r == [k \in 1..t |-> [commit |-> m, whole |-> TRUE]]
  <2>1. t \in Nat
    BY TimesType
  <2> HIDE DEF t
  <2>2. r \in Seq(Entry) /\ Len(r) = t /\ \A k \in 1..t : r[k] = [commit |-> m, whole |-> TRUE]
    <3>1. [commit |-> m, whole |-> TRUE] \in Entry
      BY <1>1 DEF Entry
    <3>2. r \in [1..t -> Entry] /\ \A k \in 1..t : r[k] = [commit |-> m, whole |-> TRUE]
      BY <3>1
    <3> HIDE DEF r
    <3> QED BY <2>1, <3>2
  <2>3. u = s \o r
    BY <1>0, <1>5 DEF t
  <2> HIDE DEF r, s
  <2>4. /\ u \in Seq(Entry) /\ Len(u) = Len(s) + t
        /\ \A k \in 1..(Len(s) + t) : u[k] = IF k <= Len(s) THEN s[k] ELSE r[k - Len(s)]
    <3>1. /\ s \o r \in Seq(Entry) /\ Len(s \o r) = Len(s) + Len(r)
          /\ \A k \in 1..(Len(s) + Len(r)) : (s \o r)[k] = IF k <= Len(s) THEN s[k] ELSE r[k - Len(s)]
      BY ONLY <1>3, <2>2, ConcatProperties
    <3> QED BY <2>2, <2>3, <3>1
  <2>5. \A k \in 1..Len(s) : u[k] = s[k]
    BY <2>1, <2>4, <1>3
  <2>6. \A k \in (Len(s) + 1)..(Len(s) + t) : u[k] = [commit |-> m, whole |-> TRUE]
    <3> SUFFICES ASSUME NEW k \in (Len(s) + 1)..(Len(s) + t)
                 PROVE  u[k] = [commit |-> m, whole |-> TRUE]
      OBVIOUS
    <3>1. k \in 1..(Len(s) + t) /\ ~(k <= Len(s)) /\ k - Len(s) \in 1..t
      BY <1>3, <2>1
    <3> QED BY <3>1, <2>2, <2>4
  <2>7. DOMAIN u = 1..(Len(s) + t)
    BY <2>4
  <2>8. \A k \in DOMAIN u : k \in 1..Len(s) \/ k \in (Len(s) + 1)..(Len(s) + t)
    BY <1>3, <2>1, <2>7
  <2>9. \A k \in (Len(s) + 1)..(Len(s) + t) : u[k].commit = m /\ u[k].whole
    BY <2>6
  <2>10. /\ Cardinality(Places(u, m)) = t
         /\ \A i \in Nat : i # m => Places(u, i) = Places(s, i)
    <3>1. Adds(s, u, t, m)
      BY <1>1, <1>3, <2>1, <2>5, <2>7, <2>9 DEF Adds
    <3> QED BY <3>1, PlacesAdded
  <2>11. \A k \in DOMAIN u : u[k].whole /\ u[k].commit \in DOMAIN log /\ u[k].commit <= m
    BY <1>1, <1>3, <2>5, <2>8, <2>9
  <2>12. \A j, k \in DOMAIN u : j <= k => u[j].commit <= u[k].commit
    <3> SUFFICES ASSUME NEW j \in DOMAIN u, NEW k \in DOMAIN u, j <= k
                 PROVE  u[j].commit <= u[k].commit
      OBVIOUS
    <3>1. CASE k \in 1..Len(s)
      <4>1. j \in 1..Len(s)
        BY <3>1, <1>3, <2>1, <2>7
      <4> QED BY <3>1, <4>1, <1>3, <2>5
    <3>2. CASE k \in (Len(s) + 1)..(Len(s) + t)
      BY <3>2, <2>9, <2>11
    <3> QED BY <3>1, <3>2, <2>8
  <2>13. \A i \in 1..m : Cardinality(Places(u, i)) =
                           IF n \in log[i].mentions THEN Times(n) ELSE 0
    <3> SUFFICES ASSUME NEW i \in 1..m
                 PROVE  Cardinality(Places(u, i)) = IF n \in log[i].mentions THEN Times(n) ELSE 0
      OBVIOUS
    <3>1. CASE i = m
      BY <3>1, <1>5, <2>10 DEF t
    <3>2. CASE i \in 1..(m - 1)
      <4>1. i # m /\ i \in Nat
        BY <3>2, <1>1
      <4> QED BY <3>2, <4>1, <1>3, <2>10
    <3> QED BY <1>4, <3>1, <3>2
  <2> QED BY <1>0, <2>4, <2>11, <2>12, <2>13
<1>6. CASE n \notin log[m].mentions
  <2>1. u = s
    BY <1>0, <1>6
  <2> HIDE DEF s
  <2>2. Cardinality(Places(u, m)) = 0
    <3>1. \A k \in DOMAIN u : u[k].commit # m
      BY <1>3, <2>1, <1>1
    <3> QED BY <3>1, NoPlaces
  <2>3. \A i \in 1..m : Cardinality(Places(u, i)) =
                           IF n \in log[i].mentions THEN Times(n) ELSE 0
    BY <1>3, <1>4, <1>6, <2>1, <2>2
  <2>4. \A k \in DOMAIN u : u[k].commit <= m
    BY <1>1, <1>3, <2>1
  <2> QED BY <1>0, <1>1, <1>3, <2>1, <2>3, <2>4
<1> QED BY <1>5, <1>6

LEMMA IndexKept ==
  ASSUME UNCHANGED log, NEW m
  PROVE  /\ UNCHANGED byName /\ NamedUpTo(m) => NamedUpTo(m)'
         /\ UNCHANGED byName /\ NamedUpTo(Size) => NamedUpTo(Size)'
         /\ UNCHANGED manifest /\ ManifestUpTo(m) => ManifestUpTo(m)'
         /\ UNCHANGED manifest /\ ManifestUpTo(Size) => ManifestUpTo(Size)'
<1>1. Size' = Size
  BY DEF Size
<1>2. ASSUME UNCHANGED byName, NEW k, NamedUpTo(k), NEW l, l = k
      PROVE  /\ NamedUpTo(l)'
  <2>1. ASSUME NEW n \in Names
        PROVE  /\ byName'[n] \in Seq(Entry) /\ InOrder(byName[n])'
               /\ \A j \in DOMAIN byName'[n] : byName'[n][j].commit <= k
               /\ \A i \in 1..k : Cardinality(Places(byName[n], i)') =
                                     IF Mentions(n, i)' THEN Times(n) ELSE 0
    <3>1. InOrder(byName[n])' <=> InOrder(byName[n])
      BY <1>2 DEF InOrder
    <3>2. \A i : Places(byName[n], i)' = Places(byName[n], i)
      BY <1>2 DEF Places
    <3>3. \A i : Mentions(n, i)' <=> Mentions(n, i)
      BY DEF Mentions
    <3> QED BY <1>2, <3>1, <3>2, <3>3 DEF NamedUpTo
  <2> QED BY <1>2, <2>1 DEF NamedUpTo, Times
<1>3. ASSUME UNCHANGED manifest, NEW k, ManifestUpTo(k)
      PROVE  ManifestUpTo(k)'
  <2>1. InOrder(manifest)' <=> InOrder(manifest)
    BY <1>3 DEF InOrder
  <2>2. \A i : Places(manifest, i)' = Places(manifest, i)
    BY <1>3 DEF Places
  <2> QED BY <1>3, <2>1, <2>2 DEF ManifestUpTo
<1> QED BY <1>1, <1>2, <1>3

LEMMA ManifestDelivered ==
  ASSUME log \in Logs, log' = log, NEW m \in 1..Size, log[m].manifest, ManifestUpTo(m - 1),
         manifest' = Append(manifest, [commit |-> m, whole |-> TRUE, changes |-> log[m].changes])
  PROVE  ManifestUpTo(m)'
<1>1. /\ Size \in Nat /\ DOMAIN log = 1..Size /\ m \in Nat /\ m - 1 \in Nat
      /\ log[m].changes \subseteq Names
  BY LogTypes DEF Size
<1> DEFINE s == manifest
           x == [commit |-> m, whole |-> TRUE, changes |-> log[m].changes]
<1>2. PICK u : u = manifest'
  OBVIOUS
<1>3. /\ s \in Seq(Excerpted) /\ Len(s) \in Nat /\ DOMAIN s = 1..Len(s)
      /\ \A k \in 1..Len(s) : /\ s[k].whole /\ s[k].commit \in 1..Size
                              /\ s[k].commit \in Nat /\ s[k].commit < m
                              /\ s[k].changes = log[s[k].commit].changes
      /\ \A j, k \in 1..Len(s) : j <= k => s[j].commit <= s[k].commit
      /\ \A i \in 1..(m - 1) : Cardinality(Places(s, i)) = IF log[i].manifest THEN 1 ELSE 0
  <2>1. /\ s \in Seq(Excerpted) /\ InOrder(s)
        /\ \A k \in DOMAIN s : s[k].commit <= m - 1 /\ s[k].changes = log[s[k].commit].changes
        /\ \A i \in 1..(m - 1) : Cardinality(Places(s, i)) = IF log[i].manifest THEN 1 ELSE 0
    BY DEF ManifestUpTo
  <2> HIDE DEF s
  <2>2. Len(s) \in Nat /\ DOMAIN s = 1..Len(s) /\ \A k \in 1..Len(s) : s[k].commit \in Nat
    BY <2>1, EntryFacts
  <2>3. \A k \in 1..Len(s) : s[k].whole /\ s[k].commit \in 1..Size
    BY <2>1, <2>2, <1>1 DEF InOrder
  <2>4. \A j, k \in 1..Len(s) : j <= k => s[j].commit <= s[k].commit
    BY <2>1, <2>2 DEF InOrder
  <2>5. \A k \in 1..Len(s) : s[k].commit < m /\ s[k].changes = log[s[k].commit].changes
    BY <2>1, <2>2, <1>1
  <2> QED BY <2>1, <2>2, <2>3, <2>4, <2>5
<1>4. x \in Excerpted /\ x.commit = m /\ x.whole /\ x.changes = log[m].changes
  BY <1>1 DEF Excerpted
<1>5. u = Append(s, x)
  BY <1>2
<1> HIDE DEF s, x
<1>6. /\ u \in Seq(Excerpted) /\ DOMAIN u = 1..(Len(s) + 1) /\ u[Len(s) + 1] = x
      /\ \A k \in 1..Len(s) : u[k] = s[k]
  <2>1. /\ u \in Seq(Excerpted) /\ Len(u) = Len(s) + 1 /\ u[Len(s) + 1] = x
        /\ \A k \in 1..Len(s) : u[k] = s[k]
    BY ONLY <1>3, <1>4, <1>5, AppendProperties
  <2> QED BY <2>1
<1>7. \A k \in DOMAIN u : k \in 1..Len(s) \/ k = Len(s) + 1
  BY <1>3, <1>6
<1>8. Adds(s, u, 1, m)
  <2>1. \A k \in (Len(s) + 1)..(Len(s) + 1) : k = Len(s) + 1
    BY <1>3
  <2> QED BY <1>1, <1>3, <1>4, <1>6, <2>1 DEF Adds
<1>9. /\ Cardinality(Places(u, m)) = 1
      /\ \A i \in Nat : i # m => Places(u, i) = Places(s, i)
  BY <1>8, PlacesAdded
<1>10. \A k \in DOMAIN u : /\ u[k].whole /\ u[k].commit \in DOMAIN log /\ u[k].commit <= m
                           /\ u[k].changes = log[u[k].commit].changes
  BY <1>1, <1>3, <1>4, <1>6, <1>7
<1>11. \A j, k \in DOMAIN u : j <= k => u[j].commit <= u[k].commit
  <2> SUFFICES ASSUME NEW j \in DOMAIN u, NEW k \in DOMAIN u, j <= k
               PROVE  u[j].commit <= u[k].commit
    OBVIOUS
  <2>1. CASE k \in 1..Len(s)
    <3>1. j \in 1..Len(s)
      BY <2>1, <1>3, <1>6
    <3> QED BY <2>1, <3>1, <1>3, <1>6
  <2>2. CASE k = Len(s) + 1
    BY <2>2, <1>4, <1>6, <1>10
  <2> QED BY <2>1, <2>2, <1>7
<1>12. \A i \in 1..m : Cardinality(Places(u, i)) = IF log[i].manifest THEN 1 ELSE 0
  <2> SUFFICES ASSUME NEW i \in 1..m
               PROVE  Cardinality(Places(u, i)) = IF log[i].manifest THEN 1 ELSE 0
    OBVIOUS
  <2>1. CASE i = m
    BY <2>1, <1>9
  <2>2. CASE i # m
    <3>1. i \in 1..(m - 1) /\ i \in Nat
      BY <2>2, <1>1
    <3> QED BY <2>2, <3>1, <1>3, <1>9
  <2> QED BY <2>1, <2>2
<1>13. InOrder(u)'
  <2>1. u' = u /\ log' = log
    OBVIOUS
  <2> QED BY <1>10, <1>11, <2>1 DEF InOrder
<1>14. /\ manifest' \in Seq(Excerpted) /\ InOrder(manifest)'
       /\ \A k \in DOMAIN manifest' :
            manifest'[k].commit <= m /\ manifest'[k].changes = log'[manifest'[k].commit].changes
  BY <1>2, <1>6, <1>10, <1>13
<1>15. \A i \in 1..m :
         Cardinality(Places(manifest', i)) = IF log'[i].manifest THEN 1 ELSE 0
  BY <1>2, <1>12
<1> QED BY <1>14, <1>15 DEF ManifestUpTo, Places

LEMMA CommitDelivered ==
  ASSUME log \in Logs, UNCHANGED <<log, paths, pc>>, NEW m \in 1..Size, Written(log, pc, m),
         IndexUpTo(m - 1), Deliver(Record(log, pc, m)), pc \in {"messages", "manifests"}
  PROVE  IndexUpTo(m)'
<1> DEFINE r == Record(log, pc, m)
<1>1. r # <<>> /\ r[1].part = 1 /\ r[1].commit = m /\ Size' = Size
  <2>1. Pieces(log, pc, m) \in Nat \ {0} /\ r \in Seq(Piece) /\ Len(r) = Pieces(log, pc, m)
        /\ \A p \in 1..Pieces(log, pc, m) : r[p] = [commit |-> m, part |-> p]
    BY RecordFacts DEF Size
  <2> HIDE DEF r
  <2>2. 1 \in 1..Pieces(log, pc, m) /\ r # <<>>
    BY <2>1
  <2> QED BY <2>1, <2>2 DEF Size
<1> HIDE DEF r
<1>2. IF pc = "messages"
      THEN /\ byName' = [n \in Names |->
                IF n \in log[m].mentions
                THEN byName[n] \o [k \in 1..Times(n) |-> [commit |-> m, whole |-> TRUE]]
                ELSE byName[n]]
           /\ UNCHANGED manifest
      ELSE /\ manifest' = Append(manifest,
                [commit |-> m, whole |-> TRUE, changes |-> log[m].changes])
           /\ UNCHANGED byName
  <2>1. /\ Deliver(r) /\ (r = r) = TRUE
    BY DEF r
  <2>2. ~(r = <<>> \/ r[1].part # 1)
    BY <1>1
  <2> QED BY <1>1, <2>1, <2>2, Zenon DEF Deliver, r
<1>3. CASE pc = "messages"
  <2>1. NamedUpTo(m)'
    BY <1>2, <1>3, MessageDelivered DEF IndexUpTo
  <2> QED BY <1>2, <1>3, <2>1 DEF IndexUpTo
<1>4. CASE pc = "manifests"
  <2>1. log[m].manifest /\ paths /\ NamedUpTo(Size) /\ ManifestUpTo(m - 1)
    BY <1>4 DEF Written, IndexUpTo
  <2>2. ManifestUpTo(m)'
    BY <1>2, <1>4, <2>1, ManifestDelivered
  <2>3. NamedUpTo(Size)'
    BY <1>2, <1>4, <2>1, IndexKept
  <2> QED BY <1>4, <2>1, <2>2, <2>3 DEF IndexUpTo
<1> QED BY <1>3, <1>4

-----------------------------------------------------------------------------
(* Steps that leave the index alone.                                       *)

LEMMA IndexStays ==
  ASSUME UNCHANGED <<log, paths, pc, byName, manifest>>
  PROVE  /\ Stream' = Stream /\ Size' = Size
         /\ \A m : IndexUpTo(m) => IndexUpTo(m)'
         /\ \A m : Indexed(m) => Indexed(m)'
         /\ \A a : Layout(log, pc, a) => Layout(log, pc, a)'
         /\ \A a, c : Reached(a, c) => Reached(a, c)'
         /\ IndexDone => IndexDone'
<1>1. Stream' = Stream /\ Size' = Size
  BY DEF Stream, Size
<1>2. \A m : IndexUpTo(m) => IndexUpTo(m)'
  BY IndexKept DEF IndexUpTo
<1>3. \A j : Written(log, pc, j)' <=> Written(log, pc, j)
  BY DEF Written
<1>4. \A m : Indexed(m) => Indexed(m)'
  BY <1>2, <1>3 DEF Indexed
<1>5. \A a : Layout(log, pc, a) => Layout(log, pc, a)'
  OBVIOUS
<1>6. \A a, c : Reached(a, c) => Reached(a, c)'
  BY <1>1, <1>3, <1>4 DEF Reached
<1>7. IndexDone => IndexDone'
  BY IndexKept DEF IndexDone
<1> QED BY <1>1, <1>2, <1>4, <1>5, <1>6, <1>7

(* Steps of git, the context and the reader. *)
LEMMA PipeSteps ==
  ASSUME HistoryInv, GitWrites \/ GitExits \/ GitFails \/ Cancel \/ Kill \/ ReadEnd \/ TooLong
  PROVE  HistoryInv'
<1>1. /\ TypeOK /\ buffer \in Seq(Piece) /\ PipeInv /\ IndexDone /\ ~Ended
  BY DEF HistoryInv, GitWrites, GitExits, GitFails, Cancel, Kill, ReadEnd, TooLong
<1>2. UNCHANGED <<log, paths, pc, byName, manifest, taken, buffer, answers>>
  BY DEF GitWrites, GitExits, GitFails, Cancel, Kill, ReadEnd, TooLong,
         input, process, scanner, index
<1>3. IndexDone' /\ Stream' = Stream /\ Size' = Size /\ (Indexed(Size) => Indexed(Size)')
  BY <1>1, <1>2, IndexStays
<1>4. (\E a : Layout(log, pc, a) /\ Reached(a, taken - Len(buffer))) =>
      (\E a : Layout(log, pc, a) /\ Reached(a, taken - Len(buffer)))'
  <2>1. taken' = taken /\ buffer' = buffer
    BY <1>2
  <2> QED BY <1>2, <2>1, IndexStays
<1>5. Len(Stream) \in Nat
  <2>1. log \in Logs
    BY <1>1 DEF TypeOK
  <2>2. PICK a : Layout(log, pc, a)
    BY <2>1, StreamHasLayout
  <2> QED BY <2>2 DEF Layout, Stream
<1>6. /\ cancelled' \in BOOLEAN /\ (cancelled \in BOOLEAN)
      /\ \/ sent' = sent + 1 /\ sent < Len(Stream) /\ sent - taken < PipeSize /\ git = "running"
            /\ git' = git /\ scan' = scan
         \/ sent' = sent /\ git = "running" /\ scan' = scan
            /\ ((git' = "exited" /\ sent = Len(Stream)) \/ git' = "failed" \/ git' = git)
         \/ sent' = sent /\ git' = git /\ scan = "reading"
            /\ ((scan' = "eof" /\ sent = taken /\ git # "running") \/ scan' = "too long")
         \/ sent' = sent /\ git' = git /\ scan' = scan
  BY <1>1 DEF TypeOK, GitWrites, GitExits, GitFails, Cancel, Kill, ReadEnd, TooLong,
              input, process, scanner, index
<1>7. TypeOK'
  <2>1. sent \in Nat /\ taken \in 0..sent /\ sent - taken <= PipeSize /\ PipeSize \in Nat
    BY <1>1, HistoryAssumption DEF TypeOK
  <2>2. sent' \in Nat /\ taken' \in 0..sent' /\ sent' - taken' <= PipeSize
    <3>1. taken' = taken /\ (sent' = sent \/ (sent' = sent + 1 /\ sent - taken < PipeSize))
      BY <1>2, <1>6
    <3> QED BY <2>1, <3>1
  <2>3. git' \in {"running", "exited", "failed"} /\ scan' \in {"reading", "eof", "ended", "too long"}
    BY <1>1, <1>6 DEF TypeOK
  <2> QED BY <1>1, <1>2, <1>6, <2>2, <2>3 DEF TypeOK
<1>8. PipeInv'
  <2>1. /\ sent <= Len(Stream) /\ Len(buffer) <= taken /\ sent \in Nat /\ taken \in Nat
        /\ \A j \in 1..Len(buffer) : buffer[j] = Stream[taken - Len(buffer) + j]
    <3>1. sent \in Nat /\ taken \in 0..sent
      BY <1>1 DEF TypeOK
    <3>2. taken \in Nat
      BY <3>1
    <3> QED BY <1>1, <3>1, <3>2 DEF PipeInv
  <2>2. sent' <= Len(Stream)
    <3>1. sent' = sent \/ (sent' = sent + 1 /\ sent < Len(Stream))
      BY <1>6
    <3> QED BY <1>5, <2>1, <3>1
  <2>3. \A j \in 1..Len(buffer') : buffer'[j] = Stream'[taken' - Len(buffer') + j]
    <3>1. buffer' = buffer /\ taken' = taken /\ Stream' = Stream
      BY <1>2, <1>3
    <3> QED BY <2>1, <3>1
  <2>4. scan' \in {"eof", "ended"} => git' # "running" /\ sent' = taken'
    BY <1>1, <1>2, <1>6 DEF PipeInv
  <2>5. git' = "exited" => sent' = Len(Stream)
    BY <1>1, <1>6 DEF PipeInv
  <2>6. scan' \in {"reading", "eof"} => (\E a : Layout(log, pc, a) /\ Reached(a, taken - Len(buffer)))'
    BY <1>1, <1>4, <1>6 DEF PipeInv
  <2>7. scan' = "ended" /\ git' = "exited" => Indexed(Size)'
    BY <1>1, <1>3, <1>6 DEF PipeInv
  <2> QED BY <1>2, <1>3, <2>1, <2>2, <2>3, <2>4, <2>5, <2>6, <2>7 DEF PipeInv
<1> QED BY <1>1, <1>2, <1>3, <1>7, <1>8 DEF HistoryInv

-----------------------------------------------------------------------------
(* Where the scanner stands.                                               *)

LEMMA AtCommit ==
  ASSUME log \in Logs, NEW a, Layout(log, pc, a), NEW m \in 1..Size, Written(log, pc, m)
  PROVE  LET c == a[m - 1] + 1
             n == Pieces(log, pc, m)
         IN /\ c \in Nat /\ n \in Nat \ {0} /\ a[m] = c + n /\ a[m] <= Len(Stream)
            /\ Stream \in Seq(Piece) /\ Len(Stream) \in Nat
            /\ Record(log, pc, m) \in Seq(Piece) /\ Len(Record(log, pc, m)) = n
            /\ \A p \in 1..n : Stream[c + p] = Record(log, pc, m)[p] /\ Stream[c + p] # Nul
<1>1. Size \in Nat /\ m - 1 \in 0..Size /\ m \in 0..Size /\ Size \in m..Size /\ Size = Len(log)
  BY LogTypes DEF Size
<1>2. a[m] \in Nat /\ a[m] <= a[Size] /\ a[m - 1] \in Nat
  BY <1>1, LayoutGrows DEF Layout
<1>3. /\ Pieces(log, pc, m) \in Nat \ {0}
      /\ Record(log, pc, m) \in Seq(Piece) /\ Len(Record(log, pc, m)) = Pieces(log, pc, m)
      /\ \A p \in 1..Pieces(log, pc, m) : Record(log, pc, m)[p] = [commit |-> m, part |-> p]
  BY <1>1, RecordFacts
<1>4. /\ a[m] = a[m - 1] + 1 + Pieces(log, pc, m) /\ a[Size] = Len(Stream)
      /\ Stream \in Seq(Piece) /\ Len(Stream) \in Nat
      /\ \A p \in 1..Pieces(log, pc, m) : Stream[a[m - 1] + 1 + p] = [commit |-> m, part |-> p]
  BY <1>1 DEF Layout, Stands, Stream
<1>5. \A p : [commit |-> m, part |-> p] # Nul
  BY <1>1 DEF Nul
<1>6. \A p \in 1..Pieces(log, pc, m) :
        /\ Stream[a[m - 1] + 1 + p] = Record(log, pc, m)[p]
        /\ Stream[a[m - 1] + 1 + p] # Nul
  BY <1>3, <1>4, <1>5
<1>7. a[m - 1] + 1 \in Nat
  BY <1>2
<1> QED BY <1>2, <1>3, <1>4, <1>6, <1>7

(* Behind commit k, unless the stream ends there, is the NUL of another.   *)
LEMMA NextNul ==
  ASSUME log \in Logs, NEW a, Layout(log, pc, a), NEW k \in 0..Size, a[k] < Len(Stream)
  PROVE  /\ Stream[a[k] + 1] = Nul
         /\ \E m \in (k + 1)..Size : /\ Written(log, pc, m) /\ a[m - 1] = a[k]
                                     /\ \A j \in (k + 1)..(m - 1) : ~Written(log, pc, j)
<1>1. Size \in Nat /\ Size = Len(log)
  BY LogTypes DEF Size
<1>2. PICK m \in (k + 1)..Size : /\ Written(log, pc, m) /\ a[m - 1] = a[k]
                                 /\ \A j \in (k + 1)..(m - 1) : ~Written(log, pc, j)
  BY <1>1, NextWritten DEF Stream
<1>3. m \in 1..Len(log)
  BY <1>1
<1>4. Stream[a[m - 1] + 1] = Nul
  BY <1>2, <1>3 DEF Layout, Stands, Stream
<1> QED BY <1>2, <1>4

LEMMA IndexedMore ==
  ASSUME NEW k \in Nat, NEW m \in Nat, k <= m, UNCHANGED <<log, pc>>,
         \A j \in (k + 1)..m : ~Written(log, pc, j)
  PROVE  /\ Indexed(k) => Indexed(m)
         /\ Indexed(k)' => Indexed(m)'
<1>1. ASSUME NEW i \in 0..k, \A j \in (i + 1)..k : ~Written(log, pc, j)
      PROVE  i \in 0..m /\ \A j \in (i + 1)..m : ~Written(log, pc, j)
  <2>1. \A j \in (i + 1)..m : j \in (i + 1)..k \/ j \in (k + 1)..m
    OBVIOUS
  <2> QED BY <1>1, <2>1
<1>2. \A j : Written(log, pc, j)' <=> Written(log, pc, j)
  BY DEF Written
<1> QED BY <1>1, <1>2 DEF Indexed

(* From the end of commit k the scanner goes on to the next one. *)
LEMMA GoesOn ==
  ASSUME log \in Logs, NEW a, Layout(log, pc, a), NEW k \in 0..Size, a[k] < Len(Stream),
         UNCHANGED <<log, pc>>, Indexed(k)'
  PROVE  Stream[a[k] + 1] = Nul /\ Reached(a, a[k] + 1)'
<1>1. Size \in Nat /\ Size' = Size
  BY LogTypes DEF Size
<1>2. Stream[a[k] + 1] = Nul
  BY NextNul
<1>3. PICK m \in (k + 1)..Size : /\ Written(log, pc, m) /\ a[m - 1] = a[k]
                                 /\ \A j \in (k + 1)..(m - 1) : ~Written(log, pc, j)
  BY NextNul
<1>4. k \in Nat /\ m - 1 \in Nat /\ k <= m - 1 /\ m \in 1..Size
  BY <1>1
<1>5. Indexed(m - 1)'
  BY <1>3, <1>4, IndexedMore
<1>6. Written(log, pc, m)'
  BY <1>3 DEF Written
<1> QED BY <1>1, <1>2, <1>3, <1>4, <1>5, <1>6 DEF Reached

LEMMA IndexedUpTo ==
  ASSUME log \in Logs, NEW m \in 0..Size, Indexed(m)
  PROVE  IndexUpTo(m)
<1>1. Size \in Nat
  BY LogTypes DEF Size
<1>2. PICK i \in 0..m : IndexUpTo(i) /\ \A j \in (i + 1)..m : ~Written(log, pc, j)
  BY DEF Indexed
<1>3. i \in 0..Size /\ m \in i..Size
  BY <1>1
<1> QED BY <1>2, <1>3, IndexSkips

(* A read keeps the place where the scanner stands. *)
LEMMA ReadStep ==
  ASSUME HistoryInv, Read
  PROVE  HistoryInv'
<1>1. /\ TypeOK /\ buffer \in Seq(Piece) /\ PipeInv /\ IndexDone /\ ~Ended
      /\ UNCHANGED <<log, paths, pc, git, sent, scan, byName, manifest, answers, cancelled>>
      /\ scan = "reading"
  BY DEF HistoryInv, Read, input, process, index
<1>2. PICK n \in 1..(sent - taken) :
        /\ Len(buffer) + n <= MaxRecord
        /\ buffer' = buffer \o SubSeq(Stream, taken + 1, taken + n)
        /\ taken' = taken + n
  BY DEF Read
<1>3. /\ sent \in Nat /\ taken \in Nat /\ Len(buffer) \in Nat /\ Len(buffer) <= taken /\ n \in Nat
      /\ 1 <= n /\ taken + n <= sent /\ sent <= Len(Stream) /\ sent - taken <= PipeSize
      /\ MaxRecord \in Nat /\ PipeSize \in Nat /\ log \in Logs
  <2>1. /\ sent \in Nat /\ taken \in 0..sent /\ sent - taken <= PipeSize /\ log \in Logs
    BY <1>1 DEF TypeOK
  <2>2. Len(buffer) <= taken /\ sent <= Len(Stream)
    BY <1>1 DEF PipeInv
  <2>3. Len(buffer) \in Nat
    BY <1>1
  <2> QED BY <2>1, <2>2, <2>3, HistoryAssumption
<1>4. Stream \in Seq(Piece) /\ Len(Stream) \in Nat
  <2>1. PICK a : Layout(log, pc, a)
    BY <1>3, StreamHasLayout
  <2> QED BY <2>1 DEF Layout, Stream
<1> DEFINE r == SubSeq(Stream, taken + 1, taken + n)
<1>5. /\ r \in Seq(Piece) /\ Len(r) = n
      /\ \A j \in 1..n : r[j] = Stream[taken + j]
  <2>1. \A j \in (taken + 1)..(taken + n) : Stream[j] \in Piece
    BY <1>3, <1>4
  <2>2. taken + 1 \in Int /\ taken + n \in Int
    BY <1>3
  <2>3. /\ r \in Seq(Piece)
        /\ Len(r) = IF taken + 1 <= taken + n THEN (taken + n) - (taken + 1) + 1 ELSE 0
        /\ \A j \in 1..((taken + n) - (taken + 1) + 1) : r[j] = Stream[taken + 1 + j - 1]
    BY ONLY <2>1, <2>2, SubSeqProperties
  <2>4. (taken + n) - (taken + 1) + 1 = n /\ \A j \in 1..n : taken + 1 + j - 1 = taken + j
    BY <1>3
  <2> HIDE DEF r
  <2> QED BY <1>3, <2>3, <2>4
<1> HIDE DEF r
<1>6. /\ buffer' \in Seq(Piece) /\ Len(buffer') = Len(buffer) + n
      /\ \A j \in 1..(Len(buffer) + n) :
           buffer'[j] = IF j <= Len(buffer) THEN buffer[j] ELSE r[j - Len(buffer)]
  <2>1. buffer' = buffer \o r
    BY <1>2 DEF r
  <2>2. /\ buffer \o r \in Seq(Piece) /\ Len(buffer \o r) = Len(buffer) + Len(r)
        /\ \A j \in 1..(Len(buffer) + Len(r)) :
             (buffer \o r)[j] = IF j <= Len(buffer) THEN buffer[j] ELSE r[j - Len(buffer)]
    BY ONLY <1>1, <1>5, ConcatProperties
  <2> QED BY <2>1, <2>2, <1>5
<1>7. taken' - Len(buffer') = taken - Len(buffer)
  BY <1>2, <1>3, <1>6
<1>8. \A j \in 1..Len(buffer') : buffer'[j] = Stream[taken' - Len(buffer') + j]
  <2> SUFFICES ASSUME NEW j \in 1..(Len(buffer) + n)
               PROVE  buffer'[j] = Stream[taken - Len(buffer) + j]
    BY <1>6, <1>7
  <2>1. CASE j <= Len(buffer)
    <3>1. j \in 1..Len(buffer)
      BY <2>1, <1>3
    <3> QED BY <2>1, <3>1, <1>1, <1>6 DEF PipeInv
  <2>2. CASE ~(j <= Len(buffer))
    <3>1. j - Len(buffer) \in 1..n /\ taken + (j - Len(buffer)) = taken - Len(buffer) + j
      BY <2>2, <1>3
    <3> QED BY <2>2, <3>1, <1>5, <1>6
  <2> QED BY <2>1, <2>2
<1>9. /\ IndexDone' /\ Stream' = Stream
      /\ (\E a : Layout(log, pc, a) /\ Reached(a, taken - Len(buffer)))'
  <2>1. PICK a : Layout(log, pc, a) /\ Reached(a, taken - Len(buffer))
    BY <1>1 DEF PipeInv
  <2>2. PICK c : c = taken - Len(buffer)
    OBVIOUS
  <2>3. IndexDone' /\ Stream' = Stream /\ Layout(log, pc, a)' /\ Reached(a, c)'
    BY <1>1, <2>1, <2>2, IndexStays
  <2> QED BY <2>2, <2>3, <1>7
<1>10. TypeOK'
  <2>1. taken' \in 0..sent /\ sent - taken' <= PipeSize /\ Len(buffer') <= MaxRecord
    BY <1>2, <1>3, <1>6
  <2> QED BY <1>1, <2>1 DEF TypeOK
<1>11. PipeInv'
  <2>1. sent' <= Len(Stream') /\ Len(buffer') <= taken'
    BY <1>1, <1>2, <1>3, <1>6, <1>9
  <2>2. git' = "exited" => sent' = Len(Stream')
    BY <1>1, <1>9 DEF PipeInv
  <2> QED BY <1>1, <1>8, <1>9, <2>1, <2>2 DEF PipeInv
<1> QED BY <1>1, <1>6, <1>9, <1>10, <1>11 DEF HistoryInv

LEMMA FirstNul ==
  ASSUME buffer \in Seq(Piece), HasNul
  PROVE  LET k == Min({j \in DOMAIN buffer : buffer[j] = Nul})
         IN k \in 1..Len(buffer) /\ buffer[k] = Nul /\ \A j \in 1..(k - 1) : buffer[j] # Nul
<1> DEFINE S == {j \in DOMAIN buffer : buffer[j] = Nul}
<1>1. Len(buffer) \in Nat /\ DOMAIN buffer = 1..Len(buffer) /\ S \subseteq Nat /\ S # {}
  BY DEF HasNul
<1> HIDE DEF S
<1>2. \E x \in S : \A y \in S : x <= y
  BY <1>1, Smallest
<1>3. Min(S) \in S /\ \A y \in S : Min(S) <= y
  BY <1>2 DEF Min
<1>4. PICK k : k = Min(S)
  OBVIOUS
<1>5. k \in 1..Len(buffer) /\ buffer[k] = Nul /\ \A j \in 1..(k - 1) : buffer[j] # Nul
  <2>1. k \in 1..Len(buffer) /\ buffer[k] = Nul
    BY <1>1, <1>3, <1>4 DEF S
  <2>2. ASSUME NEW j \in 1..(k - 1), buffer[j] = Nul PROVE FALSE
    <3>1. j \in 1..Len(buffer) /\ ~(k <= j)
      BY <1>1, <2>1
    <3>2. j \in S
      BY <1>1, <2>2, <3>1 DEF S
    <3> QED BY <1>3, <1>4, <3>1, <3>2
  <2> QED BY <2>1, <2>2
<1> QED BY <1>4, <1>5 DEF S

(* What the buffer and the stream have in common. *)
LEMMA BufferFacts ==
  ASSUME HistoryInv, ~Ended
  PROVE  LET c == taken - Len(buffer)
         IN /\ log \in Logs /\ pc \in {"messages", "manifests"}
            /\ Stream \in Seq(Piece) /\ Len(Stream) \in Nat
            /\ buffer \in Seq(Piece) /\ Len(buffer) \in Nat /\ DOMAIN buffer = 1..Len(buffer)
            /\ c \in Nat /\ c + Len(buffer) = taken /\ taken <= sent /\ sent <= Len(Stream)
            /\ taken \in Nat /\ sent \in Nat
            /\ \A j \in 1..Len(buffer) : buffer[j] = Stream[c + j]
<1>1. TypeOK /\ buffer \in Seq(Piece) /\ PipeInv
  BY DEF HistoryInv
<1>2. log \in Logs /\ pc \in {"messages", "manifests"} /\ sent \in Nat /\ taken \in 0..sent
  BY <1>1 DEF TypeOK, Ended
<1>3. PICK a : Layout(log, pc, a)
  BY <1>2, StreamHasLayout
<1>4. Stream \in Seq(Piece) /\ Len(Stream) \in Nat
  BY <1>3 DEF Layout, Stream
<1>5. Len(buffer) \in Nat /\ DOMAIN buffer = 1..Len(buffer)
  BY <1>1
<1>6. /\ Len(buffer) <= taken /\ sent <= Len(Stream)
      /\ \A j \in 1..Len(buffer) : buffer[j] = Stream[taken - Len(buffer) + j]
  BY <1>1 DEF PipeInv
<1> QED BY <1>1, <1>2, <1>4, <1>5, <1>6

(* The token of k pieces is the empty one before the first commit, or the  *)
(* record of the commit the scanner stands at.                             *)
TokenAt(a, c, k) ==
  \/ /\ c = 0 /\ k = 1 /\ a[0] < Len(Stream) /\ Indexed(0)
  \/ \E m \in 1..Size :
       /\ Written(log, pc, m) /\ IndexUpTo(m - 1) /\ c + k = a[m] + 1
       /\ a[m] < Len(Stream) /\ SubSeq(buffer, 1, k - 1) = Record(log, pc, m)

(* What is in front of the first NUL is nothing, before the first commit,  *)
(* or a whole commit.                                                      *)
LEMMA TokenFound ==
  ASSUME HistoryInv, ~Ended, HasNul, NEW a, Layout(log, pc, a), NEW c, c = taken - Len(buffer),
         Reached(a, c), NEW k, k = Min({j \in DOMAIN buffer : buffer[j] = Nul})
  PROVE  TokenAt(a, c, k)
<1>1. /\ log \in Logs /\ pc \in {"messages", "manifests"}
      /\ Stream \in Seq(Piece) /\ Len(Stream) \in Nat
      /\ buffer \in Seq(Piece) /\ Len(buffer) \in Nat /\ DOMAIN buffer = 1..Len(buffer)
      /\ c \in Nat /\ c + Len(buffer) <= Len(Stream)
      /\ \A j \in 1..Len(buffer) : buffer[j] = Stream[c + j]
  BY BufferFacts
<1>2. k \in 1..Len(buffer) /\ buffer[k] = Nul /\ \A j \in 1..(k - 1) : buffer[j] # Nul
  BY <1>1, FirstNul
<1>3. Size \in Nat
  BY <1>1, LogTypes DEF Size
<1>4. CASE c = 0 /\ Indexed(0)
  <2>1. a[0] = 0 /\ a[0] < Len(Stream)
    BY <1>1, <1>2, <1>4 DEF Layout
  <2>2. Stream[1] = Nul
    <3>1. 0 \in 0..Size /\ a[0] + 1 = 1
      BY <1>3, <2>1
    <3> QED BY <1>1, <2>1, <3>1, NextNul
  <2>3. buffer[1] = Nul
    BY <1>1, <1>2, <1>4, <2>2
  <2>4. k = 1
    <3>1. k # 1 => 1 \in 1..(k - 1)
      BY <1>1, <1>2
    <3> QED BY <1>2, <2>3, <3>1
  <2> QED BY <1>4, <2>1, <2>4 DEF TokenAt
<1>5. ASSUME NEW m \in 1..Size, Written(log, pc, m), c = a[m - 1] + 1, Indexed(m - 1)
      PROVE  /\ IndexUpTo(m - 1) /\ c + k = a[m] + 1
             /\ a[m] < Len(Stream) /\ SubSeq(buffer, 1, k - 1) = Record(log, pc, m)
  <2> DEFINE n == Pieces(log, pc, m)
             r == Record(log, pc, m)
  <2>1. /\ n \in Nat \ {0} /\ a[m] = c + n /\ a[m] <= Len(Stream)
        /\ r \in Seq(Piece) /\ Len(r) = n
        /\ \A p \in 1..n : Stream[c + p] = r[p] /\ Stream[c + p] # Nul
    BY <1>1, <1>5, AtCommit
  <2> HIDE DEF n, r
  <2>2. n < k
    <3> SUFFICES ASSUME k <= n PROVE FALSE
      BY <1>1, <1>2, <2>1
    <3>1. k \in 1..n /\ buffer[k] = Stream[c + k]
      BY <1>1, <1>2, <2>1
    <3> QED BY <1>2, <2>1, <3>1
  <2>3. a[m] < Len(Stream) /\ m \in 0..Size
    BY <1>1, <1>2, <1>3, <2>1, <2>2
  <2>4. Stream[a[m] + 1] = Nul
    BY <1>1, <2>3, NextNul
  <2>5. n + 1 \in 1..Len(buffer) /\ c + (n + 1) = a[m] + 1
    BY <1>1, <1>2, <2>1, <2>2
  <2>6. buffer[n + 1] = Nul
    BY <1>1, <2>4, <2>5
  <2>7. k = n + 1
    <3>1. k # n + 1 => n + 1 \in 1..(k - 1)
      <4>1. n \in Nat /\ n < k /\ k \in Nat
        BY <1>1, <1>2, <2>1, <2>2
      <4> QED BY ONLY <4>1
    <3> QED BY <1>2, <2>6, <3>1
  <2>8. SubSeq(buffer, 1, k - 1) = r
    <3> DEFINE t == SubSeq(buffer, 1, n)
    <3>1. \A j \in 1..n : buffer[j] \in Piece /\ buffer[j] = r[j]
      <4>1. \A j \in 1..n : j \in 1..Len(buffer)
        BY <1>1, <2>1, <2>5
      <4> QED BY <1>1, <2>1, <4>1
    <3>2. /\ t \in Seq(Piece) /\ Len(t) = IF 1 <= n THEN n - 1 + 1 ELSE 0
          /\ \A j \in 1..(n - 1 + 1) : t[j] = buffer[1 + j - 1]
      <4>1. 1 \in Int /\ n \in Int
        BY <2>1
      <4> QED BY ONLY <3>1, <4>1, SubSeqProperties
    <3>3. n - 1 + 1 = n /\ 1 <= n /\ \A j \in 1..n : 1 + j - 1 = j
      BY <2>1
    <3> HIDE DEF t
    <3>4. Len(t) = Len(r) /\ \A j \in 1..Len(t) : t[j] = r[j]
      BY <2>1, <3>1, <3>2, <3>3
    <3>5. t = r
      BY ONLY <2>1, <3>2, <3>4, SeqEqual
    <3>6. k - 1 = n
      BY <2>1, <2>7
    <3> QED BY <3>5, <3>6 DEF t
  <2>9. IndexUpTo(m - 1)
    <3>1. m - 1 \in 0..Size
      BY <1>3
    <3> QED BY <1>1, <1>5, <3>1, IndexedUpTo
  <2> QED BY <1>1, <2>1, <2>3, <2>7, <2>8, <2>9 DEF r
<1>6. CASE \E m \in 1..Size : Written(log, pc, m) /\ c = a[m - 1] + 1 /\ Indexed(m - 1)
  BY <1>5, <1>6 DEF TokenAt
<1> QED BY <1>4, <1>6 DEF Reached

LEMMA Delivered ==
  ASSUME NEW token, Deliver(token), DOMAIN byName = Names
  PROVE  DOMAIN byName' = Names /\ (token = <<>> => UNCHANGED <<byName, manifest>>)
BY DEF Deliver, index

LEMMA TokenStep ==
  ASSUME HistoryInv, Token
  PROVE  HistoryInv'
<1> DEFINE k == Min({j \in DOMAIN buffer : buffer[j] = Nul})
           c == taken - Len(buffer)
<1>1. /\ ~Ended /\ HasNul /\ scan \in {"reading", "eof"}
      /\ Deliver(SubSeq(buffer, 1, k - 1)) /\ buffer' = SubSeq(buffer, k + 1, Len(buffer))
      /\ UNCHANGED <<log, paths, pc, git, sent, taken, scan, answers, cancelled>>
  BY DEF Token, input, process
<1>2. TypeOK /\ PipeInv
  BY <1>1 DEF HistoryInv
<1>3. /\ log \in Logs /\ pc \in {"messages", "manifests"}
      /\ Len(Stream) \in Nat
      /\ buffer \in Seq(Piece) /\ Len(buffer) \in Nat /\ DOMAIN buffer = 1..Len(buffer)
      /\ c \in Nat /\ c + Len(buffer) = taken /\ taken \in Nat
      /\ \A j \in 1..Len(buffer) : buffer[j] = Stream[c + j]
  BY <1>1, BufferFacts
<1>4. k \in 1..Len(buffer)
  BY <1>1, <1>3, FirstNul
<1>5. Stream' = Stream /\ Size' = Size /\ Size \in Nat
  BY <1>1, <1>3, LogTypes DEF Stream, Size
<1>6. PICK a : Layout(log, pc, a) /\ Reached(a, c)
  BY <1>1, <1>2 DEF PipeInv
<1> HIDE DEF k, c
<1>0. PICK d : d = c + k
  OBVIOUS
<1>7. Reached(a, d)'
  <2>1. \/ /\ c = 0 /\ k = 1 /\ a[0] < Len(Stream) /\ Indexed(0)
        \/ \E m \in 1..Size :
             /\ Written(log, pc, m) /\ IndexUpTo(m - 1) /\ c + k = a[m] + 1
             /\ a[m] < Len(Stream) /\ SubSeq(buffer, 1, k - 1) = Record(log, pc, m)
    <3>1. HistoryInv /\ ~Ended /\ HasNul /\ Layout(log, pc, a) /\ Reached(a, c)
      BY <1>1, <1>6
    <3>2. c = taken - Len(buffer) /\ k = Min({j \in DOMAIN buffer : buffer[j] = Nul})
      BY DEF c, k
    <3>3. TokenAt(a, c, k)
      BY <3>1, <3>2, TokenFound, Zenon
    <3> QED BY <3>3 DEF TokenAt
  <2>2. CASE c = 0 /\ k = 1 /\ a[0] < Len(Stream) /\ Indexed(0)
    <3>1. SubSeq(buffer, 1, k - 1) = <<>>
      <4>1. k - 1 \in Int /\ 1 \in Int /\ k - 1 < 1
        BY <2>2
      <4> QED BY ONLY <4>1, SubSeqEmpty
    <3>2. UNCHANGED <<byName, manifest>>
      BY <1>1, <1>2, <3>1, Delivered DEF TypeOK
    <3>3. Indexed(0)'
      BY <1>1, <2>2, <3>2, IndexStays
    <3>4. 0 \in 0..Size /\ a[0] = 0 /\ c + k = a[0] + 1
      BY <1>5, <1>6, <2>2 DEF Layout
    <3>5. Reached(a, a[0] + 1)'
      BY <1>1, <1>3, <1>6, <2>2, <3>3, <3>4, GoesOn
    <3> QED BY <1>0, <3>4, <3>5
  <2>3. ASSUME NEW m \in 1..Size, Written(log, pc, m), IndexUpTo(m - 1), c + k = a[m] + 1,
               a[m] < Len(Stream), SubSeq(buffer, 1, k - 1) = Record(log, pc, m)
        PROVE  Reached(a, d)'
    <3>1. IndexUpTo(m)'
      BY <1>1, <1>3, <2>3, CommitDelivered
    <3>2. Indexed(m)'
      <4>1. m \in 0..m /\ \A j \in (m + 1)..m : FALSE
        BY <1>5
      <4> QED BY <3>1, <4>1 DEF Indexed
    <3>3. m \in 0..Size
      BY <1>5
    <3>4. Reached(a, a[m] + 1)'
      BY <1>1, <1>3, <1>6, <2>3, <3>2, <3>3, GoesOn
    <3> QED BY <1>0, <2>3, <3>4
  <2> QED BY <2>1, <2>2, <2>3
<1>8. /\ buffer' \in Seq(Piece) /\ Len(buffer') = Len(buffer) - k
      /\ \A j \in 1..(Len(buffer) - k) : buffer'[j] = Stream[c + k + j]
  <2> DEFINE r == SubSeq(buffer, k + 1, Len(buffer))
  <2>1. \A j \in (k + 1)..Len(buffer) : buffer[j] \in Piece
    BY <1>3, <1>4
  <2>2. k + 1 \in Int /\ Len(buffer) \in Int
    BY <1>3, <1>4
  <2>3. /\ r \in Seq(Piece)
        /\ Len(r) = IF k + 1 <= Len(buffer) THEN Len(buffer) - (k + 1) + 1 ELSE 0
        /\ \A j \in 1..(Len(buffer) - (k + 1) + 1) : r[j] = buffer[k + 1 + j - 1]
    BY ONLY <2>1, <2>2, SubSeqProperties
  <2> HIDE DEF r
  <2>4. /\ Len(buffer) - (k + 1) + 1 = Len(buffer) - k
        /\ \A j \in 1..(Len(buffer) - k) : /\ k + 1 + j - 1 \in 1..Len(buffer)
                                           /\ c + (k + 1 + j - 1) = c + k + j
    BY <1>3, <1>4
  <2>5. Len(r) = Len(buffer) - k
    <3>1. Len(r) = IF k + 1 <= Len(buffer) THEN Len(buffer) - (k + 1) + 1 ELSE 0
      BY <2>3
    <3>2. Len(buffer) \in Nat /\ k \in 1..Len(buffer)
      BY <1>3, <1>4
    <3> QED BY ONLY <3>1, <3>2
  <2>6. \A j \in 1..(Len(buffer) - k) : r[j] = Stream[c + k + j]
    BY <1>3, <2>3, <2>4
  <2> QED BY <1>1, <2>3, <2>5, <2>6 DEF r
<1>9. taken' - Len(buffer') = c + k /\ Len(buffer') <= taken' /\ Len(buffer') <= Len(buffer)
  <2>1. taken' = taken /\ Len(buffer') = Len(buffer) - k
    BY <1>1, <1>8
  <2>2. c \in Nat /\ c + Len(buffer) = taken /\ Len(buffer) \in Nat /\ k \in 1..Len(buffer)
    BY <1>3, <1>4
  <2> QED BY ONLY <2>1, <2>2
<1>10. TypeOK'
  <2>1. DOMAIN byName' = Names
    BY <1>1, <1>2, Delivered DEF TypeOK
  <2>2. Len(buffer') <= MaxRecord
    <3>1. /\ MaxRecord \in Nat /\ Len(buffer) <= MaxRecord /\ Len(buffer) \in Nat
          /\ k \in 1..Len(buffer) /\ Len(buffer') = Len(buffer) - k
      BY <1>2, <1>3, <1>4, <1>8, HistoryAssumption DEF TypeOK
    <3> QED BY ONLY <3>1
  <2> QED BY <1>1, <1>2, <2>1, <2>2 DEF TypeOK
<1>11. PipeInv'
  <2>1. \A j \in 1..Len(buffer') : buffer'[j] = Stream'[taken' - Len(buffer') + j]
    BY <1>5, <1>8, <1>9
  <2>2. (\E b : Layout(log, pc, b) /\ Reached(b, taken - Len(buffer)))'
    <3>1. Layout(log, pc, a)' /\ Reached(a, d)' /\ d = taken' - Len(buffer')
      BY <1>0, <1>1, <1>6, <1>7, <1>9
    <3> QED BY <3>1
  <2>3. /\ sent' <= Len(Stream)'
        /\ scan' \in {"eof", "ended"} => git' # "running" /\ sent' = taken'
        /\ git' = "exited" => sent' = Len(Stream)'
    BY <1>1, <1>2, <1>5 DEF PipeInv
  <2>4. scan' # "ended"
    BY <1>1
  <2> QED BY <1>9, <2>1, <2>2, <2>3, <2>4 DEF PipeInv
<1>12. IndexDone'
  BY <1>1, <1>3 DEF IndexDone
<1> QED BY <1>8, <1>10, <1>11, <1>12 DEF HistoryInv

(* Of the output of a git that succeeded, the rest is the last commit.     *)
LEMMA RestIsLast ==
  ASSUME HistoryInv, ~Ended, ~HasNul, sent = taken, sent = Len(Stream), Deliver(buffer),
         UNCHANGED <<log, paths, pc>>,
         NEW a, Layout(log, pc, a), NEW c, c = taken - Len(buffer), Reached(a, c)
  PROVE  Indexed(Size)'
<1>1. /\ log \in Logs /\ pc \in {"messages", "manifests"}
      /\ Stream \in Seq(Piece) /\ Len(Stream) \in Nat
      /\ buffer \in Seq(Piece) /\ Len(buffer) \in Nat /\ DOMAIN buffer = 1..Len(buffer)
      /\ c \in Nat /\ c + Len(buffer) = Len(Stream)
      /\ \A j \in 1..Len(buffer) : buffer[j] = Stream[c + j]
  BY BufferFacts
<1>2. \A j \in 1..Len(buffer) : buffer[j] # Nul
  BY <1>1 DEF HasNul
<1>3. Size \in Nat /\ Size = Len(log) /\ Size' = Size
  BY <1>1, LogTypes DEF Size
<1>4. TypeOK
  BY DEF HistoryInv
<1>5. CASE c = 0 /\ Indexed(0)
  <2>1. a[0] = 0 /\ 0 \in 0..Size
    BY <1>3 DEF Layout
  <2>2. Len(Stream) = 0
    <3> SUFFICES ASSUME a[0] < Len(Stream) PROVE FALSE
      BY <1>1, <2>1
    <3>1. Stream[1] = Nul
      <4>1. a[0] + 1 = 1
        BY <2>1
      <4> QED BY <1>1, <2>1, <4>1, NextNul
    <3>2. 1 \in 1..Len(buffer) /\ c + 1 = 1
      BY <1>1, <1>5, <2>1
    <3> QED BY <1>1, <1>2, <3>1, <3>2
  <2>3. \A j \in 1..Size : ~Written(log, pc, j)
    <3>1. \A j \in (0 + 1)..Len(log) : ~Written(log, pc, j)
      BY <1>1, <1>3, <2>1, <2>2, NothingWritten DEF Stream
    <3> QED BY <1>3, <3>1
  <2>4. buffer = <<>>
    BY <1>1, <2>2
  <2>5. UNCHANGED <<byName, manifest>>
    BY <1>4, <2>4, Delivered DEF TypeOK
  <2>6. Indexed(0)'
    BY <1>5, <2>5, IndexStays
  <2> QED BY <1>3, <2>3, <2>6, IndexedMore
<1>6. ASSUME NEW m \in 1..Size, Written(log, pc, m), c = a[m - 1] + 1, Indexed(m - 1)
      PROVE  Indexed(Size)'
  <2> DEFINE n == Pieces(log, pc, m)
             r == Record(log, pc, m)
  <2>1. /\ n \in Nat \ {0} /\ a[m] = c + n /\ a[m] <= Len(Stream)
        /\ r \in Seq(Piece) /\ Len(r) = n
        /\ \A p \in 1..n : Stream[c + p] = r[p]
    BY <1>1, <1>6, AtCommit
  <2> HIDE DEF n, r
  <2>2. m \in 0..Size /\ m \in Nat /\ m <= Size
    BY <1>3
  <2>3. a[m] = Len(Stream)
    <3> SUFFICES ASSUME a[m] < Len(Stream) PROVE FALSE
      BY <1>1, <2>1
    <3>1. Stream[a[m] + 1] = Nul
      BY <1>1, <2>2, NextNul
    <3>2. n + 1 \in 1..Len(buffer) /\ c + (n + 1) = a[m] + 1
      BY <1>1, <2>1
    <3> QED BY <1>1, <1>2, <3>1, <3>2
  <2>4. buffer = r
    <3>1. Len(buffer) = n
      <4>1. /\ Len(buffer) \in Nat /\ n \in Nat /\ c \in Nat /\ c + Len(buffer) = Len(Stream)
            /\ c + n = Len(Stream)
        BY <1>1, <2>1, <2>3
      <4> QED BY ONLY <4>1
    <3>2. Len(buffer) = Len(r) /\ \A j \in 1..Len(buffer) : buffer[j] = r[j]
      BY <1>1, <2>1, <3>1
    <3> QED BY ONLY <1>1, <2>1, <3>2, SeqEqual
  <2>5. IndexUpTo(m - 1)
    <3>1. m - 1 \in 0..Size
      BY <1>3
    <3> QED BY <1>1, <1>6, <3>1, IndexedUpTo
  <2>6. IndexUpTo(m)'
    BY <1>1, <1>6, <2>4, <2>5, CommitDelivered DEF r
  <2>7. Indexed(m)'
    <3>1. m \in 0..m /\ \A j \in (m + 1)..m : FALSE
      BY <2>2
    <3> QED BY <2>6, <3>1 DEF Indexed
  <2>8. \A j \in (m + 1)..Size : ~Written(log, pc, j)
    BY <1>1, <1>3, <2>2, <2>3, NothingWritten DEF Stream
  <2> QED BY <1>3, <2>2, <2>7, <2>8, IndexedMore
<1>7. CASE \E m \in 1..Size : Written(log, pc, m) /\ c = a[m - 1] + 1 /\ Indexed(m - 1)
  BY <1>6, <1>7
<1> QED BY <1>5, <1>7 DEF Reached

LEMMA LastTokenStep ==
  ASSUME HistoryInv, LastToken
  PROVE  HistoryInv'
<1>1. /\ ~Ended /\ ~HasNul /\ scan = "eof" /\ Deliver(buffer) /\ buffer' = <<>> /\ scan' = "ended"
      /\ UNCHANGED <<log, paths, pc, git, sent, taken, answers, cancelled>>
  BY DEF LastToken, input, process
<1>2. TypeOK /\ PipeInv
  BY <1>1 DEF HistoryInv
<1>3. /\ log \in Logs /\ pc \in {"messages", "manifests"}
      /\ taken \in Nat /\ sent \in Nat /\ sent <= Len(Stream)
  BY <1>1, BufferFacts
<1>4. /\ buffer' \in Seq(Piece) /\ Len(buffer') = 0 /\ \A j \in 1..Len(buffer') : FALSE
  BY <1>1
<1>5. git # "running" /\ sent = taken /\ (git = "exited" => sent = Len(Stream))
  BY <1>1, <1>2 DEF PipeInv
<1>6. Stream' = Stream
  BY <1>1 DEF Stream
<1>7. git' = "exited" => Indexed(Size)'
  <2> SUFFICES ASSUME git = "exited" PROVE Indexed(Size)'
    BY <1>1
  <2>1. PICK a : Layout(log, pc, a) /\ Reached(a, taken - Len(buffer))
    BY <1>1, <1>2 DEF PipeInv
  <2>2. PICK c : c = taken - Len(buffer)
    OBVIOUS
  <2>3. Reached(a, c)
    BY <2>1, <2>2
  <2> QED BY <1>1, <1>5, <2>1, <2>2, <2>3, RestIsLast
<1>8. TypeOK'
  <2>1. DOMAIN byName' = Names
    BY <1>1, <1>2, Delivered DEF TypeOK
  <2>2. Len(buffer') <= MaxRecord
    BY <1>4, HistoryAssumption
  <2> QED BY <1>1, <1>2, <2>1, <2>2 DEF TypeOK
<1>9. PipeInv'
  <2>1. Len(buffer') <= taken' /\ sent' <= Len(Stream)'
    BY <1>1, <1>3, <1>4, <1>6
  <2> QED BY <1>1, <1>4, <1>5, <1>6, <1>7, <2>1 DEF PipeInv
<1>10. IndexDone'
  BY <1>1, <1>3 DEF IndexDone
<1> QED BY <1>4, <1>8, <1>9, <1>10 DEF HistoryInv

-----------------------------------------------------------------------------
(* The beginning and the end of a pass.                                    *)

LEMMA EmptyBuffer ==
  ASSUME NEW b, b = <<>>, NEW t, t = 0
  PROVE  Len(b) = 0 /\ t - Len(b) = 0
<1>1. Len(b) = 0
  OBVIOUS
<1>2. t - 0 = 0
  OBVIOUS
<1> QED BY <1>1, <1>2

LEMMA NothingRead ==
  ASSUME log \in Logs, sent = 0, taken = 0, buffer = <<>>, scan = "reading", git = "running",
         Indexed(0)
  PROVE  PipeInv
<1>1. PICK a : Layout(log, pc, a)
  BY StreamHasLayout
<1>2. Len(Stream) \in Nat
  BY <1>1 DEF Layout, Stream
<1>3. Len(buffer) = 0 /\ taken - Len(buffer) = 0
  BY EmptyBuffer
<1>4. Reached(a, 0)
  BY DEF Reached
<1> QED BY <1>1, <1>2, <1>3, <1>4 DEF PipeInv

LEMMA InitHistory == Init => HistoryInv
<1> SUFFICES ASSUME Init PROVE HistoryInv
  OBVIOUS
<1>0. Len(<<>>) = 0 /\ DOMAIN <<>> = {} /\ <<>> \in Seq(Entry)
  OBVIOUS
<1>1. TypeOK
  <2>1. /\ log \in Logs /\ paths \in BOOLEAN /\ cancelled = FALSE /\ pc = "messages"
        /\ git = "running" /\ scan = "reading" /\ sent = 0 /\ taken = 0 /\ buffer = <<>>
        /\ DOMAIN byName = Names /\ DOMAIN answers = Names
    BY DEF Init
  <2>2. sent - taken <= PipeSize /\ taken \in 0..sent /\ Len(buffer) <= MaxRecord
    BY <1>0, <2>1, HistoryAssumption
  <2> QED BY <2>1, <2>2 DEF TypeOK
<1>2. NamedUpTo(0)
  <2>1. \A n \in Names : byName[n] = <<>>
    BY DEF Init
  <2>2. ASSUME NEW n \in Names
        PROVE  /\ byName[n] \in Seq(Entry) /\ InOrder(byName[n])
               /\ \A k \in DOMAIN byName[n] : byName[n][k].commit <= 0
    BY <1>0, <2>1 DEF InOrder
  <2> QED BY <2>2 DEF NamedUpTo
<1>3. IndexUpTo(0)
  BY <1>2 DEF IndexUpTo, Init
<1>4. Indexed(0)
  BY <1>3 DEF Indexed
<1>5. PipeInv
  BY <1>4, NothingRead DEF Init
<1> QED BY <1>1, <1>5 DEF Init, HistoryInv, IndexDone

LEMMA WaitStep ==
  ASSUME HistoryInv, Wait
  PROVE  HistoryInv'
<1>1. /\ ~Ended /\ scan \in {"ended", "too long"} /\ git # "running"
      /\ IF scan = "too long" \/ git = "failed" THEN pc' = "failed" ELSE pc' = NextPass
      /\ git' = "running" /\ sent' = 0
      /\ taken' = 0 /\ buffer' = <<>> /\ scan' = "reading"
      /\ UNCHANGED <<log, paths, byName, manifest, answers, cancelled>>
  BY DEF Wait, input, index
<1>2. TypeOK /\ PipeInv /\ log \in Logs /\ pc \in {"messages", "manifests"}
  BY <1>1 DEF HistoryInv, TypeOK, Ended
<1>3. Len(<<>>) = 0 /\ DOMAIN <<>> = {} /\ <<>> \in Seq(Piece)
  OBVIOUS
<1>4. pc' \in {"manifests", "done", "failed"}
  BY <1>1 DEF NextPass
<1>5. TypeOK'
  <2>1. sent' - taken' <= PipeSize /\ taken' \in 0..sent' /\ Len(buffer') <= MaxRecord
    <3>1. Len(buffer') = 0
      BY <1>1, EmptyBuffer
    <3>2. sent' = 0 /\ taken' = 0
      BY <1>1
    <3>3. sent' - taken' = 0 /\ taken' \in 0..sent'
      BY ONLY <3>2
    <3> QED BY <3>1, <3>3, HistoryAssumption
  <2> QED BY <1>1, <1>2, <1>4, <2>1 DEF TypeOK
<1>6. ASSUME pc' # "failed"
      PROVE  IndexUpTo(Size) /\ pc' = NextPass
  <2>1. scan = "ended" /\ git = "exited" /\ pc' = NextPass
    BY <1>1, <1>2, <1>6 DEF TypeOK
  <2>2. Indexed(Size)
    BY <1>2, <2>1 DEF PipeInv
  <2>3. Size \in 0..Size
    BY <1>2, LogTypes DEF Size
  <2> QED BY <1>2, <2>1, <2>2, <2>3, IndexedUpTo
<1>7. IndexDone'
  <2> SUFFICES ASSUME pc' = "done"
               PROVE  NamedUpTo(Size)' /\ (paths => ManifestUpTo(Size)') /\ (~paths => manifest = <<>>)
    BY <1>1 DEF IndexDone
  <2>1. IndexUpTo(Size) /\ (pc = "manifests" \/ ~paths)
    BY <1>2, <1>6 DEF NextPass
  <2>2. CASE pc = "messages"
    BY <1>1, <2>1, <2>2, IndexKept DEF IndexUpTo
  <2>3. CASE pc = "manifests"
    BY <1>1, <2>1, <2>3, IndexKept DEF IndexUpTo
  <2> QED BY <1>2, <2>2, <2>3
<1>8. ASSUME pc' = "manifests"
      PROVE  PipeInv'
  <2>1. IndexUpTo(Size) /\ pc = "messages" /\ paths
    BY <1>2, <1>6, <1>8 DEF NextPass
  <2>2. NamedUpTo(Size) /\ manifest = <<>>
    BY <2>1 DEF IndexUpTo
  <2>3. NamedUpTo(Size)'
    BY <1>1, <2>2, IndexKept
  <2>4. ManifestUpTo(0)'
    <3>0. <<>> \in Seq(Excerpted)
      BY EmptySeq
    <3>1. manifest' = <<>> /\ manifest' \in Seq(Excerpted)
      BY <1>1, <2>2, <3>0
    <3>2. InOrder(manifest)'
      BY <1>3, <3>1 DEF InOrder
    <3> QED BY <1>3, <3>1, <3>2 DEF ManifestUpTo
  <2>5. Indexed(0)'
    <3>1. IndexUpTo(0)'
      BY <1>1, <1>8, <2>1, <2>3, <2>4 DEF IndexUpTo
    <3>2. 0 \in 0..0 /\ \A j \in (0 + 1)..0 : FALSE
      OBVIOUS
    <3> QED BY <3>1, <3>2 DEF Indexed
  <2>6. PICK a : Layout(log', pc', a)
    BY <1>1, <1>2, StreamHasLayout
  <2>7. Len(Stream') \in Nat
    BY <2>6 DEF Layout, Stream
  <2>8. Reached(a, 0)'
    BY <2>5 DEF Reached
  <2>9. Len(buffer') = 0 /\ taken' - Len(buffer') = 0
    BY <1>1, EmptyBuffer
  <2>10. (\E b : Layout(log, pc, b) /\ Reached(b, taken - Len(buffer)))'
    <3>1. PICK d : d = 0
      OBVIOUS
    <3>2. Layout(log, pc, a)' /\ Reached(a, d)' /\ d = taken' - Len(buffer')
      BY <2>6, <2>8, <2>9, <3>1
    <3> QED BY <3>2
  <2>11. sent' <= Len(Stream') /\ Len(buffer') <= taken' /\ \A j \in 1..Len(buffer') : FALSE
    <3>1. Len(buffer') = 0 /\ taken' = 0 /\ sent' = 0
      BY <1>1, <2>9
    <3> QED BY <2>7, <3>1
  <2> QED BY <1>1, <2>10, <2>11 DEF PipeInv
<1>9. ~Ended' => PipeInv'
  BY <1>4, <1>8 DEF Ended
<1> QED BY <1>1, <1>3, <1>5, <1>7, <1>9 DEF HistoryInv

(* After building, a query changes answers only.                           *)
LEMMA QueryStep ==
  ASSUME HistoryInv, NEW n \in Names, Query(n)
  PROVE  HistoryInv'
<1>1. /\ UNCHANGED <<log, paths, pc, git, sent, taken, buffer, scan, byName, manifest, cancelled>>
      /\ pc = "done" /\ DOMAIN answers' = DOMAIN answers
  BY DEF Query, input, process, scanner, index
<1>2. TypeOK' /\ (buffer \in Seq(Piece))'
  BY <1>1 DEF HistoryInv, TypeOK
<1>3. IndexDone'
  BY <1>1, IndexStays DEF HistoryInv
<1> QED BY <1>1, <1>2, <1>3 DEF HistoryInv, Ended

LEMMA StutterStep ==
  ASSUME HistoryInv, UNCHANGED vars
  PROVE  HistoryInv'
<1>1. UNCHANGED <<log, paths, pc, git, sent, taken, buffer, scan, byName, manifest, answers, cancelled>>
  BY DEF vars, input, process, scanner, index
<1>2. TypeOK' /\ (buffer \in Seq(Piece))'
  BY <1>1 DEF HistoryInv, TypeOK
<1>3. IndexDone'
  BY <1>1, IndexStays DEF HistoryInv
<1>4. PipeInv => PipeInv'
  <2> SUFFICES ASSUME PipeInv PROVE PipeInv'
    OBVIOUS
  <2>1. Stream' = Stream /\ Size' = Size /\ (Indexed(Size) => Indexed(Size)')
    BY <1>1, IndexStays
  <2>2. (\E a : Layout(log, pc, a) /\ Reached(a, taken - Len(buffer))) =>
        (\E a : Layout(log, pc, a) /\ Reached(a, taken - Len(buffer)))'
    <3>1. taken' = taken /\ buffer' = buffer
      BY <1>1
    <3> QED BY <1>1, <3>1, IndexStays
  <2> QED BY <1>1, <2>1, <2>2 DEF PipeInv
<1> QED BY <1>1, <1>2, <1>3, <1>4 DEF HistoryInv, Ended

THEOREM HistoryInvariant == Spec => []HistoryInv
<1>1. HistoryInv /\ [Next]_vars => HistoryInv'
  <2> SUFFICES ASSUME HistoryInv, [Next]_vars PROVE HistoryInv'
    OBVIOUS
  <2>1. CASE GitWrites \/ GitExits \/ GitFails \/ Cancel \/ Kill \/ ReadEnd \/ TooLong
    BY <2>1, PipeSteps
  <2>2. CASE Read
    BY <2>2, ReadStep
  <2>3. CASE Token
    BY <2>3, TokenStep
  <2>4. CASE LastToken
    BY <2>4, LastTokenStep
  <2>5. CASE Wait
    BY <2>5, WaitStep
  <2>6. CASE \E n \in Names : Query(n)
    BY <2>6, QueryStep
  <2>7. CASE UNCHANGED vars
    BY <2>7, StutterStep
  <2> QED BY <2>1, <2>2, <2>3, <2>4, <2>5, <2>6, <2>7 DEF Next, Git, Scanning, Finished
<1> QED BY InitHistory, <1>1, PTL DEF Spec

-----------------------------------------------------------------------------
(* What For collects.                                                      *)

Found == [commit: Nat, details: SUBSET Names]

(* Each commit of S once, in For's order and with its excerpts.            *)
Lists(out, n, S) ==
  /\ out \in Seq(Found)
  /\ {out[k].commit : k \in DOMAIN out} = S
  /\ \A j, k \in DOMAIN out : j < k => Precedes(n, out[j].commit, out[k].commit)
  /\ \A k \in DOMAIN out : out[k].details = Details(n, out[k].commit)

(* A new commit i comes behind those of S. *)
Behind(n, i, S) == i \notin S => \A b \in S : Precedes(n, b, i)

LEMMA AddNewType ==
  ASSUME NEW n \in Names, NEW out \in Seq(Found), NEW i \in Nat
  PROVE  AddNew(out, n, i) \in Seq(Found)
<1>1. [commit |-> i, details |-> Details(n, i)] \in Found
  <2>1. Details(n, i) \in SUBSET Names
    BY DEF Details
  <2> QED BY <2>1 DEF Found
<1>2. PICK x \in Found : x = [commit |-> i, details |-> Details(n, i)]
  BY <1>1
<1>3. Append(out, x) \in Seq(Found)
  BY AppendProperties
<1> QED BY <1>2, <1>3 DEF AddNew

LEMMA AddNewLists ==
  ASSUME NEW n \in Names, NEW out, NEW S, Lists(out, n, S), NEW i \in Nat, Behind(n, i, S)
  PROVE  Lists(AddNew(out, n, i), n, S \cup {i})
<1>1. out \in Seq(Found) /\ Len(out) \in Nat /\ DOMAIN out = 1..Len(out)
  BY DEF Lists
<1>2. CASE i \in S
  <2>1. \E k \in DOMAIN out : out[k].commit = i
    BY <1>2 DEF Lists
  <2>2. AddNew(out, n, i) = out
    BY <2>1 DEF AddNew, Range
  <2>3. S \cup {i} = S
    BY <1>2
  <2> QED BY <2>2, <2>3
<1>3. CASE i \notin S
  <2> DEFINE x == [commit |-> i, details |-> Details(n, i)]
             t == Append(out, x)
  <2>1. \A k \in DOMAIN out : out[k].commit # i /\ out[k].commit \in S
    BY <1>3 DEF Lists
  <2>2. AddNew(out, n, i) = t
    BY <2>1 DEF AddNew, Range
  <2>3. x \in Found /\ x.commit = i /\ x.details = Details(n, i)
    <3>1. Details(n, i) \in SUBSET Names
      BY DEF Details
    <3> QED BY <3>1 DEF Found
  <2> HIDE DEF x
  <2>4. /\ t \in Seq(Found) /\ Len(t) = Len(out) + 1 /\ t[Len(out) + 1] = x
        /\ \A k \in 1..Len(out) : t[k] = out[k]
    BY <1>1, <2>3, AppendProperties
  <2> HIDE DEF t
  <2>5. /\ DOMAIN t = 1..(Len(out) + 1)
        /\ \A k \in DOMAIN t : k \in 1..Len(out) \/ k = Len(out) + 1
    BY <1>1, <2>4
  <2>6. {t[k].commit : k \in DOMAIN t} = S \cup {i}
    <3>1. \A k \in 1..Len(out) : t[k].commit = out[k].commit /\ k \in DOMAIN t
      BY <1>1, <2>4, <2>5
    <3>2. Len(out) + 1 \in DOMAIN t /\ t[Len(out) + 1].commit = i
      BY <1>1, <2>3, <2>4, <2>5
    <3>3. S = {out[k].commit : k \in 1..Len(out)}
      BY <1>1 DEF Lists
    <3> QED BY <2>5, <3>1, <3>2, <3>3
  <2>7. \A k \in DOMAIN t : t[k].details = Details(n, t[k].commit)
    BY <1>1, <2>3, <2>4, <2>5 DEF Lists
  <2>8. \A j, k \in DOMAIN t : j < k => Precedes(n, t[j].commit, t[k].commit)
    <3> SUFFICES ASSUME NEW j \in DOMAIN t, NEW k \in DOMAIN t, j < k
                 PROVE  Precedes(n, t[j].commit, t[k].commit)
      OBVIOUS
    <3>1. j \in 1..Len(out) /\ t[j] = out[j]
      BY <1>1, <2>4, <2>5
    <3>2. CASE k \in 1..Len(out)
      BY <1>1, <2>4, <3>1, <3>2 DEF Lists
    <3>3. CASE k = Len(out) + 1
      <4>1. out[j].commit \in S /\ t[k].commit = i
        BY <1>1, <2>1, <2>3, <2>4, <3>1, <3>3
      <4>2. Precedes(n, out[j].commit, i)
        BY <1>3, <4>1 DEF Behind
      <4> QED BY <3>1, <4>1, <4>2
    <3> QED BY <2>5, <3>2, <3>3
  <2> QED BY <2>2, <2>4, <2>6, <2>7, <2>8 DEF Lists
<1> QED BY <1>2, <1>3

(* A loop over the entries of s that adds those of A. *)
Collects(g, base, s, A, n) ==
  /\ g \in [0..Len(s) -> Seq(Found)] /\ g[0] = base
  /\ \A k \in 1..Len(s) :
       g[k] = IF k \in A THEN AddNew(g[k - 1], n, s[k].commit) ELSE g[k - 1]

Commits(s, A) == {s[k].commit : k \in A}

LEMMA Collected ==
  ASSUME NEW n \in Names, NEW s, s \in Seq(Entry) \/ s \in Seq(Excerpted),
         NEW A \in SUBSET (1..Len(s)), NEW base, NEW B, Lists(base, n, B),
         \A k \in A : Behind(n, s[k].commit, B \cup Commits(s, {j \in A : j < k})),
         NEW g, Collects(g, base, s, A, n)
  PROVE  Lists(g[Len(s)], n, B \cup Commits(s, A))
<1>1. Len(s) \in Nat /\ \A k \in 1..Len(s) : s[k].commit \in Nat
  BY EntryFacts
<1>0. \A j \in A : j \in Nat /\ j \in 1..Len(s)
  BY <1>1
<1> DEFINE C(k) == B \cup Commits(s, {j \in A : j <= k})
           T == {k \in Nat : k <= Len(s) => Lists(g[k], n, C(k))}
<1>2. 0 \in T
  <2>1. {j \in A : j <= 0} = {}
    <3>1. ASSUME NEW j \in A, j <= 0 PROVE FALSE
      BY <1>0, <3>1
    <3> QED BY <3>1
  <2>2. C(0) = B
    BY <2>1 DEF Commits
  <2> HIDE DEF C
  <2> QED BY <2>2 DEF Collects
<1>3. ASSUME NEW k \in Nat, k \in T PROVE k + 1 \in T
  <2> SUFFICES ASSUME k + 1 <= Len(s) PROVE Lists(g[k + 1], n, C(k + 1))
    OBVIOUS
  <2>1. k + 1 \in 1..Len(s) /\ (k + 1) - 1 = k /\ Lists(g[k], n, C(k)) /\ s[k + 1].commit \in Nat
    BY <1>1, <1>3
  <2>2. g[k + 1] = IF k + 1 \in A THEN AddNew(g[k], n, s[k + 1].commit) ELSE g[k]
    <3>1. g[k + 1] = IF k + 1 \in A THEN AddNew(g[(k + 1) - 1], n, s[k + 1].commit) ELSE g[(k + 1) - 1]
      BY <2>1 DEF Collects
    <3> QED BY <2>1, <3>1
  <2>3. /\ k + 1 \in A => {j \in A : j <= k + 1} = {j \in A : j <= k} \cup {k + 1}
        /\ k + 1 \notin A => {j \in A : j <= k + 1} = {j \in A : j <= k}
    <3>1. ASSUME NEW j \in A PROVE j <= k + 1 <=> j <= k \/ j = k + 1
      BY <1>0
    <3> QED BY <3>1
  <2>4. CASE k + 1 \in A
    <3>1. {j \in A : j < k + 1} = {j \in A : j <= k}
      <4>1. ASSUME NEW j \in A PROVE j < k + 1 <=> j <= k
        BY <1>0
      <4> QED BY <4>1
    <3>2. Behind(n, s[k + 1].commit, C(k))
      <4>1. Behind(n, s[k + 1].commit, B \cup Commits(s, {j \in A : j < k + 1}))
        BY <2>4
      <4> QED BY <3>1, <4>1
    <3>3. {j \in A : j <= k + 1} = {j \in A : j <= k} \cup {k + 1}
      BY <2>4, <2>3
    <3>4. C(k + 1) = C(k) \cup {s[k + 1].commit}
      BY <3>3 DEF Commits
    <3> HIDE DEF C
    <3> QED BY <2>1, <2>2, <2>4, <3>2, <3>4, AddNewLists
  <2>5. CASE k + 1 \notin A
    <3>1. {j \in A : j <= k + 1} = {j \in A : j <= k}
      BY <2>5, <2>3
    <3>2. C(k + 1) = C(k)
      BY <3>1
    <3> HIDE DEF C
    <3> QED BY <2>1, <2>2, <2>5, <3>2
  <2> QED BY <2>4, <2>5
<1>4. Lists(g[Len(s)], n, C(Len(s)))
  <2>1. Nat \subseteq T
    <3> HIDE DEF T
    <3> QED BY <1>2, <1>3, NextNumbers
  <2> HIDE DEF C
  <2> QED BY <1>1, <2>1
<1>5. {j \in A : j <= Len(s)} = A
  <2>1. ASSUME NEW j \in A PROVE j <= Len(s)
    BY <1>0, <1>1
  <2> QED BY <2>1
<1> QED BY <1>4, <1>5

(* The two loops of For. *)
MessagesAdded(name, s) == FoldLeft(LAMBDA out, m : AddNew(out, name, m.commit), <<>>, s)

ManifestsAdded(name, base, s) ==
  FoldLeft(LAMBDA out, m : IF name \in m.changes THEN AddNew(out, name, m.commit) ELSE out, base, s)

LEMMA MessagesCollected ==
  ASSUME NEW name \in Names, NEW s \in Seq(Entry)
  PROVE  \E g : Collects(g, <<>>, s, 1..Len(s), name) /\ MessagesAdded(name, s) = g[Len(s)]
<1> DEFINE n == Len(s)
           V == Seq(Found)
           next(out, m) == AddNew(out, name, m.commit)
           step == [p \in V \X (1..n) |-> next(p[1], s[p[2]])]
           Rec(f) == f = [u \in SUBSET (1..n) |-> IF u = {} THEN <<>>
                            ELSE next(f[u \ {Max(u)}], s[Max(u)])]
           iter == CHOOSE f : Rec(f)
<1>1. n \in Nat /\ DOMAIN s = 1..n /\ \A k \in 1..n : s[k].commit \in Nat
  BY EntryFacts
<1>2. step \in [V \X (1..n) -> V]
  <2>1. ASSUME NEW out \in V, NEW k \in 1..n PROVE next(out, s[k]) \in V
    BY <1>1, AddNewType
  <2> HIDE DEF V, next, n
  <2> QED BY <2>1
<1>3. PICK g, f : Runs(g, f, V, <<>>, n, step)
  <2>1. <<>> \in V
    BY EmptySeq
  <2> HIDE DEF step, n, V
  <2> QED BY <1>1, <1>2, <2>1, Loop
<1>4. Rec(f)
  <2> HIDE DEF next, n
  <2> QED BY <1>3 DEF Runs
<1>5. Rec(iter)
  <2> HIDE DEF Rec
  <2> QED BY <1>4
<1>6. MessagesAdded(name, s) = iter[1..n]
  <2>1. MessagesAdded(name, s) = iter[DOMAIN s]
    BY <1>1, Zenon DEF MessagesAdded, FoldLeft, MapThenFoldSet
  <2> QED BY <2>1, <1>1
<1> HIDE DEF iter, n, next, V
<1>7. iter[1..n] = g[n]
  <2>1. iter[{}] = <<>>
    BY <1>5
  <2>2. ASSUME NEW k \in 1..n, iter[1..(k - 1)] \in V
        PROVE  iter[1..k] = step[<<iter[1..(k - 1)], k>>]
    BY <1>1, <1>5, <2>2, FirstPositions
  <2> QED BY <2>1, <2>2, <1>3 DEF Runs
<1>8. /\ g \in [0..n -> V] /\ g[0] = <<>>
      /\ \A k \in 1..n : g[k - 1] \in V /\ g[k] = next(g[k - 1], s[k])
  BY <1>3 DEF Runs
<1>9. Collects(g, <<>>, s, 1..Len(s), name)
  BY <1>8 DEF Collects, n, V, next
<1> QED BY <1>6, <1>7, <1>9 DEF n

LEMMA ManifestsCollected ==
  ASSUME NEW name \in Names, NEW base \in Seq(Found), NEW s \in Seq(Excerpted)
  PROVE  \E g : Collects(g, base, s, {k \in 1..Len(s) : name \in s[k].changes}, name) /\ ManifestsAdded(name, base, s) = g[Len(s)]
<1> DEFINE n == Len(s)
           V == Seq(Found)
           next(out, m) == IF name \in m.changes THEN AddNew(out, name, m.commit) ELSE out
           step == [p \in V \X (1..n) |-> next(p[1], s[p[2]])]
           Rec(f) == f = [u \in SUBSET (1..n) |-> IF u = {} THEN base
                            ELSE next(f[u \ {Max(u)}], s[Max(u)])]
           iter == CHOOSE f : Rec(f)
<1>1. n \in Nat /\ DOMAIN s = 1..n /\ \A k \in 1..n : s[k].commit \in Nat
  BY EntryFacts
<1>2. step \in [V \X (1..n) -> V]
  <2>1. ASSUME NEW out \in V, NEW k \in 1..n PROVE next(out, s[k]) \in V
    BY <1>1, AddNewType
  <2> HIDE DEF V, next, n
  <2> QED BY <2>1
<1>3. PICK g, f : Runs(g, f, V, base, n, step)
  <2>1. base \in V
    BY EmptySeq
  <2> HIDE DEF step, n, V
  <2> QED BY <1>1, <1>2, <2>1, Loop
<1>4. Rec(f)
  <2> HIDE DEF next, n
  <2> QED BY <1>3 DEF Runs
<1>5. Rec(iter)
  <2> HIDE DEF Rec
  <2> QED BY <1>4
<1>6. ManifestsAdded(name, base, s) = iter[1..n]
  <2>1. ManifestsAdded(name, base, s) = iter[DOMAIN s]
    BY <1>1, Zenon DEF ManifestsAdded, FoldLeft, MapThenFoldSet
  <2> QED BY <2>1, <1>1
<1> HIDE DEF iter, n, next, V
<1>7. iter[1..n] = g[n]
  <2>1. iter[{}] = base
    BY <1>5
  <2>2. ASSUME NEW k \in 1..n, iter[1..(k - 1)] \in V
        PROVE  iter[1..k] = step[<<iter[1..(k - 1)], k>>]
    BY <1>1, <1>5, <2>2, FirstPositions
  <2> QED BY <2>1, <2>2, <1>3 DEF Runs
<1>8. /\ g \in [0..n -> V] /\ g[0] = base
      /\ \A k \in 1..n : g[k - 1] \in V /\ g[k] = next(g[k - 1], s[k])
  BY <1>3 DEF Runs
<1>9. Collects(g, base, s, {k \in 1..Len(s) : name \in s[k].changes}, name)
  BY <1>8 DEF Collects, n, V, next
<1> QED BY <1>6, <1>7, <1>9 DEF n

LEMMA PlacesFinite ==
  ASSUME NEW s, s \in Seq(Entry) \/ s \in Seq(Excerpted), NEW i
  PROVE  Cardinality(Places(s, i)) # 0 <=> \E k \in 1..Len(s) : s[k].commit = i
<1>1. Len(s) \in Nat /\ DOMAIN s = 1..Len(s)
  BY EntryFacts
<1>2. IsFiniteSet(1..Len(s)) /\ Places(s, i) \subseteq 1..Len(s)
  BY <1>1, FS_Interval DEF Places
<1>3. IsFiniteSet(Places(s, i))
  BY <1>2, FS_Subset
<1>4. Cardinality(Places(s, i)) # 0 <=> Places(s, i) # {}
  BY <1>3, FS_EmptySet
<1> QED BY <1>1, <1>4 DEF Places

(* What a complete index holds of a dependency. *)
LEMMA DoneFacts ==
  ASSUME log \in Logs, IndexDone, pc = "done", NEW n \in Range(Needles)
  PROVE  LET s == byName[n]
             A == {k \in 1..Len(manifest) : n \in manifest[k].changes}
         IN /\ n \in Names /\ s \in Seq(Entry) /\ manifest \in Seq(Excerpted)
            /\ \A j, k \in 1..Len(s) : j <= k => s[j].commit <= s[k].commit
            /\ \A j, k \in 1..Len(manifest) : j <= k => manifest[j].commit <= manifest[k].commit
            /\ Commits(s, 1..Len(s)) = {i \in 1..Size : Mentions(n, i)}
            /\ Commits(manifest, A) = {i \in 1..Size : Excerpt(n, i)}
<1> DEFINE s == byName[n]
           A == {k \in 1..Len(manifest) : n \in manifest[k].changes}
<1>1. Size \in Nat /\ DOMAIN log = 1..Size
  BY LogTypes DEF Size
<1>2. n \in Names
  BY HistoryAssumption DEF Range
<1>3. NamedUpTo(Size) /\ (paths => ManifestUpTo(Size)) /\ (~paths => manifest = <<>>)
  BY DEF IndexDone
<1>4. /\ s \in Seq(Entry) /\ InOrder(s)
      /\ \A i \in 1..Size :
           Cardinality(Places(s, i)) = IF Mentions(n, i) THEN Times(n) ELSE 0
  BY <1>2, <1>3 DEF NamedUpTo
<1> HIDE DEF s
<1>5. Len(s) \in Nat /\ DOMAIN s = 1..Len(s)
  BY <1>4, EntryFacts
<1>6. /\ \A k \in 1..Len(s) : s[k].commit \in 1..Size
      /\ \A j, k \in 1..Len(s) : j <= k => s[j].commit <= s[k].commit
  BY <1>1, <1>4, <1>5 DEF InOrder
<1>7. \A i \in 1..Size : Mentions(n, i) <=> \E k \in 1..Len(s) : s[k].commit = i
  <2> SUFFICES ASSUME NEW i \in 1..Size
               PROVE  Mentions(n, i) <=> \E k \in 1..Len(s) : s[k].commit = i
    OBVIOUS
  <2>1. Times(n) # 0
    BY TimesType
  <2>2. Mentions(n, i) <=> Cardinality(Places(s, i)) # 0
    BY <1>4, <2>1
  <2> QED BY <1>4, <2>2, PlacesFinite
<1>8. Commits(s, 1..Len(s)) = {i \in 1..Size : Mentions(n, i)}
  BY <1>6, <1>7 DEF Commits
<1>9. CASE paths
  <2>1. /\ manifest \in Seq(Excerpted) /\ InOrder(manifest)
        /\ \A k \in DOMAIN manifest : manifest[k].changes = log[manifest[k].commit].changes
        /\ \A i \in 1..Size :
             Cardinality(Places(manifest, i)) = IF log[i].manifest THEN 1 ELSE 0
    BY <1>3, <1>9 DEF ManifestUpTo
  <2>2. Len(manifest) \in Nat /\ DOMAIN manifest = 1..Len(manifest)
    BY <2>1, EntryFacts
  <2>3. /\ \A k \in 1..Len(manifest) : manifest[k].commit \in 1..Size
        /\ \A j, k \in 1..Len(manifest) : j <= k => manifest[j].commit <= manifest[k].commit
    BY <1>1, <2>1, <2>2 DEF InOrder
  <2>4. \A i \in 1..Size : log[i].manifest <=> \E k \in 1..Len(manifest) : manifest[k].commit = i
    BY <2>1, PlacesFinite, <1>1
  <2>5. \A k \in 1..Len(manifest) : n \in manifest[k].changes <=> Excerpt(n, manifest[k].commit)
    BY <1>9, <2>1, <2>2, <2>3, <2>4 DEF Excerpt
  <2>6. \A i \in 1..Size : Excerpt(n, i) => \E k \in 1..Len(manifest) : manifest[k].commit = i
    BY <2>4 DEF Excerpt
  <2>7. Commits(manifest, A) = {i \in 1..Size : Excerpt(n, i)}
    BY <2>3, <2>5, <2>6 DEF Commits
  <2> QED BY <1>2, <1>4, <1>6, <1>8, <2>1, <2>3, <2>7 DEF s
<1>10. CASE ~paths
  <2>1. manifest = <<>> /\ \A i : ~Excerpt(n, i)
    BY <1>3, <1>10 DEF Excerpt
  <2>2. Len(manifest) = 0 /\ manifest \in Seq(Excerpted)
    BY <2>1, EmptySeq
  <2>3. \A k \in 1..Len(manifest) : FALSE
    BY <2>2
  <2>4. Commits(manifest, A) = {i \in 1..Size : Excerpt(n, i)}
    BY <2>1, <2>3 DEF Commits
  <2> QED BY <1>2, <1>4, <1>6, <1>8, <2>2, <2>3, <2>4 DEF s
<1> QED BY <1>9, <1>10

Exact(n, out) ==
  /\ {out[k].commit : k \in DOMAIN out} = {i \in DOMAIN log : Mentions(n, i) \/ Excerpt(n, i)}
  /\ \A j, k \in DOMAIN out : j < k => Precedes(n, out[j].commit, out[k].commit)
  /\ \A k \in DOMAIN out : out[k].details = IF Excerpt(n, out[k].commit) THEN {n} ELSE {}

(* First the commits that mention the name, then the others with excerpts. *)
LEMMA AnswerExact ==
  ASSUME log \in Logs, IndexDone, pc = "done", NEW n \in Range(Needles)
  PROVE  Exact(n, For(n))
<1> DEFINE A == {k \in 1..Len(manifest) : n \in manifest[k].changes}
           M == {i \in 1..Size : Mentions(n, i)}
           E == {i \in 1..Size : Excerpt(n, i)}
<1>1. PICK s : s = byName[n]
  OBVIOUS
<1>2. /\ n \in Names /\ s \in Seq(Entry) /\ manifest \in Seq(Excerpted)
      /\ \A j, k \in 1..Len(s) : j <= k => s[j].commit <= s[k].commit
      /\ \A j, k \in 1..Len(manifest) : j <= k => manifest[j].commit <= manifest[k].commit
      /\ Commits(s, 1..Len(s)) = M
      /\ Commits(manifest, A) = E
  BY <1>1, DoneFacts
<1>3. Size \in Nat /\ DOMAIN log = 1..Size
  BY LogTypes DEF Size
<1>4. /\ Len(s) \in Nat /\ \A k \in 1..Len(s) : s[k].commit \in Nat
      /\ Len(manifest) \in Nat /\ DOMAIN manifest = 1..Len(manifest)
      /\ \A k \in 1..Len(manifest) : manifest[k].commit \in Nat
  BY <1>2, EntryFacts
<1> HIDE DEF A, M, E
<1>5. PICK out : out = MessagesAdded(n, s)
  OBVIOUS
<1>6. Lists(out, n, M)
  <2>1. PICK g : Collects(g, <<>>, s, 1..Len(s), n) /\ out = g[Len(s)]
    BY <1>2, <1>5, MessagesCollected
  <2>2. Lists(<<>>, n, {})
    <3>1. <<>> \in Seq(Found) /\ DOMAIN <<>> = {}
      BY EmptySeq
    <3> QED BY <3>1 DEF Lists
  <2>3. \A k \in 1..Len(s) :
          Behind(n, s[k].commit, {} \cup Commits(s, {j \in 1..Len(s) : j < k}))
    <3> SUFFICES ASSUME NEW k \in 1..Len(s), NEW j \in 1..Len(s), j < k,
                        s[j].commit # s[k].commit
                 PROVE  Precedes(n, s[j].commit, s[k].commit)
      BY DEF Behind, Commits
    <3>1. s[j].commit \in M /\ s[k].commit \in M
      BY <1>2 DEF Commits
    <3>2. j <= k
      BY <1>4
    <3>3. s[j].commit < s[k].commit
      BY <1>2, <1>4, <3>2
    <3> QED BY <3>1, <3>3 DEF Precedes, M
  <2>4. Lists(g[Len(s)], n, {} \cup Commits(s, 1..Len(s)))
    BY <1>2, <2>1, <2>2, <2>3, Collected
  <2> QED BY <1>2, <2>1, <2>4
<1>7. PICK all : all = ManifestsAdded(n, out, manifest)
  OBVIOUS
<1>8. Lists(all, n, M \cup E)
  <2>1. out \in Seq(Found)
    BY <1>6 DEF Lists
  <2>2. PICK g : Collects(g, out, manifest, A, n) /\ all = g[Len(manifest)]
    BY <1>2, <1>7, <2>1, ManifestsCollected DEF A
  <2>3. A \in SUBSET (1..Len(manifest))
    BY DEF A
  <2>4. \A k \in A :
          Behind(n, manifest[k].commit, M \cup Commits(manifest, {j \in A : j < k}))
    <3> SUFFICES ASSUME NEW k \in A, manifest[k].commit \notin M,
                        NEW b \in M \cup Commits(manifest, {j \in A : j < k}),
                        manifest[k].commit # b
                 PROVE  Precedes(n, b, manifest[k].commit)
      BY DEF Behind
    <3>1. manifest[k].commit \in E
      BY <1>2 DEF Commits
    <3>2. ~Mentions(n, manifest[k].commit)
      BY <3>1 DEF M, E
    <3>3. CASE Mentions(n, b)
      BY <3>2, <3>3 DEF Precedes
    <3>4. CASE ~Mentions(n, b)
      <4>1. b \notin M
        BY <3>4 DEF M
      <4>2. PICK j \in A : j < k /\ b = manifest[j].commit
        BY <4>1 DEF Commits
      <4>3. j \in 1..Len(manifest) /\ k \in 1..Len(manifest) /\ j <= k
        BY <1>4, <2>3, <4>2
      <4>4. b < manifest[k].commit
        BY <1>2, <1>4, <4>2, <4>3
      <4> QED BY <3>2, <3>4, <4>4 DEF Precedes
    <3> QED BY <3>3, <3>4
  <2>5. Lists(g[Len(manifest)], n, M \cup Commits(manifest, A))
    BY <1>2, <1>6, <2>2, <2>3, <2>4, Collected
  <2> QED BY <1>2, <2>2, <2>5
<1>9. For(n) = all
  BY <1>1, <1>5, <1>7, Zenon DEF For, MessagesAdded, ManifestsAdded
<1>10. \A i \in 1..Size : Details(n, i) = IF Excerpt(n, i) THEN {n} ELSE {}
  <2> SUFFICES ASSUME NEW i \in 1..Size
               PROVE  Details(n, i) = IF Excerpt(n, i) THEN {n} ELSE {}
    OBVIOUS
  <2>1. (\E m \in Range(manifest) : m.commit = i /\ n \in m.changes) <=> \E k \in A : manifest[k].commit = i
    BY <1>4 DEF Range, A
  <2>2. (\E k \in A : manifest[k].commit = i) <=> i \in E
    BY <1>2 DEF Commits
  <2>3. i \in E <=> Excerpt(n, i)
    BY DEF E
  <2> QED BY <2>1, <2>2, <2>3 DEF Details
<1>11. {all[k].commit : k \in DOMAIN all} = {i \in DOMAIN log : Mentions(n, i) \/ Excerpt(n, i)}
  BY <1>3, <1>8 DEF Lists, M, E
<1>12. \A k \in DOMAIN all : all[k].commit \in 1..Size
  BY <1>3, <1>11
<1>13. \A j, k \in DOMAIN all : j < k => Precedes(n, all[j].commit, all[k].commit)
  BY <1>8 DEF Lists
<1>14. \A k \in DOMAIN all : all[k].details = IF Excerpt(n, all[k].commit) THEN {n} ELSE {}
  <2>1. \A k \in DOMAIN all : all[k].details = Details(n, all[k].commit)
    BY <1>8 DEF Lists
  <2> QED BY <1>10, <1>12, <2>1
<1>15. Exact(n, all)
  BY <1>11, <1>13, <1>14 DEF Exact
<1> QED BY <1>9, <1>15

-----------------------------------------------------------------------------
(* The theorems.                                                           *)

(* Whatever the pipe, git and the context do, the scanner and the index    *)
(* stay well formed, and the scanner holds no more than it may.            *)
THEOREM TypeCorrect == Spec => []TypeOK
<1>1. HistoryInv => TypeOK
  BY DEF HistoryInv
<1> QED BY HistoryInvariant, <1>1, PTL

(* A used index holds every commit that mentions a name and every commit   *)
(* that touches a manifest, whole, in order and as often as it should.     *)
THEOREM IndexAlwaysComplete == Spec => []IndexComplete
<1>1. HistoryInv => IndexComplete
  <2> SUFFICES ASSUME HistoryInv, pc = "done" PROVE IndexComplete
    BY DEF IndexComplete
  <2>1. log \in Logs /\ IndexDone
    BY DEF HistoryInv, TypeOK
  <2>2. Size \in Nat /\ DOMAIN log = 1..Size
    BY <2>1, LogTypes DEF Size
  <2>3. NamedUpTo(Size) /\ (paths => ManifestUpTo(Size)) /\ (~paths => manifest = <<>>)
    BY <2>1 DEF IndexDone
  <2>4. \A n \in Names :
          /\ InOrder(byName[n])
          /\ \A i \in DOMAIN log :
               Cardinality(Places(byName[n], i)) = IF n \in log[i].mentions THEN Times(n) ELSE 0
    BY <2>2, <2>3 DEF NamedUpTo, Mentions
  <2>5. CASE paths
    <3>1. /\ InOrder(manifest)
          /\ \A k \in DOMAIN manifest : manifest[k].changes = log[manifest[k].commit].changes
          /\ \A i \in DOMAIN log : Cardinality(Places(manifest, i)) = IF log[i].manifest THEN 1 ELSE 0
      BY <2>2, <2>3, <2>5 DEF ManifestUpTo
    <3> QED BY <2>4, <2>5, <3>1 DEF IndexComplete
  <2>6. CASE ~paths
    <3>1. \A k \in DOMAIN manifest : FALSE
      BY <2>3, <2>6
    <3>2. \A i \in DOMAIN log : Cardinality(Places(manifest, i)) = 0
      BY <3>1, NoPlaces
    <3>3. InOrder(manifest)
      BY <3>1 DEF InOrder
    <3> QED BY <2>4, <2>6, <3>1, <3>2, <3>3 DEF IndexComplete
  <2> QED BY <2>5, <2>6
<1> QED BY HistoryInvariant, <1>1, PTL

(* Every answer names each relevant commit of its dependency once, in the  *)
(* order of For and with its own excerpts.                                 *)
THEOREM AnswersExact == Spec => []ForExact
<1>1. Init => ForExact
  <2> SUFFICES ASSUME Init PROVE ForExact
    OBVIOUS
  <2>1. \A n \in Range(Needles) : n \in Names
    BY HistoryAssumption DEF Range
  <2> QED BY <2>1 DEF Init, ForExact
<1>2. HistoryInv /\ ForExact /\ [Next]_vars => ForExact'
  <2> SUFFICES ASSUME HistoryInv, ForExact, [Next]_vars PROVE ForExact'
    OBVIOUS
  <2>1. UNCHANGED <<log, paths>>
    BY DEF Next, Git, Scanning, GitWrites, GitExits, GitFails, Cancel, Kill, Read, ReadEnd, TooLong,
           Token, LastToken, Wait, Query, Finished, vars, input
  <2>2. \A n, i, j : /\ Mentions(n, i)' <=> Mentions(n, i)
                     /\ Excerpt(n, i)' <=> Excerpt(n, i)
                     /\ Precedes(n, i, j)' <=> Precedes(n, i, j)
    BY <2>1 DEF Mentions, Excerpt, Precedes
  <2>3. \A n, out : Exact(n, out) => Exact(n, out)'
    BY <2>1, <2>2 DEF Exact
  <2>4. ASSUME NEW n \in Range(Needles), answers'[n] # NoAnswer
        PROVE  Exact(n, answers'[n].commits)
    <3>1. CASE answers'[n] = answers[n]
      BY <2>4, <3>1 DEF ForExact, Exact
    <3>2. CASE answers'[n] # answers[n]
      <4>1. PICK m \in Names : Query(m)
        BY <3>2 DEF Next, Git, Scanning, GitWrites, GitExits, GitFails, Cancel, Kill, Read, ReadEnd,
                    TooLong, Token, LastToken, Wait, Finished, vars
      <4>2. log \in Logs /\ IndexDone /\ pc = "done" /\ DOMAIN answers = Names
        BY <4>1 DEF HistoryInv, TypeOK, Query
      <4>3. answers' = [answers EXCEPT ![m] = [commits |-> For(m)]]
        BY <4>1 DEF Query
      <4>4. n = m /\ answers'[n] = [commits |-> For(n)]
        BY <3>2, <4>2, <4>3
      <4> QED BY <4>2, <4>4, AnswerExact
    <3> QED BY <3>1, <3>2
  <2>5. \A n \in Range(Needles) : answers'[n] # NoAnswer => Exact(n, answers[n].commits)'
    <3> SUFFICES ASSUME NEW n \in Range(Needles), answers'[n] # NoAnswer
                 PROVE  Exact(n, answers[n].commits)'
      OBVIOUS
    <3>1. PICK out : out = answers'[n].commits
      OBVIOUS
    <3>2. Exact(n, out)
      BY <2>4, <3>1
    <3>3. Exact(n, out)'
      BY <2>3, <3>2
    <3> QED BY <3>1, <3>3 DEF Exact
  <2> QED BY <2>5 DEF ForExact, Exact, NoAnswer
<1> QED BY HistoryInvariant, <1>1, <1>2, PTL DEF Spec

-----------------------------------------------------------------------------
(* Waiting for git.                                                        *)

(* A record that fits ends within the buffer: a full buffer has a NUL.     *)
LEMMA FullHasNul ==
  ASSUME HistoryInv, RecordsFit, ~Ended, scan \in {"reading", "eof"}, Len(buffer) = MaxRecord
  PROVE  HasNul
<1> DEFINE c == taken - Len(buffer)
<1>1. /\ log \in Logs /\ pc \in {"messages", "manifests"}
      /\ Len(Stream) \in Nat /\ Len(buffer) \in Nat /\ DOMAIN buffer = 1..Len(buffer)
      /\ c \in Nat /\ c + Len(buffer) <= Len(Stream)
      /\ \A j \in 1..Len(buffer) : buffer[j] = Stream[c + j]
  BY BufferFacts
<1>2. Size \in Nat /\ DOMAIN log = 1..Size /\ MaxRecord \in Nat \ {0}
  BY <1>1, LogTypes, HistoryAssumption DEF Size
<1>3. TypeOK /\ PipeInv
  BY DEF HistoryInv
<1>4. PICK a : Layout(log, pc, a) /\ Reached(a, c)
  BY <1>3 DEF PipeInv
<1>0. pc = "manifests" => paths
  BY <1>4 DEF Reached, Indexed, IndexUpTo
<1> HIDE DEF c
<1>5. CASE c = 0
  <2>1. 0 \in 0..Size /\ a[0] = 0 /\ 1 \in 1..Len(buffer)
    BY <1>2, <1>4 DEF Layout
  <2>2. a[0] < Len(Stream)
    BY <1>1, <1>5, <2>1
  <2>3. Stream[a[0] + 1] = Nul
    BY <1>1, <1>4, <2>1, <2>2, NextNul
  <2>4. buffer[1] = Nul
    BY <1>1, <1>5, <2>1, <2>3
  <2> QED BY <1>1, <2>1, <2>4 DEF HasNul
<1>6. ASSUME NEW m \in 1..Size, Written(log, pc, m), c = a[m - 1] + 1
      PROVE  HasNul
  <2> DEFINE n == Pieces(log, pc, m)
  <2>1. n \in Nat \ {0} /\ a[m] = c + n /\ m \in 0..Size
    BY <1>1, <1>2, <1>4, <1>6, AtCommit
  <2>2. n < MaxRecord
    <3>1. pc = "manifests" => paths /\ log[m].manifest
      BY <1>0, <1>6 DEF Written
    <3>2. m \in DOMAIN log
      BY <1>2
    <3>3. log[m].message \in Nat /\ log[m].patch \in Nat
      BY <1>1, <3>2, HistoryAssumption
    <3>4. log[m].message + (IF paths /\ log[m].manifest THEN log[m].patch ELSE 0) < MaxRecord
      BY <3>2 DEF RecordsFit
    <3> QED BY <1>1, <1>2, <3>1, <3>3, <3>4 DEF Pieces
  <2> HIDE DEF n
  <2>3. n + 1 \in 1..Len(buffer) /\ c + (n + 1) = a[m] + 1 /\ a[m] < Len(Stream)
    BY <1>1, <1>2, <2>1, <2>2
  <2>4. Stream[a[m] + 1] = Nul
    BY <1>1, <1>4, <2>1, <2>3, NextNul
  <2>5. buffer[n + 1] = Nul
    BY <1>1, <2>3, <2>4
  <2> QED BY <1>1, <2>3, <2>5 DEF HasNul
<1> QED BY <1>4, <1>5, <1>6 DEF Reached

(* cmd.Wait is called without anyone left to read the pipe.  When every    *)
(* record fits the scanner, git has exited by then: hyrum and git never    *)
(* wait for each other, as they can after an oversized record (StreamLog). *)
WaitsForEndedGit ==
  RecordsFit /\ ~Ended /\ scan \in {"ended", "too long"} => git # "running"

THEOREM NoMutualWait == Spec => []WaitsForEndedGit
<1> DEFINE Kept == RecordsFit /\ ~Ended => scan # "too long"
<1>1. Init => Kept
  BY DEF Init
<1>2. HistoryInv /\ Kept /\ [Next]_vars => Kept'
  <2> SUFFICES ASSUME HistoryInv, Kept, [Next]_vars, RecordsFit', ~Ended' PROVE scan' # "too long"
    OBVIOUS
  <2>1. RecordsFit
    <3>1. UNCHANGED <<log, paths>>
      BY DEF Next, Git, Scanning, GitWrites, GitExits, GitFails, Cancel, Kill, Read, ReadEnd, TooLong,
             Token, LastToken, Wait, Query, Finished, vars, input
    <3> QED BY <3>1 DEF RecordsFit
  <2>2. ~TooLong
    <3>1. TooLong => ~Ended /\ scan = "reading" /\ ~HasNul /\ Len(buffer) = MaxRecord
      BY DEF TooLong
    <3> QED BY <2>1, <3>1, FullHasNul
  <2>3. scan' = scan \/ scan' \in {"eof", "ended", "reading"}
    BY <2>2 DEF Next, Git, Scanning, GitWrites, GitExits, GitFails, Cancel, Kill, Read, ReadEnd,
                Token, LastToken, Wait, Query, Finished, vars, scanner
  <2>4. scan' = scan => ~Ended
    BY DEF Next, Git, Scanning, GitWrites, GitExits, GitFails, Cancel, Kill, Read, ReadEnd, TooLong,
           Token, LastToken, Wait, Query, Finished, vars, Ended
  <2> QED BY <2>1, <2>3, <2>4
<1>3. HistoryInv /\ Kept => WaitsForEndedGit
  BY DEF HistoryInv, PipeInv, WaitsForEndedGit
<1> QED BY HistoryInvariant, <1>1, <1>2, <1>3, PTL DEF Spec
=============================================================================
