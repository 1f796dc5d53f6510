------------------------- MODULE OutlineBudgetProofs -------------------------
(***************************************************************************)
(* Proofs about OutlineBudget.  The first part computes: what the header   *)
(* and the entries of a document are as numbers, and how the length of a   *)
(* document grows with its files.  The second part carries this through    *)
(* the passes of the selection.                                            *)
(***************************************************************************)
EXTENDS OutlineBudget, Induction, FiniteSetTheorems, TLAPS

-----------------------------------------------------------------------------
(* The digits of a count. *)

LEMMA Quotient ==
  ASSUME NEW k \in Nat, k >= Radix
  PROVE  k \div Radix \in 0..(k - 1)
<1> USE OutlineAssumption DEF OutlineAssumption
<1> DEFINE q == k \div Radix
           r == k % Radix
<1>1. q \in Nat /\ r \in Nat /\ k = Radix * q + r
  <2>1. k \div Radix \in Nat
    OBVIOUS
  <2>2. k = Radix * (k \div Radix) + (k % Radix) /\ k % Radix \in 0..(Radix - 1)
    OBVIOUS
  <2> QED BY <2>1, <2>2
<1> HIDE DEF q, r
<1>2. Radix * q >= 2 * q
  BY <1>1
<1>3. q \in 0..(k - 1)
  BY <1>1, <1>2
<1> QED BY <1>3 DEF q

(* The recursion of Digits as far as n, by a function g.                   *)
DigitsTo(g, n) ==
  /\ g \in [0..n -> Nat]
  /\ \A k \in 0..n : g[k] = IF k < Radix THEN 1 ELSE 1 + g[k \div Radix]

LEMMA DigitsAgree ==
  ASSUME NEW n \in Nat, NEW m \in Nat, NEW g, NEW h, DigitsTo(g, n), DigitsTo(h, m),
         NEW k \in Nat, k <= n, k <= m
  PROVE  g[k] = h[k]
<1> DEFINE T == {j \in Nat : j <= n /\ j <= m => g[j] = h[j]}
<1>1. ASSUME NEW j \in Nat, 0..(j - 1) \subseteq T PROVE j \in T
  <2> SUFFICES ASSUME j <= n, j <= m PROVE g[j] = h[j]
    OBVIOUS
  <2>1. CASE j < Radix
    BY <2>1 DEF DigitsTo
  <2>2. CASE ~ (j < Radix)
    <3>0. Radix \in Nat
      BY OutlineAssumption DEF OutlineAssumption
    <3>1. j \div Radix \in 0..(j - 1)
      BY <2>2, <3>0, Quotient
    <3> DEFINE q == j \div Radix
    <3>2. q \in T /\ q \in Nat /\ q <= n /\ q <= m
      BY <3>1, <1>1
    <3>3. g[j] = 1 + g[q] /\ h[j] = 1 + h[q]
      BY <2>2 DEF DigitsTo
    <3> QED BY <3>2, <3>3
  <2> QED BY <2>1, <2>2
<1>2. Nat \subseteq T
  BY <1>1, AllNumbers
<1> QED BY <1>2

LEMMA DigitsExist == \A n \in Nat : \E g : DigitsTo(g, n)
<1> DEFINE T == {n \in Nat : \E g : DigitsTo(g, n)}
<1>0. Radix \in Nat \ {0, 1}
  BY OutlineAssumption DEF OutlineAssumption
<1>1. 0 \in T
  <2>1. DigitsTo([k \in 0..0 |-> 1], 0)
    BY <1>0 DEF DigitsTo
  <2> QED BY <2>1
<1>2. ASSUME NEW n \in Nat, n \in T PROVE n + 1 \in T
  <2>1. PICK g : DigitsTo(g, n)
    BY <1>2
  <2> DEFINE d == IF n + 1 < Radix THEN 1 ELSE 1 + g[(n + 1) \div Radix]
             h == [k \in 0..(n + 1) |-> IF k = n + 1 THEN d ELSE g[k]]
  <2>2. n + 1 >= Radix => (n + 1) \div Radix \in 0..n
    <3>1. n + 1 \in Nat /\ (n + 1) - 1 = n
      OBVIOUS
    <3> QED BY <3>1, Quotient
  <2>3. d \in Nat
    BY <2>1, <2>2, <1>0, SMTT(30) DEF DigitsTo
  <2>4. h \in [0..(n + 1) -> Nat]
    BY <2>3, <2>1 DEF DigitsTo
  <2>5. ASSUME NEW k \in 0..(n + 1)
        PROVE  h[k] = IF k < Radix THEN 1 ELSE 1 + h[k \div Radix]
    <3>1. CASE k = n + 1
      BY <3>1, <2>2, <1>0
    <3>2. CASE k # n + 1
      <4>1. k \in 0..n /\ h[k] = g[k]
        BY <3>2
      <4>2. k >= Radix => k \div Radix \in 0..(k - 1)
        <5>1. k \in Nat
          OBVIOUS
        <5> QED BY <5>1, Quotient
      <4>3. k >= Radix => h[k \div Radix] = g[k \div Radix]
        BY <4>1, <4>2
      <4> QED BY <4>1, <4>3, <2>1, <1>0, SMTT(30) DEF DigitsTo
    <3> QED BY <3>1, <3>2
  <2>6. DigitsTo(h, n + 1)
    BY <2>4, <2>5 DEF DigitsTo
  <2> QED BY <2>6
<1>3. Nat \subseteq T
  <2> HIDE DEF T
  <2> QED BY <1>1, <1>2, NextNumbers
<1> QED BY <1>3

LEMMA DigitsType == Digits \in [Nat -> Nat]
<1>0. Radix \in Nat \ {0, 1}
  BY OutlineAssumption DEF OutlineAssumption
<1> DEFINE G(n) == CHOOSE g : DigitsTo(g, n)
           f == [n \in Nat |-> G(n)[n]]
           Rec(h) == h = [n \in Nat |-> IF n < Radix THEN 1 ELSE 1 + h[n \div Radix]]
<1>1. \A n \in Nat : DigitsTo(G(n), n)
  BY DigitsExist
<1> HIDE DEF G
<1>2. \A n \in Nat : f[n] \in Nat
  BY <1>1 DEF DigitsTo
<1>3. ASSUME NEW n \in Nat
      PROVE  f[n] = IF n < Radix THEN 1 ELSE 1 + f[n \div Radix]
  <2>1. CASE n < Radix
    BY <2>1, <1>1, SMTT(30) DEF DigitsTo
  <2>2. CASE ~ (n < Radix)
    <3> DEFINE q == n \div Radix
    <3>0. n >= Radix
      BY <2>2, <1>0
    <3>1. q \in 0..(n - 1)
      BY <3>0, Quotient
    <3>2. G(n)[q] = G(q)[q]
      BY <3>1, <1>1, DigitsAgree
    <3>3. G(n)[n] = 1 + G(n)[q]
      BY <2>2, <1>1 DEF DigitsTo
    <3> QED BY <3>1, <3>2, <3>3, <2>2
  <2> QED BY <2>1, <2>2
<1>4. Rec(f)
  BY <1>3
<1>5. Rec(Digits)
  <2>1. Digits = CHOOSE h : Rec(h)
    BY DEF Digits
  <2> HIDE DEF Rec, f
  <2> QED BY <1>4, <2>1
<1> DEFINE T == {n \in Nat : Digits[n] \in Nat}
<1>6. ASSUME NEW n \in Nat, 0..(n - 1) \subseteq T PROVE n \in T
  <2>1. CASE n < Radix
    BY <2>1, <1>5
  <2>2. CASE ~ (n < Radix)
    <3>0. n >= Radix
      BY <2>2, <1>0
    <3>1. n \div Radix \in 0..(n - 1)
      BY <3>0, Quotient
    <3> QED BY <3>1, <2>2, <1>5, <1>6
  <2> QED BY <2>1, <2>2
<1>7. Nat \subseteq T
  BY <1>6, AllNumbers
<1> QED BY <1>5, <1>7

-----------------------------------------------------------------------------
(* The length of a document, as a number of the contents c and the files S.*)

Weight(c, S, n) == IF n \in S THEN c[n].bytes ELSE 0

WrittenUpTo(c, S) ==
  CHOOSE g : g = [n \in 0..Count |-> IF n = 0 THEN 0 ELSE g[n - 1] + Weight(c, S, n)]

Sum(c, S) == WrittenUpTo(c, S)[Count]

Size(c, S) == Header(Cardinality(S)) + Sum(c, S)

LEMMA SizeIsDocumentSize ==
  ASSUME NEW S
  PROVE  SumOfBytes(S) = Sum(content, S) /\ DocumentSize(S) = Size(content, S)
<1>1. SumOfBytes(S) = Sum(content, S)
  BY Zenon DEF SumOfBytes, Sum, WrittenUpTo, Weight
<1> QED BY <1>1 DEF DocumentSize, Size

LEMMA CountNatural == Count \in Nat /\ Files = 1..Count /\ IsFiniteSet(Files)
BY FS_CardinalityType, OutlineAssumption DEF OutlineAssumption, Count

LEMMA HeaderType == \A n \in 0..Count : Header(n) \in Nat
<1>1. HeaderBytes \in Nat
  BY OutlineAssumption DEF OutlineAssumption
<1>2. Count \in Nat
  BY CountNatural
<1> QED BY <1>1, <1>2, DigitsType DEF Header

LEMMA WeightType ==
  ASSUME NEW c \in Outlines, NEW S, NEW n \in 1..Count
  PROVE  Weight(c, S, n) \in Nat
BY CountNatural, OutlineAssumption DEF Weight, OutlineAssumption

LEMMA WrittenRecursion ==
  ASSUME NEW c \in Outlines, NEW S
  PROVE  /\ WrittenUpTo(c, S) \in [0..Count -> Nat]
         /\ WrittenUpTo(c, S)[0] = 0
         /\ \A n \in 1..Count :
              WrittenUpTo(c, S)[n] = WrittenUpTo(c, S)[n - 1] + Weight(c, S, n)
<1> DEFINE w(n) == Weight(c, S, n)
           Rec(g, m) == /\ g \in [0..m -> Nat]
                        /\ g[0] = 0
                        /\ \A n \in 1..m : g[n] = g[n - 1] + w(n)
           T == {m \in Nat : m <= Count => \E g : Rec(g, m)}
<1>0. Count \in Nat /\ \A n \in 1..Count : w(n) \in Nat
  BY CountNatural, WeightType
<1> HIDE DEF w
<1>1. 0 \in T
  <2>1. Rec([k \in 0..0 |-> 0], 0)
    OBVIOUS
  <2> QED BY <2>1
<1>2. ASSUME NEW m \in Nat, m \in T PROVE m + 1 \in T
  <2> SUFFICES ASSUME m + 1 <= Count PROVE \E g : Rec(g, m + 1)
    OBVIOUS
  <2>1. PICK g : Rec(g, m)
    BY <1>2, <1>0
  <2> DEFINE h == [k \in 0..(m + 1) |-> IF k = m + 1 THEN g[m] + w(m + 1) ELSE g[k]]
  <2>2. g[m] + w(m + 1) \in Nat
    BY <2>1, <1>0
  <2>3. h \in [0..(m + 1) -> Nat] /\ h[0] = 0
    BY <2>1, <2>2
  <2>4. ASSUME NEW n \in 1..(m + 1) PROVE h[n] = h[n - 1] + w(n)
    <3>1. CASE n = m + 1
      <4>1. n - 1 = m /\ m # m + 1 /\ m \in 0..(m + 1)
        BY <3>1
      <4> QED BY <4>1, <3>1
    <3>2. CASE n # m + 1
      <4>1. n \in 1..m /\ n - 1 # m + 1 /\ n - 1 \in 0..(m + 1)
        BY <3>2
      <4> QED BY <4>1, <3>2, <2>1
    <3> QED BY <3>1, <3>2
  <2> HIDE DEF h
  <2>5. Rec(h, m + 1)
    BY <2>3, <2>4
  <2> QED BY <2>5
<1>3. Nat \subseteq T
  <2> HIDE DEF T
  <2> QED BY <1>1, <1>2, NextNumbers
<1>4. PICK g : Rec(g, Count)
  <2>1. Count \in T /\ Count <= Count
    BY <1>3, <1>0
  <2> HIDE DEF Rec
  <2> QED BY <2>1
<1> DEFINE Is(f) == f = [n \in 0..Count |-> IF n = 0 THEN 0 ELSE f[n - 1] + w(n)]
<1>5. Is(g)
  <2>1. \A n \in 0..Count : g[n] = IF n = 0 THEN 0 ELSE g[n - 1] + w(n)
    BY <1>4, <1>0
  <2>2. g = [n \in 0..Count |-> g[n]]
    BY <1>4
  <2> QED BY <2>1, <2>2
<1>6. Is(WrittenUpTo(c, S))
  <2>1. WrittenUpTo(c, S) = CHOOSE f : Is(f)
    BY DEF WrittenUpTo, w
  <2> HIDE DEF Is
  <2> QED BY <1>5, <2>1
<1> DEFINE W == WrittenUpTo(c, S)
<1> HIDE DEF W
<1>7. /\ DOMAIN W = 0..Count /\ W[0] = 0
      /\ \A n \in 1..Count : W[n] = W[n - 1] + w(n)
  BY <1>6, <1>0 DEF W
<1> DEFINE U == {n \in Nat : n <= Count => W[n] \in Nat}
<1>8. 0 \in U
  BY <1>7
<1>9. ASSUME NEW n \in Nat, n \in U PROVE n + 1 \in U
  <2> SUFFICES ASSUME n + 1 <= Count PROVE W[n + 1] \in Nat
    OBVIOUS
  <2>1. W[n + 1] = W[n] + w(n + 1)
    BY <1>7, <1>0
  <2> QED BY <2>1, <1>9, <1>0
<1>10. Nat \subseteq U
  <2> HIDE DEF U
  <2> QED BY <1>8, <1>9, NextNumbers
<1>11. W \in [0..Count -> Nat]
  <2>1. W = [n \in 0..Count |-> W[n]]
    BY <1>6, <1>7 DEF W
  <2> QED BY <2>1, <1>10
<1> QED BY <1>7, <1>11 DEF W, w

LEMMA SumType ==
  ASSUME NEW c \in Outlines, NEW S
  PROVE  Sum(c, S) \in Nat
BY WrittenRecursion, CountNatural DEF Sum

LEMMA SumOfNone ==
  ASSUME NEW c \in Outlines
  PROVE  Sum(c, {}) = 0
<1> DEFINE W == WrittenUpTo(c, {})
           T == {n \in Nat : n <= Count => W[n] = 0}
<1>1. /\ W[0] = 0
      /\ \A n \in 1..Count : W[n] = W[n - 1] + 0
  BY WrittenRecursion DEF Weight
<1>2. Count \in Nat
  BY CountNatural
<1> HIDE DEF W
<1>3. 0 \in T
  BY <1>1
<1>4. ASSUME NEW n \in Nat, n \in T PROVE n + 1 \in T
  <2> SUFFICES ASSUME n + 1 <= Count PROVE W[n + 1] = 0
    OBVIOUS
  <2>1. W[n + 1] = W[n] + 0
    BY <1>1, <1>2
  <2> QED BY <2>1, <1>4, <1>2
<1>5. Nat \subseteq T
  <2> HIDE DEF T
  <2> QED BY <1>3, <1>4, NextNumbers
<1> QED BY <1>5, <1>2 DEF W, Sum

(* A file adds its own bytes to what is written, wherever its path puts it. *)
LEMMA SumWithFile ==
  ASSUME NEW c \in Outlines, NEW S, NEW f \in Files, f \notin S
  PROVE  Sum(c, S \cup {f}) = Sum(c, S) + c[f].bytes
<1> DEFINE V == WrittenUpTo(c, S)
           W == WrittenUpTo(c, S \cup {f})
           b == c[f].bytes
           T == {n \in Nat : n <= Count => W[n] = V[n] + (IF f <= n THEN b ELSE 0)}
<1>1. Count \in Nat /\ f \in 1..Count
  BY CountNatural
<1>2. b \in Nat
  BY OutlineAssumption DEF OutlineAssumption
<1>3. /\ V \in [0..Count -> Nat] /\ V[0] = 0
      /\ \A n \in 1..Count : V[n] = V[n - 1] + Weight(c, S, n)
  BY WrittenRecursion
<1>4. /\ W \in [0..Count -> Nat] /\ W[0] = 0
      /\ \A n \in 1..Count : W[n] = W[n - 1] + Weight(c, S \cup {f}, n)
  BY WrittenRecursion
<1>5. \A n \in 1..Count : /\ n # f => Weight(c, S \cup {f}, n) = Weight(c, S, n)
                          /\ Weight(c, S, n) \in Nat
  BY WeightType DEF Weight
<1>6. Weight(c, S \cup {f}, f) = b /\ Weight(c, S, f) = 0
  BY DEF Weight
<1> HIDE DEF V, W, b
<1>7. 0 \in T
  BY <1>1, <1>3, <1>4
<1>8. ASSUME NEW n \in Nat, n \in T PROVE n + 1 \in T
  <2> SUFFICES ASSUME n + 1 <= Count
               PROVE  W[n + 1] = V[n + 1] + (IF f <= n + 1 THEN b ELSE 0)
    OBVIOUS
  <2>1. n + 1 \in 1..Count /\ (n + 1) - 1 = n /\ n <= Count /\ n \in 0..Count
    BY <1>1
  <2>2. W[n + 1] = W[n] + Weight(c, S \cup {f}, n + 1)
    BY <2>1, <1>4
  <2>3. V[n + 1] = V[n] + Weight(c, S, n + 1)
    BY <2>1, <1>3
  <2>4. V[n] \in Nat /\ W[n] = V[n] + (IF f <= n THEN b ELSE 0)
    BY <2>1, <1>3, <1>8
  <2>5. CASE n + 1 = f
    BY <2>1, <2>2, <2>3, <2>4, <2>5, <1>1, <1>2, <1>6
  <2>6. CASE n + 1 # f
    <3>1. Weight(c, S \cup {f}, n + 1) = Weight(c, S, n + 1) /\ Weight(c, S, n + 1) \in Nat
      BY <2>1, <2>6, <1>5
    <3>2. f <= n + 1 <=> f <= n
      BY <2>6, <1>1
    <3> QED BY <3>1, <3>2, <2>2, <2>3, <2>4, <1>1, <1>2
  <2> QED BY <2>5, <2>6
<1>9. Nat \subseteq T
  <2> HIDE DEF T
  <2> QED BY <1>7, <1>8, NextNumbers
<1> QED BY <1>9, <1>1 DEF V, W, b, Sum

LEMMA SizeType ==
  ASSUME NEW c \in Outlines, NEW S, S \subseteq Files
  PROVE  /\ Cardinality(S) \in 0..Count
         /\ Header(Cardinality(S)) \in Nat
         /\ Size(c, S) \in Nat
<1>1. Cardinality(S) \in 0..Count
  BY CountNatural, FS_Subset, FS_CardinalityType DEF Count
<1>2. Header(Cardinality(S)) \in Nat
  BY <1>1, HeaderType
<1> QED BY <1>1, <1>2, SumType DEF Size

LEMMA SizeWithFile ==
  ASSUME NEW c \in Outlines, NEW S, S \subseteq Files, NEW f \in Files, f \notin S
  PROVE  /\ Cardinality(S \cup {f}) = Cardinality(S) + 1
         /\ Size(c, S \cup {f}) = Header(Cardinality(S) + 1) + Sum(c, S) + c[f].bytes
         /\ Size(c, S) < Size(c, S \cup {f})
<1>1. IsFiniteSet(S) /\ Cardinality(S \cup {f}) = Cardinality(S) + 1
  BY CountNatural, FS_Subset, FS_AddElement
<1> DEFINE n == Cardinality(S)
<1>2. n \in 0..(Count - 1) /\ Count \in Nat
  <2>1. Cardinality(S) \in 0..Count /\ Cardinality(S \cup {f}) \in 0..Count
    BY SizeType
  <2> QED BY <2>1, <1>1, CountNatural
<1>3. Sum(c, S \cup {f}) = Sum(c, S) + c[f].bytes /\ Sum(c, S) \in Nat
  BY SumWithFile, SumType
<1>4. c[f].bytes \in Nat /\ Header(n) < Header(n + 1) + c[f].bytes
  BY <1>2, OutlineAssumption DEF OutlineAssumption
<1>5. Header(n) \in Nat /\ Header(n + 1) \in Nat
  BY <1>2, HeaderType
<1> HIDE DEF n
<1>6. Size(c, S) = Header(n) + Sum(c, S)
  BY DEF Size, n
<1>7. Size(c, S \cup {f}) = Header(n + 1) + (Sum(c, S) + c[f].bytes)
  BY <1>1, <1>3 DEF Size, n
<1> QED BY <1>1, <1>3, <1>4, <1>5, <1>6, <1>7 DEF n

(* A larger selection is a longer document. *)
LEMMA SizeGrows ==
  ASSUME NEW c \in Outlines, NEW S, NEW U, S \subseteq U, U \subseteq Files
  PROVE  Size(c, S) <= Size(c, U)
<1> DEFINE part(n) == S \cup (U \cap (1..n))
           T == {n \in Nat : n <= Count => Size(c, S) <= Size(c, part(n))}
<1>0. Count \in Nat /\ Files = 1..Count
  BY CountNatural
<1>1. \A n \in Nat : part(n) \subseteq Files
  OBVIOUS
<1>2. \A n \in Nat : Size(c, part(n)) \in Nat
  BY <1>1, SizeType
<1>3. 0 \in T
  <2>1. part(0) = S
    OBVIOUS
  <2>2. Size(c, S) \in Nat
    BY SizeType
  <2> QED BY <2>1, <2>2
<1>4. ASSUME NEW n \in Nat, n \in T PROVE n + 1 \in T
  <2> SUFFICES ASSUME n + 1 <= Count PROVE Size(c, S) <= Size(c, part(n + 1))
    OBVIOUS
  <2>0. Size(c, S) <= Size(c, part(n)) /\ Size(c, S) \in Nat
    <3>1. Size(c, S) \in Nat
      BY SizeType
    <3>2. n <= Count
      BY <1>0
    <3> HIDE DEF part
    <3> QED BY <3>1, <3>2, <1>4
  <2>1. CASE n + 1 \in U /\ n + 1 \notin part(n)
    <3>1. part(n + 1) = part(n) \cup {n + 1}
      BY <2>1
    <3>2. n + 1 \in Files
      BY <1>0
    <3> HIDE DEF part
    <3>3. Size(c, part(n)) < Size(c, part(n + 1))
      BY <3>1, <3>2, <2>1, <1>1, SizeWithFile
    <3>4. n + 1 \in Nat
      OBVIOUS
    <3> QED BY <3>3, <3>4, <2>0, <1>2
  <2>2. CASE ~ (n + 1 \in U /\ n + 1 \notin part(n))
    <3>1. part(n + 1) = part(n)
      BY <2>2
    <3> HIDE DEF part
    <3> QED BY <3>1, <2>0
  <2> QED BY <2>1, <2>2
<1>5. Nat \subseteq T
  <2> HIDE DEF T
  <2> QED BY <1>3, <1>4, NextNumbers
<1>6. part(Count) = U
  BY <1>0
<1> QED BY <1>5, <1>6, <1>0

-----------------------------------------------------------------------------
(* The inductive invariant.                                                *)

Offered == {c[2] : c \in todo}

(* What is selected fits, what was rejected would not fit any more.        *)
SizeInv ==
  /\ content \in Outlines /\ maxBytes \in Nat
  /\ entrySize = Sum(content, Selected)
  /\ Selected # {} => Size(content, Selected) <= maxBytes
  /\ pc = "rendering exceeds" => Selected = {}
  /\ \A f \in rejected : f \notin Selected /\ Size(content, Selected \cup {f}) > maxBytes

(* The first pass offers the required files and nothing else.              *)
RequiredInv ==
  /\ pc = "required" => /\ Selected \cup Offered = Required
                        /\ queue = {} /\ visited = {}
                        /\ \A f \in Files : selected[f] # "reference"
  /\ pc \in {"references", "context", "done"} => Required \subseteq Selected
  /\ pc = "required does not fit" => Size(content, Required) > maxBytes

Starts == Seeds \cup {g \in Files : selected[g] = "reference"}

(* What f refers to is in, or out, or on offer.                            *)
Followed(f) ==
  \A name \in content[f].refers :
    BestDeclarations(f, name) \subseteq Selected \cup rejected \cup Offered

ReferencesSettled ==
  \A f \in Starts : \A name \in content[f].refers :
    BestDeclarations(f, name) \subseteq Selected \cup rejected

(* Every file to follow waits in the queue until it was followed.          *)
FollowInv ==
  /\ pc = "references" => /\ Starts \subseteq visited \cup queue
                          /\ \A f \in visited : Followed(f)
  /\ pc \in {"context", "done"} => ReferencesSettled

BudgetInv == TypeOK /\ SizeInv /\ RequiredInv /\ FollowInv

LEMMA InputFacts ==
  /\ Seeds \subseteq Files
  /\ Required \subseteq Files
  /\ \A f, name : BestDeclarations(f, name) \subseteq Files
<1>1. Direct \subseteq Files /\ Observed \subseteq Files
  BY DEF Direct, Observed
<1>2. AncestorEntries \subseteq Files
  BY OutlineAssumption DEF OutlineAssumption, AncestorEntries
<1>3. \A f, name : BestDeclarations(f, name) \subseteq Files
  BY Zenon DEF BestDeclarations, Declarations
<1> QED BY <1>1, <1>2, <1>3 DEF Seeds, Required

LEMMA InputsKept ==
  ASSUME UNCHANGED inputs
  PROVE  /\ Seeds' = Seeds /\ Required' = Required
         /\ \A f, name : BestDeclarations(f, name)' = BestDeclarations(f, name)
         /\ content' = content /\ maxBytes' = maxBytes
<1>1. content' = content /\ used' = used /\ modules' = modules /\ maxBytes' = maxBytes
  BY DEF inputs
<1>2. Direct' = Direct /\ Observed' = Observed
  BY <1>1 DEF Direct, Observed, Usable
<1>3. AncestorEntries' = AncestorEntries
  BY <1>1, <1>2, Zenon DEF AncestorEntries, Usable
<1>4. \A f, name : BestDeclarations(f, name)' = BestDeclarations(f, name)
  BY <1>1, Zenon DEF BestDeclarations, Declarations, Usable
<1> QED BY <1>1, <1>2, <1>3, <1>4 DEF Seeds, Required

(* The next candidate is one of those on offer.                            *)
LEMMA FirstIsOffered ==
  ASSUME NEW S, S \subseteq Nat \X Files, S # {}
  PROVE  First(S) \in S
<1>0. Files \subseteq Nat
  BY CountNatural
<1> DEFINE column == {c[1] : c \in S}
<1>1. PICK a \in column : \A b \in column : a <= b
  <2>1. column \subseteq Nat /\ column # {}
    OBVIOUS
  <2> HIDE DEF column
  <2> QED BY <2>1, Smallest
<1> DEFINE row == {c[2] : c \in {d \in S : d[1] = a}}
<1>2. row # {} /\ row \subseteq Nat
  BY <1>0, <1>1
<1>3. PICK f \in row : \A g \in row : f <= g
  BY <1>2, Smallest
<1>4. PICK c \in S : c[1] = a /\ c[2] = f
  BY <1>3
<1>5. \A d \in S : c[1] < d[1] \/ (c[1] = d[1] /\ c[2] <= d[2])
  BY <1>0, <1>1, <1>3, <1>4
<1> QED BY <1>4, <1>5 DEF First

LEMMA Exceeds == \A x, y \in Nat : x > y => ~ (x <= y)
OBVIOUS

LEMMA SelectedFacts ==
  /\ Selected \subseteq Files
  /\ \A f \in Files : f \in Selected <=> selected[f] # None
BY DEF Selected

LEMMA BudgetInit == Init => BudgetInv
<1> SUFFICES ASSUME Init PROVE BudgetInv
  OBVIOUS
<1> USE DEF Init
<1>1. Selected = {}
  BY DEF Selected
<1>2. TypeOK
  BY InputFacts DEF TypeOK
<1>3. SizeInv
  <2>1. content \in Outlines /\ maxBytes \in Nat
    BY OutlineAssumption DEF OutlineAssumption
  <2>2. entrySize = Sum(content, Selected)
    BY <1>1, <2>1, SumOfNone
  <2> QED BY <1>1, <2>1, <2>2 DEF SizeInv
<1>4. RequiredInv
  <2>1. Offered = Required
    <3>1. \A f \in Required : <<0, f>> \in todo /\ <<0, f>>[2] = f
      OBVIOUS
    <3>2. \A c \in todo : c[2] \in Required
      OBVIOUS
    <3> QED BY <3>1, <3>2 DEF Offered
  <2> QED BY <1>1, <2>1 DEF RequiredInv, None
<1>5. FollowInv
  BY DEF FollowInv
<1> QED BY <1>2, <1>3, <1>4, <1>5 DEF BudgetInv

-----------------------------------------------------------------------------
(* Offering a file.                                                        *)

Passes == {"required", "references", "context"}

LEMMA ReasonType ==
  ASSUME pc \in Passes
  PROVE  /\ ReasonOf(pc) \in Reasons
         /\ pc = "required" => ReasonOf(pc) = "required"
         /\ pc = "references" => ReasonOf(pc) = "reference"
         /\ pc = "context" => ReasonOf(pc) = "context"
<1>1. CASE pc = "required"
  BY <1>1 DEF ReasonOf, Reasons
<1>2. CASE pc = "references"
  BY <1>2 DEF ReasonOf, Reasons
<1>3. CASE pc = "context"
  BY <1>3 DEF ReasonOf, Reasons
<1> QED BY <1>1, <1>2, <1>3 DEF Passes

(* The size that budget.add computes is that of the larger document.       *)
LEMMA SizeWithIsSize ==
  ASSUME BudgetInv, NEW f \in Files, f \notin Selected
  PROVE  /\ SizeWith(f) = Size(content, Selected \cup {f})
         /\ Size(content, Selected \cup {f}) \in Nat
         /\ entrySize + content[f].bytes = Sum(content, Selected \cup {f})
<1>1. content \in Outlines /\ entrySize = Sum(content, Selected)
  BY DEF BudgetInv, SizeInv
<1>2. Selected \subseteq Files
  BY SelectedFacts
<1> QED BY <1>1, <1>2, SizeWithFile, SumWithFile, SizeType DEF SizeWith

LEMMA KnownStep ==
  ASSUME BudgetInv, UNCHANGED <<inputs, visited>>, pc \in Passes,
         NEW c \in todo, todo' = todo \ {c}, Known(c)
  PROVE  BudgetInv'
<1>1. Selected' = Selected /\ c[2] \in Selected /\ c[2] \in Files
  BY DEF Known, Selected, BudgetInv, TypeOK
<1>2. TypeOK'
  BY DEF BudgetInv, TypeOK, Known
<1>3. SizeInv'
  BY <1>1, InputsKept DEF BudgetInv, SizeInv, Known
<1>4. Selected \cup Offered' = Selected \cup Offered
  BY <1>1 DEF Offered
<1>5. RequiredInv'
  BY <1>1, <1>4, InputsKept DEF BudgetInv, RequiredInv, Known
<1>6. Starts' = Starts
  BY InputsKept DEF Starts, Known
<1>7. ASSUME NEW f, Followed(f) PROVE Followed(f)'
  BY <1>1, <1>4, <1>7, InputsKept DEF Followed, Known
<1>8. ReferencesSettled' <=> ReferencesSettled
  BY <1>1, <1>6, InputsKept DEF ReferencesSettled, Known
<1>9. FollowInv'
  BY <1>6, <1>7, <1>8 DEF BudgetInv, FollowInv, Known, Passes
<1> QED BY <1>2, <1>3, <1>5, <1>9 DEF BudgetInv

LEMMA RejectStep ==
  ASSUME BudgetInv, UNCHANGED <<inputs, visited>>, pc \in Passes,
         NEW c \in todo, todo' = todo \ {c}, Reject(c)
  PROVE  BudgetInv'
<1> DEFINE f == c[2]
<1>1. Selected' = Selected /\ f \notin Selected /\ f \in Files
  BY DEF Reject, Selected, BudgetInv, TypeOK
<1>2. TypeOK'
  BY <1>1 DEF BudgetInv, TypeOK, Reject, Failures
<1>3. Size(content, Selected \cup {f}) > maxBytes
  BY <1>1, SizeWithIsSize DEF Reject
<1>4. SizeInv'
  <2>1. pc' # "rendering exceeds"
    BY DEF Reject, Passes
  <2> HIDE DEF f
  <2>2. rejected' = rejected \cup {f} /\ entrySize' = entrySize
    BY DEF Reject, f
  <2> QED BY <1>1, <1>3, <2>1, <2>2, InputsKept DEF BudgetInv, SizeInv
<1>5. Selected \cup rejected' \cup Offered' = Selected \cup rejected \cup Offered
  BY DEF Offered, Reject
<1>6. RequiredInv'
  <2>1. CASE pc = "required"
    <3>1. Selected \cup {f} \subseteq Required
      BY <2>1 DEF BudgetInv, RequiredInv, Offered
    <3>2. Size(content, Selected \cup {f}) <= Size(content, Required)
      BY <3>1, InputFacts, SizeGrows DEF BudgetInv, SizeInv
    <3>3. Size(content, Selected \cup {f}) \in Nat /\ Size(content, Required) \in Nat
          /\ maxBytes \in Nat
      BY <1>1, InputFacts, SizeType, SizeWithIsSize DEF BudgetInv, SizeInv
    <3>4. Size(content, Required) > maxBytes
      BY <1>3, <3>2, <3>3
    <3> QED BY <2>1, <3>4, InputsKept DEF RequiredInv, Reject
  <2>2. CASE pc # "required"
    BY <2>2, <1>1, InputsKept DEF BudgetInv, RequiredInv, Reject, Passes
  <2> QED BY <2>1, <2>2
<1>7. Starts' = Starts
  BY InputsKept DEF Starts, Reject
<1>8. ASSUME NEW g, Followed(g) PROVE Followed(g)'
  BY <1>1, <1>5, <1>8, InputsKept DEF Followed
<1>9. ReferencesSettled => ReferencesSettled'
  <2>1. rejected \subseteq rejected'
    BY DEF Reject
  <2> QED BY <2>1, <1>1, <1>7, InputsKept DEF ReferencesSettled
<1>10. FollowInv'
  BY <1>7, <1>8, <1>9 DEF BudgetInv, FollowInv, Reject, Passes
<1> QED BY <1>2, <1>4, <1>6, <1>10 DEF BudgetInv

LEMMA SelectStep ==
  ASSUME BudgetInv, UNCHANGED <<inputs, visited>>, pc \in Passes,
         NEW c \in todo, todo' = todo \ {c}, Select(c)
  PROVE  BudgetInv'
<1> DEFINE f == c[2]
<1>1. f \notin Selected /\ f \in Files
  BY DEF Select, Selected, BudgetInv, TypeOK
<1>2. /\ \A g \in Files : selected'[g] = IF g = f THEN ReasonOf(pc) ELSE selected[g]
      /\ ReasonOf(pc) \in Reasons /\ ReasonOf(pc) # None
  BY <1>1, ReasonType DEF Select, BudgetInv, TypeOK, Reasons, None
<1>3. Selected' = Selected \cup {f}
  BY <1>1, <1>2 DEF Selected
<1>4. entrySize' = Sum(content, Selected') /\ entrySize' \in Nat
  BY <1>1, <1>3, SizeWithIsSize, SumType DEF Select, BudgetInv, SizeInv
<1>5. TypeOK'
  BY <1>1, <1>2, <1>4 DEF BudgetInv, TypeOK, Select
<1>6. SizeInv'
  <2>1. Size(content, Selected') <= maxBytes
    BY <1>1, <1>3, SizeWithIsSize DEF Select
  <2>2. ASSUME NEW g \in rejected
        PROVE  g \notin Selected' /\ Size(content, Selected' \cup {g}) > maxBytes
    <3>1. g \in Files /\ g \notin Selected /\ Size(content, Selected \cup {g}) > maxBytes
      BY DEF BudgetInv, SizeInv, TypeOK
    <3>2. content \in Outlines /\ maxBytes \in Nat /\ Selected \subseteq Files
      BY SelectedFacts DEF BudgetInv, SizeInv
    <3>3. g # f
      <4> SUFFICES ASSUME g = f PROVE FALSE
        OBVIOUS
      <4>1. Size(content, Selected') > maxBytes /\ Size(content, Selected') \in Nat
        BY <3>1, <1>3, <1>1, SizeWithIsSize
      <4> QED BY <4>1, <2>1, <3>2
    <3>4. /\ Selected \cup {g} \subseteq Selected' \cup {g}
          /\ Selected' \cup {g} \subseteq Files /\ Selected \cup {g} \subseteq Files
      BY <1>1, <1>3, <3>1, <3>2
    <3>5. Size(content, Selected \cup {g}) <= Size(content, Selected' \cup {g})
      BY <3>2, <3>4, SizeGrows
    <3>6. Size(content, Selected \cup {g}) \in Nat /\ Size(content, Selected' \cup {g}) \in Nat
      BY <3>2, <3>4, SizeType
    <3> QED BY <3>1, <3>2, <3>3, <3>5, <3>6, <1>3
  <2>3. pc' # "rendering exceeds"
    BY DEF Select, Passes
  <2> QED BY <1>4, <2>1, <2>2, <2>3, InputsKept DEF BudgetInv, SizeInv, Select
<1>7. Selected' \cup Offered' = Selected \cup Offered
  BY <1>3 DEF Offered
<1>8. RequiredInv'
  BY <1>2, <1>3, <1>7, ReasonType, InputsKept
  DEF BudgetInv, RequiredInv, Select, Passes
<1>9. ASSUME NEW g, Followed(g) PROVE Followed(g)'
  BY <1>7, <1>9, InputsKept DEF Followed, Select
<1>10. FollowInv'
  <2> DEFINE referred == {g \in Files : selected[g] = "reference"}
  <2>0. /\ pc = "references" => ReasonOf(pc) = "reference"
        /\ pc # "references" => ReasonOf(pc) # "reference"
    BY ReasonType DEF Passes
  <2>1. Starts' = IF pc = "references" THEN Starts \cup {f} ELSE Starts
    <3>1. Seeds' = Seeds /\ selected[f] # "reference"
      BY <1>1, InputsKept DEF Selected, Select, None
    <3> HIDE DEF f
    <3>2. referred' = IF pc = "references" THEN referred \cup {f} ELSE referred
      BY <3>1, <2>0, <1>1, <1>2
    <3> HIDE DEF referred
    <3> QED BY <3>1, <3>2 DEF Starts, referred
  <2> HIDE DEF referred, f
  <2>2. CASE pc = "references"
    <3>1. queue' = queue \cup {f} /\ visited' = visited /\ pc' = pc
      BY <2>2 DEF Select, f
    <3> QED BY <2>1, <2>2, <3>1, <1>9 DEF BudgetInv, FollowInv
  <2>3. CASE pc # "references"
    <3>1. ReferencesSettled => ReferencesSettled'
      BY <1>3, <2>1, <2>3, InputsKept DEF ReferencesSettled, Select
    <3> QED BY <3>1, <2>3 DEF BudgetInv, FollowInv, Select, Passes
  <2> QED BY <2>2, <2>3
<1> QED BY <1>5, <1>6, <1>8, <1>10 DEF BudgetInv

LEMMA OfferStep ==
  ASSUME BudgetInv, Offer
  PROVE  BudgetInv'
<1> DEFINE c == First(todo)
<1>1. c \in todo
  BY FirstIsOffered DEF BudgetInv, TypeOK, Offer
<1>2. /\ UNCHANGED <<inputs, visited>> /\ pc \in Passes /\ todo' = todo \ {c}
      /\ Known(c) \/ Reject(c) \/ Select(c)
  BY DEF Offer, Passes
<1> HIDE DEF c
<1> QED BY <1>1, <1>2, KnownStep, RejectStep, SelectStep

-----------------------------------------------------------------------------
(* Between the passes.                                                     *)

(* A step that selects and rejects nothing keeps the sizes.                *)
LEMMA SelectionKept ==
  ASSUME BudgetInv, UNCHANGED <<inputs, selected, rejected, entrySize>>,
         pc' # "rendering exceeds" \/ Selected = {}
  PROVE  SizeInv' /\ Selected' = Selected
<1>1. Selected' = Selected
  BY DEF Selected
<1> QED BY <1>1, InputsKept DEF BudgetInv, SizeInv

LEMMA StartReferencesStep ==
  ASSUME BudgetInv, StartReferences
  PROVE  BudgetInv'
<1>1. SizeInv' /\ Selected' = Selected
  BY SelectionKept DEF StartReferences
<1>2. UNCHANGED inputs
  BY DEF StartReferences
<1>3. TypeOK'
  BY InputFacts DEF BudgetInv, TypeOK, StartReferences
<1>4. RequiredInv'
  BY <1>1, <1>2, InputsKept DEF BudgetInv, RequiredInv, StartReferences, Offered
<1>5. FollowInv'
  BY <1>2, InputsKept DEF BudgetInv, FollowInv, RequiredInv, StartReferences, Starts
<1> QED BY <1>1, <1>3, <1>4, <1>5 DEF BudgetInv

LEMMA VisitStep ==
  ASSUME BudgetInv, Visit
  PROVE  BudgetInv'
<1>1. SizeInv' /\ Selected' = Selected
  BY SelectionKept DEF Visit
<1>2. UNCHANGED <<inputs, pc, selected, rejected>> /\ pc = "references" /\ todo = {}
  BY DEF Visit
<1>3. PICK f \in queue : f = Min(queue)
  <2>1. queue \subseteq Nat /\ queue # {}
    BY CountNatural DEF BudgetInv, TypeOK, Visit
  <2> QED BY <2>1, Smallest DEF Min
<1>4. f \in Files /\ queue' = queue \ {f} /\ visited' = visited \cup {f}
  BY <1>3 DEF Visit, BudgetInv, TypeOK
<1>5. todo' = IF f \in visited THEN {}
              ELSE UNION {{<<name, g>> : g \in BestDeclarations(f, name)} :
                            name \in content[f].refers}
  BY <1>3 DEF Visit
<1>6. content[f].refers \subseteq Nat
  BY <1>4, OutlineAssumption DEF OutlineAssumption, BudgetInv, SizeInv
<1>7. todo' \subseteq Nat \X Files
  BY <1>5, <1>6, InputFacts
<1>8. TypeOK'
  BY <1>2, <1>3, <1>4, <1>7 DEF BudgetInv, TypeOK, Visit
<1>9. RequiredInv'
  BY <1>1, <1>2, InputsKept DEF BudgetInv, RequiredInv
<1>10. Offered = {}
  BY <1>2 DEF Offered
<1>11. ASSUME NEW g \in visited PROVE Followed(g)'
  BY <1>1, <1>2, <1>10, InputsKept DEF BudgetInv, FollowInv, Followed
<1>12. CASE f \in visited
  <2>1. Starts' = Starts /\ visited' = visited
    BY <1>2, <1>4, <1>12, InputsKept DEF Starts
  <2>2. FollowInv'
    BY <2>1, <1>2, <1>4, <1>11, <1>12 DEF BudgetInv, FollowInv
  <2> QED BY <2>2, <1>1, <1>8, <1>9 DEF BudgetInv
<1>13. CASE f \notin visited
  <2>1. Starts' = Starts
    BY <1>2, InputsKept DEF Starts
  <2>2. Followed(f)'
    <3> SUFFICES ASSUME NEW name \in content[f].refers, NEW g \in BestDeclarations(f, name)
                 PROVE  g \in Offered'
      <4>1. \A name \in content[f].refers : BestDeclarations(f, name) \subseteq Offered'
        OBVIOUS
      <4>2. \A name : BestDeclarations(f, name)' = BestDeclarations(f, name)
        BY <1>2, InputsKept
      <4>3. content' = content
        BY <1>2, InputsKept
      <4> QED BY <4>1, <4>2, <4>3 DEF Followed
    <3>1. <<name, g>> \in todo'
      BY <1>5, <1>13
    <3> QED BY <3>1 DEF Offered
  <2>3. FollowInv'
    BY <2>1, <2>2, <1>2, <1>4, <1>11 DEF BudgetInv, FollowInv
  <2> QED BY <2>3, <1>1, <1>8, <1>9 DEF BudgetInv
<1> QED BY <1>12, <1>13

LEMMA StartContextStep ==
  ASSUME BudgetInv, StartContext
  PROVE  BudgetInv'
<1>1. SizeInv' /\ Selected' = Selected
  BY SelectionKept DEF StartContext
<1>2. UNCHANGED <<inputs, selected, rejected, queue, visited>>
  BY DEF StartContext
<1>3. ContextCandidates \subseteq Nat \X Files
  <2> DEFINE rank(f) == CASE FallbackEntry(f) -> 1 [] RootContext(f) -> 2 [] OTHER -> 3
  <2>1. ASSUME NEW f PROVE rank(f) = 1 \/ rank(f) = 2 \/ rank(f) = 3
    <3>1. ~ (FallbackEntry(f) /\ RootContext(f))
      BY OutlineAssumption DEF OutlineAssumption, FallbackEntry, RootContext
    <3>2. CASE FallbackEntry(f) /\ ~ RootContext(f)
      BY <3>2, Zenon
    <3>3. CASE ~ FallbackEntry(f) /\ RootContext(f)
      BY <3>3, Zenon
    <3>4. CASE ~ FallbackEntry(f) /\ ~ RootContext(f)
      BY <3>4, Zenon
    <3> QED BY <3>1, <3>2, <3>3, <3>4, Zenon
  <2>2. ContextCandidates \subseteq {<<rank(f), f>> : f \in Files}
    BY Zenon DEF ContextCandidates
  <2> HIDE DEF rank
  <2> QED BY <2>1, <2>2
<1>4. TypeOK'
  BY <1>3 DEF BudgetInv, TypeOK, StartContext
<1>5. RequiredInv'
  BY <1>1, <1>2, InputsKept DEF BudgetInv, RequiredInv, StartContext
<1>6. Starts' = Starts
  BY <1>2, InputsKept DEF Starts
<1>7. ReferencesSettled'
  <2>1. Offered = {} /\ \A f \in Starts : Followed(f)
    BY DEF Offered, StartContext, BudgetInv, FollowInv
  <2> QED BY <1>1, <1>2, <1>6, <2>1, InputsKept DEF ReferencesSettled, Followed
<1>8. FollowInv'
  BY <1>7 DEF FollowInv, StartContext
<1> QED BY <1>1, <1>4, <1>5, <1>8 DEF BudgetInv

LEMMA ResultStep ==
  ASSUME BudgetInv, Result
  PROVE  BudgetInv'
<1>1. pc' \in {"nothing fits", "rendering exceeds", "done"}
  BY Zenon DEF Result
<1>2. pc' = "rendering exceeds" => Header(Cardinality(Selected)) + entrySize > maxBytes
  BY Zenon DEF Result
<1>3. pc' = "rendering exceeds" => Selected = {}
  <2> SUFFICES ASSUME pc' = "rendering exceeds" PROVE ~ (Selected # {})
    OBVIOUS
  <2>0. pc' = "rendering exceeds"
    OBVIOUS
  <2>1. Size(content, Selected) > maxBytes
    BY <1>2, <2>0 DEF BudgetInv, SizeInv, Size
  <2>2. (Selected # {} => Size(content, Selected) <= maxBytes) /\ maxBytes \in Nat
    BY DEF BudgetInv, SizeInv
  <2>3. Size(content, Selected) \in Nat
    BY SelectedFacts, SizeType DEF BudgetInv, SizeInv
  <2> DEFINE size == Size(content, Selected)
  <2> HIDE DEF size
  <2>4. size > maxBytes /\ size \in Nat /\ maxBytes \in Nat
    BY <2>1, <2>2, <2>3 DEF size
  <2>5. ~ (size <= maxBytes)
    BY <2>4, Exceeds, Zenon
  <2> QED BY <2>2, <2>5 DEF size
<1>4. /\ UNCHANGED <<inputs, todo, queue, visited, selected, rejected, entrySize>>
      /\ pc = "context" /\ todo = {}
  BY Zenon DEF Result
<1>5. SizeInv' /\ Selected' = Selected
  BY <1>3, <1>4, SelectionKept
<1>6. TypeOK'
  BY <1>1, <1>4 DEF BudgetInv, TypeOK, Failures
<1>7. RequiredInv'
  BY <1>1, <1>4, <1>5, InputsKept DEF BudgetInv, RequiredInv
<1>8. Starts' = Starts
  BY <1>4, InputsKept DEF Starts
<1>9. ReferencesSettled'
  BY <1>4, <1>5, <1>8, InputsKept DEF BudgetInv, FollowInv, ReferencesSettled
<1>10. FollowInv'
  BY <1>1, <1>9 DEF FollowInv
<1> QED BY <1>5, <1>6, <1>7, <1>10 DEF BudgetInv

LEMMA BudgetStutter ==
  ASSUME BudgetInv, UNCHANGED vars
  PROVE  BudgetInv'
<1>1. UNCHANGED <<inputs, pc, todo, queue, visited, selected, rejected, entrySize>>
  BY DEF vars
<1>2. SizeInv' /\ Selected' = Selected
  BY <1>1, SelectionKept DEF BudgetInv, SizeInv
<1>3. TypeOK'
  BY <1>1 DEF BudgetInv, TypeOK
<1>4. Offered' = Offered
  BY <1>1 DEF Offered
<1>5. RequiredInv'
  BY <1>1, <1>2, <1>4, InputsKept DEF BudgetInv, RequiredInv
<1>6. Starts' = Starts
  BY <1>1, InputsKept DEF Starts
<1>7. ASSUME NEW f, Followed(f) PROVE Followed(f)'
  BY <1>1, <1>2, <1>4, <1>7, InputsKept DEF Followed
<1>8. ReferencesSettled' <=> ReferencesSettled
  BY <1>1, <1>2, <1>6, InputsKept DEF ReferencesSettled
<1>9. FollowInv'
  BY <1>1, <1>6, <1>7, <1>8 DEF BudgetInv, FollowInv
<1> QED BY <1>2, <1>3, <1>5, <1>9 DEF BudgetInv

LEMMA BudgetAlways == Spec => []BudgetInv
<1>1. ASSUME BudgetInv, [Next]_vars PROVE BudgetInv'
  BY <1>1, OfferStep, StartReferencesStep, VisitStep, StartContextStep, ResultStep,
     BudgetStutter DEF Next, Finished
<1> QED BY BudgetInit, <1>1, PTL DEF Spec

-----------------------------------------------------------------------------
(* Type correctness of every state of a selection.                         *)
THEOREM TypeCorrect == Spec => []TypeOK
<1>1. BudgetInv => TypeOK
  BY DEF BudgetInv
<1> QED BY <1>1, BudgetAlways, PTL

(* The size that budget.add computes before it accepts a file is that of   *)
(* the rendered document, for every set of files and every limit: a        *)
(* document with files fits, and result's own check of the limit only ever *)
(* refuses an empty selection (outlineDocumentSize, renderSelectedOutline).*)
THEOREM DocumentFits == Spec => []FitsBudget
<1>1. BudgetInv => FitsBudget
  BY SizeIsDocumentSize DEF BudgetInv, SizeInv, FitsBudget
<1> QED BY <1>1, BudgetAlways, PTL

(* A selection has all required files, or all of them together are too     *)
(* much: no order of offering them would have done better                  *)
(* (selectRequiredOutlineFiles, budget.add).                               *)
THEOREM RequiredFilesFit == Spec => []RequiredFit
<1>1. BudgetInv => RequiredFit
  BY SizeIsDocumentSize DEF BudgetInv, RequiredInv, RequiredFit
<1> QED BY <1>1, BudgetAlways, PTL

(* A file reported as omitted for the limit is not in the document, and    *)
(* the finished document has no room for it (omissionReason).              *)
THEOREM OmissionsTrue == Spec => []OmissionTrue
<1>1. ASSUME NEW f, Omission(f) = "budget" PROVE f \in rejected
  BY <1>1, Zenon DEF Omission
<1>2. BudgetInv => OmissionTrue
  BY <1>1, SizeIsDocumentSize DEF BudgetInv, SizeInv, OmissionTrue
<1> QED BY <1>2, BudgetAlways, PTL

(* What the seeds and the files found through them refer to is in the      *)
(* document or was rejected by the limit, however files refer to each      *)
(* other (addReferencedOutlineCandidates).                                 *)
THEOREM ReferencesReachFixedPoint == Spec => []ReferencesFollowed
<1>1. BudgetInv => ReferencesFollowed
  BY DEF BudgetInv, FollowInv, ReferencesSettled, ReferencesFollowed, Starts
<1> QED BY <1>1, BudgetAlways, PTL
=============================================================================
