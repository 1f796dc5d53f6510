------------------------- MODULE UsageBatchesProofs -------------------------
(***************************************************************************)
(* Proofs about UsageBatches.tla and UsageMerge.tla, for surfaces of any   *)
(* size and any limits.                                                    *)
(***************************************************************************)
EXTENDS UsageMerge, Induction, SequenceTheorems

(* What the assumption says of the surface being split.                    *)
LEMMA BoundsFacts ==
  ASSUME bounds \in Surfaces
  PROVE  /\ bounds \in Seq(Nat) /\ Len(bounds) \in Nat \ {0} /\ bounds[1] = 0
         /\ \A i \in 1 .. Len(bounds) : bounds[i] \in Nat
         /\ \A i \in Symbols : bounds[i] <= bounds[i + 1]
  BY UsageBatchesAssumption DEF UsageBatchesAssumption, Symbols

LEMMA LimitFacts == TypeOK => maxSymbols \in Nat /\ maxSites \in Nat
  BY UsageBatchesAssumption DEF UsageBatchesAssumption, TypeOK

LEMMA InitType == Init => TypeOK
<1> SUFFICES ASSUME Init PROVE TypeOK
  OBVIOUS
<1>1. Len(bounds) \in Nat \ {0}
  BY BoundsFacts DEF Init
<1>2. symbol \in 1 .. Len(bounds)
  BY <1>1 DEF Init
<1>3. twins \subseteq Symbols
  BY DEF Init
<1>4. placed \in Seq(Fragment)
  BY DEF Init
<1>5. QED
  BY <1>2, <1>3, <1>4 DEF Init, TypeOK

(***************************************************************************)
(* Where the loop stands: the first site not placed lies within the        *)
(* symbol being placed, or at the end of the surface.                      *)
(***************************************************************************)
Cursor ==
  /\ symbol \in Symbols => bounds[symbol] <= next /\ next <= bounds[symbol + 1]
  /\ symbol = Len(bounds) => next = bounds[symbol]

(* How many sites an iteration takes: at least one, never more than the    *)
(* symbol has left, never more than the batch has room for.                *)
LEMMA TakeFacts ==
  ASSUME TypeOK, Cursor, symbol \in Symbols, next < bounds[symbol + 1],
         maxSites > 0 => sites <= maxSites
  PROVE  LET n == Take(BatchLimitReached)
         IN /\ n \in Nat \ {0} /\ next + n <= bounds[symbol + 1]
            /\ maxSites > 0 => (IF BatchLimitReached THEN n ELSE sites + n) <= maxSites
<1>1. bounds[symbol + 1] \in Nat /\ next \in Nat /\ sites \in Nat
  BY BoundsFacts DEF TypeOK, Symbols
<1>2. maxSites \in Nat /\ (maxSites > 0 /\ ~BatchLimitReached => sites < maxSites)
  BY <1>1, LimitFacts DEF BatchLimitReached
<1>3. Remaining \in Nat \ {0} /\ next + Remaining = bounds[symbol + 1]
  BY <1>1 DEF Remaining
<1>4. QED
  BY <1>1, <1>2, <1>3 DEF Take

(***************************************************************************)
(* The counters: the current batch consists of the last `entries`          *)
(* fragments and of the last `sites` sites, and both are within limits.    *)
(***************************************************************************)
Counters ==
  /\ maxSymbols > 0 => entries <= maxSymbols
  /\ maxSites > 0 => sites <= maxSites
  /\ placed = <<>> => entries = 0 /\ sites = 0
  /\ \A j \in DOMAIN placed :
       /\ placed[j].batch <= number
       /\ placed[j].batch = number => j + entries > Len(placed) /\ placed[j].from + sites >= next

BatchInv == TypeOK /\ Cursor /\ Counters /\ CapsHold

LEMMA FragmentFacts ==
  \A f \in Fragment : f.batch \in Nat /\ f.symbol \in Nat /\ f.from \in Nat /\ f.to \in Nat
  BY DEF Fragment

LEMMA PlacedFacts == TypeOK => \A j \in 1 .. Len(placed) : placed[j] \in Fragment
  BY DEF TypeOK

(* One iteration that places n sites.                                      *)
LEMMA PlaceType ==
  ASSUME TypeOK, NEW flush \in BOOLEAN, NEW n \in Nat, Place(flush, n),
         UNCHANGED <<input, done>>, symbol' \in 1 .. Len(bounds)
  PROVE  TypeOK'
<1>1. number' \in Nat /\ next' \in Nat /\ entries' \in Nat /\ sites' \in Nat
  BY DEF Place, TypeOK
<1>2. [batch |-> number', symbol |-> symbol, from |-> next, to |-> next'] \in Fragment
  BY <1>1, BoundsFacts DEF Fragment, TypeOK
<1>3. placed' \in Seq(Fragment)
  BY <1>2 DEF Place, TypeOK
<1>4. QED
  BY <1>1, <1>3 DEF TypeOK, input, Symbols

LEMMA PlaceCounters ==
  ASSUME BatchInv, NEW flush \in BOOLEAN, NEW n \in Nat, Place(flush, n),
         UNCHANGED <<input, done>>,
         maxSymbols > 0 /\ ~flush => entries < maxSymbols,
         maxSites > 0 => sites' <= maxSites
  PROVE  Counters' /\ CapsHold'
<1> DEFINE N == Len(placed)
           f == [batch |-> number', symbol |-> symbol, from |-> next, to |-> next + n]
<1>1. /\ N \in Nat /\ DOMAIN placed = 1 .. N /\ next \in Nat /\ number \in Nat
      /\ entries \in Nat /\ sites \in Nat /\ maxSymbols \in Nat /\ maxSites \in Nat
  BY LimitFacts DEF BatchInv, TypeOK
<1>2. /\ Len(placed') = N + 1 /\ DOMAIN placed' = 1 .. N + 1 /\ placed'[N + 1] = f
      /\ \A j \in 1 .. N : placed'[j] = placed[j]
  BY <1>1 DEF Place, BatchInv, TypeOK
<1>3. \A j \in 1 .. N : placed[j].from \in Nat /\ placed[j].to \in Nat /\ placed[j].batch \in Nat
  BY FragmentFacts, PlacedFacts DEF BatchInv
<1>4. maxSymbols' = maxSymbols /\ maxSites' = maxSites /\ next' = next + n
  BY DEF input, Place
<1>5. f.batch = number' /\ f.from = next /\ f.to = next + n
  OBVIOUS
<1> HIDE DEF f
<1>6. ASSUME \A j \in 1 .. N : placed[j].batch = number' =>
                /\ maxSymbols > 0 => N + 1 - j < maxSymbols
                /\ maxSites > 0 => next + n - placed[j].from <= maxSites
      PROVE  CapsHold'
  <2>1. SUFFICES ASSUME NEW j \in 1 .. N + 1, NEW k \in 1 .. N + 1, j <= k,
                        placed'[j].batch = placed'[k].batch
                 PROVE  /\ maxSymbols > 0 => k - j < maxSymbols
                        /\ maxSites > 0 => placed'[k].to - placed'[j].from <= maxSites
    BY <1>2, <1>4 DEF CapsHold, SameBatch
  <2>2. CASE k \in 1 .. N
    BY <1>1, <1>2, <2>1, <2>2 DEF BatchInv, CapsHold, SameBatch
  <2>3. CASE k = N + 1 /\ j \in 1 .. N
    <3>1. placed'[k] = f /\ placed'[j] = placed[j]
      BY <1>2, <2>3
    <3>2. placed[j].batch = number'
      BY <1>5, <2>1, <3>1
    <3>3. placed'[k].to = next + n /\ placed'[j].from = placed[j].from
      BY <1>5, <3>1
    <3>4. /\ maxSymbols > 0 => N + 1 - j < maxSymbols
          /\ maxSites > 0 => next + n - placed[j].from <= maxSites
      BY <1>6, <2>3, <3>2
    <3>5. QED
      BY <1>1, <1>3, <2>3, <3>3, <3>4
  <2>4. CASE k = N + 1 /\ j = N + 1
    <3>1. n <= sites'
      BY <1>1 DEF Place
    <3>2. placed'[j] = f /\ placed'[k] = f
      BY <1>2, <2>4
    <3>3. sites' \in Nat
      BY <1>1 DEF Place
    <3>4. QED
      BY <1>1, <1>5, <2>4, <3>1, <3>2, <3>3
  <2>5. QED
    BY <1>1, <2>2, <2>3, <2>4
<1>7. CASE flush
  <2>1. number' = number + 1 /\ entries' = 1 /\ sites' = n
    BY <1>7 DEF Place
  <2>2. \A j \in 1 .. N : placed[j].batch < number'
    BY <1>1, <1>3, <2>1 DEF BatchInv, Counters
  <2>3. \A j \in 1 .. N + 1 :
          /\ placed'[j].batch <= number'
          /\ placed'[j].batch = number' =>
               j + entries' > N + 1 /\ placed'[j].from + sites' >= next'
    <3>1. ASSUME NEW j \in 1 .. N
          PROVE  placed'[j].batch <= number' /\ placed'[j].batch # number'
      BY <1>1, <1>2, <1>3, <2>1, <2>2
    <3>2. QED
      BY <1>1, <1>2, <1>4, <1>5, <2>1, <3>1
  <2>4. Counters'
    BY <1>1, <1>2, <1>4, <2>1, <2>3 DEF Counters
  <2>5. CapsHold'
    BY <1>1, <1>3, <1>6, <2>1, <2>2, SMTT(30)
  <2>6. QED
    BY <2>4, <2>5
<1>8. CASE ~flush
  <2>1. number' = number /\ entries' = entries + 1 /\ sites' = sites + n
    BY <1>8 DEF Place
  <2>2. \A j \in 1 .. N : placed[j].batch <= number /\
          (placed[j].batch = number => j + entries > N /\ placed[j].from + sites >= next)
    BY <1>1 DEF BatchInv, Counters
  <2>3. Counters'
    BY <1>1, <1>2, <1>3, <1>4, <1>5, <1>8, <2>1, <2>2, SMTT(30) DEF Counters
  <2>4. ASSUME NEW j \in 1 .. N, placed[j].batch = number'
        PROVE  /\ maxSymbols > 0 => N + 1 - j < maxSymbols
               /\ maxSites > 0 => next + n - placed[j].from <= maxSites
    <3>1. j + entries > N /\ placed[j].from + sites >= next
      BY <2>1, <2>2, <2>4
    <3>2. maxSymbols > 0 => N + 1 - j < maxSymbols
      BY <1>1, <1>8, <3>1
    <3>3. maxSites > 0 => sites + n <= maxSites
      BY <2>1
    <3>4. maxSites > 0 => next + n - placed[j].from <= maxSites
      BY <1>1, <1>3, <3>1, <3>3
    <3>5. QED
      BY <3>2, <3>4
  <2>5. CapsHold'
    BY <1>6, <2>4
  <2>6. QED
    BY <2>3, <2>5
<1>9. QED
  BY <1>7, <1>8

LEMMA BatchStep == BatchInv /\ [Next]_vars => BatchInv'
<1> SUFFICES ASSUME BatchInv, [Next]_vars PROVE BatchInv'
  OBVIOUS
<1>a. TypeOK /\ Cursor /\ Counters /\ CapsHold
  BY DEF BatchInv
<1>b. /\ next \in Nat /\ sites \in Nat /\ entries \in Nat /\ symbol \in 1 .. Len(bounds)
      /\ maxSymbols \in Nat /\ maxSites \in Nat /\ Len(bounds) \in Nat
  BY <1>a, LimitFacts, BoundsFacts DEF TypeOK
<1>c. \A i \in 1 .. Len(bounds) : bounds[i] \in Nat
  BY <1>a, BoundsFacts DEF TypeOK
<1>d. \A i \in Symbols : bounds[i] <= bounds[i + 1]
  BY <1>a, BoundsFacts DEF TypeOK
<1>1. CASE PlaceEmptySymbol
  <2>1. /\ Place(SymbolsFull, 0) /\ SymbolsFull \in BOOLEAN /\ UNCHANGED <<input, done>>
        /\ symbol \in Symbols /\ symbol' = symbol + 1 /\ bounds[symbol] = bounds[symbol + 1]
    BY <1>1 DEF PlaceEmptySymbol, SymbolsFull
  <2>2. symbol' \in 1 .. Len(bounds) /\ next' = next /\ bounds' = bounds
    BY <1>b, <2>1 DEF Symbols, Place, input
  <2>3. TypeOK'
    BY <1>a, <2>1, <2>2, PlaceType
  <2>4. next = bounds[symbol + 1]
    BY <1>a, <1>b, <1>c, <2>1 DEF Cursor, Symbols
  <2>5. Cursor'
    BY <1>b, <1>c, <1>d, <2>1, <2>2, <2>4 DEF Cursor, Symbols
  <2>6. maxSites > 0 => sites' <= maxSites
    BY <1>a, <1>b, <2>1 DEF Place, Counters
  <2>7. maxSymbols > 0 /\ ~SymbolsFull => entries < maxSymbols
    BY <1>b DEF SymbolsFull
  <2>8. Counters' /\ CapsHold'
    BY <2>1, <2>6, <2>7, PlaceCounters
  <2>9. QED
    BY <2>3, <2>5, <2>8 DEF BatchInv
<1>2. CASE PlaceSites
  <2> DEFINE n == Take(BatchLimitReached)
  <2>1. /\ Place(BatchLimitReached, n) /\ BatchLimitReached \in BOOLEAN /\ UNCHANGED <<input, done>>
        /\ symbol \in Symbols /\ next < bounds[symbol + 1]
        /\ symbol' = IF next' = bounds[symbol + 1] THEN symbol + 1 ELSE symbol
    BY <1>2 DEF PlaceSites, BatchLimitReached, SymbolsFull
  <2>2. /\ n \in Nat \ {0} /\ next + n <= bounds[symbol + 1]
        /\ maxSites > 0 => (IF BatchLimitReached THEN n ELSE sites + n) <= maxSites
    BY <1>a, <2>1, TakeFacts DEF Counters
  <2> HIDE DEF n
  <2>3. next' = next + n /\ bounds' = bounds /\ symbol' \in 1 .. Len(bounds)
    BY <1>b, <2>1 DEF Symbols, Place, input
  <2>4. TypeOK'
    BY <1>a, <2>1, <2>2, <2>3, PlaceType
  <2>5. bounds[symbol] <= next'
    BY <1>a, <1>b, <1>c, <2>1, <2>2, <2>3 DEF Cursor, Symbols
  <2>6. Cursor'
    BY <1>b, <1>c, <1>d, <2>1, <2>2, <2>3, <2>5 DEF Cursor, Symbols
  <2>7. maxSites > 0 => sites' <= maxSites
    BY <2>1, <2>2 DEF Place
  <2>8. maxSymbols > 0 /\ ~BatchLimitReached => entries < maxSymbols
    BY <1>b DEF BatchLimitReached, SymbolsFull
  <2>9. Counters' /\ CapsHold'
    BY <2>1, <2>2, <2>7, <2>8, PlaceCounters
  <2>10. QED
    BY <2>4, <2>6, <2>9 DEF BatchInv
<1>3. CASE Finish \/ UNCHANGED vars
  BY <1>3 DEF Finish, vars, input, BatchInv, TypeOK, Symbols, Cursor, Counters, CapsHold, SameBatch
<1>4. QED
  BY <1>1, <1>2, <1>3 DEF Next, Step, Finished

LEMMA InitBatch == Init => BatchInv
<1> SUFFICES ASSUME Init PROVE BatchInv
  OBVIOUS
<1>1. TypeOK /\ Len(bounds) \in Nat \ {0} /\ bounds[1] = 0
  BY InitType, BoundsFacts DEF Init
<1>2. Cursor
  <2>1. symbol \in Symbols => bounds[symbol] <= next /\ next <= bounds[symbol + 1]
    BY <1>1, BoundsFacts DEF Init, Symbols
  <2>2. QED
    BY <1>1, <2>1 DEF Init, Cursor
<1>3. Counters /\ CapsHold
  BY <1>1, LimitFacts DEF Init, Counters, CapsHold
<1>4. QED
  BY <1>1, <1>2, <1>3 DEF BatchInv

THEOREM BatchTypes == Spec => []TypeOK
<1>1. BatchInv => TypeOK
  BY DEF BatchInv
<1>2. QED
  BY InitBatch, BatchStep, <1>1, PTL DEF Spec

(* No batch exceeds --batch-size or --batch-sites, for a surface of any    *)
(* size, however its symbols have to be split.                             *)
THEOREM BatchCapsHold == Spec => []CapsHold
<1>1. BatchInv => CapsHold
  BY DEF BatchInv
<1>2. QED
  BY InitBatch, BatchStep, <1>1, PTL DEF Spec
-----------------------------------------------------------------------------
(***************************************************************************)
(* The fragments tile the surface: the last one ends where the loop        *)
(* stands.                                                                 *)
(***************************************************************************)
LastPlaced ==
  /\ placed = <<>> => symbol = 1 /\ next = 0
  /\ placed # <<>> =>
       LET last == placed[Len(placed)]
       IN /\ last.symbol \in Symbols /\ last.to = next /\ last.batch = number
          /\ \/ symbol = last.symbol /\ next < bounds[last.symbol + 1]
             \/ symbol = last.symbol + 1 /\ next = bounds[last.symbol + 1]
  /\ done => symbol = Len(bounds)

TilingInv == BatchInv /\ Consecutive /\ LastPlaced

LEMMA PlaceTiling ==
  ASSUME TilingInv, NEW flush \in BOOLEAN, NEW n \in Nat, Place(flush, n),
         UNCHANGED <<input, done>>, symbol \in Symbols, flush => placed # <<>>,
         \/ symbol' = symbol /\ next + n < bounds[symbol + 1]
         \/ symbol' = symbol + 1 /\ next + n = bounds[symbol + 1]
  PROVE  Consecutive' /\ LastPlaced'
<1> DEFINE N == Len(placed)
           f == [batch |-> number', symbol |-> symbol, from |-> next, to |-> next + n]
<1>1. /\ N \in Nat /\ next \in Nat /\ number \in Nat /\ Len(bounds) \in Nat
      /\ bounds' = bounds /\ done' = done /\ next' = next + n
  BY BoundsFacts DEF TilingInv, BatchInv, TypeOK, input, Place
<1>2. /\ Len(placed') = N + 1 /\ placed'[N + 1] = f
      /\ \A j \in 1 .. N : placed'[j] = placed[j]
  BY <1>1 DEF Place, TilingInv, BatchInv, TypeOK
<1>p. placed' # <<>>
  BY <1>1, <1>2
<1>3. f.batch = number' /\ f.symbol = symbol /\ f.from = next /\ f.to = next + n
  OBVIOUS
<1> HIDE DEF f
<1>4. LastPlaced'
  <2>1. done' => symbol' = Len(bounds')
    BY <1>1 DEF TilingInv, LastPlaced, Symbols
  <2>2. Symbols' = Symbols
    BY <1>1 DEF Symbols
  <2>3. QED
    BY <1>1, <1>2, <1>3, <1>p, <2>1, <2>2 DEF LastPlaced
<1>5. placed'[1].symbol = 1 /\ placed'[1].from = 0
  <2>1. CASE placed = <<>>
    <3>1. N = 0 /\ symbol = 1 /\ next = 0
      BY <2>1 DEF TilingInv, LastPlaced
    <3>2. QED
      BY <1>2, <1>3, <3>1
  <2>2. CASE placed # <<>>
    <3>1. N > 0 /\ placed[1].symbol = 1 /\ placed[1].from = 0
      BY <1>1, <2>2 DEF TilingInv, Consecutive, BatchInv, TypeOK
    <3>2. QED
      BY <1>1, <1>2, <3>1
  <2>3. QED
    BY <2>1, <2>2
<1>6. ASSUME N > 0
      PROVE  /\ f.from = placed[N].to
             /\ \/ f.symbol = placed[N].symbol /\ placed[N].to < bounds[placed[N].symbol + 1]
                \/ /\ f.symbol = placed[N].symbol + 1
                   /\ placed[N].to = bounds[placed[N].symbol + 1]
             /\ f.batch \in {placed[N].batch, placed[N].batch + 1}
  <2>1. placed # <<>>
    BY <1>6
  <2>2. number' \in {number, number + 1}
    BY DEF Place
  <2>3. QED
    BY <1>3, <2>1, <2>2 DEF TilingInv, LastPlaced
<1>7. Consecutive'
  <2>1. SUFFICES ASSUME NEW j \in 1 .. N
                 PROVE  LET g == placed'[j]
                            h == placed'[j + 1]
                        IN /\ h.from = g.to
                           /\ \/ h.symbol = g.symbol /\ g.to < bounds[g.symbol + 1]
                              \/ h.symbol = g.symbol + 1 /\ g.to = bounds[g.symbol + 1]
                           /\ h.batch \in {g.batch, g.batch + 1}
    <3>1. Len(placed') - 1 = N
      BY <1>1, <1>2
    <3>2. QED
      BY <1>1, <1>5, <3>1 DEF Consecutive
  <2>2. CASE j = N
    BY <1>1, <1>2, <1>6, <2>2
  <2>3. CASE j \in 1 .. N - 1
    <3>1. placed'[j] = placed[j] /\ placed'[j + 1] = placed[j + 1]
      BY <1>1, <1>2, <2>3
    <3>2. QED
      BY <2>3, <3>1 DEF TilingInv, Consecutive
  <2>4. QED
    BY <1>1, <2>2, <2>3
<1>8. QED
  BY <1>4, <1>7

LEMMA TilingStep == TilingInv /\ [Next]_vars => TilingInv'
<1> SUFFICES ASSUME TilingInv, [Next]_vars PROVE TilingInv'
  OBVIOUS
<1>a. BatchInv'
  BY BatchStep DEF TilingInv
<1>b. SUFFICES Consecutive' /\ LastPlaced'
  BY <1>a DEF TilingInv
<1>c. /\ TypeOK /\ Cursor /\ Counters /\ Consecutive /\ LastPlaced
  BY DEF TilingInv, BatchInv
<1>d. next \in Nat /\ entries \in Nat /\ sites \in Nat /\ maxSymbols \in Nat /\ maxSites \in Nat
      /\ \A i \in Symbols : bounds[i + 1] \in Nat /\ bounds[i] \in Nat
  BY <1>c, LimitFacts, BoundsFacts DEF TypeOK, Symbols
<1>e. BatchLimitReached => placed # <<>>
  BY <1>c, <1>d DEF BatchLimitReached, SymbolsFull, Counters
<1>1. CASE PlaceEmptySymbol
  <2>1. /\ Place(SymbolsFull, 0) /\ SymbolsFull \in BOOLEAN /\ UNCHANGED <<input, done>>
        /\ symbol \in Symbols /\ symbol' = symbol + 1 /\ bounds[symbol] = bounds[symbol + 1]
    BY <1>1 DEF PlaceEmptySymbol, SymbolsFull
  <2>2. next + 0 = bounds[symbol + 1]
    BY <1>c, <1>d, <2>1 DEF Cursor
  <2>3. QED
    BY <1>e, <2>1, <2>2, PlaceTiling DEF BatchLimitReached
<1>2. CASE PlaceSites
  <2> DEFINE n == Take(BatchLimitReached)
  <2>1. /\ Place(BatchLimitReached, n) /\ BatchLimitReached \in BOOLEAN /\ UNCHANGED <<input, done>>
        /\ symbol \in Symbols /\ next < bounds[symbol + 1]
        /\ symbol' = IF next' = bounds[symbol + 1] THEN symbol + 1 ELSE symbol
    BY <1>2 DEF PlaceSites, BatchLimitReached, SymbolsFull
  <2>2. n \in Nat /\ next + n <= bounds[symbol + 1]
    BY <1>c, <2>1, TakeFacts DEF Counters
  <2> HIDE DEF n
  <2>3. next' = next + n
    BY <2>1 DEF Place
  <2>4. \/ symbol' = symbol /\ next + n < bounds[symbol + 1]
        \/ symbol' = symbol + 1 /\ next + n = bounds[symbol + 1]
    BY <1>d, <2>1, <2>2, <2>3
  <2>5. QED
    BY <1>e, <2>1, <2>2, <2>4, PlaceTiling
<1>3. CASE Finish
  BY <1>c, <1>3 DEF Finish, input, Consecutive, LastPlaced, Symbols
<1>4. CASE UNCHANGED vars
  BY <1>c, <1>4 DEF vars, input, Consecutive, LastPlaced, Symbols
<1>5. QED
  BY <1>1, <1>2, <1>3, <1>4 DEF Next, Step, Finished

(* The batches together hold every site of every symbol once, in the       *)
(* sorted order, when the split is done.                                   *)
THEOREM BatchesLoseNothing == Spec => []NothingLost
<1>1. Init => TilingInv
  <2>1. Init => Consecutive /\ LastPlaced
    BY DEF Init, Consecutive, LastPlaced
  <2>2. QED
    BY <2>1, InitBatch DEF TilingInv
<1>2. TilingInv => NothingLost
  <2> SUFFICES ASSUME TilingInv PROVE NothingLost
    OBVIOUS
  <2>1. Len(bounds) \in Nat \ {0} /\ \A i \in 1 .. Len(bounds) : bounds[i] \in Nat
    BY BoundsFacts DEF TilingInv, BatchInv, TypeOK
  <2>2. ASSUME done, placed # <<>>
        PROVE  LET last == placed[Len(placed)]
               IN last.symbol = Len(bounds) - 1 /\ last.to = bounds[Len(bounds)]
    <3> DEFINE last == placed[Len(placed)]
    <3>1. /\ last.symbol \in Symbols /\ last.to = next /\ symbol = Len(bounds)
          /\ \/ symbol = last.symbol
             \/ symbol = last.symbol + 1 /\ next = bounds[last.symbol + 1]
      BY <2>2 DEF TilingInv, LastPlaced
    <3>2. last.symbol \in Nat /\ last.symbol + 1 = Len(bounds)
      BY <2>1, <3>1 DEF Symbols
    <3>3. symbol # last.symbol
      BY <2>1, <3>1, <3>2
    <3>4. last.to = bounds[last.symbol + 1]
      BY <3>1, <3>3
    <3>5. last.to = bounds[Len(bounds)] /\ last.symbol = Len(bounds) - 1
      BY <2>1, <3>2, <3>4
    <3>6. QED
      BY <3>5
  <2>3. ASSUME done, placed = <<>> PROVE Symbols = {}
    <3>1. Len(bounds) = 1
      BY <2>3 DEF TilingInv, LastPlaced
    <3>2. QED
      BY <3>1 DEF Symbols
  <2>4. QED
    BY <2>2, <2>3 DEF TilingInv, NothingLost
<1>3. QED
  BY <1>1, <1>2, TilingStep, PTL DEF Spec
-----------------------------------------------------------------------------
(* The loop always advances, so that it ends on every finite surface: no   *)
(* limits make it place empty fragments for ever.                          *)
THEOREM LoopProgresses == Spec => Progress
<1>1. BatchInv /\ [Next]_vars => [done' \/ next' > next \/ symbol' > symbol]_vars
  <2> SUFFICES ASSUME BatchInv, [Next]_vars
               PROVE  [done' \/ next' > next \/ symbol' > symbol]_vars
    OBVIOUS
  <2>1. CASE PlaceEmptySymbol
    BY <2>1 DEF PlaceEmptySymbol, Symbols, BatchInv, TypeOK
  <2>2. CASE PlaceSites
    <3> DEFINE n == Take(BatchLimitReached)
    <3>1. next' = next + n
      BY <2>2 DEF PlaceSites, Place
    <3>2. n \in Nat \ {0}
      BY <2>2, TakeFacts DEF PlaceSites, BatchInv, Counters
    <3>3. next \in Nat
      BY DEF BatchInv, TypeOK
    <3> HIDE DEF n
    <3>4. QED
      BY <3>1, <3>2, <3>3
  <2>3. CASE Finish \/ UNCHANGED vars
    BY <2>3 DEF Finish
  <2>4. QED
    BY <2>1, <2>2, <2>3 DEF Next, Step, Finished
<1>2. QED
  BY InitBatch, BatchStep, <1>1, PTL DEF Spec, Progress
-----------------------------------------------------------------------------
(***************************************************************************)
(* The current batch in the list of fragments: it starts `entries` before  *)
(* the end and spans `sites` sites.                                        *)
(***************************************************************************)
CurrentBatch ==
  placed # <<>> =>
    LET first == Len(placed) - entries + 1
    IN /\ entries \in 1 .. Len(placed)
       /\ placed[first].batch = number
       /\ next = placed[first].from + sites

(* A symbol is only split when its batch is full of sites.                 *)
SplitWhenFull ==
  \A j \in DOMAIN placed :
    /\ placed[j].symbol <= symbol
    /\ placed[j].symbol = symbol =>
         /\ next < bounds[symbol + 1]
         /\ placed[j].batch = number => maxSites > 0 /\ sites >= maxSites

FullInv == TilingInv /\ CurrentBatch /\ SplitWhenFull /\ ClosedWhenFull /\ EntriesDistinct

(* What the list looks like after one more fragment.                       *)
LEMMA PlacedAfter ==
  ASSUME TypeOK, NEW flush \in BOOLEAN, NEW n \in Nat, Place(flush, n)
  PROVE  /\ Len(placed) \in Nat /\ DOMAIN placed = 1 .. Len(placed)
         /\ Len(placed') = Len(placed) + 1 /\ DOMAIN placed' = 1 .. Len(placed) + 1
         /\ \A j \in 1 .. Len(placed) : placed'[j] = placed[j] /\ placed[j] \in Fragment
         /\ placed'[Len(placed) + 1].batch = number'
         /\ placed'[Len(placed) + 1].symbol = symbol
         /\ placed'[Len(placed) + 1].from = next
         /\ next' = next + n
<1> DEFINE f == [batch |-> number', symbol |-> symbol, from |-> next, to |-> next']
<1>1. \A j \in 1 .. Len(placed) : placed[j] \in Fragment
  BY PlacedFacts
<1>2. placed \in Seq(Fragment) /\ placed' = Append(placed, f) /\ next' = next + n
  BY DEF Place, TypeOK
<1>3. f.batch = number' /\ f.symbol = symbol /\ f.from = next
  OBVIOUS
<1> HIDE DEF f
<1>4. /\ Len(placed) \in Nat /\ DOMAIN placed = 1 .. Len(placed)
      /\ Len(placed') = Len(placed) + 1 /\ DOMAIN placed' = 1 .. Len(placed) + 1
      /\ \A j \in 1 .. Len(placed) : placed'[j] = placed[j]
      /\ placed'[Len(placed) + 1] = f
  BY <1>2
<1>5. QED
  BY <1>1, <1>2, <1>3, <1>4

LEMMA PlaceCurrent ==
  ASSUME FullInv, NEW flush \in BOOLEAN, NEW n \in Nat, Place(flush, n), flush => placed # <<>>
  PROVE  CurrentBatch'
<1> DEFINE N == Len(placed)
           first == N - entries + 1
<1>1. /\ TypeOK /\ next \in Nat /\ number \in Nat /\ entries \in Nat /\ sites \in Nat
      /\ Counters
  BY DEF FullInv, TilingInv, BatchInv, TypeOK
<1>2. /\ N \in Nat /\ Len(placed') = N + 1 /\ \A j \in 1 .. N : placed'[j] = placed[j]
      /\ placed'[N + 1].batch = number' /\ placed'[N + 1].from = next /\ next' = next + n
  BY <1>1, PlacedAfter
<1>3. CASE flush \/ placed = <<>>
  <2>1. entries' = 1 /\ sites' = n
    BY <1>1, <1>3 DEF Place, Counters
  <2>2. Len(placed') - entries' + 1 = N + 1
    BY <1>2, <2>1
  <2>3. QED
    BY <1>1, <1>2, <2>1, <2>2 DEF CurrentBatch
<1>4. CASE ~flush /\ placed # <<>>
  <2>1. entries' = entries + 1 /\ sites' = sites + n /\ number' = number
    BY <1>4 DEF Place
  <2>2. entries \in 1 .. N /\ placed[first].batch = number /\ next = placed[first].from + sites
    BY <1>4 DEF FullInv, CurrentBatch
  <2>3. first \in 1 .. N /\ Len(placed') - entries' + 1 = first /\ entries' \in 1 .. N + 1
    BY <1>1, <1>2, <2>1, <2>2
  <2>4. placed'[first] = placed[first] /\ placed[first].from \in Nat
    <3>1. placed[first] \in Fragment
      BY <1>1, <2>3, PlacedFacts
    <3>2. placed'[first] = placed[first]
      BY <1>1, <1>2, <2>3
    <3> HIDE DEF first
    <3> QED BY <3>1, <3>2, FragmentFacts
  <2>5. next' = placed[first].from + sites'
    BY <1>1, <1>2, <2>1, <2>2, <2>4
  <2>6. QED
    BY <1>2, <2>1, <2>2, <2>3, <2>4, <2>5 DEF CurrentBatch
<1>5. QED
  BY <1>3, <1>4

(* A flush closes a batch that has reached a limit, and the counters bound *)
(* it from the other side.                                                 *)
LEMMA PlaceClosed ==
  ASSUME FullInv, NEW flush \in BOOLEAN, NEW n \in Nat, Place(flush, n),
         UNCHANGED input, flush => BatchLimitReached
  PROVE  ClosedWhenFull'
<1> DEFINE N == Len(placed)
           first == N - entries + 1
<1>1. /\ TypeOK /\ Counters /\ LastPlaced /\ CurrentBatch /\ ClosedWhenFull
      /\ next \in Nat /\ number \in Nat /\ entries \in Nat /\ sites \in Nat
      /\ maxSymbols \in Nat /\ maxSites \in Nat
  BY LimitFacts DEF FullInv, TilingInv, BatchInv, TypeOK
<1>2. /\ N \in Nat /\ Len(placed') = N + 1 /\ \A j \in 1 .. N : placed'[j] = placed[j]
      /\ placed'[N + 1].batch = number'
  BY <1>1, PlacedAfter
<1>3. maxSymbols' = maxSymbols /\ maxSites' = maxSites
  BY DEF input
<1>4. SUFFICES ASSUME NEW j \in 1 .. N, placed'[j].batch # placed'[j + 1].batch
               PROVE  \E i \in 1 .. j :
                        /\ placed'[i].batch = placed'[j].batch
                        /\ \/ j - i + 1 = maxSymbols
                           \/ maxSites > 0 /\ placed'[j].to - placed'[i].from = maxSites
  <2>1. Len(placed') - 1 = N
    BY <1>2
  <2>2. QED
    BY <1>3, <2>1 DEF ClosedWhenFull, SameBatch
<1>5. CASE j = N
  <2>1. placed # <<>>
    BY <1>2, <1>5
  <2>2. placed[N].batch = number /\ placed[N].to = next
    BY <1>1, <2>1 DEF LastPlaced
  <2>3. flush
    BY <1>2, <1>4, <1>5, <2>2 DEF Place
  <2>4. \/ maxSymbols > 0 /\ entries = maxSymbols
        \/ maxSites > 0 /\ sites = maxSites
    BY <1>1, <2>3 DEF BatchLimitReached, SymbolsFull, Counters
  <2>5. entries \in 1 .. N /\ placed[first].batch = number /\ next = placed[first].from + sites
    BY <1>1, <2>1 DEF CurrentBatch
  <2>6. first \in 1 .. N /\ N - first + 1 = entries
    BY <1>1, <1>2, <2>5
  <2>7. placed[first].from \in Nat
    BY <1>1, <2>6, PlacedFacts, FragmentFacts
  <2>8. placed[N].to - placed[first].from = sites
    BY <1>1, <2>2, <2>5, <2>7
  <2>9. placed'[first] = placed[first] /\ placed'[N] = placed[N]
    BY <1>2, <1>5, <2>6
  <2>10. QED
    BY <1>5, <2>2, <2>4, <2>5, <2>6, <2>8, <2>9
<1>6. CASE j \in 1 .. N - 1
  <2>1. placed'[j] = placed[j] /\ placed'[j + 1] = placed[j + 1]
    BY <1>2, <1>6
  <2>2. PICK i \in 1 .. j :
          /\ placed[i].batch = placed[j].batch
          /\ \/ j - i + 1 = maxSymbols
             \/ maxSites > 0 /\ placed[j].to - placed[i].from = maxSites
    BY <1>1, <1>4, <1>6, <2>1 DEF ClosedWhenFull, SameBatch
  <2>3. placed'[i] = placed[i]
    BY <1>2, <1>6
  <2>4. QED
    BY <2>1, <2>2, <2>3
<1>7. QED
  BY <1>2, <1>5, <1>6

(* The symbol of a fragment that joins the batch is not in it yet.         *)
LEMMA PlaceDistinct ==
  ASSUME FullInv, NEW flush \in BOOLEAN, NEW n \in Nat, Place(flush, n),
         UNCHANGED input, symbol \in Symbols,
         next = bounds[symbol + 1] \/ (~flush => ~BatchLimitReached),
         \/ symbol' = symbol + 1
         \/ /\ symbol' = symbol /\ next + n < bounds[symbol + 1]
            /\ maxSites > 0 /\ sites' >= maxSites
  PROVE  SplitWhenFull' /\ EntriesDistinct'
<1> DEFINE N == Len(placed)
<1>1. /\ TypeOK /\ Counters /\ SplitWhenFull /\ EntriesDistinct
      /\ next \in Nat /\ number \in Nat /\ symbol \in Nat /\ maxSites \in Nat /\ sites \in Nat
  BY LimitFacts DEF FullInv, TilingInv, BatchInv, TypeOK, Symbols
<1>2. /\ N \in Nat /\ DOMAIN placed = 1 .. N /\ DOMAIN placed' = 1 .. N + 1
      /\ \A j \in 1 .. N : placed'[j] = placed[j]
      /\ placed'[N + 1].batch = number' /\ placed'[N + 1].symbol = symbol /\ next' = next + n
  BY <1>1, PlacedAfter
<1>3. \A j \in 1 .. N : placed[j].symbol \in Nat /\ placed[j].batch \in Nat
                        /\ placed[j].symbol <= symbol /\ placed[j].batch <= number
  BY <1>1, <1>2, PlacedFacts, FragmentFacts DEF SplitWhenFull, Counters
<1>4. maxSites' = maxSites /\ bounds' = bounds
  BY DEF input
<1>5. SplitWhenFull'
  <2>1. CASE symbol' = symbol + 1
    BY <1>1, <1>2, <1>3, <2>1 DEF SplitWhenFull
  <2>2. CASE symbol' = symbol /\ next + n < bounds[symbol + 1] /\ maxSites > 0 /\ sites' >= maxSites
    BY <1>1, <1>2, <1>3, <1>4, <2>2 DEF SplitWhenFull
  <2>3. QED
    BY <2>1, <2>2
<1>6. ASSUME NEW j \in 1 .. N, placed[j].batch = number' PROVE placed[j].symbol # symbol
  <2>1. ~flush /\ number' = number
    BY <1>1, <1>3, <1>6 DEF Place
  <2>2. SUFFICES ASSUME placed[j].symbol = symbol PROVE FALSE
    OBVIOUS
  <2>3. next < bounds[symbol + 1] /\ maxSites > 0 /\ sites >= maxSites
    BY <1>1, <1>2, <1>6, <2>1, <2>2 DEF SplitWhenFull
  <2>4. next # bounds[symbol + 1]
    BY <1>1, <2>3, BoundsFacts DEF TypeOK, Symbols
  <2>5. QED
    BY <2>1, <2>3, <2>4 DEF BatchLimitReached
<1>7. EntriesDistinct'
  <2>1. SUFFICES ASSUME NEW j \in 1 .. N + 1, NEW k \in 1 .. N + 1, j < k,
                        placed'[j].batch = placed'[k].batch
                 PROVE  placed'[j].symbol # placed'[k].symbol
    BY <1>2 DEF EntriesDistinct, SameBatch
  <2>2. CASE k = N + 1
    BY <1>2, <1>6, <2>1, <2>2
  <2>3. CASE k \in 1 .. N
    BY <1>1, <1>2, <2>1, <2>3 DEF EntriesDistinct, SameBatch
  <2>4. QED
    BY <1>2, <2>2, <2>3
<1>8. QED
  BY <1>5, <1>7

(* A take that leaves some of the symbol behind fills the batch.           *)
LEMMA TakeFills ==
  ASSUME TypeOK, symbol \in Symbols, next < bounds[symbol + 1],
         Place(BatchLimitReached, Take(BatchLimitReached)), next' # bounds[symbol + 1],
         maxSites > 0 => sites <= maxSites
  PROVE  maxSites > 0 /\ sites' >= maxSites
<1>1. bounds[symbol + 1] \in Nat /\ next \in Nat /\ sites \in Nat /\ maxSites \in Nat
  BY BoundsFacts, LimitFacts DEF TypeOK, Symbols
<1>2. next + Remaining = bounds[symbol + 1]
  BY <1>1 DEF Remaining
<1>3. /\ Take(BatchLimitReached) # Remaining
      /\ sites' = IF BatchLimitReached THEN Take(BatchLimitReached)
                                       ELSE sites + Take(BatchLimitReached)
  BY <1>2 DEF Place
<1>4. maxSites > 0 /\ Take(BatchLimitReached) = IF BatchLimitReached THEN maxSites ELSE maxSites - sites
  BY <1>3 DEF Take
<1>5. QED
  BY <1>1, <1>3, <1>4

LEMMA FullStep == FullInv /\ [Next]_vars => FullInv'
<1> SUFFICES ASSUME FullInv, [Next]_vars PROVE FullInv'
  OBVIOUS
<1>a. TilingInv'
  BY TilingStep DEF FullInv
<1>b. SUFFICES CurrentBatch' /\ SplitWhenFull' /\ ClosedWhenFull' /\ EntriesDistinct'
  BY <1>a DEF FullInv
<1>c. TypeOK /\ Cursor /\ Counters
  BY DEF FullInv, TilingInv, BatchInv
<1>d. BatchLimitReached => placed # <<>>
  BY <1>c, LimitFacts DEF BatchLimitReached, SymbolsFull, Counters, TypeOK
<1>1. CASE PlaceEmptySymbol
  <2>1. /\ Place(SymbolsFull, 0) /\ SymbolsFull \in BOOLEAN /\ UNCHANGED input
        /\ symbol \in Symbols /\ symbol' = symbol + 1 /\ bounds[symbol] = bounds[symbol + 1]
    BY <1>1 DEF PlaceEmptySymbol, SymbolsFull
  <2>2. next = bounds[symbol + 1]
    BY <1>c, <2>1, BoundsFacts DEF Cursor, TypeOK, Symbols
  <2>3. SymbolsFull => BatchLimitReached
    BY DEF BatchLimitReached
  <2>4. QED
    BY <1>d, <2>1, <2>2, <2>3, PlaceCurrent, PlaceClosed, PlaceDistinct
<1>2. CASE PlaceSites
  <2> DEFINE n == Take(BatchLimitReached)
  <2>1. /\ Place(BatchLimitReached, n) /\ BatchLimitReached \in BOOLEAN /\ UNCHANGED input
        /\ symbol \in Symbols /\ next < bounds[symbol + 1]
        /\ symbol' = IF next' = bounds[symbol + 1] THEN symbol + 1 ELSE symbol
    BY <1>2 DEF PlaceSites, BatchLimitReached, SymbolsFull
  <2>2. n \in Nat /\ next + n <= bounds[symbol + 1]
    BY <1>c, <2>1, TakeFacts DEF Counters
  <2>3. next' # bounds[symbol + 1] => maxSites > 0 /\ sites' >= maxSites
    BY <1>c, <2>1, TakeFills DEF Counters
  <2> HIDE DEF n
  <2>4. next' = next + n
    BY <2>1 DEF Place
  <2>5. next' # bounds[symbol + 1] => next + n < bounds[symbol + 1]
    <3>1. bounds[symbol + 1] \in Nat /\ next \in Nat
      BY <1>c, <2>1, BoundsFacts DEF TypeOK, Symbols
    <3>2. QED
      BY <2>2, <2>4, <3>1
  <2>6. SplitWhenFull' /\ EntriesDistinct'
    BY <2>1, <2>2, <2>3, <2>5, PlaceDistinct
  <2>7. QED
    BY <1>d, <2>1, <2>2, <2>6, PlaceCurrent, PlaceClosed
<1>3. CASE Finish \/ UNCHANGED vars
  <2>1. UNCHANGED <<bounds, maxSymbols, maxSites, symbol, next, entries, sites, number, placed>>
    BY <1>3 DEF Finish, vars, input
  <2>2. CurrentBatch' /\ SplitWhenFull' /\ ClosedWhenFull' /\ EntriesDistinct'
    BY <2>1 DEF FullInv, CurrentBatch, SplitWhenFull, ClosedWhenFull, EntriesDistinct, SameBatch
  <2> QED BY <2>2
<1>4. QED
  BY <1>1, <1>2, <1>3 DEF Next, Step, Finished

LEMMA FullAlways == Spec => []FullInv
<1>1. Init => Consecutive /\ LastPlaced
  BY DEF Init, Consecutive, LastPlaced
<1>2. Init => CurrentBatch /\ SplitWhenFull /\ ClosedWhenFull /\ EntriesDistinct
  BY DEF Init, CurrentBatch, SplitWhenFull, ClosedWhenFull, EntriesDistinct
<1>3. Init => FullInv
  BY <1>1, <1>2, InitBatch DEF TilingInv, FullInv
<1>4. QED
  BY <1>3, FullStep, PTL DEF Spec

(* No batch is closed early: a batch with another one after it has as many *)
(* entries or as many sites as the limits allow.                           *)
THEOREM BatchesClosedFull == Spec => []ClosedWhenFull
<1>1. FullInv => ClosedWhenFull
  BY DEF FullInv
<1>2. QED
  BY FullAlways, <1>1, PTL

(* A symbol split over batches has one entry in each of them, never two.   *)
THEOREM BatchEntriesDistinct == Spec => []EntriesDistinct
<1>1. FullInv => EntriesDistinct
  BY DEF FullInv
<1>2. QED
  BY FullAlways, <1>1, PTL
-----------------------------------------------------------------------------
(***************************************************************************)
(* Merging the batches again.  The fragments arrive in the order of the    *)
(* sorted surface, so that each adds to the entry added last or starts the *)
(* next one: after k fragments the merged entries are those of the names   *)
(* placed by then, all complete but the last.                              *)
(***************************************************************************)
Entry == [name : Nat, sites : Seq(Nat)]

PlacedWithin ==
  \A j \in DOMAIN placed : placed[j].symbol \in Symbols /\ placed[j].from <= placed[j].to

TwinsApart == \A i \in twins : i > 1 /\ i - 1 \notin twins

MergeInv == TilingInv /\ PlacedWithin /\ TwinsApart

InOrder(merged) == \A p, q \in DOMAIN merged : p < q => merged[p].name < merged[q].name

Complete(e) == e.sites = SiteList(bounds[e.name], bounds[After(e.name)])

(* What merging the first k > 0 fragments gives.                           *)
MergedUpTo(merged, k) ==
  LET f == placed[k]
  IN /\ merged \in Seq(Entry) /\ Len(merged) > 0 /\ InOrder(merged)
     /\ {merged[p].name : p \in DOMAIN merged} = 1 .. f.symbol \ twins
     /\ merged[Len(merged)].name = NameOf(f.symbol)
     /\ bounds[NameOf(f.symbol)] <= f.to
     /\ merged[Len(merged)].sites = SiteList(bounds[NameOf(f.symbol)], f.to)
     /\ \A p \in 1 .. Len(merged) - 1 : Complete(merged[p])

LEMMA EntryFacts ==
  ASSUME NEW merged \in Seq(Entry)
  PROVE  /\ Len(merged) \in Nat /\ DOMAIN merged = 1 .. Len(merged)
         /\ \A p \in 1 .. Len(merged) :
              merged[p] \in Entry /\ merged[p].name \in Nat /\ merged[p].sites \in Seq(Nat)
<1>1. \A e \in Entry : e.name \in Nat /\ e.sites \in Seq(Nat)
  BY DEF Entry
<1> QED BY <1>1

LEMMA SiteListFacts ==
  ASSUME NEW from \in Nat, NEW to \in Nat, from <= to
  PROVE  /\ SiteList(from, to) \in Seq(Nat) /\ Len(SiteList(from, to)) = to - from
         /\ \A i \in 1 .. to - from : SiteList(from, to)[i] = from + i - 1
<1>1. to - from \in Nat /\ \A i \in 1 .. to - from : from + i - 1 \in Nat
  OBVIOUS
<1> QED BY <1>1 DEF SiteList

LEMMA SiteListsJoin ==
  ASSUME NEW a \in Nat, NEW b \in Nat, NEW c \in Nat, a <= b, b <= c
  PROVE  SiteList(a, b) \o SiteList(b, c) = SiteList(a, c)
<1>1. PICK s : s = SiteList(a, b)
  OBVIOUS
<1>2. PICK t : t = SiteList(b, c)
  OBVIOUS
<1>3. PICK u : u = SiteList(a, c)
  OBVIOUS
<1>4. s \in Seq(Nat) /\ Len(s) = b - a /\ \A i \in 1 .. b - a : s[i] = a + i - 1
  BY <1>1, SiteListFacts
<1>5. t \in Seq(Nat) /\ Len(t) = c - b /\ \A i \in 1 .. c - b : t[i] = b + i - 1
  BY <1>2, SiteListFacts
<1>6. u \in Seq(Nat) /\ Len(u) = c - a /\ \A i \in 1 .. c - a : u[i] = a + i - 1
  <2>1. a <= c
    OBVIOUS
  <2> QED BY <2>1, <1>3, SiteListFacts
<1>7. /\ s \o t \in Seq(Nat) /\ Len(s \o t) = Len(s) + Len(t)
      /\ \A i \in 1 .. Len(s) + Len(t) : (s \o t)[i] = IF i <= Len(s) THEN s[i] ELSE t[i - Len(s)]
  BY <1>4, <1>5, ConcatProperties
<1>8. Len(s) + Len(t) = c - a
  BY <1>4, <1>5
<1>9. \A i \in 1 .. c - a : (s \o t)[i] = u[i]
  <2> SUFFICES ASSUME NEW i \in 1 .. c - a PROVE (s \o t)[i] = u[i]
    OBVIOUS
  <2>1. CASE i <= b - a
    BY <1>4, <1>6, <1>7, <1>8, <2>1
  <2>2. CASE ~ (i <= b - a)
    <3>1. i - (b - a) \in 1 .. c - b /\ b + (i - (b - a)) - 1 = a + i - 1
      BY <2>2
    <3> QED BY <1>4, <1>5, <1>6, <1>7, <1>8, <2>2, <3>1
  <2> QED BY <2>1, <2>2
<1>10. s \o t = u
  <2>1. Len(s \o t) = Len(u) /\ \A i \in 1 .. Len(s \o t) : (s \o t)[i] = u[i]
    BY <1>6, <1>7, <1>8, <1>9
  <2> QED BY <1>6, <1>7, <2>1, SeqEqual
<1> QED BY <1>1, <1>2, <1>3, <1>10

LEMMA NameFacts ==
  ASSUME TwinsApart, NEW i \in Symbols
  PROVE  /\ i \in Nat /\ NameOf(i) \in Nat /\ NameOf(i) \in 1 .. i /\ NameOf(i) \notin twins
         /\ i \notin twins => NameOf(i) = i
         /\ i \in twins => NameOf(i) = i - 1
<1>1. i \in Nat /\ i >= 1
  BY DEF Symbols
<1> QED BY <1>1 DEF NameOf, TwinsApart

(* A fragment of a name that has no entry yet.                             *)
LEMMA AddedFirst ==
  ASSUME NEW merged \in Seq(Entry), NEW f \in Fragment,
         \A p \in 1 .. Len(merged) : merged[p].name # NameOf(f.symbol)
  PROVE  AddFragment(merged, f) =
           Append(merged, [name |-> NameOf(f.symbol), sites |-> SiteList(f.from, f.to)])
<1>1. {p \in DOMAIN merged : merged[p].name = NameOf(f.symbol)} = {}
  BY EntryFacts
<1> QED BY <1>1 DEF AddFragment

(* A fragment of the name added last.                                      *)
LEMMA AddedAgain ==
  ASSUME NEW merged \in Seq(Entry), NEW f \in Fragment, InOrder(merged), Len(merged) > 0,
         merged[Len(merged)].name = NameOf(f.symbol)
  PROVE  AddFragment(merged, f) =
           [merged EXCEPT ![Len(merged)].sites = @ \o SiteList(f.from, f.to)]
<1> DEFINE at == {p \in DOMAIN merged : merged[p].name = NameOf(f.symbol)}
<1>1. at = {Len(merged)}
  <2>1. Len(merged) \in DOMAIN merged
    BY EntryFacts
  <2>2. ASSUME NEW p \in DOMAIN merged, p # Len(merged) PROVE merged[p].name # NameOf(f.symbol)
    <3>1. p \in 1 .. Len(merged) /\ Len(merged) \in Nat /\ p < Len(merged)
      BY <2>2, EntryFacts
    <3>2. merged[p].name < merged[Len(merged)].name
      BY <2>1, <3>1 DEF InOrder
    <3>3. merged[p].name \in Nat /\ merged[Len(merged)].name \in Nat
      BY <2>1, <3>1, EntryFacts
    <3> QED BY <3>2, <3>3
  <2> QED BY <2>1, <2>2
<1>2. at # {} /\ (CHOOSE p \in at : TRUE) = Len(merged)
  BY <1>1
<1> QED BY <1>2 DEF AddFragment

LEMMA AddType ==
  ASSUME NEW merged \in Seq(Entry), NEW f \in Fragment,
         f.from <= f.to, NameOf(f.symbol) \in Nat
  PROVE  AddFragment(merged, f) \in Seq(Entry)
<1> DEFINE at == {p \in DOMAIN merged : merged[p].name = NameOf(f.symbol)}
           more == SiteList(f.from, f.to)
<1>1. more \in Seq(Nat)
  BY FragmentFacts, SiteListFacts
<1>2. CASE at = {}
  <2>1. AddFragment(merged, f) = Append(merged, [name |-> NameOf(f.symbol), sites |-> more])
    BY <1>2 DEF AddFragment
  <2>2. [name |-> NameOf(f.symbol), sites |-> more] \in Entry
    BY <1>1 DEF Entry
  <2> HIDE DEF more
  <2> QED BY <2>1, <2>2
<1>3. CASE at # {}
  <2> DEFINE q == CHOOSE p \in at : TRUE
  <2>1. q \in 1 .. Len(merged)
    BY <1>3, EntryFacts
  <2>2. AddFragment(merged, f) = [merged EXCEPT ![q].sites = @ \o more]
    BY <1>3 DEF AddFragment
  <2> HIDE DEF q, more, at
  <2>3. [merged[q] EXCEPT !.sites = @ \o more] \in Entry
    <3>1. merged[q] \in Entry /\ merged[q].sites \o more \in Seq(Nat)
      BY <1>1, <2>1, EntryFacts
    <3> QED BY <3>1 DEF Entry
  <2>4. [merged EXCEPT ![q] = [merged[q] EXCEPT !.sites = @ \o more]] \in Seq(Entry)
    BY <2>1, <2>3
  <2> QED BY <2>2, <2>4
<1> QED BY <1>2, <1>3

(* The accumulator of the loop of mergeUsageBatches.                       *)
LEMMA MergeRuns ==
  ASSUME TypeOK, PlacedWithin, TwinsApart
  PROVE  \E g : /\ g[0] = <<>>
                /\ \A k \in 1 .. Len(placed) :
                     g[k - 1] \in Seq(Entry) /\ g[k] = AddFragment(g[k - 1], placed[k])
                /\ MergeUsageBatches = g[Len(placed)]
<1> DEFINE n == Len(placed)
           V == Seq(Entry)
           step == [p \in V \X (1 .. n) |-> AddFragment(p[1], placed[p[2]])]
           Rec(f) == f = [u \in SUBSET (1 .. n) |-> IF u = {} THEN <<>>
                            ELSE AddFragment(f[u \ {Max(u)}], placed[Max(u)])]
           iter == CHOOSE f : Rec(f)
<1>1. n \in Nat /\ DOMAIN placed = 1 .. n
  BY DEF TypeOK
<1>2. step \in [V \X (1 .. n) -> V]
  <2>1. ASSUME NEW out \in V, NEW k \in 1 .. n PROVE AddFragment(out, placed[k]) \in V
    <3>1. placed[k] \in Fragment /\ placed[k].from <= placed[k].to /\ placed[k].symbol \in Symbols
      BY <1>1, PlacedFacts DEF PlacedWithin
    <3>2. NameOf(placed[k].symbol) \in Nat
      BY <3>1, NameFacts
    <3> QED BY <3>1, <3>2, AddType
  <2> HIDE DEF V, n
  <2> QED BY <2>1
<1>3. PICK g, f : Runs(g, f, V, <<>>, n, step)
  <2>1. <<>> \in V
    OBVIOUS
  <2> HIDE DEF step, n, V
  <2> QED BY <1>1, <1>2, <2>1, Loop
<1>4. Rec(f)
  <2> HIDE DEF n
  <2> QED BY <1>3 DEF Runs
<1>5. Rec(iter)
  <2> HIDE DEF Rec
  <2> QED BY <1>4
<1>6. MergeUsageBatches = iter[1 .. n]
  <2>1. MergeUsageBatches = iter[DOMAIN placed]
    BY <1>1, Zenon DEF MergeUsageBatches, FoldLeft, MapThenFoldSet
  <2> QED BY <2>1, <1>1
<1> HIDE DEF iter, n, V
<1>7. iter[1 .. n] = g[n]
  <2>1. iter[{}] = <<>>
    BY <1>5
  <2>2. ASSUME NEW k \in 1 .. n, iter[1 .. (k - 1)] \in V
        PROVE  iter[1 .. k] = step[<<iter[1 .. (k - 1)], k>>]
    <3>1. /\ (1 .. k) \in SUBSET (1 .. n) /\ (1 .. k) # {}
          /\ Max(1 .. k) = k /\ (1 .. k) \ {k} = 1 .. (k - 1)
      BY <1>1, FirstPositions
    <3>2. iter[1 .. k] = AddFragment(iter[(1 .. k) \ {k}], placed[k])
      BY <1>5, <3>1
    <3> QED BY <2>2, <3>1, <3>2
  <2> QED BY <2>1, <2>2, <1>3 DEF Runs
<1>8. /\ g[0] = <<>>
      /\ \A k \in 1 .. n : g[k - 1] \in V /\ g[k] = AddFragment(g[k - 1], placed[k])
  BY <1>3 DEF Runs
<1> QED BY <1>6, <1>7, <1>8 DEF n, V

(* Two fragments that follow each other.                                   *)
LEMMA Neighbours ==
  ASSUME MergeInv, NEW k \in 1 .. Len(placed) - 1
  PROVE  LET f == placed[k]
             h == placed[k + 1]
         IN /\ f \in Fragment /\ h \in Fragment /\ f.symbol \in Symbols /\ h.symbol \in Symbols
            /\ f.to \in Nat /\ h.to \in Nat /\ h.from = f.to /\ h.from <= h.to
            /\ \/ h.symbol = f.symbol
               \/ h.symbol = f.symbol + 1 /\ f.to = bounds[f.symbol + 1]
<1>1. k \in 1 .. Len(placed) /\ k + 1 \in 1 .. Len(placed) /\ DOMAIN placed = 1 .. Len(placed)
  BY DEF MergeInv, TilingInv, BatchInv, TypeOK
<1>2. placed[k] \in Fragment /\ placed[k + 1] \in Fragment
  BY <1>1, PlacedFacts DEF MergeInv, TilingInv, BatchInv
<1>3. placed[k].to \in Nat /\ placed[k + 1].to \in Nat
  BY <1>2, FragmentFacts
<1>4. placed[k].symbol \in Symbols /\ placed[k + 1].symbol \in Symbols
      /\ placed[k + 1].from <= placed[k + 1].to
  BY <1>1 DEF MergeInv, PlacedWithin
<1>5. /\ placed[k + 1].from = placed[k].to
      /\ \/ placed[k + 1].symbol = placed[k].symbol
         \/ placed[k + 1].symbol = placed[k].symbol + 1
            /\ placed[k].to = bounds[placed[k].symbol + 1]
  BY DEF MergeInv, TilingInv, Consecutive
<1> QED BY <1>2, <1>3, <1>4, <1>5

LEMMA MergedFirst ==
  ASSUME MergeInv, placed # <<>>
  PROVE  MergedUpTo(AddFragment(<<>>, placed[1]), 1)
<1> DEFINE f == placed[1]
           e == [name |-> NameOf(f.symbol), sites |-> SiteList(f.from, f.to)]
<1>1. Len(placed) \in Nat /\ 1 \in DOMAIN placed
  BY DEF MergeInv, TilingInv, BatchInv, TypeOK
<1>2. f \in Fragment /\ f.symbol = 1 /\ f.from = 0 /\ f.symbol \in Symbols
  BY <1>1, PlacedFacts DEF MergeInv, TilingInv, BatchInv, Consecutive, PlacedWithin
<1>3. f.to \in Nat
  BY <1>2, FragmentFacts
<1>4. NameOf(f.symbol) = 1 /\ 1 \notin twins
  <2>1. NameOf(1) \in 1 .. 1 /\ NameOf(1) \notin twins
    BY <1>2, NameFacts DEF MergeInv
  <2> QED BY <1>2, <2>1
<1>5. bounds[1] = 0
  BY BoundsFacts DEF MergeInv, TilingInv, BatchInv, TypeOK
<1>6. AddFragment(<<>>, f) = Append(<<>>, e)
  <2>1. <<>> \in Seq(Entry) /\ 1 .. Len(<<>>) = {}
    OBVIOUS
  <2> HIDE DEF f
  <2> QED BY <1>2, <2>1, AddedFirst
<1>7. e \in Entry /\ e.name = 1 /\ e.sites = SiteList(0, f.to)
  <2>1. SiteList(0, f.to) \in Seq(Nat)
    <3>1. 0 \in Nat /\ f.to \in Nat /\ 0 <= f.to
      BY <1>3
    <3> HIDE DEF f
    <3> QED BY <3>1, SiteListFacts
  <2> QED BY <1>2, <1>4, <2>1 DEF Entry
<1> DEFINE r == AddFragment(<<>>, f)
<1> HIDE DEF e
<1>8. r = <<e>> /\ r \in Seq(Entry) /\ Len(r) = 1 /\ DOMAIN r = 1 .. 1 /\ r[1] = e
  <2>1. Append(<<>>, e) = <<e>>
    OBVIOUS
  <2>2. r = <<e>>
    BY <1>6, <2>1
  <2> HIDE DEF r
  <2> QED BY <1>7, <2>2
<1> HIDE DEF r, f
<1>9. {r[p].name : p \in DOMAIN r} = 1 .. f.symbol \ twins
  <2>1. 1 .. 1 = {1} /\ 1 .. f.symbol = {1}
    BY <1>2
  <2> QED BY <1>4, <1>7, <1>8, <2>1
<1>10. InOrder(r) /\ \A p \in 1 .. Len(r) - 1 : Complete(r[p])
  BY <1>8 DEF InOrder
<1> QED BY <1>2, <1>3, <1>4, <1>5, <1>7, <1>8, <1>9, <1>10 DEF MergedUpTo, f, r

(* More sites for the entry added last.                                    *)
LEMMA MergedAgain ==
  ASSUME MergeInv, NEW k \in 1 .. Len(placed) - 1, NEW merged, MergedUpTo(merged, k),
         NameOf(placed[k + 1].symbol) = NameOf(placed[k].symbol)
  PROVE  MergedUpTo(AddFragment(merged, placed[k + 1]), k + 1)
<1> DEFINE f == placed[k]
           h == placed[k + 1]
           n == NameOf(f.symbol)
           L == Len(merged)
           r == AddFragment(merged, h)
<1>1. /\ f \in Fragment /\ h \in Fragment /\ f.symbol \in Symbols /\ h.symbol \in Symbols
      /\ f.to \in Nat /\ h.to \in Nat /\ h.from = f.to /\ h.from <= h.to
      /\ h.symbol = f.symbol \/ h.symbol = f.symbol + 1
  BY Neighbours
<1>2. /\ merged \in Seq(Entry) /\ L > 0 /\ InOrder(merged)
      /\ {merged[p].name : p \in DOMAIN merged} = 1 .. f.symbol \ twins
      /\ merged[L].name = n /\ bounds[n] <= f.to
      /\ merged[L].sites = SiteList(bounds[n], f.to)
      /\ \A p \in 1 .. L - 1 : Complete(merged[p])
  BY DEF MergedUpTo
<1>3. L \in Nat /\ DOMAIN merged = 1 .. L /\ L \in 1 .. L
  BY <1>2, EntryFacts
<1>4. n \in 1 .. f.symbol /\ f.symbol \in Nat /\ h.symbol \in Nat /\ NameOf(h.symbol) = n
  BY <1>1, NameFacts DEF MergeInv
<1>5. h.symbol = f.symbol \/ (h.symbol = f.symbol + 1 /\ h.symbol \in twins)
  <2>1. h.symbol \notin twins => NameOf(h.symbol) = h.symbol
    BY <1>1, NameFacts DEF MergeInv
  <2> QED BY <1>1, <1>4, <2>1
<1>6. bounds[n] \in Nat
  <2>1. n \in 1 .. Len(bounds)
    BY <1>1, <1>4, BoundsFacts DEF Symbols, MergeInv, TilingInv, BatchInv, TypeOK
  <2> QED BY <2>1, BoundsFacts DEF MergeInv, TilingInv, BatchInv, TypeOK
<1> HIDE DEF f, h, n, L
<1>7. r = [merged EXCEPT ![L].sites = @ \o SiteList(h.from, h.to)]
  <2>1. merged[Len(merged)].name = NameOf(h.symbol) /\ Len(merged) > 0
    BY <1>2, <1>4 DEF L
  <2> QED BY <1>1, <1>2, <2>1, AddedAgain DEF L
<1>8. r \in Seq(Entry)
  BY <1>1, <1>2, <1>4, AddType
<1> HIDE DEF r
<1>9. DOMAIN r = 1 .. L /\ Len(r) = L /\ \A p \in 1 .. L : r[p].name = merged[p].name
  <2>1. DOMAIN r = 1 .. L /\ \A p \in 1 .. L : r[p].name = merged[p].name
    <3>1. \A p \in 1 .. L : merged[p] \in Entry
      BY <1>2, EntryFacts DEF L
    <3> QED BY <1>3, <1>7, <3>1 DEF Entry
  <2>2. DOMAIN r = 1 .. Len(r) /\ Len(r) \in Nat
    BY <1>8, EntryFacts
  <2> QED BY <1>3, <2>1, <2>2
<1>10. r[L].sites = SiteList(bounds[n], h.to)
  <2>1. merged[L] \in Entry
    BY <1>2, <1>3, EntryFacts DEF L
  <2>2. r[L].sites = merged[L].sites \o SiteList(h.from, h.to)
    BY <1>3, <1>7, <2>1 DEF Entry
  <2>3. SiteList(bounds[n], f.to) \o SiteList(f.to, h.to) = SiteList(bounds[n], h.to)
    BY <1>1, <1>2, <1>6, SiteListsJoin
  <2> QED BY <1>1, <1>2, <2>2, <2>3
<1>11. bounds[n] <= h.to
  BY <1>1, <1>2, <1>6
<1>12. \A p \in 1 .. L - 1 : Complete(r[p])
  <2>1. \A p \in 1 .. L - 1 : r[p] = merged[p]
    BY <1>3, <1>7
  <2> QED BY <1>2, <2>1
<1>13. {r[p].name : p \in DOMAIN r} = 1 .. h.symbol \ twins
  <2>1. {r[p].name : p \in DOMAIN r} = {merged[p].name : p \in DOMAIN merged}
    BY <1>3, <1>9
  <2>2. 1 .. h.symbol \ twins = 1 .. f.symbol \ twins
    BY <1>4, <1>5
  <2> QED BY <1>2, <2>1, <2>2
<1>14. InOrder(r)
  BY <1>2, <1>3, <1>9 DEF InOrder
<1>15. r[L].name = n
  BY <1>2, <1>3, <1>9
<1> QED BY <1>2, <1>4, <1>8, <1>9, <1>10, <1>11, <1>12, <1>13, <1>14, <1>15 DEF MergedUpTo, r, h

(* The first fragment of the next name.                                    *)
LEMMA MergedNext ==
  ASSUME MergeInv, NEW k \in 1 .. Len(placed) - 1, NEW merged, MergedUpTo(merged, k),
         NameOf(placed[k + 1].symbol) # NameOf(placed[k].symbol)
  PROVE  MergedUpTo(AddFragment(merged, placed[k + 1]), k + 1)
<1> DEFINE f == placed[k]
           h == placed[k + 1]
           n == NameOf(f.symbol)
           m == h.symbol
           L == Len(merged)
           e == [name |-> NameOf(h.symbol), sites |-> SiteList(h.from, h.to)]
           r == AddFragment(merged, h)
<1>1. /\ f \in Fragment /\ h \in Fragment /\ f.symbol \in Symbols /\ m \in Symbols
      /\ f.to \in Nat /\ h.to \in Nat /\ h.from = f.to /\ h.from <= h.to
      /\ m = f.symbol \/ (m = f.symbol + 1 /\ f.to = bounds[f.symbol + 1])
  BY Neighbours
<1>2. /\ merged \in Seq(Entry) /\ L > 0 /\ InOrder(merged)
      /\ {merged[p].name : p \in DOMAIN merged} = 1 .. f.symbol \ twins
      /\ merged[L].name = n
      /\ merged[L].sites = SiteList(bounds[n], f.to)
      /\ \A p \in 1 .. L - 1 : Complete(merged[p])
  BY DEF MergedUpTo
<1>3. L \in Nat /\ DOMAIN merged = 1 .. L /\ L \in 1 .. L
  BY <1>2, EntryFacts
<1>4. /\ n \in 1 .. f.symbol /\ f.symbol \in Nat /\ m \in Nat /\ n \in Nat
      /\ f.symbol \notin twins => n = f.symbol
      /\ f.symbol \in twins => n = f.symbol - 1
      /\ m \notin twins => NameOf(m) = m
      /\ m \in twins => NameOf(m) = m - 1
  BY <1>1, NameFacts DEF MergeInv
<1>5. m = f.symbol + 1 /\ m \notin twins /\ NameOf(m) = m /\ f.to = bounds[m]
  <2>1. m # f.symbol
    OBVIOUS
  <2>2. m = f.symbol + 1 /\ f.to = bounds[m]
    BY <1>1, <2>1
  <2>3. ASSUME m \in twins PROVE FALSE
    <3>1. NameOf(m) = f.symbol /\ NameOf(m) # n
      BY <1>4, <2>2, <2>3
    <3>2. m - 1 \notin twins
      BY <2>3 DEF MergeInv, TwinsApart
    <3>3. f.symbol \notin twins
      BY <1>4, <2>2, <3>2
    <3> QED BY <1>4, <3>1, <3>3
  <2> QED BY <1>4, <2>2, <2>3
<1> HIDE DEF f, h, n, m, L
<1>6. \A p \in 1 .. L : merged[p].name \in Nat /\ merged[p].name < m
  <2> SUFFICES ASSUME NEW p \in 1 .. L PROVE merged[p].name \in Nat /\ merged[p].name < m
    OBVIOUS
  <2>1. merged[p].name \in 1 .. f.symbol
    BY <1>2, <1>3
  <2> QED BY <1>4, <1>5, <2>1
<1>7. r = Append(merged, e)
  <2>1. \A p \in 1 .. Len(merged) : merged[p].name # NameOf(h.symbol)
    BY <1>4, <1>5, <1>6 DEF L, m
  <2> HIDE DEF r
  <2> QED BY <1>1, <1>2, <2>1, AddedFirst DEF r
<1>8. e \in Entry /\ e.name = m /\ e.sites = SiteList(bounds[m], h.to)
  <2>1. SiteList(h.from, h.to) \in Seq(Nat)
    BY <1>1, SiteListFacts
  <2> QED BY <1>1, <1>4, <1>5, <2>1 DEF Entry, m
<1> HIDE DEF r, e
<1>9. /\ r \in Seq(Entry) /\ Len(r) = L + 1 /\ DOMAIN r = 1 .. L + 1 /\ r[L + 1] = e
      /\ \A p \in 1 .. L : r[p] = merged[p]
  BY <1>2, <1>3, <1>7, <1>8 DEF L
<1>10. \A p \in 1 .. L : Complete(r[p])
  <2>1. After(n) = f.symbol + 1
    BY <1>4, <1>5 DEF After
  <2>2. Complete(merged[L])
    BY <1>1, <1>2, <1>5, <2>1 DEF Complete
  <2>3. \A p \in 1 .. L : p = L \/ p \in 1 .. L - 1
    BY <1>3
  <2> QED BY <1>2, <1>9, <2>2, <2>3
<1>11. {r[p].name : p \in DOMAIN r} = 1 .. m \ twins
  <2>1. {r[p].name : p \in DOMAIN r} = {merged[p].name : p \in DOMAIN merged} \cup {m}
    <3>1. \A p \in 1 .. L : r[p].name = merged[p].name
      BY <1>9
    <3>2. r[L + 1].name = m /\ L + 1 \in 1 .. L + 1 /\ 1 .. L + 1 = (1 .. L) \cup {L + 1}
      BY <1>3, <1>8, <1>9
    <3> QED BY <1>3, <1>9, <3>1, <3>2
  <2>2. 1 .. m \ twins = (1 .. f.symbol \ twins) \cup {m}
    BY <1>4, <1>5
  <2> QED BY <1>2, <2>1, <2>2
<1>12. InOrder(r)
  <2> SUFFICES ASSUME NEW p \in 1 .. L + 1, NEW q \in 1 .. L + 1, p < q
               PROVE  r[p].name < r[q].name
    BY <1>9 DEF InOrder
  <2>1. CASE q = L + 1
    <3>1. p \in 1 .. L
      BY <1>3, <2>1
    <3> QED BY <1>6, <1>8, <1>9, <2>1, <3>1
  <2>2. CASE q # L + 1
    <3>1. p \in 1 .. L /\ q \in 1 .. L
      BY <1>3, <2>2
    <3> QED BY <1>2, <1>3, <1>9, <3>1 DEF InOrder
  <2> QED BY <2>1, <2>2
<1>13. (L + 1) - 1 = L /\ L + 1 > 0 /\ bounds[m] <= h.to
  BY <1>1, <1>3, <1>5
<1> QED BY <1>5, <1>8, <1>9, <1>10, <1>11, <1>12, <1>13 DEF MergedUpTo, r, h, m

LEMMA MergeStep == MergeInv /\ [Next]_vars => MergeInv'
<1> SUFFICES ASSUME MergeInv, [Next]_vars PROVE MergeInv'
  OBVIOUS
<1>1. TilingInv'
  BY TilingStep DEF MergeInv
<1>2. TwinsApart'
  <2>1. twins' = twins
    BY DEF Next, Step, Finished, PlaceEmptySymbol, PlaceSites, Finish, vars, input
  <2> QED BY <2>1 DEF MergeInv, TwinsApart
<1>3. placed \in Seq(Fragment) /\ TypeOK /\ Cursor /\ Counters
  BY DEF MergeInv, TilingInv, BatchInv, TypeOK
<1>4. ASSUME NEW flush, NEW n \in Nat, Place(flush, n), UNCHANGED <<input, done>>, symbol \in Symbols
      PROVE  PlacedWithin'
  <2> DEFINE f == [batch |-> number', symbol |-> symbol, from |-> next, to |-> next']
  <2>1. placed' = Append(placed, f) /\ next \in Nat /\ next <= next' /\ Symbols' = Symbols
    BY <1>3, <1>4 DEF Place, TypeOK, input, Symbols
  <2>2. f.symbol \in Symbols /\ f.from <= f.to
    BY <1>4, <2>1
  <2> HIDE DEF f
  <2>3. \A j \in DOMAIN placed' : placed'[j] = f \/ (j \in DOMAIN placed /\ placed'[j] = placed[j])
    BY <1>3, <2>1
  <2> QED BY <2>1, <2>2, <2>3 DEF MergeInv, PlacedWithin
<1>5. PlacedWithin'
  <2>1. CASE PlaceEmptySymbol
    BY <2>1, <1>4 DEF PlaceEmptySymbol
  <2>2. CASE PlaceSites
    <3>1. Take(BatchLimitReached) \in Nat
      BY <2>2, <1>3, TakeFacts DEF PlaceSites, Counters
    <3> QED BY <2>2, <3>1, <1>4 DEF PlaceSites
  <2>3. CASE Finish \/ UNCHANGED vars
    <3>1. placed' = placed /\ bounds' = bounds
      BY <2>3 DEF Finish, vars, input
    <3> QED BY <3>1 DEF MergeInv, PlacedWithin, Symbols
  <2> QED BY <2>1, <2>2, <2>3 DEF Next, Step, Finished
<1> QED BY <1>1, <1>2, <1>5 DEF MergeInv

LEMMA MergedAll ==
  ASSUME MergeInv, placed # <<>>
  PROVE  MergedUpTo(MergeUsageBatches, Len(placed))
<1>1. Len(placed) \in Nat /\ Len(placed) > 0
  BY DEF MergeInv, TilingInv, BatchInv, TypeOK
<1>2. PICK g : /\ g[0] = <<>>
               /\ \A k \in 1 .. Len(placed) :
                    g[k - 1] \in Seq(Entry) /\ g[k] = AddFragment(g[k - 1], placed[k])
               /\ MergeUsageBatches = g[Len(placed)]
  BY MergeRuns DEF MergeInv, TilingInv, BatchInv
<1> DEFINE T == {k \in Nat : k + 1 <= Len(placed) => MergedUpTo(g[k + 1], k + 1)}
<1>3. 0 \in T
  <2>1. 1 \in 1 .. Len(placed) /\ 1 - 1 = 0 /\ 0 + 1 = 1
    BY <1>1
  <2>2. g[1] = AddFragment(<<>>, placed[1])
    BY <1>2, <2>1
  <2>3. MergedUpTo(g[1], 1)
    BY <2>2, MergedFirst
  <2> QED BY <2>1, <2>3
<1>4. ASSUME NEW j \in Nat, j \in T PROVE j + 1 \in T
  <2> SUFFICES ASSUME (j + 1) + 1 <= Len(placed) PROVE MergedUpTo(g[(j + 1) + 1], (j + 1) + 1)
    OBVIOUS
  <2>1. PICK k : k = j + 1
    OBVIOUS
  <2>2. k \in 1 .. Len(placed) - 1 /\ k + 1 \in 1 .. Len(placed) /\ (k + 1) - 1 = k
    BY <1>1, <2>1
  <2>3. MergedUpTo(g[k], k)
    BY <1>1, <1>4, <2>1, <2>2
  <2>4. g[k + 1] = AddFragment(g[k], placed[k + 1])
    BY <1>2, <2>2
  <2>5. MergedUpTo(AddFragment(g[k], placed[k + 1]), k + 1)
    BY <2>2, <2>3, MergedAgain, MergedNext
  <2> QED BY <2>1, <2>4, <2>5
<1> HIDE DEF T
<1>5. Nat \subseteq T
  BY <1>3, <1>4, NextNumbers
<1>6. Len(placed) - 1 \in Nat /\ (Len(placed) - 1) + 1 = Len(placed)
  BY <1>1
<1>7. Len(placed) - 1 \in T
  BY <1>5, <1>6
<1> QED BY <1>2, <1>6, <1>7 DEF T

LEMMA MergeEmpty ==
  ASSUME MergeInv, placed = <<>>
  PROVE  MergeUsageBatches = <<>>
<1>1. Len(placed) = 0
  OBVIOUS
<1>2. PICK g : g[0] = <<>> /\ MergeUsageBatches = g[Len(placed)]
  BY MergeRuns DEF MergeInv, TilingInv, BatchInv
<1> QED BY <1>1, <1>2

(* Whatever the batches were, verification and validation work from the    *)
(* surface that was selected: its names, each once, with all their sites.  *)
THEOREM MergeRestores == Spec => []MergeRestoresSurface
<1>1. Init => MergeInv
  <2>1. Init => Consecutive /\ LastPlaced
    BY DEF Init, Consecutive, LastPlaced
  <2>2. Init => PlacedWithin /\ TwinsApart
    BY DEF Init, PlacedWithin, TwinsApart
  <2> QED BY <2>1, <2>2, InitBatch DEF MergeInv, TilingInv
<1>2. MergeInv => MergeRestoresSurface
  <2> SUFFICES ASSUME MergeInv, done PROVE MergeRestoresSurface
    BY DEF MergeRestoresSurface
  <2> DEFINE S == Len(bounds) - 1
  <2>1. /\ Len(bounds) \in Nat \ {0} /\ symbol = Len(bounds) /\ Symbols = 1 .. S /\ S \in Nat
        /\ twins \subseteq 1 .. S
    BY BoundsFacts DEF MergeInv, TilingInv, BatchInv, TypeOK, LastPlaced, Symbols
  <2>2. CASE placed = <<>>
    <3>1. MergeUsageBatches = <<>> /\ DOMAIN <<>> = {}
      BY <2>2, MergeEmpty
    <3>2. Symbols = {}
      BY <2>1, <2>2 DEF MergeInv, TilingInv, LastPlaced
    <3> QED BY <3>1, <3>2 DEF MergeRestoresSurface
  <2>3. CASE placed # <<>>
    <3> DEFINE f == placed[Len(placed)]
               n == NameOf(f.symbol)
               L == Len(MergeUsageBatches)
    <3>1. f.symbol = S /\ f.to = bounds[S + 1] /\ f.symbol \in Symbols
      <4>1. /\ f.symbol \in Symbols /\ f.to = next
            /\ \/ symbol = f.symbol
               \/ symbol = f.symbol + 1 /\ next = bounds[f.symbol + 1]
        BY <2>3 DEF MergeInv, TilingInv, LastPlaced
      <4>2. f.symbol \in 1 .. S
        BY <2>1, <4>1
      <4> HIDE DEF f
      <4> QED BY <2>1, <4>1, <4>2
    <3>2. MergedUpTo(MergeUsageBatches, Len(placed))
      BY <2>3, MergedAll
    <3>3. /\ MergeUsageBatches \in Seq(Entry) /\ L > 0 /\ InOrder(MergeUsageBatches)
          /\ {MergeUsageBatches[p].name : p \in DOMAIN MergeUsageBatches} = 1 .. f.symbol \ twins
          /\ MergeUsageBatches[L].name = n
          /\ MergeUsageBatches[L].sites = SiteList(bounds[n], f.to)
          /\ \A p \in 1 .. L - 1 : Complete(MergeUsageBatches[p])
      BY <3>2 DEF MergedUpTo
    <3>4. L \in Nat /\ DOMAIN MergeUsageBatches = 1 .. L
      BY <3>3, EntryFacts
    <3>5. /\ n \in Nat
          /\ S \notin twins => n = S
          /\ S \in twins => n = S - 1
      BY <3>1, NameFacts DEF MergeInv
    <3> HIDE DEF f, n, L
    <3>6. After(n) = S + 1
      <4>1. S \in Nat /\ S + 1 \notin twins
        BY <2>1
      <4> HIDE DEF S
      <4>2. CASE S \in twins
        <5>1. n = S - 1 /\ n + 1 = S /\ n + 2 = S + 1
          BY <3>5, <4>1, <4>2
        <5> QED BY <4>2, <5>1 DEF After
      <4>3. CASE S \notin twins
        <5>1. n = S
          BY <3>5, <4>3
        <5> QED BY <4>1, <4>3, <5>1 DEF After
      <4> QED BY <4>2, <4>3
    <3>7. Complete(MergeUsageBatches[L])
      BY <3>1, <3>3, <3>6 DEF Complete
    <3>8. \A p \in DOMAIN MergeUsageBatches : Complete(MergeUsageBatches[p])
      <4>1. \A p \in 1 .. L : p = L \/ p \in 1 .. L - 1
        BY <3>4
      <4> QED BY <3>3, <3>4, <3>7, <4>1
    <3>9. {MergeUsageBatches[p].name : p \in DOMAIN MergeUsageBatches} = Symbols \ twins
      BY <2>1, <3>1, <3>3
    <3> QED BY <3>3, <3>8, <3>9 DEF MergeRestoresSurface, InOrder, Complete
  <2> QED BY <2>2, <2>3
<1>3. QED
  BY <1>1, <1>2, MergeStep, PTL DEF Spec
=============================================================================
