---------------------------- MODULE UsageBatches ----------------------------
(***************************************************************************)
(* Splitting a usage surface into batches (PartitionSurface) and putting   *)
(* the batches together again for verification and validation              *)
(* (mergeUsageBatches).  The loop of partitionSortedSymbols is one action  *)
(* per iteration.                                                          *)
(*                                                                         *)
(* Symbols are numbered in the order in which sortedSurfaceSymbols leaves  *)
(* them, and their sites are numbered consecutively from 0: symbol i owns  *)
(* the sites bounds[i] .. bounds[i + 1] - 1.  A name stands for at most    *)
(* two symbols, an import and an activation, which are then neighbours.    *)
(***************************************************************************)
EXTENDS Naturals, Sequences

CONSTANTS Surfaces,       \* the surfaces to split, each as its `bounds`
          SymbolLimits,   \* values of --batch-size;  0: no limit
          SiteLimits      \* values of --batch-sites; 0: no limit

ASSUME UsageBatchesAssumption ==
  /\ SymbolLimits \subseteq Nat /\ SiteLimits \subseteq Nat
  /\ Surfaces \subseteq Seq(Nat)
  /\ \A b \in Surfaces :
       /\ Len(b) > 0 /\ b[1] = 0
       /\ \A i \in 1 .. Len(b) - 1 : b[i] <= b[i + 1]

VARIABLES
  bounds, twins,          \* the surface; the symbols named like their predecessor
  maxSymbols, maxSites,   \* the limits
  symbol, next,           \* the symbol being placed and its first site not placed
  entries, sites,         \* symbol entries and sites in the current batch
  number,                 \* number of the current batch
  placed,                 \* every fragment placed so far, in order
  done

input == <<bounds, twins, maxSymbols, maxSites>>
vars == <<input, symbol, next, entries, sites, number, placed, done>>

Symbols == 1 .. Len(bounds) - 1

(* Part of a symbol: the sites from .. to - 1, in one batch.               *)
Fragment == [batch: Nat, symbol: Nat, from: Nat, to: Nat]

TypeOK ==
  /\ bounds \in Surfaces /\ twins \subseteq Symbols
  /\ maxSymbols \in SymbolLimits /\ maxSites \in SiteLimits
  /\ symbol \in 1 .. Len(bounds) /\ next \in Nat
  /\ entries \in Nat /\ sites \in Nat /\ number \in Nat
  /\ placed \in Seq(Fragment)
  /\ done \in BOOLEAN

Init ==
  /\ bounds \in Surfaces
  /\ twins \in {T \in SUBSET Symbols : \A i \in T : i > 1 /\ i - 1 \notin T}
  /\ maxSymbols \in SymbolLimits /\ maxSites \in SiteLimits
  /\ symbol = 1 /\ next = 0
  /\ entries = 0 /\ sites = 0 /\ number = 1 /\ placed = <<>>
  /\ done = FALSE

Remaining == bounds[symbol + 1] - next

SymbolsFull == maxSymbols > 0 /\ entries >= maxSymbols

BatchLimitReachedLate ==                        \* mutant: one entry too late
  (maxSymbols > 0 /\ entries > maxSymbols) \/ (maxSites > 0 /\ sites >= maxSites)

BatchLimitKeepingSymbols ==                     \* mutant: closed before a large symbol
  SymbolsFull \/ (maxSites > 0 /\ entries > 0 /\ sites + Remaining > maxSites)

BatchLimitReached == SymbolsFull \/ (maxSites > 0 /\ sites >= maxSites)

(* Place the next n sites of the symbol: in the current batch, or in a new *)
(* one when the current batch is flushed first.                            *)
Place(flush, n) ==
  /\ number' = IF flush THEN number + 1 ELSE number
  /\ entries' = IF flush THEN 1 ELSE entries + 1
  /\ sites' = IF flush THEN n ELSE sites + n
  /\ next' = next + n
  /\ placed' = Append(placed, [batch |-> number', symbol |-> symbol, from |-> next, to |-> next'])

TakeSingly(flush) == 1                          \* mutant: one site at a time

TakeWithoutReset(flush) ==                      \* mutant: a flush keeps the site count
  IF maxSites > 0 /\ maxSites - sites < Remaining THEN maxSites - sites ELSE Remaining

(* How many of the symbol's sites go into the batch.                       *)
Take(flush) ==
  LET room == IF flush THEN maxSites ELSE maxSites - sites
  IN IF maxSites > 0 /\ room < Remaining THEN room ELSE Remaining

PlaceEmptySymbolSkipping ==                     \* mutant: the symbol after it is skipped
  /\ symbol \in Symbols /\ bounds[symbol] = bounds[symbol + 1]
  /\ Place(SymbolsFull, 0)
  /\ symbol' = symbol + 2
  /\ UNCHANGED <<input, done>>

PlaceEmptySymbol ==
  /\ symbol \in Symbols /\ bounds[symbol] = bounds[symbol + 1]
  /\ Place(SymbolsFull, 0)
  /\ symbol' = symbol + 1
  /\ UNCHANGED <<input, done>>

PlaceSitesOnce ==                               \* mutant: the rest of a split is dropped
  /\ symbol \in Symbols /\ next < bounds[symbol + 1]
  /\ Place(BatchLimitReached, Take(BatchLimitReached))
  /\ symbol' = symbol + 1
  /\ UNCHANGED <<input, done>>

PlaceSites ==
  /\ symbol \in Symbols /\ next < bounds[symbol + 1]
  /\ Place(BatchLimitReached, Take(BatchLimitReached))
  /\ symbol' = IF next' = bounds[symbol + 1] THEN symbol + 1 ELSE symbol
  /\ UNCHANGED <<input, done>>

Finish ==
  /\ symbol = Len(bounds) /\ ~done
  /\ done' = TRUE
  /\ UNCHANGED <<input, symbol, next, entries, sites, number, placed>>

Step == PlaceEmptySymbol \/ PlaceSites \/ Finish

Finished == done /\ UNCHANGED vars

Next == Step \/ Finished

Spec == Init /\ [][Next]_vars
-----------------------------------------------------------------------------
SameBatch(j, k) == placed[j].batch = placed[k].batch

(* Each batch stays within both limits.  The fragments of a batch follow   *)
(* each other and so do their sites, so that the distance of two of them   *)
(* bounds the number of entries and sites between them.                    *)
CapsHold ==
  \A j, k \in DOMAIN placed : j <= k /\ SameBatch(j, k) =>
    /\ maxSymbols > 0 => k - j < maxSymbols
    /\ maxSites > 0 => placed[k].to - placed[j].from <= maxSites

(* The fragments follow the sorted surface with no gap and no overlap.     *)
Consecutive ==
  /\ placed # <<>> => placed[1].symbol = 1 /\ placed[1].from = 0
  /\ \A j \in 1 .. Len(placed) - 1 :
       LET f == placed[j]
           g == placed[j + 1]
       IN /\ g.from = f.to
          /\ \/ g.symbol = f.symbol /\ f.to < bounds[f.symbol + 1]
             \/ g.symbol = f.symbol + 1 /\ f.to = bounds[f.symbol + 1]
          /\ g.batch \in {f.batch, f.batch + 1}

(* No call site is lost or handed to two batches, whatever the limits.     *)
NothingLost ==
  /\ Consecutive
  /\ done /\ placed # <<>> =>
       LET last == placed[Len(placed)]
       IN last.symbol = Len(bounds) - 1 /\ last.to = bounds[Len(bounds)]
  /\ done /\ placed = <<>> => Symbols = {}

(* A batch is only closed once it is full: no model run is wasted on less. *)
ClosedWhenFull ==
  \A j \in 1 .. Len(placed) - 1 : ~SameBatch(j, j + 1) =>
    \E i \in 1 .. j :
      /\ SameBatch(i, j)
      /\ \/ j - i + 1 = maxSymbols
         \/ maxSites > 0 /\ placed[j].to - placed[i].from = maxSites

(* A batch lists a symbol once, so the entries counted are symbols.        *)
EntriesDistinct ==
  \A j, k \in DOMAIN placed : j < k /\ SameBatch(j, k) => placed[j].symbol # placed[k].symbol

(* Every iteration places a site or goes on to the next symbol: however    *)
(* the limits meet, the loop cannot run in place.                          *)
Progress == [][done' \/ next' > next \/ symbol' > symbol]_vars
=============================================================================
