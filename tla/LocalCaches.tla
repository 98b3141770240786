------------------------------ MODULE LocalCaches ------------------------------
(***************************************************************************)
(* SizeClassAllocatorLocalCache between the threads and the freelists of   *)
(* the primary, and the statistics that each keeps.  Pushing blocks to the *)
(* freelist of a class takes records, which are blocks of the batch class, *)
(* from the very cache that is drained, and popping them gives records     *)
(* back to it.  Blocks are counted: which ones they are is the matter of   *)
(* FreeList and BatchClassList.  A step is one operation under the lock of *)
(* a TSD.                                                                  *)
(***************************************************************************)
EXTENDS Integers, FiniteSetsExt, SequencesExt

CONSTANTS
  TSDs,
  MaxCached,             \* getMaxCached() of the batch class and of the class
  MaxNumBlocksInBatch,
  NumPopulate,           \* blocks that a populate of each adds
  Size,                  \* bytes of a block of each
  StatMod,               \* 2^SCUDO_WORDSIZE
  MaxUser,               \* bound: blocks that users hold
  MaxForeign             \* bound: by how many blocks a TSD frees more than it allocates

VARIABLES
  cache,        \* Count of the classes in each TSD
  stats,        \* StatAllocated and StatFree of each
  unused,       \* the TSDs of threads still to come
  linked,       \* the TSDs in StatsList
  global,       \* what GlobalStats itself counts
  list,         \* batches of the class by their numbers of blocks, in one group
  batchList,    \* the same of the batch class; group is the block of its group
  carved,       \* blocks that were ever pushed by populate
  user          \* blocks with users

cvars == <<cache, stats, unused, linked, global, list, batchList, carved, user>>

BatchClassId == 0
Class == 1
NoStats == [Allocated |-> 0, Free |-> 0]

Init ==
  /\ cache = [t \in TSDs |-> <<0, 0>>]
  /\ stats = [t \in TSDs |-> NoStats]
  /\ unused = TSDs /\ linked = {}
  /\ global = NoStats
  /\ list = <<>> /\ batchList = [group |-> 0, batches |-> <<>>]
  /\ carved = <<0, 0>>
  /\ user = 0

(***************************************************************************)
(* What an operation does, as a function of what it works on: the counts   *)
(* of its cache for the batch class and for the class, and the freelists.  *)
(***************************************************************************)
Work(t) ==
  [batch |-> cache[t][1], count |-> cache[t][2], list |-> list, batchList |-> batchList,
   carvedBatch |-> carved[1], carved |-> carved[2]]

\* pushBatchClassBlocks(): the first block becomes the group; the first batch
\* lists itself and the group.
PushBatchBlock(l) ==
  IF l.group = 0 THEN [group |-> 1, batches |-> <<>>]
  ELSE IF l.batches = <<>> THEN [l EXCEPT !.batches = <<2>>]
  ELSE IF Head(l.batches) = MaxCached[1] THEN [l EXCEPT !.batches = <<1>> \o @]
  ELSE [l EXCEPT !.batches = <<Head(@) + 1>> \o Tail(@)]

pushBatchBlocks(l, n) == FoldLeft(LAMBDA m, i : PushBatchBlock(m), l, [i \in 1 .. n |-> i])

\* popBlocks() of the batch class into the cache: the first batch or the group,
\* after a populate if there is none.
refillBatch(w) ==
  LET grown == w.batchList.group = 0
      l     == IF grown THEN pushBatchBlocks(w.batchList, NumPopulate[1]) ELSE w.batchList
      n     == IF l.batches = <<>> THEN 1 ELSE Head(l.batches)
      rest  == IF l.batches = <<>> THEN <<>> ELSE Tail(l.batches)
  IN  [w EXCEPT !.batch = n,
                !.batchList = [group |-> IF rest = <<>> THEN 0 ELSE 1, batches |-> rest],
                !.carvedBatch = @ + IF grown THEN NumPopulate[1] ELSE 0]

getBatchClassBlock(w) ==
  LET r == IF w.batch = 0 THEN refillBatch(w) ELSE w IN [r EXCEPT !.batch = @ - 1]

drainBatch(w) ==
  LET Count == Min({MaxCached[1], w.batch})
  IN  [w EXCEPT !.batch = @ - Count, !.batchList = pushBatchBlocks(@, Count)]

\* deallocate() of a record.
freeRecord(w) ==
  LET d == IF w.batch = 2 * MaxCached[1] THEN drainBatch(w) ELSE w IN [d EXCEPT !.batch = @ + 1]

\* pushBlocksImpl(): a group and its first batch, or one more batch.
PushBlock(w) ==
  IF w.list = <<>>
  THEN [getBatchClassBlock(getBatchClassBlock(w)) EXCEPT !.list = <<1>>]
  ELSE IF Head(w.list) = MaxNumBlocksInBatch
  THEN [getBatchClassBlock(w) EXCEPT !.list = <<1>> \o @]
  ELSE [w EXCEPT !.list = <<Head(@) + 1>> \o Tail(@)]

pushBlocks(w, n) == FoldLeft(LAMBDA x, i : PushBlock(x), w, [i \in 1 .. n |-> i])

\* popBlocksImpl() into the cache; an empty batch, and then the group, go back.
popBlocks(w, n) ==
  LET Popped == Min({n, Head(w.list)})
      left   == [w EXCEPT !.count = Popped,
                          !.list = IF Popped = Head(@) THEN Tail(@) ELSE <<Head(@) - Popped>> \o Tail(@)]
  IN  IF Popped < Head(w.list) THEN left
      ELSE IF left.list # <<>> THEN freeRecord(left)
      ELSE freeRecord(freeRecord(left))

refill(w) ==
  IF w.list # <<>> THEN popBlocks(w, MaxCached[2])
  ELSE popBlocks(pushBlocks([w EXCEPT !.carved = @ + NumPopulate[2]], NumPopulate[2]), MaxCached[2])

drainClass(w) ==
  LET Count == Min({MaxCached[2], w.count})
      p     == pushBlocks(w, Count)
  IN  [p EXCEPT !.count = @ - Count]

\* Mutant: the batch class is drained in its turn, before the others.
drainInOrder(w) == drainClass(drainClass(drainBatch(drainBatch(w))))

\* drain(): each class until it is empty, the batch class last.
drain(w) == drainBatch(drainBatch(drainClass(drainClass(w))))

\* The operation is over; what populate carved out counts as free.
Commit(t, w, allocated) ==
  LET grown == (w.carvedBatch - carved[1]) * Size[1] + (w.carved - carved[2]) * Size[2] IN
  /\ cache' = [cache EXCEPT ![t] = <<w.batch, w.count>>]
  /\ list' = w.list /\ batchList' = w.batchList /\ carved' = <<w.carvedBatch, w.carved>>
  /\ stats' = [stats EXCEPT ![t].Allocated = (@ + allocated * Size[2]) % StatMod,
                            ![t].Free = (@ + grown - allocated * Size[2]) % StatMod]
  /\ user' = user + allocated

(***************************************************************************)
(* Operations.                                                             *)
(***************************************************************************)
\* init() with link().
Start(t) ==
  /\ t \in unused
  /\ unused' = unused \ {t} /\ linked' = linked \cup {t}
  /\ UNCHANGED <<cache, stats, global, list, batchList, carved, user>>

allocate(t) ==
  /\ t \in linked /\ user < MaxUser
  /\ LET w == IF cache[t][2] = 0 THEN refill(Work(t)) ELSE Work(t)
     IN  Commit(t, [w EXCEPT !.count = @ - 1], 1)
  /\ UNCHANGED <<unused, linked, global>>

\* Whoever allocated the block.
deallocate(t) ==
  /\ t \in linked /\ user > 0
  /\ stats[t].Allocated \notin StatMod \div 2 .. StatMod - MaxForeign * Size[2]
  /\ LET w == IF cache[t][2] = 2 * MaxCached[2] THEN drainClass(Work(t)) ELSE Work(t)
     IN  Commit(t, [w EXCEPT !.count = @ + 1], -1)
  /\ UNCHANGED <<unused, linked, global>>

Drain(t) ==
  /\ t \in linked
  /\ Commit(t, drain(Work(t)), 0)
  /\ UNCHANGED <<unused, linked, global>>

\* destroy(): drain() and unlink(), at the end of a thread with a TSD of its own.
destroy(t) ==
  /\ t \in linked
  /\ LET w == drain(Work(t))
         grown == (w.carvedBatch - carved[1]) * Size[1]
     IN  /\ cache' = [cache EXCEPT ![t] = <<w.batch, w.count>>]
         /\ list' = w.list /\ batchList' = w.batchList /\ carved' = <<w.carvedBatch, w.carved>>
         /\ global' = [Allocated |-> (global.Allocated + stats[t].Allocated) % StatMod,
                       Free |-> (global.Free + stats[t].Free + grown) % StatMod]
  /\ stats' = [stats EXCEPT ![t] = NoStats]
  /\ linked' = linked \ {t}
  /\ UNCHANGED <<unused, user>>

Next ==
  \E t \in TSDs : Start(t) \/ allocate(t) \/ deallocate(t) \/ Drain(t) \/ destroy(t)

Spec == Init /\ [][Next]_cvars
-----------------------------------------------------------------------------
Sum(seq) == FoldLeft(+, 0, seq)
Cached(c) == MapThenSumSet(LAMBDA t : cache[t][c], TSDs)

\* Every block is with a user, in a cache or in a freelist, or is a record of
\* one, however the operations on the two classes nest; and no class of a cache
\* has more blocks than its array of 2 * MaxNumCachedHint.
BlocksAccounted ==
  /\ carved[2] = user + Cached(2) + Sum(list)
  /\ carved[1] = Cached(1) + (IF list = <<>> THEN 0 ELSE Len(list) + 1)
                   + (IF batchList.batches = <<>> THEN batchList.group ELSE Sum(batchList.batches))
  /\ \A t \in TSDs : \A c \in 1 .. 2 : cache[t][c] \in 0 .. 2 * MaxCached[c]

\* get() of GlobalStats, a clamp to 0 included.
Get(s) ==
  LET total == (global[s] + MapThenSumSet(LAMBDA t : stats[t][s], linked)) % StatMod
  IN  IF total < StatMod \div 2 THEN total ELSE 0

\* A TSD that was destroyed leaves no block behind, records that were taken while
\* it was drained included, and its statistics live on: at any moment the sums
\* are exact, although a block is freed in another TSD than it was allocated in
\* and the counters of one TSD wrap below zero.
CommittedWhole ==
  /\ \A t \in TSDs \ linked : cache[t] = <<0, 0>>
  /\ Get("Allocated") = user * Size[2]
  /\ Get("Free") = carved[1] * Size[1] + carved[2] * Size[2] - user * Size[2]
=============================================================================
