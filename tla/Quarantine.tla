----------------------------- MODULE Quarantine -----------------------------
(***************************************************************************)
(* scudo::GlobalQuarantine and its per-TSD caches.  A worker is the thread *)
(* that holds the lock of one TSD, so it is the only one that touches that *)
(* TSD's local cache; the forker is the thread that calls disable() and    *)
(* enable().  What is done under CacheMutex in one ScopedLock block is one *)
(* step; RecycleMutex is held across steps.  Both are abstract locks.      *)
(***************************************************************************)
EXTENDS Integers, FiniteSetsExt, SequencesExt

CONSTANTS
  Caches,         \* the local caches, one per TSD
  Chunks,         \* the user's chunks
  ChunkSize,      \* the size each is freed with
  BatchSize,      \* sizeof(QuarantineBatch)
  MaxCount,       \* chunks in a batch
  MaxSize,        \* limit of the global cache
  MaxCacheSize,   \* limit of a local cache
  Forker,         \* the thread that forks
  NoOwner

ASSUME QuarantineAssumption ==
  /\ IsFiniteSet(Caches)
  /\ ChunkSize \in [Chunks -> Nat \ {0}]
  /\ {BatchSize, MaxCount, MaxCacheSize} \subseteq Nat \ {0}
  /\ MaxSize \in Nat
  /\ Forker \notin Caches /\ NoOwner \notin Caches \cup {Forker}

VARIABLES
  state,         \* Chunk::State of every chunk
  cache,         \* the global cache
  local,         \* the local caches
  tmp,           \* Tmp of recycle(), per worker
  current,       \* chunks of the batch that doRecycle() is at, not recycled yet
  batches,       \* batches allocated and not deallocated
  target,        \* MinSize argument of recycle()
  pc,            \* where each worker and the forker are
  cacheMutex, recycleMutex

vars == <<state, cache, local, tmp, current, batches, target, pc,
          cacheMutex, recycleMutex>>

\* Mutant: the division is lost.
MinSizeScaledUp == MaxSize * 9

MinSize == (MaxSize \div 10) * 9

\* A QuarantineCache: its list of batches and its size.
Empty == [list |-> <<>>, size |-> 0]

BatchSizes(list) == [i \in DOMAIN list |-> list[i].size]

enqueueBatch(C, B) == [list |-> Append(C.list, B), size |-> C.size + B.size]

\* Mutant: the batch itself is left out of the size.
initForgetsBatch(c) == [chunks |-> <<c>>, size |-> ChunkSize[c]]

\* QuarantineBatch::init
init(c) == [chunks |-> <<c>>, size |-> ChunkSize[c] + BatchSize]

NeedsBatch(C) == C.list = <<>> \/ Len(Last(C.list).chunks) = MaxCount

enqueue(C, c) ==
  IF NeedsBatch(C)
  THEN enqueueBatch(C, init(c))
  ELSE LET B == Last(C.list) IN
       [list |-> Append(Front(C.list),
                   [chunks |-> Append(B.chunks, c), size |-> B.size + ChunkSize[c]]),
        size |-> C.size + ChunkSize[c]]

\* Mutant: the newest batches go to the front.
transferToFront(C, From) == [list |-> From.list \o C.list, size |-> C.size + From.size]

transfer(C, From) == [list |-> C.list \o From.list, size |-> C.size + From.size]

\* QuarantineBatch::merge.  What is left of From is an empty batch.
merge(B, From) == [chunks |-> B.chunks \o From.chunks,
                   size   |-> B.size + From.size - BatchSize]

EmptyBatch == [chunks |-> <<>>, size |-> BatchSize]

canMerge(B, From) == Len(B.chunks) + Len(From.chunks) =< MaxCount

\* mergeBatches(): every batch goes into the one kept before it if it fits.
MergeNext(r, B) ==
  IF r.kept # <<>> /\ canMerge(Last(r.kept), B)
  THEN [kept |-> Append(Front(r.kept), merge(Last(r.kept), B)),
        extracted |-> Append(r.extracted, EmptyBatch)]
  ELSE [kept |-> Append(r.kept, B), extracted |-> r.extracted]

mergeBatches(C) ==
  LET merged[n \in 0 .. Len(C.list)] ==
        IF n = 0 THEN [kept |-> <<>>, extracted |-> <<>>]
                 ELSE MergeNext(merged[n - 1], C.list[n])
  IN  merged[Len(C.list)]

\* Merge only when more than half of the cache is overhead.
WorthMerging(C) ==
  LET overhead == Len(C.list) * BatchSize
  IN  C.size > overhead /\ overhead * 200 > C.size * 100

\* The loop of recycle(): batches go from the front of the list to Tmp, which
\* holds first already, until the size is down to minSize.
Dequeue(list, size, minSize, first) ==
  LET Left(n) == size - SumFunction(SubSeq(BatchSizes(list), 1, n))
      n       == Min({i \in 0 .. Len(list) : Left(i) =< minSize})
      taken   == first \o SubSeq(list, 1, n)
  IN  [cache |-> [list |-> SubSeq(list, n + 1, Len(list)), size |-> Left(n)],
       tmp   |-> [list |-> taken, size |-> SumFunction(BatchSizes(taken))]]

\* Mutant: the emptied batches do not go to Tmp.
ExtractLeaks(C, minSize) ==
  LET m == mergeBatches(C)
  IN  IF WorthMerging(C)
      THEN Dequeue(m.kept, C.size - Len(m.extracted) * BatchSize, minSize, <<>>)
      ELSE Dequeue(C.list, C.size, minSize, <<>>)

\* The CacheMutex section of recycle(): the cache and Tmp afterwards.
Extract(C, minSize) ==
  LET m == mergeBatches(C)
  IN  IF WorthMerging(C)
      THEN Dequeue(m.kept, C.size - Len(m.extracted) * BatchSize, minSize, m.extracted)
      ELSE Dequeue(C.list, C.size, minSize, <<>>)

Goto(a, loc) == pc' = [pc EXCEPT ![a] = loc]

Init ==
  /\ state = [c \in Chunks |-> "Available"]
  /\ cache = Empty
  /\ local = [k \in Caches |-> Empty]
  /\ tmp = [k \in Caches |-> Empty]
  /\ current = [k \in Caches |-> {}]
  /\ batches = 0
  /\ target = [k \in Caches |-> 0]
  /\ pc = [a \in Caches \cup {Forker} |-> "idle"]
  /\ cacheMutex = NoOwner /\ recycleMutex = NoOwner

\* The chunk is handed out again.
Allocate(c) ==
  /\ state[c] = "Available"
  /\ state' = [state EXCEPT ![c] = "Allocated"]
  /\ UNCHANGED <<cache, local, tmp, current, batches, target, pc,
                 cacheMutex, recycleMutex>>

\* quarantineOrDeallocateChunk() and put() up to the call of drain().
Put(k, c) ==
  /\ pc[k] = "idle"
  /\ state[c] = "Allocated"
  /\ state' = [state EXCEPT ![c] = "Quarantined"]
  /\ local' = [local EXCEPT ![k] = enqueue(@, c)]
  /\ batches' = batches + IF NeedsBatch(local[k]) THEN 1 ELSE 0
  /\ Goto(k, IF local'[k].size > MaxCacheSize THEN "drain" ELSE "idle")
  /\ UNCHANGED <<cache, tmp, current, target, cacheMutex, recycleMutex>>

\* The CacheMutex section of drain().
Drain(k) ==
  /\ pc[k] = "drain"
  /\ cacheMutex = NoOwner
  /\ cache' = transfer(cache, local[k])
  /\ local' = [local EXCEPT ![k] = Empty]
  /\ Goto(k, IF cache'.size > MaxSize THEN "tryLock" ELSE "idle")
  /\ UNCHANGED <<state, tmp, current, batches, target, cacheMutex, recycleMutex>>

\* RecycleMutex.tryLock(): whoever loses leaves the work to the winner.
TryLock(k) ==
  /\ pc[k] = "tryLock"
  /\ IF recycleMutex = NoOwner
     THEN /\ recycleMutex' = k
          /\ target' = [target EXCEPT ![k] = MinSize]
          /\ Goto(k, "extract")
     ELSE Goto(k, "idle") /\ UNCHANGED <<recycleMutex, target>>
  /\ UNCHANGED <<state, cache, local, tmp, current, batches, cacheMutex>>

\* The CacheMutex section of drainAndRecycle().
DrainAndRecycle(k) ==
  /\ pc[k] = "idle"
  /\ cacheMutex = NoOwner
  /\ cache' = transfer(cache, local[k])
  /\ local' = [local EXCEPT ![k] = Empty]
  /\ Goto(k, "lock")
  /\ UNCHANGED <<state, tmp, current, batches, target, cacheMutex, recycleMutex>>

LockRecycle(k) ==
  /\ pc[k] = "lock"
  /\ recycleMutex = NoOwner
  /\ recycleMutex' = k
  /\ target' = [target EXCEPT ![k] = 0]
  /\ Goto(k, "extract")
  /\ UNCHANGED <<state, cache, local, tmp, current, batches, cacheMutex>>

\* The CacheMutex section of recycle().
RecycleExtract(k) ==
  /\ pc[k] = "extract"
  /\ cacheMutex = NoOwner
  /\ LET e == Extract(cache, target[k])
     IN  cache' = e.cache /\ tmp' = [tmp EXCEPT ![k] = e.tmp]
  /\ Goto(k, "unlock")
  /\ UNCHANGED <<state, local, current, batches, target, cacheMutex, recycleMutex>>

UnlockRecycle(k) ==
  /\ pc[k] = "unlock"
  /\ recycleMutex' = NoOwner
  /\ Goto(k, "recycle")
  /\ UNCHANGED <<state, cache, local, tmp, current, batches, target, cacheMutex>>

\* doRecycle() takes the next batch of Tmp, if there is one.
NextBatch(k) ==
  /\ pc[k] = "recycle"
  /\ \/ /\ tmp[k].list = <<>>
        /\ Goto(k, "idle")
        /\ UNCHANGED <<tmp, current>>
     \/ /\ tmp[k].list # <<>>
        /\ LET B == Head(tmp[k].list) IN
           /\ tmp' = [tmp EXCEPT ![k] = [list |-> Tail(@.list), size |-> @.size - B.size]]
           /\ current' = [current EXCEPT ![k] = ToSet(B.chunks)]
        /\ Goto(k, "batch")
  /\ UNCHANGED <<state, cache, local, batches, target, cacheMutex, recycleMutex>>

\* Callback::recycle of one chunk of the shuffled batch.  A chunk that is not
\* Quarantined is reported, which ends the program.
Recycle(k) ==
  /\ pc[k] = "batch"
  /\ \E c \in current[k] :
       /\ state' = [state EXCEPT ![c] = IF @ = "Quarantined" THEN "Available" ELSE "Invalid"]
       /\ current' = [current EXCEPT ![k] = @ \ {c}]
  /\ UNCHANGED <<cache, local, tmp, batches, target, pc, cacheMutex, recycleMutex>>

\* Callback::deallocate of the batch, when all its chunks are recycled.
DeallocateBatch(k) ==
  /\ pc[k] = "batch"
  /\ current[k] = {}
  /\ batches' = batches - 1
  /\ Goto(k, "recycle")
  /\ UNCHANGED <<state, cache, local, tmp, current, target, cacheMutex, recycleMutex>>

\* Mutant: disable() takes CacheMutex first.
DisableCacheFirst ==
  \/ /\ pc[Forker] = "idle"
     /\ cacheMutex = NoOwner
     /\ cacheMutex' = Forker
     /\ Goto(Forker, "disabling")
     /\ UNCHANGED <<state, cache, local, tmp, current, batches, target, recycleMutex>>
  \/ /\ pc[Forker] = "disabling"
     /\ recycleMutex = NoOwner
     /\ recycleMutex' = Forker
     /\ Goto(Forker, "disabled")
     /\ UNCHANGED <<state, cache, local, tmp, current, batches, target, cacheMutex>>

\* The two locks of disable(), RecycleMutex first.
Disable ==
  \/ /\ pc[Forker] = "idle"
     /\ recycleMutex = NoOwner
     /\ recycleMutex' = Forker
     /\ Goto(Forker, "disabling")
     /\ UNCHANGED <<state, cache, local, tmp, current, batches, target, cacheMutex>>
  \/ /\ pc[Forker] = "disabling"
     /\ cacheMutex = NoOwner
     /\ cacheMutex' = Forker
     /\ Goto(Forker, "disabled")
     /\ UNCHANGED <<state, cache, local, tmp, current, batches, target, recycleMutex>>

\* The two unlocks of enable(), CacheMutex first.
Enable ==
  \/ /\ pc[Forker] = "disabled"
     /\ cacheMutex' = NoOwner
     /\ Goto(Forker, "enabling")
     /\ UNCHANGED <<state, cache, local, tmp, current, batches, target, recycleMutex>>
  \/ /\ pc[Forker] = "enabling"
     /\ recycleMutex' = NoOwner
     /\ Goto(Forker, "idle")
     /\ UNCHANGED <<state, cache, local, tmp, current, batches, target, cacheMutex>>

\* The steps of a worker inside put(), drain() or drainAndRecycle().
Work(k) == Drain(k) \/ TryLock(k) \/ LockRecycle(k) \/ RecycleExtract(k)
             \/ UnlockRecycle(k) \/ NextBatch(k) \/ Recycle(k) \/ DeallocateBatch(k)

Next ==
  \/ \E c \in Chunks : Allocate(c)
  \/ \E k \in Caches : Work(k) \/ DrainAndRecycle(k) \/ \E c \in Chunks : Put(k, c)
  \/ Disable
  \/ Enable

Spec == Init /\ [][Next]_vars

\* Work(k) is enabled exactly when k is inside a call and not at a lock that
\* is taken, and every step of it moves k on.
Runnable(k) ==
  /\ pc[k] # "idle"
  /\ pc[k] \in {"drain", "extract"} => cacheMutex = NoOwner
  /\ pc[k] = "lock" => recycleMutex = NoOwner

Moves(k) == <<pc[k], current[k]>>' # <<pc[k], current[k]>>

\* Weak fairness of Work(k), with ENABLED written out: a worker inside the
\* quarantine is eventually run.  A disabled allocator is enabled again (the
\* fork handlers come in pairs).  Nobody has to free anything.
FairSpec ==
  /\ Spec
  /\ WF_vars(Enable) /\ WF_vars(pc[Forker] = "disabling" /\ Disable)
  /\ \A k \in Caches : []<>~Runnable(k) \/ []<><<Moves(k)>>_vars
-----------------------------------------------------------------------------
Workers == {"idle", "drain", "tryLock", "lock", "extract", "unlock", "recycle", "batch"}

\* No chunk is in a state that Callback::recycle reports, no batch overflows
\* and no size underflows.
TypeOK ==
  /\ state \in [Chunks -> {"Available", "Allocated", "Quarantined"}]
  /\ \A C \in {cache} \cup Range(local) \cup Range(tmp) :
       C.size \in Nat /\ \A i \in DOMAIN C.list : Len(C.list[i].chunks) \in 0 .. MaxCount
  /\ current \in [Caches -> SUBSET Chunks]
  /\ target \in [Caches -> {0, MinSize}]
  /\ pc[Forker] \in {"idle", "disabling", "disabled", "enabling"}
  /\ \A k \in Caches : pc[k] \in Workers
  /\ {cacheMutex, recycleMutex} \subseteq Caches \cup {Forker, NoOwner}

\* The chunks of a list of batches, the oldest first.
ChunksOf(list) == FlattenSeq([i \in DOMAIN list |-> list[i].chunks])

\* How often a chunk is in a sequence of chunks.
Times(c, chunks) == SumFunction([i \in DOMAIN chunks |-> IF chunks[i] = c THEN 1 ELSE 0])

\* How often a chunk is in what worker k holds, and how many batches are there.
TimesHeld(c, k) == Times(c, ChunksOf(local[k].list)) + Times(c, ChunksOf(tmp[k].list))
                     + IF c \in current[k] THEN 1 ELSE 0

BatchesHeld(k) == Len(local[k].list) + Len(tmp[k].list)
                    + IF pc[k] = "batch" THEN 1 ELSE 0

\* ... and in the whole quarantine.
TimesQuarantined(c) ==
  Times(c, ChunksOf(cache.list)) + SumFunction([k \in Caches |-> TimesHeld(c, k)])

BatchesQuarantined ==
  Len(cache.list) + SumFunction([k \in Caches |-> BatchesHeld(k)])

\* A chunk that was freed once is in exactly one place of the quarantine until
\* it is recycled, and no other chunk is in it: mergeBatches(), transfer() and
\* the extraction lose nothing and duplicate nothing, so Callback::recycle
\* never reports a chunk of a correct program.  Nor is a batch lost that
\* mergeBatches() empties: each is in one list, or the one doRecycle() is at.
QuarantinedOnce ==
  /\ TypeOK
  /\ \A c \in Chunks : TimesQuarantined(c) = IF state[c] = "Quarantined" THEN 1 ELSE 0
  /\ batches = BatchesQuarantined

\* The size that the limits are compared with is the size of what is there:
\* in particular the loop of recycle() never dequeues from an empty list.
SizesAddUp ==
  \A C \in {cache} \cup Range(local) \cup Range(tmp) :
    /\ C.size = SumFunction(BatchSizes(C.list))
    /\ \A i \in DOMAIN C.list :
         C.list[i].size = BatchSize + SumFunction([j \in DOMAIN C.list[i].chunks |->
                                             ChunkSize[C.list[i].chunks[j]]])

Contents == ChunksOf(cache.list)

\* The global quarantine is first in, first out: merging keeps the order, new
\* chunks go to the end and the oldest are recycled first.
Fifo == [][ \/ IsPrefix(Contents, Contents')
            \/ IsSuffix(Contents', Contents) ]_cache

\* A thread that owns RecycleMutex gets through recycle() and doRecycle(), even
\* with another one in disable(): the lock order of disable() is the right one.
RecycleCompletes == \A k \in Caches : pc[k] = "extract" ~> pc[k] = "idle"

\* A drain() that loses the tryLock() may leave the global cache above its
\* limit.  One that starts when nobody owns RecycleMutex does not, whoever
\* recycles in the end, unless a disable() gets in between.
DrainShrinks ==
  (/\ cache.size > MaxSize
   /\ recycleMutex = NoOwner
   /\ \E k \in Caches : pc[k] = "drain")
    ~> (cache.size =< MaxSize \/ recycleMutex = Forker)
=============================================================================
