--------------------------- MODULE BatchClassList ---------------------------
(***************************************************************************)
(* The freelist of the batch class.  The records of every freelist, that   *)
(* is batch groups and batches, are blocks of this class; its own freelist *)
(* takes no further block but is kept in the free blocks themselves: a     *)
(* batch lists the block that it lives in, and the last batch lists the    *)
(* block of the only batch group.  A step is one hold of FLLock.           *)
(***************************************************************************)
EXTENDS BatchClassBlocks

CONSTANTS
  NumBlocks,           \* blocks that fit in the region
  NumPopulate,         \* blocks that populate adds
  MaxArray             \* most blocks that are pushed at once

VARIABLES
  BG,          \* the block of the batch group, or None
  batches,     \* its batches, from front to back
  held,        \* blocks in local caches and records of other freelists
  allocated,   \* AllocatedUser, in blocks
  inUse,       \* PoppedBlocks - PushedBlocks
  populating   \* a thread owns MMLock and has found the freelist empty

vars == <<BG, batches, held, allocated, inUse, populating>>

Init ==
  /\ BG = None /\ batches = <<>>
  /\ held = {} /\ allocated = 0 /\ inUse = 0
  /\ populating = FALSE

Pop ==
  /\ BG # None
  /\ LET p == popBlocksImpl(BG, batches) IN
     /\ BG' = p.bg /\ batches' = p.list
     /\ held' = held \cup p.popped
     /\ inUse' = inUse + Cardinality(p.popped)
  /\ UNCHANGED <<allocated, populating>>

\* pushBlocks() of a local cache, or mergeGroupsToReleaseBack() of records that
\* are left over.
Push(array) ==
  /\ array # <<>>
  /\ LET p == pushBatchClassBlocks(BG, batches, array)
     IN  BG' = p.bg /\ batches' = p.list
  /\ held' = held \ ToSet(array)
  /\ inUse' = inUse - Len(array)
  /\ UNCHANGED <<allocated, populating>>

StartPopulate ==
  /\ ~populating /\ BG = None /\ allocated < NumBlocks
  /\ populating' = TRUE
  /\ UNCHANGED <<BG, batches, held, allocated, inUse>>

\* populateFreeListAndPopBlocks(), when others may have pushed meanwhile.
Populate ==
  /\ populating
  /\ LET N     == Min({NumPopulate, NumBlocks - allocated})
         array == [i \in 1 .. N |-> allocated + i - 1]
         q     == pushBatchClassBlocks(BG, batches, array)
         p     == popBlocksImpl(q.bg, q.list)
     IN  /\ BG' = p.bg /\ batches' = p.list
         /\ held' = held \cup p.popped
         /\ inUse' = inUse + Cardinality(p.popped)
         /\ allocated' = allocated + N
  /\ populating' = FALSE

Next ==
  \/ Pop
  \/ StartPopulate
  \/ Populate
  \/ \E S \in SUBSET held :
       Cardinality(S) =< MaxArray /\ \E array \in SetToSeqs(S) : Push(array)

Spec == Init /\ [][Next]_vars
-----------------------------------------------------------------------------
\* How often block b is listed as free: by a batch, or as the group while that
\* has no batches.
Listed(b) ==
  (IF batches = <<>> /\ BG = b THEN 1 ELSE 0)
    + Cardinality({x \in (DOMAIN batches) \X (1 .. MaxCachedPerBatch) :
                     x[2] =< Len(batches[x[1]].blocks) /\ batches[x[1]].blocks[x[2]] = b})

\* The blocks in which the freelist keeps its records.
Structure == {batches[i].self : i \in DOMAIN batches} \cup ({BG} \ {None})

\* "Batch won't leak the address itself while it's still holding other valid
\* data": a block that somebody holds carries no record of this freelist, so
\* that writing to it cannot break the list.
StructureNotHeld == Structure \cap held = {}

\* Each block is held by somebody or listed as free exactly once, whichever
\* blocks the records live in, and the counters give the number of blocks that
\* are held; verifyAllBlocksAreReleasedTestOnly() takes these sums.
ListedOnce ==
  /\ \A b \in 0 .. allocated - 1 : Listed(b) = IF b \in held THEN 0 ELSE 1
  /\ inUse = Cardinality(held)

\* The batch class is a pool of blocks as well.
Pool == INSTANCE BlockPool WITH free <- {b \in 0 .. NumBlocks - 1 : Listed(b) > 0}

ImplementsPool == Pool!Spec
=============================================================================
