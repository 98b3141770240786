----------------------------- MODULE BlockLists -----------------------------
(***************************************************************************)
(* The two kinds of freelists of the primary side by side: the freelist of *)
(* a region of blocks for users, and that of the batch class.              *)
(***************************************************************************)
EXTENDS Integers

CONSTANTS
  None,
  MaxNumBlocksInBatch,                                   \* blocks in a TransferBatch
  NumBlocks, ListBlockSize, ListGroupSize, NumPopulate, MaxArray, MinReleaseAttempt,
  SmallBlock, ReleaseDelta, DensityPercent,              \* the freelist
  NumBatchBlocks, MaxCachedPerBatch, MaxBatchArray       \* the batch class

\* A batch holds a block, and populate adds some.
ASSUME FreeListAssumption ==
  /\ MaxNumBlocksInBatch \in Nat \ {0} /\ NumPopulate \in Nat \ {0}
  /\ NumBlocks \in Nat /\ ListBlockSize \in Nat /\ ListGroupSize \in Nat \ {0}

\* A batch of the batch class holds the two blocks of its records at least, and
\* blocks, which are numbered from 0, can be told from None.
ASSUME BatchClassAssumption ==
  /\ MaxCachedPerBatch \in Nat \ {0, 1}
  /\ NumBatchBlocks \in Nat /\ None \notin 0 .. NumBatchBlocks - 1

VARIABLES
  list, releasing, held, allocated, inUse, records, mm,
  BG, batches, batchesHeld, batchesAllocated, batchesInUse, populating

fvars == <<list, releasing, held, allocated, inUse, records, mm>>
bvars == <<BG, batches, batchesHeld, batchesAllocated, batchesInUse, populating>>

F == INSTANCE FreeList WITH BlockSize <- ListBlockSize, GroupSize <- ListGroupSize

B == INSTANCE BatchClassList WITH
  NumBlocks <- NumBatchBlocks, MaxArray <- MaxBatchArray,
  held <- batchesHeld, allocated <- batchesAllocated, inUse <- batchesInUse
=============================================================================
