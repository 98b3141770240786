------------------------------ MODULE FreeList ------------------------------
(***************************************************************************)
(* The freelist of one region of SizeClassAllocator64: batch groups sorted *)
(* by their base, each a list of batches of free blocks, and what popping, *)
(* pushing, populating and releasing pages do to it.  A step is what is    *)
(* done under one hold of FLLock; MMLock is held across the steps of a     *)
(* populate or a release, during which other threads push and pop.  The    *)
(* records of groups and batches are blocks of the batch class.            *)
(***************************************************************************)
EXTENDS BatchGroups

CONSTANTS
  NumBlocks,             \* blocks that fit in the region
  NumPopulate,           \* MaxNumBatches * MaxCount of populate
  MaxArray,              \* most blocks that are pushed or popped at once
  MinReleaseAttempt,     \* getMinReleaseAttemptSize(), bytes
  SmallBlock,            \* isSmallBlock()
  ReleaseDelta,          \* PageSize * SmallerBlockReleasePageDelta, bytes
  DensityPercent         \* 100 - 1 - BlockSize / 16

VARIABLES
  list,        \* FreeListInfo.BlockList
  releasing,   \* GroupsToRelease
  held,        \* blocks in local caches and with users
  allocated,   \* AllocatedUser, in blocks
  inUse,       \* PoppedBlocks - PushedBlocks
  records,     \* batch class blocks taken for the freelist and not given back
  mm           \* what the owner of MMLock does: "none", "populate", "release"

vars == <<list, releasing, held, allocated, inUse, records, mm>>

Init ==
  /\ list = <<>> /\ releasing = <<>>
  /\ held = {} /\ allocated = 0
  /\ inUse = 0 /\ records = 0
  /\ mm = "none"

\* popBlocks() that finds blocks.
Pop(n) ==
  /\ list # <<>>
  /\ LET p == popBlocksImpl(list, n) IN
     /\ list' = p.list
     /\ held' = held \cup p.popped
     /\ inUse' = inUse + Cardinality(p.popped)
     /\ records' = records - p.freed
  /\ UNCHANGED <<releasing, allocated, mm>>

\* pushBlocks() of some held blocks.
Push(S) ==
  /\ S # {} /\ S \subseteq held
  /\ list' = pushBlocksImpl(list, S)
  /\ held' = held \ S
  /\ inUse' = inUse - Cardinality(S)
  /\ records' = records + Records(list') - Records(list)
  /\ UNCHANGED <<releasing, allocated, mm>>

\* popBlocks() owns MMLock and finds the freelist empty; the region has room.
StartPopulate ==
  /\ mm = "none" /\ list = <<>> /\ allocated < NumBlocks
  /\ mm' = "populate"
  /\ UNCHANGED <<list, releasing, held, allocated, inUse, records>>

\* The FLLock section of populateFreeListAndPopBlocks().
Populate(n) ==
  /\ mm = "populate"
  /\ LET N      == Min({NumPopulate, NumBlocks - allocated})
         pushed == pushBlocksImpl(list, allocated .. allocated + N - 1)
         p      == popBlocksImpl(pushed, n)
     IN  /\ list' = p.list
         /\ held' = held \cup p.popped
         /\ inUse' = inUse + Cardinality(p.popped)
         /\ records' = records + Records(pushed) - Records(list) - p.freed
         /\ allocated' = allocated + N
  /\ mm' = "none"
  /\ UNCHANGED releasing

UsedEnd == allocated * BlockSize

GroupEnd(BG) == Min({(BG.base + 1) * GroupSize, UsedEnd})

AllocatedGroupSize(BG) == GroupEnd(BG) - BG.base * GroupSize

Delta(BG) == NumBlocksIn(BG) * BlockSize - BG.BytesInBGAtLastCheckpoint

\* The heuristic for small blocks.
DenseEnough(BG) ==
  /\ NumBlocksIn(BG) * BlockSize >= (AllocatedGroupSize(BG) * DensityPercent) \div 100
  /\ NumBlocksIn(BG) >= GroupSize \div BlockSize \/ Delta(BG) >= ReleaseDelta

Eligible(BG) == Delta(BG) >= MinReleaseAttempt /\ (SmallBlock => DenseEnough(BG))

\* The checkpoint of a group that was looked at: never more than what is free.
Checkpoint(BG) ==
  IF Delta(BG) =< 0 \/ Eligible(BG)
  THEN [BG EXCEPT !.BytesInBGAtLastCheckpoint = NumBlocksIn(BG) * BlockSize]
  ELSE BG

\* collectGroupsToRelease() looks at every group and takes the eligible.
Examine(l, BG) ==
  IF Eligible(BG) THEN [l EXCEPT !.taken = Append(@, Checkpoint(BG))]
  ELSE [l EXCEPT !.kept = Append(@, Checkpoint(BG))]

collectGroupsToRelease(groups) == FoldLeft(Examine, [kept |-> <<>>, taken |-> <<>>], groups)

\* MMLock is taken by tryLock() or lock().
Collect ==
  /\ mm = "none"
  /\ LET c == collectGroupsToRelease(list) IN
     /\ list' = c.kept
     /\ releasing' = c.taken
     /\ mm' = IF c.taken = <<>> THEN "none" ELSE "release"
  /\ UNCHANGED <<held, allocated, inUse, records>>

\* releaseToOSMaybe() of type ForceAll takes the whole list.
CollectAll ==
  /\ mm = "none" /\ list # <<>>
  /\ releasing' = list
  /\ list' = <<>>
  /\ mm' = "release"
  /\ UNCHANGED <<held, allocated, inUse, records>>

\* Mutant: the front batch of Cur is appended like the full ones.
MergeGroupAppends(BG, Cur) ==
  [group  |-> [BG EXCEPT !.batches = @ \o Cur.batches,
                 !.BytesInBGAtLastCheckpoint = Cur.BytesInBGAtLastCheckpoint],
   unused |-> 1]

\* Mutant: the front batch of Cur is dropped when it does not fit.
MergeGroupDrops(BG, Cur) ==
  LET into  == Head(BG.batches)
      front == Head(Cur.batches)
      move  == Min({MaxNumBlocksInBatch - Len(into), Len(front)})
      moved == <<into \o SubSeq(front, Len(front) - move + 1, Len(front))>>
  IN  [group  |-> [BG EXCEPT
         !.batches = moved \o Tail(BG.batches) \o Tail(Cur.batches),
         !.BytesInBGAtLastCheckpoint = Cur.BytesInBGAtLastCheckpoint],
       unused |-> 2]

\* Two groups of the same base become one: the front batches, of which each
\* may not be full, are merged.  unused are the records that are left over.
MergeGroup(BG, Cur) ==
  LET into  == Head(BG.batches)
      front == Head(Cur.batches)
      move  == Min({MaxNumBlocksInBatch - Len(into), Len(front)})
      left  == SubSeq(front, 1, Len(front) - move)
      all   == BG.batches \o Tail(Cur.batches)
      moved == <<into \o SubSeq(front, Len(left) + 1, Len(front))>> \o Tail(all)
  IN  [group  |-> [BG EXCEPT
         !.batches = IF Len(front) = MaxNumBlocksInBatch THEN BG.batches \o Cur.batches
                     ELSE IF left = <<>> THEN moved ELSE <<left>> \o moved,
         !.BytesInBGAtLastCheckpoint = Cur.BytesInBGAtLastCheckpoint],
       unused |-> IF Len(front) # MaxNumBlocksInBatch /\ left = <<>> THEN 2 ELSE 1]

\* mergeGroupsToReleaseBack() of one group.
MergeBack(l, Cur) ==
  LET m == IF HasGroup(l.list, Cur.base) THEN MergeGroup(GroupAt(l.list, Cur.base), Cur)
           ELSE [group |-> Cur, unused |-> 0]
  IN  [list |-> Put(l.list, m.group), unused |-> l.unused + m.unused]

\* Mutant: what is left over is not pushed to the batch class.
mergeGroupsToReleaseBackLeaks(groups, back) ==
  [list |-> FoldLeft(MergeBack, [list |-> groups, unused |-> 0], back).list, unused |-> 0]

mergeGroupsToReleaseBack(groups, back) ==
  FoldLeft(MergeBack, [list |-> groups, unused |-> 0], back)

\* The end of releaseToOSMaybe(), when pages have been released or when there
\* was no page map.
MergeGroupsToReleaseBack ==
  /\ mm = "release"
  /\ LET m == mergeGroupsToReleaseBack(list, releasing) IN
     /\ list' = m.list
     /\ records' = records - m.unused
  /\ releasing' = <<>>
  /\ mm' = "none"
  /\ UNCHANGED <<held, allocated, inUse>>

Next ==
  \/ \E n \in 1 .. MaxArray : Pop(n) \/ Populate(n)
  \/ \E S \in SUBSET held : Cardinality(S) =< MaxArray /\ Push(S)
  \/ StartPopulate
  \/ Collect \/ CollectAll
  \/ MergeGroupsToReleaseBack

Spec == Init /\ [][Next]_vars
-----------------------------------------------------------------------------
Groups == ToSet(list) \cup ToSet(releasing)

\* pushBlocksImpl() and mergeGroupsToReleaseBack() insert in order into a list
\* that they take for sorted, with one group per base.  Every block is in the
\* group of its address, no batch is empty or overfull, and only the front batch of a group may be partly
\* filled: so NumBlocks of collectGroupsToRelease() and markFreeBlocks() is the
\* number of free blocks of the group.
GroupsWellFormed ==
  /\ \A l \in {list, releasing} : \A i, j \in DOMAIN l : i < j => l[i].base < l[j].base
  /\ \A BG \in Groups :
       /\ \A i \in DOMAIN BG.batches : Len(BG.batches[i]) \in 1 .. MaxNumBlocksInBatch
       /\ NumBlocksIn(BG) = Cardinality(BlocksOf(<<BG>>))
       /\ \A b \in BlocksOf(<<BG>>) : compactPtrGroup(b) = BG.base

\* PoppedBlocks - PushedBlocks counts the blocks in use at every moment that a
\* thread can read it, populate and release included: releaseToOSMaybe() gets
\* BytesInFreeList from it.  The batch class blocks in use are the groups and
\* batches of the freelists: none leaks when a batch is popped empty or two
\* groups are merged (verifyAllBlocksAreReleasedTestOnly takes both sums).
CountersAgree ==
  /\ inUse = Cardinality(held)
  /\ records = Records(list) + Records(releasing)

\* To the local caches the freelist is a pool of blocks: populating, grouping
\* and releasing pages while others push and pop lose and duplicate no block.
Pool == INSTANCE BlockPool WITH free <- BlocksOf(list) \cup BlocksOf(releasing)

ImplementsPool == Pool!Spec
=============================================================================
