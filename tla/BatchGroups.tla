------------------------------ MODULE BatchGroups -----------------------------
(***************************************************************************)
(* The freelist of a size class as a value: batch groups sorted by their   *)
(* base, each a list of batches of free blocks.  The functions that push   *)
(* and pop blocks are the same text in SizeClassAllocator64, where a group *)
(* is a part of the region, and in SizeClassAllocator32, where a group is  *)
(* a region.                                                               *)
(***************************************************************************)
EXTENDS Integers, FiniteSetsExt, SequencesExt

CONSTANTS BlockSize, GroupSize, MaxNumBlocksInBatch

\* compactPtrGroup() of a block, counted from the beginning of the region.
compactPtrGroup(b) == (b * BlockSize) \div GroupSize

Group(base, batches, checkpoint) ==
  [base |-> base, batches |-> batches, BytesInBGAtLastCheckpoint |-> checkpoint]

\* The blocks in a list of groups.
BlocksOf(groups) == UNION {UNION {ToSet(B) : B \in ToSet(BG.batches)} : BG \in ToSet(groups)}

\* s cut in batches that are full but for the last one.
Batches(s) ==
  [i \in 1 .. (Len(s) + MaxNumBlocksInBatch - 1) \div MaxNumBlocksInBatch |->
     SubSeq(s, (i - 1) * MaxNumBlocksInBatch + 1,
               Min({i * MaxNumBlocksInBatch, Len(s)}))]

\* InsertBlocks of pushBlocksImpl(): the front batch is filled up, then new
\* batches are pushed to the front.
InsertBlocks(batches, s) ==
  LET room == Min({MaxNumBlocksInBatch - Len(Head(batches)), Len(s)})
  IN  Reverse(Batches(SubSeq(s, room + 1, Len(s))))
        \o <<Head(batches) \o SubSeq(s, 1, room)>> \o Tail(batches)

\* Where the walk along a list for base stops: behind k groups, at the first one
\* that does not come before base, or at the end.
Place(groups, base) ==
  CHOOSE k \in 0 .. Len(groups) :
    /\ \A i \in 1 .. k : groups[i].base < base
    /\ k < Len(groups) => groups[k + 1].base >= base

HasGroup(groups, base) ==
  LET k == Place(groups, base) IN k < Len(groups) /\ groups[k + 1].base = base

GroupAt(groups, base) == groups[Place(groups, base) + 1]

\* The list with BG in its place, instead of the group that was there.
Put(groups, BG) ==
  LET k    == Place(groups, BG.base)
      next == IF HasGroup(groups, BG.base) THEN k + 2 ELSE k + 1
  IN  SubSeq(groups, 1, k) \o <<BG>> \o SubSeq(groups, next, Len(groups))

\* The blocks of one group go to that group, which is made when it is missing.
PushGroup(groups, base, s) ==
  LET old == IF HasGroup(groups, base) THEN GroupAt(groups, base)
             ELSE Group(base, << <<>> >>, 0)
  IN  Put(groups, [old EXCEPT !.batches = InsertBlocks(@, s)])

\* An array of numbers after its sort.
Sorted(S) ==
  [i \in 1 .. Cardinality(S) |-> CHOOSE b \in S : Cardinality({a \in S : a < b}) = i - 1]

\* pushBlocks() and pushBlocksImpl(): the array is sorted by group.
pushBlocksImpl(groups, S) ==
  FoldLeft(LAMBDA l, base : PushGroup(l, base, Sorted({b \in S : compactPtrGroup(b) = base})),
           groups, Sorted({compactPtrGroup(b) : b \in S}))

\* Batch class blocks that a list of groups is made of.
Records(groups) ==
  Len(groups) + FoldLeft(LAMBDA n, BG : n + Len(BG.batches), 0, groups)

\* popBlocksImpl() with MaxBlockCount n: the blocks, what is left of the list
\* and the batch class blocks that are deallocated.
popBlocksImpl(groups, n) ==
  LET BG   == Head(groups)
      B    == Head(BG.batches)
      left == Max({Len(B) - n, 0})
      rest == IF left = 0 THEN Tail(BG.batches)
              ELSE <<SubSeq(B, 1, left)>> \o Tail(BG.batches)
  IN  [popped |-> ToSet(SubSeq(B, left + 1, Len(B))),
       list   |-> IF rest = <<>> THEN Tail(groups)
                  ELSE <<[BG EXCEPT !.batches = rest]>> \o Tail(groups),
       freed  |-> IF left # 0 THEN 0 ELSE IF rest = <<>> THEN 2 ELSE 1]

\* The number of blocks as collectGroupsToRelease() and markFreeBlocks() get it
\* without looking at every batch.
NumBlocksIn(BG) ==
  (Len(BG.batches) - 1) * MaxNumBlocksInBatch + Len(Head(BG.batches))
=============================================================================
