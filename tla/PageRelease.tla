----------------------------- MODULE PageRelease ------------------------------
(***************************************************************************)
(* One page release of a region of SizeClassAllocator64, from the groups   *)
(* that were taken out of the freelist to the ranges that are given back   *)
(* to the system: markFreeBlocks() and releaseFreeMemoryToOS().  The       *)
(* groups stay out of the freelist meanwhile, so their blocks stay free    *)
(* whatever other threads push and pop.                                    *)
(***************************************************************************)
EXTENDS FiniteSetsExt, SequencesExt, PageMap

CONSTANTS
  GroupSize,
  BlockSizes,   \* block sizes of the regions
  MaxUser,      \* bound: bytes that are allocated in the region
  MaxInUse      \* bound: blocks of the released groups that are in use

VARIABLES
  BlockSize, Allocated,   \* of the region, Allocated in blocks
  inUse,                  \* blocks that are not free
  GroupsToRelease,        \* by their numbers, sorted
  marked,                 \* how many of them are marked
  context, map,
  InRange, CurrentPage, CurrentRangeStatePage,   \* FreePagesRangeTracker
  released                \* pages that were given back

tracker == <<InRange, CurrentPage, CurrentRangeStatePage>>
pvars == <<BlockSize, Allocated, inUse, GroupsToRelease, marked, context, map, tracker, released>>

AllocatedUser == Allocated * BlockSize
GroupOf(b, B) == (b * B) \div GroupSize
BlocksIn(g) == {b \in 0 .. Allocated - 1 : GroupOf(b, BlockSize) = g}
FreeIn(g) == {b \in BlocksIn(g) : b \notin inUse}

BatchGroupUsedEnd(g) == Min({(g + 1) * GroupSize, AllocatedUser})

\* The range that the context of markFreeBlocks() covers.
ReleaseContext(B, user, groups) ==
  LET base == Head(groups) * GroupSize
      end  == roundUp(Min({(Last(groups) + 1) * GroupSize, user}), B)
  IN  Context(B, end - base, base)

Init ==
  /\ BlockSize = 1 /\ Allocated = 0 /\ inUse = {}
  /\ GroupsToRelease = <<>> /\ marked = 0
  /\ context = Context(1, 0, 0) /\ map = NoneCounted(context)
  /\ InRange = FALSE /\ CurrentPage = 0 /\ CurrentRangeStatePage = 0
  /\ released = {}

\* A release of groups with free blocks, sorted by their bases; any few blocks
\* of the region are in use.
Start ==
  /\ GroupsToRelease = <<>>
  /\ BlockSize' \in BlockSizes
  /\ Allocated' \in 1 .. MaxUser \div BlockSize'
  /\ inUse' \in UNION {kSubset(k, 0 .. Allocated' - 1) : k \in 0 .. MaxInUse}
  /\ \E G \in SUBSET {GroupOf(b, BlockSize') : b \in (0 .. Allocated' - 1) \ inUse'} :
       /\ G # {}
       /\ GroupsToRelease' = SetToSortSeq(G, <)
  /\ context' = ReleaseContext(BlockSize', Allocated' * BlockSize', GroupsToRelease')
  /\ map' = NoneCounted(context')
  /\ UNCHANGED <<marked, tracker, released>>

\* Mutant: the block that straddles the end is forgotten.
ContainedBlocks(g) == (BatchGroupUsedEnd(g) - g * GroupSize) \div BlockSize

MaxContainedBlocks(g) ==
  (BatchGroupUsedEnd(g) - g * GroupSize) \div BlockSize
    + (IF BatchGroupUsedEnd(g) % BlockSize = 0 THEN 0 ELSE 1)

MarkGroup ==
  /\ marked < Len(GroupsToRelease)
  /\ LET g == GroupsToRelease[marked + 1] IN
     map' = IF Cardinality(FreeIn(g)) = MaxContainedBlocks(g)
            THEN markRangeAsAllCounted(context, map, g * GroupSize, BatchGroupUsedEnd(g), AllocatedUser)
            ELSE markFreeBlocksInRegion(context, map, {b * BlockSize : b \in FreeIn(g)}, AllocatedUser,
                                        BatchGroupUsedEnd(g) = AllocatedUser)
  /\ marked' = marked + 1
  /\ UNCHANGED <<BlockSize, Allocated, inUse, GroupsToRelease, context, tracker, released>>

closeOpenedRange ==
  /\ InRange' = FALSE
  /\ released' = released \cup (IF InRange THEN CurrentRangeStatePage .. CurrentPage - 1 ELSE {})
  /\ UNCHANGED CurrentRangeStatePage

ProcessNextPage ==
  /\ marked = Len(GroupsToRelease) /\ CurrentPage < context.PagesCount
  /\ IF CanRelease(context, map, CurrentPage)
     THEN /\ InRange' = TRUE
          /\ CurrentRangeStatePage' = IF InRange THEN CurrentRangeStatePage ELSE CurrentPage
          /\ UNCHANGED released
     ELSE closeOpenedRange
  /\ CurrentPage' = CurrentPage + 1
  /\ UNCHANGED <<BlockSize, Allocated, inUse, GroupsToRelease, marked, context, map>>

Finish ==
  /\ marked = Len(GroupsToRelease) /\ CurrentPage = context.PagesCount /\ InRange
  /\ closeOpenedRange
  /\ UNCHANGED <<BlockSize, Allocated, inUse, GroupsToRelease, marked, context, map, CurrentPage>>

Done == marked = Len(GroupsToRelease) /\ CurrentPage = context.PagesCount /\ ~InRange

Next == Start \/ MarkGroup \/ ProcessNextPage \/ Finish \/ (Done /\ UNCHANGED pvars)

-----------------------------------------------------------------------------
\* The blocks that touch page j of the context.
BlocksOn(j) ==
  LET p == (context.ReleasePageOffset + j) * PageSize
  IN  {b \in 0 .. Allocated - 1 : b * BlockSize < p + PageSize /\ (b + 1) * BlockSize > p}

\* A page with other groups' blocks is theirs as well.
OnlyReleasedGroups(j) == \A b \in BlocksOn(j) : GroupOf(b, BlockSize) \in ToSet(GroupsToRelease)

\* The last block of the region reaches out of its group: markFreeBlocks() takes
\* BatchGroupUsedEnd for the end of the group, so that nobody marks the space
\* behind that block.
LastBlockStraddles(j) ==
  Allocated - 1 \in BlocksOn(j) /\ AllocatedUser > (GroupOf(Allocated - 1, BlockSize) + 1) * GroupSize

\* A page is given back only if no block on it is in use, whatever the sizes of
\* blocks, groups and pages and however blocks straddle them; and every page that
\* has only free blocks of the groups to release is given back, but for the last
\* one when the last block straddles.
ReleasesExactly ==
  /\ \A j \in released : BlocksOn(j) # {} /\ BlocksOn(j) \cap inUse = {}
  /\ Done => {j \in 0 .. context.PagesCount - 1 :
                BlocksOn(j) # {} /\ BlocksOn(j) \cap inUse = {} /\ OnlyReleasedGroups(j)
                /\ ~LastBlockStraddles(j)} \subseteq released

\* No counter is asked for beyond the end of the map and none outgrows its bits
\* (RegionPageMap::inc() checks it only in debug builds), although the blocks of a
\* page are counted from several groups and the space behind the last as well.
CountersFit ==
  /\ DOMAIN map = 0 .. context.PagesCount - 1
  /\ \A j \in DOMAIN map : map[j] =< CounterMask(context)
=============================================================================
