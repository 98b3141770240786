------------------------------- MODULE Primary32 -------------------------------
(***************************************************************************)
(* SizeClassAllocator32: the size classes take regions from one address    *)
(* space, through a stash and a byte map that they share.  The lock of a   *)
(* class is held throughout each of its operations, so that a class is a   *)
(* process: what it does with its freelist is one step, and only the way   *)
(* to a new region takes several, between which other classes run.         *)
(* Addresses are numbers; a region is a multiple of RegionSize.            *)
(***************************************************************************)
EXTENDS Integers, FiniteSetsExt, SequencesExt

CONSTANTS
  NumClasses,          \* 0 is the batch class
  Sizes,               \* getSizeByClassId
  RegionSize, NumRegions,
  PageSize,
  SmallClasses,        \* isSmallBlock(): a block is less than 1/16 of a page
  MaxStashedRegions,
  MaxNumBlocksInBatch, \* MaxNumCachedHint
  NumPopulate,         \* MaxNumBatches * MaxCount of populateFreeList()
  MaxArray,            \* bound: blocks that are pushed at once
  MaxRegions,          \* bound: regions that a class takes
  None

VARIABLES
  mapped,              \* half regions that the system has mapped
  RegionsStash,        \* regions, the last one on top
  PossibleRegions,     \* 0, or the class of the region plus 1
  Sci,                 \* SizeClassInfo of the classes
  held,                \* blocks of the classes in local caches and with users
  pc, Region, MapEnd   \* where the thread in allocateRegion() of a class is

rvars == <<mapped, RegionsStash, PossibleRegions, Sci, held, pc, Region, MapEnd>>

Classes == 0 .. NumClasses - 1
BatchClassId == 0
Half == RegionSize \div 2
RegionIds == 1 .. NumRegions     \* nothing is mapped at 0

Lists == INSTANCE BatchGroups WITH BlockSize <- 1, GroupSize <- RegionSize
BatchList == INSTANCE BatchClassBlocks WITH MaxCachedPerBatch <- MaxNumBlocksInBatch
Pages == INSTANCE PageMap

\* The freelist of the batch class is its group and batches.
EmptyList(c) == IF c = BatchClassId THEN [bg |-> None, list |-> <<>>] ELSE <<>>

Init ==
  /\ mapped = {}
  /\ RegionsStash = <<>>
  /\ PossibleRegions = [r \in RegionIds |-> 0]
  /\ Sci = [c \in Classes |->
              [BlockList |-> EmptyList(c), InUse |-> 0, AllocatedUser |-> 0,
               CurrentRegion |-> 0, CurrentRegionAllocated |-> 0,
               MinRegionIndex |-> NumRegions + 1, MaxRegionIndex |-> 0,
               BytesInFreeListAtLastCheckpoint |-> 0]]
  /\ held = [c \in Classes |-> {}]
  /\ pc = [c \in Classes |-> "idle"]
  /\ Region = [c \in Classes |-> 0]
  /\ MapEnd = [c \in Classes |-> 0]

(***************************************************************************)
(* Freelists.  InUse is PoppedBlocks - PushedBlocks.                       *)
(***************************************************************************)
pushBatchClassBlocks(l, S) ==
  LET p == BatchList!pushBatchClassBlocks(l.bg, l.list, Lists!Sorted(S))
  IN  [bg |-> p.bg, list |-> p.list]

pushBlocksImpl(l, S) == Lists!pushBlocksImpl(l, S)

PushTo(c, l, S) == IF c = BatchClassId THEN pushBatchClassBlocks(l, S) ELSE pushBlocksImpl(l, S)

popBlocksImpl(c, l, n) ==
  IF c = BatchClassId
  THEN LET p == BatchList!popBlocksImpl(l.bg, l.list)
       IN  [popped |-> p.popped, list |-> [bg |-> p.bg, list |-> p.list]]
  ELSE LET p == Lists!popBlocksImpl(l, n) IN [popped |-> p.popped, list |-> p.list]

popBlocks(c, n) ==
  /\ pc[c] = "idle" /\ Sci[c].BlockList # EmptyList(c)
  /\ LET p == popBlocksImpl(c, Sci[c].BlockList, n) IN
     /\ Sci' = [Sci EXCEPT ![c].BlockList = p.list,
                           ![c].InUse = @ + Cardinality(p.popped)]
     /\ held' = [held EXCEPT ![c] = @ \cup p.popped]
  /\ UNCHANGED <<mapped, RegionsStash, PossibleRegions, pc, Region, MapEnd>>

pushBlocks(c, S) ==
  /\ pc[c] = "idle" /\ S # {}
  /\ Sci' = [Sci EXCEPT ![c].BlockList = PushTo(c, @, S), ![c].InUse = @ - Cardinality(S)]
  /\ held' = [held EXCEPT ![c] = @ \ S]
  /\ UNCHANGED <<mapped, RegionsStash, PossibleRegions, pc, Region, MapEnd>>

(***************************************************************************)
(* Regions.                                                                *)
(***************************************************************************)
Halves(base, end) == {h \in 2 .. 2 * NumRegions + 1 : h * Half >= base /\ h * Half < end}

Goto(c, to) == pc' = [pc EXCEPT ![c] = to]

RegionsOf(c) ==
  {r \in Sci[c].MinRegionIndex .. Sci[c].MaxRegionIndex : PossibleRegions[r] - 1 = c}

\* The freelist is empty and the class has no region with room.
StashPop(c) ==
  /\ pc[c] = "idle" /\ Sci[c].BlockList = EmptyList(c) /\ Sci[c].CurrentRegion = 0
  /\ Cardinality(RegionsOf(c)) < MaxRegions
  /\ IF RegionsStash = <<>>
     THEN Goto(c, "map") /\ UNCHANGED <<RegionsStash, Region>>
     ELSE /\ Region' = [Region EXCEPT ![c] = Last(RegionsStash)]
          /\ RegionsStash' = Front(RegionsStash)
          /\ Goto(c, "set")
  /\ UNCHANGED <<mapped, PossibleRegions, Sci, held, MapEnd>>

\* map() finds room for two regions somewhere, or nowhere.
Map(c) ==
  /\ pc[c] = "map"
  /\ \/ Goto(c, "idle") /\ UNCHANGED <<mapped, Region, MapEnd>>
     \/ \E h \in 2 .. 2 * NumRegions - 2 :
          /\ (h .. h + 3) \cap mapped = {}
          /\ mapped' = mapped \cup (h .. h + 3)
          /\ Region' = [Region EXCEPT ![c] = h * Half]
          /\ MapEnd' = [MapEnd EXCEPT ![c] = h * Half + 2 * RegionSize]
          /\ Goto(c, "align")
  /\ UNCHANGED <<RegionsStash, PossibleRegions, Sci, held>>

\* Mutant: MapSize stays when the stash is full.
AlignLeaks(c) ==
  /\ pc[c] = "align"
  /\ IF Region[c] % RegionSize = 0
     THEN /\ RegionsStash' = IF Len(RegionsStash) < MaxStashedRegions
                             THEN Append(RegionsStash, Region[c] + RegionSize) ELSE RegionsStash
          /\ Goto(c, "set")
          /\ UNCHANGED <<mapped, Region>>
     ELSE /\ Region' = [Region EXCEPT ![c] = Pages!roundUp(@, RegionSize)]
          /\ mapped' = mapped \ Halves(Region[c], Region'[c])
          /\ Goto(c, "unmap")
          /\ UNCHANGED RegionsStash
  /\ UNCHANGED <<PossibleRegions, Sci, held, MapEnd>>

\* The second region goes to the stash, if that has room, when both are whole.
Align(c) ==
  /\ pc[c] = "align"
  /\ IF Region[c] % RegionSize = 0
     THEN /\ IF Len(RegionsStash) < MaxStashedRegions
             THEN RegionsStash' = Append(RegionsStash, Region[c] + RegionSize) /\ Goto(c, "set")
             ELSE UNCHANGED RegionsStash /\ Goto(c, "unmap")
          /\ UNCHANGED <<mapped, Region>>
     ELSE /\ Region' = [Region EXCEPT ![c] = Pages!roundUp(@, RegionSize)]
          /\ mapped' = mapped \ Halves(Region[c], Region'[c])
          /\ Goto(c, "unmap")
          /\ UNCHANGED RegionsStash
  /\ UNCHANGED <<PossibleRegions, Sci, held, MapEnd>>

Unmap(c) ==
  /\ pc[c] = "unmap"
  /\ mapped' = mapped \ Halves(Region[c] + RegionSize, MapEnd[c])
  /\ Goto(c, "set")
  /\ UNCHANGED <<RegionsStash, PossibleRegions, Sci, held, Region, MapEnd>>

computeRegionId(r) == r \div RegionSize

\* Mutant: only the first region of a class sets its MaxRegionIndex.
SetOwnerFirst(c) ==
  LET id == computeRegionId(Region[c]) IN
  /\ pc[c] = "set"
  /\ PossibleRegions' = [PossibleRegions EXCEPT ![id] = c + 1]
  /\ Sci' = [Sci EXCEPT ![c].MinRegionIndex = Min({@, id}),
                        ![c].MaxRegionIndex = IF @ = 0 THEN id ELSE @]
  /\ Goto(c, "populate")
  /\ UNCHANGED <<mapped, RegionsStash, held, Region, MapEnd>>

\* The class owns the region and has it among those it looks at.
SetOwner(c) ==
  LET id == computeRegionId(Region[c]) IN
  /\ pc[c] = "set"
  /\ PossibleRegions' = [PossibleRegions EXCEPT ![id] = c + 1]
  /\ Sci' = [Sci EXCEPT ![c].MinRegionIndex = Min({@, id}),
                        ![c].MaxRegionIndex = Max({@, id})]
  /\ Goto(c, "populate")
  /\ UNCHANGED <<mapped, RegionsStash, held, Region, MapEnd>>

\* populateFreeList() and the popBlocksImpl() behind it: with the current region
\* at once, or with the one that allocateRegion() returned.  A region without
\* room for one more block is no longer the current one.
populateFreeList(c, n) ==
  LET s      == Sci[c]
      region == IF s.CurrentRegion # 0 THEN s.CurrentRegion ELSE Region[c]
      N      == Min({NumPopulate, (RegionSize - s.CurrentRegionAllocated) \div Sizes[c]})
      first  == region + s.CurrentRegionAllocated
      full   == RegionSize - (s.CurrentRegionAllocated + N * Sizes[c]) < Sizes[c]
      p      == popBlocksImpl(c, PushTo(c, s.BlockList, {first + i * Sizes[c] : i \in 0 .. N - 1}), n)
  IN
  /\ \/ pc[c] = "populate"
     \/ pc[c] = "idle" /\ s.BlockList = EmptyList(c) /\ s.CurrentRegion # 0
  /\ Sci' = [Sci EXCEPT ![c] =
       [s EXCEPT !.BlockList = p.list,
                 !.InUse = @ + Cardinality(p.popped),
                 !.AllocatedUser = @ + N * Sizes[c],
                 !.CurrentRegion = IF full THEN 0 ELSE region,
                 !.CurrentRegionAllocated = IF full THEN 0 ELSE @ + N * Sizes[c]]]
  /\ held' = [held EXCEPT ![c] = @ \cup p.popped]
  /\ Goto(c, "idle")
  /\ Region' = [Region EXCEPT ![c] = 0]
  /\ MapEnd' = [MapEnd EXCEPT ![c] = 0]
  /\ UNCHANGED <<mapped, RegionsStash, PossibleRegions>>

(***************************************************************************)
(* Page release.  A page map has one row of counters per region from the   *)
(* first to the last one of the class; those of other classes are skipped. *)
(***************************************************************************)
AllocatedGroupSize(c, BG) ==
  IF BG.base = computeRegionId(Sci[c].CurrentRegion) THEN Sci[c].CurrentRegionAllocated
  ELSE Pages!roundDown(RegionSize, Sizes[c])

BytesInBG(c, BG) == Lists!NumBlocksIn(BG) * Sizes[c]

\* The groups that markFreeBlocks() marks.
Marked(c, type, BG) ==
  /\ AllocatedGroupSize(c, BG) # 0
  /\ \/ type = "ForceAll"
     \/ /\ BytesInBG(c, BG) - BG.BytesInBGAtLastCheckpoint >= PageSize
        /\ c \in SmallClasses =>
             (BytesInBG(c, BG) * 100) \div AllocatedGroupSize(c, BG) >= 100 - 1 - Sizes[c] \div 16

\* The rows of the page map; offsets are counted from the region.
markFreeBlocks(c, type) ==
  LET context == Pages!Context(Sizes[c], RegionSize, 0)
      Row(BG) ==
        LET size  == AllocatedGroupSize(c, BG)
            base  == BG.base * RegionSize
            map   == Pages!NoneCounted(context)
        IN  IF Lists!NumBlocksIn(BG) = size \div Sizes[c]
            THEN Pages!markRangeAsAllCounted(context, map, 0, size, size)
            ELSE Pages!markFreeBlocksInRegion(context, map,
                   {b - base : b \in Lists!BlocksOf(<<BG>>)}, size, TRUE)
      groups == SelectSeq(Sci[c].BlockList, LAMBDA BG : Marked(c, type, BG))
  IN  [r \in {BG.base : BG \in ToSet(groups)} |->
         Row(Head(SelectSeq(groups, LAMBDA BG : BG.base = r)))]

\* The pages that are given back, by their numbers in the address space.
ReleasedPages(c, type) ==
  LET rows    == markFreeBlocks(c, type)
      context == Pages!Context(Sizes[c], RegionSize, 0)
      first(r) == r * (RegionSize \div PageSize)
  IN  UNION {{first(r) + j : j \in {i \in 0 .. context.PagesCount - 1 :
                                      Pages!CanRelease(context, rows[r], i)}} :
             r \in DOMAIN rows \cap RegionsOf(c)}

BytesInFreeList(c) == Sci[c].AllocatedUser - Sci[c].InUse * Sizes[c]

\* What hasChanceToReleasePages() makes of the checkpoint, and when it agrees;
\* for type Normal the release interval may not have passed.
LastCheckpoint(c) == Min({Sci[c].BytesInFreeListAtLastCheckpoint, BytesInFreeList(c)})

hasChanceToReleasePages(c, type) ==
  /\ BytesInFreeList(c) - LastCheckpoint(c) >= PageSize
  /\ c \in SmallClasses /\ type = "Normal" =>
       BytesInFreeList(c) - LastCheckpoint(c) >= Sci[c].AllocatedUser \div 16

\* The checkpoint of a group that was looked at.
Checkpoint(c, type, BG) ==
  IF Marked(c, type, BG) \/ BytesInBG(c, BG) =< BG.BytesInBGAtLastCheckpoint
  THEN [BG EXCEPT !.BytesInBGAtLastCheckpoint = BytesInBG(c, BG)] ELSE BG

releaseToOSMaybe(c, type) ==
  /\ pc[c] = "idle" /\ c # BatchClassId /\ BytesInFreeList(c) > 0
  /\ \/ /\ type # "ForceAll" /\ (hasChanceToReleasePages(c, type) => type = "Normal")
        /\ Sci' = [Sci EXCEPT ![c].BytesInFreeListAtLastCheckpoint = LastCheckpoint(c)]
     \/ /\ type = "ForceAll" \/ hasChanceToReleasePages(c, type)
        /\ Sci' = [Sci EXCEPT
             ![c].BlockList = [i \in DOMAIN @ |-> Checkpoint(c, type, @[i])],
             ![c].BytesInFreeListAtLastCheckpoint =
                IF ReleasedPages(c, type) # {} THEN BytesInFreeList(c)
                ELSE IF type = "ForceAll" THEN @ ELSE LastCheckpoint(c)]
  /\ UNCHANGED <<mapped, RegionsStash, PossibleRegions, held, pc, Region, MapEnd>>

\* getFragmentationInfo() marks as a release of everything does, checkpoints
\* included, and releases nothing.
getSizeClassFragmentationInfo(c) ==
  /\ pc[c] = "idle" /\ c # BatchClassId /\ Sci[c].BlockList # <<>>
  /\ Sci' = [Sci EXCEPT ![c].BlockList = [i \in DOMAIN @ |-> Checkpoint(c, "ForceAll", @[i])]]
  /\ UNCHANGED <<mapped, RegionsStash, PossibleRegions, held, pc, Region, MapEnd>>

Next ==
  \/ \E c \in Classes :
       \/ \E n \in {1, MaxArray} : popBlocks(c, n) \/ populateFreeList(c, n)
       \/ \E S \in SUBSET held[c] : Cardinality(S) =< MaxArray /\ pushBlocks(c, S)
       \/ StashPop(c) \/ Map(c) \/ Align(c) \/ Unmap(c) \/ SetOwner(c)
       \/ \E type \in {"Normal", "Force", "ForceAll"} : releaseToOSMaybe(c, type)
       \/ getSizeClassFragmentationInfo(c)

Spec == Init /\ [][Next]_rvars

\* The addresses that iterateOverBlocks() calls its callback with.
iterateOverBlocks ==
  LET first == Min({Sci[c].MinRegionIndex : c \in Classes})
      last  == Max({Sci[c].MaxRegionIndex : c \in Classes})
      Blocks(r) == LET size == Sizes[PossibleRegions[r] - 1]
                   IN  {r * RegionSize + i * size : i \in 0 .. RegionSize \div size - 1}
  IN  UNION {Blocks(r) : r \in {i \in first .. last : PossibleRegions[i] \notin {0, BatchClassId + 1}}}
-----------------------------------------------------------------------------
\* The half regions that somebody has a way to find: in the stash, owned by a
\* class, or on the way of a thread to one of the two.
Known(c) ==
  CASE pc[c] = "align" -> Halves(Region[c], MapEnd[c])
    [] pc[c] = "unmap" -> Halves(Region[c], MapEnd[c])
    [] pc[c] = "set" -> Halves(Region[c], Region[c] + RegionSize)
    [] OTHER -> {}

Stashed(i) == Halves(RegionsStash[i], RegionsStash[i] + RegionSize)

Owned(r) == IF PossibleRegions[r] = 0 THEN {} ELSE Halves(r * RegionSize, (r + 1) * RegionSize)

PartIds ==
  ({"class"} \X Classes) \cup ({"stash"} \X DOMAIN RegionsStash) \cup ({"owned"} \X RegionIds)

Parts ==
  [x \in PartIds |-> CASE x[1] = "class" -> Known(x[2])
                       [] x[1] = "stash" -> Stashed(x[2])
                       [] x[1] = "owned" -> Owned(x[2])]

\* Whatever classes ask for regions at once and wherever the system maps them,
\* every region is in the stash, owned by one class or in the hands of one
\* thread: none is handed out twice, none leaks, none is used after its unmap.
RegionsAccounted ==
  /\ UNION Range(Parts) = mapped
  /\ MapThenSumSet(LAMBDA x : Cardinality(Parts[x]), DOMAIN Parts) = Cardinality(mapped)

Blocks(c) == held[c] \cup Lists!BlocksOf(Sci[c].BlockList)

\* iterateOverBlocks() runs while every class is locked, that is outside of its
\* operations.  It visits every block that a class has carved out, which a leak
\* checker depends on, although it only knows the byte map, the sizes and the
\* range of the regions.
IterationFindsAll ==
  (\A c \in Classes : pc[c] = "idle") =>
    \A c \in Classes \ {BatchClassId} : Blocks(c) \subseteq iterateOverBlocks

PagesOfBlock(c, b) == b \div PageSize .. (b + Sizes[c] - 1) \div PageSize

\* A release gives back no page with a block in use, among regions of other
\* classes and with a current region of which only a part is carved out; and one
\* of type ForceAll gives back every page that has only free blocks.
ReleasesExactly32 ==
  \A c \in Classes \ {BatchClassId} :
    pc[c] = "idle" =>
      LET used == UNION {PagesOfBlock(c, b) : b \in held[c]}
          free == UNION {PagesOfBlock(c, b) : b \in Lists!BlocksOf(Sci[c].BlockList)}
      IN  /\ ReleasedPages(c, "ForceAll") = free \ used
          /\ ReleasedPages(c, "Normal") \subseteq free \ used
=============================================================================
