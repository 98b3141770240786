------------------------------ MODULE Structures --------------------------------
(***************************************************************************)
(* The data structures of the primary, one subject per behaviour: the      *)
(* freelist of a region, that of the batch class, the page map of a        *)
(* release, the regions of SizeClassAllocator32, and the size classes.     *)
(***************************************************************************)
EXTENDS BlockLists

CONSTANTS
  Subjects,
  ReleasePageSize, ReleaseGroupSize, BlockSizes, MaxUser, MaxInUse,    \* page release
  NumClasses, Sizes, RegionSize, NumRegions, PageSize, SmallClasses,
  MaxStashedRegions, NumPopulate32, MaxArray32, MaxRegions             \* SizeClassAllocator32

\* A region is a power of two in the code, and has room for a block of any class.
ASSUME Primary32Assumption ==
  /\ NumClasses \in Nat \ {0} /\ NumRegions \in Nat /\ NumPopulate32 \in Nat \ {0}
  /\ RegionSize \in Nat \ {0} /\ RegionSize % 2 = 0
  /\ Sizes \in [0 .. NumClasses - 1 -> 1 .. RegionSize]

VARIABLES
  subject,
  BlockSize, Allocated, blocksInUse, GroupsToRelease, marked, context, map,
  InRange, CurrentPage, CurrentRangeStatePage, released,
  mapped, RegionsStash, PossibleRegions, Sci, blocksHeld, pc, Region, MapEnd,
  sizeMap, sizeClass

pvars == <<BlockSize, Allocated, blocksInUse, GroupsToRelease, marked, context, map,
           InRange, CurrentPage, CurrentRangeStatePage, released>>
rvars == <<mapped, RegionsStash, PossibleRegions, Sci, blocksHeld, pc, Region, MapEnd>>
zvars == <<sizeMap, sizeClass>>

P == INSTANCE PageRelease WITH
  PageSize <- ReleasePageSize, GroupSize <- ReleaseGroupSize, inUse <- blocksInUse

R == INSTANCE Primary32 WITH
  NumPopulate <- NumPopulate32, MaxArray <- MaxArray32, held <- blocksHeld

\* The five maps, class by class.
Z == INSTANCE SizeClassMap

SizeClassMaps ==
  <<Z!DefaultSizeClassMap, Z!FuchsiaSizeClassMap, Z!TrustySizeClassMap,
    Z!AndroidSizeClassMap, Z!AndroidSizeClassMap32>>

NextSizeClass ==
  /\ sizeClass' = IF sizeClass < Z!LargestClassId(SizeClassMaps[sizeMap]) THEN sizeClass + 1 ELSE 1
  /\ UNCHANGED sizeMap

Init ==
  /\ subject \in Subjects
  /\ F!Init /\ B!Init /\ P!Init /\ R!Init
  /\ sizeMap \in DOMAIN SizeClassMaps /\ sizeClass = 1
  /\ subject # "size classes" => sizeMap = 1

Next ==
  /\ \/ subject = "freelist" /\ F!Next /\ UNCHANGED <<bvars, pvars, rvars, zvars>>
     \/ subject = "batch class" /\ B!Next /\ UNCHANGED <<fvars, pvars, rvars, zvars>>
     \/ subject = "page release" /\ P!Next /\ UNCHANGED <<fvars, bvars, rvars, zvars>>
     \/ subject = "primary32" /\ R!Next /\ UNCHANGED <<fvars, bvars, pvars, zvars>>
     \/ subject = "size classes" /\ NextSizeClass /\ UNCHANGED <<fvars, bvars, pvars, rvars>>
  /\ UNCHANGED subject

Spec == Init /\ [][Next]_<<subject, fvars, bvars, pvars, rvars, zvars>>

\* The freelists keep their form: pushBlocks() and popBlocks() leave the groups
\* sorted and their batches filled, and the records of the batch class lie in free
\* blocks of its own.
WellFormed ==
  /\ subject = "freelist" => F!GroupsWellFormed
  /\ subject = "batch class" => B!StructureNotHeld

\* PoppedBlocks and PushedBlocks agree with what callers hold, in the classes of
\* user blocks and in the batch class, which lists every other block once, however
\* a release takes groups away and merges them back.
BlocksCounted ==
  /\ subject = "freelist" => F!CountersAgree
  /\ subject = "batch class" => B!ListedOnce

\* Both freelists are pools of blocks, in which none is lost or held twice.
ImplementsPool == F!ImplementsPool /\ B!ImplementsPool

\* releaseToOSMaybe() gives back the pages without blocks in use, and no others:
\* by page counters that fit their bits in SizeClassAllocator64, and among regions
\* of several classes in SizeClassAllocator32.
ReleasesExactly ==
  /\ subject = "page release" => P!ReleasesExactly /\ P!CountersFit
  /\ subject = "primary32" => R!ReleasesExactly32

\* allocateRegion() neither leaks a region nor gives it to two classes.
RegionsAccounted == subject = "primary32" => R!RegionsAccounted

\* iterateOverBlocks() of SizeClassAllocator32 visits every block.
IterationFindsAll == subject = "primary32" => R!IterationFindsAll

\* getClassIdBySize() finds the smallest class that fits in every map, whose
\* blocks differ from their neighbours in the bit of the odd and even tags, and of
\* which a local cache moves some at once.
SizesFit ==
  subject = "size classes" =>
    LET C == SizeClassMaps[sizeMap] IN
    /\ Z!SmallestThatFits(C, sizeClass)
    /\ Z!NeighboursDiffer(C, sizeClass)
    /\ Z!MovesBlocks(C, sizeClass)
=============================================================================
