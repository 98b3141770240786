------------------------------ MODULE MCRegion -------------------------------
(* Three threads and a region of seven blocks that is mapped three at a    *)
(* time and populated by at most four: the first refill gets less than a   *)
(* full one because of what is mapped, and a later one exhausts the region *)
(* with a block to spare.  What Region shares names of with the locks that *)
(* it stands on, has names of its own here.                                *)
EXTENDS Integers

CONSTANTS
  Callers, NoCaller, RegionSize, MapSizeIncrement, MaxCount, MaxNumBatches, MaxPauses

\* The sizes are positive; a region need not be a multiple of the increment.
ASSUME RegionAssumption ==
  /\ NoCaller \notin Callers
  /\ {RegionSize, MapSizeIncrement, MaxCount, MaxNumBatches} \subseteq Nat \ {0}
  /\ MaxPauses \in Nat

VARIABLES
  useCV, MMLock, FLLock, free, extracted, held, allocated, mapped, exhausted, reports,
  isPopulatingFreeList, regionPc, pauses, emptied

Primary == INSTANCE Region WITH Threads <- Callers, NoThread <- NoCaller, pc <- regionPc

RegionSpec == Primary!Spec
-----------------------------------------------------------------------------
\* Refills, releases and callers neither lose nor double a block of a region.
BlocksConserved == Primary!BlocksConserved

\* One thread refills at a time, and nobody sleeps without it.
OnePopulator == Primary!OnePopulator

\* The region grows only while no release has groups of it.
GrowsOnlyWhole == Primary!GrowsOnlyWhole

\* popBlocks() populates only if the freelist was empty since the last time.
RefilledOnce == Primary!RefilledOnce

\* A sleeper of FLLockCV.wait() wakes up, and every hold of MMLock ends.
WaitersProceed == Primary!WaitersProceed
=============================================================================
