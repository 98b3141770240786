------------------------------- MODULE Region --------------------------------
(***************************************************************************)
(* The threads of one region of SizeClassAllocator64: popBlocks() with and *)
(* without the condition variable, pushBlocks(), page release and disable. *)
(* MMLock covers the mapping of the region, FLLock its freelist; both are  *)
(* the abstract locks that HybridMutex implements.  A hold of FLLock in    *)
(* which the thread takes no other lock is one step.  The freelist is a    *)
(* number of blocks here; FreeList has its groups and batches.             *)
(***************************************************************************)
EXTENDS Integers, FiniteSetsExt

CONSTANTS
  Threads,
  NoThread,        \* the owner of a free lock
  RegionSize,      \* sizes are in blocks
  MapSizeIncrement,
  MaxCount,        \* getMaxCached() of the size class
  MaxNumBatches,
  MaxPauses        \* bound: page releases and disable() calls in a behaviour

VARIABLES
  useCV,                 \* conditionVariableEnabled(), never changes
  MMLock, FLLock,        \* their owners; FLLock only from step to step
  free,                  \* blocks in the freelist
  extracted,             \* blocks of the groups that the release of a thread has taken out
  held,                  \* blocks in local caches
  allocated, mapped,     \* AllocatedUser and MappedUser
  exhausted,             \* Exhausted
  reports,               \* how often exhaustion has been reported
  isPopulatingFreeList,
  pc,
  pauses,                \* releases and disables so far
  emptied                \* the freelist was empty at some time since the last refill

locks  == <<MMLock, FLLock>>
list   == <<free, held, emptied>>
memory == <<allocated, mapped, exhausted, reports>>
rest   == <<useCV, pauses>>
vars == <<locks, list, memory, rest, extracted, isPopulatingFreeList, pc>>

(***************************************************************************)
(* popBlocks():   "refill" the freelist was empty                          *)
(*   without CV:  "recheck" owns MMLock                                    *)
(*   with CV:     "claimed" about to lock MMLock    "wait" did not claim   *)
(*                "asleep" in FLLockCV.wait()       "woken" has left it    *)
(*                "finish" owns MMLock, about to clear the claim           *)
(*   both:        "map", "fill" own MMLock, in populateFreeListAnd...()    *)
(* release:       "collect", "merge" own MMLock                            *)
(* disable:       "disabling" owns MMLock, "disabled" both, "enabling"     *)
(***************************************************************************)
Locations ==
  {"idle", "refill", "recheck", "claimed", "wait", "asleep", "woken", "finish",
   "map", "fill", "collect", "merge", "disabling", "disabled", "enabling"}

Goto(t, l) == pc' = [pc EXCEPT ![t] = l]

\* FLLockCV.notifyAll() by t, which goes on at l.
NotifyAll(t, l) ==
  pc' = [u \in Threads |-> IF u = t THEN l ELSE IF pc[u] = "asleep" THEN "woken" ELSE pc[u]]

\* popBlocksImpl(): up to MaxBlockCount blocks, but from one batch only, so any
\* number of them.
popBlocksImpl ==
  \E n \in 1 .. Min({MaxCount, free}) :
    /\ free' = free - n /\ held' = held + n
    /\ emptied' = (emptied \/ free = n)

\* Mutant: the freelist is not looked at.
AssumesEmpty == UNCHANGED list

FindsEmpty == free = 0 /\ UNCHANGED list

Init ==
  /\ useCV \in BOOLEAN
  /\ MMLock = NoThread /\ FLLock = NoThread
  /\ free = 0 /\ held = 0 /\ emptied = TRUE
  /\ extracted = [t \in Threads |-> 0]
  /\ allocated = 0 /\ mapped = 0 /\ exhausted = FALSE /\ reports = 0
  /\ isPopulatingFreeList = FALSE
  /\ pc = [t \in Threads |-> "idle"]
  /\ pauses = 0

\* The first attempt of popBlocks().
Pop(t) ==
  /\ pc[t] = "idle" /\ FLLock = NoThread
  /\ \/ popBlocksImpl /\ UNCHANGED pc
     \/ FindsEmpty /\ Goto(t, "refill")
  /\ UNCHANGED <<locks, memory, rest, extracted, isPopulatingFreeList>>

(***************************************************************************)
(* Without the condition variable.                                         *)
(***************************************************************************)
LockMM(t) ==
  /\ ~useCV /\ pc[t] = "refill"
  /\ MMLock = NoThread /\ MMLock' = t
  /\ Goto(t, "recheck")
  /\ UNCHANGED <<FLLock, list, memory, rest, extracted, isPopulatingFreeList>>

RegionIsExhausted == exhausted

Recheck(t) ==
  /\ pc[t] = "recheck" /\ FLLock = NoThread
  /\ \/ popBlocksImpl /\ MMLock' = NoThread /\ Goto(t, "idle")
     \/ FindsEmpty /\ RegionIsExhausted /\ MMLock' = NoThread /\ Goto(t, "idle")
     \/ FindsEmpty /\ ~RegionIsExhausted /\ UNCHANGED MMLock /\ Goto(t, "map")
  /\ UNCHANGED <<FLLock, memory, rest, extracted, isPopulatingFreeList>>

(***************************************************************************)
(* With it, popBlocksWithCV().                                             *)
(***************************************************************************)
\* Mutant: the flag is not looked at.
ClaimsAlways == "claimed"

AfterClaim == IF isPopulatingFreeList THEN "wait" ELSE "claimed"

Claim(t) ==
  /\ useCV /\ pc[t] = "refill" /\ FLLock = NoThread
  /\ isPopulatingFreeList' = TRUE
  /\ Goto(t, AfterClaim)
  /\ UNCHANGED <<locks, list, memory, rest, extracted>>

\* Mutant: a thread that finds the region exhausted keeps its claim.
KeepsClaim == IF RegionIsExhausted THEN "claimed" ELSE "map"

AfterLockMM == IF RegionIsExhausted THEN "finish" ELSE "map"

LockMMClaimed(t) ==
  /\ pc[t] = "claimed"
  /\ MMLock = NoThread /\ MMLock' = t
  /\ Goto(t, AfterLockMM)
  /\ UNCHANGED <<FLLock, list, memory, rest, extracted, isPopulatingFreeList>>

\* The claim is given up and everybody woken in one hold of FLLock.
Finish(t) ==
  /\ pc[t] = "finish" /\ FLLock = NoThread
  /\ isPopulatingFreeList' = FALSE
  /\ NotifyAll(t, "idle")
  /\ MMLock' = NoThread
  /\ UNCHANGED <<FLLock, list, memory, rest, extracted>>

Wait(t) ==
  /\ pc[t] = "wait" /\ FLLock = NoThread
  /\ \/ popBlocksImpl /\ Goto(t, "idle")
     \/ FindsEmpty /\ Goto(t, IF isPopulatingFreeList THEN "asleep" ELSE "refill")
  /\ UNCHANGED <<locks, memory, rest, extracted, isPopulatingFreeList>>

\* A signal ends FUTEX_WAIT, and ConditionVariableDummy waits for nobody.
WakeSpuriously(t) ==
  /\ pc[t] = "asleep"
  /\ Goto(t, "woken")
  /\ UNCHANGED <<locks, list, memory, rest, extracted, isPopulatingFreeList>>

Woken(t) ==
  /\ pc[t] = "woken" /\ FLLock = NoThread
  /\ \/ popBlocksImpl /\ Goto(t, "idle")
     \/ FindsEmpty /\ Goto(t, "refill")
  /\ UNCHANGED <<locks, memory, rest, extracted, isPopulatingFreeList>>

(***************************************************************************)
(* populateFreeListAndPopBlocks().                                         *)
(***************************************************************************)
\* Where a populator goes that is done, and the owner of MMLock then.
Return(t) ==
  IF useCV THEN Goto(t, "finish") /\ UNCHANGED MMLock
           ELSE Goto(t, "idle") /\ MMLock' = NoThread

MapSize == MapSizeIncrement
             * ((allocated + MaxCount - mapped + MapSizeIncrement - 1) \div MapSizeIncrement)

\* The part before FLLock: map more of the region, if necessary.
Map(t) ==
  /\ pc[t] = "map"
  /\ \/ /\ allocated + MaxCount =< mapped
        /\ Goto(t, "fill") /\ UNCHANGED <<memory, MMLock>>
     \/ /\ allocated + MaxCount > mapped
        /\ mapped + MapSize > RegionSize
        /\ exhausted' = TRUE /\ reports' = reports + 1
        /\ Return(t) /\ UNCHANGED <<allocated, mapped>>
     \/ /\ allocated + MaxCount > mapped
        /\ mapped + MapSize =< RegionSize
        /\ \/ mapped' = mapped + MapSize /\ Goto(t, "fill") /\ UNCHANGED MMLock
           \/ Return(t) /\ UNCHANGED mapped   \* remap() fails
        /\ UNCHANGED <<allocated, exhausted, reports>>
  /\ UNCHANGED <<FLLock, list, rest, extracted, isPopulatingFreeList>>

\* Mutant: not cut by what is mapped.
NumberOfBlocksUncut == MaxNumBatches * MaxCount

NumberOfBlocks == Min({MaxNumBatches * MaxCount, mapped - allocated})

\* The part under FLLock: push the new blocks, and pop from what is there.
Fill(t) ==
  /\ pc[t] = "fill" /\ FLLock = NoThread
  /\ \E n \in 1 .. Min({MaxCount, free + NumberOfBlocks}) :
       /\ free' = free + NumberOfBlocks - n
       /\ held' = held + n
       /\ emptied' = (free' = 0)
  /\ allocated' = allocated + NumberOfBlocks
  /\ Return(t)
  /\ UNCHANGED <<FLLock, mapped, exhausted, reports, rest, extracted, isPopulatingFreeList>>

(***************************************************************************)
(* pushBlocks(), releaseToOS() and tryReleaseToOS(), disable() and enable().*)
(***************************************************************************)
NotifyAndGoto(t, l) == IF useCV THEN NotifyAll(t, l) ELSE Goto(t, l)

Pushable == Min({MaxCount, held})

Push(t) ==
  /\ pc[t] = "idle" /\ FLLock = NoThread
  /\ \E n \in 1 .. Pushable : free' = free + n /\ held' = held - n
  /\ NotifyAndGoto(t, "idle")
  /\ UNCHANGED <<locks, memory, rest, extracted, isPopulatingFreeList, emptied>>

StartRelease(t) ==
  /\ pc[t] = "idle" /\ pauses < MaxPauses
  /\ MMLock = NoThread /\ MMLock' = t
  /\ Goto(t, "collect")
  /\ pauses' = pauses + 1
  /\ UNCHANGED <<FLLock, list, memory, useCV, extracted, isPopulatingFreeList>>

\* Mutant: MMLock is released together with FLLock.
CollectUnlocks(t, n) == MMLock' = NoThread /\ Goto(t, IF n = 0 THEN "idle" ELSE "merge")

\* Without groups that are worth it the release is over.
AfterCollect(t, n) ==
  IF n = 0 THEN MMLock' = NoThread /\ Goto(t, "idle")
           ELSE UNCHANGED MMLock /\ Goto(t, "merge")

Collect(t) ==
  /\ pc[t] = "collect" /\ FLLock = NoThread
  /\ \E n \in 0 .. free :
       /\ extracted' = [extracted EXCEPT ![t] = n] /\ free' = free - n
       /\ emptied' = (emptied \/ free = n)
       /\ AfterCollect(t, n)
  /\ UNCHANGED <<FLLock, held, memory, rest, isPopulatingFreeList>>

\* After the pages are released, without FLLock.
MergeGroupsToReleaseBack(t) ==
  /\ pc[t] = "merge" /\ FLLock = NoThread
  /\ free' = free + extracted[t] /\ extracted' = [extracted EXCEPT ![t] = 0]
  /\ MMLock' = NoThread
  /\ NotifyAndGoto(t, "idle")
  /\ UNCHANGED <<FLLock, held, memory, rest, isPopulatingFreeList, emptied>>

Disable(t) ==
  /\ \/ /\ pc[t] = "idle" /\ pauses < MaxPauses /\ pauses' = pauses + 1
        /\ MMLock = NoThread /\ MMLock' = t
        /\ Goto(t, "disabling") /\ UNCHANGED FLLock
     \/ /\ pc[t] = "disabling"
        /\ FLLock = NoThread /\ FLLock' = t
        /\ Goto(t, "disabled") /\ UNCHANGED <<MMLock, pauses>>
  /\ UNCHANGED <<list, memory, useCV, extracted, isPopulatingFreeList>>

Enable(t) ==
  /\ \/ /\ pc[t] = "disabled" /\ FLLock' = NoThread
        /\ Goto(t, "enabling") /\ UNCHANGED MMLock
     \/ /\ pc[t] = "enabling" /\ MMLock' = NoThread
        /\ Goto(t, "idle") /\ UNCHANGED FLLock
  /\ UNCHANGED <<list, memory, rest, extracted, isPopulatingFreeList>>

\* The steps that a thread takes inside a call.
Steps(t) ==
  \/ LockMM(t) \/ Recheck(t)
  \/ Claim(t) \/ LockMMClaimed(t) \/ Finish(t) \/ Wait(t) \/ Woken(t)
  \/ Map(t) \/ Fill(t)
  \/ Collect(t) \/ MergeGroupsToReleaseBack(t)
  \/ (pc[t] # "idle" /\ Disable(t)) \/ Enable(t)

Next ==
  \E t \in Threads : Steps(t) \/ Pop(t) \/ Push(t) \/ StartRelease(t)
                       \/ (pc[t] = "idle" /\ Disable(t)) \/ WakeSpuriously(t)

\* A thread inside a call is eventually run, but no thread has to call, and no
\* particular one of those at a lock has to get it.
Spec == Init /\ [][Next]_vars /\ \A t \in Threads : WF_vars(Steps(t))
-----------------------------------------------------------------------------
TypeOK ==
  /\ useCV \in BOOLEAN
  /\ {MMLock, FLLock} \subseteq Threads \cup {NoThread}
  /\ {free, held, allocated, mapped, pauses, reports} \subseteq Nat
  /\ extracted \in [Threads -> Nat]
  /\ {exhausted, isPopulatingFreeList, emptied} \subseteq BOOLEAN
  /\ pc \in [Threads -> Locations]

\* Whatever races there are, populate, release and the callers of pop and push
\* neither lose nor double a block, no block lies outside what is mapped nor
\* that outside the region.  "Can't populate more pages" is reported when the
\* region turns out to be exhausted, not again by the threads that are on their
\* way by then (popBlocks, releaseToOSMaybe).
BlocksConserved ==
  /\ \A t \in Threads : extracted[t] # 0 => free + extracted[t] + held = allocated
  /\ (\A t \in Threads : extracted[t] = 0) => free + held = allocated
  /\ allocated =< mapped /\ mapped =< RegionSize
  /\ reports = IF exhausted THEN 1 ELSE 0

\* MMLock and FLLock do what they are for: the region grows only while no release
\* has groups of it, whose blocks would not be seen as free.
GrowsOnlyWhole == [][mapped' # mapped => \A t \in Threads : extracted[t] = 0]_vars

Populators == {t \in Threads : pc[t] \in {"claimed", "map", "fill", "finish"}}

\* "We only expect one thread doing the freelist refillment", which the flag
\* stands for, and "the threads about to sleep will notice the status change":
\* nobody sleeps in FLLockCV.wait() unless a populator is there that will call
\* notifyAll().
OnePopulator ==
  /\ Cardinality(Populators) =< 1
  /\ useCV => (isPopulatingFreeList <=> Populators # {})
  /\ ~isPopulatingFreeList => \A t \in Threads : pc[t] # "asleep"

\* A sleeper of FLLockCV.wait() always wakes up, and every hold of MMLock ends,
\* so that HybridMutex lets in one of those that want to populate, release or
\* disable; provided that a disabled allocator is enabled again.
WaitersProceed ==
  \A t \in Threads : /\ pc[t] = "asleep" ~> pc[t] # "asleep"
                     /\ MMLock = t ~> MMLock # t

\* The comment in popBlocks(): "we only want one of them to call
\* populateFreeListAndPopBlocks()" of threads that found the freelist empty: a
\* thread starts to populate only if the freelist was empty since the last time.
\* popBlocksWithCV() does not look at the freelist between the claim and
\* populateFreeListAndPopBlocks(), so that there it may not be empty any more.
RefilledOnce ==
  [][~useCV => \A t \in Threads : pc[t] # "map" /\ pc'[t] = "map" => emptied]_vars
=============================================================================
