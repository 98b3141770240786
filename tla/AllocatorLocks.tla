---------------------------- MODULE AllocatorLocks ----------------------------
(***************************************************************************)
(* The locks of the whole allocator.  An operation is reduced to what it   *)
(* does to locks: a sequence of steps, one for every lock(), tryLock() and *)
(* unlock(), for every choice that other state makes in the code, and for  *)
(* the fork() between disable() and enable().  Every function of the code  *)
(* that locks something is such a sequence, put together from those of the *)
(* functions it calls.  The condition variable of a region is in Region.   *)
(***************************************************************************)
EXTENDS Integers, Sequences

CONSTANTS
  Threads,
  NoThread,     \* the owner of a free lock
  NumTSDs,      \* TSDs of a shared registry
  NumClasses    \* size classes, the batch class (0) aside

VARIABLES
  shared,   \* the registry is a TSDRegistrySharedT, never changes
  owner,    \* of every lock
  todo      \* what is left of the operation of a thread

vars == <<shared, owner, todo>>

Classes == 1 .. NumClasses
BatchClassId == 0
AllClasses == 0 .. NumClasses

TSDs == 1 .. NumTSDs

TSDLock(i) == <<"TSD", i>>
MM(c) == <<"MMLock", c>>
FL(c) == <<"FLLock", c>>
Single(name) == <<name, 0>>
Registry == Single("Mutex")
MutexTSDs == Single("MutexTSDs")
Stats == Single("GlobalStats")
Buffers == Single("BufferPool")
Recycle == Single("RecycleMutex")
QCache == Single("CacheMutex")
Secondary == Single("MapAllocator")
Cache == Single("MapAllocatorCache")
RingInit == Single("RingBufferInit")
Depot == Single("RingEndMu")

Locks ==
  {TSDLock(i) : i \in TSDs} \cup {MM(c) : c \in AllClasses} \cup {FL(c) : c \in AllClasses}
    \cup {Registry, MutexTSDs, Stats, Buffers, Recycle, QCache, Secondary, Cache,
          RingInit, Depot}

(***************************************************************************)
(* Sequences of steps.                                                     *)
(***************************************************************************)
Nothing == <<>>
Does(op, l) == <<[op |-> op, lock |-> l]>>
Holding(l, a) == Does("lock", l) \o a \o Does("unlock", l)
Briefly(l) == Holding(l, Nothing)

\* One of the sequences in A.
OneOf(A) == <<[op |-> "choose", among |-> A]>>
Maybe(a) == OneOf({Nothing, a})

\* a, which unlocks l, is left out when tryLock() fails.
Trying(l, a) == <<[op |-> "try", lock |-> l, then |-> a]>>

\* for (I = from; I <= to; I++) body[I];
Loop(body, from, to) ==
  LET upTo[i \in from - 1 .. to] == IF i < from THEN Nothing ELSE upTo[i - 1] \o body[i]
  IN  upTo[to]

(***************************************************************************)
(* Primary64.                                                              *)
(***************************************************************************)
pushBatchClassBlocks == Briefly(FL(BatchClassId))

\* A refill of the batch class pushes its blocks in one hold of FLLock.
popBatchClassBlocks ==
  Briefly(FL(BatchClassId)) \o
    Maybe(Holding(MM(BatchClassId), Briefly(FL(BatchClassId)) \o Maybe(Briefly(FL(BatchClassId)))))

\* pushBlocksImpl() takes a batch or a group from the batch class when it must.
pushBlocks(c) == Holding(FL(c), Maybe(popBatchClassBlocks))

\* popBlocksImpl() gives back a batch or a group that it has emptied.
popBlocksImpl(c) == Holding(FL(c), Maybe(pushBatchClassBlocks))

populateFreeListAndPopBlocks(c) == Holding(FL(c), Maybe(popBatchClassBlocks))

popBlocks(c) ==
  popBlocksImpl(c) \o
    Maybe(Holding(MM(c), popBlocksImpl(c) \o Maybe(populateFreeListAndPopBlocks(c))))

\* The page map has its buffer from getBuffer() and gives it back at the end.
releaseToOSMaybe(c) ==
  Briefly(FL(c)) \o
    Maybe(Briefly(Buffers) \o Holding(FL(c), Maybe(pushBatchClassBlocks)) \o Briefly(Buffers))

tryReleaseToOS(c) == Trying(MM(c), releaseToOSMaybe(c) \o Does("unlock", MM(c)))

PrimaryReleaseToOS ==
  Loop([c \in Classes |-> Holding(MM(c), releaseToOSMaybe(c))], 1, NumClasses)

PrimaryGetStats ==
  Loop([c \in AllClasses |-> Briefly(MM(c)) \o Briefly(FL(c))], 0, NumClasses)
    \o Loop([c \in AllClasses |-> Holding(MM(c), Briefly(FL(c)))], 0, NumClasses)

\* getFragmentationInfo() and getMemoryGroupFragmentationInfo().
getFragmentationInfo ==
  Loop([c \in Classes |-> Holding(MM(c), releaseToOSMaybe(c) \o Briefly(FL(c)))], 1, NumClasses)

LockRegion(c) == Does("lock", MM(c)) \o Does("lock", FL(c))

\* Mutant: the classes in the order of their numbers.
PrimaryDisableInOrder ==
  Loop([c \in AllClasses |-> LockRegion(c)], 0, NumClasses)

\* The classes from the last down, and the batch class behind all of them.
PrimaryDisable ==
  Loop([i \in Classes |-> LockRegion(NumClasses + 1 - i)], 1, NumClasses) \o LockRegion(BatchClassId)

PrimaryEnable ==
  Loop([c \in AllClasses |-> Does("unlock", FL(c)) \o Does("unlock", MM(c))], 0, NumClasses)

(***************************************************************************)
(* The local cache of a TSD.                                               *)
(***************************************************************************)
cacheAllocate(c) == Maybe(popBlocks(c))
cacheDeallocate(c) == Maybe(pushBlocks(c))
cacheDrain == Loop([c \in Classes |-> cacheDeallocate(c)], 1, NumClasses) \o Maybe(pushBatchClassBlocks)

(***************************************************************************)
(* Quarantine.  Its batches and the chunks in it are of class 1.           *)
(***************************************************************************)
doRecycle == cacheDeallocate(1)
recycle == Briefly(QCache) \o Does("unlock", Recycle) \o doRecycle
drain == Briefly(QCache) \o Maybe(Trying(Recycle, recycle))
drainAndRecycle == Briefly(QCache) \o Does("lock", Recycle) \o recycle
put == cacheAllocate(1) \o Maybe(drain)

(***************************************************************************)
(* The TSD registries.  A thread of the exclusive registry needs no lock   *)
(* for a TSD of its own; TSD 1 stands for FallbackTSD.                     *)
(***************************************************************************)
ScopedTSD(s, a) ==
  IF s THEN Maybe(Briefly(MutexTSDs)) \o OneOf({Holding(TSDLock(i), a) : i \in TSDs})
  ELSE OneOf({a, Holding(TSDLock(1), a)})

initThread(s) ==
  IF s THEN Holding(Registry, Maybe(Briefly(Stats) \o Briefly(MutexTSDs)))
  ELSE Holding(Registry, Maybe(Briefly(Stats))) \o Maybe(Briefly(Stats))

commitBack == drain \o cacheDrain \o Briefly(Stats)

drainCache == drainAndRecycle \o cacheDrain

drainCaches(s) ==
  IF s THEN Holding(MutexTSDs, Loop([i \in TSDs |-> Holding(TSDLock(i), drainCache)], 1, NumTSDs))
  ELSE drainCache \o Holding(TSDLock(1), drainCache)

RegistryGetStats(s) ==
  IF s THEN Holding(MutexTSDs, Loop([i \in TSDs |-> Briefly(TSDLock(i))], 1, NumTSDs))
  ELSE Nothing

RegistrySetOption(s) == IF s THEN Briefly(MutexTSDs) ELSE Nothing

RegistryTSDs(s) == IF s THEN NumTSDs ELSE 1

RegistryDisable(s) ==
  Does("lock", Registry) \o Loop([i \in TSDs |-> Does("lock", TSDLock(i))], 1, RegistryTSDs(s))

RegistryEnable(s) ==
  Loop([i \in TSDs |-> Does("unlock", TSDLock(RegistryTSDs(s) + 1 - i))], 1, RegistryTSDs(s))
    \o Does("unlock", Registry)

(***************************************************************************)
(* The allocator.                                                          *)
(***************************************************************************)
insertStack == Briefly(Depot)

\* Class c first; when it is exhausted the next larger ones, then the Secondary.
allocate(s, c) ==
  ScopedTSD(s, Loop([d \in Classes |-> cacheAllocate(d)], c, NumClasses))
    \o Maybe(Briefly(Cache) \o Maybe(Briefly(Secondary))) \o Maybe(insertStack)

deallocate(s, c) ==
  Maybe(insertStack) \o
    OneOf({ScopedTSD(s, put), ScopedTSD(s, cacheDeallocate(c)) \o Maybe(tryReleaseToOS(c))})

SecondaryAllocate == Briefly(Cache) \o Briefly(Secondary)

store == Briefly(Cache) \o Maybe(Trying(Cache, Does("unlock", Cache)))

SecondaryDeallocate == Briefly(Secondary) \o Maybe(store)

releaseToOS(s) == Maybe(drainCaches(s)) \o PrimaryReleaseToOS \o Briefly(Cache)

getStats(s) ==
  PrimaryGetStats \o Holding(Secondary, Briefly(Cache)) \o Briefly(QCache) \o RegistryGetStats(s)

initRingBufferMaybe == Briefly(RingInit)

\* Mutant: the Secondary locks its blocks but not its cache.
SecondaryDisableHalf == Does("lock", Secondary)

SecondaryDisable == Does("lock", Secondary) \o Does("lock", Cache)
SecondaryEnable == Does("unlock", Cache) \o Does("unlock", Secondary)

\* The ring buffer, and RingEndMu with it, has been set up.
disable(s) ==
  RegistryDisable(s) \o Does("lock", Stats) \o Does("lock", Recycle) \o Does("lock", QCache)
    \o PrimaryDisable \o SecondaryDisable \o Does("lock", RingInit) \o Does("lock", Depot)

enable(s) ==
  Does("unlock", Depot) \o Does("unlock", RingInit) \o SecondaryEnable \o PrimaryEnable
    \o Does("unlock", QCache) \o Does("unlock", Recycle) \o Does("unlock", Stats) \o RegistryEnable(s)

fork(s) == disable(s) \o <<[op |-> "fork"]>> \o enable(s)

Operations(s) ==
  {initThread(s), SecondaryAllocate, SecondaryDeallocate, releaseToOS(s), getStats(s),
   getFragmentationInfo, RegistrySetOption(s), initRingBufferMaybe, fork(s)}
    \cup {allocate(s, c) : c \in Classes} \cup {deallocate(s, c) : c \in Classes}
    \cup IF s THEN {} ELSE {commitBack}

(***************************************************************************)
(* The threads.                                                            *)
(***************************************************************************)
Init ==
  /\ shared \in BOOLEAN
  /\ owner = [l \in Locks |-> NoThread]
  /\ todo = [t \in Threads |-> Nothing]

Begin(t) ==
  /\ todo[t] = Nothing
  /\ \E o \in Operations(shared) : todo' = [todo EXCEPT ![t] = o]
  /\ UNCHANGED <<shared, owner>>

At(t, op) == todo[t] # Nothing /\ Head(todo[t]).op = op
Now(t) == Head(todo[t])
Continue(t, s) == todo' = [todo EXCEPT ![t] = s \o Tail(@)]

Choose(t) ==
  /\ At(t, "choose")
  /\ \E a \in Now(t).among : Continue(t, a)
  /\ UNCHANGED <<shared, owner>>

\* A choice is the thread's own affair, so it comes before any other step.
Settled == \A t \in Threads : ~At(t, "choose")

Lock(t) ==
  /\ Settled /\ At(t, "lock") /\ owner[Now(t).lock] = NoThread
  /\ owner' = [owner EXCEPT ![Now(t).lock] = t]
  /\ Continue(t, Nothing) /\ UNCHANGED shared

TryLock(t) ==
  /\ Settled /\ At(t, "try")
  /\ \/ /\ owner[Now(t).lock] = NoThread
        /\ owner' = [owner EXCEPT ![Now(t).lock] = t]
        /\ Continue(t, Now(t).then)
     \/ /\ owner[Now(t).lock] # NoThread
        /\ Continue(t, Nothing) /\ UNCHANGED owner
  /\ UNCHANGED shared

Unlock(t) ==
  /\ Settled /\ At(t, "unlock")
  /\ owner' = [owner EXCEPT ![Now(t).lock] = NoThread]
  /\ Continue(t, Nothing) /\ UNCHANGED shared

Fork(t) == Settled /\ At(t, "fork") /\ Continue(t, Nothing) /\ UNCHANGED <<shared, owner>>

Next == \E t \in Threads : Begin(t) \/ Choose(t) \/ Lock(t) \/ TryLock(t) \/ Unlock(t) \/ Fork(t)

Spec == Init /\ [][Next]_vars

(***************************************************************************)
(* Properties.                                                             *)
(***************************************************************************)
WaitsFor(t, u) == At(t, "lock") /\ owner[Now(t).lock] = u

\* No threads wait for each other in a circle, whatever locks the operations of
\* the registry, the quarantine, the primary, the secondary and the ring buffer
\* take inside each other, and none waits for a lock of its own.
NoWaitCycle ==
  \A S \in (SUBSET Threads) \ {{}} : \E t \in S : ~\E u \in S : WaitsFor(t, u)

\* What the threads that do not live on in a child of fork() have locked.
LeftLocked == {l \in Locks : \E t, u \in Threads : t # u /\ At(t, "fork") /\ owner[l] = u}

\* MutexTSDs apart, disable() has taken or waited for every lock, those inside
\* others included, so that a child of fork() finds none locked by a thread it
\* does not have.
ForkSafe == LeftLocked \subseteq {MutexTSDs}

\* A child of fork() finds no lock taken by a thread it does not have.
NothingLeftLocked == LeftLocked = {}
=============================================================================
