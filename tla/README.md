# A specification of the Scudo allocator with Zimte memory tagging

`src/LLVM_SCUDO_MTE` is LLVM's Scudo allocator, ported to RISC-V with the Zimte
memory tagging extension. These modules describe the parts of it in which threads
meet, locks are dropped and taken again, or one piece of state has to agree with
another over many operations, and the algorithms that these parts stand on. TLC checks
the modules on small instances; for the mutex, the condition variable, the quarantine,
the tagged chunks, the threads of a region, the secondary and its cache, the two TSD
registries, the stack depot and the ring buffer TLAPS proves the safety properties of the
runs for every number of threads and every size.

The rest of the repository (`src/scripts`, `src/docs`, `src/tests`) builds a
toolchain and has no logic of its own to check.

Contents: [the system](#1-the-system) · [the modules](#2-the-modules) ·
[what the runs show](#3-what-the-runs-show) · [fairness](#4-fairness) ·
[proofs](#5-proofs) · [disagreements](#6-where-the-code-and-its-comments-disagree) ·
[not modelled](#7-what-is-not-modelled) · [plan](#8-plan)

## 1. The system

A request goes down, a free goes back up:

```
  malloc / free wrappers           wrappers_c.inc, wrappers_cpp.cpp
          |
  Allocator                        combined.h   headers, tags, options
     |         |          |
     |    TSD registry    |        tsd_shared.h, tsd_exclusive.h
     |      TSD: local    |
     |      caches, quarantine cache
     |         |          |
  Quarantine   |      Secondary    quarantine.h, secondary.h: mappings and their cache
     |         |          |
     +--> Primary64       |        primary64.h: regions, freelists, page release
               |          |
            MemMap (mmap, mprotect, madvise)      mem_map*.{h,cpp}
```

All of it stands on `HybridMutex`, the condition variable, the tag primitives of
`memtag.h`, and small containers.

| Component | State | Operations | Hard part | What makes it correct |
|---|---|---|---|---|
| **HybridMutex** (`mutex.h`, `linux.cpp`) | one futex word | lock, tryLock, unlock | spin, exchange and two-step unlock interleave with futex sleepers | one owner at a time; no sleeper is forgotten |
| **Condition variable** (`condition_variable_linux.*`) | `Counter`, `LastNotifyAll` | wait, notifyAll | a wake is skipped by comparing two wrapping counters | a skipped wake is one nobody needed |
| **Quarantine** (`quarantine.h`) | batches of freed chunks, local and global; two mutexes; limits | put, drain, drainAndRecycle, recycle, disable, enable | drain checks without the lock and may give up; batches merge; fork | every chunk is recycled once, in order; the sizes are exact; the limit is restored |
| **Tag primitives** (`memtag.h`, `memtag_zimte.h`) | memory tags, pointer tags | select, store, load and fix tags | granule rounding, tag zero | see the next row |
| **Combined allocator** (`combined.h`, `chunk.h`) | chunk headers with checksum, `Options`, ring buffer | allocate, deallocate, reallocate, iterate, setOption, disableMemoryTagging | tags survive reuse, resizing in place, page release and the end of tagging | users reach all of their chunk and nothing after it; a header is found through the pointer it was stored through |
| **Primary64** (`primary64.h`) | per class: mapped range, freelist of groups and batches, `MMLock`, `FLLock`, `isPopulatingFreeList`; a batch class that holds the records | popBlocks, pushBlocks, populate, releaseToOS, disable, enable | two locks, refills that race, groups taken out of the list while others push, records kept in free blocks | no block lost or doubled; one refill at a time; a released page has no live block |
| **Secondary** (`secondary.h`) | `InUseBlocks`; the LRU list, `OldestPresentEntry`, a quarantine ring, settings | allocate, deallocate, retrieve, store, releaseToOS, setOption, disableMemoryTagging | eviction outside the lock, settings read at different times, time stamps | a mapping is in one place; users get accessible memory; release bookkeeping is exact |
| **TSD registry, shared** (`tsd_shared.h`) | array of TSDs with their locks and `Precedence`, `NumberOfTSDs`, `CoPrimes`, the TSD of each thread | initThread, getTSDAndLock, setOption, drainCaches, disable, enable | a walk and a drain while the number changes; `initThread` reads it without the lock | a walk tries new TSDs; a drain reaches every TSD in use |
| **TSD registry, exclusive** (`tsd_exclusive.h`) | a TSD and an `InitState` per thread, the fallback TSD, the key's destructor | initThread, getTSDAndLock, teardownThread, drainCaches, disable, enable | destructors run in rounds and other destructors free memory between and after them | a TSD is committed once, after everything that uses it |
| **Local caches, statistics** (`size_class_allocator.h`, `stats.h`) | per class an array of blocks; counters linked into a list | allocate, deallocate, refill, drain, destroy | draining a class takes records from the batch class of the same cache; counters wrap | nothing is left in a destroyed cache; sums are exact |
| **Primary32** (`primary32.h`) | regions by byte map, a stash of regions, a freelist per class | as Primary64, iterateOverBlocks | classes race for regions; unaligned mappings; classes share an address range | regions belong to one class; a release frees the right pages; iteration is complete |
| **Stack depot, ring buffer** (`stack_depot.h`, `combined.h`) | a table and a ring of frames, entries with `Pos` | insert, find; storeRingBufferEntry; getErrorInfo | lock-free readers and writers, laps | a stored trace is found whole; an entry is one record; a stale pointer is explained |
| **Page release map** (`release.h`) | counters per page | mark, release ranges | blocks that cross pages and groups; packed counters | exactly the pages without live blocks are released |
| **Size classes** (`size_class_map.h`) | none | size to class and back | rounding at boundaries, a table of steps | the smallest class that fits; neighbours differ in the tag bit |
| **Lock order** (all) | owner of every lock | every operation, reduced to its locks | a fork needs all of them | no circle of waiting threads; nothing stays locked in a child |
| **Flags, options, checksum, list, vector** | little | pure functions | boundaries | agree with their definition |
| **Reports, wrappers, timing, ports, memory maps** | messages | I/O | none of their own | not applicable |

How they interact. `Allocator::deallocate` stores the header and puts the chunk in
the TSD's quarantine cache; when the cache is full `drain` moves it to the global
quarantine, whose callback returns the blocks to the TSD's local cache, which pushes
half of itself to the primary. A push into a class takes records from the batch
class, with the class's `FLLock` held; a merge after a page release gives records
back. Options are a word that every operation loads once at its start.
`disable()`, called before a fork, takes every lock from the top to the bottom,
`enable()` releases them in the opposite order.

`PROJECT.json` lists every component with its files, and under `hazards` the lines
at which something can go wrong that a unit test would hardly reach.

## 2. The modules

| Module | Models | Used by |
|---|---|---|
| `AbstractLock` | what a mutex promises: at most one owner | `HybridMutex` implements it |
| `HybridMutex` | `HybridMutex` on Linux, one step per atomic access or system call | |
| `ConditionVariable` | `ConditionVariableLinux` | |
| `LockProofs` | theorems about these two and about `Region` | |
| `Quarantine` | `GlobalQuarantine`, `QuarantineCache`, `QuarantineBatch` | |
| `QuarantineProofs` | theorems about it | |
| `Zimte` | the tag primitives, as operators over a block's tags | `TaggedChunk` |
| `TaggedChunk` | `Allocator` as far as tags, headers and pointers go | |
| `TaggedChunkProofs` | theorems about it | |
| `BlockPool` | what a freelist promises: blocks go out, come back, and new ones appear | implemented by the two freelists |
| `BatchGroups` | a freelist of groups and batches as a value: push, pop | `FreeList`, `Primary32` |
| `BatchClassBlocks` | the freelist of the batch class as a value, kept in its own free blocks | `BatchClassList`, `Primary32` |
| `FreeList` | the freelist of a class: populate, push, pop, the groups of a release | `Structures` |
| `BatchClassList` | the freelist of the batch class | `Structures` |
| `PageMap` | `RegionPageMap` and `PageReleaseContext`, as operators | `PageRelease`, `Primary32` |
| `PageRelease` | one page release, from the groups taken out to the ranges given back | `Structures` |
| `Primary32` | `SizeClassAllocator32`: stash, byte map, freelists, page release, iteration | `Structures` |
| `SizeClassMap` | the size class maps, as operators | `Structures` |
| `Region` | the threads of one region: the two locks, refill with and without the condition variable, release, disable | |
| `SecondaryCache` | `MapAllocator` and `MapAllocatorCache` | |
| `SecondaryCacheProofs` | theorems about it | |
| `AllocatorLocks` | every lock of the allocator, under every operation that takes one | `MCThreads` |
| `SharedTSDs` | `TSDRegistrySharedT` | `MCThreads` |
| `ExclusiveTSDs` | `TSDRegistryExT` and the end of a thread | `MCThreads` |
| `LocalCaches` | `SizeClassAllocatorLocalCache`, `LocalStats`, `GlobalStats` over the freelists of a class and of the batch class | `MCThreads` |
| `StackTraces` | `StackDepot`, the ring buffer, and `getErrorInfo` on a snapshot | `MCThreads` |
| `StackTracesProofs` | theorems about it | `ThreadsProofs` |
| `BlockLists` | the freelist of a region and that of the batch class side by side | `Structures` |
| `FreeListProofs` | lemmas about what every operation does to these two | `StructuresProofs` |
| `Structures` | the five subjects on the data structures of the primary, and their properties | `MCStructures` |
| `StructuresProofs` | theorems about `Structures` | |
| `ThreadsProofs` | theorems about `MCThreads`, of the subjects locks, registries and traces | |

An `MC` module and a `.cfg` instantiate a module for TLC. `MCThreads` and `MCStructures`
(by way of `Structures`) instantiate several that share no state: the variable `subject` picks one in the initial
state, and a property speaks of its own subject.

Each mutex is modelled once, in `HybridMutex`. The others use an owner variable that
behaves like `AbstractLock`, and take what is done in one hold of a lock as a single
step when no other lock is taken inside and nothing outside of the lock is touched.
So `FreeList` shows that each critical section is right for every interleaving of
whole sections, and `Region` shows which sections can interleave, with the freelist
reduced to a number of blocks. `FreeList` and `BatchClassList` both refine
`BlockPool`. `LocalCaches` has both freelists, as numbers of blocks, below the caches of
the TSDs, since draining a cache takes records from the batch class of that same cache.
What one operation holds while it takes another lock is the matter of `AllocatorLocks`,
which has nothing but locks. That the free blocks of a group that is out for a release
stay free, as `PageRelease` has it, is what `ImplementsPool` says of `FreeList`.

### Module and code

`PROJECT.json` maps each definition to its lines. What a reader needs beyond it:

**HybridMutex.** `M` is the futex word. `Spin` is `tryLock` in the loop of `lock`
(the loop counter is `tries`), `SlowCAS`, `SlowXchg` and `FutexWait` are the three
accesses of `lockSlow`; `Unlock`, `UnlockStore` and `UnlockWake` are the fetch_sub,
the store and the wake of `unlock`. A signal may end a futex wait at any time.

**ConditionVariable.** `V` is the local copy of the counter in both calls;
`notified` is a history variable with the waiters that a `notifyAll` has come after.
`Modulus` stands for 2^32.

**Quarantine.** A worker is the thread that holds a TSD. `list` and `size` are those
of a `QuarantineCache`, `tmp` is the cache `Tmp` of `recycle`, `current` the rest of
the batch that `doRecycle` is at. `MinSize` is what `init` computes. Batches are
counted because they are allocated chunks too. `TimesQuarantined` and `BatchesQuarantined`
count over the global cache and all workers; `MergeNext` is what one round of the loop of
`mergeBatches` does with a batch and its successor.

**Zimte, TaggedChunk.** A pointer is a block, an offset and a tag. A header has a
state, a size, where the chunk starts, and the tag of the pointer that its checksum
was computed with: the checksum covers the pointer, so a header that is loaded
through a pointer of another tag does not verify. `ReclaimPages` is a page release,
which zeroes memory and tags. Double free and the misuse of pointers are not modelled:
users are correct. Each operation is one step; operations on one chunk are not
concurrent in a correct program, and operations on different chunks share only
the end marker's granule, which belongs to one block.

**FreeList.** A block is its index, a group has its base, its list of batches and
the checkpoint of its bytes. `Collect` is `collectGroupsToRelease`, for which the
conditions on density and bytes are the code's; `CollectAll` is `ForceAll`. `records`
counts blocks of the batch class.

**BatchClassList.** A batch has the block it lives in and the blocks it lists, the
last batch also the block of the only group. Which block becomes a record and which batch
lists it is translated step by step, since this is where a record can end up in a block
that is handed out.

**Region.** `pc` names the place of a thread between two lock operations; the table in
the module says which locks are owned where. `emptied` is a history variable.

**PageMap, PageRelease.** Addresses are offsets in a region. A context is a record of what
`PageReleaseContext` computes; a page map is a function to counters. `Start` takes any
groups and any free blocks as they are at the end of `collectGroupsToRelease`,
`MarkGroup` is one round of the loop of `markFreeBlocks`, `ProcessNextPage` one call of
`FreePagesRangeTracker`.

**Primary32.** A class is a process, because its lock is held throughout; `pc` is its place in
`allocateRegion`. `mapped` counts half regions, as a mapping may begin in the middle
of one. The blocks that a class hands out are in `held`.

**AllocatorLocks.** A thread's `todo` is the rest of its operation: a sequence of lock,
tryLock, unlock, a choice between sequences, and the `fork()` between `disable` and
`enable`. Each operator is the lock skeleton of the function of that name; a branch that
depends on other state is `Maybe` or `OneOf`. `shared` picks the registry.

**SharedTSDs.** `Precedence` is a time stamp or zero. `StartWalk` takes any first index and
any co-prime, since the code derives both from a time stamp. `NumberOfTSDs = 0` stands
for `Initialized = false`.

**ExclusiveTSDs.** The rounds of thread-specific destructors are those of the C library, with one
more key whose destructor allocates, frees and may set itself again. `phase` "late" is
after the last round, when the library itself may still free. `lateInit` is a ghost.

**LocalCaches.** A step is a whole operation under the lock of the TSD; `Work` is the state
that is passed from call to call inside of it. One class stands for all, next to the batch
class. `StatMod` is the modulus of a counter.

**StackTraces.** One step for each shared access in program order. `stored`, `made` and
`mixed` are history variables: the traces in the order of insertion, the records made for
entries, the entries that two threads are writing. A member of `stored` has the trace and
the number of frames that were written before it. `find` and `getErrorInfo` are
operators, evaluated in every state: a crash can come at any moment.

**SizeClassMap.** A configuration is a record. `SizeTable` and `LSBTable` are built as
`SizeTable()` and `LSBTable()` build them.

**SecondaryCache.** `size`, `inaccessible`, `dirty` and `time` describe a mapping,
`lru` is `LRUEntries` from front to back; the quarantine is the ring with its
position. An operation keeps the settings that it read in `options`.

## 3. What the runs show

A type invariant is a theorem of its own for three modules (`TypeCorrect`), and a conjunct
of `QuarantinedOnce`, `HeaderAccessible` and `MappedOnce` elsewhere.

Every invariant and property has a mutant in `PROJECT.json`: a definition that maps to
code, replaced by a plausible slip, for which TLC refutes the property.

| Run | Instance | Result |
|---|---|---|
| `mutex` | 3 threads, 1 spin | one owner; some thread inside `lock` gets on; implements `AbstractLock` |
| `condvar` | 3 threads, counter modulo 8 starting at 0 or 6, 5 calls | no wake is skipped that a waiter needs, also across the wrap; a notified waiter returns |
| `quarantine` | 2 TSDs, 4 chunks of two sizes, batches of 2, a forking thread | nothing lost, doubled or reordered; sizes add up; no deadlock with `disable`; a drain that starts with the mutex free restores the limit |
| `tagging` | 2 primary blocks and a secondary one, tags {1, 3}, sizes and alignments in whole granules | users reach their chunk, overflows hit another tag, headers are found, no false report |
| `region` | 3 threads, 7 blocks mapped by 3, at most 2 releases or disables, both with and without the condition variable | blocks conserved, one populator, nobody sleeps or holds the lock for ever |
| `secondary` | 2 threads, 3 mappings of 2 sizes, 2 cache entries, quarantine of 0 or 1, changing settings | each mapping in one place, accessible when in use, `time = 0` means no old data, `OldestPresentEntry` exact |
| `threads` | five subjects with two threads each, see below | no circle of waiting threads, nothing but `MutexTSDs` is left locked by a fork; walks and drains of the shared registry; the end of a thread in the exclusive one; nothing lost between caches and freelists, statistics exact; traces found, entries whole, stale pointers explained |
| `structures` | five subjects, see below | freelists keep their form and their counts and implement `BlockPool`; exactly the right pages are released; regions have one owner and are all visited; sizes fit their classes |
| `tagging_partial_granule`, `tagging_zero_tag`, `secondary_no_entries`, `fork` | as above, with one restriction lifted or a stronger property | see [section 6](#6-where-the-code-and-its-comments-disagree) |

### Bounds, and why they are enough

* **Threads.** The mutex needs three: one that unlocks, one that barges in, one that
  sleeps. So does a region: one that populates, one that sleeps, one that pushes or
  releases. `quarantine` has two workers and the forker. Operations of the secondary
  hold a lock or act on a block of their own, two of them meet pairwise.
* **Spins.** One spin and none differ in nothing but the number of failed tries, which
  the proof covers for any number.
* **The counter of the condition variable.** Eight values and at most five calls: the
  counter cannot go around completely between a thread's read and its futex call. With
  2^32 that would take as many calls while one thread is suspended; the
  assumption `ConstantsAssumption` names this. Start values 0 and 6 put the wrap
  inside and outside of the run.
* **Quarantine.** A local cache overflows after one large or two small chunks, and a third
  batch exceeds the global limit; a recycle can leave something, and two batches can
  fit in one, so they merge, or not.
* **`threads`: locks.** Two threads, two TSDs, two classes and the batch class. A circle needs two
  threads at least; a longer one would need three locks taken in three orders, and here every
  pair of locks that any operation nests appears.
* **`threads`: registries.** An array of four TSDs, of which two are in use at first and up to four
  later; walks of one to four tries. Four rounds of destructors, as in the C library;
  fewer or more only shift the count, and the proof covers every number.
* **`threads`: caches.** Two TSDs, caches and batches of two blocks: one operation then drains and
  refills the batch class several times. `MaxForeign` lets a TSD free one block more than it
  allocated, so its counters wrap.
* **`threads`: traces.** Two recorders and three operations; traces of three and four slots in a depot
  of eight, which the third insertion overwrites; two entries, so the third one laps; three
  neighbouring blocks and two of the secondary.
* **`structures`: freelists.** Seven blocks of 3 bytes in groups of 13, whose boundary cuts a block,
  batches of three. Six blocks of the batch class in batches of three.
* **`structures`: page release.** Pages of 8 bytes, groups of 16, and blocks of 2, 3, 5, 6, 8, 12,
  16 and 20: below, at and above a page and a group, dividing them or not.
* **`structures`: Primary32.** Four regions of two pages, the batch class with a block per region and
  a class with two of which one straddles the pages; mappings aligned or not.
* **`structures`: size classes.** All five maps, every class, and every size of each class.
* **Blocks of a region.** Seven blocks with two groups whose boundary cuts a block,
  batches of three: two full batches and a partial one in a group, both groups partly
  and completely free, populate that fills a group begun before.
* **MaxPauses** bounds releases and disables in `region`, since each can repeat for ever
  and no state depends on how many there were.
* **Tags.** Two usable tags of four, tag 2 being the header's: a chunk can get the tag
  that its block or its neighbour had, or another one, and more tags add no case.
* **Secondary.** Sizes 10 and 11 differ by the tenth that decides between the first fit
  and the best one. The clock has two ticks: enough for newer, older and equal entries.
  The modulus 16 stands for 2^64; a wrapped difference is larger than any time, as in the
  code.

`secondary` runs with `Races = FALSE`: what is excluded is a `setOption` or
`disableMemoryTagging` that comes in the middle of another thread's operation and
takes the ground from under it, as [section 6](#6-where-the-code-and-its-comments-disagree)
describes. Between operations, all settings change freely.

## 4. Fairness

Fairness is assumed only for threads in the middle of something; no thread has to call.

* `mutex`, `condvar`: weak fairness of a thread's next step in `lock`, `unlock`,
  `wait` or `notifyAll`: the kernel runs every runnable thread. No fairness of wakes by
  signals. The mutex itself is not fair to a particular thread, so `LockProgress` says
  that some thread gets it.
* `quarantine`: weak fairness of the steps of a worker inside `drain` or `recycle`, with
  its enabling condition written out in `Runnable` (this is cheaper for TLC than
  ENABLED), and of the forker once it is in `disable`: fork handlers come in pairs.
* `region`: weak fairness of the steps of a thread inside a call. Weak is enough since
  nothing is said of a particular thread that waits for a lock: `WaitersProceed` states
  that sleepers of the condition variable wake, and that every hold of `MMLock` ends.

## 5. Proofs

`LockProofs` has the theorems of both locks and of the region; `MCHybridMutex` and `MCRegion` name the
properties of the mutex and of the region. Of the mutex, for every set of threads and every number of spins:

* `MutexTypeCorrect`: `Spec => []TypeOK`. The content is that the futex word stays one of its
  three values: the fetch_sub of `unlock` does not wrap.
* `Exclusion`: `Spec => []MutualExclusion`.
* `Refinement`: `Spec => ImplementsLock`, so each module that writes a mutex as an owner
  variable uses no more than what `HybridMutex` delivers.

Only `NumberOfTriesAssumption` (a natural number) is assumed. Mutual exclusion is not
inductive alone: a `tryLock` succeeds when `M` is `Unlocked`, whoever owns the mutex. So
the invariant `IInv` adds `WordMatchesOwner`, that `M` is `Unlocked` exactly if there is
no owner, where a thread between the fetch_sub and the store of `unlock` is still an
owner. `unlock` keeps it because its fetch_sub gives `Unlocked` only from `Locked`, and
otherwise the thread stays owner until the store. There is one step per action. The
refinement maps `owners` to the set of threads that own the mutex; each step either adds
one to an empty set, removes one, or stutters.

Of the condition variable it proves, for every set of threads and every width of the
counter, `TypeCorrect` (`Spec => []TypeOK`) and `NothingLost`
(`Spec => []NoLostNotification`). `ConstantsAssumption` matters here: fewer calls are made
than the counter has values. Without it the theorem is false, because the counter could
come back to the `V` of a thread that has not reached FUTEX_WAIT, which is a limit of the
code too (2^32 calls). `NoLostNotification` speaks of the quiet times only; the invariant
`IInv` says what goes on in between, in terms of `Ahead(c, v)`, the increments from `v`
to `c` around the modulus:

* `Recent`: neither `LastNotifyAll` nor the `V` of a waiter is further behind than the
  calls made, so the next increment comes back to neither.
* `WaitersCounted`: a notified waiter is behind the counter, so it does not fall asleep. A
  sleeper has counted past `LastNotifyAll`.
* `NotifyPending`: between its store and FUTEX_WAKE, notifyAll is one ahead of the value
  it compares and everybody in wait has been notified.
* `WakeDue`: who is notified and asleep has a notifyAll before its FUTEX_WAKE.

The last three together give the step at which the system call is skipped: then
`LastNotifyAll` is one behind the counter, and a notified sleeper would have to be strictly
between them.

Of the region it proves, for every set of threads and all sizes of the region, of its
mapping steps and of the caches:

* `RegionTypeCorrect`: `Spec => []TypeOK`, so no count goes below zero.
* `Conservation`: `Spec => []BlocksConserved`, and with it that blocks stay within what is
  mapped and that exhaustion is reported once.
* `SinglePopulator`: `Spec => []OnePopulator`.
* `WholeGrowth` and `RefillJustified`: the action properties `GrowsOnlyWhole` and
  `RefilledOnce`.

Assumed is `RegionAssumption`: the sizes are positive and `NoCaller` is no thread. The
invariant `RegionIInv` adds to the types and to `BlocksConserved` what the locks are for:

* `OwnersMatch`: a thread owns `MMLock` or `FLLock` exactly at the places at which the
  code holds it. Two threads can then not be at such places together.
* `ModeMatches`: each version of `popBlocks` stays at its own places.
* `FlagMatches`: at most one thread is a populator, `isPopulatingFreeList` is set exactly
  while there is one, and nobody sleeps while it is clear. With the condition variable the
  claim is made before `MMLock` is taken, so the lock alone does not give this.
* `PlaceMatches`: blocks are out of the freelist only between the two critical sections of a
  release, and a thread about to map has read `Exhausted` as false. The first is what makes
  `Collect` find all others' `extracted` at zero, the second why exhaustion is reported
  once.
* `EmptinessSeen`: an empty freelist is one that the history variable `emptied` knows of.

TLC has checked `RegionIInv` on the instance of the run `region`. The lemmas `PopMoves`,
`PushMoves` and `FillMoves` say what the freelist operations do to the counts; the step
lemma has a case per action and in it a step per conjunct. Neither fairness nor `MaxPauses`
is used.

`QuarantineProofs` proves, for every finite set of TSDs and any chunks, sizes and limits:

* `OnceInQuarantine`: `Spec => []QuarantinedOnce`. A freed chunk is in one place of the
  quarantine until it is recycled, other chunks in none, and `batches` counts the batches.
* `SizesAreRight`: `Spec => []SizesAddUp`.
* `FirstInFirstOut`: `Spec => Fifo`, the action property.

Assumed is `QuarantineAssumption`: positive sizes of chunks, of a batch and of a cache, and
`Forker` and `NoOwner` are no TSDs. `IInv` has four parts:

* `Types`: in particular every cache is in `SoundCache`. Its batches are non-negative in
  size and in number of chunks, within `MaxCount`, and the size of a batch and of a cache is
  that of what is in it.
* `Phases`: `Tmp` is empty but between the extraction and the end of `doRecycle`, and a batch
  is open only inside `doRecycle`. Without it a worker that begins to recycle could overwrite
  a `Tmp` that still holds chunks.
* `OnePlace`, the count of each chunk over all places, and the equation of `batches`.

Both counts are sums over all TSDs, `SumFunction` of the community modules, and the chunks of
a cache are the `FlattenSeq` of its batches. Both are recursive functions on the inside. The
module unfolds them and derives induction over the naturals as a statement about sets from
`NatLessThanWellFounded` and `WFMin`, so no theorem with an operator parameter is needed. The
same induction gives `mergeBatches`, which is a recursive function in the module:
`MergeSound` says of any cache that merging leaves the sequence of chunks as it was, frees as
many batches as the list gets shorter by, and keeps the batches sound. `DequeueSound`,
`ExtractSound`, `TransferSound` and `EnqueueSound` say what the other calls do to a sound
cache. `Balance` says that a step of one worker changes the sums by what it changes in its own
caches and the global one, and `OnlyMoves` that it keeps `IInv` if that is nothing.

`TaggedChunkProofs` proves, for any number and kind of blocks, any sizes, alignments and
tags:

* `NeverReported`: `Spec => []NoFalseReport`, under `NonzeroTags` (`gentag` never yields zero).
* `LiveChunksAccessible`, `HeadersAccessible` and `OverflowsCaught`, which state `LiveAccessible`,
  `HeaderAccessible` and `OverflowCaught`, under `NonzeroTags` and `WholeGranules` (sizes are
  multiples of a granule, and the tag of a pointer lies where `extractTag` does not look,
  as on Zimte).

The two hypotheses are what the code takes for granted, and
[section 6](#6-where-the-code-and-its-comments-disagree) has a run for the failure of each: they
are needed. The invariant says for each block that it is `Sound`, from four parts. `Placed`:
the chunk lies in its block, behind room for a header. `KeyMatches`: the tag under which
the checksum was computed is the one of the pointer by which the header will be loaded, and
that depends on the user's pointer only, not on whether tagging has been disabled since; this is
why `disableMemoryTagging` cannot make a live header unreadable. `PrimaryTags` and
`SecondaryTags`: which tags the granules hold, in particular zero in front of the chunk and
behind it, also in a free block that a page release has not touched, as the next chunk relies
on the first granule. The lemmas `PreparedTags` and `ResizedTags` compute what
`prepareTaggedChunk` and `resizeTaggedChunk` leave behind, granule by granule.

`SecondaryCacheProofs` proves, for every set of threads, of mappings, of sizes and settings,
and for settings that do not change in the middle of an operation (`~Races`):

* `PlacedOnce` (`MappedOnce`), `UsersMayAccess` (`InUseAccessible`), `NothingLeftInReleased`
  (`ReleasedIsZero`) and `WalkStartsAtOldest` (`OldestMarked`).
* `NeverPopsEmptyWithoutRaces`: `NeverPopsEmpty`, which the run `secondary_no_entries` refutes
  with `Races`. So such a change of settings is the only way to it.

Assumed is `SecondaryCacheAssumption`, the types of the constants. `IInv` is:

* `Control`: where a thread has a mapping in its hands, and that the options it has read are
  still those of the allocator, which is what `~Races` gives.
* `Places`: a mapping is in `InUseBlocks`, the cache, the ring or one thread's hands.
* `Access`: which mappings are inaccessible, and none once tagging is being disabled.
* `Times`: no time stamp is ahead of the clock, and zero means released; with tagging and an
  interval of zero nothing but zeros waits, which `OldestMarked` needs.
* `RingOrder` and `CacheOrder`: the quarantine ring, read from its position, is in the order
  of time, no entry of it is older than the cache, and the cache is in the order of time with
  `OldestPresentEntry` the last that is not zero. What leaves the ring can then go to the
  front of the list.

`StackTracesProofs` proves, for any number of writers, any sizes of the ring buffer, of the
ring and of the table, and any traces:

* `WholeEntries`: `Spec => []EntriesWhole`.
* `StoredAreFound`: `Spec => []StoredFound`.
* `FreedAreReported`: `Spec => []FreedIsReported`, for any blocks, tags and number of reports.

`BuffersAssumption` says that the buffers are not empty, that threads are numbered from one
and that each trace has an index in the table. `BufferIInv` follows the single writer of an entry
step by step (`EntriesInProgress`): from the store that clears `Ptr` to the one that
publishes it the fields are those of its record so far, unless a second writer is at the same
entry, which `WritersMarked` records. `DepotIInv` has `RingIntact`, that the marker and the
frames of a trace are in the ring until what was written since reaches around to it, the
part of a trace being written included, and `TabPoints`, that the table points to the last
trace of its index; `DepotLocked` and `StoredInOrder` place the insertion in progress behind
all others. As everywhere, the stores take effect in program order.

`FreedAreReported` needs `ReportsAssumption` too: the blocks are numbered, there is a report to
fill, and `WordMod` is a multiple of the number of entries. Otherwise `Pos` wraps around into
another slot and `getRingBufferErrorInfo`, which counts down from it, does not meet the entries
in the order of age. The default of 32768 entries divides 2^64; `allocation_ring_buffer_size`
may be set to numbers that do not. The argument: an entry is a record as it was made
(`EntriesWhole`), and one of a block of the primary is a deallocation (`RecordsOfFrees`, an
invariant). No near neighbour wears the tag, so that the ring buffer is asked with no
report (`NothingNear`); the entries come in the order of age (`NewestByAge`), so that nothing
is reported before the latest with the pointer and that one is reported first (`RingBegins`);
and what comes behind leaves the first report alone (`FarBehind`). `EntriesFolded` and
`ChunksFolded` turn the folds that stand for the two loops into sequences of intermediate
results. The library's theorems about folds take operators as parameters; here the function
that a `FoldLeft` chooses is shown to exist for the loop body at hand, by `FoldExists`, and
inductions on the natural numbers are arguments about the least counterexample.

`ThreadsProofs` is about `Spec` of `MCThreads`, that is of the subject that the initial state
picks. Of an exclusive registry, for every set of threads and every number of destructor
rounds from one on (`RoundsAssumption`):

* `Committed`: `Spec => []EndedCommitted`, nothing is left behind by a thread that was
  initialized before it ended.
* `NotRefilled`: `Spec => []NothingAfterTeardown`.

`ExclusiveIInv` adds `StateMatches` (a TSD is in the statistics list, and its key is set,
exactly while it is `Initialized`, and only then caches something) and `RoundsCounted`:
`DestructorIterations` equals the rounds that are left, the current one included until its
call. That is why the last call comes in the last round, and why it does not for a
thread that was initialized late.

Of a shared registry, for every set of threads, every size of the array and every default number
(`RegistryAssumption`):

* `DrainComplete`: `Spec => []DrainReachesAll`.
* `NeverTriedTwice`: `Spec => []WalkVisitsNew`.

`SharedIInv` adds that a thread past `initOnceMaybe` finds a positive number
(`InitializedFirst`), that a walk stays below the number it began with (`WalkWithin`; the
number never shrinks, which is what `setNumberOfTSDs` refuses), that `CoPrimes` belongs to
`NumberOfTSDs` (`CoPrimesKnown`), and that the step of a walk is co-prime to the number it began
with and leads from each try to the next (`WalkSteps`). The lemma `StepsDiffer` is the
arithmetic: a walk makes at most four tries, and with a step d co-prime to N none of d,
2d and 3d is a multiple of N when N is larger than the number of steps, since N, N/2 or N/3
would be a common divisor.

`WholeEntries`, `StoredAreFound` and `FreedAreReported` carry the theorems of `StackTracesProofs` over to
`MCThreads`, through an instance of that module with the buffers of the run.

Of the locks, for every set of threads and every number of TSDs and of classes from one on
(`LocksAssumption`):

* `NoDeadlock`: `Spec => []NoWaitCycle`, no set of threads waits for itself.
* `SafeToFork`: `Spec => []ForkSafe`, the child of a fork between `disable` and `enable` finds
  no lock but `MutexTSDs` held by a thread it does not have.

Both come from an order of the locks (`Level`): `Mutex`, `MutexTSDs`, the TSDs by number, the
statistics, the two of the quarantine, the regions from the last class down with `MMLock` before
`FLLock` and the batch class behind all of them, the secondary, its cache, the ring buffer, the
depot, the buffers of a release. It is the order of `disable`, with the two locks that `disable`
leaves out put where they are taken. What is left of an operation is a tree of choices, and an
induction over it is out of reach; instead a thread is `Orderly` if some set of pairs (locks
held, steps left) contains its own pair and is closed under every step that the thread may take:
each wait is for a lock of a higher level than all that is held, each unlock is of a lock that is
held, each end holds nothing, each fork holds what `disable` takes, and the buffers of a release
are held together with the `MMLock` of some class. `Leads` and `Runs` compose such
sets along the operators that operations are built with, one lemma each (`LeadsOn`, `LeadsTry`,
`LeadsOneOf`, `RunsInside`, `RunsLoop`, ...), so that each function of the code that locks
something has a fact about it that follows from those of the functions it calls, up to
`OperationsOrderly`. `disable` and `enable` go up and down the levels one by one (`LeadsRung`).
`LocksIInv` says that every thread is orderly with what it holds. In a circle the thread that
waits for the highest lock would wait for a thread that waits for a higher one. A thread with the
buffers of a release holds an `MMLock`, and in a fork the forking thread has all of these.

`StructuresProofs` is about `Spec` of `Structures`, that is of the subject that the initial state picks.
Of `SizeClassAllocator32`, for every number and size of classes and regions (`Primary32Assumption`: a region
has an even size and room for a block of any class), it proves:

* `SpecRegionsAccounted`: `Spec => []RegionsAccounted`.

The invariant `RegionsInv` says that the address space that is mapped is divided among
the threads inside `allocateRegion` (`Hands`, which depends on `pc`), the entries of the stash and the
bytes of the map (`RegionsApart`), and that what a thread has in its hands is inside of what it
mapped and, once trimmed, aligned (`RegionAddresses`). Each step takes a part from one of the three and
adds it to another (`StepMap`, `StepUnmap`, `StepStashPop`, `StepAlign`, `StepSetOwner`). The sum in `RegionsAccounted` is
that of the parts because they are disjoint (`DisjointAdds`).

Of the freelists, for any sizes of blocks, groups, batches and arrays and any settings of the release
policy (`FreeListAssumption` and `BatchClassAssumption`: a batch has room for one block, one of the batch class
for the two blocks of its records), it proves:

* `SpecWellFormed`: `Spec => []WellFormed`.
* `SpecBlocksCounted`: `Spec => []BlocksCounted`.
* `SpecImplementsPool`: `Spec => ImplementsPool`, the refinement of `BlockPool` by both freelists, from
  `SpecFreeListPool` and `SpecBatchClassPool`.

The invariant `FreeListsOk` has a part for each. `FreeListOk`: the groups of the list are in order of their
bases, and in a group (`GoodGroup`) all batches behind the front one are full, the front one is not empty and
every block is listed once and belongs to the group. The same holds of the groups that a
release has taken out. Free blocks, blocks out for a release and blocks held are disjoint, and together they are all
that was populated; the counters are the sizes of these sets. Without the groups that are out a merge could
list a block twice, and without the right form of both lists it could leave a batch in the middle that
is not full. `BatchClassOk` says of the batch class that each batch lists the block that it lives in first, that the batches share no block,
and that the last one lists the block of the group as well (`GoodClass`).

The operations are folds over groups or blocks: `pushBlocks` over the groups of the array,
`collectGroupsToRelease` and `mergeGroupsToReleaseBack` over groups, `pushBatchClassBlocks` over the array. For
each of them a lemma gives the sequence of intermediate results (`PushedParts`, `CollectedGroups`, `MergedGroups`,
`FillsUp`), an induction on the naturals carries an invariant along that sequence (`PushesBlocks`, `Collects`,
`Merges`, `Fills`), and a lemma per action draws the step from it (`FreeListPop`, `FreeListPush`, ...,
`FreeListNext`, `BatchClassNext`). `MergesBatches` is the heart of it: `mergeGroupsToReleaseBack` has three
ways to join the batches of a group that was out with those pushed meanwhile, and in
each no block is lost, at most one batch is not full, and that one is in front. These lemmas are in `FreeListProofs`.

TLC has checked each inductive invariant on the instance of its run before it was proved, but for
`LocksIInv`, which quantifies over sets of what may be left of an operation; there it checks
`NoWaitCycle` and `ForkSafe` alone. No proof uses fairness.

### Only model-checked

* Liveness: `LockProgress`, `NotifiedReturns`, `RecycleCompletes`, `DrainShrinks` and
  `WaitersProceed`. They are out of the prover's reach.
* `CommittedWhole`. A drain or a refill is a fold whose every step may drain or refill the batch
  class in turn, and the sums are exact only while they stay below half of `StatMod`, so
  a proof also needs a bound on what the freelists ever carve out.
* `ReleasesExactly` and `IterationFindsAll`. The page map has a loop per group, per block and per page, with
  rounding at each of the three, and `SizeClassAllocator32` adds its regions of several classes; TLC goes
  through every input of an instance.
* `SizesFit`. It is about five concrete tables, and TLC goes through all classes and all sizes of each, which leaves
  nothing for a proof to add.

## 6. Where the code and its comments disagree

With a run each:

1. **A chunk whose size is not a whole number of granules** (`tagging_partial_granule`).
   On Zimte `storeTags` returns its `End` as it came, not rounded up (memtag.h:356).
   `storeEndMarker` then puts tag zero on the chunk's own last granule.
   `tests/memtag_test.cpp:195` expects the rounded address.
2. **Tag zero** (`tagging_zero_tag`). `selectRandomTag` may yield zero (memtag.h:327),
   while combined.h:1237 says that zero is never used. A pointer of tag zero is taken for
   one without tagging, so its header is looked up through another pointer.
3. **A cache of no entries** (`secondary_no_entries`). `setOption` may set
   `MaxEntriesCount` to zero between `canCache` and the loop that evicts entries, which
   then takes the back of an empty list; secondary.h:329 argues that this cannot be.
4. **Fork and `MutexTSDs`** (`fork`). `disable` of the shared registry takes `Mutex` and the TSDs
   but not `MutexTSDs` (tsd_shared.h:94). A thread in `drainCaches` may hold it at that
   moment, and a child of the fork then waits for it for ever, while stack_depot.h:194 says
   that locks are taken "for the purpose of fork safety in multithreaded programs".

The run `tagging` therefore keeps to sizes of whole granules and to `gentag` values
other than zero; what it shows is true of the code under these conditions.

Met while modelling, without a run:

* secondary.h:304. `store` means to notice that tagging was disabled while it waited for
  the lock, but it asks the same copy of `Options` twice, so the test is never
  true. With `Races = TRUE` TLC finds that an inaccessible mapping then stays in the cache
  and is handed out (`InUseAccessible`, ten states).
* With `Races = TRUE` and tagging, an interval that becomes zero breaks
  `OldestMarked`, which the assertions at secondary.h:553 and 591 state.
* secondary.h:354. `Time - Interval` is unsigned: as long as the clock is below the
  interval, everything is released at once. This costs time and loses nothing.
* secondary.h:283. The result of `mapSecondary` in `store` is ignored.
* primary64.h:547. With the condition variable the thread that claims the refill does not
  look at the freelist again, so it can grow a region whose freelist has been filled
  meanwhile. `RefilledOnce` is stated for the other path, which does look.
* memtag.h:327. `selectRandomTag` takes the mask of tags to exclude and does not use it, so a freed
  chunk can keep its tag, or get that of its neighbour, although combined.h:1387 says that use
  after free is detected every time. `FreedIsReported` and `OverflowCaught` therefore except
  what only the mask would exclude.
* combined.h:1487. A writer of the ring buffer that others overtake by a whole lap writes the same
  entry as the last of them, and the result mixes both. The comment at combined.h:1492 speaks of
  partially written states; `EntriesWhole` excepts such a lap.
* tsd_exclusive.h:185. `teardownThread` counts its calls, not the rounds. A thread that first
  allocates in one of its destructors does not come to the last call, so that its blocks
  and statistics stay behind. `EndedCommitted` excepts it.
* primary32.h:1247. `getFragmentationInfo` marks blocks with the code of a release of everything, and so
  moves the checkpoint of every group, although it releases nothing. The next release by the
  policy then finds less reason to release them. No property depends on it.
* primary64.h:1800. When the last block of a region reaches out of its group, the space behind it
  is counted by nobody, and its last page is not released though all of its blocks are free.
  `ReleasesExactly` names this case (`LastBlockStraddles`); it costs a page at most.
* combined.h:1215 describes what `loadTag` finds in memory; the Zimte version returns its
  argument.

## 7. What is not modelled

* **Relaxed memory.** Each atomic access is a step, in program order. Mutexes give
  order to everything else in these modules; `StackTraces` is the exception, and what it
  shows is true of a machine, or a fence, that keeps the order of stores.
* **Failing system calls**, other than `mmap` in `Region` (`Map`) and `SecondaryCache` (`Map`);
  in `Primary32` a refused mapping is one that is not made.
* **Data**: user bytes, the arithmetic of checksums, report texts, the counters of mappings.
* **Timing and tracing**, which no allocator path depends on.
* **Wrappers and ports.** Argument checks and system calls. Fuchsia and Trusty are not
  targets of this repository, nor are the aarch64 sections of `memtag.h` compiled.
* **The scripts**, sequential shell with downloads and builds.
* **`SizeClassAllocatorNoCache`** and **`MapAllocatorNoCache`**, which pass every call on.
* **`FragmentationRecorder`, the set-up of regions, `findNearestBlock`** and the iteration of Primary64:
  they read, or run before there is a second thread.
* **`iterateOverChunks` and `setOption`** of the allocator itself, and the flag parser, which is
  text processing at the start of the program.
* **An operation interleaved with `disableMemoryTagging`.** `TaggedChunk` loads `Options` and uses it
  in one step.

## 8. Plan

In order of weight:

1. `TaggedChunk` with operations that load `Options` in a step of their own, so that
   `disableMemoryTagging` comes in between (combined.h:872).
2. A `mapSecondary` that fails inside `store` (secondary.h:283), and the release policy of
   Primary64 with its wrapping difference (primary64.h:1413).
3. `iterateOverChunks` over the primary and the secondary, with its locks.
4. The flag parser against a reference definition.

Proofs still worth having: `CommittedWhole` of `LocalCaches`, with a lemma for each of
`drain`, `refill` and `destroy`; `IterationFindsAll`, with the lemmas of `FreeListProofs` for the
freelists of `SizeClassAllocator32`.
