---------------------------- MODULE SecondaryCache -----------------------------
(***************************************************************************)
(* MapAllocator and its MapAllocatorCache: large blocks are mappings of    *)
(* their own; freed ones wait in a cache in least recently used order,     *)
(* behind a small quarantine ring, until they are reused, released to the  *)
(* system or unmapped.  A critical section of either mutex is one step; a  *)
(* thread acts on the block it took out, or is about to put in, between    *)
(* its steps.                                                              *)
(***************************************************************************)
EXTENDS Integers, SequencesExt

CONSTANTS
  Threads, NoThread,
  Blocks, None,        \* mappings, and no mapping
  Sizes,               \* sizes of requests, in pages
  EntriesArraySize,
  QuarantineSizes,     \* sizes of the quarantine ring, one for a behaviour
  MaxEntrySize, MaxUnreleasedCachePages, MaxReleasedCachePages,
  MaxCounts,           \* values of MaxEntriesCount, at most EntriesArraySize
  Intervals,           \* values of ReleaseToOsIntervalMs
  Races,               \* may the settings change while a thread is in an operation?
  MaxTime,             \* bound of the clock
  TimeModulus          \* times wrap here

ASSUME SecondaryCacheAssumption ==
  /\ NoThread \notin Threads /\ None \notin Blocks
  /\ Sizes \subseteq Nat \ {0} /\ MaxCounts \subseteq 0 .. EntriesArraySize
  /\ Intervals \subseteq Int /\ Races \in BOOLEAN
  /\ QuarantineSizes \subseteq Nat
  /\ \E m \in QuarantineSizes : \A q \in QuarantineSizes : q <= m
  /\ {EntriesArraySize, MaxEntrySize, MaxUnreleasedCachePages,
      MaxReleasedCachePages, MaxTime, TimeModulus} \subseteq Nat
  /\ MaxTime >= 1 /\ TimeModulus > 2 * MaxTime

VARIABLES
  owner,               \* thread that has disabled the allocator: it owns both mutexes
  inUse,               \* InUseBlocks
  size,                \* committed pages of a mapping, 0 when there is none
  inaccessible,        \* mapped MAP_NOACCESS
  dirty,               \* may hold what a user wrote
  time,                \* Entry.Time, 0 once released
  quarantineSize,
  lru, quarantine, quarantinePos, oldest,
  maxEntries, interval, useTagging,
  now,
  pc, options, block, evicted, stamp    \* of each thread

blocks   == <<inUse, size, inaccessible, dirty, time>>
cache    == <<lru, quarantine, quarantinePos, oldest>>
settings == <<quarantineSize, maxEntries, interval, useTagging>>
threads  == <<pc, options, block, evicted, stamp>>
vars     == <<owner, blocks, cache, settings, now, threads>>

Slots == 0 .. Max(QuarantineSizes) - 1

\* A thread in an operation knows the tagging option and the release interval
\* that it read at the start, and the size it needs.
Snapshot(n) == [tagging |-> useTagging, interval |-> interval, need |-> n]
NoOptions   == [tagging |-> FALSE, interval |-> -1, need |-> 0]

Init ==
  /\ owner = NoThread /\ inUse = {}
  /\ size = [b \in Blocks |-> 0] /\ time = [b \in Blocks |-> 0]
  /\ inaccessible = [b \in Blocks |-> FALSE] /\ dirty = [b \in Blocks |-> FALSE]
  /\ lru = <<>> /\ quarantine = [i \in Slots |-> None] /\ quarantinePos = 0
  /\ oldest = None /\ quarantineSize \in QuarantineSizes
  /\ maxEntries \in MaxCounts \ {0} /\ interval \in Intervals /\ useTagging \in BOOLEAN
  /\ now = 1
  /\ pc = [t \in Threads |-> "idle"] /\ options = [t \in Threads |-> NoOptions]
  /\ block = [t \in Threads |-> None] /\ evicted = [t \in Threads |-> {}]
  /\ stamp = [t \in Threads |-> 0]

Goto(t, l) == pc' = [pc EXCEPT ![t] = l]
Read(t, o) == options' = [options EXCEPT ![t] = o]
Hold(t, b) == block' = [block EXCEPT ![t] = b]

\* Without Races, the tagging option, and settings that have no meaning for
\* what is cached, change only between operations.
Quiet    == \A t \in Threads : pc[t] = "idle"
MayStart == Races \/ \A t \in Threads : pc[t] # "clear"

canCache(n) == maxEntries # 0 /\ n <= MaxEntrySize

(***************************************************************************)
(* Taking a block out: MapAllocator::allocate().                           *)
(***************************************************************************)
\* Requests aligned to a page or more do not use the cache.
Allocate(t) ==
  /\ pc[t] = "idle" /\ MayStart
  /\ \E n \in Sizes, aligned \in BOOLEAN :
       /\ Read(t, Snapshot(n))
       /\ Goto(t, IF ~aligned /\ canCache(n) THEN "retrieve" ELSE "map")
  /\ UNCHANGED <<owner, blocks, cache, settings, now, block, evicted, stamp>>

Diff(i, n) == size[lru[i]] - n

MaxAllowedFragmentedPages(t) ==
  MaxUnreleasedCachePages + IF options[t].tagging THEN 0 ELSE MaxReleasedCachePages

\* The first entry that wastes at most a tenth, or the one that wastes least.
Retrievable(t) ==
  LET n       == options[t].need
      fitting == {i \in DOMAIN lru : Diff(i, n) \in 0 .. MaxAllowedFragmentedPages(t)}
      optimal == {i \in fitting : 10 * Diff(i, n) <= n}
  IN  IF optimal # {} THEN {Min(optimal)}
      ELSE {i \in fitting : \A j \in fitting :
              Diff(i, n) < Diff(j, n) \/ (Diff(i, n) = Diff(j, n) /\ i <= j)}

Before(i) == IF i = 1 THEN None ELSE lru[i - 1]

\* Mutant: the entry stays in the list.
KeepsListed(i) == UNCHANGED lru /\ oldest' = IF oldest = lru[i] THEN Before(i) ELSE oldest

remove(i) ==
  /\ lru' = RemoveAt(lru, i)
  /\ oldest' = IF oldest = lru[i] THEN Before(i) ELSE oldest

Retrieve(t) ==
  /\ pc[t] = "retrieve" /\ owner = NoThread
  /\ \/ Retrievable(t) = {} /\ Goto(t, "map") /\ UNCHANGED <<block, cache>>
     \/ \E i \in Retrievable(t) :
          /\ remove(i) /\ Hold(t, lru[i]) /\ Goto(t, "use")
          /\ UNCHANGED <<quarantine, quarantinePos>>
  /\ UNCHANGED <<owner, blocks, settings, now, options, evicted, stamp>>

\* Mutant: the permission is left as it was.
UsesAsCached(t) == FALSE

RestoresPermission(t) == options[t].tagging

\* The rest of tryAllocateFromCache(), and the user writes to the block.
Use(t) ==
  /\ pc[t] = "use" /\ owner = NoThread
  /\ inaccessible' = [inaccessible EXCEPT ![block[t]] = @ /\ ~RestoresPermission(t)]
  /\ inUse' = inUse \union {block[t]} /\ time' = [time EXCEPT ![block[t]] = 0]
  /\ dirty' = [dirty EXCEPT ![block[t]] = TRUE]
  /\ Hold(t, None) /\ Read(t, NoOptions) /\ Goto(t, "idle")
  /\ UNCHANGED <<owner, size, cache, settings, now, evicted, stamp>>

\* A new mapping, or none when the system has no more.
Map(t) ==
  /\ pc[t] = "map" /\ owner = NoThread
  /\ \/ \E b \in Blocks :
          /\ size[b] = 0
          /\ size' = [size EXCEPT ![b] = options[t].need]
          /\ inUse' = inUse \union {b} /\ dirty' = [dirty EXCEPT ![b] = TRUE]
     \/ UNCHANGED <<size, inUse, dirty>>
  /\ Read(t, NoOptions) /\ Goto(t, "idle")
  /\ UNCHANGED <<owner, inaccessible, time, cache, settings, now, block, evicted, stamp>>

(***************************************************************************)
(* Putting a block in: MapAllocator::deallocate() and store().             *)
(***************************************************************************)
Unmapped(S, f, v) == [b \in Blocks |-> IF b \in S THEN v ELSE f[b]]

Unmap(S) ==
  /\ size' = Unmapped(S, size, 0) /\ time' = Unmapped(S, time, 0)
  /\ inaccessible' = Unmapped(S, inaccessible, FALSE)
  /\ dirty' = Unmapped(S, dirty, FALSE)

\* Mutant: with an interval of zero the pages count as released, tagging or not.
ReleasedWithInterval == interval = 0

\* A new inaccessible mapping replaces the pages.
ReleasedAtOnce == useTagging /\ interval = 0

\* Up to the lock in store(), where Entry.Time is zero or to be set.
Deallocate(t) ==
  /\ pc[t] = "idle" /\ MayStart /\ owner = NoThread
  /\ \E b \in inUse :
       /\ inUse' = inUse \ {b}
       /\ \/ /\ ~canCache(size[b])
             /\ Unmap({b})
             /\ UNCHANGED <<pc, options, block>>
          \/ /\ canCache(size[b])
             /\ inaccessible' = [inaccessible EXCEPT ![b] = useTagging]
             /\ dirty' = [dirty EXCEPT ![b] = @ /\ ~(useTagging /\ interval = 0)]
             /\ time' = [time EXCEPT ![b] = IF ReleasedAtOnce THEN 0 ELSE now]
             /\ Read(t, Snapshot(0)) /\ Hold(t, b) /\ Goto(t, "store")
             /\ UNCHANGED size
  /\ UNCHANGED <<owner, cache, settings, now, evicted, stamp>>

\* The entry goes in at the front of what is kept of the cache.
insert(e, kept, old, times) ==
  /\ lru' = <<e>> \o kept
  /\ oldest' = IF old = None /\ times[e] # 0 THEN e ELSE old

MaxKept == maxEntries - 1

\* Entries are evicted from the back until the cache has room.  With no room at
\* all the loop goes on to pop from the empty list.
InsertAndEvict(t, e, times) ==
  LET kept == SubSeq(lru, 1, Min({Len(lru), MaxKept}))
      out  == ToSet(lru) \ ToSet(kept)
      old  == IF oldest \notin out THEN oldest
              ELSE IF kept = <<>> THEN None ELSE Last(kept)
  IN  /\ insert(e, kept, old, times)
      /\ evicted' = [evicted EXCEPT ![t] = out]
      /\ stamp' = [stamp EXCEPT ![t] = now]
      /\ Goto(t, IF maxEntries = 0 THEN "crashed" ELSE "evicted")

Rotate(b, pos) ==
  IF quarantineSize = 0 THEN UNCHANGED <<quarantine, quarantinePos>>
  ELSE quarantinePos' = pos /\ quarantine' = [quarantine EXCEPT ![pos] = b]

\* The block goes into the quarantine and what it replaces there into the cache.
\* The test for tagging having been disabled meanwhile looks at the options read
\* before, so it never holds and is not here.
Store(t) ==
  LET b     == block[t]
      times == IF time[b] = 0 THEN time ELSE [time EXCEPT ![b] = now]
      pos   == (quarantinePos + 1) % quarantineSize
      entry == IF quarantineSize = 0 THEN b ELSE quarantine[pos]
  IN  /\ pc[t] = "store" /\ owner = NoThread
      /\ time' = times
      /\ Rotate(b, pos) /\ Hold(t, None)
      /\ \/ entry = None /\ Read(t, NoOptions) /\ Goto(t, "idle")
            /\ UNCHANGED <<lru, oldest, evicted, stamp>>
         \/ entry # None /\ InsertAndEvict(t, entry, times) /\ UNCHANGED options
      /\ UNCHANGED <<owner, inUse, size, inaccessible, dirty, settings, now>>

(***************************************************************************)
(* Releasing pages.                                                        *)
(***************************************************************************)
\* Mutant: the walk stops one entry early.
WalkedShort(from, T) ==
  {i \in 2 .. from : \A j \in i .. from : time[lru[j]] <= T}

\* releaseOlderThan() goes from the oldest entry to the front, up to the first
\* that is newer.
Walked(from, T) ==
  {i \in 1 .. from : \A j \in i .. from : time[lru[j]] <= T}

releaseOlderThan(T) ==
  LET from   == IF oldest = None THEN 0 ELSE CHOOSE i \in DOMAIN lru : lru[i] = oldest
      walked == Walked(from, T)
      out    == {lru[i] : i \in walked}
                  \union {quarantine[i] : i \in {j \in Slots :
                            quarantine[j] # None /\ time[quarantine[j]] <= T}}
  IN  /\ time' = Unmapped(out, time, 0) /\ dirty' = Unmapped(out, dirty, FALSE)
      /\ oldest' = IF walked = 1 .. from THEN None ELSE lru[from - Cardinality(walked)]

Return(t) == Read(t, NoOptions) /\ stamp' = [stamp EXCEPT ![t] = 0] /\ Goto(t, "idle")

\* The end of store(): the evicted mappings go, outside of the lock.
UnmapEvicted(t) ==
  /\ pc[t] = "evicted"
  /\ Unmap(evicted[t])
  /\ evicted' = [evicted EXCEPT ![t] = {}]
  /\ \/ options[t].interval >= 0 /\ Goto(t, "release") /\ UNCHANGED <<options, stamp>>
     \/ options[t].interval < 0 /\ Return(t)
  /\ UNCHANGED <<owner, inUse, cache, settings, now, block>>

\* Then a release is tried, unless another thread has the lock.  The u64
\* difference wraps while the clock has not reached the interval yet.
Release(t) ==
  /\ pc[t] = "release" /\ Return(t)
  /\ \/ /\ owner = NoThread
        /\ releaseOlderThan((stamp[t] - options[t].interval) % TimeModulus)
     \/ /\ owner # NoThread \/ ~Quiet
        /\ UNCHANGED <<time, dirty, oldest>>
  /\ UNCHANGED <<owner, inUse, size, inaccessible, lru, quarantine, quarantinePos, settings,
                 now, block, evicted>>

releaseToOS(t) ==
  /\ pc[t] = "idle" /\ MayStart /\ owner = NoThread
  /\ releaseOlderThan(TimeModulus - 1)
  /\ UNCHANGED <<owner, inUse, size, inaccessible, lru, quarantine, quarantinePos, settings,
                 now, threads>>

(***************************************************************************)
(* Settings.                                                               *)
(***************************************************************************)
\* disableMemoryTagging() of the cache; Options is cleared afterwards.
DisableMemoryTagging(t) ==
  /\ pc[t] = "idle" /\ (Races \/ Quiet) /\ owner = NoThread
  /\ LET out == {quarantine[i] : i \in Slots} \ {None} IN
       /\ size' = Unmapped(out, size, 0) /\ time' = Unmapped(out, time, 0)
       /\ dirty' = Unmapped(out, dirty, FALSE)
       /\ inaccessible' = Unmapped(out \union ToSet(lru), inaccessible, FALSE)
  /\ quarantine' = [i \in Slots |-> None]
  /\ quarantinePos' = -1
  /\ Goto(t, "clear")
  /\ UNCHANGED <<owner, inUse, lru, oldest, settings, now, options, block, evicted, stamp>>

ClearOption(t) ==
  /\ pc[t] = "clear" /\ useTagging' = FALSE /\ Goto(t, "idle")
  /\ UNCHANGED <<owner, blocks, cache, quarantineSize, maxEntries, interval, now, options, block, evicted,
                 stamp>>

\* setOption(): no entries at all, and with tagging an interval of zero while
\* some entry has a time, are the settings that must not come too late.
setOption ==
  /\ \/ /\ maxEntries' \in MaxCounts /\ UNCHANGED interval
        /\ Races \/ Quiet \/ maxEntries' # 0
     \/ /\ interval' \in Intervals /\ UNCHANGED maxEntries
        /\ Races \/ (Quiet /\ (interval' # 0 \/ \A b \in Blocks \ inUse : time[b] = 0))
  /\ UNCHANGED <<owner, blocks, cache, quarantineSize, useTagging, now, threads>>

Disable(t) ==
  /\ pc[t] = "idle" /\ owner = NoThread /\ owner' = t /\ Goto(t, "disabled")
  /\ UNCHANGED <<blocks, cache, settings, now, options, block, evicted, stamp>>

Enable(t) ==
  /\ pc[t] = "disabled" /\ owner' = NoThread /\ Goto(t, "idle")
  /\ UNCHANGED <<blocks, cache, settings, now, options, block, evicted, stamp>>

Tick ==
  /\ now < MaxTime /\ now' = now + 1
  /\ UNCHANGED <<owner, blocks, cache, settings, threads>>

Operation(t) ==
  \/ Allocate(t) \/ Retrieve(t) \/ Use(t) \/ Map(t)
  \/ Deallocate(t) \/ Store(t) \/ UnmapEvicted(t) \/ Release(t) \/ releaseToOS(t)
  \/ DisableMemoryTagging(t) \/ ClearOption(t) \/ Disable(t) \/ Enable(t)

Next == Tick \/ setOption \/ \E t \in Threads : Operation(t)

Spec == Init /\ [][Next]_vars

(***************************************************************************)
(* Properties.                                                             *)
(***************************************************************************)
Cached      == ToSet(lru)
Quarantined == {quarantine[i] : i \in Slots} \ {None}

\* Type invariant; the entries fit the array that AvailEntries hands out.
TypeOK ==
  /\ owner \in Threads \union {NoThread} /\ inUse \subseteq Blocks
  /\ size \in [Blocks -> Sizes \union {0}] /\ time \in [Blocks -> 0 .. MaxTime]
  /\ inaccessible \in [Blocks -> BOOLEAN] /\ dirty \in [Blocks -> BOOLEAN]
  /\ lru \in Seq(Blocks) /\ Len(lru) <= EntriesArraySize
  /\ quarantine \in [Slots -> Blocks \union {None}] /\ quarantinePos \in -1 .. Max(QuarantineSizes)
  /\ oldest \in Blocks \union {None}
  /\ block \in [Threads -> Blocks \union {None}] /\ evicted \in [Threads -> SUBSET Blocks]

\* A mapping is in one place at a time: in use, in the cache, in its quarantine,
\* or in the hands of one thread that stores, retrieves or unmaps it; and what
\* is in any of these places is mapped.
MappedOnce ==
  LET inHand(b) == {t \in Threads : block[t] = b \/ b \in evicted[t]}
      places(b) == Cardinality({i \in DOMAIN lru : lru[i] = b})
                   + Cardinality({i \in Slots : quarantine[i] = b})
                   + Cardinality(inHand(b)) + IF b \in inUse THEN 1 ELSE 0
  IN  TypeOK /\ \A b \in Blocks : places(b) = IF size[b] = 0 THEN 0 ELSE 1

\* What a user holds is accessible, whatever the cache did to it: store() takes
\* the permission away and tryAllocateFromCache() gives it back, each by the
\* options it has read.
InUseAccessible == \A b \in inUse : ~inaccessible[b]

\* An entry of time zero holds no data of a former user: tryAllocateFromCache()
\* does not clear it, and the tags of its pages are taken to be gone.
ReleasedIsZero ==
  \A b \in Cached \union Quarantined \union {block[t] : t \in Threads} :
    b # None /\ time[b] = 0 => ~dirty[b]

\* OldestPresentEntry is the last entry that has not been released, so a walk from
\* it meets every such entry, and the order is the order of time, so the walk may
\* stop at the first that is too new (the assertions in remove() and
\* releaseOlderThan()).
OldestMarked ==
  LET present == {i \in DOMAIN lru : time[lru[i]] # 0} IN
    /\ oldest = IF present = {} THEN None ELSE lru[Max(present)]
    /\ \A i, j \in DOMAIN lru : i < j => time[lru[i]] >= time[lru[j]]

\* "As a result, we won't try to pop LRUEntries when it's empty" (secondary.h:331):
\* MaxEntriesCount is not zero in store().
NeverPopsEmpty == \A t \in Threads : pc[t] # "crashed"
================================================================================
