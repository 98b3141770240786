------------------------- MODULE SecondaryCacheProofs -------------------------
(***************************************************************************)
(* For all threads, blocks, sizes and settings that do not change during   *)
(* an operation: a mapping has one place, its user may access it, and the  *)
(* times of the cache tell what is left to release.                        *)
(***************************************************************************)
EXTENDS SecondaryCache, FiniteSetTheorems, SequenceTheorems, WellFoundedInduction, TLAPS

Labels == {"idle", "retrieve", "use", "map", "store", "evicted", "release", "clear",
           "disabled", "crashed"}

Snapshots == [tagging : BOOLEAN, interval : Int, need : Nat]

BlockTypes ==
  /\ inUse \subseteq Blocks
  /\ size \in [Blocks -> Sizes \union {0}] /\ time \in [Blocks -> Nat]
  /\ inaccessible \in [Blocks -> BOOLEAN] /\ dirty \in [Blocks -> BOOLEAN]

CacheTypes ==
  /\ lru \in Seq(Blocks) /\ Len(lru) <= EntriesArraySize
  /\ quarantine \in [Slots -> Blocks \union {None}] /\ quarantinePos \in Int
  /\ oldest \in Blocks \union {None}

SettingTypes ==
  /\ owner \in Threads \union {NoThread}
  /\ quarantineSize \in QuarantineSizes /\ maxEntries \in MaxCounts
  /\ interval \in Intervals /\ useTagging \in BOOLEAN
  /\ now \in 1 .. MaxTime

ThreadTypes ==
  /\ pc \in [Threads -> Labels] /\ options \in [Threads -> Snapshots]
  /\ block \in [Threads -> Blocks \union {None}] /\ evicted \in [Threads -> SUBSET Blocks]
  /\ stamp \in [Threads -> Nat]

InOperation(t) == pc[t] \in {"retrieve", "use", "map", "store", "evicted", "release"}

\* What a thread has in its hands, and what it knows, in each place of its program.
ThreadControl(t) ==
  /\ pc[t] \in {"use", "store"} <=> block[t] # None
  /\ evicted[t] # {} => pc[t] = "evicted"
  /\ InOperation(t) => options[t].tagging = useTagging
  /\ pc[t] \in {"retrieve", "map"} => options[t].need \in Sizes
  /\ pc[t] = "store" => maxEntries # 0
  /\ pc[t] = "clear" => \A u \in Threads \ {t} : pc[u] \in {"idle", "disabled"}
  /\ pc[t] # "crashed"

Control == \A t \in Threads : ThreadControl(t)

Hand(t) == evicted[t] \union ({block[t]} \ {None})

\* A mapping is in one place.
Places ==
  /\ \A i, j \in DOMAIN lru : lru[i] = lru[j] => i = j
  /\ \A i, j \in Slots : quarantine[i] = quarantine[j] => i = j \/ quarantine[i] = None
  /\ \A b \in Cached : b \notin Quarantined /\ b \notin inUse
  /\ \A b \in Quarantined : b \notin inUse
  /\ \A t \in Threads : \A b \in Hand(t) :
       /\ b \notin Cached /\ b \notin Quarantined /\ b \notin inUse
       /\ \A u \in Threads : b \in Hand(u) => u = t
  /\ \A b \in Blocks :
       size[b] # 0 <=> \/ b \in Cached \/ b \in Quarantined \/ b \in inUse
                       \/ \E t \in Threads : b \in Hand(t)

\* Only what waits in the cache or in a hand is inaccessible, and nothing without
\* tagging or while the option is about to be cleared.
Access ==
  /\ \A b \in Blocks : size[b] = 0 \/ b \in inUse => ~inaccessible[b]
  /\ ~useTagging \/ (\E t \in Threads : pc[t] = "clear") => \A b \in Blocks : ~inaccessible[b]

\* Zero as a time means released, and releases at once leave nothing else.
Times ==
  /\ \A b \in Blocks : time[b] <= now
  /\ useTagging /\ interval = 0 => \A b \in Blocks \ inUse : time[b] = 0
  /\ \A t \in Threads : pc[t] = "store" /\ time[block[t]] = 0 => useTagging /\ interval = 0
  /\ \A b \in Blocks :
       /\ time[b] = 0
       /\ b \in Cached \/ b \in Quarantined \/ \E t \in Threads : block[t] = b
       => ~dirty[b]

\* Slot i of the ring was filled after slot j.
Newer(i, j) == IF i <= quarantinePos THEN j < i \/ j > quarantinePos
               ELSE j < i /\ j > quarantinePos

\* The ring and then the cache are in the order of time.
RingOrder ==
  /\ quarantinePos >= -1 /\ (quarantinePos < quarantineSize \/ quarantinePos = 0)
  /\ \A i \in Slots : i >= quarantineSize => quarantine[i] = None
  /\ \A i, j \in Slots : Newer(i, j) /\ quarantine[i] # None /\ quarantine[j] # None =>
       time[quarantine[i]] >= time[quarantine[j]]
  /\ \A i \in Slots, j \in DOMAIN lru :
       quarantine[i] # None => time[quarantine[i]] >= time[lru[j]]

CacheOrder ==
  /\ \A i, j \in DOMAIN lru : i < j => time[lru[i]] >= time[lru[j]]
  /\ \/ oldest = None /\ \A i \in DOMAIN lru : time[lru[i]] = 0
     \/ \E m \in DOMAIN lru :
          /\ oldest = lru[m] /\ time[lru[m]] # 0
          /\ \A j \in DOMAIN lru : j > m => time[lru[j]] = 0

Types == BlockTypes /\ CacheTypes /\ SettingTypes /\ ThreadTypes

\* The inductive invariant.
IInv == Types /\ Control /\ Places /\ Access /\ Times /\ RingOrder /\ CacheOrder
-----------------------------------------------------------------------------
(***************************************************************************)
(* The operators of the cache.                                             *)
(***************************************************************************)
\* A set of naturals that is not empty has a least element.
LEMMA LeastNatural == \A S : S \subseteq Nat /\ S # {} => \E m \in S : \A y \in S : m <= y
<1> SUFFICES ASSUME NEW S, S \subseteq Nat, S # {} PROVE \E m \in S : \A y \in S : m <= y
  OBVIOUS
<1>1. PICK m \in S : \A y \in S : ~(<<y, m>> \in OpToRel(<, Nat))
  BY NatLessThanWellFounded, WFMin, Zenon
<1>2. \A y \in S : ~(y < m)
  BY <1>1 DEF OpToRel
<1>3. QED
  BY <1>2

\* Max() and Min() are the elements they should be.
LEMMA MaxIs == \A S, m : S \subseteq Int /\ m \in S /\ (\A y \in S : y <= m) => Max(S) = m
<1> SUFFICES ASSUME NEW S, S \subseteq Int, NEW m \in S, \A y \in S : y <= m PROVE Max(S) = m
  OBVIOUS
<1>1. m \in Int /\ \A y \in S : m >= y
  BY DEF Max
<1>2. Max(S) \in S /\ \A y \in S : Max(S) >= y
  BY <1>1, Zenon DEF Max
<1>3. Max(S) \in Int /\ Max(S) <= m /\ Max(S) >= m
  BY <1>2
<1>4. QED
  BY <1>1, <1>3

LEMMA MinIs == \A S, m : S \subseteq Int /\ m \in S /\ (\A y \in S : m <= y) => Min(S) = m
<1> SUFFICES ASSUME NEW S, S \subseteq Int, NEW m \in S, \A y \in S : m <= y PROVE Min(S) = m
  OBVIOUS
<1>1. Min(S) \in S /\ \A y \in S : Min(S) <= y
  BY Zenon DEF Min
<1>2. m \in Int /\ Min(S) \in Int /\ Min(S) <= m /\ m <= Min(S)
  BY <1>1
<1>3. QED
  BY <1>2

LEMMA MinOfTwo == \A x, y \in Int : Min({x, y}) = IF x <= y THEN x ELSE y
<1> SUFFICES ASSUME NEW x \in Int, NEW y \in Int PROVE Min({x, y}) = IF x <= y THEN x ELSE y
  OBVIOUS
<1> DEFINE S == {x, y}
           m == IF x <= y THEN x ELSE y
<1>1. S \subseteq Int /\ m \in S /\ \A z \in S : m <= z
  OBVIOUS
<1> HIDE DEF S, m
<1>2. Min(S) = m
  BY <1>1, MinIs
<1>3. QED
  BY <1>2 DEF S, m

LEMMA MinElement == \A S : S \subseteq Nat /\ S # {} => Min(S) \in S
<1> SUFFICES ASSUME NEW S, S \subseteq Nat, S # {} PROVE Min(S) \in S
  OBVIOUS
<1>1. PICK m \in S : \A y \in S : m <= y
  BY LeastNatural
<1>2. S \subseteq Int
  OBVIOUS
<1>3. Min(S) = m
  BY <1>1, <1>2, MinIs
<1>4. QED
  BY <1>3

\* The slots of the ring, of which quarantineSize are used.
LEMMA SlotsOfRing ==
  \E m \in Nat : /\ Slots = 0 .. m - 1 /\ Max(QuarantineSizes) = m
                 /\ \A q \in QuarantineSizes : q \in Nat /\ q <= m
<1>1. PICK m \in QuarantineSizes : \A q \in QuarantineSizes : q <= m
  BY SecondaryCacheAssumption
<1>2. QuarantineSizes \subseteq Int /\ QuarantineSizes \subseteq Nat
  BY SecondaryCacheAssumption
<1>3. Max(QuarantineSizes) = m
  BY <1>1, <1>2, MaxIs
<1>4. m \in Nat /\ Slots = 0 .. m - 1
  BY <1>2, <1>3, Zenon DEF Slots
<1>5. QED
  BY <1>1, <1>2, <1>3, <1>4

\* remove(): the entries after the one that is removed move up.
LEMMA Removed ==
  \A s, i : s \in Seq(Blocks) /\ i \in DOMAIN s =>
    LET r == RemoveAt(s, i)
    IN  /\ r \in Seq(Blocks) /\ Len(r) = Len(s) - 1 /\ Len(s) \in Nat
        /\ DOMAIN s = 1 .. Len(s) /\ DOMAIN r = 1 .. Len(s) - 1
        /\ \A j \in 1 .. Len(s) - 1 : r[j] = IF j < i THEN s[j] ELSE s[j + 1]
<1> SUFFICES ASSUME NEW s \in Seq(Blocks), NEW i \in DOMAIN s
             PROVE  LET r == RemoveAt(s, i)
                    IN  /\ r \in Seq(Blocks) /\ Len(r) = Len(s) - 1 /\ Len(s) \in Nat
                        /\ DOMAIN s = 1 .. Len(s) /\ DOMAIN r = 1 .. Len(s) - 1
                        /\ \A j \in 1 .. Len(s) - 1 : r[j] = IF j < i THEN s[j] ELSE s[j + 1]
  OBVIOUS
<1> DEFINE a == SubSeq(s, 1, i - 1)
           c == SubSeq(s, i + 1, Len(s))
<1>1. /\ Len(s) \in Nat /\ DOMAIN s = 1 .. Len(s) /\ i \in 1 .. Len(s) /\ i \in Int
      /\ \A j \in 1 .. Len(s) : s[j] \in Blocks
  OBVIOUS
<1>2. a \in Seq(Blocks) /\ Len(a) = i - 1 /\ \A j \in 1 .. i - 1 : a[j] = s[j]
  <2>1. \A j \in 1 .. i - 1 : s[j] \in Blocks
    BY <1>1
  <2>2. /\ a \in Seq(Blocks) /\ Len(a) = IF 1 <= i - 1 THEN (i - 1) - 1 + 1 ELSE 0
        /\ \A j \in 1 .. (i - 1) - 1 + 1 : a[j] = s[1 + j - 1]
    BY <1>1, <2>1, SubSeqProperties
  <2> HIDE DEF a
  <2>3. QED
    BY <1>1, <2>2
<1>3. c \in Seq(Blocks) /\ Len(c) = Len(s) - i /\ \A j \in 1 .. Len(s) - i : c[j] = s[i + j]
  <2>1. \A j \in i + 1 .. Len(s) : s[j] \in Blocks
    BY <1>1
  <2>2. /\ c \in Seq(Blocks) /\ Len(c) = IF i + 1 <= Len(s) THEN Len(s) - (i + 1) + 1 ELSE 0
        /\ \A j \in 1 .. Len(s) - (i + 1) + 1 : c[j] = s[(i + 1) + j - 1]
    BY <1>1, <2>1, SubSeqProperties
  <2> HIDE DEF c
  <2>3. ASSUME NEW j \in 1 .. Len(s) - i PROVE c[j] = s[i + j]
    <3>1. j \in 1 .. Len(s) - (i + 1) + 1 /\ (i + 1) + j - 1 = i + j
      BY <1>1
    <3>2. QED
      BY <2>2, <3>1
  <2>4. QED
    BY <1>1, <2>2, <2>3
<1> HIDE DEF a, c
<1>4. /\ a \o c \in Seq(Blocks) /\ Len(a \o c) = Len(s) - 1
      /\ \A j \in 1 .. Len(s) - 1 : (a \o c)[j] = IF j < i THEN s[j] ELSE s[j + 1]
  <2>1. /\ a \o c \in Seq(Blocks) /\ Len(a \o c) = Len(a) + Len(c)
        /\ \A j \in 1 .. Len(a) + Len(c) :
             (a \o c)[j] = IF j <= Len(a) THEN a[j] ELSE c[j - Len(a)]
    BY <1>2, <1>3, ConcatProperties
  <2>2. ASSUME NEW j \in 1 .. Len(s) - 1
        PROVE  (a \o c)[j] = IF j < i THEN s[j] ELSE s[j + 1]
    <3>1. CASE j < i
      <4>1. j \in 1 .. i - 1 /\ j \in 1 .. Len(a) + Len(c) /\ j <= Len(a)
        BY <1>1, <1>2, <1>3, <3>1
      <4>2. QED
        BY <1>2, <2>1, <3>1, <4>1
    <3>2. CASE ~(j < i)
      <4>1. PICK k \in 1 .. Len(s) - i : k = j - Len(a) /\ i + k = j + 1
        <5>1. Len(s) \in Nat /\ i \in 1 .. Len(s) /\ Len(a) = i - 1
          BY <1>1, <1>2
        <5>2. j - Len(a) \in 1 .. Len(s) - i /\ i + (j - Len(a)) = j + 1
          BY ONLY <2>2, <3>2, <5>1
        <5>3. QED
          BY ONLY <5>2
      <4>2. j \in 1 .. Len(a) + Len(c) /\ ~(j <= Len(a))
        BY <1>1, <1>2, <1>3, <3>2
      <4>3. (a \o c)[j] = c[k]
        BY <2>1, <4>1, <4>2
      <4>4. c[k] = s[j + 1]
        BY <1>3, <4>1
      <4>5. QED
        BY <3>2, <4>3, <4>4
    <3>3. QED
      BY <3>1, <3>2
  <2>3. QED
    BY <1>1, <1>2, <1>3, <2>1, <2>2
<1>5. RemoveAt(s, i) = a \o c
  BY DEF RemoveAt, a, c
<1>6. DOMAIN (a \o c) = 1 .. Len(s) - 1
  BY <1>4
<1>7. QED
  BY <1>1, <1>4, <1>5, <1>6

\* insert() at the front of the first n entries.
LEMMA Inserted ==
  \A s, e, n : s \in Seq(Blocks) /\ e \in Blocks /\ n \in 0 .. Len(s) =>
    LET kept == SubSeq(s, 1, n)
        r == <<e>> \o kept
    IN  /\ r \in Seq(Blocks) /\ Len(r) = n + 1 /\ DOMAIN r = 1 .. n + 1
        /\ r[1] = e /\ \A j \in 2 .. n + 1 : r[j] = s[j - 1]
        /\ DOMAIN kept = 1 .. n /\ Len(kept) = n /\ \A j \in 1 .. n : kept[j] = s[j]
        /\ (kept = <<>> <=> n = 0)
<1> SUFFICES ASSUME NEW s \in Seq(Blocks), NEW e \in Blocks, NEW n \in 0 .. Len(s)
             PROVE  LET kept == SubSeq(s, 1, n)
                        r == <<e>> \o kept
                    IN  /\ r \in Seq(Blocks) /\ Len(r) = n + 1 /\ DOMAIN r = 1 .. n + 1
                        /\ r[1] = e /\ \A j \in 2 .. n + 1 : r[j] = s[j - 1]
                        /\ DOMAIN kept = 1 .. n /\ Len(kept) = n /\ \A j \in 1 .. n : kept[j] = s[j]
                        /\ (kept = <<>> <=> n = 0)
  BY Zenon
<1> DEFINE kept == SubSeq(s, 1, n)
           r == <<e>> \o kept
<1>1. kept \in Seq(Blocks) /\ Len(kept) = n /\ DOMAIN kept = 1 .. n /\ \A j \in 1 .. n : kept[j] = s[j]
  <2>1. n \in Int /\ Len(s) \in Nat /\ \A j \in 1 .. n : s[j] \in Blocks
    OBVIOUS
  <2>2. /\ kept \in Seq(Blocks) /\ Len(kept) = IF 1 <= n THEN n - 1 + 1 ELSE 0
        /\ \A j \in 1 .. n - 1 + 1 : kept[j] = s[1 + j - 1]
    BY <2>1, SubSeqProperties
  <2> HIDE DEF kept
  <2>3. QED
    BY <2>1, <2>2
<1> HIDE DEF kept
<1>2. kept = <<>> <=> n = 0
  BY <1>1
<1>3. /\ r \in Seq(Blocks) /\ Len(r) = 1 + n
      /\ \A j \in 1 .. 1 + n : r[j] = IF j <= 1 THEN <<e>>[j] ELSE kept[j - 1]
  <2>1. <<e>> \in Seq(Blocks) /\ Len(<<e>>) = 1
    OBVIOUS
  <2>2. QED
    BY <1>1, <2>1, ConcatProperties
<1>4. r[1] = e
  BY <1>3
<1> HIDE DEF r
<1>5. DOMAIN r = 1 .. n + 1 /\ \A j \in 2 .. n + 1 : r[j] = s[j - 1]
  BY <1>1, <1>3
<1>6. QED
  BY <1>1, <1>2, <1>3, <1>4, <1>5 DEF kept, r
-----------------------------------------------------------------------------
(***************************************************************************)
(* What does not change.                                                   *)
(***************************************************************************)
\* A place depends on the lists, on the blocks in use and on the hands.
LEMMA SamePlaces ==
  ASSUME Places, UNCHANGED <<lru, quarantine, inUse, size, block, evicted>> PROVE Places'
  BY DEF Places, Cached, Quarantined, Hand

\* The orders depend on the lists and on the times of what is in them.
LEMMA SameOrder ==
  ASSUME CacheTypes, RingOrder, CacheOrder,
         UNCHANGED <<lru, quarantine, quarantinePos, quarantineSize, oldest>>,
         \A b \in Cached \union Quarantined : time'[b] = time[b]
  PROVE  RingOrder' /\ CacheOrder'
<1>1. \A i \in DOMAIN lru : time'[lru[i]] = time[lru[i]]
  BY DEF Cached, ToSet
<1>2. \A i \in Slots : quarantine[i] # None => time'[quarantine[i]] = time[quarantine[i]]
  BY DEF Quarantined
<1>3. RingOrder'
  BY <1>1, <1>2 DEF RingOrder, Newer
<1>4. CacheOrder'
  BY <1>1 DEF CacheOrder
<1>5. QED
  BY <1>3, <1>4

\* Steps that leave the blocks and the lists alone.
LEMMA SameBlocks ==
  ASSUME Types, Places, RingOrder, CacheOrder,
         UNCHANGED <<blocks, cache, quarantineSize, block, evicted>>
  PROVE  BlockTypes' /\ CacheTypes' /\ Places' /\ RingOrder' /\ CacheOrder'
<1>1. /\ UNCHANGED <<inUse, size, inaccessible, dirty, time>>
      /\ UNCHANGED <<lru, quarantine, quarantinePos, oldest>>
  BY DEF blocks, cache
<1>2. BlockTypes' /\ CacheTypes'
  BY <1>1 DEF Types, BlockTypes, CacheTypes
<1>3. Places'
  BY <1>1, SamePlaces
<1>4. RingOrder' /\ CacheOrder'
  BY <1>1, SameOrder DEF Types
<1>5. QED
  BY <1>2, <1>3, <1>4

\* A step of one thread: while an option is being cleared, no operation starts.
LEMMA OneThread ==
  ASSUME ThreadTypes, Control, NEW t \in Threads, NEW l, pc' = [pc EXCEPT ![t] = l],
         \A u \in Threads \ {t} :
           options'[u] = options[u] /\ block'[u] = block[u] /\ evicted'[u] = evicted[u],
         useTagging' = useTagging, maxEntries' = maxEntries,
         pc[t] \in {"idle", "disabled"} =>
           l \in {"idle", "disabled"} \/ \A u \in Threads : pc[u] # "clear",
         ThreadControl(t)'
  PROVE  Control'
<1> SUFFICES ASSUME NEW u \in Threads, u # t PROVE ThreadControl(u)'
  BY DEF Control
<1>1. /\ pc'[t] = l /\ \A v \in Threads \ {t} : pc'[v] = pc[v]
      /\ options'[u] = options[u] /\ block'[u] = block[u] /\ evicted'[u] = evicted[u]
  BY DEF ThreadTypes
<1>2. pc[u] = "clear" => l \in {"idle", "disabled"}
  BY DEF Control, ThreadControl
<1>3. QED
  BY <1>1, <1>2 DEF Control, ThreadControl, InOperation
-----------------------------------------------------------------------------
(***************************************************************************)
(* The steps.                                                              *)
(***************************************************************************)
LEMMA InitIInv == ASSUME Init PROVE IInv
<1>1. /\ inUse = {} /\ lru = <<>> /\ oldest = None /\ now = 1 /\ quarantinePos = 0
      /\ size = [b \in Blocks |-> 0] /\ time = [b \in Blocks |-> 0]
      /\ inaccessible = [b \in Blocks |-> FALSE] /\ dirty = [b \in Blocks |-> FALSE]
      /\ quarantine = [i \in Slots |-> None]
      /\ pc = [t \in Threads |-> "idle"] /\ block = [t \in Threads |-> None]
      /\ evicted = [t \in Threads |-> {}]
  BY DEF Init
<1>2. Cached = {} /\ Quarantined = {} /\ \A t \in Threads : Hand(t) = {}
  BY <1>1 DEF Cached, Quarantined, ToSet, Hand
<1>3. Types
  <2>1. BlockTypes
    BY <1>1 DEF BlockTypes
  <2>2. CacheTypes
    BY <1>1, SecondaryCacheAssumption DEF CacheTypes
  <2>3. SettingTypes
    BY SecondaryCacheAssumption DEF SettingTypes, Init
  <2>4. NoOptions \in Snapshots
    BY DEF NoOptions, Snapshots
  <2>5. ThreadTypes
    BY <1>1, <2>4 DEF ThreadTypes, Labels, Init
  <2>6. QED
    BY <2>1, <2>2, <2>3, <2>5 DEF Types
<1>4. Control
  BY <1>1 DEF Control, ThreadControl, InOperation
<1>5. Places
  BY <1>1, <1>2 DEF Places
<1>6. Access
  BY <1>1 DEF Access
<1>7. Times
  BY <1>1, <1>2 DEF Times
<1>8. RingOrder
  BY <1>1, SlotsOfRing, SecondaryCacheAssumption DEF RingOrder, Init
<1>9. CacheOrder
  BY <1>1 DEF CacheOrder
<1>10. QED
  BY <1>3, <1>4, <1>5, <1>6, <1>7, <1>8, <1>9 DEF IInv

\* MapAllocator::allocate() reads the settings.
LEMMA AllocateKept == ASSUME ~Races, IInv, NEW t \in Threads, Allocate(t) PROVE IInv'
<1>1. /\ pc[t] = "idle" /\ \A u \in Threads : pc[u] # "clear"
      /\ UNCHANGED <<owner, blocks, cache, settings, now, block, evicted, stamp>>
  BY DEF Allocate, MayStart
<1>2. PICK n \in Sizes, l \in {"retrieve", "map"} :
        options' = [options EXCEPT ![t] = Snapshot(n)] /\ pc' = [pc EXCEPT ![t] = l]
  BY DEF Allocate, Read, Goto
<1>3. UNCHANGED <<quarantineSize, maxEntries, interval, useTagging>>
      /\ UNCHANGED <<inUse, size, inaccessible, dirty, time>>
      /\ UNCHANGED <<lru, quarantine, quarantinePos, oldest>>
  BY <1>1 DEF settings, blocks, cache
<1>4. BlockTypes' /\ CacheTypes' /\ Places' /\ RingOrder' /\ CacheOrder'
  BY <1>1, <1>3, SameBlocks DEF IInv
<1>5. Snapshot(n) \in Snapshots /\ Snapshot(n).tagging = useTagging /\ Snapshot(n).need = n
  BY SecondaryCacheAssumption DEF Snapshot, Snapshots, IInv, Types, SettingTypes
<1>6. SettingTypes'
  BY <1>1, <1>3 DEF IInv, Types, SettingTypes
<1>7. ThreadTypes'
  BY <1>1, <1>2, <1>5 DEF IInv, Types, ThreadTypes, Labels
<1>8. Control'
  <2>1. pc'[t] = l /\ options'[t] = Snapshot(n)
    BY <1>2 DEF IInv, Types, ThreadTypes
  <2>2. ThreadControl(t)'
    BY <1>1, <1>3, <1>5, <2>1 DEF IInv, Control, ThreadControl, InOperation
  <2>3. \A u \in Threads \ {t} : options'[u] = options[u]
    BY <1>2 DEF IInv, Types, ThreadTypes
  <2>4. QED
    BY <1>1, <1>2, <1>3, <2>2, <2>3, OneThread DEF IInv, Types
<1>9. \A u \in Threads : pc'[u] \in {"clear", "store"} => pc[u] = pc'[u]
  BY <1>2 DEF IInv, Types, ThreadTypes
<1>10. Access'
  BY <1>1, <1>3, <1>9 DEF IInv, Access
<1>11. Times'
  BY <1>1, <1>3, <1>9 DEF IInv, Times, Cached, Quarantined
<1>12. QED
  BY <1>4, <1>6, <1>7, <1>8, <1>10, <1>11 DEF IInv, Types

\* What a thread that uses or stores a block has in its hand.
LEMMA InHand ==
  ASSUME Types, Control, Places, NEW t \in Threads, pc[t] \in {"use", "store"}
  PROVE  /\ block[t] \in Blocks /\ block[t] # None /\ evicted[t] = {} /\ Hand(t) = {block[t]}
         /\ block[t] \notin Cached /\ block[t] \notin Quarantined /\ block[t] \notin inUse
         /\ size[block[t]] # 0
         /\ \A u \in Threads : u # t => block[t] \notin Hand(u) /\ block[u] # block[t] /\ pc[u] # "clear"
<1>1. block[t] \in Blocks /\ block[t] # None /\ evicted[t] = {}
  BY DEF Types, ThreadTypes, Control, ThreadControl
<1>2. Hand(t) = {block[t]}
  BY <1>1 DEF Hand
<1>3. /\ block[t] \notin Cached /\ block[t] \notin Quarantined /\ block[t] \notin inUse
      /\ size[block[t]] # 0 /\ \A u \in Threads : u # t => block[t] \notin Hand(u)
  BY <1>1, <1>2 DEF Places
<1>4. \A u \in Threads : u # t => block[u] # block[t]
  BY <1>1, <1>3 DEF Hand
<1>5. \A u \in Threads : u # t => pc[u] # "clear"
  BY DEF Control, ThreadControl
<1>6. QED
  BY <1>1, <1>2, <1>3, <1>4, <1>5

\* The user gets the block that was taken out of the cache.
LEMMA UseKept == ASSUME IInv, NEW t \in Threads, Use(t) PROVE IInv'
<1> DEFINE x == block[t]
<1>1. /\ pc[t] = "use" /\ UNCHANGED <<owner, size, cache, settings, now, evicted, stamp>>
      /\ inUse' = inUse \union {x} /\ time' = [time EXCEPT ![x] = 0]
      /\ inaccessible' = [inaccessible EXCEPT ![x] = @ /\ ~options[t].tagging]
      /\ dirty' = [dirty EXCEPT ![x] = TRUE]
      /\ block' = [block EXCEPT ![t] = None] /\ options' = [options EXCEPT ![t] = NoOptions]
      /\ pc' = [pc EXCEPT ![t] = "idle"]
  BY DEF Use, Hold, Read, Goto, RestoresPermission
<1>2. UNCHANGED <<quarantineSize, maxEntries, interval, useTagging>>
      /\ UNCHANGED <<lru, quarantine, quarantinePos, oldest>>
  BY <1>1 DEF settings, cache
<1>3. /\ x \in Blocks /\ x # None /\ evicted[t] = {} /\ Hand(t) = {x}
      /\ x \notin Cached /\ x \notin Quarantined /\ x \notin inUse /\ size[x] # 0
      /\ \A u \in Threads : u # t => x \notin Hand(u) /\ block[u] # x /\ pc[u] # "clear"
  BY <1>1, InHand DEF IInv
<1> HIDE DEF x
<1>4. Types'
  <2>1. BlockTypes'
    BY <1>1, <1>3 DEF IInv, Types, BlockTypes
  <2>2. CacheTypes' /\ SettingTypes'
    BY <1>1, <1>2 DEF IInv, Types, CacheTypes, SettingTypes
  <2>3. NoOptions \in Snapshots
    BY DEF NoOptions, Snapshots
  <2>4. ThreadTypes'
    BY <1>1, <2>3 DEF IInv, Types, ThreadTypes, Labels
  <2>5. QED
    BY <2>1, <2>2, <2>4 DEF Types
<1>5. \A u \in Threads : u # t => pc'[u] = pc[u] /\ block'[u] = block[u] /\ options'[u] = options[u]
  BY <1>1 DEF IInv, Types, ThreadTypes
<1>6. pc'[t] = "idle" /\ block'[t] = None
  BY <1>1 DEF IInv, Types, ThreadTypes
<1>7. Control'
  <2>1. ThreadControl(t)'
    BY <1>1, <1>3, <1>6 DEF ThreadControl, InOperation
  <2>2. QED
    BY <1>1, <1>2, <1>5, <2>1, OneThread DEF IInv, Types
<1>8. Places'
  <2>1. Cached' = Cached /\ Quarantined' = Quarantined
    BY <1>2 DEF Cached, Quarantined
  <2>2. Hand(t)' = {} /\ \A u \in Threads : u # t => Hand(u)' = Hand(u)
    BY <1>1, <1>3, <1>5, <1>6 DEF Hand
  <2>3. QED
    BY <1>1, <1>2, <1>3, <2>1, <2>2 DEF IInv, Places
<1>9. Access'
  <2>1. options[t].tagging = useTagging /\ useTagging \in BOOLEAN
    BY <1>1 DEF IInv, Control, ThreadControl, InOperation, Types, SettingTypes
  <2>2. \A b \in Blocks : b # x => inaccessible'[b] = inaccessible[b]
    BY <1>1 DEF IInv, Types, BlockTypes
  <2>3. ~inaccessible'[x]
    <3>1. inaccessible'[x] = (inaccessible[x] /\ ~useTagging)
      BY <1>1, <1>3, <2>1 DEF IInv, Types, BlockTypes
    <3>2. QED
      BY <1>3, <2>1, <3>1 DEF IInv, Access
  <2>4. \A u \in Threads : pc'[u] # "clear"
    BY <1>3, <1>5, <1>6
  <2>5. QED
    BY <1>1, <1>2, <2>2, <2>3, <2>4 DEF IInv, Access
<1>10. \A b \in Blocks : b # x => time'[b] = time[b] /\ dirty'[b] = dirty[b]
  BY <1>1 DEF IInv, Types, BlockTypes
<1>11. Times'
  <2>1. time'[x] = 0 /\ 0 <= now
    BY <1>1, <1>3 DEF IInv, Types, BlockTypes, SettingTypes
  <2>2. \A u \in Threads : block'[u] # x
    BY <1>3, <1>5, <1>6
  <2>3. \A u \in Threads : pc'[u] = "store" => pc[u] = "store" /\ block'[u] = block[u] /\ block[u] \in Blocks
    BY <1>5, <1>6, InHand DEF IInv
  <2>4. Cached' = Cached /\ Quarantined' = Quarantined
    BY <1>2 DEF Cached, Quarantined
  <2>5. \A b \in Blocks : (\E u \in Threads : block'[u] = b) => b # x /\ \E u \in Threads : block[u] = b
    BY <1>3, <1>5, <1>6, <2>2, SecondaryCacheAssumption
  <2>6. \A b \in Blocks : time'[b] <= now'
    BY <1>1, <1>10, <2>1 DEF IInv, Times
  <2>7. useTagging' /\ interval' = 0 => \A b \in Blocks \ inUse' : time'[b] = 0
    BY <1>1, <1>2, <1>10, <2>1 DEF IInv, Times
  <2>8. ASSUME NEW u \in Threads, pc'[u] = "store", time'[block'[u]] = 0
        PROVE  useTagging' /\ interval' = 0
    <3>1. pc[u] = "store" /\ time[block[u]] = 0
      BY <1>10, <2>2, <2>3, <2>8
    <3>2. QED
      BY <1>2, <3>1 DEF IInv, Times
  <2>9. ASSUME NEW b \in Blocks, time'[b] = 0,
               b \in Cached' \/ b \in Quarantined' \/ \E u \in Threads : block'[u] = b
        PROVE  ~dirty'[b]
    <3>1. b # x /\ (b \in Cached \/ b \in Quarantined \/ \E u \in Threads : block[u] = b)
      BY <1>3, <2>4, <2>5, <2>9
    <3>2. time[b] = 0 /\ dirty'[b] = dirty[b]
      BY <1>10, <2>9, <3>1
    <3>3. QED
      BY <3>1, <3>2 DEF IInv, Times
  <2>10. QED
    BY <2>6, <2>7, <2>8, <2>9 DEF Times
<1>12. RingOrder' /\ CacheOrder'
  <2>1. \A b \in Cached \union Quarantined : b \in Blocks /\ b # x
    BY <1>3 DEF IInv, Types, CacheTypes, Cached, Quarantined, ToSet
  <2>2. QED
    BY <1>2, <1>10, <2>1, SameOrder DEF IInv, Types
<1>13. QED
  BY <1>4, <1>7, <1>8, <1>9, <1>11, <1>12 DEF IInv

\* What the clock and the settings promise, when both keep and no block gets dirty
\* that may be found with time zero.
LEMMA TimesKept ==
  ASSUME Times, UNCHANGED <<interval, useTagging>>,
         \A b \in Blocks : time'[b] <= now',
         \A b \in Blocks \ inUse' : useTagging /\ interval = 0 => time'[b] = 0,
         \A u \in Threads : pc'[u] = "store" /\ time'[block'[u]] = 0 =>
           (pc[u] = "store" /\ time[block[u]] = 0) \/ (useTagging /\ interval = 0),
         \A b \in Blocks :
           /\ time'[b] = 0
           /\ b \in Cached' \/ b \in Quarantined' \/ \E u \in Threads : block'[u] = b
           => \/ ~dirty'[b]
              \/ /\ time[b] = 0 /\ (dirty'[b] => dirty[b])
                 /\ b \in Cached \/ b \in Quarantined \/ \E u \in Threads : block[u] = b
  PROVE  Times'
<1>1. useTagging' /\ interval' = 0 => \A b \in Blocks \ inUse' : time'[b] = 0
  OBVIOUS
<1>2. \A u \in Threads : pc'[u] = "store" /\ time'[block'[u]] = 0 => useTagging' /\ interval' = 0
  BY DEF Times
<1>3. \A b \in Blocks :
        /\ time'[b] = 0
        /\ b \in Cached' \/ b \in Quarantined' \/ \E u \in Threads : block'[u] = b
        => ~dirty'[b]
  BY DEF Times
<1>4. QED
  BY <1>1, <1>2, <1>3 DEF Times

\* A new mapping for the user.
LEMMA MapKept == ASSUME IInv, NEW t \in Threads, Map(t) PROVE IInv'
<1>1. /\ pc[t] = "map" /\ pc' = [pc EXCEPT ![t] = "idle"] /\ options' = [options EXCEPT ![t] = NoOptions]
      /\ UNCHANGED <<owner, inaccessible, time, cache, settings, now, block, evicted, stamp>>
  BY DEF Map, Read, Goto
<1>2. UNCHANGED <<quarantineSize, maxEntries, interval, useTagging>>
      /\ UNCHANGED <<lru, quarantine, quarantinePos, oldest>>
  BY <1>1 DEF settings, cache
<1>3. options[t].need \in Sizes /\ block[t] = None /\ evicted[t] = {}
      /\ \A u \in Threads : pc[u] # "clear"
  BY <1>1 DEF IInv, Control, ThreadControl, Types, ThreadTypes
<1>4. PICK X \in SUBSET Blocks :
        /\ \A b \in X : size[b] = 0
        /\ inUse' = inUse \union X
        /\ dirty' = [b \in Blocks |-> IF b \in X THEN TRUE ELSE dirty[b]]
        /\ size' = [b \in Blocks |-> IF b \in X THEN options[t].need ELSE size[b]]
  <2>1. CASE UNCHANGED <<size, inUse, dirty>>
    <3>1. WITNESS {} \in SUBSET Blocks
    <3>2. QED
      BY <2>1 DEF IInv, Types, BlockTypes
  <2>2. ASSUME NEW b \in Blocks, size[b] = 0, size' = [size EXCEPT ![b] = options[t].need],
               inUse' = inUse \union {b}, dirty' = [dirty EXCEPT ![b] = TRUE]
        PROVE  \E X \in SUBSET Blocks :
                 /\ \A c \in X : size[c] = 0
                 /\ inUse' = inUse \union X
                 /\ dirty' = [c \in Blocks |-> IF c \in X THEN TRUE ELSE dirty[c]]
                 /\ size' = [c \in Blocks |-> IF c \in X THEN options[t].need ELSE size[c]]
    <3>1. WITNESS {b} \in SUBSET Blocks
    <3>2. QED
      BY <2>2 DEF IInv, Types, BlockTypes
  <2>3. QED
    BY <2>1, <2>2 DEF Map
<1>5. \A b \in X : b \in Blocks /\ b \notin Cached /\ b \notin Quarantined /\ b \notin inUse
                     /\ \A u \in Threads : b \notin Hand(u)
  BY <1>4 DEF IInv, Places
<1>6. Types'
  <2>1. BlockTypes'
    BY <1>1, <1>3, <1>4 DEF IInv, Types, BlockTypes
  <2>2. CacheTypes' /\ SettingTypes'
    BY <1>1, <1>2 DEF IInv, Types, CacheTypes, SettingTypes
  <2>3. NoOptions \in Snapshots
    BY DEF NoOptions, Snapshots
  <2>4. ThreadTypes'
    BY <1>1, <2>3 DEF IInv, Types, ThreadTypes, Labels
  <2>5. QED
    BY <2>1, <2>2, <2>4 DEF Types
<1>7. /\ pc'[t] = "idle" /\ \A u \in Threads \ {t} : pc'[u] = pc[u] /\ options'[u] = options[u]
  BY <1>1 DEF IInv, Types, ThreadTypes
<1>8. Control'
  <2>1. ThreadControl(t)'
    BY <1>1, <1>3, <1>7 DEF ThreadControl, InOperation
  <2>2. QED
    BY <1>1, <1>2, <1>7, <2>1, OneThread DEF IInv, Types
<1>9. Cached' = Cached /\ Quarantined' = Quarantined /\ \A u \in Threads : Hand(u)' = Hand(u)
  BY <1>1, <1>2 DEF Cached, Quarantined, Hand
<1>10. Places'
  <2>1. \A b \in Blocks : size'[b] # 0 <=> size[b] # 0 \/ b \in X
    BY <1>3, <1>4, SecondaryCacheAssumption
  <2>2. QED
    BY <1>2, <1>4, <1>5, <1>9, <2>1 DEF IInv, Places
<1>11. Access'
  <2>1. \A u \in Threads : pc'[u] # "clear"
    BY <1>3, <1>7
  <2>2. ASSUME NEW b \in Blocks, size'[b] = 0 \/ b \in inUse' PROVE size[b] = 0 \/ b \in inUse
    BY <1>3, <1>4, <2>2, SecondaryCacheAssumption
  <2>3. QED
    BY <1>1, <1>2, <2>1, <2>2 DEF IInv, Access
<1>12. Times'
  <2>1. \A b \in Blocks : b \notin X => dirty'[b] = dirty[b]
    BY <1>4
  <2>2. \A b \in X : \A u \in Threads : block[u] # b
    BY <1>5, SecondaryCacheAssumption DEF Hand
  <2>3. ASSUME NEW b \in Blocks, b \in Cached' \/ b \in Quarantined' \/ \E u \in Threads : block'[u] = b
        PROVE  dirty'[b] = dirty[b]
               /\ (b \in Cached \/ b \in Quarantined \/ \E u \in Threads : block[u] = b)
    BY <1>1, <1>5, <1>9, <2>1, <2>2, <2>3
  <2>4. \A b \in Blocks \ inUse' : useTagging /\ interval = 0 => time'[b] = 0
    BY <1>1, <1>4 DEF IInv, Times
  <2>5. \A u \in Threads : pc'[u] = "store" => pc[u] = "store" /\ block'[u] = block[u]
    BY <1>1, <1>7
  <2>6. QED
    BY <1>1, <1>2, <2>3, <2>4, <2>5, TimesKept DEF IInv, Times
<1>13. RingOrder' /\ CacheOrder'
  BY <1>1, <1>2, SameOrder DEF IInv, Types
<1>14. QED
  BY <1>6, <1>8, <1>10, <1>11, <1>12, <1>13 DEF IInv

\* Retrievable() is an entry of the cache.
LEMMA RetrievableEntry ==
  ASSUME Types, NEW t \in Threads, NEW i \in Retrievable(t) PROVE i \in DOMAIN lru
<1> DEFINE n       == options[t].need
           fitting == {j \in DOMAIN lru : Diff(j, n) \in 0 .. MaxAllowedFragmentedPages(t)}
           optimal == {j \in fitting : 10 * Diff(j, n) <= n}
<1>1. CASE optimal # {}
  <2>1. Retrievable(t) = {Min(optimal)}
    BY <1>1, Zenon DEF Retrievable
  <2>2. lru \in Seq(Blocks) /\ optimal \subseteq DOMAIN lru
    BY DEF Types, CacheTypes
  <2> HIDE DEF optimal, fitting
  <2>3. optimal \subseteq Nat
    BY <2>2
  <2>4. Min(optimal) \in optimal
    BY <1>1, <2>3, MinElement
  <2>5. QED
    BY <2>1, <2>2, <2>4
<1>2. CASE optimal = {}
  <2>1. Retrievable(t) \subseteq fitting
    BY <1>2, Zenon DEF Retrievable
  <2> HIDE DEF optimal
  <2>2. QED
    BY <2>1
<1>3. QED
  BY <1>1, <1>2

\* A removal takes the one place of the entry.
LEMMA RemovedPlace ==
  \A s, i :
    s \in Seq(Blocks) /\ i \in DOMAIN s /\ (\A j, k \in DOMAIN s : s[j] = s[k] => j = k) =>
      LET r == RemoveAt(s, i)
      IN  /\ \A b : b \in ToSet(r) <=> b \in ToSet(s) /\ b # s[i]
          /\ \A j, k \in DOMAIN r : r[j] = r[k] => j = k
<1> SUFFICES ASSUME NEW s \in Seq(Blocks), NEW i \in DOMAIN s,
                    \A j, k \in DOMAIN s : s[j] = s[k] => j = k
             PROVE  LET r == RemoveAt(s, i)
                    IN  /\ \A b : b \in ToSet(r) <=> b \in ToSet(s) /\ b # s[i]
                        /\ \A j, k \in DOMAIN r : r[j] = r[k] => j = k
  BY Zenon
<1> DEFINE r == RemoveAt(s, i)
<1>1. /\ Len(s) \in Nat /\ DOMAIN s = 1 .. Len(s) /\ DOMAIN r = 1 .. Len(s) - 1
      /\ \A j \in 1 .. Len(s) - 1 : r[j] = IF j < i THEN s[j] ELSE s[j + 1]
  BY Removed
<1> HIDE DEF r
<1>2. ASSUME NEW j \in DOMAIN r PROVE r[j] \in ToSet(s) /\ r[j] # s[i]
  BY <1>1 DEF ToSet
<1>3. ASSUME NEW k \in DOMAIN s, s[k] # s[i] PROVE s[k] \in ToSet(r)
  <2>1. CASE k < i
    BY <1>1, <2>1 DEF ToSet
  <2>2. CASE k > i
    <3>1. k - 1 \in DOMAIN r /\ r[k - 1] = s[k]
      BY <1>1, <2>2
    <3>2. QED
      BY <3>1 DEF ToSet
  <2>3. QED
    BY <1>1, <1>3, <2>1, <2>2
<1>4. ASSUME NEW j \in DOMAIN r, NEW k \in DOMAIN r, r[j] = r[k] PROVE j = k
  <2>1. CASE j < i /\ k < i
    BY <1>1, <1>4, <2>1
  <2>2. CASE j < i /\ k >= i
    <3>1. j \in DOMAIN s /\ k + 1 \in DOMAIN s /\ s[j] = s[k + 1]
      BY <1>1, <1>4, <2>2
    <3>2. j = k + 1
      BY <3>1
    <3>3. QED
      BY <1>1, <2>2, <3>2
  <2>3. CASE j >= i /\ k < i
    <3>1. j + 1 \in DOMAIN s /\ k \in DOMAIN s /\ s[j + 1] = s[k]
      BY <1>1, <1>4, <2>3
    <3>2. j + 1 = k
      BY <3>1
    <3>3. QED
      BY <1>1, <2>3, <3>2
  <2>4. CASE j >= i /\ k >= i
    <3>1. j + 1 \in DOMAIN s /\ k + 1 \in DOMAIN s /\ s[j + 1] = s[k + 1]
      BY <1>1, <1>4, <2>4
    <3>2. QED
      BY <1>1, <3>1
  <2>5. QED
    BY <1>1, <2>1, <2>2, <2>3, <2>4
<1>5. \A b : b \in ToSet(r) <=> b \in ToSet(s) /\ b # s[i]
  BY <1>2, <1>3 DEF ToSet
<1>6. QED
  BY <1>4, <1>5 DEF r

\* remove() keeps the order of the cache and the mark of the oldest entry.
LEMMA RemovedOrder ==
  ASSUME Types, Places, CacheOrder, RingOrder, NEW i \in DOMAIN lru, remove(i), time' = time,
         UNCHANGED <<quarantine, quarantinePos, quarantineSize>>
  PROVE  CacheTypes' /\ CacheOrder' /\ RingOrder'
<1>1. lru' = RemoveAt(lru, i) /\ oldest' = IF oldest = lru[i] THEN Before(i) ELSE oldest
  BY DEF remove
<1>2. /\ lru' \in Seq(Blocks) /\ Len(lru') = Len(lru) - 1 /\ Len(lru) \in Nat
      /\ DOMAIN lru = 1 .. Len(lru) /\ DOMAIN lru' = 1 .. Len(lru) - 1
      /\ \A j \in 1 .. Len(lru) - 1 : lru'[j] = IF j < i THEN lru[j] ELSE lru[j + 1]
  BY <1>1, Removed, Zenon DEF Types, CacheTypes
<1>3. /\ \A j \in DOMAIN lru : lru[j] \in Blocks /\ time[lru[j]] \in Nat
      /\ \A j, k \in DOMAIN lru : lru[j] = lru[k] => j = k
      /\ None \notin Blocks
  <2>1. lru \in Seq(Blocks) /\ time \in [Blocks -> Nat]
    BY Zenon DEF Types, CacheTypes, BlockTypes
  <2>2. \A j \in DOMAIN lru : lru[j] \in Blocks
    BY <2>1
  <2>3. \A j \in DOMAIN lru : time[lru[j]] \in Nat
    BY <2>1, <2>2
  <2>4. \A j, k \in DOMAIN lru : lru[j] = lru[k] => j = k
    BY Zenon DEF Places
  <2>5. QED
    BY <2>2, <2>3, <2>4, SecondaryCacheAssumption
<1>4. \A j \in DOMAIN lru' : \E k \in DOMAIN lru : lru'[j] = lru[k]
  <2> TAKE j \in DOMAIN lru'
  <2>1. CASE j < i
    <3>1. j \in DOMAIN lru /\ lru'[j] = lru[j]
      BY <1>2, <2>1
    <3>2. QED
      BY <3>1
  <2>2. CASE j >= i
    <3>1. j + 1 \in DOMAIN lru /\ lru'[j] = lru[j + 1]
      BY <1>2, <2>2
    <3>2. QED
      BY <3>1
  <2>3. QED
    BY <1>2, <2>1, <2>2
<1>5. ASSUME NEW j \in DOMAIN lru', NEW k \in DOMAIN lru', j < k
      PROVE  time[lru'[j]] >= time[lru'[k]]
  <2> DEFINE p == IF j < i THEN j ELSE j + 1
             q == IF k < i THEN k ELSE k + 1
  <2>1. p \in DOMAIN lru /\ q \in DOMAIN lru /\ p < q
    <3>1. /\ j \in 1 .. Len(lru) - 1 /\ k \in 1 .. Len(lru) - 1 /\ i \in 1 .. Len(lru)
          /\ Len(lru) \in Nat /\ DOMAIN lru = 1 .. Len(lru)
      BY <1>2
    <3>2. p \in 1 .. Len(lru) /\ q \in 1 .. Len(lru) /\ p < q
      BY ONLY <1>5, <3>1
    <3>3. QED
      BY <3>1, <3>2
  <2>2. lru'[j] = lru[p] /\ lru'[k] = lru[q]
    <3>1. j \in 1 .. Len(lru) - 1 /\ k \in 1 .. Len(lru) - 1
      BY <1>2
    <3>2. lru'[j] = IF j < i THEN lru[j] ELSE lru[j + 1]
      BY <1>2, <3>1
    <3>3. lru'[k] = IF k < i THEN lru[k] ELSE lru[k + 1]
      BY <1>2, <3>1
    <3>4. QED
      BY <3>2, <3>3
  <2> HIDE DEF p, q
  <2>3. time[lru[p]] >= time[lru[q]]
    BY <2>1 DEF CacheOrder
  <2>4. QED
    BY <2>2, <2>3
<1>6. \/ oldest' = None /\ \A j \in DOMAIN lru' : time[lru'[j]] = 0
      \/ \E m \in DOMAIN lru' :
           /\ oldest' = lru'[m] /\ time[lru'[m]] # 0
           /\ \A j \in DOMAIN lru' : j > m => time[lru'[j]] = 0
  <2>1. CASE oldest = None
    <3>1. \A j \in DOMAIN lru : time[lru[j]] = 0
      BY <1>3, <2>1 DEF CacheOrder
    <3>2. oldest' = None
      BY <1>1, <1>3, <2>1
    <3>3. QED
      BY <1>4, <3>1, <3>2
  <2>2. ASSUME NEW m \in DOMAIN lru, oldest = lru[m], time[lru[m]] # 0,
               \A j \in DOMAIN lru : j > m => time[lru[j]] = 0
        PROVE  \/ oldest' = None /\ \A j \in DOMAIN lru' : time[lru'[j]] = 0
               \/ \E n \in DOMAIN lru' :
                    /\ oldest' = lru'[n] /\ time[lru'[n]] # 0
                    /\ \A j \in DOMAIN lru' : j > n => time[lru'[j]] = 0
    <3>1. CASE m = i /\ i = 1
      <4>1. oldest' = None
        BY <1>1, <2>2, <3>1 DEF Before
      <4>2. \A j \in DOMAIN lru' : time[lru'[j]] = 0
        BY <1>2, <2>2, <3>1
      <4>3. QED
        BY <4>1, <4>2
    <3>2. CASE m = i /\ i # 1
      <4>1. oldest' = lru[i - 1] /\ i - 1 \in DOMAIN lru /\ i - 1 \in DOMAIN lru' /\ lru'[i - 1] = lru[i - 1]
        BY <1>1, <1>2, <2>2, <3>2 DEF Before
      <4>2. time[lru[i - 1]] >= time[lru[i]] /\ time[lru[i]] # 0
        BY <1>2, <2>2, <3>2, <4>1 DEF CacheOrder
      <4>3. time[lru[i - 1]] # 0
        BY <1>3, <4>1, <4>2
      <4>4. \A j \in DOMAIN lru' : j > i - 1 => time[lru'[j]] = 0
        BY <1>2, <2>2, <3>2, SMTT(30), ZenonT(20)
      <4>5. QED
        BY <4>1, <4>3, <4>4
    <3>3. CASE m # i
      <4> DEFINE n == IF m < i THEN m ELSE m - 1
      <4>1. n \in DOMAIN lru' /\ lru'[n] = lru[m]
        BY <1>2, <3>3
      <4>2. oldest' = lru[m]
        BY <1>1, <1>3, <2>2, <3>3
      <4>3. \A j \in DOMAIN lru' : j > n => time[lru'[j]] = 0
        <5> SUFFICES ASSUME NEW j \in DOMAIN lru', j > n PROVE time[lru'[j]] = 0
          OBVIOUS
        <5>1. CASE j < i
          <6>1. j \in DOMAIN lru /\ j > m /\ lru'[j] = lru[j]
            BY <1>2, <2>2, <3>3, <5>1
          <6>2. QED
            BY <2>2, <6>1
        <5>2. CASE j >= i
          <6>1. j + 1 \in DOMAIN lru /\ j + 1 > m /\ lru'[j] = lru[j + 1]
            BY <1>2, <2>2, <3>3, <5>2
          <6>2. QED
            BY <2>2, <6>1
        <5>3. QED
          BY <1>2, <5>1, <5>2
      <4> HIDE DEF n
      <4>4. QED
        BY <2>2, <4>1, <4>2, <4>3
    <3>4. QED
      BY <3>1, <3>2, <3>3
  <2>3. QED
    BY <2>1, <2>2 DEF CacheOrder
<1>7. CacheOrder'
  BY <1>5, <1>6 DEF CacheOrder
<1>8. RingOrder'
  BY <1>4 DEF RingOrder, Newer
<1>9. CacheTypes'
  <2>1. oldest' \in Blocks \union {None}
    BY <1>2, <1>3, <1>6
  <2>2. Len(lru') <= EntriesArraySize
    BY <1>2, SecondaryCacheAssumption DEF Types, CacheTypes
  <2>3. QED
    BY <1>2, <2>1, <2>2 DEF Types, CacheTypes
<1>10. QED
  BY <1>7, <1>8, <1>9

\* A block is taken out of the cache, or none is found there.
LEMMA RetrieveKept == ASSUME IInv, NEW t \in Threads, Retrieve(t) PROVE IInv'
<1>1. /\ pc[t] = "retrieve"
      /\ UNCHANGED <<owner, blocks, settings, now, options, evicted, stamp>>
  BY DEF Retrieve
<1>2. UNCHANGED <<quarantineSize, maxEntries, interval, useTagging>>
      /\ UNCHANGED <<inUse, size, inaccessible, dirty, time>>
  BY <1>1 DEF settings, blocks
<1>3. /\ block[t] = None /\ evicted[t] = {} /\ options[t].tagging = useTagging
      /\ options[t].need \in Sizes /\ \A u \in Threads : pc[u] # "clear"
  BY <1>1 DEF IInv, Control, ThreadControl, InOperation, Types, ThreadTypes
<1>4. BlockTypes' /\ SettingTypes'
  BY <1>1, <1>2 DEF IInv, Types, BlockTypes, SettingTypes
<1>5. CASE Retrievable(t) = {} /\ Goto(t, "map") /\ UNCHANGED <<block, cache>>
  <2>1. pc' = [pc EXCEPT ![t] = "map"] /\ UNCHANGED <<block, cache>>
    BY <1>5 DEF Goto
  <2>2. BlockTypes' /\ CacheTypes' /\ Places' /\ RingOrder' /\ CacheOrder'
    BY <1>1, <1>2, <2>1, SameBlocks DEF IInv
  <2>3. UNCHANGED <<lru, quarantine, quarantinePos, oldest>>
    BY <2>1 DEF cache
  <2>4. pc'[t] = "map" /\ \A u \in Threads \ {t} : pc'[u] = pc[u]
    BY <2>1 DEF IInv, Types, ThreadTypes
  <2>5. Types'
    BY <1>1, <1>4, <2>1, <2>2 DEF IInv, Types, ThreadTypes, Labels
  <2>6. Control'
    <3>1. ThreadControl(t)'
      BY <1>1, <1>2, <1>3, <2>1, <2>4 DEF ThreadControl, InOperation
    <3>2. QED
      BY <1>1, <1>2, <2>1, <3>1, OneThread DEF IInv, Types
  <2>7. \A u \in Threads : pc'[u] # "clear" /\ (pc'[u] = "store" => pc[u] = "store")
    BY <1>3, <2>4
  <2>8. Access'
    BY <1>2, <2>7 DEF IInv, Access
  <2>9. Times'
    BY <1>1, <1>2, <2>1, <2>3, <2>7 DEF IInv, Times, Cached, Quarantined
  <2>10. QED
    BY <2>2, <2>5, <2>6, <2>8, <2>9 DEF IInv
<1>6. ASSUME NEW i \in Retrievable(t), remove(i), Hold(t, lru[i]), Goto(t, "use"),
             UNCHANGED <<quarantine, quarantinePos>>
      PROVE  IInv'
  <2> DEFINE x == lru[i]
  <2>1. i \in DOMAIN lru
    BY RetrievableEntry DEF IInv
  <2>2. /\ block' = [block EXCEPT ![t] = x] /\ pc' = [pc EXCEPT ![t] = "use"]
        /\ UNCHANGED <<quarantine, quarantinePos>> /\ lru' = RemoveAt(lru, i)
    BY <1>6 DEF Hold, Goto, remove
  <2>3. CacheTypes' /\ CacheOrder' /\ RingOrder'
    BY <1>2, <1>6, <2>1, RemovedOrder DEF IInv
  <2>4. x \in Cached /\ x \in Blocks /\ x # None
    BY <2>1, SecondaryCacheAssumption DEF IInv, Types, CacheTypes, Cached, ToSet
  <2>5. /\ \A b : b \in ToSet(lru') <=> b \in ToSet(lru) /\ b # x
        /\ \A j, k \in DOMAIN lru' : lru'[j] = lru'[k] => j = k
    BY <2>1, <2>2, RemovedPlace, Zenon DEF IInv, Types, CacheTypes, Places
  <2>6. x \notin Quarantined /\ x \notin inUse /\ \A u \in Threads : x \notin Hand(u)
    BY <2>4 DEF IInv, Places
  <2> HIDE DEF x
  <2>7. /\ pc'[t] = "use" /\ block'[t] = x
        /\ \A u \in Threads \ {t} : pc'[u] = pc[u] /\ block'[u] = block[u]
    BY <2>2 DEF IInv, Types, ThreadTypes
  <2>8. Types'
    <3>1. ThreadTypes'
      BY <1>1, <2>2, <2>4 DEF IInv, Types, ThreadTypes, Labels
    <3>2. QED
      BY <1>4, <2>3, <3>1 DEF Types
  <2>9. Control'
    <3>1. ThreadControl(t)'
      BY <1>1, <1>2, <1>3, <2>4, <2>7 DEF ThreadControl, InOperation
    <3>2. QED
      BY <1>1, <1>2, <2>2, <2>7, <3>1, OneThread DEF IInv, Types
  <2>10. /\ \A b : b \in Cached' <=> b \in Cached /\ b # x
         /\ Quarantined' = Quarantined /\ Hand(t)' = {x}
         /\ \A u \in Threads : u # t => Hand(u)' = Hand(u)
    BY <1>1, <1>3, <2>2, <2>4, <2>5, <2>7 DEF Cached, Quarantined, Hand
  <2>11. Places'
    <3>1. \A i1, j1 \in Slots : quarantine'[i1] = quarantine'[j1] => i1 = j1 \/ quarantine'[i1] = None
      BY <2>2 DEF IInv, Places
    <3>2. /\ \A b \in Cached' : b \notin Quarantined' /\ b \notin inUse'
          /\ \A b \in Quarantined' : b \notin inUse'
      BY <1>2, <2>10 DEF IInv, Places
    <3>3. ASSUME NEW u \in Threads, NEW b \in Hand(u)'
          PROVE  /\ b \notin Cached' /\ b \notin Quarantined' /\ b \notin inUse'
                 /\ \A v \in Threads : b \in Hand(v)' => v = u
      <4>1. CASE u = t
        BY <1>2, <2>6, <2>10, <3>3, <4>1
      <4>2. CASE u # t
        BY <1>2, <2>6, <2>10, <3>3, <4>2 DEF IInv, Places
      <4>3. QED
        BY <4>1, <4>2
    <3>4. ASSUME NEW b \in Blocks
          PROVE  size'[b] # 0 <=> \/ b \in Cached' \/ b \in Quarantined' \/ b \in inUse'
                                  \/ \E u \in Threads : b \in Hand(u)'
      <4>1. (\E u \in Threads : b \in Hand(u)') <=> b = x \/ \E u \in Threads : b \in Hand(u)
        <5>1. Hand(t) = {}
          BY <1>3 DEF Hand
        <5>2. QED
          BY <2>10, <5>1
      <4>2. QED
        BY <1>2, <2>4, <2>10, <4>1 DEF IInv, Places
    <3>5. QED
      BY <2>5, <3>1, <3>2, <3>3, <3>4 DEF Places
  <2>12. \A u \in Threads : pc'[u] # "clear" /\ (pc'[u] = "store" => pc[u] = "store" /\ block'[u] = block[u])
    BY <1>3, <2>7
  <2>13. Access'
    BY <1>2, <2>12 DEF IInv, Access
  <2>14. Times'
    <3>1. ASSUME NEW b \in Blocks, b \in Cached' \/ b \in Quarantined' \/ \E u \in Threads : block'[u] = b
          PROVE  b \in Cached \/ b \in Quarantined \/ \E u \in Threads : block[u] = b
      BY <2>4, <2>7, <2>10, <3>1
    <3>2. \A b \in Blocks \ inUse' : useTagging /\ interval = 0 => time'[b] = 0
      BY <1>2 DEF IInv, Times
    <3>3. \A b \in Blocks : time'[b] <= now'
      BY <1>1, <1>2 DEF IInv, Times
    <3>4. QED
      BY <1>2, <2>12, <3>1, <3>2, <3>3, TimesKept DEF IInv
  <2>15. QED
    BY <2>3, <2>8, <2>9, <2>11, <2>13, <2>14 DEF IInv
<1>7. QED
  BY <1>5, <1>6 DEF Retrieve

\* The mappings of S go.
LEMMA UnmapEffect ==
  ASSUME BlockTypes, NEW S \in SUBSET Blocks, Unmap(S)
  PROVE  /\ size' \in [Blocks -> Sizes \union {0}] /\ time' \in [Blocks -> Nat]
         /\ inaccessible' \in [Blocks -> BOOLEAN] /\ dirty' \in [Blocks -> BOOLEAN]
         /\ \A b \in S : size'[b] = 0 /\ time'[b] = 0 /\ ~inaccessible'[b] /\ ~dirty'[b]
         /\ \A b \in Blocks : b \notin S =>
              /\ size'[b] = size[b] /\ time'[b] = time[b]
              /\ inaccessible'[b] = inaccessible[b] /\ dirty'[b] = dirty[b]
  BY DEF Unmap, Unmapped, BlockTypes

\* MapAllocator::deallocate() of a block that the cache does not take.
LEMMA DeallocateUnmapped ==
  ASSUME IInv, NEW t \in Threads, NEW x \in inUse, inUse' = inUse \ {x}, Unmap({x}),
         UNCHANGED <<pc, options, block>>,
         UNCHANGED <<owner, cache, settings, now, evicted, stamp>>
  PROVE  IInv'
<1>1. UNCHANGED <<quarantineSize, maxEntries, interval, useTagging>>
      /\ UNCHANGED <<lru, quarantine, quarantinePos, oldest>>
  BY DEF settings, cache
<1>2. x \in Blocks /\ x \notin Cached /\ x \notin Quarantined /\ \A u \in Threads : x \notin Hand(u)
  BY DEF IInv, Types, BlockTypes, Places
<1>3. /\ size' \in [Blocks -> Sizes \union {0}] /\ time' \in [Blocks -> Nat]
      /\ inaccessible' \in [Blocks -> BOOLEAN] /\ dirty' \in [Blocks -> BOOLEAN]
      /\ size'[x] = 0 /\ time'[x] = 0 /\ ~inaccessible'[x] /\ ~dirty'[x]
      /\ \A b \in Blocks : b # x =>
           /\ size'[b] = size[b] /\ time'[b] = time[b]
           /\ inaccessible'[b] = inaccessible[b] /\ dirty'[b] = dirty[b]
  <2>1. {x} \in SUBSET Blocks
    BY <1>2
  <2>2. QED
    BY <2>1, UnmapEffect DEF IInv, Types
<1>4. Types'
  <2>1. BlockTypes'
    BY <1>3 DEF IInv, Types, BlockTypes
  <2>2. CacheTypes' /\ SettingTypes' /\ ThreadTypes'
    BY <1>1 DEF IInv, Types, CacheTypes, SettingTypes, ThreadTypes
  <2>3. QED
    BY <2>1, <2>2 DEF Types
<1>5. Control'
  BY <1>1 DEF IInv, Control, ThreadControl, InOperation
<1>6. Cached' = Cached /\ Quarantined' = Quarantined /\ \A u \in Threads : Hand(u)' = Hand(u)
  BY <1>1 DEF Cached, Quarantined, Hand
<1>7. Places'
  BY <1>1, <1>2, <1>3, <1>6 DEF IInv, Places
<1>8. Access'
  BY <1>1, <1>3 DEF IInv, Access
<1>9. Times'
  <2>1. \A b \in Blocks : time'[b] <= now'
    <3>1. now \in Nat
      BY DEF IInv, Types, SettingTypes
    <3>2. QED
      BY <1>3, <3>1 DEF IInv, Times
  <2>2. \A b \in Blocks \ inUse' : useTagging /\ interval = 0 => time'[b] = 0
    BY <1>3 DEF IInv, Times
  <2>3. \A u \in Threads : block[u] # x
    BY <1>2, SecondaryCacheAssumption DEF Hand
  <2>4. ASSUME NEW u \in Threads, pc'[u] = "store", time'[block'[u]] = 0
        PROVE  pc[u] = "store" /\ time[block[u]] = 0
    <3>1. block[u] \in Blocks
      BY <2>4 DEF IInv, Types, Control, ThreadControl, ThreadTypes
    <3>2. QED
      BY <1>3, <2>3, <2>4, <3>1
  <2>5. \A b \in Blocks : ~dirty'[b] \/ (dirty'[b] = dirty[b] /\ time'[b] = time[b])
    BY <1>3
  <2>6. QED
    BY <1>1, <1>6, <2>1, <2>2, <2>4, <2>5, TimesKept DEF IInv
<1>10. RingOrder' /\ CacheOrder'
  <2>1. \A b \in Cached \union Quarantined : b \in Blocks /\ b # x
    BY <1>2 DEF IInv, Types, CacheTypes, Cached, Quarantined, ToSet
  <2>2. QED
    BY <1>1, <1>3, <2>1, SameOrder DEF IInv, Types
<1>11. QED
  BY <1>4, <1>5, <1>7, <1>8, <1>9, <1>10 DEF IInv

\* MapAllocator::deallocate() of a block that goes into the cache.
LEMMA DeallocateStored ==
  ASSUME IInv, NEW t \in Threads, pc[t] = "idle", \A u \in Threads : pc[u] # "clear",
         NEW x \in inUse, canCache(size[x]), inUse' = inUse \ {x}, size' = size,
         inaccessible' = [inaccessible EXCEPT ![x] = useTagging],
         dirty' = [dirty EXCEPT ![x] = @ /\ ~(useTagging /\ interval = 0)],
         time' = [time EXCEPT ![x] = IF ReleasedAtOnce THEN 0 ELSE now],
         Read(t, Snapshot(0)), Hold(t, x), Goto(t, "store"),
         UNCHANGED <<owner, cache, settings, now, evicted, stamp>>
  PROVE  IInv'
<1>1. UNCHANGED <<quarantineSize, maxEntries, interval, useTagging>>
      /\ UNCHANGED <<lru, quarantine, quarantinePos, oldest>>
  BY DEF settings, cache
<1>2. x \in Blocks /\ x \notin Cached /\ x \notin Quarantined /\ \A u \in Threads : x \notin Hand(u)
  BY DEF IInv, Types, BlockTypes, Places
<1>3. x # None /\ size[x] # 0 /\ now \in Nat /\ now # 0 /\ maxEntries # 0
      /\ block[t] = None /\ evicted[t] = {} /\ \A u \in Threads : block[u] # x
  BY <1>2, SecondaryCacheAssumption
     DEF IInv, Types, SettingTypes, ThreadTypes, Places, canCache, Control, ThreadControl, Hand
<1>4. /\ block' = [block EXCEPT ![t] = x] /\ pc' = [pc EXCEPT ![t] = "store"]
      /\ options' = [options EXCEPT ![t] = Snapshot(0)]
  BY DEF Read, Hold, Goto
<1>5. Snapshot(0) \in Snapshots /\ Snapshot(0).tagging = useTagging
  BY SecondaryCacheAssumption DEF Snapshot, Snapshots, IInv, Types, SettingTypes
<1>6. /\ inaccessible'[x] = useTagging /\ time'[x] = IF useTagging /\ interval = 0 THEN 0 ELSE now
      /\ useTagging /\ interval = 0 => ~dirty'[x]
      /\ \A b \in Blocks : b # x =>
           /\ time'[b] = time[b] /\ inaccessible'[b] = inaccessible[b] /\ dirty'[b] = dirty[b]
  BY <1>2 DEF ReleasedAtOnce, IInv, Types, BlockTypes
<1>7. /\ pc'[t] = "store" /\ block'[t] = x /\ options'[t] = Snapshot(0)
      /\ \A u \in Threads \ {t} : pc'[u] = pc[u] /\ block'[u] = block[u] /\ options'[u] = options[u]
  BY <1>4 DEF IInv, Types, ThreadTypes
<1>8. Types'
  <2>1. BlockTypes'
    <3>1. inaccessible' \in [Blocks -> BOOLEAN] /\ time' \in [Blocks -> Nat]
      BY <1>3 DEF IInv, Types, BlockTypes, SettingTypes
    <3>2. dirty' \in [Blocks -> BOOLEAN]
      BY DEF IInv, Types, BlockTypes
    <3>3. QED
      BY <3>1, <3>2 DEF IInv, Types, BlockTypes
  <2>2. CacheTypes' /\ SettingTypes'
    BY <1>1 DEF IInv, Types, CacheTypes, SettingTypes
  <2>3. ThreadTypes'
    BY <1>2, <1>4, <1>5 DEF IInv, Types, ThreadTypes, Labels
  <2>4. QED
    BY <2>1, <2>2, <2>3 DEF Types
<1>9. Control'
  <2>1. ThreadControl(t)'
    BY <1>1, <1>3, <1>5, <1>7 DEF ThreadControl, InOperation
  <2>2. QED
    BY <1>1, <1>4, <1>7, <2>1, OneThread DEF IInv, Types
<1>10. /\ Cached' = Cached /\ Quarantined' = Quarantined /\ Hand(t)' = {x} /\ Hand(t) = {}
       /\ \A u \in Threads : u # t => Hand(u)' = Hand(u)
  BY <1>1, <1>3, <1>7 DEF Cached, Quarantined, Hand
<1>11. Places'
  <2>1. ASSUME NEW u \in Threads, NEW b \in Hand(u)'
        PROVE  /\ b \notin Cached' /\ b \notin Quarantined' /\ b \notin inUse'
               /\ \A v \in Threads : b \in Hand(v)' => v = u
    <3>1. CASE u = t
      BY <1>2, <1>10, <2>1, <3>1
    <3>2. CASE u # t
      BY <1>2, <1>10, <2>1, <3>2 DEF IInv, Places
    <3>3. QED
      BY <3>1, <3>2
  <2>2. ASSUME NEW b \in Blocks
        PROVE  size'[b] # 0 <=> \/ b \in Cached' \/ b \in Quarantined' \/ b \in inUse'
                                \/ \E u \in Threads : b \in Hand(u)'
    <3>1. (\E u \in Threads : b \in Hand(u)') <=> b = x \/ \E u \in Threads : b \in Hand(u)
      BY <1>10
    <3>2. QED
      BY <1>3, <1>10, <3>1 DEF IInv, Places
  <2>3. QED
    BY <1>1, <1>10, <2>1, <2>2 DEF IInv, Places
<1>12. Access'
  <2>1. \A u \in Threads : pc'[u] # "clear"
    BY <1>7
  <2>2. ASSUME NEW b \in Blocks, size'[b] = 0 \/ b \in inUse' PROVE ~inaccessible'[b]
    BY <1>3, <1>6, <2>2 DEF IInv, Access
  <2>3. QED
    BY <1>1, <1>6, <2>1, <2>2 DEF IInv, Access
<1>13. Times'
  <2>1. \A b \in Blocks : time'[b] <= now'
    BY <1>3, <1>6 DEF IInv, Times
  <2>2. \A b \in Blocks \ inUse' : useTagging /\ interval = 0 => time'[b] = 0
    BY <1>6 DEF IInv, Times
  <2>3. ASSUME NEW u \in Threads, pc'[u] = "store", time'[block'[u]] = 0
        PROVE  (pc[u] = "store" /\ time[block[u]] = 0) \/ (useTagging /\ interval = 0)
    <3>1. CASE u = t
      BY <1>3, <1>6, <1>7, <2>3, <3>1
    <3>2. CASE u # t
      <4>1. pc[u] = "store" /\ block'[u] = block[u]
        BY <1>7, <2>3, <3>2
      <4>2. block[u] \in Blocks
        BY <4>1 DEF IInv, Types, Control, ThreadControl, ThreadTypes
      <4>3. QED
        BY <1>3, <1>6, <2>3, <4>1, <4>2
    <3>3. QED
      BY <3>1, <3>2
  <2>4. ASSUME NEW b \in Blocks, time'[b] = 0,
               b \in Cached' \/ b \in Quarantined' \/ \E u \in Threads : block'[u] = b
        PROVE  \/ ~dirty'[b]
               \/ /\ time[b] = 0 /\ (dirty'[b] => dirty[b])
                  /\ b \in Cached \/ b \in Quarantined \/ \E u \in Threads : block[u] = b
    <3>1. CASE b = x
      BY <1>3, <1>6, <2>4, <3>1
    <3>2. CASE b # x
      BY <1>6, <1>7, <1>10, <2>4, <3>2
    <3>3. QED
      BY <3>1, <3>2
  <2>5. QED
    BY <1>1, <2>1, <2>2, <2>3, <2>4, TimesKept DEF IInv
<1>14. RingOrder' /\ CacheOrder'
  <2>1. \A b \in Cached \union Quarantined : b \in Blocks /\ b # x
    BY <1>2 DEF IInv, Types, CacheTypes, Cached, Quarantined, ToSet
  <2>2. QED
    BY <1>1, <1>6, <2>1, SameOrder DEF IInv, Types
<1>15. QED
  BY <1>8, <1>9, <1>11, <1>12, <1>13, <1>14 DEF IInv

LEMMA DeallocateKept == ASSUME ~Races, IInv, NEW t \in Threads, Deallocate(t) PROVE IInv'
<1>1. /\ pc[t] = "idle" /\ \A u \in Threads : pc[u] # "clear"
      /\ UNCHANGED <<owner, cache, settings, now, evicted, stamp>>
  BY DEF Deallocate, MayStart
<1>2. PICK x \in inUse :
        /\ inUse' = inUse \ {x}
        /\ \/ /\ ~canCache(size[x])
              /\ Unmap({x})
              /\ UNCHANGED <<pc, options, block>>
           \/ /\ canCache(size[x])
              /\ inaccessible' = [inaccessible EXCEPT ![x] = useTagging]
              /\ dirty' = [dirty EXCEPT ![x] = @ /\ ~(useTagging /\ interval = 0)]
              /\ time' = [time EXCEPT ![x] = IF ReleasedAtOnce THEN 0 ELSE now]
              /\ Read(t, Snapshot(0)) /\ Hold(t, x) /\ Goto(t, "store")
              /\ UNCHANGED size
  BY Zenon DEF Deallocate
<1>3. QED
  BY <1>1, <1>2, DeallocateUnmapped, DeallocateStored, Zenon

\* The evicted mappings go.
LEMMA UnmapEvictedKept == ASSUME IInv, NEW t \in Threads, UnmapEvicted(t) PROVE IInv'
<1> DEFINE E == evicted[t]
<1>1. /\ pc[t] = "evicted" /\ Unmap(E) /\ evicted' = [evicted EXCEPT ![t] = {}]
      /\ UNCHANGED <<owner, inUse, cache, settings, now, block>>
  BY DEF UnmapEvicted
<1>2. UNCHANGED <<quarantineSize, maxEntries, interval, useTagging>>
      /\ UNCHANGED <<lru, quarantine, quarantinePos, oldest>>
  BY <1>1 DEF settings, cache
<1>3. PICK l \in {"release", "idle"}, o \in {options[t], NoOptions}, w \in {stamp[t], 0} :
        /\ pc' = [pc EXCEPT ![t] = l]
        /\ options' = [options EXCEPT ![t] = o] /\ stamp' = [stamp EXCEPT ![t] = w]
        /\ l = "release" => o = options[t]
  <2>1. CASE Goto(t, "release") /\ UNCHANGED <<options, stamp>>
    <3>1. options' = [options EXCEPT ![t] = options[t]] /\ stamp' = [stamp EXCEPT ![t] = stamp[t]]
      BY <2>1 DEF IInv, Types, ThreadTypes
    <3>2. QED
      BY <2>1, <3>1 DEF Goto
  <2>2. CASE Return(t)
    BY <2>2 DEF Return, Read, Goto
  <2>3. QED
    BY <2>1, <2>2 DEF UnmapEvicted
<1>4. /\ block[t] = None /\ E \in SUBSET Blocks /\ options[t].tagging = useTagging
      /\ options[t] \in Snapshots /\ stamp[t] \in Nat
      /\ \A u \in Threads : pc[u] # "clear"
  BY <1>1 DEF IInv, Control, ThreadControl, InOperation, Types, ThreadTypes
<1>5. /\ Hand(t) = E
      /\ \A b \in E : /\ b \notin Cached /\ b \notin Quarantined /\ b \notin inUse
                      /\ \A u \in Threads : u # t => b \notin Hand(u)
  <2>1. Hand(t) = E
    BY <1>4 DEF Hand
  <2>2. QED
    BY <2>1 DEF IInv, Places
<1>6. /\ size' \in [Blocks -> Sizes \union {0}] /\ time' \in [Blocks -> Nat]
      /\ inaccessible' \in [Blocks -> BOOLEAN] /\ dirty' \in [Blocks -> BOOLEAN]
      /\ \A b \in E : size'[b] = 0 /\ time'[b] = 0 /\ ~inaccessible'[b] /\ ~dirty'[b]
      /\ \A b \in Blocks : b \notin E =>
           /\ size'[b] = size[b] /\ time'[b] = time[b]
           /\ inaccessible'[b] = inaccessible[b] /\ dirty'[b] = dirty[b]
  BY <1>1, <1>4, UnmapEffect DEF IInv, Types
<1> HIDE DEF E
<1>7. /\ pc'[t] = l /\ evicted'[t] = {} /\ options'[t] = o
      /\ \A u \in Threads \ {t} :
           pc'[u] = pc[u] /\ evicted'[u] = evicted[u] /\ options'[u] = options[u]
  BY <1>1, <1>3 DEF IInv, Types, ThreadTypes
<1>8. Types'
  <2>1. BlockTypes'
    BY <1>1, <1>6 DEF IInv, Types, BlockTypes
  <2>2. CacheTypes' /\ SettingTypes'
    BY <1>1, <1>2 DEF IInv, Types, CacheTypes, SettingTypes
  <2>3. o \in Snapshots /\ w \in Nat
    <3>1. NoOptions \in Snapshots
      BY DEF NoOptions, Snapshots
    <3>2. QED
      BY <1>4, <3>1
  <2>4. ThreadTypes'
    BY <1>1, <1>3, <2>3 DEF IInv, Types, ThreadTypes, Labels
  <2>5. QED
    BY <2>1, <2>2, <2>4 DEF Types
<1>9. Control'
  <2>1. ThreadControl(t)'
    BY <1>1, <1>2, <1>3, <1>4, <1>7 DEF ThreadControl, InOperation
  <2>2. QED
    BY <1>1, <1>2, <1>3, <1>7, <2>1, OneThread DEF IInv, Types
<1>10. /\ Cached' = Cached /\ Quarantined' = Quarantined /\ Hand(t)' = {}
       /\ \A u \in Threads : u # t => Hand(u)' = Hand(u)
  BY <1>1, <1>2, <1>4, <1>7 DEF Cached, Quarantined, Hand
<1>11. Places'
  <2>1. ASSUME NEW b \in Blocks
        PROVE  size'[b] # 0 <=> \/ b \in Cached' \/ b \in Quarantined' \/ b \in inUse'
                                \/ \E u \in Threads : b \in Hand(u)'
    <3>1. (\E u \in Threads : b \in Hand(u)') <=> b \notin E /\ \E u \in Threads : b \in Hand(u)
      BY <1>5, <1>10
    <3>2. QED
      BY <1>1, <1>5, <1>6, <1>10, <3>1 DEF IInv, Places
  <2>2. QED
    BY <1>1, <1>2, <1>10, <2>1 DEF IInv, Places
<1>12. Access'
  <2>1. \A u \in Threads : pc'[u] # "clear"
    BY <1>4, <1>7
  <2>2. QED
    BY <1>1, <1>2, <1>6, <2>1 DEF IInv, Access
<1>13. Times'
  <2>1. \A b \in Blocks : time'[b] <= now'
    <3>1. now \in Nat
      BY DEF IInv, Types, SettingTypes
    <3>2. QED
      BY <1>1, <1>6, <3>1 DEF IInv, Times
  <2>2. \A b \in Blocks \ inUse' : useTagging /\ interval = 0 => time'[b] = 0
    BY <1>1, <1>6 DEF IInv, Times
  <2>3. ASSUME NEW u \in Threads, pc'[u] = "store", time'[block'[u]] = 0
        PROVE  pc[u] = "store" /\ time[block[u]] = 0
    <3>1. u # t /\ pc[u] = "store" /\ block'[u] = block[u]
      BY <1>1, <1>3, <1>7, <2>3
    <3>2. block[u] \in Blocks /\ block[u] \in Hand(u)
      BY <3>1, InHand DEF IInv
    <3>3. block[u] \notin E
      BY <1>5, <3>1, <3>2
    <3>4. QED
      BY <1>6, <2>3, <3>1, <3>2, <3>3
  <2>4. \A b \in Blocks : ~dirty'[b] \/ (dirty'[b] = dirty[b] /\ time'[b] = time[b])
    BY <1>6
  <2>5. QED
    BY <1>1, <1>2, <1>10, <2>1, <2>2, <2>3, <2>4, TimesKept DEF IInv
<1>14. RingOrder' /\ CacheOrder'
  <2>1. \A b \in Cached \union Quarantined : b \in Blocks /\ b \notin E
    BY <1>5 DEF IInv, Types, CacheTypes, Cached, Quarantined, ToSet
  <2>2. QED
    BY <1>2, <1>6, <2>1, SameOrder DEF IInv, Types
<1>15. QED
  BY <1>8, <1>9, <1>11, <1>12, <1>13, <1>14 DEF IInv

\* disableMemoryTagging() of the cache empties the ring.
LEMMA DisableMemoryTaggingKept ==
  ASSUME ~Races, IInv, NEW t \in Threads, DisableMemoryTagging(t) PROVE IInv'
<1> DEFINE Q == Quarantined
<1>1. /\ \A u \in Threads : pc[u] = "idle"
      /\ size' = Unmapped(Q, size, 0) /\ time' = Unmapped(Q, time, 0)
      /\ dirty' = Unmapped(Q, dirty, FALSE)
      /\ inaccessible' = Unmapped(Q \union Cached, inaccessible, FALSE)
      /\ quarantine' = [i \in Slots |-> None] /\ quarantinePos' = -1
      /\ pc' = [pc EXCEPT ![t] = "clear"]
      /\ UNCHANGED <<owner, inUse, lru, oldest, settings, now, options, block, evicted, stamp>>
  BY Zenon DEF DisableMemoryTagging, Quiet, Goto, Quarantined, Cached
<1>2. UNCHANGED <<quarantineSize, maxEntries, interval, useTagging>>
  BY <1>1 DEF settings
<1>3. \A u \in Threads : block[u] = None /\ evicted[u] = {} /\ Hand(u) = {} /\ Hand(u)' = {}
  BY <1>1 DEF IInv, Control, ThreadControl, Types, ThreadTypes, Hand
<1>4. /\ Q \subseteq Blocks
      /\ \A b \in Q : size'[b] = 0 /\ time'[b] = 0 /\ ~dirty'[b]
      /\ \A b \in Blocks : b \notin Q =>
           size'[b] = size[b] /\ time'[b] = time[b] /\ dirty'[b] = dirty[b]
      /\ \A b \in Blocks : b \in Q \/ b \in Cached => ~inaccessible'[b]
      /\ \A b \in Blocks : b \notin Q /\ b \notin Cached => inaccessible'[b] = inaccessible[b]
  <2>1. Q \subseteq Blocks
    BY DEF IInv, Types, CacheTypes, Quarantined
  <2>2. QED
    BY <1>1, <2>1 DEF Unmapped
<1>5. Cached' = Cached /\ Quarantined' = {}
  BY <1>1 DEF Cached, Quarantined
<1>6. Types'
  <2>1. BlockTypes'
    BY <1>1 DEF Unmapped, IInv, Types, BlockTypes
  <2>2. CacheTypes' /\ SettingTypes'
    BY <1>1, <1>2 DEF IInv, Types, CacheTypes, SettingTypes
  <2>3. ThreadTypes'
    BY <1>1 DEF IInv, Types, ThreadTypes, Labels
  <2>4. QED
    BY <2>1, <2>2, <2>3 DEF Types
<1>7. pc'[t] = "clear" /\ \A u \in Threads \ {t} : pc'[u] = "idle"
  BY <1>1 DEF IInv, Types, ThreadTypes
<1>8. Control'
  BY <1>1, <1>3, <1>7 DEF Control, ThreadControl, InOperation
<1> HIDE DEF Q
<1>9. Places'
  <2>1. \A b \in Q : b \notin Cached /\ b \notin inUse
    BY DEF IInv, Places, Q
  <2>2. ASSUME NEW b \in Blocks
        PROVE  size'[b] # 0 <=> b \in Cached \/ b \in inUse
    BY <1>3, <1>4, <2>1 DEF IInv, Places, Q
  <2>3. QED
    BY <1>1, <1>3, <1>5, <2>2 DEF IInv, Places
<1>10. Access'
  <2>1. ASSUME NEW b \in Blocks PROVE ~inaccessible'[b]
    <3>1. CASE b \in Q \/ b \in Cached
      BY <1>4, <3>1
    <3>2. CASE b \notin Q /\ b \notin Cached
      <4>1. size[b] = 0 \/ b \in inUse
        BY <1>3, <3>2 DEF IInv, Places, Q
      <4>2. QED
        BY <1>4, <3>2, <4>1 DEF IInv, Access
    <3>3. QED
      BY <3>1, <3>2
  <2>2. QED
    BY <2>1 DEF Access
<1>11. Times'
  <2>1. \A b \in Blocks : time'[b] <= now'
    <3>1. now' = now /\ now \in Nat /\ \A b \in Blocks : time[b] <= now
      BY <1>1 DEF IInv, Types, SettingTypes, Times
    <3>2. \A b \in Blocks : time'[b] = 0 \/ time'[b] = time[b]
      BY <1>4
    <3>3. QED
      BY <3>1, <3>2
  <2>2. \A b \in Blocks \ inUse' : useTagging /\ interval = 0 => time'[b] = 0
    BY <1>1, <1>4 DEF IInv, Times
  <2>3. \A u \in Threads : pc'[u] # "store"
    BY <1>7
  <2>4. \A b \in Blocks : ~dirty'[b] \/ (dirty'[b] = dirty[b] /\ time'[b] = time[b])
    BY <1>4
  <2>5. QED
    BY <1>1, <1>2, <1>5, <2>1, <2>2, <2>3, <2>4, TimesKept DEF IInv
<1>12. CacheOrder'
  <2>1. \A i \in DOMAIN lru : time'[lru[i]] = time[lru[i]]
    <3>1. \A i \in DOMAIN lru : lru[i] \in Blocks /\ lru[i] \in Cached
      BY DEF IInv, Types, CacheTypes, Cached, ToSet
    <3>2. QED
      BY <1>4, <3>1 DEF IInv, Places, Q
  <2>2. QED
    BY <1>1, <2>1 DEF IInv, CacheOrder
<1>13. RingOrder'
  <2>1. quarantineSize \in Nat /\ quarantinePos' = -1 /\ \A i \in Slots : quarantine'[i] = None
    BY <1>1, SlotsOfRing DEF IInv, Types, SettingTypes
  <2>2. QED
    BY <1>2, <2>1 DEF RingOrder
<1>14. QED
  BY <1>6, <1>8, <1>9, <1>10, <1>11, <1>12, <1>13 DEF IInv

\* disableMemoryTagging() clears the option.
LEMMA ClearOptionKept == ASSUME IInv, NEW t \in Threads, ClearOption(t) PROVE IInv'
<1>1. /\ pc[t] = "clear" /\ useTagging' = FALSE /\ pc' = [pc EXCEPT ![t] = "idle"]
      /\ UNCHANGED <<owner, blocks, cache, quarantineSize, maxEntries, interval, now, options, block,
                     evicted, stamp>>
  BY DEF ClearOption, Goto
<1>2. UNCHANGED <<inUse, size, inaccessible, dirty, time>>
      /\ UNCHANGED <<lru, quarantine, quarantinePos, oldest>>
  BY <1>1 DEF blocks, cache
<1>3. BlockTypes' /\ CacheTypes' /\ Places' /\ RingOrder' /\ CacheOrder'
  BY <1>1, SameBlocks DEF IInv
<1>4. \A u \in Threads : pc'[u] \in {"idle", "disabled"} /\ block[u] = None /\ evicted[u] = {}
  <2>1. \A u \in Threads \ {t} : pc'[u] = pc[u] /\ pc[u] \in {"idle", "disabled"}
    BY <1>1 DEF IInv, Types, ThreadTypes, Control, ThreadControl
  <2>2. pc'[t] = "idle"
    BY <1>1 DEF IInv, Types, ThreadTypes
  <2>3. QED
    BY <1>1, <2>1, <2>2 DEF IInv, Types, ThreadTypes, Control, ThreadControl
<1>5. SettingTypes' /\ ThreadTypes'
  BY <1>1 DEF IInv, Types, SettingTypes, ThreadTypes, Labels
<1>6. Control'
  BY <1>1, <1>4 DEF Control, ThreadControl, InOperation
<1>7. Access'
  BY <1>1, <1>2 DEF IInv, Access
<1>8. Times'
  BY <1>1, <1>2, <1>4 DEF IInv, Times, Cached, Quarantined
<1>9. QED
  BY <1>3, <1>5, <1>6, <1>7, <1>8 DEF IInv, Types

\* setOption() of what may change between operations.
LEMMA SetOptionKept == ASSUME ~Races, IInv, setOption PROVE IInv'
<1>1. UNCHANGED <<owner, blocks, cache, quarantineSize, useTagging, now, threads>>
      /\ maxEntries' \in MaxCounts /\ interval' \in Intervals
  BY DEF setOption, IInv, Types, SettingTypes
<1>2. UNCHANGED <<inUse, size, inaccessible, dirty, time>>
      /\ UNCHANGED <<lru, quarantine, quarantinePos, oldest>>
      /\ UNCHANGED <<pc, options, block, evicted, stamp>>
  BY <1>1 DEF blocks, cache, threads
<1>3. BlockTypes' /\ CacheTypes' /\ Places' /\ RingOrder' /\ CacheOrder'
  BY <1>1, <1>2, SameBlocks DEF IInv
<1>4. SettingTypes' /\ ThreadTypes'
  BY <1>1, <1>2 DEF IInv, Types, SettingTypes, ThreadTypes
<1>5. (\A u \in Threads : pc[u] = "idle") \/ (maxEntries' # 0 /\ interval' = interval)
  BY DEF setOption, Quiet
<1>6. interval' = interval \/ ((\A u \in Threads : pc[u] = "idle")
                               /\ (interval' # 0 \/ \A b \in Blocks \ inUse : time[b] = 0))
  BY DEF setOption, Quiet
<1>7. Control'
  BY <1>1, <1>2, <1>5 DEF IInv, Control, ThreadControl, InOperation
<1>8. Access'
  BY <1>1, <1>2 DEF IInv, Access
<1>9. Times'
  BY <1>1, <1>2, <1>6 DEF IInv, Times, Cached, Quarantined
<1>10. QED
  BY <1>3, <1>4, <1>7, <1>8, <1>9 DEF IInv, Types

\* disable() and enable() of the allocator.
LEMMA DisableKept == ASSUME IInv, NEW t \in Threads, Disable(t) \/ Enable(t) PROVE IInv'
<1>1. PICK l \in {"idle", "disabled"}, o \in Threads \union {NoThread} :
        pc' = [pc EXCEPT ![t] = l] /\ owner' = o
  BY DEF Disable, Enable, Goto
<1>2. /\ pc[t] \in {"idle", "disabled"}
      /\ UNCHANGED <<blocks, cache, settings, now, options, block, evicted, stamp>>
  BY DEF Disable, Enable
<1>3. /\ UNCHANGED <<inUse, size, inaccessible, dirty, time>>
      /\ UNCHANGED <<lru, quarantine, quarantinePos, oldest>>
      /\ UNCHANGED <<quarantineSize, maxEntries, interval, useTagging>>
  BY <1>2 DEF blocks, cache, settings
<1>4. BlockTypes' /\ CacheTypes' /\ Places' /\ RingOrder' /\ CacheOrder'
  BY <1>2, <1>3, SameBlocks DEF IInv
<1>5. SettingTypes' /\ ThreadTypes'
  BY <1>1, <1>2, <1>3 DEF IInv, Types, SettingTypes, ThreadTypes, Labels
<1>6. pc'[t] = l /\ \A u \in Threads \ {t} : pc'[u] = pc[u]
  BY <1>1 DEF IInv, Types, ThreadTypes
<1>7. Control'
  <2>1. ThreadControl(t)'
    BY <1>2, <1>6 DEF IInv, Control, ThreadControl, InOperation
  <2>2. QED
    BY <1>1, <1>2, <1>3, <2>1, OneThread DEF IInv, Types
<1>8. \A u \in Threads : pc'[u] \in {"clear", "store"} => pc[u] = pc'[u]
  BY <1>6
<1>9. Access'
  BY <1>3, <1>8 DEF IInv, Access
<1>10. Times'
  BY <1>2, <1>3, <1>8 DEF IInv, Times, Cached, Quarantined
<1>11. QED
  BY <1>4, <1>5, <1>7, <1>9, <1>10 DEF IInv, Types

\* The clock.
LEMMA TickKept == ASSUME IInv, Tick PROVE IInv'
<1>1. now < MaxTime /\ now' = now + 1 /\ UNCHANGED <<owner, blocks, cache, settings, threads>>
  BY DEF Tick
<1>2. /\ UNCHANGED <<inUse, size, inaccessible, dirty, time>>
      /\ UNCHANGED <<lru, quarantine, quarantinePos, oldest>>
      /\ UNCHANGED <<quarantineSize, maxEntries, interval, useTagging>>
      /\ UNCHANGED <<pc, options, block, evicted, stamp>>
  BY <1>1 DEF blocks, cache, settings, threads
<1>3. BlockTypes' /\ CacheTypes' /\ Places' /\ RingOrder' /\ CacheOrder'
  BY <1>1, <1>2, SameBlocks DEF IInv
<1>4. SettingTypes' /\ ThreadTypes'
  BY <1>1, <1>2, SecondaryCacheAssumption DEF IInv, Types, SettingTypes, ThreadTypes
<1>5. Control' /\ Access'
  BY <1>2 DEF IInv, Control, ThreadControl, InOperation, Access
<1>6. Times'
  <2>1. \A b \in Blocks : time'[b] <= now'
    BY <1>1, <1>2 DEF IInv, Types, BlockTypes, SettingTypes, Times
  <2>2. QED
    BY <1>2, <2>1 DEF IInv, Times, Cached, Quarantined
<1>7. QED
  BY <1>3, <1>4, <1>5, <1>6 DEF IInv, Types

\* The walk of releaseOlderThan() meets the entries up to the first that is newer.
LEMMA WalkedIs ==
  ASSUME Types, NEW T \in Int, NEW m \in 0 .. Len(lru)
  PROVE  \E k \in 0 .. m :
           /\ Walked(m, T) = k + 1 .. m /\ Cardinality(Walked(m, T)) = m - k
           /\ \A i \in k + 1 .. m : time[lru[i]] <= T
           /\ k # 0 => time[lru[k]] > T
<1> DEFINE S == {n \in 0 .. m : n = m \/ time[lru[m - n]] > T}
<1>1. /\ Len(lru) \in Nat /\ m \in Nat
      /\ \A i \in 1 .. m : lru[i] \in Blocks /\ time[lru[i]] \in Nat
  BY DEF Types, CacheTypes, BlockTypes
<1>2. PICK n \in S : \A y \in S : n <= y
  <2>1. S \subseteq Nat
    BY <1>1
  <2>2. m \in S
    BY <1>1
  <2> HIDE DEF S
  <2>3. QED
    BY <2>1, <2>2, LeastNatural
<1>3. PICK k \in 0 .. m : k = m - n
  BY <1>1
<1>4. k # 0 => time[lru[k]] > T
  <2>1. m - n = k /\ (n = m \/ time[lru[m - n]] > T)
    BY <1>1, <1>3
  <2>2. QED
    BY <1>1, <1>3, <2>1
<1>5. ASSUME NEW i \in k + 1 .. m PROVE time[lru[i]] <= T
  <2>1. m - i \in 0 .. m /\ m - i < n /\ m - (m - i) = i /\ i \in 1 .. m
    BY <1>1, <1>3
  <2>2. n \in Nat /\ \A y \in S : n <= y
    BY <1>1, <1>2
  <2>3. ~(time[lru[i]] > T)
    <3>1. time[lru[m - (m - i)]] > T => m - i \in S
      BY <2>1
    <3> HIDE DEF S
    <3>2. m - i \notin S
      BY <1>1, <2>1, <2>2
    <3>3. QED
      BY <2>1, <3>1, <3>2
  <2>4. QED
    BY <1>1, <2>1, <2>3
<1> HIDE DEF S
<1>6. Walked(m, T) = k + 1 .. m
  <2>1. ASSUME NEW i \in k + 1 .. m PROVE i \in Walked(m, T)
    BY <1>1, <1>5 DEF Walked
  <2>2. ASSUME NEW i \in Walked(m, T) PROVE i \in k + 1 .. m
    <3>1. i \in 1 .. m /\ \A j \in i .. m : time[lru[j]] <= T
      BY DEF Walked
    <3>2. CASE i <= k
      <4>1. k \in i .. m /\ k # 0 /\ k \in 1 .. m
        BY <1>1, <3>1, <3>2
      <4>2. QED
        BY <1>1, <1>4, <3>1, <4>1
    <3>3. QED
      BY <1>1, <3>1, <3>2
  <2>3. QED
    BY <2>1, <2>2
<1>7. Cardinality(k + 1 .. m) = m - k
  <2>1. Cardinality(k + 1 .. m) = IF k + 1 > m THEN 0 ELSE m - (k + 1) + 1
    BY <1>1, FS_Interval
  <2>2. QED
    BY <1>1, <2>1
<1>8. QED
  BY <1>4, <1>5, <1>6, <1>7

\* Where the oldest entry is, if there is one.
LEMMA OldestPosition ==
  ASSUME Types, Places, CacheOrder
  PROVE  \E m \in 0 .. Len(lru) :
           /\ m = IF oldest = None THEN 0 ELSE CHOOSE i \in DOMAIN lru : lru[i] = oldest
           /\ m # 0 => time[lru[m]] # 0
           /\ \A j \in DOMAIN lru : j > m => time[lru[j]] = 0
<1>1. /\ lru \in Seq(Blocks) /\ Len(lru) \in Nat /\ DOMAIN lru = 1 .. Len(lru)
      /\ \A i \in DOMAIN lru : lru[i] \in Blocks
      /\ \A i, j \in DOMAIN lru : lru[i] = lru[j] => i = j
      /\ None \notin Blocks
  BY SecondaryCacheAssumption DEF Types, CacheTypes, Places
<1>2. CASE oldest = None
  <2>1. \A j \in DOMAIN lru : time[lru[j]] = 0
    BY <1>1, <1>2 DEF CacheOrder
  <2>2. 0 \in 0 .. Len(lru)
    BY <1>1
  <2>3. QED
    BY <1>2, <2>1, <2>2
<1>3. ASSUME NEW m \in DOMAIN lru, oldest = lru[m], time[lru[m]] # 0,
             \A j \in DOMAIN lru : j > m => time[lru[j]] = 0
      PROVE  \E n \in 0 .. Len(lru) :
               /\ n = IF oldest = None THEN 0 ELSE CHOOSE i \in DOMAIN lru : lru[i] = oldest
               /\ n # 0 => time[lru[n]] # 0
               /\ \A j \in DOMAIN lru : j > n => time[lru[j]] = 0
  <2>1. (CHOOSE i \in DOMAIN lru : lru[i] = oldest) \in DOMAIN lru
        /\ lru[CHOOSE i \in DOMAIN lru : lru[i] = oldest] = oldest
    BY <1>3, Zenon
  <2>2. (CHOOSE i \in DOMAIN lru : lru[i] = oldest) = m
    BY <1>1, <1>3, <2>1, Zenon
  <2>3. oldest # None /\ m \in 0 .. Len(lru)
    BY <1>1, <1>3
  <2>4. QED
    BY <1>3, <2>2, <2>3
<1>4. QED
  BY <1>2, <1>3 DEF CacheOrder

\* releaseOlderThan() releases all that is old, in the ring and in the cache.
LEMMA ReleasedEffect ==
  ASSUME Types, Places, CacheOrder, NEW T \in Int, releaseOlderThan(T)
  PROVE  /\ time' \in [Blocks -> Nat] /\ dirty' \in [Blocks -> BOOLEAN]
         /\ \A b \in Cached \union Quarantined : time'[b] = IF time[b] <= T THEN 0 ELSE time[b]
         /\ \A b \in Blocks : time'[b] # time[b] => time'[b] = 0 /\ ~dirty'[b]
         /\ \A b \in Blocks : dirty'[b] => dirty[b]
         /\ \A b \in Blocks : b \notin Cached \union Quarantined => time'[b] = time[b]
         /\ \/ oldest' = None /\ \A i \in DOMAIN lru : time'[lru[i]] = 0
            \/ \E m \in DOMAIN lru :
                 /\ oldest' = lru[m] /\ time'[lru[m]] # 0
                 /\ \A j \in DOMAIN lru : j > m => time'[lru[j]] = 0
<1> DEFINE from   == IF oldest = None THEN 0 ELSE CHOOSE i \in DOMAIN lru : lru[i] = oldest
           walked == Walked(from, T)
           old    == {quarantine[i] : i \in {j \in Slots :
                                        quarantine[j] # None /\ time[quarantine[j]] <= T}}
           out    == {lru[i] : i \in walked} \union old
<1>1. /\ time' = Unmapped(out, time, 0) /\ dirty' = Unmapped(out, dirty, FALSE)
      /\ oldest' = IF walked = 1 .. from THEN None ELSE lru[from - Cardinality(walked)]
  BY Zenon DEF releaseOlderThan
<1>2. /\ from \in 0 .. Len(lru)
      /\ from # 0 => time[lru[from]] # 0
      /\ \A j \in DOMAIN lru : j > from => time[lru[j]] = 0
  <2>1. PICK m \in 0 .. Len(lru) :
          /\ m = from
          /\ m # 0 => time[lru[m]] # 0
          /\ \A j \in DOMAIN lru : j > m => time[lru[j]] = 0
    BY OldestPosition
  <2> HIDE DEF from
  <2>2. QED
    BY <2>1
<1> HIDE DEF from
<1>3. PICK k \in 0 .. from :
        /\ walked = k + 1 .. from /\ Cardinality(walked) = from - k
        /\ \A i \in k + 1 .. from : time[lru[i]] <= T
        /\ k # 0 => time[lru[k]] > T
  BY <1>2, WalkedIs
<1> HIDE DEF walked
<1>4. /\ Len(lru) \in Nat /\ DOMAIN lru = 1 .. Len(lru) /\ from \in Nat /\ k \in Nat /\ k <= from
      /\ from <= Len(lru)
      /\ \A i \in DOMAIN lru : lru[i] \in Blocks /\ time[lru[i]] \in Nat
      /\ \A i \in Slots : quarantine[i] # None =>
           quarantine[i] \in Blocks /\ time[quarantine[i]] \in Nat
  BY <1>2 DEF Types, CacheTypes, BlockTypes
<1>5. out \subseteq Blocks
  <2>1. \A i \in walked : lru[i] \in Blocks
    BY <1>3, <1>4
  <2>2. QED
    BY <1>4, <2>1
<1>6. \A b \in Blocks : /\ time'[b] = IF b \in out THEN 0 ELSE time[b]
                        /\ dirty'[b] = IF b \in out THEN FALSE ELSE dirty[b]
  BY <1>1 DEF Unmapped
<1>7. ASSUME NEW i \in DOMAIN lru PROVE time'[lru[i]] = IF time[lru[i]] <= T THEN 0 ELSE time[lru[i]]
  <2>1. lru[i] \notin old
    BY DEF Places, Cached, Quarantined, ToSet
  <2>2. CASE i > from
    BY <1>2, <1>4, <1>6, <2>2
  <2>3. CASE i <= from /\ i > k
    <3>1. i \in walked /\ time[lru[i]] <= T
      BY <1>3, <1>4, <2>3
    <3>2. QED
      BY <1>4, <1>6, <3>1
  <2>4. CASE i <= k
    <3>1. k \in DOMAIN lru /\ time[lru[k]] > T
      BY <1>3, <1>4, <2>4
    <3>2. time[lru[i]] >= time[lru[k]]
      BY <1>4, <2>4, <3>1 DEF CacheOrder
    <3>3. ~(time[lru[i]] <= T)
      BY <1>4, <3>1, <3>2
    <3>4. lru[i] \notin {lru[j] : j \in walked}
      <4>1. \A j \in walked : j \in DOMAIN lru /\ j # i
        BY <1>3, <1>4, <2>4
      <4>2. QED
        BY <4>1 DEF Places
    <3>5. QED
      BY <1>4, <1>6, <2>1, <3>3, <3>4
  <2>5. QED
    BY <1>4, <2>2, <2>3, <2>4
<1>8. ASSUME NEW b \in Quarantined PROVE time'[b] = IF time[b] <= T THEN 0 ELSE time[b]
  <2>1. PICK i \in Slots : b = quarantine[i] /\ b # None
    BY DEF Quarantined
  <2>2. b \in Blocks /\ b \notin {lru[j] : j \in walked}
    <3>1. \A j \in walked : j \in DOMAIN lru
      BY <1>3, <1>4
    <3>2. QED
      BY <1>4, <2>1, <3>1 DEF Places, Cached, ToSet
  <2>3. CASE time[b] <= T
    BY <1>6, <2>1, <2>2, <2>3
  <2>4. CASE ~(time[b] <= T)
    BY <1>6, <2>1, <2>2, <2>4
  <2>5. QED
    BY <2>3, <2>4
<1>9. time' \in [Blocks -> Nat] /\ dirty' \in [Blocks -> BOOLEAN]
  <2>1. time' \in [Blocks -> Nat]
    BY <1>1 DEF Unmapped, Types, BlockTypes
  <2>2. dirty' \in [Blocks -> BOOLEAN]
    BY <1>1 DEF Unmapped, Types, BlockTypes
  <2>3. QED
    BY <2>1, <2>2
<1>10. \A b \in out : b \in Cached \union Quarantined
  <2>1. \A j \in walked : j \in DOMAIN lru
    BY <1>3, <1>4
  <2>2. QED
    BY <2>1 DEF Cached, Quarantined, ToSet
<1> HIDE DEF out
<1>11. \/ oldest' = None /\ \A i \in DOMAIN lru : time'[lru[i]] = 0
       \/ \E m \in DOMAIN lru :
            /\ oldest' = lru[m] /\ time'[lru[m]] # 0
            /\ \A j \in DOMAIN lru : j > m => time'[lru[j]] = 0
  <2>1. \A j \in DOMAIN lru : j > k => time'[lru[j]] = 0
    <3>1. ASSUME NEW j \in DOMAIN lru, j > k PROVE time[lru[j]] <= T \/ time[lru[j]] = 0
      BY <1>2, <1>3, <1>4, <3>1
    <3>2. QED
      BY <1>7, <3>1
  <2>2. CASE k = 0
    <3>1. oldest' = None
      BY <1>1, <1>3, <2>2
    <3>2. \A j \in DOMAIN lru : time'[lru[j]] = 0
      BY <1>4, <2>1, <2>2
    <3>3. QED
      BY <3>1, <3>2
  <2>3. CASE k # 0
    <3>1. k \in DOMAIN lru /\ time[lru[k]] > T
      BY <1>3, <1>4, <2>3
    <3>2. time'[lru[k]] # 0
      <4>1. k <= from /\ time[lru[k]] # 0
        <5>1. CASE k = from
          BY <1>2, <2>3, <5>1, <1>4
        <5>2. CASE k # from
          <6>1. from \in DOMAIN lru /\ k < from /\ from # 0
            BY <1>4, <2>3, <5>2
          <6>2. time[lru[k]] >= time[lru[from]] /\ time[lru[from]] # 0
            BY <1>2, <3>1, <6>1 DEF CacheOrder
          <6>3. QED
            BY <1>4, <3>1, <6>1, <6>2
        <5>3. QED
          BY <5>1, <5>2
      <4>2. QED
        BY <1>4, <1>7, <3>1, <4>1
    <3>3. oldest' = lru[k]
      <4>1. ~(walked = 1 .. from)
        <5>1. k \in 1 .. from /\ k \notin walked
          BY <1>3, <1>4, <2>3
        <5>2. QED
          BY <5>1
      <4>2. from - Cardinality(walked) = k
        BY <1>3, <1>4
      <4>3. QED
        BY <1>1, <4>1, <4>2
    <3>4. QED
      BY <2>1, <3>1, <3>2, <3>3
  <2>4. QED
    BY <2>2, <2>3
<1>12. \A b \in Cached : time'[b] = IF time[b] <= T THEN 0 ELSE time[b]
  BY <1>7 DEF Cached, ToSet
<1>13. \A b \in Blocks : /\ time'[b] # time[b] => time'[b] = 0 /\ ~dirty'[b]
                         /\ dirty'[b] => dirty[b]
                         /\ b \notin Cached \union Quarantined => time'[b] = time[b]
  BY <1>6, <1>10
<1>14. QED
  BY <1>8, <1>9, <1>11, <1>12, <1>13


\* What is released stays in its place and in its order.
LEMMA ReleasedKept ==
  ASSUME IInv, NEW T \in Int, releaseOlderThan(T),
         UNCHANGED <<inUse, size, inaccessible, lru, quarantine, quarantinePos, settings,
                     now, block, evicted>>,
         \A u \in Threads : pc'[u] = "store" => pc[u] = "store"
  PROVE  BlockTypes' /\ CacheTypes' /\ Places' /\ Times' /\ RingOrder' /\ CacheOrder'
<1>1. UNCHANGED <<quarantineSize, maxEntries, interval, useTagging>>
  BY DEF settings
<1>2. /\ time' \in [Blocks -> Nat] /\ dirty' \in [Blocks -> BOOLEAN]
      /\ \A b \in Cached \union Quarantined : time'[b] = IF time[b] <= T THEN 0 ELSE time[b]
      /\ \A b \in Blocks : time'[b] # time[b] => time'[b] = 0 /\ ~dirty'[b]
      /\ \A b \in Blocks : dirty'[b] => dirty[b]
      /\ \A b \in Blocks : b \notin Cached \union Quarantined => time'[b] = time[b]
      /\ \/ oldest' = None /\ \A i \in DOMAIN lru : time'[lru[i]] = 0
         \/ \E m \in DOMAIN lru :
              /\ oldest' = lru[m] /\ time'[lru[m]] # 0
              /\ \A j \in DOMAIN lru : j > m => time'[lru[j]] = 0
  BY ReleasedEffect DEF IInv
<1>3. /\ \A i \in DOMAIN lru : lru[i] \in Blocks /\ lru[i] \in Cached /\ time[lru[i]] \in Nat
      /\ \A i \in Slots : quarantine[i] # None =>
           quarantine[i] \in Quarantined /\ time[quarantine[i]] \in Nat
  BY DEF IInv, Types, CacheTypes, BlockTypes, Cached, Quarantined, ToSet
<1>4. BlockTypes' /\ CacheTypes'
  <2>1. oldest' \in Blocks \union {None}
    BY <1>2, <1>3
  <2>2. QED
    BY <1>2, <2>1 DEF IInv, Types, BlockTypes, CacheTypes
<1>5. Places'
  BY SamePlaces DEF IInv
<1>6. Times'
  <2>1. \A b \in Blocks : time'[b] <= now'
    <3>1. now' = now /\ now \in Nat /\ \A b \in Blocks : time[b] <= now
      BY DEF IInv, Types, SettingTypes, Times
    <3>2. \A b \in Blocks : time'[b] = 0 \/ time'[b] = time[b]
      BY <1>2
    <3>3. QED
      BY <3>1, <3>2
  <2>2. \A b \in Blocks \ inUse' : useTagging /\ interval = 0 => time'[b] = 0
    BY <1>2 DEF IInv, Times
  <2>3. ASSUME NEW u \in Threads, pc'[u] = "store", time'[block'[u]] = 0
        PROVE  pc[u] = "store" /\ time[block[u]] = 0
    <3>1. pc[u] = "store" /\ block'[u] = block[u]
      BY <2>3
    <3>2. /\ block[u] \in Blocks /\ block[u] \notin Cached /\ block[u] \notin Quarantined
      BY <3>1, InHand DEF IInv
    <3>3. QED
      BY <1>2, <2>3, <3>1, <3>2
  <2>4. \A b \in Blocks : ~dirty'[b] \/ ((dirty'[b] => dirty[b]) /\ time'[b] = time[b])
    BY <1>2
  <2>5. Cached' = Cached /\ Quarantined' = Quarantined
    BY DEF Cached, Quarantined
  <2>6. QED
    BY <1>1, <2>1, <2>2, <2>3, <2>4, <2>5, TimesKept DEF IInv
<1>7. CacheOrder'
  <2>1. \A i, j \in DOMAIN lru : i < j => time'[lru[i]] >= time'[lru[j]]
    <3>1. ASSUME NEW i \in DOMAIN lru, NEW j \in DOMAIN lru, i < j
          PROVE  time'[lru[i]] >= time'[lru[j]]
      <4>1. time[lru[i]] >= time[lru[j]]
        BY <3>1 DEF IInv, CacheOrder
      <4>2. QED
        BY <1>2, <1>3, <4>1
    <3>2. QED
      BY <3>1
  <2>2. QED
    BY <1>2, <2>1 DEF CacheOrder
<1>8. RingOrder'
  <2>1. ASSUME NEW i \in Slots, NEW j \in Slots, Newer(i, j), quarantine[i] # None, quarantine[j] # None
        PROVE  time'[quarantine[i]] >= time'[quarantine[j]]
    <3>1. time[quarantine[i]] >= time[quarantine[j]]
      BY <2>1 DEF IInv, RingOrder
    <3>2. QED
      BY <1>2, <1>3, <2>1, <3>1
  <2>2. ASSUME NEW i \in Slots, NEW j \in DOMAIN lru, quarantine[i] # None
        PROVE  time'[quarantine[i]] >= time'[lru[j]]
    <3>1. time[quarantine[i]] >= time[lru[j]]
      BY <2>2 DEF IInv, RingOrder
    <3>2. QED
      BY <1>2, <1>3, <2>2, <3>1
  <2>3. QED
    BY <1>1, <2>1, <2>2 DEF IInv, RingOrder, Newer
<1>9. QED
  BY <1>4, <1>5, <1>6, <1>7, <1>8

\* The u64 difference of a time and an interval is a time.
LEMMA Wraps == \A x, m : x \in Int /\ m \in Nat /\ m > 0 => x % m \in Int
  BY Z3

\* The release at the end of store(), or without it when the lock is taken.
LEMMA ReleaseKept == ASSUME IInv, NEW t \in Threads, Release(t) PROVE IInv'
<1>1. /\ pc[t] = "release" /\ pc' = [pc EXCEPT ![t] = "idle"]
      /\ options' = [options EXCEPT ![t] = NoOptions] /\ stamp' = [stamp EXCEPT ![t] = 0]
      /\ UNCHANGED <<owner, inUse, size, inaccessible, lru, quarantine, quarantinePos, settings,
                     now, block, evicted>>
  BY DEF Release, Return, Read, Goto
<1>2. UNCHANGED <<quarantineSize, maxEntries, interval, useTagging>>
  BY <1>1 DEF settings
<1>3. block[t] = None /\ evicted[t] = {} /\ \A u \in Threads : pc[u] # "clear"
  BY <1>1 DEF IInv, Control, ThreadControl, InOperation, Types, ThreadTypes
<1>4. /\ pc'[t] = "idle"
      /\ \A u \in Threads \ {t} : pc'[u] = pc[u] /\ options'[u] = options[u]
  BY <1>1 DEF IInv, Types, ThreadTypes
<1>5. \A u \in Threads : pc'[u] # "clear" /\ (pc'[u] = "store" => pc[u] = "store")
  BY <1>3, <1>4
<1>6. BlockTypes' /\ CacheTypes' /\ Places' /\ Times' /\ RingOrder' /\ CacheOrder'
  <2>1. CASE UNCHANGED <<time, dirty, oldest>>
    <3>1. UNCHANGED <<blocks, cache>>
      BY <1>1, <2>1 DEF blocks, cache
    <3>2. BlockTypes' /\ CacheTypes' /\ Places' /\ RingOrder' /\ CacheOrder'
      BY <1>1, <1>2, <3>1, SameBlocks DEF IInv
    <3>3. Times'
      BY <1>1, <1>2, <1>5, <2>1 DEF IInv, Times, Cached, Quarantined
    <3>4. QED
      BY <3>2, <3>3
  <2>2. CASE releaseOlderThan((stamp[t] - options[t].interval) % TimeModulus)
    <3>1. stamp[t] - options[t].interval \in Int
      BY DEF IInv, Types, ThreadTypes, Snapshots
    <3>2. (stamp[t] - options[t].interval) % TimeModulus \in Int
      BY <3>1, Wraps, SecondaryCacheAssumption
    <3>3. QED
      BY <1>1, <1>5, <2>2, <3>2, ReleasedKept
  <2>3. QED
    BY <2>1, <2>2 DEF Release
<1>7. Types'
  <2>1. NoOptions \in Snapshots
    BY DEF NoOptions, Snapshots
  <2>2. ThreadTypes'
    BY <1>1, <2>1 DEF IInv, Types, ThreadTypes, Labels
  <2>3. SettingTypes'
    BY <1>1, <1>2 DEF IInv, Types, SettingTypes
  <2>4. QED
    BY <1>6, <2>2, <2>3 DEF Types
<1>8. Control'
  <2>1. ThreadControl(t)'
    BY <1>1, <1>3, <1>4 DEF ThreadControl, InOperation
  <2>2. QED
    BY <1>1, <1>2, <1>4, <2>1, OneThread DEF IInv, Types
<1>9. Access'
  BY <1>1, <1>2, <1>5 DEF IInv, Access
<1>10. QED
  BY <1>6, <1>7, <1>8, <1>9 DEF IInv

\* releaseToOS() of everything.
LEMMA ReleaseToOSKept == ASSUME IInv, NEW t \in Threads, releaseToOS(t) PROVE IInv'
<1>1. /\ releaseOlderThan(TimeModulus - 1) /\ UNCHANGED <<pc, options, block, evicted, stamp>>
      /\ UNCHANGED <<owner, inUse, size, inaccessible, lru, quarantine, quarantinePos, settings, now>>
  BY DEF releaseToOS, threads
<1>2. UNCHANGED <<quarantineSize, maxEntries, interval, useTagging>>
  BY <1>1 DEF settings
<1>3. BlockTypes' /\ CacheTypes' /\ Places' /\ Times' /\ RingOrder' /\ CacheOrder'
  <2>1. TimeModulus - 1 \in Int
    BY SecondaryCacheAssumption
  <2>2. QED
    BY <1>1, <2>1, ReleasedKept
<1>4. SettingTypes' /\ ThreadTypes'
  BY <1>1, <1>2 DEF IInv, Types, SettingTypes, ThreadTypes
<1>5. Control' /\ Access'
  BY <1>1, <1>2 DEF IInv, Control, ThreadControl, InOperation, Access
<1>6. QED
  BY <1>3, <1>4, <1>5 DEF IInv, Types


\* The slot of the ring that is filled next, which is the one filled longest ago.
LEMMA NextSlot ==
  ASSUME Types, RingOrder, quarantineSize # 0
  PROVE  \E p \in Slots :
           /\ p = (quarantinePos + 1) % quarantineSize
           /\ p = quarantinePos + 1 \/ (p = 0 /\ quarantinePos = quarantineSize - 1)
           /\ p < quarantineSize
           /\ \A i \in Slots : i # p /\ quarantine[i] # None => Newer(i, p)
<1> DEFINE p == (quarantinePos + 1) % quarantineSize
<1>1. PICK m \in Nat : Slots = 0 .. m - 1 /\ quarantineSize \in Nat /\ quarantineSize <= m
  BY SlotsOfRing DEF Types, SettingTypes
<1>2. quarantinePos \in Int /\ quarantinePos >= -1 /\ quarantinePos < quarantineSize
  BY <1>1 DEF Types, CacheTypes, RingOrder
<1>3. \A x, q : x \in Nat /\ q \in Nat /\ x < q => x % q = x
  BY Z3
<1>4. \A q : q \in Nat /\ q # 0 => q % q = 0
  BY Z3
<1>5. p = IF quarantinePos + 1 = quarantineSize THEN 0 ELSE quarantinePos + 1
  <2>1. CASE quarantinePos + 1 = quarantineSize
    BY <1>1, <1>4, <2>1
  <2>2. CASE quarantinePos + 1 # quarantineSize
    <3>1. quarantinePos + 1 \in Nat /\ quarantinePos + 1 < quarantineSize
      BY <1>1, <1>2, <2>2
    <3>2. QED
      BY <1>1, <1>3, <2>2, <3>1
  <2>3. QED
    BY <2>1, <2>2
<1> HIDE DEF p
<1>6. p \in Slots /\ p < quarantineSize /\ (p = quarantinePos + 1 \/ (p = 0 /\ quarantinePos = quarantineSize - 1))
  BY <1>1, <1>2, <1>5
<1>7. ASSUME NEW i \in Slots, i # p, quarantine[i] # None PROVE Newer(i, p)
  <2>1. i \in Nat /\ i < quarantineSize
    BY <1>1, <1>7 DEF RingOrder
  <2>2. QED
    BY <1>1, <1>2, <1>5, <1>7, <2>1 DEF Newer
<1>8. QED
  BY <1>6, <1>7 DEF p

\* A block that is newer than all in the ring goes into the next slot.
LEMMA RotatedOrder ==
  ASSUME Types, RingOrder, quarantineSize # 0, NEW p \in Slots,
         p = quarantinePos + 1 \/ (p = 0 /\ quarantinePos = quarantineSize - 1),
         p < quarantineSize, NEW x \in Blocks,
         quarantine' = [quarantine EXCEPT ![p] = x], quarantinePos' = p,
         \A b \in Quarantined : time'[b] = time[b] /\ time'[x] >= time[b]
  PROVE  \A i, j \in Slots : Newer(i, j)' /\ quarantine'[i] # None /\ quarantine'[j] # None =>
           time'[quarantine'[i]] >= time'[quarantine'[j]]
<1> SUFFICES ASSUME NEW i \in Slots, NEW j \in Slots, Newer(i, j)',
                    quarantine'[i] # None, quarantine'[j] # None
             PROVE  time'[quarantine'[i]] >= time'[quarantine'[j]]
  OBVIOUS
<1>1. PICK m \in Nat : Slots = 0 .. m - 1 /\ quarantineSize \in Nat
  BY SlotsOfRing DEF Types, SettingTypes
<1>2. quarantine'[p] = x /\ \A k \in Slots : k # p => quarantine'[k] = quarantine[k]
  BY DEF Types, CacheTypes
<1>3. \A k \in Slots : k # p /\ quarantine'[k] # None => quarantine[k] \in Quarantined
  BY <1>2 DEF Quarantined
<1>4. j # p
  BY <1>1 DEF Newer
<1>5. CASE i = p
  BY <1>2, <1>3, <1>4, <1>5
<1>6. CASE i # p
  <2>1. i < quarantineSize
    BY <1>1, <1>2, <1>6 DEF RingOrder
  <2>2. quarantinePos \in Int
    BY DEF Types, CacheTypes
  <2>3. Newer(i, j)
    BY <1>1, <1>4, <1>6, <2>1, <2>2 DEF Newer
  <2>4. time[quarantine[i]] >= time[quarantine[j]]
    BY <1>2, <1>4, <1>6, <2>3 DEF RingOrder
  <2>5. QED
    BY <1>2, <1>3, <1>4, <1>6, <2>4
<1>7. QED
  BY <1>5, <1>6


\* insert() of an entry that is newer than the cache, and the evictions.
LEMMA InsertedOrder ==
  ASSUME Types, Places, CacheOrder, NEW t \in Threads, NEW e \in Blocks, e \notin Cached,
         maxEntries # 0, InsertAndEvict(t, e, time'),
         \A b \in Cached : time'[b] = time[b] /\ time'[e] >= time[b],
         time' \in [Blocks -> Nat]
  PROVE  /\ lru' \in Seq(Blocks) /\ Len(lru') <= EntriesArraySize
         /\ oldest' \in Blocks \union {None} /\ CacheOrder'
         /\ \A i, j \in DOMAIN lru' : lru'[i] = lru'[j] => i = j
         /\ \E out \in SUBSET Cached :
              /\ Cached' = {e} \union (Cached \ out)
              /\ evicted' = [evicted EXCEPT ![t] = out]
         /\ stamp' = [stamp EXCEPT ![t] = now] /\ pc' = [pc EXCEPT ![t] = "evicted"]
<1> DEFINE kept == SubSeq(lru, 1, Min({Len(lru), MaxKept}))
           out  == ToSet(lru) \ ToSet(kept)
           old  == IF oldest \notin out THEN oldest ELSE IF kept = <<>> THEN None ELSE Last(kept)
<1>1. /\ lru' = <<e>> \o kept /\ oldest' = IF old = None /\ time'[e] # 0 THEN e ELSE old
      /\ evicted' = [evicted EXCEPT ![t] = out] /\ stamp' = [stamp EXCEPT ![t] = now]
      /\ pc' = [pc EXCEPT ![t] = "evicted"]
  BY Zenon DEF InsertAndEvict, insert, Goto
<1>2. /\ lru \in Seq(Blocks) /\ Len(lru) \in Nat /\ DOMAIN lru = 1 .. Len(lru)
      /\ \A i \in DOMAIN lru : lru[i] \in Blocks /\ lru[i] \in Cached /\ time[lru[i]] \in Nat
      /\ \A i, j \in DOMAIN lru : lru[i] = lru[j] => i = j
      /\ None \notin Blocks
  BY SecondaryCacheAssumption DEF Types, CacheTypes, BlockTypes, Places, Cached, ToSet
<1>3. maxEntries \in Nat /\ MaxKept \in Nat /\ MaxKept + 1 <= EntriesArraySize /\ EntriesArraySize \in Nat
  BY SecondaryCacheAssumption DEF Types, SettingTypes, MaxKept
<1>4. PICK n \in 0 .. Len(lru) : n <= MaxKept /\ Min({Len(lru), MaxKept}) = n
  <2>1. Min({Len(lru), MaxKept}) = IF Len(lru) <= MaxKept THEN Len(lru) ELSE MaxKept
    BY <1>2, <1>3, MinOfTwo
  <2>2. QED
    BY <1>2, <1>3, <2>1
<1>5. /\ lru' \in Seq(Blocks) /\ Len(lru') = n + 1 /\ DOMAIN lru' = 1 .. n + 1
      /\ lru'[1] = e /\ \A j \in 2 .. n + 1 : lru'[j] = lru[j - 1]
      /\ DOMAIN kept = 1 .. n /\ Len(kept) = n /\ \A j \in 1 .. n : kept[j] = lru[j]
      /\ (kept = <<>> <=> n = 0)
  <2>0. lru \in Seq(Blocks) /\ e \in Blocks /\ n \in 0 .. Len(lru)
    BY <1>2
  <2>1. LET k == SubSeq(lru, 1, n)
            r == <<e>> \o k
        IN  /\ r \in Seq(Blocks) /\ Len(r) = n + 1 /\ DOMAIN r = 1 .. n + 1
            /\ r[1] = e /\ \A j \in 2 .. n + 1 : r[j] = lru[j - 1]
            /\ DOMAIN k = 1 .. n /\ Len(k) = n /\ \A j \in 1 .. n : k[j] = lru[j]
            /\ (k = <<>> <=> n = 0)
    BY <2>0, Inserted, Zenon
  <2>2. kept = SubSeq(lru, 1, n)
    BY <1>4
  <2> HIDE DEF kept
  <2>3. QED
    BY <1>1, <2>1, <2>2, Zenon
<1> HIDE DEF kept
<1>6. \A i \in DOMAIN lru : lru[i] \in out <=> i > n
  <2>1. ToSet(kept) = {lru[j] : j \in 1 .. n}
    BY <1>5, SMTT(30), ZenonT(20) DEF ToSet
  <2>2. ASSUME NEW i \in DOMAIN lru PROVE lru[i] \in ToSet(kept) <=> i <= n
    <3>1. i \in Nat /\ i >= 1 /\ \A j \in 1 .. n : j \in DOMAIN lru
      BY <1>2, <1>4
    <3>2. lru[i] \in {lru[j] : j \in 1 .. n} <=> i \in 1 .. n
      BY <1>2, <3>1
    <3>3. QED
      BY <1>4, <2>1, <3>1, <3>2
  <2>3. \A i \in DOMAIN lru : i \in Int /\ lru[i] \in ToSet(lru)
    BY <1>2 DEF ToSet
  <2>4. QED
    BY <2>2, <2>3
<1>7. old = IF oldest \notin out THEN oldest ELSE IF n = 0 THEN None ELSE lru[n]
  <2>1. n # 0 => Last(kept) = lru[n]
    BY <1>5 DEF Last
  <2>2. QED
    BY <1>5, <2>1
<1>8. out \in SUBSET Cached
  BY DEF Cached
<1> HIDE DEF out, old
<1>9. /\ n \in Nat
      /\ \A j \in 1 .. n : j \in DOMAIN lru /\ j + 1 \in DOMAIN lru' /\ lru'[j + 1] = lru[j]
      /\ \A j \in DOMAIN lru' : j # 1 => j - 1 \in 1 .. n /\ lru'[j] = lru[j - 1]
  <2>1. ASSUME NEW j \in 1 .. n PROVE j \in DOMAIN lru /\ j + 1 \in DOMAIN lru' /\ lru'[j + 1] = lru[j]
    <3>1. j + 1 \in 2 .. n + 1 /\ (j + 1) - 1 = j
      BY <1>4
    <3>2. lru'[j + 1] = lru[(j + 1) - 1]
      BY <1>5, <3>1
    <3>3. QED
      BY <1>2, <1>4, <1>5, <3>1, <3>2
  <2>2. ASSUME NEW j \in DOMAIN lru', j # 1 PROVE j - 1 \in 1 .. n /\ lru'[j] = lru[j - 1]
    <3>1. j \in 2 .. n + 1 /\ j - 1 \in 1 .. n
      BY <1>4, <1>5, <2>2
    <3>2. QED
      BY <1>5, <3>1
  <2>3. n \in Nat
    BY <1>4
  <2>4. QED
    BY <2>1, <2>2, <2>3
<1>10. Cached' = {e} \union (Cached \ out)
  <2>1. ASSUME NEW b \in Cached' PROVE b = e \/ (b \in Cached /\ b \notin out)
    <3>1. PICK j \in DOMAIN lru' : b = lru'[j]
      BY DEF Cached, ToSet
    <3>2. CASE j = 1
      BY <1>5, <3>1, <3>2
    <3>3. CASE j # 1
      BY <1>2, <1>6, <1>9, <3>1, <3>3
    <3>4. QED
      BY <3>2, <3>3
  <2>2. e \in Cached'
    BY <1>5, <1>4 DEF Cached, ToSet
  <2>3. ASSUME NEW b \in Cached, b \notin out PROVE b \in Cached'
    <3>1. PICK j \in DOMAIN lru : b = lru[j]
      BY DEF Cached, ToSet
    <3>2. j \in 1 .. n
      BY <1>2, <1>6, <1>9, <2>3, <3>1
    <3>3. QED
      BY <1>9, <3>1, <3>2 DEF Cached, ToSet
  <2>4. QED
    BY <2>1, <2>2, <2>3
<1>11. \A i, j \in DOMAIN lru' : lru'[i] = lru'[j] => i = j
  <2>1. ASSUME NEW i \in DOMAIN lru', NEW j \in DOMAIN lru', lru'[i] = lru'[j] PROVE i = j
    <3>1. i \in Int /\ j \in Int
      BY <1>5
    <3>2. \A k \in DOMAIN lru' : k # 1 => lru'[k] # e
      BY <1>2, <1>9
    <3>3. CASE i = 1 \/ j = 1
      BY <1>5, <2>1, <3>2, <3>3
    <3>4. CASE i # 1 /\ j # 1
      <4>1. lru[i - 1] = lru[j - 1] /\ i - 1 \in DOMAIN lru /\ j - 1 \in DOMAIN lru
        BY <1>9, <2>1, <3>4
      <4>2. i - 1 = j - 1
        BY <1>2, <4>1
      <4>3. QED
        BY <3>1, <4>2
    <3>5. QED
      BY <3>3, <3>4
  <2>2. QED
    BY <2>1
<1>12. /\ \A j \in 1 .. n : time'[lru'[j + 1]] = time[lru[j]]
       /\ \A j \in DOMAIN lru' : j # 1 => time'[lru'[j]] = time[lru[j - 1]] /\ time'[e] >= time[lru[j - 1]]
  <2>1. \A j \in 1 .. n : time'[lru'[j + 1]] = time[lru[j]]
    BY <1>2, <1>9
  <2>2. ASSUME NEW j \in DOMAIN lru', j # 1
        PROVE  time'[lru'[j]] = time[lru[j - 1]] /\ time'[e] >= time[lru[j - 1]]
    <3>1. lru'[j] = lru[j - 1] /\ lru[j - 1] \in Cached
      BY <1>2, <1>9, <2>2
    <3>2. QED
      BY <3>1
  <2>3. QED
    BY <2>1, <2>2
<1>13. \A i, j \in DOMAIN lru' : i < j => time'[lru'[i]] >= time'[lru'[j]]
  <2>1. ASSUME NEW i \in DOMAIN lru', NEW j \in DOMAIN lru', i < j
        PROVE  time'[lru'[i]] >= time'[lru'[j]]
    <3>1. j # 1
      BY <1>5, <2>1
    <3>2. CASE i = 1
      BY <1>5, <1>12, <3>1, <3>2
    <3>3. CASE i # 1
      <4>1. i - 1 \in DOMAIN lru /\ j - 1 \in DOMAIN lru /\ i - 1 < j - 1
        BY <1>5, <1>9, <2>1, <3>1, <3>3, SMTT(30), ZenonT(20)
      <4>2. time[lru[i - 1]] >= time[lru[j - 1]]
        BY <4>1 DEF CacheOrder
      <4>3. QED
        BY <1>12, <3>1, <3>3, <4>2
    <3>4. QED
      BY <3>2, <3>3
  <2>2. QED
    BY <2>1
<1>14. \/ oldest' = None /\ \A i \in DOMAIN lru' : time'[lru'[i]] = 0
       \/ \E m \in DOMAIN lru' :
            /\ oldest' = lru'[m] /\ time'[lru'[m]] # 0
            /\ \A j \in DOMAIN lru' : j > m => time'[lru'[j]] = 0
  <2>1. CASE old = None /\ \A j \in 1 .. n : time[lru[j]] = 0
    <3>1. \A j \in DOMAIN lru' : j # 1 => time'[lru'[j]] = 0
      BY <1>9, <1>12, <2>1
    <3>2. CASE time'[e] # 0
      <4>1. 1 \in DOMAIN lru' /\ oldest' = lru'[1] /\ time'[lru'[1]] # 0
        BY <1>1, <1>4, <1>5, <2>1, <3>2
      <4>2. \A j \in DOMAIN lru' : j > 1 => time'[lru'[j]] = 0
        BY <1>5, <3>1
      <4>3. QED
        BY <4>1, <4>2
    <3>3. CASE time'[e] = 0
      BY <1>1, <1>5, <2>1, <3>1, <3>3, SMTT(30), ZenonT(20)
    <3>4. QED
      BY <3>2, <3>3
  <2>2. ASSUME NEW m \in 1 .. n, old = lru[m], time[lru[m]] # 0,
               \A j \in 1 .. n : j > m => time[lru[j]] = 0
        PROVE  \E k \in DOMAIN lru' :
                 /\ oldest' = lru'[k] /\ time'[lru'[k]] # 0
                 /\ \A j \in DOMAIN lru' : j > k => time'[lru'[j]] = 0
    <3>1. m + 1 \in DOMAIN lru' /\ lru'[m + 1] = lru[m] /\ time'[lru'[m + 1]] # 0
      BY <1>9, <1>12, <2>2
    <3>2. oldest' = lru'[m + 1]
      BY <1>1, <1>2, <1>9, <2>2, <3>1
    <3>3. ASSUME NEW j \in DOMAIN lru', j > m + 1 PROVE time'[lru'[j]] = 0
      <4>1. j \in Int /\ j > m + 1 /\ m \in Nat /\ m >= 1
        BY <1>5, <1>9, <3>3
      <4>2. j # 1 /\ j - 1 > m
        BY <4>1
      <4>3. j - 1 \in 1 .. n /\ time'[lru'[j]] = time[lru[j - 1]]
        BY <1>9, <1>12, <4>2
      <4>4. QED
        BY <2>2, <4>2, <4>3
    <3>4. QED
      BY <3>1, <3>2, <3>3
  <2>3. CASE oldest = None /\ \A i \in DOMAIN lru : time[lru[i]] = 0
    <3>1. None \notin out
      BY <1>2, <1>8 DEF Types, CacheTypes, Cached, ToSet
    <3>2. QED
      BY <1>7, <1>9, <2>1, <2>3, <3>1
  <2>4. ASSUME NEW m \in DOMAIN lru, oldest = lru[m], time[lru[m]] # 0,
               \A j \in DOMAIN lru : j > m => time[lru[j]] = 0
        PROVE  \/ old = None /\ \A j \in 1 .. n : time[lru[j]] = 0
               \/ \E k \in 1 .. n : /\ old = lru[k] /\ time[lru[k]] # 0
                                    /\ \A j \in 1 .. n : j > k => time[lru[j]] = 0
    <3>1. CASE m <= n
      <4>1. old = lru[m] /\ m \in 1 .. n
        BY <1>2, <1>6, <1>7, <1>9, <2>4, <3>1
      <4>2. QED
        BY <1>9, <2>4, <4>1
    <3>2. CASE m > n /\ n = 0
      BY <1>6, <1>7, <2>4, <3>2
    <3>3. CASE m > n /\ n # 0
      <4>1. old = lru[n] /\ n \in 1 .. n /\ n \in DOMAIN lru
        BY <1>6, <1>7, <1>9, <2>4, <3>3
      <4>2. time[lru[n]] >= time[lru[m]]
        BY <2>4, <3>3, <4>1 DEF CacheOrder
      <4>3. time[lru[n]] # 0
        BY <1>2, <2>4, <4>1, <4>2
      <4>4. \A j \in 1 .. n : ~(j > n)
        BY <1>9
      <4>5. QED
        BY <4>1, <4>3, <4>4
    <3>4. QED
      BY <1>2, <1>9, <3>1, <3>2, <3>3
  <2>5. QED
    BY <2>1, <2>2, <2>3, <2>4 DEF CacheOrder
<1>15. oldest' \in Blocks \union {None}
  BY <1>5, <1>14
<1>16. CacheOrder'
  BY <1>13, <1>14 DEF CacheOrder
<1>17. Len(lru') <= EntriesArraySize
  BY <1>3, <1>4, <1>5
<1>18. \E S \in SUBSET Cached : Cached' = {e} \union (Cached \ S) /\ evicted' = [evicted EXCEPT ![t] = S]
  BY <1>1, <1>8, <1>10
<1>19. QED
  BY <1>1, <1>5, <1>11, <1>15, <1>16, <1>17, <1>18


\* Blocks that move between the cache, the ring and one hand still have one place.
LEMMA PlacesMoved ==
  ASSUME Places, NEW t \in Threads, UNCHANGED <<inUse, size>>,
         \A i, j \in DOMAIN lru' : lru'[i] = lru'[j] => i = j,
         \A i, j \in Slots : quarantine'[i] = quarantine'[j] => i = j \/ quarantine'[i] = None,
         \A u \in Threads : u # t => Hand(u)' = Hand(u),
         \A b \in Cached' : b \notin Quarantined' /\ b \notin Hand(t)',
         \A b \in Quarantined' : b \notin Hand(t)',
         \A b : b \in Cached' \/ b \in Quarantined' \/ b \in Hand(t)' <=>
                b \in Cached \/ b \in Quarantined \/ b \in Hand(t)
  PROVE  Places'
<1>1. \A b : b \in Cached \/ b \in Quarantined \/ b \in Hand(t) =>
        b \notin inUse /\ \A u \in Threads : u # t => b \notin Hand(u)
  BY DEF Places
<1>2. ASSUME NEW u \in Threads, NEW b \in Hand(u)'
      PROVE  /\ b \notin Cached' /\ b \notin Quarantined' /\ b \notin inUse'
             /\ \A v \in Threads : b \in Hand(v)' => v = u
  <2>1. CASE u = t
    BY <1>1, <1>2, <2>1
  <2>2. CASE u # t
    <3>1. b \in Hand(u)
      BY <1>2, <2>2
    <3>2. /\ b \notin Cached /\ b \notin Quarantined /\ b \notin inUse
          /\ \A v \in Threads : b \in Hand(v) => v = u
      BY <3>1 DEF Places
    <3>3. QED
      BY <2>2, <3>2
  <2>3. QED
    BY <2>1, <2>2
<1>3. \A b \in Cached' : b \notin Quarantined' /\ b \notin inUse'
  BY <1>1
<1>4. \A b \in Quarantined' : b \notin inUse'
  BY <1>1
<1>5. ASSUME NEW b \in Blocks
      PROVE  size'[b] # 0 <=> \/ b \in Cached' \/ b \in Quarantined' \/ b \in inUse'
                              \/ \E u \in Threads : b \in Hand(u)'
  <2>1. size[b] # 0 <=> \/ b \in Cached \/ b \in Quarantined \/ b \in inUse
                        \/ \E u \in Threads : b \in Hand(u)
    BY DEF Places
  <2>2. QED
    BY <2>1
<1>6. QED
  BY <1>2, <1>3, <1>4, <1>5 DEF Places

\* The block that is stored is the newest there is.
LEMMA StoredNewest ==
  ASSUME IInv, NEW t \in Threads, pc[t] = "store", NEW x, x = block[t],
         time' = IF time[x] = 0 THEN time ELSE [time EXCEPT ![x] = now]
  PROVE  /\ time' \in [Blocks -> Nat]
         /\ time'[x] = IF time[x] = 0 THEN 0 ELSE now
         /\ \A b \in Blocks : b # x => time'[b] = time[b]
         /\ \A b \in Cached \union Quarantined : time'[b] = time[b] /\ time'[x] >= time[b]
<1>1. x \in Blocks /\ x \notin Cached /\ x \notin Quarantined /\ now \in Nat
  BY InHand DEF IInv, Types, SettingTypes
<1>2. /\ time' \in [Blocks -> Nat] /\ time'[x] = IF time[x] = 0 THEN 0 ELSE now
      /\ \A b \in Blocks : b # x => time'[b] = time[b]
  BY <1>1 DEF IInv, Types, BlockTypes
<1>3. \A b \in Cached \union Quarantined : b \in Blocks /\ b \notin inUse /\ b # x
  BY <1>1 DEF IInv, Types, CacheTypes, Cached, Quarantined, ToSet, Places
<1>4. CASE time[x] = 0
  <2>1. useTagging /\ interval = 0
    BY <1>4 DEF IInv, Times
  <2>2. \A b \in Cached \union Quarantined : time[b] = 0
    BY <1>3, <2>1 DEF IInv, Times
  <2>3. QED
    BY <1>2, <1>3, <1>4, <2>2
<1>5. CASE time[x] # 0
  <2>1. \A b \in Cached \union Quarantined : time[b] <= now /\ time[b] \in Nat
    BY <1>3 DEF IInv, Types, BlockTypes, Times
  <2>2. QED
    BY <1>1, <1>2, <1>3, <1>5, <2>1
<1>6. QED
  BY <1>2, <1>4, <1>5


\* What store() leaves in the ring: the block in place of the oldest there.
LEMMA RotatedRing ==
  ASSUME IInv, NEW t \in Threads, pc[t] = "store", NEW x, x = block[t],
         time' = IF time[x] = 0 THEN time ELSE [time EXCEPT ![x] = now],
         quarantineSize # 0, quarantineSize' = quarantineSize,
         Rotate(x, (quarantinePos + 1) % quarantineSize)
  PROVE  \E p \in Slots :
           /\ p = (quarantinePos + 1) % quarantineSize
           /\ quarantine' \in [Slots -> Blocks \union {None}] /\ quarantinePos' \in Int
           /\ \A i, j \in Slots : quarantine'[i] = quarantine'[j] => i = j \/ quarantine'[i] = None
           /\ Quarantined' = {x} \union (Quarantined \ {quarantine[p]})
           /\ \A c \in Cached \union ({quarantine[p]} \ {None}) :
                c \in Blocks /\ \A b \in Quarantined' : b \in Blocks /\ time'[b] >= time'[c]
           /\ Cached' \subseteq Cached \union ({quarantine[p]} \ {None}) => RingOrder'
<1>1. PICK p \in Slots :
        /\ p = (quarantinePos + 1) % quarantineSize
        /\ p = quarantinePos + 1 \/ (p = 0 /\ quarantinePos = quarantineSize - 1)
        /\ p < quarantineSize
        /\ \A i \in Slots : i # p /\ quarantine[i] # None => Newer(i, p)
  BY NextSlot DEF IInv
<1>2. quarantine' = [quarantine EXCEPT ![p] = x] /\ quarantinePos' = p
  BY <1>1 DEF Rotate
<1>3. /\ x \in Blocks /\ x # None /\ x \notin Cached /\ x \notin Quarantined
      /\ quarantine \in [Slots -> Blocks \union {None}]
      /\ \A i \in Slots : quarantine[i] # None => quarantine[i] \in Quarantined
      /\ \A b \in Quarantined : b # None /\ b \in Blocks
      /\ \A c \in Cached : c \in Blocks
  BY InHand DEF IInv, Types, CacheTypes, Cached, Quarantined, ToSet
<1>4. /\ time' \in [Blocks -> Nat]
      /\ \A b \in Cached \union Quarantined : time'[b] = time[b] /\ time'[x] >= time[b]
  BY StoredNewest
<1>5. quarantine'[p] = x /\ \A k \in Slots : k # p => quarantine'[k] = quarantine[k]
  BY <1>2, <1>3
<1>6. \A i, j \in Slots : Newer(i, j)' /\ quarantine'[i] # None /\ quarantine'[j] # None =>
        time'[quarantine'[i]] >= time'[quarantine'[j]]
  <2>1. Types /\ RingOrder /\ x \in Blocks
    BY <1>3 DEF IInv
  <2>2. p = quarantinePos + 1 \/ (p = 0 /\ quarantinePos = quarantineSize - 1)
    BY <1>1
  <2>3. p < quarantineSize
    BY <1>1
  <2>4. \A b \in Quarantined : time'[b] = time[b] /\ time'[x] >= time[b]
    BY <1>4
  <2>5. QED
    BY <1>2, <2>1, <2>2, <2>3, <2>4, RotatedOrder
<1>7. \A i, j \in Slots : quarantine[i] = quarantine[j] => i = j \/ quarantine[i] = None
  BY DEF IInv, Places
<1>8. \A i, j \in Slots : quarantine'[i] = quarantine'[j] => i = j \/ quarantine'[i] = None
  <2>1. \A k \in Slots : k # p => quarantine'[k] # x
    BY <1>3, <1>5
  <2>2. QED
    BY <1>5, <1>7, <2>1
<1>9. Quarantined' = {x} \union (Quarantined \ {quarantine[p]})
  <2>1. ASSUME NEW b \in Quarantined' PROVE b = x \/ (b \in Quarantined /\ b # quarantine[p])
    <3>1. PICK i \in Slots : b = quarantine'[i] /\ b # None
      BY DEF Quarantined
    <3>2. QED
      BY <1>3, <1>5, <1>7, <3>1
  <2>2. x \in Quarantined'
    BY <1>3, <1>5 DEF Quarantined
  <2>3. ASSUME NEW b \in Quarantined, b # quarantine[p] PROVE b \in Quarantined'
    <3>1. PICK i \in Slots : b = quarantine[i] /\ b # None
      BY DEF Quarantined
    <3>2. b = quarantine'[i]
      BY <1>5, <2>3, <3>1
    <3>3. QED
      BY <3>1, <3>2 DEF Quarantined
  <2>4. QED
    BY <2>1, <2>2, <2>3
<1>10. ASSUME NEW c \in Cached \union ({quarantine[p]} \ {None})
       PROVE  c \in Blocks /\ \A b \in Quarantined' : b \in Blocks /\ time'[b] >= time'[c]
  <2>1. c \in Cached \union Quarantined /\ c \in Blocks /\ time'[c] = time[c] /\ time'[x] >= time[c]
    BY <1>3, <1>4
  <2>2. ASSUME NEW b \in Quarantined, b # quarantine[p] PROVE b \in Blocks /\ time[b] >= time[c]
    <3>1. PICK i \in Slots : b = quarantine[i] /\ b # None /\ i # p
      BY <2>2 DEF Quarantined
    <3>2. CASE c \in Cached
      <4>1. PICK j \in DOMAIN lru : c = lru[j]
        BY <3>2 DEF Cached, ToSet
      <4>2. QED
        BY <1>3, <3>1, <4>1 DEF IInv, RingOrder
    <3>3. CASE c = quarantine[p] /\ c # None
      BY <1>1, <1>3, <3>1, <3>3 DEF IInv, RingOrder
    <3>4. QED
      BY <3>2, <3>3
  <2>3. ASSUME NEW b \in Quarantined' PROVE b \in Blocks /\ time'[b] >= time'[c]
    <3>1. CASE b = x
      BY <1>3, <2>1, <3>1
    <3>2. CASE b \in Quarantined /\ b # quarantine[p]
      BY <1>4, <2>1, <2>2, <3>2
    <3>3. QED
      BY <1>9, <3>1, <3>2
  <2>4. QED
    BY <2>1, <2>3
<1>11. ASSUME Cached' \subseteq Cached \union ({quarantine[p]} \ {None}) PROVE RingOrder'
  <2>1. PICK m \in Nat : Slots = 0 .. m - 1
    BY SlotsOfRing
  <2>2. quarantinePos' >= -1 /\ quarantinePos' < quarantineSize'
    BY <1>1, <1>2, <2>1
  <2>3. \A i \in Slots : i >= quarantineSize' => quarantine'[i] = None
    <3>1. quarantineSize \in Nat
      BY SlotsOfRing DEF IInv, Types, SettingTypes
    <3>2. \A i \in Slots : i >= quarantineSize => i # p
      BY <1>1, <2>1, <3>1
    <3>3. QED
      BY <1>5, <3>2 DEF IInv, RingOrder
  <2>4. ASSUME NEW i \in Slots, NEW j \in DOMAIN lru', quarantine'[i] # None
        PROVE  time'[quarantine'[i]] >= time'[lru'[j]]
    <3>1. quarantine'[i] \in Quarantined' /\ lru'[j] \in Cached'
      BY <2>4 DEF Quarantined, Cached, ToSet
    <3>2. QED
      BY <1>10, <1>11, <3>1
  <2>5. QED
    BY <1>6, <2>2, <2>3, <2>4 DEF RingOrder
<1>12. quarantine' \in [Slots -> Blocks \union {None}] /\ quarantinePos' \in Int
  <2>1. PICK m \in Nat : Slots = 0 .. m - 1
    BY SlotsOfRing
  <2>2. QED
    BY <1>2, <1>3, <2>1
<1>13. QED
  BY <1>1, <1>8, <1>9, <1>10, <1>11, <1>12


\* What store() leaves behind: in the lists, in the hands of the thread, and where
\* the thread is.
Filed(t, x, l, o, out) ==
  /\ (l = "idle" /\ out = {}) \/ (l = "evicted" /\ o = options[t])
  /\ pc' = [pc EXCEPT ![t] = l] /\ options' = [options EXCEPT ![t] = o]
  /\ evicted' = [evicted EXCEPT ![t] = out] /\ stamp' \in [Threads -> Nat]
  /\ CacheTypes' /\ RingOrder' /\ CacheOrder'
  /\ \A i, j \in DOMAIN lru' : lru'[i] = lru'[j] => i = j
  /\ \A i, j \in Slots : quarantine'[i] = quarantine'[j] => i = j \/ quarantine'[i] = None
  /\ \A b \in Cached' : b \notin Quarantined' /\ b \notin out
  /\ \A b \in Quarantined' : b \notin out
  /\ \A b : b \in Cached' \/ b \in Quarantined' \/ b \in out <=>
            b \in Cached \/ b \in Quarantined \/ b = x

\* An entry that comes from the block itself, or from the ring, goes into the cache.
LEMMA FiledInCache ==
  ASSUME IInv, NEW t \in Threads, pc[t] = "store", NEW x, x = block[t], NEW e \in Blocks,
         e \notin Cached, \A b \in Cached : time'[b] = time[b] /\ time'[e] >= time[b],
         time' \in [Blocks -> Nat], InsertAndEvict(t, e, time'), UNCHANGED options,
         Cached' \subseteq Cached \union {e} => RingOrder',
         quarantine' \in [Slots -> Blocks \union {None}], quarantinePos' \in Int,
         \A i, j \in Slots : quarantine'[i] = quarantine'[j] => i = j \/ quarantine'[i] = None,
         \A b : b \in Quarantined' => b \notin Cached /\ b # e,
         \A b : b \in Quarantined' \/ b = e <=> b \in Quarantined \/ b = x
  PROVE  \E out \in SUBSET Blocks : Filed(t, x, "evicted", options[t], out)
<1>1. maxEntries # 0
  BY DEF IInv, Control, ThreadControl
<1>2. /\ lru' \in Seq(Blocks) /\ Len(lru') <= EntriesArraySize
      /\ oldest' \in Blocks \union {None} /\ CacheOrder'
      /\ \A i, j \in DOMAIN lru' : lru'[i] = lru'[j] => i = j
      /\ \E out \in SUBSET Cached :
           /\ Cached' = {e} \union (Cached \ out)
           /\ evicted' = [evicted EXCEPT ![t] = out]
      /\ stamp' = [stamp EXCEPT ![t] = now] /\ pc' = [pc EXCEPT ![t] = "evicted"]
  BY <1>1, InsertedOrder DEF IInv
<1>3. PICK out \in SUBSET Cached :
        Cached' = {e} \union (Cached \ out) /\ evicted' = [evicted EXCEPT ![t] = out]
  BY <1>2
<1>4. RingOrder'
  BY <1>3
<1>5. CacheTypes'
  BY <1>2 DEF CacheTypes
<1>6. options' = [options EXCEPT ![t] = options[t]] /\ stamp' \in [Threads -> Nat]
  BY <1>2 DEF IInv, Types, SettingTypes, ThreadTypes
<1>7. /\ \A b \in Cached' : b \notin Quarantined' /\ b \notin out
      /\ \A b \in Quarantined' : b \notin out
      /\ \A b : b \in Cached' \/ b \in Quarantined' \/ b \in out <=>
                b \in Cached \/ b \in Quarantined \/ b = x
  BY <1>3
<1>8. out \in SUBSET Blocks
  BY DEF IInv, Types, CacheTypes, Cached, ToSet
<1>9. Filed(t, x, "evicted", options[t], out)
  BY <1>2, <1>3, <1>4, <1>5, <1>6, <1>7 DEF Filed
<1>10. QED
  BY <1>8, <1>9

\* store() moves the block into the lists.
LEMMA StoreFiled ==
  ASSUME IInv, NEW t \in Threads, Store(t)
  PROVE  \E l \in {"idle", "evicted"}, o \in {options[t], NoOptions}, out \in SUBSET Blocks :
           Filed(t, block[t], l, o, out)
<1> DEFINE x     == block[t]
           times == IF time[x] = 0 THEN time ELSE [time EXCEPT ![x] = now]
           pos   == (quarantinePos + 1) % quarantineSize
           entry == IF quarantineSize = 0 THEN x ELSE quarantine[pos]
<1>1. /\ pc[t] = "store" /\ time' = times /\ Rotate(x, pos)
      /\ \/ entry = None /\ Read(t, NoOptions) /\ Goto(t, "idle")
            /\ UNCHANGED <<lru, oldest, evicted, stamp>>
         \/ entry # None /\ InsertAndEvict(t, entry, time') /\ UNCHANGED options
      /\ UNCHANGED settings
  BY Zenon DEF Store
<1>2. quarantineSize' = quarantineSize
  BY <1>1 DEF settings
<1>3. /\ x \in Blocks /\ x # None /\ evicted[t] = {} /\ x \notin Cached /\ x \notin Quarantined
  BY <1>1, InHand DEF IInv
<1>4. /\ time' \in [Blocks -> Nat]
      /\ \A b \in Cached \union Quarantined : time'[b] = time[b] /\ time'[x] >= time[b]
  BY <1>1, StoredNewest
<1> HIDE DEF times, x
<1>5. CASE quarantineSize = 0
  <2>1. UNCHANGED <<quarantine, quarantinePos>> /\ entry = x /\ InsertAndEvict(t, x, time')
        /\ UNCHANGED options
    BY <1>1, <1>3, <1>5 DEF Rotate
  <2>2. \A i \in Slots : quarantine[i] = None
    BY <1>5, SlotsOfRing DEF IInv, RingOrder
  <2>3. Quarantined' = {} /\ Quarantined = {}
    BY <2>1, <2>2 DEF Quarantined
  <2>4. RingOrder'
    BY <1>2, <2>1, <2>2 DEF IInv, RingOrder
  <2>5. \E out \in SUBSET Blocks : Filed(t, x, "evicted", options[t], out)
    BY <1>1, <1>3, <1>4, <2>1, <2>2, <2>3, <2>4, FiledInCache DEF x, IInv, Types, CacheTypes
  <2>6. QED
    BY <2>5 DEF x
<1>6. CASE quarantineSize # 0
  <2>1. PICK p \in Slots :
          /\ p = pos
          /\ quarantine' \in [Slots -> Blocks \union {None}] /\ quarantinePos' \in Int
          /\ \A i, j \in Slots : quarantine'[i] = quarantine'[j] => i = j \/ quarantine'[i] = None
          /\ Quarantined' = {x} \union (Quarantined \ {quarantine[p]})
          /\ \A c \in Cached \union ({quarantine[p]} \ {None}) :
               c \in Blocks /\ \A b \in Quarantined' : b \in Blocks /\ time'[b] >= time'[c]
          /\ Cached' \subseteq Cached \union ({quarantine[p]} \ {None}) => RingOrder'
    BY <1>1, <1>2, <1>6, RotatedRing DEF x, times
  <2>2. entry = quarantine[p]
    BY <1>6, <2>1
  <2> HIDE DEF pos, entry
  <2>3. \A b \in Cached : b \notin Quarantined
    BY DEF IInv, Places
  <2>4. CASE entry = None
    <3>1. /\ pc' = [pc EXCEPT ![t] = "idle"] /\ options' = [options EXCEPT ![t] = NoOptions]
          /\ UNCHANGED <<lru, oldest, evicted, stamp>>
      BY <1>1, <2>4 DEF Read, Goto
    <3>2. Cached' = Cached
      BY <3>1 DEF Cached
    <3>3. RingOrder'
      BY <2>1, <3>2
    <3>4. CacheTypes'
      BY <2>1, <3>1 DEF IInv, Types, CacheTypes
    <3>5. CacheOrder'
      <4>1. \A i \in DOMAIN lru : time'[lru[i]] = time[lru[i]]
        BY <1>4 DEF Cached, ToSet
      <4>2. QED
        BY <3>1, <4>1 DEF IInv, CacheOrder
    <3>6. \A i, j \in DOMAIN lru' : lru'[i] = lru'[j] => i = j
      BY <3>1 DEF IInv, Places
    <3>7. /\ evicted' = [evicted EXCEPT ![t] = {}] /\ stamp' \in [Threads -> Nat]
      BY <1>3, <3>1 DEF IInv, Types, ThreadTypes
    <3>8. Quarantined' = {x} \union Quarantined
      BY <2>1, <2>2, <2>4 DEF Quarantined
    <3>9. Filed(t, x, "idle", NoOptions, {})
      <4>1. /\ \A b \in Cached' : b \notin Quarantined' /\ b \notin {}
            /\ \A b \in Quarantined' : b \notin {}
            /\ \A b : b \in Cached' \/ b \in Quarantined' \/ b \in {} <=>
                      b \in Cached \/ b \in Quarantined \/ b = x
        BY <1>3, <2>3, <3>2, <3>8
      <4>2. \A i, j \in Slots : quarantine'[i] = quarantine'[j] => i = j \/ quarantine'[i] = None
        BY <2>1
      <4>3. QED
        BY <3>1, <3>3, <3>4, <3>5, <3>6, <3>7, <4>1, <4>2 DEF Filed
    <3>10. QED
      BY <3>9 DEF x
  <2>5. CASE entry # None
    <3>1. InsertAndEvict(t, entry, time') /\ UNCHANGED options
      BY <1>1, <2>5
    <3>2. entry \in Quarantined
      BY <2>2, <2>5 DEF Quarantined
    <3>3. x \in Quarantined'
      BY <2>1
    <3>4. entry \in Blocks /\ entry \notin Cached
      BY <2>1, <2>2, <2>3, <2>5, <3>2
    <3>5. \A b \in Cached : time'[b] = time[b] /\ time'[entry] >= time[b]
      <4>1. ASSUME NEW b \in Cached PROVE time[entry] >= time[b]
        <5>1. PICK j \in DOMAIN lru : b = lru[j]
          BY DEF Cached, ToSet
        <5>2. QED
          BY <2>2, <2>5, <5>1 DEF IInv, RingOrder
      <4>2. QED
        BY <1>4, <3>2, <4>1
    <3>6. Cached' \subseteq Cached \union {entry} => RingOrder'
      BY <2>1, <2>2, <2>5
    <3>7. /\ \A b : b \in Quarantined' => b \notin Cached /\ b # entry
          /\ \A b : b \in Quarantined' \/ b = entry <=> b \in Quarantined \/ b = x
      BY <1>3, <2>1, <2>2, <2>3, <3>2
    <3>8. /\ quarantine' \in [Slots -> Blocks \union {None}] /\ quarantinePos' \in Int
          /\ \A i, j \in Slots : quarantine'[i] = quarantine'[j] => i = j \/ quarantine'[i] = None
      BY <2>1
    <3>9. \E out \in SUBSET Blocks : Filed(t, x, "evicted", options[t], out)
      BY <1>1, <1>4, <3>1, <3>4, <3>5, <3>6, <3>7, <3>8, FiledInCache DEF x
    <3>10. QED
      BY <3>9 DEF x
  <2>6. QED
    BY <2>4, <2>5
<1>7. QED
  BY <1>5, <1>6


LEMMA StoreKept == ASSUME IInv, NEW t \in Threads, Store(t) PROVE IInv'
<1> DEFINE x == block[t]
<1>1. PICK l \in {"idle", "evicted"}, o \in {options[t], NoOptions}, out \in SUBSET Blocks :
        Filed(t, x, l, o, out)
  BY StoreFiled
<1>2. /\ pc[t] = "store" /\ block' = [block EXCEPT ![t] = None]
      /\ time' = IF time[x] = 0 THEN time ELSE [time EXCEPT ![x] = now]
      /\ UNCHANGED <<owner, inUse, size, inaccessible, dirty, settings, now>>
  BY Zenon DEF Store, Hold
<1>3. UNCHANGED <<quarantineSize, maxEntries, interval, useTagging>>
  BY <1>2 DEF settings
<1>4. /\ x \in Blocks /\ x # None /\ evicted[t] = {} /\ Hand(t) = {x} /\ x \notin inUse
      /\ x \notin Cached /\ x \notin Quarantined
      /\ \A u \in Threads : u # t => block[u] # x /\ pc[u] # "clear"
  BY <1>2, InHand DEF IInv
<1>5. /\ time' \in [Blocks -> Nat] /\ time'[x] = IF time[x] = 0 THEN 0 ELSE now
      /\ \A b \in Blocks : b # x => time'[b] = time[b]
  BY <1>2, StoredNewest
<1> HIDE DEF x
<1>6. /\ (l = "idle" /\ out = {}) \/ (l = "evicted" /\ o = options[t])
      /\ pc' = [pc EXCEPT ![t] = l] /\ options' = [options EXCEPT ![t] = o]
      /\ evicted' = [evicted EXCEPT ![t] = out] /\ stamp' \in [Threads -> Nat]
  BY <1>1 DEF Filed
<1>7. CacheTypes' /\ RingOrder' /\ CacheOrder'
  BY <1>1 DEF Filed
<1>8. /\ pc'[t] = l /\ options'[t] = o /\ evicted'[t] = out /\ block'[t] = None
      /\ \A u \in Threads \ {t} : /\ pc'[u] = pc[u] /\ options'[u] = options[u]
                                  /\ evicted'[u] = evicted[u] /\ block'[u] = block[u]
  BY <1>2, <1>6 DEF IInv, Types, ThreadTypes
<1>9. Hand(t)' = out /\ \A u \in Threads : u # t => Hand(u)' = Hand(u)
  BY <1>8 DEF Hand
<1>10. \A b : b \in Cached' \/ b \in Quarantined' \/ b \in out <=>
              b \in Cached \/ b \in Quarantined \/ b = x
  BY <1>1 DEF Filed
<1>11. Places'
  <2>1. /\ \A i, j \in DOMAIN lru' : lru'[i] = lru'[j] => i = j
        /\ \A i, j \in Slots : quarantine'[i] = quarantine'[j] => i = j \/ quarantine'[i] = None
    BY <1>1 DEF Filed
  <2>2. /\ \A b \in Cached' : b \notin Quarantined' /\ b \notin Hand(t)'
        /\ \A b \in Quarantined' : b \notin Hand(t)'
    BY <1>1, <1>9 DEF Filed
  <2>3. \A b : b \in Cached' \/ b \in Quarantined' \/ b \in Hand(t)' <=>
               b \in Cached \/ b \in Quarantined \/ b \in Hand(t)
    BY <1>4, <1>9, <1>10
  <2>4. QED
    BY <1>2, <1>9, <2>1, <2>2, <2>3, PlacesMoved DEF IInv
<1>12. Types'
  <2>1. NoOptions \in Snapshots
    BY DEF NoOptions, Snapshots
  <2>2. ThreadTypes'
    BY <1>2, <1>6, <2>1 DEF IInv, Types, ThreadTypes, Labels
  <2>3. BlockTypes' /\ SettingTypes'
    BY <1>2, <1>3, <1>5 DEF IInv, Types, BlockTypes, SettingTypes
  <2>4. QED
    BY <1>7, <2>2, <2>3 DEF Types
<1>13. Control'
  <2>1. options[t].tagging = useTagging
    BY <1>2 DEF IInv, Control, ThreadControl, InOperation
  <2>2. ThreadControl(t)'
    BY <1>3, <1>6, <1>8, <2>1 DEF ThreadControl, InOperation
  <2>3. QED
    BY <1>2, <1>3, <1>6, <1>8, <2>2, OneThread DEF IInv, Types
<1>14. Access'
  <2>1. \A u \in Threads : pc'[u] # "clear"
    BY <1>4, <1>6, <1>8
  <2>2. QED
    BY <1>2, <1>3, <2>1 DEF IInv, Access
<1>15. Times'
  <2>1. \A b \in Blocks : time'[b] <= now'
    <3>1. now' = now /\ now \in Nat /\ \A b \in Blocks : time[b] <= now
      BY <1>2 DEF IInv, Types, SettingTypes, Times
    <3>2. QED
      BY <1>5, <3>1
  <2>2. \A b \in Blocks \ inUse' : useTagging /\ interval = 0 => time'[b] = 0
    <3>1. \A b \in Blocks \ inUse : useTagging /\ interval = 0 => time[b] = 0
      BY DEF IInv, Times
    <3>2. QED
      BY <1>2, <1>4, <1>5, <3>1
  <2>3. ASSUME NEW u \in Threads, pc'[u] = "store", time'[block'[u]] = 0
        PROVE  pc[u] = "store" /\ time[block[u]] = 0
    <3>1. u # t /\ pc[u] = "store" /\ block'[u] = block[u]
      BY <1>6, <1>8, <2>3
    <3>2. block[u] \in Blocks /\ block[u] # x
      BY <1>4, <3>1, InHand DEF IInv
    <3>3. QED
      BY <1>5, <2>3, <3>1, <3>2
  <2>4. ASSUME NEW b \in Blocks, time'[b] = 0,
               b \in Cached' \/ b \in Quarantined' \/ \E u \in Threads : block'[u] = b
        PROVE  /\ time[b] = 0 /\ (dirty'[b] => dirty[b])
               /\ b \in Cached \/ b \in Quarantined \/ \E u \in Threads : block[u] = b
    <3>1. b \in Cached \/ b \in Quarantined \/ \E u \in Threads : block[u] = b
      <4>1. x = block[t] /\ b # None
        BY SecondaryCacheAssumption DEF x
      <4>2. QED
        BY <1>8, <1>10, <2>4, <4>1
    <3>2. time[b] = 0
      <4>1. now # 0
        BY DEF IInv, Types, SettingTypes
      <4>2. QED
        BY <1>5, <2>4, <4>1
    <3>3. QED
      BY <1>2, <3>1, <3>2
  <2>5. QED
    BY <1>3, <2>1, <2>2, <2>3, <2>4, TimesKept DEF IInv
<1>16. QED
  BY <1>7, <1>11, <1>12, <1>13, <1>14, <1>15 DEF IInv
-----------------------------------------------------------------------------
(***************************************************************************)
(* The theorems.                                                           *)
(***************************************************************************)
LEMMA NextKept == ASSUME ~Races, IInv, [Next]_vars PROVE IInv'
<1>1. CASE Tick
  BY <1>1, TickKept
<1>2. CASE setOption
  BY <1>2, SetOptionKept
<1>3. ASSUME NEW t \in Threads, Operation(t) PROVE IInv'
  <2>1. CASE Allocate(t)
    BY <2>1, AllocateKept
  <2>2. CASE Retrieve(t)
    BY <2>2, RetrieveKept
  <2>3. CASE Use(t)
    BY <2>3, UseKept
  <2>4. CASE Map(t)
    BY <2>4, MapKept
  <2>5. CASE Deallocate(t)
    BY <2>5, DeallocateKept
  <2>6. CASE Store(t)
    BY <2>6, StoreKept
  <2>7. CASE UnmapEvicted(t)
    BY <2>7, UnmapEvictedKept
  <2>8. CASE Release(t)
    BY <2>8, ReleaseKept
  <2>9. CASE releaseToOS(t)
    BY <2>9, ReleaseToOSKept
  <2>10. CASE DisableMemoryTagging(t)
    BY <2>10, DisableMemoryTaggingKept
  <2>11. CASE ClearOption(t)
    BY <2>11, ClearOptionKept
  <2>12. CASE Disable(t) \/ Enable(t)
    BY <2>12, DisableKept
  <2>13. QED
    BY <1>3, <2>1, <2>2, <2>3, <2>4, <2>5, <2>6, <2>7, <2>8, <2>9, <2>10, <2>11, <2>12, Zenon
       DEF Operation
<1>4. CASE UNCHANGED vars
  <2>1. /\ UNCHANGED <<owner, now, inUse, size, inaccessible, dirty, time>>
        /\ UNCHANGED <<lru, quarantine, quarantinePos, oldest>>
        /\ UNCHANGED <<quarantineSize, maxEntries, interval, useTagging>>
        /\ UNCHANGED <<pc, options, block, evicted, stamp>>
    BY <1>4 DEF vars, blocks, cache, settings, threads
  <2>2. Types' /\ Control'
    BY <2>1 DEF IInv, Types, BlockTypes, CacheTypes, SettingTypes, ThreadTypes, Control,
                ThreadControl, InOperation
  <2>3. Places' /\ Access' /\ Times'
    BY <2>1 DEF IInv, Places, Access, Times, Cached, Quarantined, Hand
  <2>4. RingOrder' /\ CacheOrder'
    BY <2>1 DEF IInv, RingOrder, CacheOrder, Newer
  <2>5. QED
    BY <2>2, <2>3, <2>4 DEF IInv
<1>5. QED
  BY <1>1, <1>2, <1>3, <1>4, Zenon DEF Next

\* The inductive invariant holds, for settings that change between operations only.
THEOREM InductiveInvariant == ~Races => (Spec => []IInv)
<1>1. Init => IInv
  BY InitIInv
<1>2. ~Races => (IInv /\ [Next]_vars => IInv')
  BY NextKept
<1>3. CASE ~Races
  <2>1. IInv /\ [Next]_vars => IInv'
    BY <1>2, <1>3
  <2>2. QED
    BY <1>1, <2>1, PTL DEF Spec
<1>4. QED
  BY <1>3


\* MappedOnce: a mapping is in one place at a time, and what is in any place is mapped.
THEOREM PlacedOnce == ~Races => (Spec => []MappedOnce)
<1>1. IInv => MappedOnce
  <2> SUFFICES ASSUME IInv PROVE MappedOnce
    OBVIOUS
  <2>1. TypeOK
    <3>1. time \in [Blocks -> 0 .. MaxTime]
      <4>1. \A b \in Blocks : time[b] \in Nat /\ time[b] <= now /\ now \in Nat /\ now <= MaxTime
        BY SecondaryCacheAssumption DEF IInv, Types, BlockTypes, SettingTypes, Times
      <4>2. MaxTime \in Nat
        BY SecondaryCacheAssumption
      <4>3. QED
        BY <4>1, <4>2 DEF IInv, Types, BlockTypes
    <3>2. quarantinePos \in -1 .. Max(QuarantineSizes)
      <4>1. PICK m \in Nat : Max(QuarantineSizes) = m /\ \A q \in QuarantineSizes : q \in Nat /\ q <= m
        BY SlotsOfRing
      <4>2. QED
        BY <4>1 DEF IInv, Types, CacheTypes, SettingTypes, RingOrder
    <3>3. QED
      BY <3>1, <3>2 DEF IInv, Types, BlockTypes, CacheTypes, SettingTypes, ThreadTypes, TypeOK
  <2>2. ASSUME NEW b \in Blocks
        PROVE  Cardinality({i \in DOMAIN lru : lru[i] = b})
               + Cardinality({i \in Slots : quarantine[i] = b})
               + Cardinality({t \in Threads : block[t] = b \/ b \in evicted[t]})
               + (IF b \in inUse THEN 1 ELSE 0) = IF size[b] = 0 THEN 0 ELSE 1
    <3> DEFINE C == {i \in DOMAIN lru : lru[i] = b}
               Q == {i \in Slots : quarantine[i] = b}
               H == {t \in Threads : block[t] = b \/ b \in evicted[t]}
    <3>1. b # None
      BY SecondaryCacheAssumption
    <3>2. C = {} \/ \E i \in DOMAIN lru : C = {i}
      BY DEF IInv, Places
    <3>3. Q = {} \/ \E i \in Slots : Q = {i}
      BY <3>1 DEF IInv, Places
    <3>4. /\ C # {} <=> b \in Cached
          /\ Q # {} <=> b \in Quarantined
      BY <3>1 DEF Cached, Quarantined, ToSet
    <3>5. \A t \in Threads : t \in H <=> b \in Hand(t)
      BY <3>1 DEF Hand
    <3>6. H = {} \/ \E t \in Threads : H = {t}
      BY <3>5 DEF IInv, Places
    <3> HIDE DEF C, Q, H
    <3>7. /\ Cardinality(C) = IF b \in Cached THEN 1 ELSE 0
          /\ Cardinality(Q) = IF b \in Quarantined THEN 1 ELSE 0
          /\ Cardinality(H) = IF H # {} THEN 1 ELSE 0
      BY <3>2, <3>3, <3>4, <3>6, FS_EmptySet, FS_Singleton
    <3>8. H # {} <=> \E t \in Threads : b \in Hand(t)
      BY <3>5, <3>6
    <3>9. /\ b \in Cached => b \notin Quarantined /\ b \notin inUse /\ H = {}
          /\ b \in Quarantined => b \notin inUse /\ H = {}
          /\ b \in inUse => H = {}
          /\ size[b] # 0 <=> b \in Cached \/ b \in Quarantined \/ b \in inUse \/ H # {}
      BY <3>8 DEF IInv, Places
    <3>10. Cardinality(C) + Cardinality(Q) + Cardinality(H) + (IF b \in inUse THEN 1 ELSE 0)
             = IF size[b] = 0 THEN 0 ELSE 1
      BY <3>7, <3>9
    <3>11. QED
      BY <3>10 DEF C, Q, H
  <2>3. QED
    BY <2>1, <2>2 DEF MappedOnce
<1>2. QED
  BY <1>1, InductiveInvariant, PTL

\* InUseAccessible: what store() takes away, tryAllocateFromCache() gives back.
THEOREM UsersMayAccess == ~Races => (Spec => []InUseAccessible)
<1>1. IInv => InUseAccessible
  BY DEF IInv, Types, BlockTypes, Access, InUseAccessible
<1>2. QED
  BY <1>1, InductiveInvariant, PTL

\* ReleasedIsZero: an entry of time zero holds no data of a former user.
THEOREM NothingLeftInReleased == ~Races => (Spec => []ReleasedIsZero)
<1>1. IInv => ReleasedIsZero
  <2> SUFFICES ASSUME IInv, NEW b \in Cached \union Quarantined \union {block[t] : t \in Threads},
                      b # None, time[b] = 0
               PROVE  ~dirty[b]
    BY DEF ReleasedIsZero
  <2>1. b \in Blocks
    BY DEF IInv, Types, CacheTypes, ThreadTypes, Cached, Quarantined, ToSet
  <2>2. QED
    BY <2>1 DEF IInv, Times
<1>2. QED
  BY <1>1, InductiveInvariant, PTL

\* OldestMarked: the walk of releaseOlderThan() may start at OldestPresentEntry and stop
\* at the first entry that is too new.
THEOREM WalkStartsAtOldest == ~Races => (Spec => []OldestMarked)
<1>1. IInv => OldestMarked
  <2> SUFFICES ASSUME IInv PROVE OldestMarked
    OBVIOUS
  <2> DEFINE present == {i \in DOMAIN lru : time[lru[i]] # 0}
  <2>1. present \subseteq Int
    BY DEF IInv, Types, CacheTypes
  <2>2. CASE oldest = None /\ \A i \in DOMAIN lru : time[lru[i]] = 0
    BY <2>2 DEF IInv, CacheOrder, OldestMarked
  <2>3. ASSUME NEW m \in DOMAIN lru, oldest = lru[m], time[lru[m]] # 0,
               \A j \in DOMAIN lru : j > m => time[lru[j]] = 0
        PROVE  OldestMarked
    <3>1. m \in present /\ \A i \in present : i <= m
      BY <2>1, <2>3
    <3> HIDE DEF present
    <3>2. Max(present) = m
      BY <2>1, <3>1, MaxIs
    <3>3. oldest = IF present = {} THEN None ELSE lru[Max(present)]
      BY <2>3, <3>1, <3>2
    <3>4. QED
      BY <3>3 DEF IInv, CacheOrder, OldestMarked, present
  <2>4. QED
    BY <2>2, <2>3 DEF IInv, CacheOrder
<1>2. QED
  BY <1>1, InductiveInvariant, PTL

\* NeverPopsEmpty, the claim of secondary.h:331: what the code says of MaxEntriesCount in
\* store() is true as long as the setting does not change during an operation.
THEOREM NeverPopsEmptyWithoutRaces == ~Races => (Spec => []NeverPopsEmpty)
<1>1. IInv => NeverPopsEmpty
  BY DEF IInv, Control, ThreadControl, NeverPopsEmpty
<1>2. QED
  BY <1>1, InductiveInvariant, PTL
===============================================================================
