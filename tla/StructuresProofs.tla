--------------------------- MODULE StructuresProofs ---------------------------
(***************************************************************************)
(* The data structures of the primary, for every size of blocks, groups,   *)
(* batches and regions and every number of classes: the regions of         *)
(* SizeClassAllocator32, and the two kinds of freelists.                   *)
(***************************************************************************)
EXTENDS Structures, FreeListProofs

\* The halves of the address space from a to b.
Span(a, b) == {h \in 2 .. 2 * NumRegions + 1 : a =< h /\ h < b}

LEMMA HalfType == R!Half \in Nat \ {0} /\ RegionSize = 2 * R!Half
<1>1. RegionSize \in Nat \ {0} /\ RegionSize % 2 = 0  BY Primary32Assumption
<1> QED  BY <1>1 DEF R!Half

LEMMA HalvesSpan ==
  ASSUME NEW a \in Int, NEW b \in Int
  PROVE  R!Halves(a * R!Half, b * R!Half) = Span(a, b)
<1>1. NumRegions \in Nat  BY Primary32Assumption
<1>2. ASSUME NEW h \in 2 .. 2 * NumRegions + 1
      PROVE  h \in Int /\ (h * R!Half >= a * R!Half <=> h >= a) /\ (h * R!Half < b * R!Half <=> h < b)
  BY <1>1, HalfType, Scale
<1> QED  BY <1>2 DEF R!Halves, Span

\* Who has which halves: the classes C what K says, the places I of the stash what
\* T says, the regions D what O says, and together they have M, each half once.
Apart(C, K, I, T, D, O, M) ==
  /\ \A c, d \in C : \A h \in K[c] : h \in K[d] => c = d
  /\ \A i, j \in I : \A h \in T[i] : h \in T[j] => i = j
  /\ \A r, s \in D : \A h \in O[r] : h \in O[s] => r = s
  /\ \A c \in C, i \in I : \A h \in K[c] : h \notin T[i]
  /\ \A c \in C, r \in D : \A h \in K[c] : h \notin O[r]
  /\ \A i \in I, r \in D : \A h \in T[i] : h \notin O[r]
  /\ \A h \in M : (\E c \in C : h \in K[c]) \/ (\E i \in I : h \in T[i]) \/ (\E r \in D : h \in O[r])
  /\ (\A c \in C : K[c] \subseteq M) /\ (\A i \in I : T[i] \subseteq M) /\ (\A r \in D : O[r] \subseteq M)

\* A class unmaps some of what it has.
\* A class maps halves that were not mapped.
\* A class takes the region at place n of the stash.
\* A class puts some of what it has in the stash, at place n.
\* A class becomes the owner of region r.
\* Only what the functions say on their sets counts.
LEMMA ApartSame ==
  ASSUME NEW C, NEW K, NEW I, NEW T, NEW D, NEW O, NEW M, Apart(C, K, I, T, D, O, M),
         NEW K2, \A d \in C : K2[d] = K[d]
  PROVE  Apart(C, K2, I, T, D, O, M)
  BY DEF Apart

LEMMA DivMod ==
  ASSUME NEW k \in Nat \ {0}, NEW q \in Int, NEW e \in 0 .. k - 1
  PROVE  (q * k + e) \div k = q /\ (q * k + e) % k = e
  OBVIOUS

\* Where a class is with the region that it gets.
HandStages == {"align", "unmap", "set"}
RegionStages == {"idle", "map", "populate"} \cup HandStages

RegionBases == {k * RegionSize : k \in R!RegionIds}

\* What R!Known(c) is at a stage.
KnownAt(stage, from, end) ==
  IF stage \in {"align", "unmap"} THEN R!Halves(from, end)
  ELSE IF stage = "set" THEN R!Halves(from, from + RegionSize) ELSE {}

OwnedBy(owner, r) == IF owner = 0 THEN {} ELSE R!Halves(r * RegionSize, (r + 1) * RegionSize)

\* The addresses that a class holds at a stage: two regions from half h on; a region k
\* and what is mapped behind it; a region.
Addresses(stage, from, end) ==
  /\ stage = "align" =>
       \E h \in 2 .. 2 * NumRegions - 2 : from = h * R!Half /\ end = (h + 4) * R!Half
  /\ stage = "unmap" =>
       \E k \in R!RegionIds, m \in 2 .. 2 * NumRegions + 2 :
         m >= 2 * k + 2 /\ from = k * RegionSize /\ end = m * R!Half
  /\ stage = "set" => from \in RegionBases

Hands == [c \in R!Classes |-> KnownAt(pc[c], Region[c], MapEnd[c])]
Stashes == [i \in DOMAIN RegionsStash |-> R!Halves(RegionsStash[i], RegionsStash[i] + RegionSize)]
Owners == [r \in R!RegionIds |-> OwnedBy(PossibleRegions[r], r)]

RegionTypes ==
  /\ mapped \subseteq 2 .. 2 * NumRegions + 1
  /\ pc \in [R!Classes -> RegionStages]
  /\ Region \in [R!Classes -> Nat] /\ MapEnd \in [R!Classes -> Nat]
  /\ RegionsStash \in Seq(RegionBases)
  /\ PossibleRegions \in [R!RegionIds -> 0 .. NumClasses]

RegionAddresses == \A c \in R!Classes : Addresses(pc[c], Region[c], MapEnd[c])

RegionsApart ==
  Apart(R!Classes, Hands, DOMAIN RegionsStash, Stashes, R!RegionIds, Owners, mapped)

\* The inductive invariant of the regions.
RegionsInv == RegionTypes /\ RegionAddresses /\ RegionsApart

LEMMA Numbers ==
  /\ NumClasses \in Nat \ {0} /\ NumRegions \in Nat
  /\ R!Half \in Nat \ {0} /\ RegionSize = 2 * R!Half /\ RegionSize \in Nat \ {0}
  /\ R!RegionIds = 1 .. NumRegions /\ R!Classes = 0 .. NumClasses - 1
  BY Primary32Assumption, HalfType DEF R!RegionIds, R!Classes

LEMMA Bases ==
  ASSUME NEW k \in Int
  PROVE  k * RegionSize = (2 * k) * R!Half /\ k * RegionSize + RegionSize = (k + 1) * RegionSize
  BY Numbers

LEMMA RegionSpan ==
  ASSUME NEW k \in Int
  PROVE  R!Halves(k * RegionSize, k * RegionSize + RegionSize) = Span(2 * k, 2 * k + 2)
<1>1. k * RegionSize = (2 * k) * R!Half /\ k * RegionSize + RegionSize = (2 * k + 2) * R!Half
  BY Numbers
<1> QED  BY <1>1, HalvesSpan

\* A region that a class owns is in no hands and not in the stash: R!SetOwner finds no
\* owner.
LEMMA NotOwned ==
  ASSUME RegionTypes, RegionsApart, NEW c \in R!Classes, NEW k \in R!RegionIds,
         pc[c] = "set", Region[c] = k * RegionSize
  PROVE  PossibleRegions[k] = 0
<1>1. Hands[c] = Span(2 * k, 2 * k + 2)
  <2>1. Hands[c] = R!Halves(Region[c], Region[c] + RegionSize)  BY DEF Hands, KnownAt
  <2>2. k \in Int  BY Numbers
  <2> QED  BY <2>1, <2>2, RegionSpan
<1>2. 2 * k \in Span(2 * k, 2 * k + 2)  BY Numbers DEF Span
<1>3. SUFFICES ASSUME PossibleRegions[k] # 0 PROVE FALSE  OBVIOUS
<1>4. Owners[k] = Span(2 * k, 2 * k + 2)  BY <1>3, RegionSpan, Bases, Numbers DEF Owners, OwnedBy
<1>5. \A h \in Hands[c] : h \notin Owners[k]  BY DEF RegionsApart, Apart
<1> QED  BY <1>1, <1>2, <1>4, <1>5

LEMMA RegionsInit == R!Init => RegionsInv
<1> SUFFICES ASSUME R!Init PROVE RegionsInv  OBVIOUS
<1>1. \A c \in R!Classes : Hands[c] = {}  BY DEF R!Init, Hands, KnownAt
<1>2. \A r \in R!RegionIds : Owners[r] = {}  BY DEF R!Init, Owners, OwnedBy
<1>3. DOMAIN RegionsStash = {} /\ mapped = {}  BY DEF R!Init
<1>4. RegionsApart  BY <1>1, <1>2, <1>3 DEF RegionsApart, Apart
<1>5. RegionTypes  BY Numbers DEF RegionTypes, R!Init, RegionStages
<1>6. RegionAddresses  BY DEF RegionAddresses, Addresses, R!Init
<1> QED  BY <1>4, <1>5, <1>6 DEF RegionsInv

\* A step takes class c to a stage, with these addresses.
Moves(c, to, from, end) ==
  /\ pc' = [pc EXCEPT ![c] = to]
  /\ Region' = [Region EXCEPT ![c] = from]
  /\ MapEnd' = [MapEnd EXCEPT ![c] = end]

\* A step of a class leaves the hands of the others alone.
LEMMA OtherHands ==
  ASSUME RegionTypes, NEW c \in R!Classes,
         NEW to, NEW from, NEW end,
         Moves(c, to, from, end)
  PROVE  /\ Hands'[c] = KnownAt(to, from, end)
         /\ \A d \in R!Classes : d # c => Hands'[d] = Hands[d]
         /\ RegionAddresses /\ Addresses(to, from, end) => RegionAddresses'
         /\ to \in RegionStages => pc' \in [R!Classes -> RegionStages]
         /\ from \in Nat => Region' \in [R!Classes -> Nat]
         /\ end \in Nat => MapEnd' \in [R!Classes -> Nat]
<1>1. pc \in [R!Classes -> RegionStages] /\ Region \in [R!Classes -> Nat] /\ MapEnd \in [R!Classes -> Nat]
  BY DEF RegionTypes
<1>2. \A d \in R!Classes : /\ pc'[d] = IF d = c THEN to ELSE pc[d]
                           /\ Region'[d] = IF d = c THEN from ELSE Region[d]
                           /\ MapEnd'[d] = IF d = c THEN end ELSE MapEnd[d]
  BY <1>1 DEF Moves
<1>3. \A d \in R!Classes : Hands'[d] = KnownAt(pc'[d], Region'[d], MapEnd'[d])
  BY Zenon DEF Hands
<1>4. \A d \in R!Classes : Hands[d] = KnownAt(pc[d], Region[d], MapEnd[d])
  BY Zenon DEF Hands
<1>5. RegionAddresses' <=> \A d \in R!Classes : Addresses(pc'[d], Region'[d], MapEnd'[d])
  BY Zenon DEF RegionAddresses
<1>6. RegionAddresses <=> \A d \in R!Classes : Addresses(pc[d], Region[d], MapEnd[d])
  BY Zenon DEF RegionAddresses
<1>7. RegionAddresses /\ Addresses(to, from, end) => RegionAddresses'
  BY <1>2, <1>5, <1>6
<1>8. Hands'[c] = KnownAt(to, from, end) /\ \A d \in R!Classes : d # c => Hands'[d] = Hands[d]
  BY <1>2, <1>3, <1>4
<1>9. /\ to \in RegionStages => pc' \in [R!Classes -> RegionStages]
      /\ from \in Nat => Region' \in [R!Classes -> Nat]
      /\ end \in Nat => MapEnd' \in [R!Classes -> Nat]
  BY <1>1 DEF Moves
<1> QED  BY <1>7, <1>8, <1>9

\* A step that leaves a class out of the way to a region.
LEMMA StepIdle ==
  ASSUME RegionsInv, NEW c \in R!Classes, pc[c] \notin HandStages,
         NEW to \in RegionStages \ HandStages, NEW from \in Nat, NEW end \in Nat,
         Moves(c, to, from, end),
         UNCHANGED <<mapped, RegionsStash, PossibleRegions>>
  PROVE  RegionsInv'
<1>1. RegionTypes /\ RegionAddresses /\ RegionsApart  BY DEF RegionsInv
<1>2. Hands[c] = {} /\ KnownAt(to, from, end) = {}  BY DEF Hands, KnownAt, HandStages
<1>3. Addresses(to, from, end)  BY DEF Addresses, HandStages
<1>4. \A d \in R!Classes : Hands'[d] = Hands[d]  BY <1>1, <1>2, OtherHands
<1>5. Stashes' = Stashes /\ Owners' = Owners  BY Zenon DEF Stashes, Owners
<1>6. Apart(R!Classes, Hands', DOMAIN RegionsStash, Stashes, R!RegionIds, Owners, mapped)
  BY <1>1, <1>4, ApartSame DEF RegionsApart
<1>7. RegionsApart'  BY <1>5, <1>6 DEF RegionsApart
<1>8. RegionAddresses'  BY <1>1, <1>3, OtherHands
<1>9. RegionTypes'  BY <1>1, OtherHands DEF RegionTypes
<1> QED  BY <1>7, <1>8, <1>9 DEF RegionsInv

LEMMA StepSame ==
  ASSUME RegionsInv, UNCHANGED <<mapped, RegionsStash, PossibleRegions, pc, Region, MapEnd>>
  PROVE  RegionsInv'
  BY DEF RegionsInv, RegionTypes, RegionAddresses, RegionsApart, Hands, Stashes, Owners

LEMMA StepStashPop ==
  ASSUME RegionsInv, NEW c \in R!Classes, R!StashPop(c)
  PROVE  RegionsInv'
<1>1. RegionTypes /\ RegionAddresses /\ RegionsApart  BY DEF RegionsInv
<1>2. Region \in [R!Classes -> Nat] /\ MapEnd \in [R!Classes -> Nat] /\ RegionsStash \in Seq(RegionBases)
      /\ pc \in [R!Classes -> RegionStages]
  BY <1>1 DEF RegionTypes
<1>3. MapEnd' = [MapEnd EXCEPT ![c] = MapEnd[c]] /\ pc[c] = "idle"
      /\ UNCHANGED <<mapped, PossibleRegions>>
  BY <1>2 DEF R!StashPop
<1>4. CASE RegionsStash = <<>>
  <2>1. pc' = [pc EXCEPT ![c] = "map"] /\ Region' = [Region EXCEPT ![c] = Region[c]]
        /\ UNCHANGED <<RegionsStash>>
    BY <1>2, <1>4 DEF R!StashPop, R!Goto
  <2>2. "map" \in RegionStages \ HandStages /\ pc[c] \notin HandStages /\ Region[c] \in Nat /\ MapEnd[c] \in Nat
    BY <1>2, <1>3 DEF RegionStages, HandStages
  <2>3. Moves(c, "map", Region[c], MapEnd[c])  BY <1>3, <2>1 DEF Moves
  <2> QED  BY <1>3, <2>1, <2>2, <2>3, StepIdle
<1>5. CASE RegionsStash # <<>>
  <2> DEFINE n == Len(RegionsStash)
             last == RegionsStash[n]
  <2>1. pc' = [pc EXCEPT ![c] = "set"] /\ Region' = [Region EXCEPT ![c] = last]
        /\ RegionsStash' = SubSeq(RegionsStash, 1, n - 1)
    BY <1>5, Zenon DEF R!StashPop, R!Goto, R!Last, R!Front
  <2>2. n \in Nat \ {0} /\ DOMAIN RegionsStash = 1 .. n
    BY <1>2, <1>5
  <2>3. last \in RegionBases  BY <1>2, <2>2
  <2>4. PICK k \in R!RegionIds : last = k * RegionSize  BY <2>3 DEF RegionBases
  <2>5. last \in Nat  BY <2>4, Numbers
  <2>6. RegionsStash' \in Seq(RegionBases) /\ Len(RegionsStash') = n - 1
        /\ \A i \in 1 .. n - 1 : RegionsStash'[i] = RegionsStash[i]
    BY <1>2, <2>1, <2>2
  <2>7. DOMAIN RegionsStash' = (1 .. n) \ {n}
    <3>1. DOMAIN RegionsStash' = 1 .. n - 1  BY <2>6
    <3>2. 1 .. n - 1 = (1 .. n) \ {n}  BY <2>2
    <3> QED  BY <3>1, <3>2
  <2> HIDE DEF n, last
  <2>0. Moves(c, "set", last, MapEnd[c])  BY <1>3, <2>1 DEF Moves
  <2>8. Addresses("set", last, MapEnd[c])  BY <2>3 DEF Addresses
  <2>9. KnownAt("set", last, MapEnd[c]) = R!Halves(last, last + RegionSize)  BY DEF KnownAt
  <2>10. Hands[c] = {}  BY <1>3, Zenon DEF Hands, KnownAt
  <2>11. Stashes[n] = R!Halves(last, last + RegionSize)
    <3>1. \A i \in DOMAIN RegionsStash : Stashes[i] = R!Halves(RegionsStash[i], RegionsStash[i] + RegionSize)
      BY Zenon DEF Stashes
    <3>2. n \in DOMAIN RegionsStash /\ last = RegionsStash[n]  BY <2>2 DEF last
    <3> QED  BY <3>1, <3>2
  <2>12. \A i \in (1 .. n) \ {n} : Stashes'[i] = Stashes[i]
    <3>1. \A i \in (1 .. n) \ {n} : i \in 1 .. n - 1 /\ i \in DOMAIN RegionsStash
      BY <2>2
    <3>2. \A i \in DOMAIN RegionsStash : Stashes[i] = R!Halves(RegionsStash[i], RegionsStash[i] + RegionSize)
      BY Zenon DEF Stashes
    <3>3. \A i \in DOMAIN RegionsStash' : Stashes'[i] = R!Halves(RegionsStash'[i], RegionsStash'[i] + RegionSize)
      BY Zenon DEF Stashes
    <3> QED  BY <2>6, <2>7, <3>1, <3>2, <3>3
  <2>13. "set" \in RegionStages  BY DEF RegionStages, HandStages
  <2>14. Hands'[c] = Stashes[n] /\ \A d \in R!Classes : d # c => Hands'[d] = Hands[d]
    <3>1. Hands'[c] = KnownAt("set", last, MapEnd[c]) /\ \A d \in R!Classes : d # c => Hands'[d] = Hands[d]
      BY <1>1, <2>0, OtherHands
    <3> QED  BY <2>9, <2>11, <3>1
  <2>15. Apart(R!Classes, Hands, 1 .. n, Stashes, R!RegionIds, Owners, mapped)
    BY <1>1, <2>2 DEF RegionsApart
  <2>16. n \in 1 .. n  BY <2>2
  <2>17. Apart(R!Classes, Hands', (1 .. n) \ {n}, Stashes', R!RegionIds, Owners, mapped)
    BY <2>10, <2>12, <2>14, <2>15, <2>16 DEF Apart
  <2>18. Owners' = Owners  BY <1>3, Zenon DEF Owners
  <2>19. RegionsApart'  BY <1>3, <2>7, <2>17, <2>18, Zenon DEF RegionsApart
  <2>20. RegionAddresses'  BY <1>1, <2>0, <2>8, OtherHands
  <2>21. pc' \in [R!Classes -> RegionStages] /\ Region' \in [R!Classes -> Nat] /\ MapEnd' \in [R!Classes -> Nat]
    BY <1>2, <1>3, <2>1, <2>5, <2>13
  <2>22. RegionTypes'  BY <1>1, <1>3, <2>6, <2>21 DEF RegionTypes
  <2> QED  BY <2>19, <2>20, <2>22 DEF RegionsInv
<1> QED  BY <1>4, <1>5

\* The next hands of a class, when those of the others are as they were.
LEMMA StepMap ==
  ASSUME RegionsInv, NEW c \in R!Classes, R!Map(c)
  PROVE  RegionsInv'
<1>1. RegionTypes /\ RegionAddresses /\ RegionsApart  BY DEF RegionsInv
<1>2. Region \in [R!Classes -> Nat] /\ MapEnd \in [R!Classes -> Nat] /\ pc \in [R!Classes -> RegionStages]
      /\ mapped \subseteq 2 .. 2 * NumRegions + 1
  BY <1>1 DEF RegionTypes
<1>3. pc[c] = "map" /\ UNCHANGED <<RegionsStash, PossibleRegions>>
  BY DEF R!Map
<1>4. CASE R!Goto(c, "idle") /\ UNCHANGED <<mapped, Region, MapEnd>>
  <2>1. Moves(c, "idle", Region[c], MapEnd[c])  BY <1>2, <1>4 DEF Moves, R!Goto
  <2>2. "idle" \in RegionStages \ HandStages /\ pc[c] \notin HandStages /\ Region[c] \in Nat /\ MapEnd[c] \in Nat
    BY <1>2, <1>3 DEF RegionStages, HandStages
  <2> QED  BY <1>3, <1>4, <2>1, <2>2, StepIdle
<1>5. ASSUME NEW h \in 2 .. 2 * NumRegions - 2,
             (h .. h + 3) \cap mapped = {},
             mapped' = mapped \cup (h .. h + 3),
             Region' = [Region EXCEPT ![c] = h * R!Half],
             MapEnd' = [MapEnd EXCEPT ![c] = h * R!Half + 2 * RegionSize],
             R!Goto(c, "align")
      PROVE  RegionsInv'
  <2> DEFINE from == h * R!Half
             end == h * R!Half + 2 * RegionSize
             U == h .. h + 3
  <2>1. Moves(c, "align", from, end)  BY <1>5 DEF Moves, R!Goto
  <2>2. h \in Nat /\ end = (h + 4) * R!Half /\ from \in Nat /\ end \in Nat
    BY Numbers
  <2>3. Addresses("align", from, end)  BY <2>2 DEF Addresses
  <2>4. KnownAt("align", from, end) = U
    <3>1. Span(h, h + 4) = U  BY Numbers DEF Span
    <3>2. R!Halves(h * R!Half, (h + 4) * R!Half) = Span(h, h + 4)  BY <2>2, HalvesSpan
    <3> QED  BY <2>2, <3>1, <3>2 DEF KnownAt
  <2>5. Hands[c] = {}  BY <1>3, Zenon DEF Hands, KnownAt
  <2>6. U \cap mapped = {} /\ mapped' = mapped \cup U /\ U \subseteq 2 .. 2 * NumRegions + 1
    BY <1>5, Numbers
  <2>a. "align" \in RegionStages  BY DEF RegionStages, HandStages
  <2> HIDE DEF from, end, U
  <2>7. Hands'[c] = KnownAt("align", from, end) /\ \A d \in R!Classes : d # c => Hands'[d] = Hands[d]
    BY <1>1, <2>1, OtherHands
  <2>8. Apart(R!Classes, Hands', DOMAIN RegionsStash, Stashes, R!RegionIds, Owners, mapped \cup U)
    BY <1>1, <2>4, <2>5, <2>6, <2>7 DEF RegionsApart, Apart
  <2>9. Owners' = Owners /\ Stashes' = Stashes  BY <1>3, Zenon DEF Owners, Stashes
  <2>10. RegionsApart'  BY <1>3, <2>6, <2>8, <2>9, Zenon DEF RegionsApart
  <2>11. RegionAddresses'  BY <1>1, <2>1, <2>3, OtherHands
  <2>12. RegionTypes'  BY <1>1, <1>3, <2>1, <2>2, <2>6, <2>a, OtherHands DEF RegionTypes
  <2> QED  BY <2>10, <2>11, <2>12 DEF RegionsInv
<1> QED  BY <1>4, <1>5 DEF R!Map

\* The end of what a class has mapped behind region k is unmapped.
LEMMA StepUnmap ==
  ASSUME RegionsInv, NEW c \in R!Classes, R!Unmap(c)
  PROVE  RegionsInv'
<1>1. RegionTypes /\ RegionAddresses /\ RegionsApart  BY DEF RegionsInv
<1>2. Region \in [R!Classes -> Nat] /\ MapEnd \in [R!Classes -> Nat] /\ pc \in [R!Classes -> RegionStages]
      /\ mapped \subseteq 2 .. 2 * NumRegions + 1
  BY <1>1 DEF RegionTypes
<1>3. pc[c] = "unmap" /\ UNCHANGED <<RegionsStash, PossibleRegions, Region, MapEnd>>
      /\ mapped' = mapped \ R!Halves(Region[c] + RegionSize, MapEnd[c])
  BY DEF R!Unmap
<1>4. Moves(c, "set", Region[c], MapEnd[c])  BY <1>2, <1>3 DEF Moves, R!Goto, R!Unmap
<1>5. PICK k \in R!RegionIds, m \in 2 .. 2 * NumRegions + 2 :
         m >= 2 * k + 2 /\ Region[c] = k * RegionSize /\ MapEnd[c] = m * R!Half
  BY <1>1, <1>3 DEF RegionAddresses, Addresses
<1> DEFINE U == Span(2 * k + 2, m)
<1>6. k \in Int /\ m \in Int /\ Region[c] = (2 * k) * R!Half /\ Region[c] + RegionSize = (2 * k + 2) * R!Half
  BY <1>5, Numbers
<1>7. R!Halves(Region[c] + RegionSize, MapEnd[c]) = U
  BY <1>5, <1>6, HalvesSpan
<1>8. Hands[c] = Span(2 * k, m)
  <2>1. Hands[c] = R!Halves(Region[c], MapEnd[c])  BY <1>3, Zenon DEF Hands, KnownAt
  <2> QED  BY <1>5, <1>6, <2>1, HalvesSpan
<1>9. KnownAt("set", Region[c], MapEnd[c]) = Span(2 * k, 2 * k + 2)
  BY <1>5, <1>6, RegionSpan DEF KnownAt
<1>10. Span(2 * k, 2 * k + 2) = Span(2 * k, m) \ U /\ U \subseteq Span(2 * k, m)
  BY <1>5, <1>6, Numbers DEF Span
<1>a. "set" \in RegionStages  BY DEF RegionStages, HandStages
<1> HIDE DEF U
<1>11. Hands'[c] = KnownAt("set", Region[c], MapEnd[c]) /\ \A d \in R!Classes : d # c => Hands'[d] = Hands[d]
  BY <1>1, <1>4, OtherHands
<1>12. Hands'[c] = Hands[c] \ U /\ U \subseteq Hands[c] /\ mapped' = mapped \ U
  BY <1>3, <1>7, <1>8, <1>9, <1>10, <1>11
<1>13. Apart(R!Classes, Hands', DOMAIN RegionsStash, Stashes, R!RegionIds, Owners, mapped \ U)
  BY <1>1, <1>11, <1>12 DEF RegionsApart, Apart
<1>14. Owners' = Owners /\ Stashes' = Stashes  BY <1>3, Zenon DEF Owners, Stashes
<1>15. RegionsApart'  BY <1>3, <1>12, <1>13, <1>14, Zenon DEF RegionsApart
<1>16. Addresses("set", Region[c], MapEnd[c])  BY <1>5 DEF Addresses, RegionBases
<1>17. RegionAddresses'  BY <1>1, <1>4, <1>16, OtherHands
<1>18. Region[c] \in Nat /\ MapEnd[c] \in Nat  BY <1>2
<1>19. RegionTypes'  BY <1>1, <1>3, <1>4, <1>12, <1>18, <1>a, OtherHands DEF RegionTypes
<1> QED  BY <1>15, <1>17, <1>19 DEF RegionsInv

\* The class becomes the owner of its region.
LEMMA StepSetOwner ==
  ASSUME RegionsInv, NEW c \in R!Classes, R!SetOwner(c)
  PROVE  RegionsInv'
<1>1. RegionTypes /\ RegionAddresses /\ RegionsApart  BY DEF RegionsInv
<1>2. Region \in [R!Classes -> Nat] /\ MapEnd \in [R!Classes -> Nat] /\ pc \in [R!Classes -> RegionStages]
      /\ PossibleRegions \in [R!RegionIds -> 0 .. NumClasses]
  BY <1>1 DEF RegionTypes
<1>3. pc[c] = "set" /\ UNCHANGED <<mapped, RegionsStash, Region, MapEnd>>
      /\ PossibleRegions' = [PossibleRegions EXCEPT ![R!computeRegionId(Region[c])] = c + 1]
  BY DEF R!SetOwner
<1>4. Moves(c, "populate", Region[c], MapEnd[c])  BY <1>2, <1>3 DEF Moves, R!Goto, R!SetOwner
<1>5. PICK k \in R!RegionIds : Region[c] = k * RegionSize
  BY <1>1, <1>3 DEF RegionAddresses, Addresses, RegionBases
<1>6. R!computeRegionId(Region[c]) = k
  <2>1. k \in Int /\ RegionSize \in Nat \ {0}  BY Numbers
  <2>2. (k * RegionSize + 0) \div RegionSize = k  BY <2>1, DivMod
  <2>3. k * RegionSize + 0 = k * RegionSize  BY <2>1
  <2> QED  BY <1>5, <2>2, <2>3 DEF R!computeRegionId
<1>7. PossibleRegions[k] = 0  BY <1>1, <1>3, <1>5, NotOwned
<1>8. Hands[c] = Span(2 * k, 2 * k + 2)
  <2>1. Hands[c] = R!Halves(Region[c], Region[c] + RegionSize)  BY <1>3, Zenon DEF Hands, KnownAt
  <2> QED  BY <1>5, <2>1, RegionSpan, Numbers
<1>9. c + 1 \in 1 .. NumClasses  BY Numbers
<1>10. PossibleRegions' \in [R!RegionIds -> 0 .. NumClasses] /\ PossibleRegions'[k] = c + 1
       /\ \A r \in R!RegionIds : r # k => PossibleRegions'[r] = PossibleRegions[r]
  BY <1>2, <1>3, <1>6, <1>9
<1>11. Owners[k] = {} /\ Owners'[k] = Hands[c]
  <2>1. Owners[k] = {}  BY <1>7 DEF Owners, OwnedBy
  <2>2. Owners'[k] = R!Halves(k * RegionSize, (k + 1) * RegionSize)
    BY <1>9, <1>10 DEF Owners, OwnedBy
  <2> QED  BY <1>8, <2>1, <2>2, Bases, RegionSpan, Numbers
<1>12. \A r \in R!RegionIds : r # k => Owners'[r] = Owners[r]
  BY <1>10 DEF Owners
<1>13. KnownAt("populate", Region[c], MapEnd[c]) = {} /\ "populate" \in RegionStages
       /\ Addresses("populate", Region[c], MapEnd[c])
  BY DEF KnownAt, RegionStages, Addresses
<1>14. Hands'[c] = KnownAt("populate", Region[c], MapEnd[c]) /\ \A d \in R!Classes : d # c => Hands'[d] = Hands[d]
  BY <1>1, <1>4, OtherHands
<1>15. Apart(R!Classes, Hands', DOMAIN RegionsStash, Stashes, R!RegionIds, Owners', mapped)
  BY <1>1, <1>11, <1>12, <1>13, <1>14 DEF RegionsApart, Apart
<1>16. Stashes' = Stashes  BY <1>3, Zenon DEF Stashes
<1>17. RegionsApart'  BY <1>3, <1>15, <1>16, Zenon DEF RegionsApart
<1>18. RegionAddresses'  BY <1>1, <1>4, <1>13, OtherHands
<1>19. Region[c] \in Nat /\ MapEnd[c] \in Nat  BY <1>2
<1>20. RegionTypes'  BY <1>1, <1>3, <1>4, <1>10, <1>13, <1>19, OtherHands DEF RegionTypes
<1> QED  BY <1>17, <1>18, <1>20 DEF RegionsInv

\* The start of a mapping of two regions from half h on: it is a region when h is even,
\* and else the next half is.
LEMMA Alignment ==
  ASSUME NEW h \in Nat
  PROVE  /\ (h * R!Half) % RegionSize = 0 <=> h % 2 = 0
         /\ h % 2 = 0 => h * R!Half = (h \div 2) * RegionSize
         /\ h % 2 # 0 => /\ R!Pages!roundUp(h * R!Half, RegionSize) = ((h + 1) \div 2) * RegionSize
                         /\ ((h + 1) \div 2) * 2 = h + 1
         /\ h % 2 = 0 => (h \div 2) * 2 = h
<1> DEFINE k == R!Half
<1>1. k \in Nat \ {0} /\ RegionSize = 2 * k /\ RegionSize \in Nat \ {0}
  BY Numbers
<1> HIDE DEF k
<1>2. CASE h % 2 = 0
  <2>1. PICK q \in Nat : q = h \div 2 /\ h = 2 * q  BY <1>2
  <2>2. h * k = q * RegionSize + 0
    <3>1. (2 * q) * k = q * (2 * k) /\ q * (2 * k) \in Int  BY <1>1
    <3> QED  BY <1>1, <2>1, <3>1
  <2>3. 0 \in 0 .. RegionSize - 1  BY <1>1
  <2>4. (q * RegionSize + 0) % RegionSize = 0
    <3>1. q \in Int /\ RegionSize \in Nat \ {0}  BY <1>1
    <3>2. \A i \in 0 .. RegionSize - 1 : (q * RegionSize + i) % RegionSize = i  BY <3>1, DivMod
    <3> QED  BY <2>3, <3>2
  <2>5. q * RegionSize + 0 = q * RegionSize  BY <1>1
  <2> QED  BY <1>2, <2>1, <2>2, <2>4, <2>5 DEF k
<1>3. CASE h % 2 # 0
  <2>1. PICK q \in Nat : h = 2 * q + 1 /\ (h + 1) \div 2 = q + 1
    <3>1. h = 2 * (h \div 2) + 1 /\ (h + 1) \div 2 = h \div 2 + 1 /\ h \div 2 \in Nat  BY <1>3
    <3> QED  BY <3>1
  <2>2. h * k = q * RegionSize + k
    <3>1. (2 * q + 1) * k = q * (2 * k) + k  BY <1>1
    <3> QED  BY <1>1, <2>1, <3>1
  <2>3. k \in 0 .. RegionSize - 1 /\ k # 0  BY <1>1
  <2>4. (q * RegionSize + k) % RegionSize = k
    <3>1. q \in Int /\ RegionSize \in Nat \ {0}  BY <1>1
    <3>2. \A i \in 0 .. RegionSize - 1 : (q * RegionSize + i) % RegionSize = i  BY <3>1, DivMod
    <3> QED  BY <2>3, <3>2
  <2>5. h * k + RegionSize - 1 = (q + 1) * RegionSize + (k - 1)
    <3>1. (q + 1) * RegionSize = q * RegionSize + RegionSize /\ q * RegionSize \in Int  BY <1>1
    <3> QED  BY <1>1, <2>2, <3>1
  <2>6. ((q + 1) * RegionSize + (k - 1)) \div RegionSize = q + 1
    <3>1. k - 1 \in 0 .. RegionSize - 1 /\ q + 1 \in Int  BY <1>1
    <3> QED  BY <1>1, <3>1, DivMod
  <2>7. R!Pages!roundUp(h * k, RegionSize) = (q + 1) * RegionSize
    BY <2>5, <2>6 DEF R!Pages!roundUp, R!Pages!roundDown
  <2>8. (h * k) % RegionSize # 0  BY <2>2, <2>3, <2>4
  <2>9. ((h + 1) \div 2) * 2 = h + 1  BY <2>1
  <2> QED  BY <1>3, <2>1, <2>7, <2>8, <2>9 DEF k
<1> QED  BY <1>2, <1>3

LEMMA StepAlign ==
  ASSUME RegionsInv, NEW c \in R!Classes, R!Align(c)
  PROVE  RegionsInv'
<1>1. RegionTypes /\ RegionAddresses /\ RegionsApart  BY DEF RegionsInv
<1>2. Region \in [R!Classes -> Nat] /\ MapEnd \in [R!Classes -> Nat] /\ pc \in [R!Classes -> RegionStages]
      /\ mapped \subseteq 2 .. 2 * NumRegions + 1 /\ RegionsStash \in Seq(RegionBases)
  BY <1>1 DEF RegionTypes
<1>3. pc[c] = "align" /\ UNCHANGED <<PossibleRegions, MapEnd>>
  BY DEF R!Align
<1>4. PICK h \in 2 .. 2 * NumRegions - 2 : Region[c] = h * R!Half /\ MapEnd[c] = (h + 4) * R!Half
  BY <1>1, <1>3 DEF RegionAddresses, Addresses
<1>5. h \in Nat /\ Region[c] \in Nat /\ MapEnd[c] \in Nat  BY <1>2, Numbers
<1>6. Hands[c] = Span(h, h + 4)
  <2>1. Hands[c] = R!Halves(Region[c], MapEnd[c])  BY <1>3, Zenon DEF Hands, KnownAt
  <2> QED  BY <1>4, <1>5, <2>1, HalvesSpan
<1>7. "set" \in RegionStages /\ "unmap" \in RegionStages  BY DEF RegionStages, HandStages
<1>8. Owners' = Owners  BY <1>3, Zenon DEF Owners
<1>9. CASE Region[c] % RegionSize = 0
  <2> DEFINE k == h \div 2
  <2>1. h % 2 = 0 /\ Region[c] = k * RegionSize /\ k * 2 = h  BY <1>4, <1>5, <1>9, Alignment
  <2>2. k \in Int /\ k \in R!RegionIds /\ k + 1 \in R!RegionIds /\ h = 2 * k
    BY <2>1, Numbers
  <2>3. UNCHANGED <<mapped, Region>>  BY <1>9 DEF R!Align
  <2> HIDE DEF k
  <2>4. CASE Len(RegionsStash) < MaxStashedRegions
    <3> DEFINE r == Region[c] + RegionSize
               n == Len(RegionsStash) + 1
               U == Span(2 * k + 2, 2 * k + 4)
    <3>1. RegionsStash' = Append(RegionsStash, r) /\ R!Goto(c, "set")
      BY <1>9, <2>4 DEF R!Align
    <3>2. Moves(c, "set", Region[c], MapEnd[c])
      BY <1>2, <1>3, <2>3, <3>1 DEF Moves, R!Goto
    <3>3. r = (k + 1) * RegionSize /\ r \in RegionBases  BY <2>1, <2>2, Bases DEF RegionBases
    <3>4. /\ RegionsStash' \in Seq(RegionBases) /\ n \in Nat
          /\ DOMAIN RegionsStash = 1 .. n - 1 /\ DOMAIN RegionsStash' = 1 .. n
          /\ RegionsStash'[n] = r /\ \A i \in 1 .. n - 1 : RegionsStash'[i] = RegionsStash[i]
      BY <1>2, <3>1, <3>3
    <3>5. 1 .. n = (1 .. n - 1) \cup {n} /\ n \notin 1 .. n - 1  BY <3>4
    <3>6. Addresses("set", Region[c], MapEnd[c])  BY <2>1, <2>2 DEF Addresses, RegionBases
    <3>7. KnownAt("set", Region[c], MapEnd[c]) = Span(2 * k, 2 * k + 2)
      BY <2>1, <2>2, RegionSpan DEF KnownAt
    <3>8. R!Halves(r, r + RegionSize) = U
      <4>1. R!Halves(r, r + RegionSize) = Span(2 * (k + 1), 2 * (k + 1) + 2)
        BY <2>2, <3>3, RegionSpan
      <4>2. 2 * (k + 1) = 2 * k + 2 /\ 2 * (k + 1) + 2 = 2 * k + 4  BY <2>2
      <4> QED  BY <4>1, <4>2
    <3>9. Span(2 * k, 2 * k + 2) = Span(h, h + 4) \ U /\ U \subseteq Span(h, h + 4)
      BY <2>2, Numbers DEF Span
    <3> HIDE DEF r, n, U
    <3>10. Stashes'[n] = U /\ \A i \in 1 .. n - 1 : Stashes'[i] = Stashes[i]
      <4>1. \A i \in DOMAIN RegionsStash : Stashes[i] = R!Halves(RegionsStash[i], RegionsStash[i] + RegionSize)
        BY Zenon DEF Stashes
      <4>2. \A i \in DOMAIN RegionsStash' : Stashes'[i] = R!Halves(RegionsStash'[i], RegionsStash'[i] + RegionSize)
        BY Zenon DEF Stashes
      <4>3. n \in DOMAIN RegionsStash' /\ DOMAIN RegionsStash \subseteq DOMAIN RegionsStash'
        BY <3>4, <3>5
      <4>4. Stashes'[n] = R!Halves(r, r + RegionSize)  BY <3>4, <4>2, <4>3
      <4> QED  BY <3>4, <3>8, <4>1, <4>2, <4>3, <4>4
    <3>11. Hands'[c] = KnownAt("set", Region[c], MapEnd[c]) /\ \A d \in R!Classes : d # c => Hands'[d] = Hands[d]
      BY <1>1, <3>2, OtherHands
    <3>12. Hands'[c] = Hands[c] \ U /\ U \subseteq Hands[c]
      BY <1>6, <3>7, <3>9, <3>11
    <3>13. Apart(R!Classes, Hands, 1 .. n - 1, Stashes, R!RegionIds, Owners, mapped)
      BY <1>1, <3>4 DEF RegionsApart
    <3> DEFINE I == 1 .. n - 1
    <3>14. Apart(R!Classes, Hands', I \cup {n}, Stashes', R!RegionIds, Owners, mapped)
      <4>1. n \notin I  BY <3>5
      <4>2. \A i \in I : Stashes'[i] = Stashes[i]  BY <3>10
      <4>3. Apart(R!Classes, Hands, I, Stashes, R!RegionIds, Owners, mapped)  BY <3>13
      <4> HIDE DEF I
      <4> QED  BY <3>10, <3>11, <3>12, <4>1, <4>2, <4>3 DEF Apart
    <3>15. RegionsApart'  BY <1>8, <2>3, <3>4, <3>5, <3>14, Zenon DEF RegionsApart
    <3>16. RegionAddresses'  BY <1>1, <3>2, <3>6, OtherHands
    <3>17. RegionTypes'  BY <1>1, <1>3, <1>5, <1>7, <2>3, <3>2, <3>4, OtherHands DEF RegionTypes
    <3> QED  BY <3>15, <3>16, <3>17 DEF RegionsInv
  <2>5. CASE ~(Len(RegionsStash) < MaxStashedRegions)
    <3>1. UNCHANGED RegionsStash /\ R!Goto(c, "unmap")  BY <1>9, <2>5 DEF R!Align
    <3>2. Moves(c, "unmap", Region[c], MapEnd[c])
      BY <1>2, <1>3, <2>3, <3>1 DEF Moves, R!Goto
    <3>3. Addresses("unmap", Region[c], MapEnd[c])
      <4>1. h + 4 \in 2 .. 2 * NumRegions + 2 /\ h + 4 >= 2 * k + 2  BY <2>2, Numbers
      <4> QED  BY <1>4, <2>1, <2>2, <4>1 DEF Addresses
    <3>4. KnownAt("unmap", Region[c], MapEnd[c]) = Hands[c]
      BY <1>3, Zenon DEF Hands, KnownAt
    <3>5. \A d \in R!Classes : Hands'[d] = Hands[d]
      BY <1>1, <3>2, <3>4, OtherHands
    <3>6. Stashes' = Stashes  BY <3>1, Zenon DEF Stashes
    <3>7. Apart(R!Classes, Hands', DOMAIN RegionsStash, Stashes, R!RegionIds, Owners, mapped)
      BY <1>1, <3>5, ApartSame DEF RegionsApart
    <3>8. RegionsApart'  BY <1>8, <2>3, <3>1, <3>6, <3>7, Zenon DEF RegionsApart
    <3>9. RegionAddresses'  BY <1>1, <3>2, <3>3, OtherHands
    <3>10. RegionTypes'  BY <1>1, <1>3, <1>5, <1>7, <2>3, <3>1, <3>2, OtherHands DEF RegionTypes
    <3> QED  BY <3>8, <3>9, <3>10 DEF RegionsInv
  <2> QED  BY <2>4, <2>5
<1>10. CASE Region[c] % RegionSize # 0
  <2> DEFINE k == (h + 1) \div 2
             from == k * RegionSize
             U == Span(h, h + 1)
  <2>1. h % 2 # 0 /\ R!Pages!roundUp(Region[c], RegionSize) = from /\ k * 2 = h + 1
    BY <1>4, <1>5, <1>10, Alignment
  <2>2. k \in Int /\ k \in R!RegionIds /\ h + 1 = 2 * k /\ from = (h + 1) * R!Half /\ from \in Nat
    BY <2>1, Numbers
  <2>3. /\ Region' = [Region EXCEPT ![c] = from]
        /\ mapped' = mapped \ R!Halves(Region[c], Region'[c])
        /\ R!Goto(c, "unmap") /\ UNCHANGED RegionsStash
    BY <1>10, <2>1 DEF R!Align
  <2>4. Region'[c] = from  BY <1>2, <2>3
  <2>5. mapped' = mapped \ U
    <3>1. R!Halves(h * R!Half, (h + 1) * R!Half) = U  BY <1>5, HalvesSpan
    <3> QED  BY <1>4, <2>2, <2>3, <2>4, <3>1
  <2>6. Moves(c, "unmap", from, MapEnd[c])  BY <1>2, <1>3, <2>3 DEF Moves, R!Goto
  <2>7. Addresses("unmap", from, MapEnd[c])
    <3>1. h + 4 \in 2 .. 2 * NumRegions + 2 /\ h + 4 >= 2 * k + 2  BY <2>2, Numbers
    <3> QED  BY <1>4, <2>2, <3>1 DEF Addresses
  <2>8. KnownAt("unmap", from, MapEnd[c]) = Span(h + 1, h + 4)
    <3>1. R!Halves((h + 1) * R!Half, (h + 4) * R!Half) = Span(h + 1, h + 4)  BY <1>5, HalvesSpan
    <3> QED  BY <1>4, <2>2, <3>1 DEF KnownAt
  <2>9. Span(h + 1, h + 4) = Span(h, h + 4) \ U /\ U \subseteq Span(h, h + 4)
    BY <1>5, Numbers DEF Span
  <2> HIDE DEF k, from, U
  <2>10. Hands'[c] = KnownAt("unmap", from, MapEnd[c]) /\ \A d \in R!Classes : d # c => Hands'[d] = Hands[d]
    BY <1>1, <2>6, OtherHands
  <2>11. Hands'[c] = Hands[c] \ U /\ U \subseteq Hands[c]
    BY <1>6, <2>8, <2>9, <2>10
  <2>12. Apart(R!Classes, Hands', DOMAIN RegionsStash, Stashes, R!RegionIds, Owners, mapped \ U)
    BY <1>1, <2>10, <2>11 DEF RegionsApart, Apart
  <2>13. Stashes' = Stashes  BY <2>3, Zenon DEF Stashes
  <2>14. RegionsApart'  BY <1>8, <2>3, <2>5, <2>12, <2>13, Zenon DEF RegionsApart
  <2>15. RegionAddresses'  BY <1>1, <2>6, <2>7, OtherHands
  <2>16. RegionTypes'  BY <1>1, <1>3, <1>5, <1>7, <2>2, <2>3, <2>5, <2>6, OtherHands DEF RegionTypes
  <2> QED  BY <2>14, <2>15, <2>16 DEF RegionsInv
<1> QED  BY <1>9, <1>10

\* What else a class does changes nothing of the regions, or takes the class out of its
\* way to a region.
LEMMA StepPopulate ==
  ASSUME RegionsInv, NEW c \in R!Classes, NEW n, R!populateFreeList(c, n)
  PROVE  RegionsInv'
<1>1. pc[c] \notin HandStages  BY DEF R!populateFreeList, HandStages
<1>2. Moves(c, "idle", 0, 0) /\ UNCHANGED <<mapped, RegionsStash, PossibleRegions>>
  BY Zenon DEF R!populateFreeList, R!Goto, Moves
<1>3. "idle" \in RegionStages \ HandStages /\ 0 \in Nat  BY DEF RegionStages, HandStages
<1> QED  BY <1>1, <1>2, <1>3, StepIdle

LEMMA StepRegions ==
  ASSUME RegionsInv, R!Next
  PROVE  RegionsInv'
<1>1. PICK c \in R!Classes :
       \/ \E n \in {1, MaxArray32} : R!popBlocks(c, n) \/ R!populateFreeList(c, n)
       \/ \E s \in SUBSET blocksHeld[c] : R!Cardinality(s) =< MaxArray32 /\ R!pushBlocks(c, s)
       \/ R!StashPop(c) \/ R!Map(c) \/ R!Align(c) \/ R!Unmap(c) \/ R!SetOwner(c)
       \/ \E type \in {"Normal", "Force", "ForceAll"} : R!releaseToOSMaybe(c, type)
       \/ R!getSizeClassFragmentationInfo(c)
  BY Zenon DEF R!Next
<1>2. ASSUME NEW n, R!popBlocks(c, n) PROVE RegionsInv'
  BY <1>2, StepSame DEF R!popBlocks
<1>3. ASSUME NEW n, R!populateFreeList(c, n) PROVE RegionsInv'
  BY <1>3, StepPopulate
<1>4. ASSUME NEW s, R!pushBlocks(c, s) PROVE RegionsInv'
  BY <1>4, StepSame DEF R!pushBlocks
<1>5. ASSUME NEW type, R!releaseToOSMaybe(c, type) PROVE RegionsInv'
  BY <1>5, StepSame, Zenon DEF R!releaseToOSMaybe
<1>6. ASSUME R!getSizeClassFragmentationInfo(c) PROVE RegionsInv'
  BY <1>6, StepSame, Zenon DEF R!getSizeClassFragmentationInfo
<1> QED
  BY <1>1, <1>2, <1>3, <1>4, <1>5, <1>6, StepStashPop, StepMap, StepAlign, StepUnmap, StepSetOwner

Pick(s) == CHOOSE x \in s : TRUE

\* The function by which R!MapThenSumSet adds the numbers of the members of f[x].
Adds(f, T, g) ==
  g = [s \in SUBSET T |-> IF s = {} THEN 0 ELSE R!Cardinality(f[Pick(s)]) + g[s \ {Pick(s)}]]

AllOf(f, s) == UNION {f[x] : x \in s}

LEMMA SameCardinality == \A S : R!Cardinality(S) = Cardinality(S)
  BY DEF R!Cardinality, Cardinality

LEMMA PickOne ==
  ASSUME NEW s, IsFiniteSet(s)
  PROVE  /\ s # {} => Pick(s) \in s
         /\ Cardinality(s) \in Nat
         /\ Cardinality(s) =< 0 <=> s = {}
         /\ \A x \in s : IsFiniteSet(s \ {x}) /\ Cardinality(s \ {x}) = Cardinality(s) - 1
<1>1. s # {} => Pick(s) \in s  BY DEF Pick
<1>2. Cardinality(s) = 0 <=> s = {}  BY FS_EmptySet
<1>3. Cardinality(s) \in Nat  BY FS_CardinalityType
<1>4. \A x \in s : IsFiniteSet(s \ {x}) /\ Cardinality(s \ {x}) = Cardinality(s) - 1
  BY FS_RemoveElement
<1> HIDE DEF Pick
<1> QED  BY <1>1, <1>2, <1>3, <1>4

\* Sets that have nothing in common add up to what their union has.
LEMMA DisjointAdds ==
  ASSUME NEW f, NEW T, IsFiniteSet(T), NEW M, IsFiniteSet(M),
         \A x \in T : f[x] \subseteq M,
         \A x, y \in T : x # y => f[x] \cap f[y] = {}
  PROVE  /\ \E g : Adds(f, T, g)
         /\ \A g : Adds(f, T, g) => g[T] = Cardinality(AllOf(f, T))
<1> DEFINE Whole(s) == Cardinality(AllOf(f, s))
<1>0. \A s \in SUBSET T : IsFiniteSet(s)  BY FS_Subset
<1>1. \A s \in SUBSET T : IsFiniteSet(AllOf(f, s))
  <2>1. \A s \in SUBSET T : AllOf(f, s) \in SUBSET M  BY DEF AllOf
  <2> QED  BY <2>1, FS_Subset
<1>2. ASSUME NEW s \in SUBSET T, NEW x \in s
      PROVE  Whole(s) = Cardinality(f[x]) + Whole(s \ {x})
  <2>1. AllOf(f, s) = f[x] \cup AllOf(f, s \ {x})  BY DEF AllOf
  <2>2. f[x] \cap AllOf(f, s \ {x}) = {}  BY DEF AllOf
  <2> DEFINE A == f[x]
             C == AllOf(f, s \ {x})
  <2>3. IsFiniteSet(A) /\ IsFiniteSet(C)  BY <1>1, FS_Subset
  <2> HIDE DEF A, C
  <2>4. Cardinality(A \cup C) = Cardinality(A) + Cardinality(C) - 0
    <3>1. A \cap C = {}  BY <2>2 DEF A, C
    <3>2. Cardinality(A \cap C) = 0  BY <3>1, FS_EmptySet
    <3> QED  BY <2>3, <3>2, FS_Union
  <2>5. Cardinality(A) \in Nat /\ Cardinality(C) \in Nat  BY <2>3, FS_CardinalityType
  <2>6. Cardinality(A \cup C) = Cardinality(A) + Cardinality(C)  BY <2>4, <2>5
  <2> QED  BY <2>1, <2>6 DEF A, C
<1>3. Whole({}) = 0
  <2>1. AllOf(f, {}) = {}  BY DEF AllOf
  <2> QED  BY <2>1, FS_EmptySet
<1> HIDE DEF Whole
<1>4. \E g : Adds(f, T, g)
  <2> DEFINE g == [s \in SUBSET T |-> Whole(s)]
  <2>1. ASSUME NEW s \in SUBSET T
        PROVE  Whole(s) = IF s = {} THEN 0 ELSE R!Cardinality(f[Pick(s)]) + g[s \ {Pick(s)}]
    <3>1. s # {} => Pick(s) \in s  BY <1>0, PickOne
    <3> QED  BY <1>2, <1>3, <3>1, SameCardinality
  <2>2. g = [s \in SUBSET T |->
               IF s = {} THEN 0 ELSE R!Cardinality(f[Pick(s)]) + g[s \ {Pick(s)}]]
    BY <2>1
  <2> QED  BY <2>2, Zenon DEF Adds
<1>5. ASSUME NEW g, Adds(f, T, g) PROVE g[T] = Whole(T)
  <2> DEFINE U == {n \in Nat : \A s \in SUBSET T : Cardinality(s) =< n => g[s] = Whole(s)}
  <2>1. \A s \in SUBSET T : g[s] =
          IF s = {} THEN 0 ELSE Cardinality(f[Pick(s)]) + g[s \ {Pick(s)}]
    BY <1>5, SameCardinality DEF Adds
  <2>2. 0 \in U
    <3>1. \A s \in SUBSET T : Cardinality(s) =< 0 => s = {}  BY <1>0, PickOne
    <3> QED  BY <1>3, <2>1, <3>1
  <2>3. ASSUME NEW n \in Nat, n \in U PROVE n + 1 \in U
    <3>1. ASSUME NEW s \in SUBSET T, Cardinality(s) =< n + 1, s # {} PROVE g[s] = Whole(s)
      <4> DEFINE p == Pick(s)
      <4>1. p \in s /\ Cardinality(s \ {p}) =< n
        <5>1. p \in s /\ Cardinality(s) \in Nat  BY <1>0, <3>1, PickOne
        <5>2. Cardinality(s \ {p}) = Cardinality(s) - 1  BY <1>0, <5>1, PickOne
        <5> HIDE DEF p
        <5> QED  BY <3>1, <5>1, <5>2
      <4>2. g[s] = Cardinality(f[p]) + g[s \ {p}]  BY <2>1, <3>1
      <4> HIDE DEF p
      <4>3. g[s \ {p}] = Whole(s \ {p})  BY <2>3, <4>1
      <4> QED  BY <1>2, <4>1, <4>2, <4>3
    <3>2. g[{}] = Whole({})  BY <1>3, <2>1
    <3> QED  BY <3>1, <3>2
  <2>4. Nat \subseteq U
    <3> HIDE DEF U
    <3> QED  BY <2>2, <2>3, Induction
  <2>5. Cardinality(T) \in U  BY <2>4, PickOne
  <2> QED  BY <2>5, PickOne
<1> QED  BY <1>4, <1>5 DEF Whole

LEMMA AddsIsSum ==
  ASSUME NEW f, NEW T, \E g : Adds(f, T, g)
  PROVE  \E g : Adds(f, T, g) /\ R!MapThenSumSet(LAMBDA x : R!Cardinality(f[x]), T) = g[T]
<1> DEFINE h == CHOOSE g : Adds(f, T, g)
<1>1. Adds(f, T, h)  BY Zenon
<1>2. R!MapThenSumSet(LAMBDA x : R!Cardinality(f[x]), T) = h[T]
  BY Zenon DEF R!MapThenSumSet, R!MapThenFoldSet, Adds, Pick
<1> QED  BY <1>1, <1>2, Zenon

\* The parts of the address space are those of RegionsApart.
LEMMA PartsApart ==
  ASSUME RegionsInv
  PROVE  /\ IsFiniteSet(R!PartIds) /\ IsFiniteSet(mapped)
         /\ \A x \in R!PartIds : R!Parts[x] \subseteq mapped
         /\ \A x, y \in R!PartIds : x # y => R!Parts[x] \cap R!Parts[y] = {}
         /\ mapped \subseteq AllOf(R!Parts, R!PartIds)
<1>1. RegionTypes /\ RegionsApart  BY DEF RegionsInv
<1> DEFINE CS == {"class"} \X R!Classes
           SS == {"stash"} \X DOMAIN RegionsStash
           OS == {"owned"} \X R!RegionIds
<1>2. R!PartIds = CS \cup SS \cup OS  BY DEF R!PartIds
<1>3. ASSUME NEW x \in CS PROVE x[1] = "class" /\ x[2] \in R!Classes /\ x = <<"class", x[2]>>
  OBVIOUS
<1>4. ASSUME NEW x \in SS PROVE x[1] = "stash" /\ x[2] \in DOMAIN RegionsStash /\ x = <<"stash", x[2]>>
  OBVIOUS
<1>5. ASSUME NEW x \in OS PROVE x[1] = "owned" /\ x[2] \in R!RegionIds /\ x = <<"owned", x[2]>>
  OBVIOUS
<1>6. \A c \in R!Classes : R!Known(c) = Hands[c]
  <2> SUFFICES ASSUME NEW c \in R!Classes PROVE R!Known(c) = Hands[c]  OBVIOUS
  <2>1. pc[c] \in RegionStages  BY <1>1 DEF RegionTypes
  <2>2. Hands[c] = KnownAt(pc[c], Region[c], MapEnd[c])  BY DEF Hands
  <2> QED  BY <2>1, <2>2 DEF R!Known, KnownAt, RegionStages, HandStages
<1>7. \A i \in DOMAIN RegionsStash : R!Stashed(i) = Stashes[i]  BY DEF R!Stashed, Stashes
<1>8. \A r \in R!RegionIds : R!Owned(r) = Owners[r]  BY DEF R!Owned, Owners, OwnedBy
<1>9. \A x \in CS : R!Parts[x] = Hands[x[2]]
  <2>1. \A x \in CS : R!Parts[x] = R!Known(x[2])  BY <1>2, <1>3 DEF R!Parts
  <2> QED  BY <1>3, <1>6, <2>1
<1>10. \A x \in SS : R!Parts[x] = Stashes[x[2]]
  <2>1. \A x \in SS : R!Parts[x] = R!Stashed(x[2])  BY <1>2, <1>4 DEF R!Parts
  <2> QED  BY <1>4, <1>7, <2>1
<1>11. \A x \in OS : R!Parts[x] = Owners[x[2]]
  <2>1. \A x \in OS : R!Parts[x] = R!Owned(x[2])  BY <1>2, <1>5 DEF R!Parts
  <2> QED  BY <1>5, <1>8, <2>1
<1>12. IsFiniteSet(R!PartIds)
  <2>1. IsFiniteSet(R!Classes) /\ IsFiniteSet(R!RegionIds)  BY Numbers, FS_Interval
  <2>2. DOMAIN RegionsStash = 1 .. Len(RegionsStash) /\ Len(RegionsStash) \in Nat
    BY <1>1 DEF RegionTypes
  <2>3. IsFiniteSet(DOMAIN RegionsStash)  BY <2>2, FS_Interval
  <2>4. IsFiniteSet(CS) /\ IsFiniteSet(SS) /\ IsFiniteSet(OS)
    BY <2>1, <2>3, FS_Product, FS_Singleton
  <2> QED  BY <1>2, <2>4, FS_Union
<1>13. IsFiniteSet(mapped)
  <2>1. IsFiniteSet(2 .. 2 * NumRegions + 1)  BY Numbers, FS_Interval
  <2>2. mapped \in SUBSET (2 .. 2 * NumRegions + 1)  BY <1>1 DEF RegionTypes
  <2> QED  BY <2>1, <2>2, FS_Subset
<1>14. \A x \in R!PartIds : R!Parts[x] \subseteq mapped
  BY <1>1, <1>2, <1>3, <1>4, <1>5, <1>9, <1>10, <1>11 DEF RegionsApart, Apart
<1>15. ASSUME NEW x \in R!PartIds, NEW y \in R!PartIds, NEW h \in R!Parts[x], h \in R!Parts[y]
       PROVE  x = y
  <2> USE DEF RegionsApart, Apart
  <2>1. CASE x \in CS /\ y \in CS  BY <1>1, <1>3, <1>9, <1>15, <2>1
  <2>2. CASE x \in SS /\ y \in SS  BY <1>1, <1>4, <1>10, <1>15, <2>2
  <2>3. CASE x \in OS /\ y \in OS  BY <1>1, <1>5, <1>11, <1>15, <2>3
  <2>4. CASE (x \in CS /\ y \in SS) \/ (x \in SS /\ y \in CS)
    BY <1>1, <1>3, <1>4, <1>9, <1>10, <1>15, <2>4
  <2>5. CASE (x \in CS /\ y \in OS) \/ (x \in OS /\ y \in CS)
    BY <1>1, <1>3, <1>5, <1>9, <1>11, <1>15, <2>5
  <2>6. CASE (x \in SS /\ y \in OS) \/ (x \in OS /\ y \in SS)
    BY <1>1, <1>4, <1>5, <1>10, <1>11, <1>15, <2>6
  <2> QED  BY <1>2, <2>1, <2>2, <2>3, <2>4, <2>5, <2>6, Zenon
<1>16. ASSUME NEW h \in mapped PROVE \E x \in R!PartIds : h \in R!Parts[x]
  <2>1. CASE \E c \in R!Classes : h \in Hands[c]
    <3>1. PICK c \in R!Classes : h \in Hands[c]  BY <2>1
    <3>2. <<"class", c>> \in CS /\ <<"class", c>>[2] = c  OBVIOUS
    <3> QED  BY <1>2, <1>9, <3>1, <3>2
  <2>2. CASE \E i \in DOMAIN RegionsStash : h \in Stashes[i]
    <3>1. PICK i \in DOMAIN RegionsStash : h \in Stashes[i]  BY <2>2
    <3>2. <<"stash", i>> \in SS /\ <<"stash", i>>[2] = i  OBVIOUS
    <3> QED  BY <1>2, <1>10, <3>1, <3>2
  <2>3. CASE \E r \in R!RegionIds : h \in Owners[r]
    <3>1. PICK r \in R!RegionIds : h \in Owners[r]  BY <2>3
    <3>2. <<"owned", r>> \in OS /\ <<"owned", r>>[2] = r  OBVIOUS
    <3> QED  BY <1>2, <1>11, <3>1, <3>2
  <2> QED  BY <1>1, <2>1, <2>2, <2>3 DEF RegionsApart, Apart
<1> QED  BY <1>12, <1>13, <1>14, <1>15, <1>16 DEF AllOf

LEMMA RegionsStutter ==
  ASSUME RegionsInv, UNCHANGED rvars
  PROVE  RegionsInv'
BY DEF rvars, RegionsInv, RegionTypes, RegionAddresses, RegionsApart, Hands, Stashes, Owners

LEMMA RegionsInvImplies == RegionsInv => R!RegionsAccounted
<1> SUFFICES ASSUME RegionsInv PROVE R!RegionsAccounted  OBVIOUS
<1> DEFINE f == R!Parts
           T == R!PartIds
<1>1. AllOf(f, T) = mapped
  <2>1. AllOf(f, T) \subseteq mapped  BY PartsApart DEF AllOf
  <2> QED  BY <2>1, PartsApart
<1>2. DOMAIN f = T  BY DEF R!Parts
<1>3. UNION R!Range(f) = mapped  BY <1>1, <1>2 DEF R!Range, AllOf
<1>4. /\ \E g : Adds(f, T, g)
      /\ \A g : Adds(f, T, g) => g[T] = Cardinality(AllOf(f, T))
  <2>1. /\ IsFiniteSet(T) /\ IsFiniteSet(mapped) /\ \A x \in T : f[x] \subseteq mapped
        /\ \A x, y \in T : x # y => f[x] \cap f[y] = {}
    BY PartsApart
  <2> HIDE DEF f, T
  <2> QED  BY <2>1, DisjointAdds
<1>5. PICK g : Adds(f, T, g) /\ R!MapThenSumSet(LAMBDA x : R!Cardinality(f[x]), T) = g[T]
  <2> HIDE DEF f, T
  <2> QED  BY <1>4, AddsIsSum, Zenon
<1>6. R!MapThenSumSet(LAMBDA x : R!Cardinality(f[x]), DOMAIN f) = R!Cardinality(mapped)
  <2>1. g[T] = R!Cardinality(mapped)  BY <1>1, <1>4, <1>5, SameCardinality
  <2> HIDE DEF f, T
  <2> QED  BY <1>2, <1>5, <2>1, Zenon
<1> QED  BY <1>3, <1>6, Zenon DEF R!RegionsAccounted

\* Whatever classes ask for regions at once and wherever the system maps them, every
\* region is in the stash, owned by one class or in the hands of one thread: what
\* allocateRegionSlow(), allocateRegion() and the unmaps of ends do to the stash and the
\* byte map neither leaks a region nor gives it out twice.
THEOREM SpecRegionsAccounted == Spec => []RegionsAccounted
<1>1. Init => RegionsInv  BY RegionsInit DEF Init
<1>2. RegionsInv /\ [Next]_<<subject, fvars, bvars, pvars, rvars, zvars>> => RegionsInv'
  <2> SUFFICES ASSUME RegionsInv, [Next]_<<subject, fvars, bvars, pvars, rvars, zvars>>
               PROVE  RegionsInv'
    OBVIOUS
  <2>1. CASE R!Next  BY <2>1, StepRegions
  <2>2. CASE UNCHANGED rvars  BY <2>2, RegionsStutter
  <2> QED  BY <2>1, <2>2 DEF Next
<1>3. RegionsInv => RegionsAccounted  BY RegionsInvImplies DEF RegionsAccounted
<1> QED  BY <1>1, <1>2, <1>3, PTL DEF Spec

\* The inductive invariant of both freelists.
FreeListsOk == FreeListOk /\ BatchClassOk

LEMMA FreeListsStep ==
  ASSUME FreeListsOk, [Next]_<<subject, fvars, bvars, pvars, rvars, zvars>>
  PROVE  /\ FreeListsOk'
         /\ PoolPush \/ PoolPop \/ PoolKept
         /\ ClassPush \/ ClassPop \/ ClassKept
<1>1. FreeListOk /\ BatchClassOk  BY DEF FreeListsOk
<1>2. F!Next \/ UNCHANGED fvars  BY DEF Next
<1>3. B!Next \/ UNCHANGED bvars  BY DEF Next
<1>4. FreeListOk' /\ (PoolPush \/ PoolPop \/ PoolKept)  BY <1>1, <1>2, FreeListNext, FreeListStutter
<1>5. BatchClassOk' /\ (ClassPush \/ ClassPop \/ ClassKept)  BY <1>1, <1>3, BatchClassNext, BatchClassStutter
<1> QED  BY <1>4, <1>5 DEF FreeListsOk

LEMMA SpecFreeLists == Spec => []FreeListsOk
<1>1. Init => FreeListsOk  BY FreeListInit, BatchClassInit DEF Init, FreeListsOk
<1>2. FreeListsOk /\ [Next]_<<subject, fvars, bvars, pvars, rvars, zvars>> => FreeListsOk'
  BY FreeListsStep
<1> QED  BY <1>1, <1>2, PTL DEF Spec

\* Whatever is popped, pushed, populated and taken away by releases in whatever order,
\* the groups of a freelist stay sorted, with full batches behind the front one of
\* each, and the records of the batch class lie in blocks that nobody holds: what
\* pushBlocksImpl(), popBlocksImpl(), pushBatchClassBlocks() and
\* mergeGroupsToReleaseBack() take for granted of each other.
THEOREM SpecWellFormed == Spec => []WellFormed
<1>1. FreeListsOk => WellFormed  BY FreeListForm, BatchClassForm DEF FreeListsOk, WellFormed
<1> QED  BY <1>1, SpecFreeLists, PTL

\* PoppedBlocks - PushedBlocks is the number of blocks in use, the records of the
\* freelists are those that were taken from the batch class, and the batch class lists
\* each of its free blocks once.
THEOREM SpecBlocksCounted == Spec => []BlocksCounted
<1>1. FreeListsOk => BlocksCounted  BY FreeListForm, BatchClassForm DEF FreeListsOk, BlocksCounted
<1> QED  BY <1>1, SpecFreeLists, PTL

\* The freelist of a region, with the groups that a release looks at, is a pool of
\* blocks: a block is free or has one holder, and none gets lost.
THEOREM SpecFreeListPool == Spec => F!ImplementsPool
<1> DEFINE free == F!BlocksOf(list) \cup F!BlocksOf(releasing)
<1>1. Init => F!Pool!Init  BY FreeListPoolInit DEF Init
<1>2. FreeListsOk /\ [Next]_<<subject, fvars, bvars, pvars, rvars, zvars>>
        => [F!Pool!Push \/ F!Pool!Pop]_<<free, held>>
  <2> SUFFICES ASSUME FreeListsOk, [Next]_<<subject, fvars, bvars, pvars, rvars, zvars>>
               PROVE  [F!Pool!Push \/ F!Pool!Pop]_<<free, held>>
    OBVIOUS
  <2>1. PoolPush \/ PoolPop \/ PoolKept  BY FreeListsStep
  <2>2. CASE PoolPush \/ PoolPop  BY <2>2, FreeListPoolPush, FreeListPoolPop
  <2>3. CASE PoolKept
    <3>1. free = FreeBlocks /\ free' = FreeBlocks'  BY ListBlocksOf DEF FreeBlocks
    <3> QED  BY <2>3, <3>1 DEF PoolKept
  <2> QED  BY <2>1, <2>2, <2>3
<1> QED  BY <1>1, <1>2, SpecFreeLists, PTL DEF Spec, F!ImplementsPool, F!Pool!Spec

\* So is the batch class, whose records are in its own free blocks.
THEOREM SpecBatchClassPool == Spec => B!ImplementsPool
<1>1. Init => B!Pool!Init
  <2> SUFFICES ASSUME Init PROVE B!Pool!Init  OBVIOUS
  <2>1. BatchClassOk /\ Listing(BG, batches) = {} /\ batchesHeld = {}  BY BatchClassInit DEF Init
  <2>2. ClassFree = {}  BY <2>1, ClassFreeIs
  <2> QED  BY <2>1, <2>2 DEF B!Pool!Init, ClassFree
<1>2. FreeListsOk => ClassFree = Listing(BG, batches)  BY ClassFreeIs DEF FreeListsOk
<1>3. (FreeListsOk => ClassFree = Listing(BG, batches))'  BY <1>2, PTL
<1>4. FreeListsOk /\ [Next]_<<subject, fvars, bvars, pvars, rvars, zvars>>
        => [B!Pool!Push \/ B!Pool!Pop]_<<ClassFree, batchesHeld>>
  <2> SUFFICES ASSUME FreeListsOk, [Next]_<<subject, fvars, bvars, pvars, rvars, zvars>>
               PROVE  [B!Pool!Push \/ B!Pool!Pop]_<<ClassFree, batchesHeld>>
    OBVIOUS
  <2>1. FreeListsOk' /\ (ClassPush \/ ClassPop \/ ClassKept)  BY FreeListsStep
  <2>2. ClassFree = Listing(BG, batches) /\ ClassFree' = Listing(BG', batches')
    BY <1>2, <1>3, <2>1
  <2>3. /\ ClassPush => B!Pool!Push
        /\ ClassPop => B!Pool!Pop
        /\ ClassKept => batchesHeld' = batchesHeld /\ ClassFree' = ClassFree
    BY <2>2, ClassPoolStep
  <2> QED  BY <2>1, <2>3
<1> QED  BY <1>1, <1>4, SpecFreeLists, PTL DEF Spec, B!ImplementsPool, B!Pool!Spec, ClassFree

\* Both together, as the run checks it.
THEOREM SpecImplementsPool == Spec => ImplementsPool
BY SpecFreeListPool, SpecBatchClassPool DEF ImplementsPool
=============================================================================
