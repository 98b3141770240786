------------------------------- MODULE PageMap --------------------------------
(***************************************************************************)
(* Which pages of a region have no block in use: PageReleaseContext and    *)
(* RegionPageMap count the free blocks of every page and compare the       *)
(* number with that of the blocks that touch the page.  Addresses are      *)
(* offsets in the region.  A page map is a function from the pages of a    *)
(* region, counted from the offset of the context, to counters; in memory  *)
(* the counters are packed, so one above CounterMask would spoil the next. *)
(***************************************************************************)
EXTENDS Integers, FiniteSets

CONSTANT PageSize

roundDown(x, n) == (x \div n) * n
roundUp(x, n) == roundDown(x + n - 1, n)

(***************************************************************************)
(* PageReleaseContext.                                                     *)
(***************************************************************************)
SameBlockCountPerPage(B) ==
  IF B > PageSize THEN B % PageSize = 0
  ELSE PageSize % B = 0 \/ B % (PageSize % B) = 0

FullPagesBlockCountMax(B) ==
  IF B > PageSize THEN (IF SameBlockCountPerPage(B) THEN 1 ELSE 2)
  ELSE PageSize \div B + (IF PageSize % B = 0 THEN 0 ELSE IF SameBlockCountPerPage(B) THEN 1 ELSE 2)

Context(B, ReleaseSize, ReleaseOffset) ==
  [BlockSize |-> B, PagesCount |-> roundUp(ReleaseSize, PageSize) \div PageSize,
   ReleasePageOffset |-> ReleaseOffset \div PageSize]

getPageIndex(c, p) == p \div PageSize - c.ReleasePageOffset

\* A counter has 1, 2, 4, 8 ... bits.
CounterMask(c) ==
  LET fits == {m \in {1, 3, 15, 255, 65535} : m >= FullPagesBlockCountMax(c.BlockSize)}
  IN  CHOOSE m \in fits : \A n \in fits : m =< n

NoneCounted(c) == [i \in 0 .. c.PagesCount - 1 |-> 0]

\* Only incRange() and setAsAllCountedRange() stop at the last counter.
incN(map, i, N) ==
  [j \in DOMAIN map \cup {i} |-> (IF j \in DOMAIN map THEN map[j] ELSE 0) + (IF j = i THEN N ELSE 0)]

incRange(map, From, To) == [j \in DOMAIN map |-> IF j \in From .. To THEN map[j] + 1 ELSE map[j]]

setAsAllCountedRange(c, map, From, To) ==
  [j \in DOMAIN map |-> IF j \in From .. To THEN CounterMask(c) ELSE map[j]]

(***************************************************************************)
(* markRangeAsAllCounted(): all blocks that begin in [From, To) are free.  *)
(* The first page is only counted when a block before From may be on it,   *)
(* and so are the pages behind To that the last block reaches.             *)
(***************************************************************************)
FirstCounted(c, map, from, first) ==
  incN(map, getPageIndex(c, from), (from + PageSize - first + c.BlockSize - 1) \div c.BlockSize)

LastCounted(c, map, To, end) == incRange(map, getPageIndex(c, To), getPageIndex(c, end - 1))

markRangeAsAllCounted(c, map, From, To, RegionSize) ==
  LET B       == c.BlockSize
      first   == roundUp(From, B)
      page    == roundDown(first, PageSize)
      aligned == first = page
      from    == IF aligned THEN page ELSE page + PageSize
      end     == roundDown(To - 1, B) + B
      to      == IF end = RegionSize THEN RegionSize ELSE To
      head    == IF aligned THEN map ELSE FirstCounted(c, map, page, first)
      ends    == IF end \in {RegionSize, To} THEN head ELSE LastCounted(c, head, To, end)
  IN  IF first >= To THEN map
      ELSE IF from >= to THEN ends
      ELSE setAsAllCountedRange(c, ends, getPageIndex(c, from), getPageIndex(c, to - 1))

(***************************************************************************)
(* markFreeBlocksInRegion(): free is the set of the offsets of blocks.     *)
(***************************************************************************)
\* The rest of the last page counts as blocks that are free.
Trailing(c, map, RegionSize) ==
  LET base == roundDown(RegionSize, c.BlockSize)
      rest == roundUp(RegionSize, PageSize) - base
      N    == (roundUp(rest, c.BlockSize) + c.BlockSize - 1) \div c.BlockSize
  IN  IF N > 0 THEN incN(map, getPageIndex(c, base), N) ELSE map

markFreeBlocksInRegion(c, map, free, RegionSize, MayContainLastBlockInRegion) ==
  LET m == IF MayContainLastBlockInRegion THEN Trailing(c, map, RegionSize) ELSE map
      On(j) == {p \in free : j \in getPageIndex(c, p) .. getPageIndex(c, p + c.BlockSize - 1)}
  IN  [j \in DOMAIN m |-> m[j] + Cardinality(On(j))]

(***************************************************************************)
(* releaseFreeMemoryToOS().                                                *)
(***************************************************************************)
\* BlocksPerPage of page j, for which the loop carries on CurrentBoundary, the
\* beginning of the first block that begins in the page or behind it.
BlocksPerPage(c, j) ==
  LET B     == c.BlockSize
      Pn    == IF B < PageSize THEN PageSize \div B ELSE 1
      Pnc   == Pn * B
      Prev(i) == (c.ReleasePageOffset + i) * PageSize
      CurrentBoundary[i \in 0 .. j] ==
        IF i = 0 THEN roundUp(Prev(0), B)
        ELSE LET b == CurrentBoundary[i - 1] IN
             IF b >= Prev(i) THEN b ELSE IF b + Pnc < Prev(i) THEN b + Pnc + B ELSE b + Pnc
      cur   == CurrentBoundary[j]
  IN  IF cur >= Prev(j + 1) THEN Pn
      ELSE Pn + (IF cur > Prev(j) THEN 1 ELSE 0) + (IF cur + Pnc < Prev(j + 1) THEN 1 ELSE 0)

ExpectedCount(c, j) ==
  IF SameBlockCountPerPage(c.BlockSize) THEN FullPagesBlockCountMax(c.BlockSize)
  ELSE BlocksPerPage(c, j)

\* updateAsAllCountedIf().
CanRelease(c, map, j) == map[j] \in {CounterMask(c), ExpectedCount(c, j)}
=============================================================================
