----------------------------- MODULE SizeClassMap -----------------------------
(***************************************************************************)
(* Sizes to size classes and back.  A map is a record of its Config: a     *)
(* FixedSizeClassMap computes the sizes of its classes, a TableSizeClassMap*)
(* lists them in Classes.  Class 0 is the batch class and has no size here.*)
(***************************************************************************)
EXTENDS FiniteSetsExt, Integers, Sequences

\* getMostSignificantSetBitIndex() and getLeastSignificantSetBitIndex() of a
\* positive u32.
MSB(X) == CHOOSE l \in 0 .. 30 : X \div 2^l = 1
LSB(X) == Max({l \in 0 .. 30 : X % 2^l = 0})

scaledLog2(Size, ZeroLog, LogBits) ==
  LET L     == MSB(Size)
      LBits == Size \div 2^(L - LogBits) - 2^LogBits
      HBits == (L - ZeroLog) * 2^LogBits
  IN  LBits + HBits

IsTable(C) == C.Classes # <<>>
S(C) == C.NumBits - 1
MinSize(C) == 2^C.MinSizeLog
MidSize(C) == 2^C.MidSizeLog
MidClass(C) == MidSize(C) \div MinSize(C)

LargestClassId(C) ==
  IF IsTable(C) THEN Len(C.Classes)
  ELSE MidClass(C) + (C.MaxSizeLog - C.MidSizeLog) * 2^S(C)

MaxSize(C) == IF IsTable(C) THEN C.Classes[LargestClassId(C)] ELSE 2^C.MaxSizeLog + C.SizeDelta

getSizeByClassId(C, ClassId) ==
  IF IsTable(C) THEN C.Classes[ClassId]
  ELSE IF ClassId =< MidClass(C) THEN ClassId * MinSize(C) + C.SizeDelta
  ELSE LET c == ClassId - MidClass(C)
           T == MidSize(C) * 2^(c \div 2^S(C))
       IN  T + (T \div 2^S(C)) * (c % 2^S(C)) + C.SizeDelta

\* SizeTable: for each step between the powers of two from 2^MidSizeLog up, the
\* class of its last size. The steps of the loop double where Pos is a power of two.
SizeTable(C) ==
  LET Steps  == 2^S(C)
      Pos(i) == LET T == MidSize(C) * 2^(i \div Steps) IN T + (T \div Steps) * (i % Steps)
      computeClassId(Size) ==
        IF Size > MaxSize(C) THEN 255 ELSE Min({i \in DOMAIN C.Classes : Size =< C.Classes[i]})
  IN  [i \in 0 .. (C.MaxSizeLog - C.MidSizeLog) * Steps - 1 |-> computeClassId(Pos(i + 1) + C.SizeDelta)]

WithTable(C) ==
  [C EXCEPT !.Tab = SizeTable(C), !.LSBs = [i \in DOMAIN C.Classes |-> LSB(C.Classes[i])]]

\* Mutant: the last size of a step counts as the first of the next.
ClassIdRoundedUp(C, Size) ==
  IF Size =< C.SizeDelta + MinSize(C) THEN 1
  ELSE LET s == Size - C.SizeDelta IN
       IF s =< MidSize(C) THEN (s + MinSize(C) - 1) \div MinSize(C)
       ELSE MidClass(C) + 1 + scaledLog2(s, C.MidSizeLog, S(C))

FixedClassIdBySize(C, Size) ==
  IF Size =< C.SizeDelta + MinSize(C) THEN 1
  ELSE LET s == Size - C.SizeDelta IN
       IF s =< MidSize(C) THEN (s + MinSize(C) - 1) \div MinSize(C)
       ELSE MidClass(C) + 1 + scaledLog2(s - 1, C.MidSizeLog, S(C))

TableClassIdBySize(C, Size) ==
  IF Size =< C.Classes[1] THEN 1
  ELSE LET s == Size - C.SizeDelta IN
       IF s =< MidSize(C) THEN (s - 1) \div MinSize(C) + 1
       ELSE C.Tab[scaledLog2(s - 1, C.MidSizeLog, S(C))]

getClassIdBySize(C, Size) ==
  IF IsTable(C) THEN TableClassIdBySize(C, Size) ELSE FixedClassIdBySize(C, Size)

\* The table packs the indices in two bits each when they are close together.
UseCompressedFormat(C) ==
  LET bits == {C.LSBs[i] : i \in DOMAIN C.LSBs} IN Max(bits) - Min(bits) =< 3 /\ Len(C.LSBs) =< 32

getSizeLSBByClassId(C, ClassId) ==
  IF ~IsTable(C) THEN LSB(getSizeByClassId(C, ClassId))
  ELSE IF UseCompressedFormat(C)
       THEN LET CompressedMin == Min({C.LSBs[i] : i \in DOMAIN C.LSBs})
            IN  CompressedMin + ((C.LSBs[ClassId] - CompressedMin) % 4)
       ELSE C.LSBs[ClassId]

\* getMaxCachedHint(), and the MaxCount of a class in a local cache.
getMaxCachedHint(C, Size) ==
  Max({1, Min({C.MaxNumCachedHint, 2^C.MaxBytesCachedLog \div Size})})

MaxCount(C, ClassId) ==
  2 * Min({C.MaxNumCachedHint, getMaxCachedHint(C, getSizeByClassId(C, ClassId))})

(***************************************************************************)
(* The configurations of the header.                                       *)
(***************************************************************************)
Config(NumBits, MinLog, MidLog, MaxLog, NumCached, BytesLog, Delta, Classes) ==
  [NumBits |-> NumBits, MinSizeLog |-> MinLog, MidSizeLog |-> MidLog, MaxSizeLog |-> MaxLog,
   MaxNumCachedHint |-> NumCached, MaxBytesCachedLog |-> BytesLog, SizeDelta |-> Delta,
   Classes |-> Classes, Tab |-> <<>>, LSBs |-> <<>>]

DefaultSizeClassMap == Config(3, 5, 8, 17, 14, 10, 0, <<>>)
FuchsiaSizeClassMap == Config(3, 5, 8, 17, 12, 10, 16, <<>>)
TrustySizeClassMap == Config(1, 5, 5, 15, 12, 10, 0, <<>>)

AndroidSizeClassMap ==
  WithTable(Config(7, 4, 6, 16, 13, 13, 16,
    <<32, 48, 64, 80, 96, 112, 144, 176, 192, 224, 288, 352, 448, 592, 800, 1104,
      1648, 2096, 2576, 3120, 4112, 4624, 7120, 8720,
      11664, 14224, 16400, 18448, 23056, 29456, 33296, 65552>>))

\* The same where words have 32 bits.
AndroidSizeClassMap32 ==
  WithTable(Config(8, 4, 7, 16, 14, 13, 16,
    <<32, 48, 64, 80, 96, 112, 128, 144, 160, 176, 192, 224, 240, 272, 288, 304,
      336, 352, 368, 400, 464, 528, 576, 672, 816, 880, 928, 1024, 1072, 1184, 1328, 1552,
      1840, 2112, 2320, 2496, 2656, 2832, 3232, 3584, 4016, 4144, 4400, 4592, 5264, 5712, 6448, 8208,
      8592, 9360, 10320, 11600, 12304, 12816, 15504, 16528, 17680, 18448, 23568, 28432, 29456, 32784,
      49168, 65552>>))
-----------------------------------------------------------------------------
\* The sizes that are too large for the class below.
SizesOf(C, ClassId) ==
  LET above == IF ClassId = 1 THEN 0 ELSE getSizeByClassId(C, ClassId - 1)
  IN  above + 1 .. getSizeByClassId(C, ClassId)

\* What validateMap() asks of the sizes that class ClassId is for, and of their
\* bounds: getClassIdBySize() finds it for exactly these, that is the smallest
\* class that is large enough, although one is a table of steps and the other a
\* list of sizes that fit between them.
SmallestThatFits(C, ClassId) ==
  SizesOf(C, ClassId) # {} /\ \A Size \in SizesOf(C, ClassId) : getClassIdBySize(C, Size) = ClassId

\* "Adding Size to Ptr will flip the least significant set bit of Size in Ptr":
\* consecutive blocks differ in the bit that computeOddEvenMaskForPointerMaybe()
\* takes, wherever their region begins.
NeighboursDiffer(C, ClassId) ==
  LET Size == getSizeByClassId(C, ClassId)
      bit(Ptr) == (Ptr \div 2^getSizeLSBByClassId(C, ClassId)) % 2
  IN  \A i \in 0 .. 7 : \A Base \in {0, 4096} :
        bit(Base + i * Size) # bit(Base + (i + 1) * Size)

\* A local cache moves half of MaxCount blocks at once: never none, and never
\* more than its array holds.
MovesBlocks(C, ClassId) == MaxCount(C, ClassId) \div 2 \in 1 .. C.MaxNumCachedHint
=============================================================================
