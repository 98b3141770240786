-------------------------- MODULE TaggedChunkProofs --------------------------
(***************************************************************************)
(* For all blocks, sizes, alignments and tags: as long as gentag yields no *)
(* zero, no chunk of a correct program is reported; as long as sizes are   *)
(* also whole granules, users reach their chunks and nothing after them.   *)
(***************************************************************************)
EXTENDS TaggedChunk, TLAPS

\* What the code takes for granted of gentag (combined.h:1237).
NonzeroTags == 0 \notin GenTags

\* What storeTags() takes for granted of its arguments on Zimte: whole granules,
\* and a pointer tag that extractTag() does not see.
WholeGranules == TagShift = 60 /\ \A size \in Sizes : size % Granule = 0

Granules(b) == 0 .. GranuleOf(BlockEnds[b]) - 1

States == {"Invalid", "Available", "Allocated", "Quarantined"}

Headers == [state : States, size : Nat, start : Nat, key : Tag]

(***************************************************************************)
(* The parts of the inductive invariant, of a block b with tags t, header  *)
(* h, the tag q of the pointer that the quarantine holds and the tag p of  *)
(* the pointer that was returned.                                          *)
(***************************************************************************)
\* A chunk lies in its block, behind its header, on granules.
Placed(b, t, h) ==
  /\ t \in [Granules(b) -> Tag]
  /\ h \in Headers
  /\ h.start % Granule = 0 /\ h.start >= Granule
  /\ h.start + h.size =< BlockEnds[b]
  /\ WholeGranules => h.size % Granule = 0

\* The header was stored through the pointer that will be used to load it, and
\* whether that has the header's tag depends on the pointer of the user only.
KeyMatches(b, h, q, p) ==
  /\ q \in Tag /\ p \in Tag
  /\ h.state = "Allocated" =>
       /\ h.key = IF p = 0 THEN 2 ELSE 0
       /\ ~Primary(b) => p = 0
       /\ tagging /\ Primary(b) => p # 0
  /\ h.state = "Quarantined" => Primary(b) /\ h.key = q /\ (tagging => q = 0)

\* A primary block begins with tag zero; its chunk has a header of tag zero before
\* it, its own tag, and tag zero after it.
PrimaryTags(b, t, h, p) ==
  /\ t[0] = 0
  /\ h.state \in {"Allocated", "Quarantined"} => t[GranuleOf(h.start) - 1] = 0
  /\ h.state = "Allocated" =>
       /\ \A g \in Granules(b) :
            h.start =< g * Granule /\ g * Granule < h.start + h.size => t[g] = p
       /\ h.start + h.size < BlockEnds[b] => t[GranuleOf(h.start + h.size)] = 0

\* A secondary block has the header's tag up to its chunk while it is allocated.
SecondaryTags(b, t, h) ==
  \A g \in Granules(b) :
    t[g] = IF h.state = "Allocated" /\ g * Granule < h.start THEN 2 ELSE 0

TagsMatch(b, t, h, p) ==
  WholeGranules /\ tagging =>
    IF Primary(b) THEN PrimaryTags(b, t, h, p) ELSE SecondaryTags(b, t, h)

Sound(b, t, h, q, p) == Placed(b, t, h) /\ KeyMatches(b, h, q, p) /\ TagsMatch(b, t, h, p)

\* The inductive invariant.
IInv ==
  /\ tags = [b \in Blocks |-> tags[b]] /\ header = [b \in Blocks |-> header[b]]
  /\ held = [b \in Blocks |-> held[b]] /\ ptag = [b \in Blocks |-> ptag[b]]
  /\ tagging \in BOOLEAN /\ reported = FALSE
  /\ \A b \in Blocks : Sound(b, tags[b], header[b], held[b], ptag[b])
-----------------------------------------------------------------------------
(***************************************************************************)
(* The tag primitives.                                                     *)
(***************************************************************************)
LEMMA Remainder == ASSUME NEW i \in Nat, NEW n \in Nat \ {0} PROVE i % n \in 0 .. n - 1
  BY Z3

LEMMA SmallRemainder == ASSUME NEW n \in Nat \ {0}, NEW i \in 0 .. n - 1 PROVE i % n = i
  BY Z3

\* addFixedTag() stays a tag; zero gives the header tag, and adds nothing.
LEMMA AddedTags ==
  ASSUME NEW t \in Tag, NEW u \in Tag
  PROVE  /\ (t + u) % NumTags \in Tag
         /\ (0 + u) % NumTags = u /\ (t + 0) % NumTags = t
         /\ 2 \in Tag /\ 0 \in Tag
<1> USE ZimteAssumption DEF Tag
<1>1. t + u \in Nat /\ NumTags \in Nat \ {0}
  OBVIOUS
<1>2. (t + u) % NumTags \in 0 .. NumTags - 1
  BY <1>1, Remainder
<1>3. u % NumTags = u /\ t % NumTags = t
  BY <1>1, SmallRemainder
<1>4. QED
  BY <1>2, <1>3

\* The granules that storeTags() goes over.
InRange(g, begin, end) == GranuleOf(begin) =< g /\ g * Granule < end

\* storeTags(): the granules of the range get the pointer's tag.
LEMMA StoredTags ==
  \A b, t, off, p, end :
    b \in Blocks /\ t \in [Granules(b) -> Tag] /\ p \in Tag =>
      LET s == storeTags(t, Pointer(b, off, p), end)
      IN  /\ s \in [Granules(b) -> Tag]
          /\ TagShift = 60 => \A g \in Granules(b) : s[g] = IF InRange(g, off, end) THEN p ELSE t[g]
<1> SUFFICES ASSUME NEW b \in Blocks, NEW t \in [Granules(b) -> Tag], NEW p \in Tag, NEW off, NEW end
             PROVE  LET s == storeTags(t, Pointer(b, off, p), end)
                    IN  /\ s \in [Granules(b) -> Tag]
                        /\ TagShift = 60 => \A g \in Granules(b) :
                             s[g] = IF InRange(g, off, end) THEN p ELSE t[g]
  OBVIOUS
<1> DEFINE begin == Pointer(b, off, p)
           new   == addFixedTag(begin, extractTag(begin)).tag
<1>1. extractTag(begin) \in Tag /\ (TagShift = 60 => extractTag(begin) = 0)
  BY AddedTags DEF extractTag, Pointer
<1>2. new = (p + extractTag(begin)) % NumTags
  BY DEF addFixedTag, Pointer
<1>3. new \in Tag /\ (TagShift = 60 => new = p)
  BY <1>1, <1>2, AddedTags
<1>4. storeTags(t, begin, end) =
        [g \in Granules(b) |-> IF InRange(g, off, end) THEN new ELSE t[g]]
  BY DEF storeTags, Pointer, InRange
<1> HIDE DEF new
<1>5. QED
  BY <1>3, <1>4

\* storeEndMarker(): one granule of tag zero, unless the chunk fills its block.
LEMMA EndMarked ==
  \A b, t, off, p :
    b \in Blocks /\ t \in [Granules(b) -> Tag] /\ p \in Tag =>
      LET s == storeEndMarker(t, Pointer(b, off, p))
      IN  /\ s \in [Granules(b) -> Tag]
          /\ \A g \in Granules(b) :
               s[g] = IF off # BlockEnds[b] /\ g = GranuleOf(off) THEN 0 ELSE t[g]
<1> SUFFICES ASSUME NEW b \in Blocks, NEW t \in [Granules(b) -> Tag], NEW p \in Tag, NEW off
             PROVE  LET s == storeEndMarker(t, Pointer(b, off, p))
                    IN  /\ s \in [Granules(b) -> Tag]
                        /\ \A g \in Granules(b) :
                             s[g] = IF off # BlockEnds[b] /\ g = GranuleOf(off) THEN 0 ELSE t[g]
  OBVIOUS
<1> DEFINE end == Pointer(b, off, p)
<1>1. 0 \in Tag
  BY AddedTags
<1>2. end.block = b /\ end.off = off
      /\ untagPointer(end).off = off /\ untagPointer(end).tag = 0
  BY DEF Pointer, untagPointer
<1>3. storeTag(t, untagPointer(end)) = [t EXCEPT ![GranuleOf(off)] = 0]
  BY <1>2 DEF storeTag
<1>4. storeEndMarker(t, end) = IF off # BlockEnds[b] THEN [t EXCEPT ![GranuleOf(off)] = 0] ELSE t
  BY <1>2, <1>3 DEF storeEndMarker
<1>5. QED
  BY <1>1, <1>4

(***************************************************************************)
(* The parts of the operations.                                            *)
(***************************************************************************)
\* The arithmetic of granules.
LEMMA GranuleArithmetic ==
  ASSUME NEW o \in Nat
  PROVE  /\ GranuleOf(o) \in Nat
         /\ o % Granule = 0 => o = GranuleOf(o) * Granule /\ roundUp(o) = o
         /\ o >= Granule => GranuleOf(o) >= 1
  BY Z3 DEF GranuleOf, Granule, roundUp

\* The block has room for a header and at least a granule.
LEMMA BlockRoom ==
  ASSUME NEW b \in Blocks
  PROVE  /\ BlockEnds[b] \in Nat /\ BlockEnds[b] >= 2 * Granule
         /\ BlockEnds[b] = GranuleOf(BlockEnds[b]) * Granule
         /\ GranuleOf(BlockEnds[b]) \in Nat
  BY TaggedChunkAssumption, GranuleArithmetic DEF Granule

\* prepareTaggedChunk(): header granule, chunk, end marker.
LEMMA PreparedTags ==
  ASSUME NEW b \in Blocks, Primary(b), NEW t \in [Granules(b) -> Tag],
         NEW start \in Nat, start % Granule = 0, start >= Granule,
         NEW size \in Nat, start + size =< BlockEnds[b], NEW p \in Tag
  PROVE  LET s == prepareTaggedChunk(t, Pointer(b, start, p), size)
             h == Header("Allocated", size, start, 0)
         IN  /\ s \in [Granules(b) -> Tag]
             /\ TagShift = 60 /\ size % Granule = 0 /\ t[0] = 0 => PrimaryTags(b, s, h, p)
<1> DEFINE begin == Pointer(b, start, p)
           t0 == storeTag(t, Pointer(b, start - Granule, 0))
           e == start + size
           t1 == storeTags(t0, begin, e)
           t2 == storeEndMarker(t1, Pointer(b, e, p))
<1>0. e \in Nat
  OBVIOUS
<1>1. begin.block = b /\ begin.off = start
      /\ storeTagsResult(begin, start + size) = Pointer(b, start + size, p)
  BY DEF Pointer, storeTagsResult
<1>2. prepareTaggedChunk(t, begin, size) = t2
  BY <1>1, Zenon DEF prepareTaggedChunk
<1>3. t0 = [t EXCEPT ![GranuleOf(start - Granule)] = 0]
  BY DEF storeTag, Pointer
<1>4. t0 \in [Granules(b) -> Tag]
  BY <1>3, AddedTags
<1> HIDE DEF t0, e
<1>5. /\ t1 \in [Granules(b) -> Tag]
      /\ TagShift = 60 => \A g \in Granules(b) :
           t1[g] = IF InRange(g, start, e) THEN p ELSE t0[g]
  BY <1>4, StoredTags
<1> HIDE DEF t1
<1>6. /\ t2 \in [Granules(b) -> Tag]
      /\ \A g \in Granules(b) :
           t2[g] = IF e # BlockEnds[b] /\ g = GranuleOf(e) THEN 0 ELSE t1[g]
  BY <1>5, EndMarked
<1> HIDE DEF t2
<1>7. ASSUME TagShift = 60, size % Granule = 0, t[0] = 0
      PROVE  PrimaryTags(b, t2, Header("Allocated", size, start, 0), p)
  <2> DEFINE G == GranuleOf(start)
             E == GranuleOf(e)
             N == GranuleOf(BlockEnds[b])
  <2>1. /\ G \in Nat /\ E \in Nat /\ N \in Nat /\ G >= 1
        /\ start = 2 * G /\ e = 2 * E /\ e =< BlockEnds[b] /\ e >= start /\ BlockEnds[b] = 2 * N
        /\ GranuleOf(start - Granule) = G - 1 /\ N >= 2
    BY <1>7, BlockRoom, Z3 DEF GranuleOf, Granule, e
  <2>2. G =< E /\ E =< N /\ Granules(b) = 0 .. N - 1
    BY <2>1 DEF Granules
  <2>3. \A g \in Granules(b) : t0[g] = IF g = G - 1 THEN 0 ELSE t[g]
    BY <1>3, <2>1, <2>2
  <2>4. \A g \in Granules(b) : t1[g] = IF G =< g /\ g < E THEN p ELSE t0[g]
    BY <1>5, <1>7, <2>1, <2>2 DEF InRange, Granule
  <2>5. \A g \in Granules(b) : t2[g] = IF E # N /\ g = E THEN 0 ELSE t1[g]
    BY <1>6, <2>1, <2>2
  <2> HIDE DEF G, E, N
  <2>6. t2[0] = 0 /\ (G - 1 \in Granules(b) => t2[G - 1] = 0)
    BY <1>7, <2>1, <2>2, <2>3, <2>4, <2>5
  <2>7. ASSUME NEW g \in Granules(b), G =< g, g < E
        PROVE  t2[g] = p
    BY <2>1, <2>2, <2>4, <2>5, <2>7
  <2>8. E < N => t2[E] = 0
    BY <2>1, <2>2, <2>5
  <2>9. G - 1 \in Granules(b)
    BY <2>1, <2>2
  <2>10. QED
    BY <2>1, <2>2, <2>6, <2>7, <2>8, <2>9, SMTT(30), ZenonT(20) DEF PrimaryTags, Header, Granule, G, E, e
<1>8. QED
  BY <1>2, <1>6, <1>7

\* resizeTaggedChunk(): a chunk that grows gets its tags, and a new end marker.
LEMMA ResizedTags ==
  ASSUME NEW b \in Blocks, NEW t \in [Granules(b) -> Tag], NEW p \in Tag,
         NEW start \in Nat, start >= Granule, start % Granule = 0,
         NEW osize \in Nat, NEW size \in Nat, start + size =< BlockEnds[b]
  PROVE  LET s == resizeTaggedChunk(t, Pointer(b, start, p), start + osize, start + size)
         IN  /\ s \in [Granules(b) -> Tag]
             /\ /\ TagShift = 60 /\ size % Granule = 0 /\ osize % Granule = 0
                /\ start + osize =< BlockEnds[b]
                /\ PrimaryTags(b, t, Header("Allocated", osize, start, 0), p)
                => PrimaryTags(b, s, Header("Allocated", size, start, 0), p)
<1> DEFINE old == start + osize
           new == start + size
           begin == Pointer(b, roundUp(old), p)
           t1 == storeTags(t, begin, new)
           s == resizeTaggedChunk(t, Pointer(b, start, p), old, new)
           down == storeEndMarker(t, Pointer(b, roundUp(new), p))
           up   == storeEndMarker(t1, Pointer(b, new, p))
<1>0. old \in Nat /\ new \in Nat /\ old >= start /\ new >= start /\ new =< BlockEnds[b]
  OBVIOUS
<1>1. s = IF roundUp(old) >= new THEN down ELSE up
  <2>1. \A x, y : [Pointer(b, x, p) EXCEPT !.off = y] = Pointer(b, y, p)
    BY DEF Pointer
  <2>2. storeTagsResult(begin, new) = Pointer(b, new, p)
    BY <2>1 DEF storeTagsResult
  <2>3. QED
    BY <2>1, <2>2, Zenon DEF resizeTaggedChunk
<1> HIDE DEF old, new
<1>2. /\ t1 \in [Granules(b) -> Tag]
      /\ TagShift = 60 => \A g \in Granules(b) :
           t1[g] = IF InRange(g, roundUp(old), new) THEN p ELSE t[g]
  BY StoredTags
<1>3. /\ down \in [Granules(b) -> Tag]
      /\ \A g \in Granules(b) :
           down[g] = IF roundUp(new) # BlockEnds[b] /\ g = GranuleOf(roundUp(new)) THEN 0 ELSE t[g]
  BY EndMarked
<1> HIDE DEF t1
<1>4. /\ up \in [Granules(b) -> Tag]
      /\ \A g \in Granules(b) :
           up[g] = IF new # BlockEnds[b] /\ g = GranuleOf(new) THEN 0 ELSE t1[g]
  BY <1>2, EndMarked
<1> HIDE DEF down, up, s
<1>5. ASSUME TagShift = 60, size % Granule = 0, osize % Granule = 0, old =< BlockEnds[b],
             PrimaryTags(b, t, Header("Allocated", osize, start, 0), p)
      PROVE  PrimaryTags(b, s, Header("Allocated", size, start, 0), p)
  <2> DEFINE G == GranuleOf(start)
             O == GranuleOf(old)
             E == GranuleOf(new)
             N == GranuleOf(BlockEnds[b])
  <2>1. old % Granule = 0 /\ new % Granule = 0
    BY <1>5, Z3 DEF Granule, old, new
  <2>2. /\ G \in Nat /\ O \in Nat /\ E \in Nat /\ N \in Nat /\ G >= 1
        /\ start = 2 * G /\ old = 2 * O /\ new = 2 * E /\ BlockEnds[b] = 2 * N
        /\ roundUp(old) = old /\ roundUp(new) = new
    <3>1. G \in Nat /\ start = G * Granule /\ G >= 1
      BY GranuleArithmetic
    <3>2. O \in Nat /\ old = O * Granule /\ roundUp(old) = old
      BY <1>0, <2>1, GranuleArithmetic
    <3>3. E \in Nat /\ new = E * Granule /\ roundUp(new) = new
      BY <1>0, <2>1, GranuleArithmetic
    <3>4. N \in Nat /\ BlockEnds[b] = N * Granule
      BY BlockRoom
    <3> HIDE DEF G, O, E, N
    <3>5. QED
      BY <3>1, <3>2, <3>3, <3>4 DEF Granule
  <2> HIDE DEF G, O, E, N
  <2>3. G =< E /\ E =< N /\ G =< O /\ O =< N
    BY <1>0, <1>5, <2>2
  <2>4. Granules(b) = 0 .. N - 1
    BY DEF Granules, N
  <2>5. /\ t[0] = 0 /\ t[G - 1] = 0
        /\ \A g \in Granules(b) : start =< g * Granule /\ g * Granule < old => t[g] = p
    BY <1>5 DEF PrimaryTags, Header, G, old
  <2>6. \A g \in Granules(b) : G =< g /\ g < O => t[g] = p
    BY <2>2, <2>4, <2>5 DEF Granule
  <2>7. \A g \in Granules(b) : t1[g] = IF O =< g /\ g < E THEN p ELSE t[g]
    <3> SUFFICES ASSUME NEW g \in Granules(b)
                 PROVE  t1[g] = IF O =< g /\ g < E THEN p ELSE t[g]
      OBVIOUS
    <3>1. InRange(g, roundUp(old), new) <=> O =< g /\ g < E
      BY <2>2, <2>4 DEF InRange, Granule, O
    <3>2. QED
      BY <1>2, <1>5, <3>1
  <2>8. \A g \in Granules(b) :
          s[g] = IF E # N /\ g = E THEN 0 ELSE IF O =< g /\ g < E THEN p ELSE t[g]
    <3> SUFFICES ASSUME NEW g \in Granules(b)
                 PROVE  s[g] = IF E # N /\ g = E THEN 0 ELSE IF O =< g /\ g < E THEN p ELSE t[g]
      OBVIOUS
    <3>1. GranuleOf(roundUp(new)) = E /\ GranuleOf(new) = E /\ (new # BlockEnds[b] <=> E # N)
      BY <2>2 DEF E
    <3>2. CASE old >= new
      BY <1>1, <1>3, <2>2, <2>4, <3>1, <3>2
    <3>3. CASE ~(old >= new)
      BY <1>1, <1>4, <2>2, <2>7, <3>1, <3>3
    <3>4. QED
      BY <3>2, <3>3
  <2>9. s[0] = 0 /\ s[G - 1] = 0
    BY <2>2, <2>3, <2>4, <2>5, <2>8, BlockRoom, SMTT(30), ZenonT(20) DEF Granule
  <2>10. ASSUME NEW g \in Granules(b), G =< g, g < E
         PROVE  s[g] = p
    BY <2>2, <2>3, <2>4, <2>6, <2>8, <2>10
  <2>11. E < N => s[E] = 0
    BY <2>2, <2>3, <2>4, <2>8
  <2>12. \A g \in Granules(b) : start =< g * Granule /\ g * Granule < start + size => s[g] = p
    BY <2>2, <2>4, <2>10 DEF Granule, new
  <2>13. start + size < BlockEnds[b] => s[GranuleOf(start + size)] = 0
    BY <2>2, <2>11 DEF new, E
  <2>14. QED
    BY <2>9, <2>12, <2>13 DEF PrimaryTags, Header, G
<1>6. s \in [Granules(b) -> Tag]
  BY <1>1, <1>3, <1>4
<1>7. QED
  BY <1>5, <1>6 DEF s, old, new

(***************************************************************************)
(* The operations leave a sound block sound.                               *)
(***************************************************************************)
\* getHeaderTaggedPointer() of what the user holds.
LEMMA HeaderPointer ==
  ASSUME NEW b, NEW off, NEW p \in Tag
  PROVE  /\ getHeaderTaggedPointer(Pointer(b, off, p)) = Pointer(b, off, IF p = 0 THEN 2 ELSE 0)
         /\ addHeaderTag(Pointer(b, off, 0)) = Pointer(b, off, 2)
         /\ untagPointer(Pointer(b, off, p)) = Pointer(b, off, 0)
<1>1. \A x, y : [Pointer(b, off, x) EXCEPT !.tag = y] = Pointer(b, off, y)
  BY DEF Pointer
<1>2. \A x : Pointer(b, off, x).tag = x
  BY DEF Pointer
<1>3. untagPointer(Pointer(b, off, p)) = Pointer(b, off, 0)
  BY <1>1 DEF untagPointer
<1>4. (0 + 2) % NumTags = 2
  BY AddedTags
<1>5. addHeaderTag(Pointer(b, off, 0)) = Pointer(b, off, 2)
  <2>1. addHeaderTag(Pointer(b, off, 0)) = [Pointer(b, off, 0) EXCEPT !.tag = (0 + 2) % NumTags]
    BY <1>2 DEF addHeaderTag, addFixedTag
  <2>2. QED
    BY <1>1, <1>4, <2>1
<1>6. (Pointer(b, off, 0) = Pointer(b, off, p)) <=> p = 0
  BY <1>2
<1>7. QED
  BY <1>3, <1>5, <1>6, Zenon DEF getHeaderTaggedPointer

\* selectRandomTag(): the pointer under a tag that gentag yields.
LEMMA RandomTags ==
  ASSUME NEW b, NEW off, NEW p, NEW m, NEW begin \in selectRandomTag(Pointer(b, off, p), m)
  PROVE  \E g \in GenTags : begin = Pointer(b, off, g)
  BY DEF selectRandomTag, Pointer

\* initChunk() and initChunkWithMemoryTagging() of a chunk in a free block.
LEMMA InitSound ==
  ASSUME NonzeroTags,
         NEW b \in Blocks, NEW t, NEW h, NEW p, NEW q \in Tag,
         Placed(b, t, h), TagsMatch(b, t, h, p), h.state \in {"Invalid", "Available"},
         NEW start \in Nat, start % Granule = 0, start >= Granule,
         NEW size \in Sizes, start + size =< BlockEnds[b], NEW g \in GenTags
  PROVE  LET c == InitChunk(t, Pointer(b, start, g), size)
         IN  Sound(b, c.tags, c.header, q, c.ptag)
<1> DEFINE begin == Pointer(b, start, g)
           c == InitChunk(t, begin, size)
<1>1. /\ t \in [Granules(b) -> Tag] /\ size \in Nat /\ (WholeGranules => size % Granule = 0)
      /\ g \in Tag /\ g # 0
  BY TaggedChunkAssumption, ZimteAssumption DEF Placed, WholeGranules, NonzeroTags, Tag
<1>2. begin.block = b /\ begin.off = start /\ begin.tag = g
  BY DEF Pointer
<1>3. /\ untagPointer(begin) = Pointer(b, start, 0)
      /\ addHeaderTag(untagPointer(begin)).tag = 2
      /\ addHeaderTag(Pointer(b, 0, 0)) = Pointer(b, 0, 2)
  <2>1. \A x : Pointer(b, start, x).tag = x
    BY DEF Pointer
  <2>2. QED
    BY <1>1, <2>1, HeaderPointer, AddedTags
<1>4. loadTag(t, untagPointer(begin)) = untagPointer(begin)
  BY DEF loadTag
<1>5. \A k \in Tag : Placed(b, t, Header("Allocated", size, start, k))
  BY <1>1 DEF Placed, Headers, Header, States
<1>6. 0 \in Tag /\ 2 \in Tag
  BY AddedTags
<1>7. CASE ~tagging
  <2>1. c = [tags |-> t, ptag |-> 0, header |-> Header("Allocated", size, start, 2)]
    BY <1>2, <1>3, <1>7, Zenon DEF InitChunk
  <2>2. c.tags = t /\ c.ptag = 0 /\ c.header = Header("Allocated", size, start, 2)
    BY <2>1
  <2>3. KeyMatches(b, Header("Allocated", size, start, 2), q, 0)
    BY <1>6, <1>7 DEF KeyMatches, Header
  <2>4. QED
    BY <1>5, <1>6, <1>7, <2>2, <2>3 DEF Sound, TagsMatch
<1>8. CASE tagging /\ ~Primary(b)
  <2> DEFINE s == storeTags(t, Pointer(b, 0, 2), start)
             h2 == Header("Allocated", size, start, 2)
  <2>1. c = [tags |-> s, ptag |-> 0, header |-> h2]
    BY <1>2, <1>3, <1>8, Zenon DEF InitChunk
  <2>2. c.tags = s /\ c.ptag = 0 /\ c.header = h2
    BY <2>1
  <2>3. KeyMatches(b, h2, q, 0)
    BY <1>6, <1>8 DEF KeyMatches, Header
  <2>4. /\ s \in [Granules(b) -> Tag]
        /\ TagShift = 60 => \A i \in Granules(b) : s[i] = IF InRange(i, 0, start) THEN 2 ELSE t[i]
    BY <1>1, <1>6, StoredTags
  <2>5. ASSUME WholeGranules
        PROVE  SecondaryTags(b, s, h2)
    <3>1. \A i \in Granules(b) : t[i] = 0
      BY <1>8, <2>5 DEF TagsMatch, SecondaryTags
    <3>2. \A i \in Granules(b) : InRange(i, 0, start) <=> i * Granule < start
      BY BlockRoom, GranuleArithmetic DEF InRange, Granules, GranuleOf, Granule
    <3> HIDE DEF s
    <3>3. QED
      BY <2>4, <2>5, <3>1, <3>2 DEF SecondaryTags, Header, WholeGranules
  <2>6. Placed(b, s, h2)
    BY <1>5, <1>6, <2>4 DEF Placed
  <2>7. QED
    BY <1>8, <2>2, <2>3, <2>5, <2>6 DEF Sound, TagsMatch
<1>9. CASE tagging /\ Primary(b)
  <2> DEFINE s == prepareTaggedChunk(t, begin, size)
             h0 == Header("Allocated", size, start, 0)
  <2>1. c = [tags |-> s, ptag |-> g, header |-> h0]
    BY <1>2, <1>4, <1>9, Zenon DEF InitChunk
  <2>2. c.tags = s /\ c.ptag = g /\ c.header = h0
    BY <2>1
  <2>3. KeyMatches(b, h0, q, g)
    BY <1>1, <1>6, <1>9 DEF KeyMatches, Header
  <2>4. /\ s \in [Granules(b) -> Tag]
        /\ TagShift = 60 /\ size % Granule = 0 /\ t[0] = 0 => PrimaryTags(b, s, h0, g)
    BY <1>1, <1>9, PreparedTags
  <2>5. WholeGranules => PrimaryTags(b, s, h0, g)
    BY <1>1, <1>9, <2>4 DEF TagsMatch, PrimaryTags, WholeGranules
  <2>6. Placed(b, s, h0)
    BY <1>5, <1>6, <2>4 DEF Placed
  <2>7. QED
    BY <1>9, <2>2, <2>3, <2>5, <2>6 DEF Sound, TagsMatch
<1>10. QED
  BY <1>7, <1>8, <1>9

\* The pointer that deallocate(), reallocate() and the quarantine make is the one
\* of the checksum.
LEMMA KeyFound ==
  ASSUME NEW b \in Blocks, NEW t, NEW h, NEW q, NEW p, Sound(b, t, h, q, p)
  PROVE  /\ h.state = "Allocated" =>
              getHeaderTaggedPointer(Pointer(b, h.start, p)) = Pointer(b, h.start, h.key)
         /\ h.state = "Quarantined" => h.key = q
         /\ h.start \in Nat /\ h.size \in Nat /\ h.key \in Tag
  BY HeaderPointer DEF Sound, Placed, KeyMatches, Headers

\* quarantineOrDeallocateChunk(), with the header's pointer as it is loaded.
LEMMA FreeSound ==
  ASSUME NEW b \in Blocks, NEW t, NEW h, NEW q, NEW p, Sound(b, t, h, q, p),
         h.state = "Allocated", NEW g \in GenTags
  PROVE  LET c == FreeChunk(t, Pointer(b, h.start, h.key), Pointer(b, h.start, g), h.size)
         IN  Sound(b, c.tags, c.header, c.held, p)
<1> DEFINE start == h.start
           key   == h.key
           size  == h.size
           c == FreeChunk(t, Pointer(b, start, key), Pointer(b, start, g), size)
           state == IF Bypass(b, size) THEN "Available" ELSE "Quarantined"
           h2 == Header(state, size, start, key)
           q2 == IF tagging \/ Bypass(b, size) THEN 0 ELSE key
           t2 == CASE tagging /\ Primary(b)  -> storeTags(t, Pointer(b, start, g), start + size)
                   [] tagging /\ ~Primary(b) -> storeTags(t, Pointer(b, 0, 0), start)
                   [] OTHER -> t
<1>1. c.header = h2 /\ c.held = q2 /\ c.tags = t2
  BY DEF FreeChunk, Pointer
<1>2. /\ start \in Nat /\ start % Granule = 0 /\ start >= Granule /\ size \in Nat
      /\ start + size =< BlockEnds[b] /\ key \in Tag /\ t \in [Granules(b) -> Tag]
      /\ p \in Tag /\ 0 \in Tag /\ g \in Tag
  BY AddedTags, ZimteAssumption DEF Sound, Placed, KeyMatches, Headers, Tag
<1>3. /\ h2.state = state /\ h2.size = size /\ h2.start = start /\ h2.key = key
      /\ state \in {"Available", "Quarantined"}
  BY DEF Header
<1>4. ASSUME NEW s \in [Granules(b) -> Tag]
      PROVE  Placed(b, s, h2)
  <2>1. WholeGranules => size % Granule = 0
    BY DEF Sound, Placed
  <2>2. h2 \in Headers
    BY <1>2, <1>3 DEF Header, Headers, States
  <2> HIDE DEF h2, start, size
  <2>3. QED
    BY <1>2, <1>3, <2>1, <2>2 DEF Placed
<1>5. KeyMatches(b, h2, q2, p)
  <2>1. state = "Quarantined" => Primary(b) /\ ~Bypass(b, size)
    BY DEF Bypass
  <2>2. tagging /\ Primary(b) => key = 0
    BY DEF Sound, KeyMatches
  <2>3. QED
    BY <1>2, <1>3, <2>1, <2>2 DEF KeyMatches
<1>6. CASE tagging /\ Primary(b)
  <2> DEFINE s == storeTags(t, Pointer(b, start, g), start + size)
  <2>1. /\ s \in [Granules(b) -> Tag]
        /\ TagShift = 60 => \A i \in Granules(b) :
             s[i] = IF InRange(i, start, start + size) THEN g ELSE t[i]
    BY <1>2, StoredTags
  <2>2. t2 = s
    BY <1>6
  <2>3. ASSUME WholeGranules PROVE PrimaryTags(b, s, h2, p)
    <3>1. t[0] = 0 /\ t[GranuleOf(start) - 1] = 0
      BY <1>6, <2>3 DEF Sound, TagsMatch, PrimaryTags
    <3>2. GranuleOf(start) \in Nat /\ GranuleOf(start) >= 1 /\ start = 2 * GranuleOf(start)
      BY <1>2, GranuleArithmetic DEF Granule
    <3>3. GranuleOf(BlockEnds[b]) \in Nat /\ BlockEnds[b] = 2 * GranuleOf(BlockEnds[b])
      BY BlockRoom DEF Granule
    <3>4. 0 \in Granules(b) /\ GranuleOf(start) - 1 \in Granules(b)
      BY <1>2, <3>2, <3>3 DEF Granules
    <3>5. ~InRange(0, start, start + size) /\ ~InRange(GranuleOf(start) - 1, start, start + size)
      BY <3>2 DEF InRange
    <3> HIDE DEF s, h2, start
    <3>6. QED
      BY <1>3, <2>1, <2>3, <3>1, <3>4, <3>5 DEF PrimaryTags, WholeGranules
  <2> HIDE DEF s, h2, q2, t2
  <2>4. QED
    BY <1>1, <1>4, <1>5, <1>6, <2>1, <2>2, <2>3 DEF Sound, TagsMatch
<1>7. CASE tagging /\ ~Primary(b)
  <2> DEFINE s == storeTags(t, Pointer(b, 0, 0), start)
  <2>1. /\ s \in [Granules(b) -> Tag]
        /\ TagShift = 60 => \A i \in Granules(b) : s[i] = IF InRange(i, 0, start) THEN 0 ELSE t[i]
    BY <1>2, StoredTags
  <2>2. t2 = s
    BY <1>7
  <2>3. ASSUME WholeGranules PROVE SecondaryTags(b, s, h2)
    <3>1. \A i \in Granules(b) : t[i] = IF i * Granule < start THEN 2 ELSE 0
      BY <1>7, <2>3 DEF Sound, TagsMatch, SecondaryTags
    <3>2. \A i \in Granules(b) : InRange(i, 0, start) <=> i * Granule < start
      BY BlockRoom, GranuleArithmetic DEF InRange, Granules, GranuleOf, Granule
    <3> HIDE DEF s, h2, start
    <3>3. QED
      BY <1>3, <2>1, <2>3, <3>1, <3>2 DEF SecondaryTags, WholeGranules
  <2> HIDE DEF s, h2, q2, t2
  <2>4. QED
    BY <1>1, <1>4, <1>5, <1>7, <2>1, <2>2, <2>3 DEF Sound, TagsMatch
<1>8. CASE ~tagging
  <2>1. t2 = t
    BY <1>8
  <2> HIDE DEF h2, q2, t2
  <2>2. QED
    BY <1>1, <1>2, <1>4, <1>5, <1>8, <2>1 DEF Sound, TagsMatch
<1>9. QED
  BY <1>6, <1>7, <1>8

\* reallocate() in place.
LEMMA ResizeSound ==
  ASSUME NEW b \in Blocks, NEW t, NEW h, NEW q, NEW p, Sound(b, t, h, q, p),
         h.state = "Allocated", NEW size \in Sizes, h.start + size =< BlockEnds[b]
  PROVE  Sound(b, IF tagging /\ Primary(b)
                  THEN resizeTaggedChunk(t, Pointer(b, h.start, p), h.start + h.size, h.start + size)
                  ELSE t,
               [h EXCEPT !.size = size], q, p)
<1> DEFINE h2 == [h EXCEPT !.size = size]
           s == resizeTaggedChunk(t, Pointer(b, h.start, p), h.start + h.size, h.start + size)
<1>1. /\ h \in Headers /\ size \in Nat /\ (WholeGranules => size % Granule = 0 /\ h.size % Granule = 0)
      /\ t \in [Granules(b) -> Tag] /\ p \in Tag
      /\ h.start \in Nat /\ h.size \in Nat /\ h.start % Granule = 0 /\ h.start >= Granule
      /\ h.start + h.size =< BlockEnds[b]
  BY TaggedChunkAssumption DEF Sound, Placed, KeyMatches, WholeGranules, Headers
<1>2. /\ h2 \in Headers /\ h2.state = h.state /\ h2.size = size
      /\ h2.start = h.start /\ h2.key = h.key
  BY <1>1 DEF Headers
<1> HIDE DEF h2
<1>3. \A x \in [Granules(b) -> Tag] : Placed(b, x, h2)
  BY <1>1, <1>2 DEF Placed
<1>4. KeyMatches(b, h2, q, p)
  BY <1>2 DEF Sound, KeyMatches
<1>5. CASE tagging /\ Primary(b)
  <2> DEFINE plain(n) == Header("Allocated", n, h.start, 0)
  <2>1. /\ s \in [Granules(b) -> Tag]
        /\ /\ TagShift = 60 /\ size % Granule = 0 /\ h.size % Granule = 0
           /\ h.start + h.size =< BlockEnds[b] /\ PrimaryTags(b, t, plain(h.size), p)
           => PrimaryTags(b, s, plain(size), p)
    BY <1>1, ResizedTags
  <2>2. \A n : plain(n).state = "Allocated" /\ plain(n).size = n /\ plain(n).start = h.start
    BY DEF Header
  <2> HIDE DEF plain, s
  <2>3. ASSUME WholeGranules PROVE PrimaryTags(b, s, h2, p)
    <3>1. PrimaryTags(b, t, h, p)
      BY <1>5, <2>3 DEF Sound, TagsMatch
    <3>2. PrimaryTags(b, t, plain(h.size), p)
      BY <2>2, <3>1 DEF PrimaryTags
    <3>3. PrimaryTags(b, s, plain(size), p)
      BY <1>1, <2>1, <2>3, <3>2 DEF WholeGranules
    <3>4. QED
      BY <1>2, <2>2, <3>3 DEF PrimaryTags
  <2>4. Sound(b, s, h2, q, p)
    BY <1>3, <1>4, <1>5, <2>1, <2>3 DEF Sound, TagsMatch
  <2>5. QED
    BY <1>5, <2>4, Zenon DEF s, h2
<1>6. CASE ~(tagging /\ Primary(b))
  <2>1. TagsMatch(b, t, h2, p)
    BY <1>2, <1>6 DEF Sound, TagsMatch, SecondaryTags
  <2>2. Sound(b, t, h2, q, p)
    BY <1>1, <1>3, <1>4, <2>1 DEF Sound
  <2>3. QED
    BY <1>6, <2>2, Zenon DEF h2
<1>7. QED
  BY <1>5, <1>6
-----------------------------------------------------------------------------
(***************************************************************************)
(* The steps.                                                              *)
(***************************************************************************)
\* A step that leaves every block sound.
LEMMA EveryBlockStep ==
  ASSUME IInv, tagging' = tagging, reported' = reported,
         \A b \in Blocks : Sound(b, tags'[b], header'[b], held'[b], ptag'[b]),
         tags' = [b \in Blocks |-> tags'[b]], header' = [b \in Blocks |-> header'[b]],
         held' = [b \in Blocks |-> held'[b]], ptag' = [b \in Blocks |-> ptag'[b]]
  PROVE  IInv'
<1>1. ASSUME NEW b \in Blocks
      PROVE  Sound(b, tags[b], header[b], held[b], ptag[b])'
  BY DEF Sound, KeyMatches, TagsMatch
<1>2. QED
  BY <1>1 DEF IInv

\* A step that changes block b only, and leaves it sound.
LEMMA BlockStep ==
  ASSUME IInv, tagging' = tagging, reported' = reported, NEW b \in Blocks,
         NEW t, NEW h, NEW q, NEW p, Sound(b, t, h, q, p),
         tags' = [tags EXCEPT ![b] = t], header' = [header EXCEPT ![b] = h],
         held' = [held EXCEPT ![b] = q], ptag' = [ptag EXCEPT ![b] = p]
  PROVE  IInv'
<1>1. ASSUME NEW c \in Blocks
      PROVE  Sound(c, tags'[c], header'[c], held'[c], ptag'[c])
  <2>1. b \in DOMAIN tags /\ b \in DOMAIN header /\ b \in DOMAIN held /\ b \in DOMAIN ptag
        /\ Sound(c, tags[c], header[c], held[c], ptag[c])
    BY DEF IInv
  <2>2. CASE c = b
    <3>1. tags'[c] = t /\ header'[c] = h /\ held'[c] = q /\ ptag'[c] = p
      BY <2>1, <2>2
    <3>2. QED
      BY <2>2, <3>1
  <2>3. CASE c # b
    <3>1. tags'[c] = tags[c] /\ header'[c] = header[c] /\ held'[c] = held[c] /\ ptag'[c] = ptag[c]
      BY <1>1, <2>3 DEF IInv
    <3>2. QED
      BY <2>1, <3>1
  <2>4. QED
    BY <2>2, <2>3
<1>2. /\ tags' = [c \in Blocks |-> tags'[c]] /\ header' = [c \in Blocks |-> header'[c]]
      /\ held' = [c \in Blocks |-> held'[c]] /\ ptag' = [c \in Blocks |-> ptag'[c]]
  BY DEF IInv
<1>3. QED
  BY <1>1, <1>2, EveryBlockStep

\* A block of zeros.
LEMMA InitialBlock ==
  ASSUME NEW b \in Blocks
  PROVE  LET t == [g \in Granules(b) |-> 0]
         IN  /\ NoHeader \in Headers /\ NoHeader.state = "Invalid"
             /\ Placed(b, t, NoHeader) /\ t[0] = 0 /\ t \in [Granules(b) -> Tag] /\ 0 \in Tag
<1>1. 0 \in Tag
  BY ZimteAssumption DEF Tag
<1>2. Granule = 2 /\ Granule % Granule = 0 /\ 0 % Granule = 0
  BY Z3 DEF Granule
<1>3. NoHeader \in Headers /\ NoHeader.state = "Invalid" /\ NoHeader.start = 2 /\ NoHeader.size = 0
  BY <1>1, <1>2 DEF NoHeader, Header, Headers, States
<1>4. 0 \in Granules(b)
  <2>1. BlockEnds[b] >= 4 /\ BlockEnds[b] = GranuleOf(BlockEnds[b]) * 2 /\ GranuleOf(BlockEnds[b]) \in Nat
    BY BlockRoom DEF Granule
  <2>2. QED
    BY <2>1 DEF Granules
<1>5. Placed(b, [g \in Granules(b) |-> 0], NoHeader)
  BY <1>1, <1>2, <1>3, BlockRoom DEF Placed
<1>6. QED
  BY <1>1, <1>3, <1>4, <1>5

\* Init leaves every block sound.
LEMMA InitIInv == ASSUME Init PROVE IInv
<1>1. ASSUME NEW b \in Blocks
      PROVE  Sound(b, tags[b], header[b], held[b], ptag[b])
  <2>1. tags[b] = [g \in Granules(b) |-> 0] /\ header[b] = NoHeader /\ held[b] = 0 /\ ptag[b] = 0
    BY DEF Init, Granules
  <2>2. QED
    BY <2>1, InitialBlock DEF Sound, KeyMatches, TagsMatch, PrimaryTags, SecondaryTags
<1>2. QED
  BY <1>1 DEF Init, IInv

\* allocate().
LEMMA AllocateKept ==
  ASSUME NonzeroTags, IInv, NEW b \in Blocks, NEW start \in Starts, NEW size \in Sizes,
         Allocate(b, start, size)
  PROVE  IInv'
<1>1. PICK begin \in selectRandomTag(Pointer(b, start, 0), {}) :
        LET c == InitChunk(tags[b], begin, size)
        IN  /\ tags' = [tags EXCEPT ![b] = c.tags]
            /\ header' = [header EXCEPT ![b] = c.header]
            /\ ptag' = [ptag EXCEPT ![b] = c.ptag]
  BY DEF Allocate
<1>2. PICK g \in GenTags : begin = Pointer(b, start, g)
  BY RandomTags
<1> DEFINE c == InitChunk(tags[b], Pointer(b, start, g), size)
<1>3. Sound(b, tags[b], header[b], held[b], ptag[b])
  BY DEF IInv
<1>4. /\ start \in Nat /\ start % Granule = 0 /\ start >= Granule
      /\ start + size =< BlockEnds[b] /\ header[b].state \in {"Invalid", "Available"}
      /\ held[b] \in Tag /\ held' = [held EXCEPT ![b] = held[b]]
      /\ tagging' = tagging /\ reported' = reported
  BY <1>3, TaggedChunkAssumption DEF Allocate, Free, Fits, Sound, KeyMatches, IInv
<1>5. Sound(b, c.tags, c.header, held[b], c.ptag)
  BY <1>3, <1>4, InitSound DEF Sound
<1>6. tags' = [tags EXCEPT ![b] = c.tags] /\ header' = [header EXCEPT ![b] = c.header]
      /\ ptag' = [ptag EXCEPT ![b] = c.ptag]
  BY <1>1, <1>2
<1> HIDE DEF c
<1>7. QED
  BY <1>4, <1>5, <1>6, BlockStep

\* What a step on an allocated chunk finds.
LEMMA LiveChunk ==
  ASSUME IInv, NEW b \in Blocks, header[b].state = "Allocated"
  PROVE  /\ Sound(b, tags[b], header[b], held[b], ptag[b])
         /\ getHeaderTaggedPointer(UserPtr(b)) = Pointer(b, header[b].start, header[b].key)
         /\ Valid(b, getHeaderTaggedPointer(UserPtr(b)))
         /\ getHeaderTaggedPointer(UserPtr(b)).off = header[b].start
         /\ getHeaderTaggedPointer(UserPtr(b)).tag = header[b].key
<1>1. Sound(b, tags[b], header[b], held[b], ptag[b])
  BY DEF IInv
<1>2. getHeaderTaggedPointer(UserPtr(b)) = Pointer(b, header[b].start, header[b].key)
  BY <1>1, KeyFound DEF UserPtr
<1>3. \A x, y : Pointer(b, x, y).off = x /\ Pointer(b, x, y).tag = y
  BY DEF Pointer
<1>4. QED
  BY <1>1, <1>2, <1>3 DEF Valid

\* deallocate().
LEMMA DeallocateKept == ASSUME IInv, NEW b \in Blocks, Deallocate(b) PROVE IInv'
<1> DEFINE pp == getHeaderTaggedPointer(UserPtr(b))
<1>1. header[b].state = "Allocated" /\ tagging' = tagging
  BY DEF Deallocate
<1>2. /\ Sound(b, tags[b], header[b], held[b], ptag[b])
      /\ pp = Pointer(b, header[b].start, header[b].key) /\ Valid(b, pp)
  BY <1>1, LiveChunk
<1>3. PICK begin \in selectRandomTag(pp, {ptag[b]}) :
        LET c == FreeChunk(tags[b], pp, begin, header[b].size)
        IN  /\ tags' = [tags EXCEPT ![b] = c.tags]
            /\ header' = [header EXCEPT ![b] = c.header]
            /\ held' = [held EXCEPT ![b] = c.held]
            /\ ptag' = ptag /\ reported' = reported
  BY <1>2 DEF Deallocate
<1>4. PICK g \in GenTags : begin = Pointer(b, header[b].start, g)
  BY <1>2, RandomTags
<1> DEFINE c == FreeChunk(tags[b], Pointer(b, header[b].start, header[b].key),
                          Pointer(b, header[b].start, g), header[b].size)
<1>5. Sound(b, c.tags, c.header, c.held, ptag[b])
  BY <1>1, <1>2, FreeSound
<1>6. /\ tags' = [tags EXCEPT ![b] = c.tags] /\ header' = [header EXCEPT ![b] = c.header]
      /\ held' = [held EXCEPT ![b] = c.held] /\ ptag' = [ptag EXCEPT ![b] = ptag[b]]
      /\ reported' = reported
  BY <1>2, <1>3, <1>4 DEF IInv
<1> HIDE DEF c
<1>7. QED
  BY <1>1, <1>5, <1>6, BlockStep

\* reallocate() in place.
LEMMA ReallocateInPlaceKept ==
  ASSUME IInv, NEW b \in Blocks, NEW size \in Sizes, ReallocateInPlace(b, size)
  PROVE  IInv'
<1> DEFINE pp == getHeaderTaggedPointer(UserPtr(b))
           start == header[b].start
           t == IF tagging /\ Primary(b)
                THEN resizeTaggedChunk(tags[b], Pointer(b, start, ptag[b]),
                                       start + header[b].size, start + size)
                ELSE tags[b]
           h == [header[b] EXCEPT !.size = size]
<1>1. header[b].state = "Allocated" /\ tagging' = tagging /\ start + size =< BlockEnds[b]
  BY DEF ReallocateInPlace, StaysInPlace, Fits
<1>2. /\ Sound(b, tags[b], header[b], held[b], ptag[b])
      /\ Valid(b, pp) /\ pp.off = start /\ pp.tag = header[b].key
  BY <1>1, LiveChunk
<1>3. /\ header' = [header EXCEPT ![b].size = size, ![b].key = pp.tag]
      /\ tags' = [tags EXCEPT ![b] =
                    IF tagging /\ Primary(b)
                    THEN resizeTaggedChunk(@, UserPtr(b), End(b), pp.off + size)
                    ELSE @]
      /\ held' = held /\ ptag' = ptag /\ reported' = reported
  BY <1>2, Zenon DEF ReallocateInPlace
<1>4. Sound(b, t, h, held[b], ptag[b])
  BY <1>1, <1>2, ResizeSound
<1>5. tags' = [tags EXCEPT ![b] = t]
  BY <1>2, <1>3 DEF UserPtr, End
<1>6. header[b] \in Headers /\ header = [x \in Blocks |-> header[x]]
  BY <1>2 DEF Sound, Placed, IInv
<1>7. header' = [header EXCEPT ![b] = h]
  <2>1. [h EXCEPT !.key = header[b].key] = h
    BY <1>6 DEF Headers
  <2>2. header' = [header EXCEPT ![b] = [[@ EXCEPT !.size = size] EXCEPT !.key = pp.tag]]
    BY <1>3, <1>6
  <2>3. QED
    BY <1>2, <2>1, <2>2
<1>8. /\ held' = [held EXCEPT ![b] = held[b]] /\ ptag' = [ptag EXCEPT ![b] = ptag[b]]
      /\ reported' = reported
  BY <1>3 DEF IInv
<1> HIDE DEF t, h
<1>9. QED
  BY <1>1, <1>4, <1>5, <1>7, <1>8, BlockStep

\* reallocate() to another block.
LEMMA ReallocateMoveKept ==
  ASSUME NonzeroTags, IInv, NEW b \in Blocks, NEW n \in Blocks, NEW size \in Sizes,
         ReallocateMove(b, n, size)
  PROVE  IInv'
<1> DEFINE pp == getHeaderTaggedPointer(UserPtr(b))
<1>1. /\ header[b].state = "Allocated" /\ header[n].state \in {"Invalid", "Available"}
      /\ tagging' = tagging /\ Granule + size =< BlockEnds[n]
  BY DEF ReallocateMove, Free, Fits
<1>2. /\ Sound(b, tags[b], header[b], held[b], ptag[b])
      /\ pp = Pointer(b, header[b].start, header[b].key) /\ Valid(b, pp)
  BY <1>1, LiveChunk
<1>3. Sound(n, tags[n], header[n], held[n], ptag[n])
  BY DEF IInv
<1>4. PICK new \in selectRandomTag(Pointer(n, Granule, 0), {}),
           begin \in selectRandomTag(pp, {ptag[b]}) :
        LET c == InitChunk(tags[n], new, size)
            f == FreeChunk(tags[b], pp, begin, header[b].size)
        IN  /\ tags' = [tags EXCEPT ![n] = c.tags, ![b] = f.tags]
            /\ header' = [header EXCEPT ![n] = c.header, ![b] = f.header]
            /\ held' = [held EXCEPT ![b] = f.held]
            /\ ptag' = [ptag EXCEPT ![n] = c.ptag]
            /\ reported' = reported
  BY <1>2 DEF ReallocateMove
<1>5. PICK g \in GenTags : new = Pointer(n, Granule, g)
  BY RandomTags
<1>6. PICK k \in GenTags : begin = Pointer(b, header[b].start, k)
  BY <1>2, RandomTags
<1> DEFINE c == InitChunk(tags[n], Pointer(n, Granule, g), size)
           f == FreeChunk(tags[b], Pointer(b, header[b].start, header[b].key),
                          Pointer(b, header[b].start, k), header[b].size)
<1>7. /\ Granule \in Nat /\ Granule % Granule = 0 /\ Granule >= Granule
      /\ Placed(n, tags[n], header[n]) /\ TagsMatch(n, tags[n], header[n], ptag[n])
      /\ held[n] \in Tag
  BY <1>3, Z3 DEF Granule, Sound, KeyMatches
<1>8. Sound(n, c.tags, c.header, held[n], c.ptag)
  BY <1>1, <1>7, InitSound
<1>9. Sound(b, f.tags, f.header, f.held, ptag[b])
  BY <1>1, <1>2, FreeSound
<1>10. /\ tags' = [tags EXCEPT ![n] = c.tags, ![b] = f.tags]
       /\ header' = [header EXCEPT ![n] = c.header, ![b] = f.header]
       /\ held' = [held EXCEPT ![b] = f.held] /\ ptag' = [ptag EXCEPT ![n] = c.ptag]
       /\ reported' = reported
  BY <1>2, <1>4, <1>5, <1>6
<1> HIDE DEF c, f
<1>11. b # n /\ n \in DOMAIN tags /\ n \in DOMAIN header /\ n \in DOMAIN ptag
       /\ b \in DOMAIN tags /\ b \in DOMAIN header /\ b \in DOMAIN held
  BY <1>1 DEF IInv
<1>12. ASSUME NEW x \in Blocks
       PROVE  Sound(x, tags'[x], header'[x], held'[x], ptag'[x])
  <2>1. Sound(x, tags[x], header[x], held[x], ptag[x])
        /\ x \in DOMAIN tags /\ x \in DOMAIN header /\ x \in DOMAIN held /\ x \in DOMAIN ptag
    BY DEF IInv
  <2>2. CASE x = n
    <3>1. tags'[x] = c.tags /\ header'[x] = c.header /\ held'[x] = held[n] /\ ptag'[x] = c.ptag
      BY <1>10, <1>11, <2>1, <2>2
    <3>2. QED
      BY <1>8, <2>2, <3>1
  <2>3. CASE x = b
    <3>1. tags'[x] = f.tags /\ header'[x] = f.header /\ held'[x] = f.held /\ ptag'[x] = ptag[b]
      BY <1>10, <1>11, <2>1, <2>3
    <3>2. QED
      BY <1>9, <2>3, <3>1
  <2>4. CASE x # b /\ x # n
    <3>1. tags'[x] = tags[x] /\ header'[x] = header[x] /\ held'[x] = held[x] /\ ptag'[x] = ptag[x]
      BY <1>10, <2>1, <2>4
    <3>2. QED
      BY <2>1, <3>1
  <2>5. QED
    BY <2>2, <2>3, <2>4
<1>13. /\ tags' = [x \in Blocks |-> tags'[x]] /\ header' = [x \in Blocks |-> header'[x]]
       /\ held' = [x \in Blocks |-> held'[x]] /\ ptag' = [x \in Blocks |-> ptag'[x]]
  BY <1>10 DEF IInv
<1>14. QED
  BY <1>1, <1>10, <1>12, <1>13, EveryBlockStep

\* QuarantineCallback::recycle.
LEMMA RecycleKept == ASSUME IInv, NEW b \in Blocks, Recycle(b) PROVE IInv'
<1>1. header[b].state = "Quarantined" /\ tagging' = tagging
  BY DEF Recycle
<1>2. Sound(b, tags[b], header[b], held[b], ptag[b])
  BY DEF IInv
<1>3. Valid(b, Pointer(b, header[b].start, held[b]))
  BY <1>1, <1>2, KeyFound, SMTT(30), ZenonT(20) DEF Valid, Pointer
<1> DEFINE h == [header[b] EXCEPT !.state = "Available", !.key = held[b]]
<1>4. /\ header' = [header EXCEPT ![b].state = "Available", ![b].key = held[b]]
      /\ held' = [held EXCEPT ![b] = 0] /\ reported' = reported
      /\ tags' = tags /\ ptag' = ptag
  BY <1>3 DEF Recycle
<1>5. header[b] \in Headers /\ held[b] \in Tag /\ 0 \in Tag
  BY <1>2, AddedTags DEF Sound, Placed, KeyMatches
<1>6. /\ h \in Headers /\ h.state = "Available"
      /\ h.start = header[b].start /\ h.size = header[b].size
  BY <1>5 DEF Headers, States
<1>7. header' = [header EXCEPT ![b] = h]
  BY <1>4, <1>5 DEF IInv
<1> HIDE DEF h
<1>8. Sound(b, tags[b], h, 0, ptag[b])
  <2>1. Placed(b, tags[b], h)
    BY <1>2, <1>6 DEF Sound, Placed
  <2>2. KeyMatches(b, h, 0, ptag[b])
    BY <1>2, <1>5, <1>6 DEF Sound, KeyMatches
  <2>3. TagsMatch(b, tags[b], h, ptag[b])
    BY <1>1, <1>2, <1>6 DEF Sound, TagsMatch, PrimaryTags, SecondaryTags
  <2>4. QED
    BY <2>1, <2>2, <2>3 DEF Sound
<1>9. /\ tags' = [tags EXCEPT ![b] = tags[b]] /\ ptag' = [ptag EXCEPT ![b] = ptag[b]]
      /\ held' = [held EXCEPT ![b] = 0] /\ reported' = reported
  BY <1>4 DEF IInv
<1>10. QED
  BY <1>1, <1>7, <1>8, <1>9, BlockStep

\* The kernel takes pages back.
LEMMA ReclaimPagesKept == ASSUME IInv, NEW b \in Blocks, ReclaimPages(b) PROVE IInv'
<1> DEFINE t == [g \in Granules(b) |-> 0]
<1>1. /\ Primary(b) /\ header[b].state = "Available" /\ tagging' = tagging /\ reported' = reported
      /\ held' = held /\ ptag' = ptag
      /\ header' = [header EXCEPT ![b] = NoHeader] \/ header' = header
  BY DEF ReclaimPages
<1>2. Sound(b, tags[b], header[b], held[b], ptag[b])
  BY DEF IInv
<1>3. tags' = [tags EXCEPT ![b] = t]
  BY <1>2 DEF ReclaimPages, IInv, Sound, Placed
<1>4. /\ NoHeader \in Headers /\ NoHeader.state = "Invalid"
      /\ Placed(b, t, NoHeader) /\ t[0] = 0 /\ t \in [Granules(b) -> Tag]
  BY InitialBlock
<1>5. Sound(b, t, NoHeader, held[b], ptag[b])
  BY <1>1, <1>2, <1>4 DEF Sound, KeyMatches, TagsMatch, PrimaryTags
<1>6. Sound(b, t, header[b], held[b], ptag[b])
  BY <1>1, <1>2, <1>4 DEF Sound, Placed, TagsMatch, PrimaryTags
<1>7. held' = [held EXCEPT ![b] = held[b]] /\ ptag' = [ptag EXCEPT ![b] = ptag[b]]
  BY <1>1 DEF IInv
<1> HIDE DEF t
<1>8. CASE header' = [header EXCEPT ![b] = NoHeader]
  BY <1>1, <1>3, <1>5, <1>7, <1>8, BlockStep
<1>9. CASE header' = header
  <2>1. header' = [header EXCEPT ![b] = header[b]]
    BY <1>9 DEF IInv
  <2>2. QED
    BY <1>1, <1>3, <1>6, <1>7, <2>1, BlockStep
<1>10. QED
  BY <1>1, <1>8, <1>9

\* disableMemoryTagging().
LEMMA DisableKept == ASSUME IInv, DisableMemoryTagging PROVE IInv'
<1>1. tagging' = FALSE /\ UNCHANGED <<tags, header, held, ptag, reported>>
  BY DEF DisableMemoryTagging
<1>2. ASSUME NEW b \in Blocks
      PROVE  Sound(b, tags[b], header[b], held[b], ptag[b])'
  <2>1. Placed(b, tags[b], header[b]) /\ KeyMatches(b, header[b], held[b], ptag[b])
    BY DEF IInv, Sound
  <2>2. Placed(b, tags'[b], header'[b]) /\ KeyMatches(b, header[b], held[b], ptag[b])'
    BY <1>1, <2>1 DEF KeyMatches
  <2>3. QED
    BY <1>1, <2>2 DEF Sound, TagsMatch
<1>3. QED
  BY <1>1, <1>2 DEF IInv
-----------------------------------------------------------------------------
(***************************************************************************)
(* The invariant, and what follows from it.                                *)
(***************************************************************************)
\* Every step keeps the invariant.
LEMMA NextKept == ASSUME NonzeroTags, IInv, [Next]_vars PROVE IInv'
<1>1. ASSUME NEW b \in Blocks, NEW start \in Starts, NEW size \in Sizes, Allocate(b, start, size)
      PROVE  IInv'
  BY <1>1, AllocateKept
<1>2. ASSUME NEW b \in Blocks, Deallocate(b) PROVE IInv'
  BY <1>2, DeallocateKept
<1>3. ASSUME NEW b \in Blocks, Recycle(b) PROVE IInv'
  BY <1>3, RecycleKept
<1>4. ASSUME NEW b \in Blocks, ReclaimPages(b) PROVE IInv'
  BY <1>4, ReclaimPagesKept
<1>5. ASSUME NEW b \in Blocks, NEW size \in Sizes, ReallocateInPlace(b, size) PROVE IInv'
  BY <1>5, ReallocateInPlaceKept
<1>6. ASSUME NEW b \in Blocks, NEW n \in Blocks, NEW size \in Sizes, ReallocateMove(b, n, size)
      PROVE  IInv'
  BY <1>6, ReallocateMoveKept
<1>7. CASE DisableMemoryTagging
  BY <1>7, DisableKept
<1>8. CASE UNCHANGED vars
  <2>1. UNCHANGED <<tags, header, held, ptag, tagging, reported>>
    BY <1>8 DEF vars
  <2>2. QED
    BY <2>1 DEF IInv, Sound, KeyMatches, TagsMatch
<1>9. QED
  BY <1>1, <1>2, <1>3, <1>4, <1>5, <1>6, <1>7, <1>8 DEF Next

\* The inductive invariant holds in every reachable state.
THEOREM InductiveInvariant == ASSUME NonzeroTags PROVE Spec => []IInv
<1>1. IInv /\ [Next]_vars => IInv'
  BY NextKept
<1>2. QED
  BY <1>1, InitIInv, PTL DEF Spec

\* NoFalseReport: deallocate(), reallocate() and the quarantine accept every chunk
\* of a correct program, whatever its sizes, also across disableMemoryTagging().
THEOREM NeverReported == ASSUME NonzeroTags PROVE Spec => []NoFalseReport
<1>1. IInv => NoFalseReport
  BY DEF IInv, NoFalseReport
<1>2. QED
  BY <1>1, InductiveInvariant, PTL

\* The arithmetic of a chunk of whole granules in its block.
LEMMA WholeChunk ==
  ASSUME WholeGranules, NEW b \in Blocks, NEW t, NEW h, Placed(b, t, h)
  PROVE  LET end == h.start + h.size
         IN  /\ h.start \in Nat /\ end \in Nat /\ end % Granule = 0 /\ roundUp(end) = end
             /\ GranuleOf(h.start) - 1 \in Granules(b)
             /\ (GranuleOf(h.start) - 1) * Granule < h.start
             /\ DOMAIN t = Granules(b)
<1>1. /\ h.start \in Nat /\ h.size \in Nat /\ h.start % Granule = 0 /\ h.size % Granule = 0
      /\ h.start >= Granule /\ h.start + h.size =< BlockEnds[b] /\ DOMAIN t = Granules(b)
  BY DEF Placed, Headers
<1>2. (h.start + h.size) % Granule = 0
  BY <1>1, Z3 DEF Granule
<1>3. roundUp(h.start + h.size) = h.start + h.size
  BY <1>1, <1>2, GranuleArithmetic
<1>4. GranuleOf(h.start) \in Nat /\ GranuleOf(h.start) >= 1 /\ h.start = GranuleOf(h.start) * Granule
  BY <1>1, GranuleArithmetic
<1>5. GranuleOf(h.start) - 1 \in Granules(b) /\ (GranuleOf(h.start) - 1) * Granule < h.start
  BY <1>1, <1>4, BlockRoom, SMTT(30), ZenonT(20) DEF Granules, Granule
<1>6. QED
  BY <1>1, <1>2, <1>3, <1>5

\* LiveAccessible: the user reaches all of a live chunk through the pointer that
\* was returned last, for sizes of whole granules.
THEOREM LiveChunksAccessible ==
  ASSUME NonzeroTags, WholeGranules PROVE Spec => []LiveAccessible
<1>1. ASSUME IInv PROVE LiveAccessible
  <2> SUFFICES ASSUME tagging, NEW b \in Blocks, Live(b), NEW g \in Data(b)
               PROVE  tags[b][g] = ptag[b]
    BY DEF LiveAccessible
  <2>1. Sound(b, tags[b], header[b], held[b], ptag[b]) /\ header[b].state = "Allocated"
    BY <1>1 DEF IInv, Live
  <2>2. DOMAIN tags[b] = Granules(b)
    BY <2>1, WholeChunk DEF Sound
  <2>3. g \in Granules(b) /\ header[b].start =< g * Granule
        /\ g * Granule < header[b].start + header[b].size
    BY <2>2 DEF Data, End
  <2>4. CASE Primary(b)
    BY <2>1, <2>3, <2>4 DEF Sound, TagsMatch, PrimaryTags
  <2>5. CASE ~Primary(b)
    <3>1. ~(g * Granule < header[b].start)
      BY <2>1, <2>3, WholeChunk DEF Sound, Granules, Granule
    <3>2. tags[b][g] = 0
      BY <2>1, <2>3, <2>5, <3>1 DEF Sound, TagsMatch, SecondaryTags
    <3>3. QED
      BY <2>1, <2>5, <3>2 DEF Sound, KeyMatches
  <2>6. QED
    BY <2>4, <2>5
<1>2. QED
  BY <1>1, InductiveInvariant, PTL

\* HeaderAccessible: the header of a live or quarantined chunk is reached through
\* the pointer of its checksum, and every chunk lies in its block.
THEOREM HeadersAccessible ==
  ASSUME NonzeroTags, WholeGranules PROVE Spec => []HeaderAccessible
<1>1. ASSUME IInv PROVE HeaderAccessible
  <2>1. TypeOK
    BY <1>1 DEF IInv, Sound, Placed, KeyMatches, Headers, States, Granules, TypeOK, End
  <2>2. ASSUME tagging, NEW b \in Blocks, header[b].state \in {"Allocated", "Quarantined"}
        PROVE  tags[b][GranuleOf(header[b].start) - 1] = header[b].key
    <3>1. Sound(b, tags[b], header[b], held[b], ptag[b])
      BY <1>1 DEF IInv
    <3>2. /\ GranuleOf(header[b].start) - 1 \in Granules(b)
          /\ (GranuleOf(header[b].start) - 1) * Granule < header[b].start
      BY <3>1, WholeChunk DEF Sound
    <3>3. CASE Primary(b)
      BY <2>2, <3>1, <3>3 DEF Sound, TagsMatch, PrimaryTags, KeyMatches
    <3>4. CASE ~Primary(b)
      <4>1. header[b].state = "Allocated"
        BY <2>2, <3>1, <3>4 DEF Sound, KeyMatches
      <4>2. QED
        BY <2>2, <3>1, <3>2, <3>4, <4>1 DEF Sound, TagsMatch, SecondaryTags, KeyMatches
    <3>5. QED
      BY <3>3, <3>4
  <2>3. QED
    BY <2>1, <2>2 DEF HeaderAccessible
<1>2. QED
  BY <1>1, InductiveInvariant, PTL

\* OverflowCaught: the granule after a live primary chunk has another tag than the
\* pointer of its user, in the block or at the start of the next.
THEOREM OverflowsCaught ==
  ASSUME NonzeroTags, WholeGranules PROVE Spec => []OverflowCaught
<1>1. ASSUME IInv PROVE OverflowCaught
  <2> SUFFICES ASSUME tagging, NEW b \in Blocks, Live(b), Primary(b)
               PROVE  LET past == roundUp(End(b))
                      IN  IF past < BlockEnds[b]
                          THEN tags[b][GranuleOf(past)] # ptag[b]
                          ELSE Primary(b + 1) => tags[b + 1][0] # ptag[b]
    BY DEF OverflowCaught
  <2>1. Sound(b, tags[b], header[b], held[b], ptag[b]) /\ header[b].state = "Allocated"
    BY <1>1 DEF IInv, Live
  <2>2. roundUp(End(b)) = End(b)
    BY <2>1, WholeChunk DEF Sound, End
  <2>3. ptag[b] # 0
    BY <2>1 DEF Sound, KeyMatches
  <2>4. End(b) < BlockEnds[b] => tags[b][GranuleOf(End(b))] = 0
    BY <2>1 DEF Sound, TagsMatch, PrimaryTags, End
  <2>5. ASSUME Primary(b + 1) PROVE tags[b + 1][0] = 0
    <3>1. b + 1 \in Blocks
      BY <2>5, TaggedChunkAssumption DEF Primary
    <3>2. QED
      BY <1>1, <2>5, <3>1 DEF IInv, Sound, TagsMatch, PrimaryTags
  <2>6. QED
    BY <2>2, <2>3, <2>4, <2>5
<1>2. QED
  BY <1>1, InductiveInvariant, PTL
=============================================================================
