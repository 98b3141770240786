---------------------------- MODULE TaggedChunk -----------------------------
(***************************************************************************)
(* What combined.h does to a chunk under memory tagging on Zimte: the tags *)
(* of its memory, the tag of the pointer its user holds, and the header    *)
(* with its checksum, which covers the pointer it was stored through.      *)
(* The primary's blocks lie next to each other in the order 1, 2, ...; a   *)
(* secondary block is a mapping of its own.  A chunk starts one granule,   *)
(* the header's, after its block, or later when more alignment is asked    *)
(* for; its header is in the granule before it.                            *)
(***************************************************************************)
EXTENDS Zimte, FiniteSets

CONSTANTS
  Primaries,       \* the primary blocks are 1 .. Primaries
  BlockEnds,       \* the size of every block, a function of the blocks
  Sizes,           \* the sizes that are asked for
  Starts,          \* offsets of a chunk in its block, one per alignment
  QuarantineMaxChunkSize,   \* 0 when the quarantine is off
  PageSize

Blocks == DOMAIN BlockEnds

ASSUME TaggedChunkAssumption ==
  /\ Primaries \in Nat /\ 1 .. Primaries \subseteq Blocks
  /\ \A b \in Blocks : BlockEnds[b] \in Nat /\ BlockEnds[b] % Granule = 0
                         /\ BlockEnds[b] >= 2 * Granule
  /\ Sizes \subseteq Nat
  /\ Starts \subseteq {s \in Nat : s % Granule = 0 /\ s >= Granule}
  /\ QuarantineMaxChunkSize \in Nat /\ PageSize \in Nat

VARIABLES
  tags,      \* the memory tags of every block
  header,    \* the header of the last chunk of every block
  held,      \* tag of the pointer that the quarantine holds
  ptag,      \* tag of the pointer last returned for the block
  tagging,   \* OptionBit::UseMemoryTagging
  reported   \* a report has ended the program

vars == <<tags, header, held, ptag, tagging, reported>>

\* ClassId is nonzero.
Primary(b) == b \in 1 .. Primaries

\* A header: State, size, where the chunk is, and the tag of the pointer that
\* the checksum was computed with.
Header(state, size, start, key) ==
  [state |-> state, size |-> size, start |-> start, key |-> key]

NoHeader == Header("Invalid", 0, Granule, 0)

addHeaderTag(p) == addFixedTag(p, 2)

\* Mutant: every pointer gets the header tag.
getHeaderTaggedAlways(p) == addHeaderTag(untagPointer(p))

getHeaderTaggedPointer(p) ==
  IF untagPointer(p) # p THEN untagPointer(p) ELSE addHeaderTag(p)

\* What the user of the block's chunk holds.
UserPtr(b) == Pointer(b, header[b].start, ptag[b])

End(b) == header[b].start + header[b].size

\* loadHeader() through p finds the checksum right.
Valid(b, p) ==
  header[b].state # "Invalid" /\ header[b].start = p.off /\ header[b].key = p.tag

\* Mutant: the end marker gets the tag of the chunk.
storeEndMarkerTagged(t, end) ==
  IF end.off # BlockEnds[end.block] THEN storeTag(t, end) ELSE t

\* storeEndMarker(): a granule of tag zero past the end, inside the block.
storeEndMarker(t, end) ==
  IF end.off # BlockEnds[end.block] THEN storeTag(t, untagPointer(end)) ELSE t

\* Mutant: the tag of the granule before the chunk is taken for zero.
prepareWithoutHeader(t, begin, size) ==
  storeEndMarker(storeTags(t, begin, begin.off + size),
                 storeTagsResult(begin, begin.off + size))

\* prepareTaggedChunk() with begin, the pointer that selectRandomTag() chose.
prepareTaggedChunk(t, begin, size) ==
  LET t0 == storeTag(t, Pointer(begin.block, begin.off - Granule, 0))
  IN  storeEndMarker(storeTags(t0, begin, begin.off + size),
                     storeTagsResult(begin, begin.off + size))

\* Mutant: a chunk that grows keeps its tags.
resizeWithoutTags(t, p, old, new) ==
  storeEndMarker(t, [p EXCEPT !.off = roundUp(new)])

\* resizeTaggedChunk() from old to new, the ends of the chunk.
resizeTaggedChunk(t, p, old, new) ==
  IF roundUp(old) >= new
  THEN storeEndMarker(t, [p EXCEPT !.off = roundUp(new)])
  ELSE LET begin == [p EXCEPT !.off = roundUp(old)]
       IN  storeEndMarker(storeTags(t, begin, new), storeTagsResult(begin, new))

(***************************************************************************)
(* initChunk() or initChunkWithMemoryTagging() of a chunk at begin, which  *)
(* selectRandomTag() chose: the tags of the block, the header and the tag  *)
(* of the pointer that is returned.  A chunk that was freed at the same    *)
(* place would keep the tag of the free if loadTag() could tell it.        *)
(***************************************************************************)
InitChunk(t, begin, size) ==
  LET b      == begin.block
      plain  == untagPointer(begin)
      block  == addHeaderTag(Pointer(b, 0, 0))
      loaded == loadTag(t, plain)
  IN  CASE ~tagging ->
             [tags |-> t, ptag |-> 0,
              header |-> Header("Allocated", size, begin.off, addHeaderTag(plain).tag)]
        [] tagging /\ ~Primary(b) ->
             [tags |-> storeTags(t, block, begin.off), ptag |-> 0,
              header |-> Header("Allocated", size, begin.off, addHeaderTag(plain).tag)]
        [] tagging /\ Primary(b) /\ Valid(b, plain) /\ loaded # plain ->
             [tags |-> resizeTaggedChunk(t, loaded, End(b), begin.off + size),
              ptag |-> loaded.tag,
              header |-> Header("Allocated", size, begin.off, 0)]
        [] OTHER ->
             [tags |-> prepareTaggedChunk(t, begin, size), ptag |-> begin.tag,
              header |-> Header("Allocated", size, begin.off, 0)]

Bypass(b, size) == size = 0 \/ size > QuarantineMaxChunkSize \/ ~Primary(b)

\* quarantineOrDeallocateChunk() and retagBlock(), with begin, which is the
\* pointer of the header under the tag that selectRandomTag() chose.  The
\* quarantine keeps that pointer as retagBlock() leaves it.
FreeChunk(t, p, begin, size) ==
  LET b     == p.block
      state == IF Bypass(b, size) THEN "Available" ELSE "Quarantined"
  IN  [header |-> Header(state, size, p.off, p.tag),
       held   |-> IF tagging \/ Bypass(b, size) THEN 0 ELSE p.tag,
       tags   |-> CASE tagging /\ Primary(b)  -> storeTags(t, begin, p.off + size)
                    [] tagging /\ ~Primary(b) -> storeTags(t, Pointer(b, 0, 0), p.off)
                    [] OTHER -> t]

Init ==
  /\ tags = [b \in Blocks |-> [g \in 0 .. GranuleOf(BlockEnds[b]) - 1 |-> 0]]
  /\ header = [b \in Blocks |-> NoHeader]
  /\ held = [b \in Blocks |-> 0]
  /\ ptag = [b \in Blocks |-> 0]
  /\ tagging = TRUE
  /\ reported = FALSE

Free(b) == header[b].state \in {"Invalid", "Available"}

Fits(b, start, size) == start + size =< BlockEnds[b]

\* allocate() with a free block that is large enough.
Allocate(b, start, size) ==
  /\ ~reported
  /\ Free(b)
  /\ Fits(b, start, size)
  /\ \E begin \in selectRandomTag(Pointer(b, start, 0), {}) :
       LET c == InitChunk(tags[b], begin, size) IN
       /\ tags' = [tags EXCEPT ![b] = c.tags]
       /\ header' = [header EXCEPT ![b] = c.header]
       /\ ptag' = [ptag EXCEPT ![b] = c.ptag]
  /\ UNCHANGED <<held, tagging, reported>>

\* loadHeader() finds the checksum wrong, which ends the program.
reportHeaderCorruption ==
  /\ reported' = TRUE
  /\ UNCHANGED <<tags, header, held, ptag>>

\* deallocate() of a pointer that its user got and has not freed yet.
Deallocate(b) ==
  /\ ~reported
  /\ header[b].state = "Allocated"
  /\ LET p == getHeaderTaggedPointer(UserPtr(b)) IN
     IF ~Valid(b, p)
     THEN reportHeaderCorruption
     ELSE /\ \E begin \in selectRandomTag(p, {ptag[b]}) :
               LET c == FreeChunk(tags[b], p, begin, header[b].size) IN
               /\ tags' = [tags EXCEPT ![b] = c.tags]
               /\ header' = [header EXCEPT ![b] = c.header]
               /\ held' = [held EXCEPT ![b] = c.held]
          /\ UNCHANGED <<ptag, reported>>
  /\ UNCHANGED tagging

StaysInPlace(b, size) ==
  /\ Fits(b, header[b].start, size)
  /\ size > header[b].size \/ header[b].size - size < PageSize

\* reallocate() that keeps the block.
ReallocateInPlace(b, size) ==
  /\ ~reported
  /\ header[b].state = "Allocated"
  /\ size # 0
  /\ StaysInPlace(b, size)
  /\ LET p == getHeaderTaggedPointer(UserPtr(b)) IN
     IF ~Valid(b, p)
     THEN reportHeaderCorruption
     ELSE /\ header' = [header EXCEPT ![b].size = size, ![b].key = p.tag]
          /\ tags' = [tags EXCEPT ![b] =
                        IF tagging /\ Primary(b)
                        THEN resizeTaggedChunk(@, UserPtr(b), End(b), p.off + size)
                        ELSE @]
          /\ UNCHANGED <<held, ptag, reported>>
  /\ UNCHANGED tagging

\* reallocate() that allocates in block n and frees block b.
ReallocateMove(b, n, size) ==
  /\ ~reported
  /\ header[b].state = "Allocated" /\ Free(n)
  /\ size # 0
  /\ ~StaysInPlace(b, size) /\ Fits(n, Granule, size)
  /\ LET p == getHeaderTaggedPointer(UserPtr(b)) IN
     IF ~Valid(b, p)
     THEN reportHeaderCorruption
     ELSE /\ \E new \in selectRandomTag(Pointer(n, Granule, 0), {}),
                begin \in selectRandomTag(p, {ptag[b]}) :
               LET c == InitChunk(tags[n], new, size)
                   f == FreeChunk(tags[b], p, begin, header[b].size)
               IN  /\ tags' = [tags EXCEPT ![n] = c.tags, ![b] = f.tags]
                   /\ header' = [header EXCEPT ![n] = c.header, ![b] = f.header]
                   /\ held' = [held EXCEPT ![b] = f.held]
                   /\ ptag' = [ptag EXCEPT ![n] = c.ptag]
          /\ UNCHANGED reported
  /\ UNCHANGED tagging

\* QuarantineCallback::recycle.
Recycle(b) ==
  /\ ~reported
  /\ header[b].state = "Quarantined"
  /\ IF ~Valid(b, Pointer(b, header[b].start, held[b]))
     THEN reportHeaderCorruption
     ELSE /\ header' = [header EXCEPT ![b].state = "Available", ![b].key = held[b]]
          /\ held' = [held EXCEPT ![b] = 0]
          /\ UNCHANGED <<tags, ptag, reported>>
  /\ UNCHANGED tagging

\* The kernel takes back pages of a free primary block: those of the data, or
\* those of the header as well.  Reclaimed memory and its tags are zero.
ReclaimPages(b) ==
  /\ ~reported
  /\ Primary(b) /\ header[b].state = "Available"
  /\ \/ header' = [header EXCEPT ![b] = NoHeader]
     \/ UNCHANGED header
  /\ tags' = [tags EXCEPT ![b] = [g \in DOMAIN @ |-> 0]]
  /\ UNCHANGED <<held, ptag, tagging, reported>>

\* Allocator::disableMemoryTagging; nothing turns tagging on again.
DisableMemoryTagging ==
  /\ tagging
  /\ tagging' = FALSE
  /\ UNCHANGED <<tags, header, held, ptag, reported>>

Next ==
  \/ \E b \in Blocks :
       \/ \E start \in Starts, size \in Sizes : Allocate(b, start, size)
       \/ Deallocate(b) \/ Recycle(b) \/ ReclaimPages(b)
       \/ \E size \in Sizes : ReallocateInPlace(b, size)
       \/ \E n \in Blocks, size \in Sizes : ReallocateMove(b, n, size)
  \/ DisableMemoryTagging

Spec == Init /\ [][Next]_vars
-----------------------------------------------------------------------------
\* No chunk ever leaves its block.
TypeOK ==
  /\ \A b \in Blocks : tags[b] \in [0 .. GranuleOf(BlockEnds[b]) - 1 -> Tag]
  /\ \A b \in Blocks :
       /\ header[b].state \in {"Invalid", "Available", "Allocated", "Quarantined"}
       /\ header[b].size \in Nat /\ header[b].start \in Nat /\ header[b].key \in Tag
       /\ End(b) =< BlockEnds[b]
  /\ held \in [Blocks -> Tag]
  /\ ptag \in [Blocks -> Tag]
  /\ {tagging, reported} \subseteq BOOLEAN

\* The granules of the chunk of b.
Data(b) == {g \in DOMAIN tags[b] : header[b].start =< g * Granule /\ g * Granule < End(b)}

Live(b) == header[b].state = "Allocated"

\* The user of a live chunk can access all of it through the pointer that
\* allocate() or reallocate() returned, whatever was in the block before and
\* however often reallocate() grew or shrank the chunk in place.
LiveAccessible ==
  tagging => \A b \in Blocks : Live(b) => \A g \in Data(b) : tags[b][g] = ptag[b]

\* The header of a live or quarantined chunk can be accessed through the very
\* pointer that its checksum is of, even when the granule was data before; and no
\* chunk, reallocated in place or not, leaves its block.
HeaderAccessible ==
  /\ TypeOK
  /\ tagging => \A b \in Blocks : header[b].state \in {"Allocated", "Quarantined"} =>
                  tags[b][GranuleOf(header[b].start) - 1] = header[b].key

\* The first access past the end of a live primary chunk through its pointer
\* hits another tag: the end marker's, or the next block's header granule's.
OverflowCaught ==
  tagging => \A b \in Blocks : Live(b) /\ Primary(b) =>
    LET past == roundUp(End(b))
    IN  IF past < BlockEnds[b]
        THEN tags[b][GranuleOf(past)] # ptag[b]
        ELSE Primary(b + 1) => tags[b + 1][0] # ptag[b]

\* deallocate(), reallocate() and the recycling of the quarantine accept every
\* chunk of a correct program: their getHeaderTaggedPointer() gives the pointer
\* that the header was stored through, also across disableMemoryTagging().
NoFalseReport == ~reported

=============================================================================
