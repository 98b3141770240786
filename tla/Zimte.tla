------------------------------- MODULE Zimte --------------------------------
(***************************************************************************)
(* The Zimte section of memtag.h and memtag_zimte.h: tagged pointers, the  *)
(* tag of every granule of memory, and what the allocator's tag primitives *)
(* do with the gentag, addtag and settag instructions.                     *)
(*                                                                         *)
(* A pointer is a block, an offset into it in half granules (so that a     *)
(* size need not be a whole number of granules) and a pointer tag.  The    *)
(* memory tags of a block are a function from its granules.                *)
(***************************************************************************)
EXTENDS Integers

CONSTANTS
  NumTags,    \* 2^pointer_tag_width
  GenTags,    \* the tags gentag can produce
  TagShift    \* lowest bit of the hardware's pointer tag: 60 for b63 and ptw 4

ASSUME ZimteAssumption ==
  /\ NumTags \in Nat /\ NumTags > 2
  /\ GenTags \subseteq 0 .. NumTags - 1
  /\ TagShift \in {56, 60}

Tag == 0 .. NumTags - 1

\* archMemoryTagGranuleSize(), in half granules.
Granule == 2

GranuleOf(off) == off \div Granule

roundUp(off) == ((off + Granule - 1) \div Granule) * Granule

Pointer(block, off, tag) == [block |-> block, off |-> off, tag |-> tag]

\* It clears all the bits above bit 55, wherever the tag is among them.
untagPointer(p) == [p EXCEPT !.tag = 0]

\* It reads the bits from 56 up.
extractTag(p) == IF TagShift = 56 THEN p.tag ELSE 0

\* addTagImmediate(): the addtag instruction adds to the tag in place.
addFixedTag(p, t) == [p EXCEPT !.tag = (@ + t) % NumTags]

\* gentag knows no exclude mask, so the argument is not looked at.
selectRandomTag(p, ExcludeMask) == {[p EXCEPT !.tag = t] : t \in GenTags}

\* settag of one granule; the hardware ignores the offset in the granule.
storeTag(tags, p) == [tags EXCEPT ![GranuleOf(p.off)] = p.tag]

\* storeTags(): it tags the granules of [begin, end) with the pointer's own tag
\* to which it adds the tag it extracts.
storeTags(tags, begin, end) ==
  [g \in DOMAIN tags |->
     IF GranuleOf(begin.off) =< g /\ g * Granule < end
     THEN addFixedTag(begin, extractTag(begin)).tag
     ELSE tags[g]]

\* The result of storeTags(): End as it came in.
storeTagsResult(begin, end) == [begin EXCEPT !.off = end]

\* There is no instruction to load a tag; the pointer is returned.
loadTag(tags, p) == p
=============================================================================
