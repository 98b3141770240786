--------------------------- MODULE MCTaggedChunk ----------------------------
(* Two adjacent primary blocks, one of a header and one granule, one of a  *)
(* header and two, and a secondary block.  NumTags is 4 so that 0, the   *)
(* header tag 2 and two other tags exist.                                  *)
EXTENDS TaggedChunk

MCBlockEnds == <<4, 6, 4>>

ASSUME TagsAreDistinct == {0, 2} \subseteq Tag
=============================================================================
