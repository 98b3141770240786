---------------------------- MODULE MCQuarantine ----------------------------
(* Two TSDs, chunks of two sizes, batches of two chunks.  Two batches fill *)
(* the global cache, so a third one starts a recycle() that merges.        *)
EXTENDS Quarantine

CONSTANTS small1, small2, big1, big2

MCChunks == {small1, small2, big1, big2}

MCChunkSize == [c \in MCChunks |-> IF c \in {small1, small2} THEN 1 ELSE 3]
=============================================================================
