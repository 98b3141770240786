--------------------------- MODULE MCSecondaryCache ---------------------------
(* Two threads, three mappings of ten or eleven pages. *)
EXTENDS SecondaryCache, TLC

MCIntervals == {-1, 0, 1, 2}
Symmetric == Permutations(Threads) \union Permutations(Blocks)
===============================================================================
