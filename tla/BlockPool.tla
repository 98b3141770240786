----------------------------- MODULE BlockPool ------------------------------
(***************************************************************************)
(* What a region of the primary promises the local caches: a block has at  *)
(* most one holder, and a block of the region that nobody holds can still  *)
(* be popped, now or later.  FreeList and BatchClassList implement it.     *)
(***************************************************************************)
VARIABLES
  free,   \* blocks of the region that nobody holds
  held    \* blocks that were popped and have not been pushed back

Init == free = {} /\ held = {}

Push ==
  \E S \in SUBSET held :
    /\ S # {}
    /\ held' = held \ S
    /\ free' = free \cup S

\* The region may grow by new blocks in the same step.
Pop ==
  /\ held \subseteq held' /\ held # held'
  /\ free' \cap held' = {}
  /\ free \cup held \subseteq free' \cup held'

Spec == Init /\ [][Push \/ Pop]_<<free, held>>
=============================================================================
