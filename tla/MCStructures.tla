------------------------------ MODULE MCStructures ------------------------------
EXTENDS Structures

\* The batch class, with one block in a region, and a class with two, of which
\* one straddles the pages.
TwoSizes == [c \in 0 .. 1 |-> IF c = 0 THEN 8 ELSE 3]
=============================================================================
