-------------------------- MODULE MCAsanAllocator --------------------------
(* Primary blocks p1 and p2 and the secondary block s1.                     *)
EXTENDS AsanAllocator, TLC

CONSTANTS p1, p2, s1

\* A left redzone of more than 16 bytes, which every large allocation has
\* unless max_redzone is 16: the header of a secondary block lies later.
MCPlaces == [b \in Blocks |-> IF b = s1 THEN {"later"} ELSE {"start", "later"}]

\* The place is fixed where pointers may be stale, so that a stale pointer
\* still leads to a header.
MCPlacesFixed == [b \in Blocks |-> IF b = p1 THEN {"start"} ELSE {"later"}]

\* The threads are interchangeable.
Symmetry == Permutations(Threads)
=============================================================================
