--------------------------- MODULE MCAsanThreads ---------------------------
(* Small processes for TLC. *)
EXTENDS AsanThreads, TLC

\* Neither pthread_t's nor kernel ids are told apart.
Symmetry == Permutations(Handles) \cup Permutations(OsIds)
=============================================================================
