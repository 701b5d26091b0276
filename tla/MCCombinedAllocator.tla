------------------------- MODULE MCCombinedAllocator --------------------------
(*****************************************************************************)
(* Two threads.  A page is 8 units and the class sizes cover the five cases  *)
(* of ReleaseFreeMemoryToOS: chunks that divide the page (4, 8), that do not *)
(* but lie in equal numbers on every page (6), that do not (3, 5), and       *)
(* chunks above a page that are a multiple of it (16) or not (12).  Of the   *)
(* smallest size (2) one mapping brings more chunks than the free array can  *)
(* hold.                                                                     *)
(*****************************************************************************)
EXTENDS CombinedAllocator

CONSTANTS t1, t2

MCThreads == {t1, t2}
MCClassSizes == {2, 3, 4, 5, 6, 8, 12, 16}

\* Room for four chunks of each class or a few more.  The code has one region
\* size for all classes.
MCUserMapSize == [s \in MCClassSizes |-> IF s \in {2, 12, 16} THEN 16 ELSE 8]
MCUserSpace == [s \in MCClassSizes |-> RoundUpTo(4 * s, MCUserMapSize[s])]

MCAddressSpace == 1 .. 10
=============================================================================
