---------------------------- MODULE MCQuarantine ----------------------------
EXTENDS Quarantine, TLC

CONSTANTS c1, c2, c3, c4, c5

\* Batches of one small chunk are worth merging; c5 is larger than the whole
\* quarantine.
MCChunkSize == (c1 :> 4) @@ (c2 :> 4) @@ (c3 :> 4) @@ (c4 :> 4) @@ (c5 :> 50)

\* No small chunk fits into the local cache, or one does.
MCLimits == {<<20, 11>>, <<26, 13>>}

\* The chunks of one size can be exchanged.
SmallChunks == Permutations({c1, c2, c3, c4})
=============================================================================
