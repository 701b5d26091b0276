------------------------------ MODULE MCLocks ------------------------------
EXTENDS Locks, TLC

CONSTANTS t1, t2, t3

\* Two threads come back for a second operation on the mutex.
MCMaxOps == (t1 :> 2) @@ (t2 :> 2) @@ (t3 :> 1)
=============================================================================
