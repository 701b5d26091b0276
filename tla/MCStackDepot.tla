---------------------------- MODULE MCStackDepot ----------------------------
(***************************************************************************)
(* Three traces with three hashes in two buckets: fg and fh share one.     *)
(***************************************************************************)
EXTENDS StackDepot, TLC

CONSTANTS fg, fh, gh

MCHash == (fg :> 0) @@ (fh :> 2) @@ (gh :> 1)
MCHashes == {0, 1, 2}
=============================================================================
