-------------------------- MODULE CombinedAllocator ---------------------------
(*****************************************************************************)
(* CombinedAllocator: a call of Allocate, Deallocate or a lookup goes to the *)
(* primary allocator when the size (or the address) is one of its own, and   *)
(* to the secondary otherwise.  The two share no state but their statistics, *)
(* so the calls of one kind see nothing of the calls of the other, and a     *)
(* behaviour in which both occur is two behaviours side by side.  This       *)
(* specification has the behaviours of a program that asks for blocks of one *)
(* size class and those of a program that asks for large blocks.             *)
(*****************************************************************************)
EXTENDS PrimaryAllocator, SecondaryAllocator

\* primary_.CanAllocate(size, alignment) for what this program asks for.
VARIABLE CanAllocate

vars == << pvars, svars, CanAllocate >>

Init ==
  /\ PrimaryInit
  /\ SecondaryInit
  /\ CanAllocate \in BOOLEAN
  /\ CanAllocate \/ class_size = Min(ClassSizes)

Next ==
  /\ \/ CanAllocate /\ PrimaryNext /\ UNCHANGED svars
     \/ ~CanAllocate /\ SecondaryNext /\ UNCHANGED pvars
  /\ UNCHANGED CanAllocate

Spec == Init /\ [][Next]_vars
=============================================================================
