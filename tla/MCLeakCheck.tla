---------------------------- MODULE MCLeakCheck ----------------------------
(***************************************************************************)
(* Two chunks; a rule matches the allocation stack of c1.                  *)
(***************************************************************************)
EXTENDS LeakCheck, TLC

CONSTANTS c1, c2

MCStack == (c1 :> "s1") @@ (c2 :> "s2")

\* Thread 0 has the only pointer to c1, which points to c2, which points to itself;
\* or a global points to c1, and c2 is not allocated.
MCHeaps ==
  { [alive |-> {c1, c2}, globals |-> {}, local |-> (0 :> {c1}),
     points |-> (c1 :> {c2}) @@ (c2 :> {c2})],
    [alive |-> {c1}, globals |-> {c1}, local |-> (0 :> {}),
     points |-> (c1 :> {}) @@ (c2 :> {})] }
=============================================================================
