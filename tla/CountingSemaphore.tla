------------------------- MODULE CountingSemaphore -------------------------
(***************************************************************************)
(* What Semaphore promises to its callers: tokens, and threads that wait   *)
(* until each of them can take one.                                        *)
(***************************************************************************)
EXTENDS Integers

CONSTANTS
  Threads,  \* the threads that use the semaphore
  MaxCount  \* bound: tokens one Post adds

VARIABLES
  tokens,  \* tokens posted and not taken
  waiting  \* the threads inside Wait

csvars == <<tokens, waiting>>

Init == tokens = 0 /\ waiting = {}

Enter(t) ==
  /\ t \notin waiting
  /\ waiting' = waiting \cup {t}
  /\ UNCHANGED tokens

Take(t) ==
  /\ t \in waiting
  /\ tokens > 0
  /\ tokens' = tokens - 1
  /\ waiting' = waiting \ {t}

Post(n) == tokens' = tokens + n /\ UNCHANGED waiting

Next ==
  \/ \E t \in Threads : Enter(t) \/ Take(t)
  \/ \E n \in 1..MaxCount : Post(n)

Spec == Init /\ [][Next]_csvars
=============================================================================
