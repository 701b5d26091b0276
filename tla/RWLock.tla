------------------------------- MODULE RWLock -------------------------------
(***************************************************************************)
(* What Mutex promises to its callers: a lock held by at most one writer,  *)
(* or by any number of readers.                                            *)
(***************************************************************************)
CONSTANT Threads

VARIABLES
  writing,  \* the threads that hold the lock for writing
  reading   \* the threads that hold the lock for reading

rwvars == <<writing, reading>>

Init == writing = {} /\ reading = {}

AcquireWrite(t) ==
  /\ writing = {}
  /\ reading = {}
  /\ writing' = {t}
  /\ UNCHANGED reading

ReleaseWrite(t) ==
  /\ t \in writing
  /\ writing' = writing \ {t}
  /\ UNCHANGED reading

AcquireRead(t) ==
  /\ writing = {}
  /\ t \notin reading
  /\ reading' = reading \cup {t}
  /\ UNCHANGED writing

ReleaseRead(t) ==
  /\ t \in reading
  /\ reading' = reading \ {t}
  /\ UNCHANGED writing

Next ==
  \E t \in Threads :
    \/ AcquireWrite(t) \/ ReleaseWrite(t) \/ AcquireRead(t) \/ ReleaseRead(t)

Spec == Init /\ [][Next]_rwvars
=============================================================================
