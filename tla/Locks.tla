------------------------------- MODULE Locks -------------------------------
(***************************************************************************)
(* The two classes threads block on, Mutex and Semaphore, side by side: a  *)
(* behaviour is one of a Mutex or one of a Semaphore.  SanitizerMutex      *)
(* takes writers_ and readers_ for counters; that the futex code of        *)
(* Semaphore is such a counter is what CountingSpec says.                  *)
(***************************************************************************)
EXTENDS SanitizerMutex

CONSTANTS
  MaxCount,  \* bound: tokens one Post adds
  SemOps     \* bound: operations each thread starts on the semaphore

ASSUME SemaphoreAssumption == MaxCount \in Nat \ {0} /\ SemOps \in Nat

VARIABLES
  sem,       \* Semaphore::state_
  sleeping,  \* the threads queued in the kernel
  semPc,     \* where each thread is
  semCount,  \* the local of Wait, or the parameter of Post
  semOps,    \* operations each thread may still start
  class      \* the class whose object this behaviour is about

Sem == INSTANCE Semaphore WITH
         state <- sem, pc <- semPc, count <- semCount, ops <- semOps, MaxOps <- SemOps

semvars == <<sem, sleeping, semPc, semCount, semOps>>
lockvars == <<vars, semvars, class>>

LocksInit == Init /\ Sem!Init /\ class \in {"Mutex", "Semaphore"}

LocksNext ==
  /\ \/ class = "Mutex" /\ Next /\ UNCHANGED semvars
     \/ class = "Semaphore" /\ Sem!Next /\ UNCHANGED vars
  /\ UNCHANGED class

LocksSpec == LocksInit /\ [][LocksNext]_lockvars

\* The scheduler is fair to a thread inside an operation of either class,
\* unless the kernel has queued it.
FairLocks ==
  /\ LocksSpec
  /\ \A t \in Threads : WF_vars(Step(t)) /\ WF_semvars(Sem!Step(t))

-----------------------------------------------------------------------------
(* Properties *)

\* The semaphore is the counter Lock, ReadLock and their unlocks rely on:
\* Post adds its tokens at once and each return from Wait takes exactly one.
CountingSpec == Sem!CountingSpec

\* A posted token is taken as long as some thread waits: Wait and Post never
\* leave a waiter asleep beside a token for ever.
TokensAreTaken == Sem!TokensAreTaken
=============================================================================
