----------------------------- MODULE Semaphore -----------------------------
(***************************************************************************)
(* Semaphore::Wait and Semaphore::Post of sanitizer_mutex.cpp over the     *)
(* Linux futex: a 32-bit counter and the kernel's queue of sleepers.       *)
(* Wait works on a local copy of the counter that may be stale, and Post   *)
(* adds its tokens before, not together with, the wakeup.                  *)
(***************************************************************************)
EXTENDS Integers, FiniteSets

CONSTANTS
  Threads,   \* the threads that use the semaphore
  MaxCount,  \* bound: tokens one Post adds
  MaxOps     \* bound: operations each thread starts

VARIABLES
  state,     \* Semaphore::state_
  sleeping,  \* the threads queued in the kernel on the address of state_
  pc,        \* where each thread is
  count,     \* the local of Wait, or the parameter of Post
  ops        \* operations each thread may still start

vars == <<state, sleeping, pc, count, ops>>

Init ==
  /\ state = 0
  /\ sleeping = {}
  /\ pc = [t \in Threads |-> "idle"]
  /\ count = [t \in Threads |-> 0]
  /\ ops = [t \in Threads |-> MaxOps]

Goto(t, l) == pc' = [pc EXCEPT ![t] = l]

StartOp(t) == pc[t] = "idle" /\ ops[t] > 0 /\ ops' = [ops EXCEPT ![t] = @ - 1]

-----------------------------------------------------------------------------
(* The futex calls of sanitizer_linux.cpp. *)

\* Mutant: the sleeper does not compare the word with what it saw.
FutexWaitBlind(t) == sleeping' = sleeping \cup {t}

\* FUTEX_WAIT: the kernel compares the word with cmp = 0 and queues the
\* caller in one step; otherwise the call returns at once.
FutexWait(t) == sleeping' = IF state = 0 THEN sleeping \cup {t} ELSE sleeping

\* FUTEX_WAKE: up to n of the sleepers leave the queue.
FutexWake(n) ==
  \E woken \in SUBSET sleeping :
    /\ Cardinality(woken) = IF n < Cardinality(sleeping)
                            THEN n ELSE Cardinality(sleeping)
    /\ sleeping' = sleeping \ woken

-----------------------------------------------------------------------------
(* Wait *)

WaitBegin(t) ==
  /\ StartOp(t)
  /\ Goto(t, "wait")
  /\ count' = [count EXCEPT ![t] = state]
  /\ UNCHANGED <<state, sleeping>>

WaitSleep(t) ==
  /\ pc[t] = "wait"
  /\ count[t] = 0
  /\ FutexWait(t)
  /\ Goto(t, "reload")
  /\ UNCHANGED <<state, count, ops>>

\* A thread leaves FutexWait when it is not queued, and loads the counter.
WaitReload(t) ==
  /\ pc[t] = "reload"
  /\ t \notin sleeping
  /\ count' = [count EXCEPT ![t] = state]
  /\ Goto(t, "wait")
  /\ UNCHANGED <<state, sleeping, ops>>

\* A signal interrupts FUTEX_WAIT: the thread leaves the queue by itself.
WaitInterrupted(t) ==
  /\ t \in sleeping
  /\ sleeping' = sleeping \ {t}
  /\ UNCHANGED <<state, pc, count, ops>>

\* Mutant: the decremented local is stored without comparing.
WaitTakeBlind(t) ==
  /\ pc[t] = "wait"
  /\ count[t] # 0
  /\ state' = count[t] - 1
  /\ Goto(t, "idle")
  /\ count' = [count EXCEPT ![t] = 0]
  /\ UNCHANGED <<sleeping, ops>>

WaitTake(t) ==
  /\ pc[t] = "wait"
  /\ count[t] # 0
  /\ count[t] = state
  /\ state' = state - 1
  /\ Goto(t, "idle")
  /\ count' = [count EXCEPT ![t] = 0]
  /\ UNCHANGED <<sleeping, ops>>

WaitRetry(t) ==
  /\ pc[t] = "wait"
  /\ count[t] # 0
  /\ count[t] # state
  /\ count' = [count EXCEPT ![t] = state]
  /\ UNCHANGED <<state, sleeping, pc, ops>>

-----------------------------------------------------------------------------
(* Post *)

PostAdd(t, n) ==
  /\ StartOp(t)
  /\ state' = state + n
  /\ count' = [count EXCEPT ![t] = n]
  /\ Goto(t, "wake")
  /\ UNCHANGED sleeping

PostWake(t) ==
  /\ pc[t] = "wake"
  /\ FutexWake(count[t])
  /\ count' = [count EXCEPT ![t] = 0]
  /\ Goto(t, "idle")
  /\ UNCHANGED <<state, ops>>

-----------------------------------------------------------------------------
Step(t) ==
  WaitSleep(t) \/ WaitReload(t) \/ WaitTake(t) \/ WaitRetry(t) \/ PostWake(t)

Start(t) == WaitBegin(t) \/ \E n \in 1..MaxCount : PostAdd(t, n)

\* No thread can move: each is out of operations, or asleep in a Wait for a
\* token that nobody will post.
Quiet ==
  /\ \A t \in Threads :
       (pc[t] = "idle" /\ ops[t] = 0) \/ (pc[t] = "reload" /\ t \in sleeping)
  /\ UNCHANGED vars

Next ==
  \/ \E t \in Threads : Step(t) \/ Start(t) \/ WaitInterrupted(t)
  \/ Quiet

Spec == Init /\ [][Next]_vars

\* A thread that the kernel has not queued keeps running.
FairSpec == Spec /\ \A t \in Threads : WF_vars(Step(t))

-----------------------------------------------------------------------------
(* Properties *)

Waiting == {t \in Threads : pc[t] \in {"wait", "reload"}}

\* A posted token is taken as long as some thread waits: Wait and Post never
\* leave a waiter asleep beside a token for ever.
TokensAreTaken ==
  (state # 0 /\ Waiting # {}) ~> (state = 0 \/ Waiting = {})

\* The semaphore is the counter its users rely on: Post adds its tokens at
\* once and each return from Wait takes exactly one.
CS == INSTANCE CountingSemaphore WITH tokens <- state, waiting <- Waiting
CountingSpec == CS!Spec
=============================================================================
