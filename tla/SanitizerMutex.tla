--------------------------- MODULE SanitizerMutex ---------------------------
(***************************************************************************)
(* The reader-writer Mutex of sanitizer_common/sanitizer_mutex.h: one      *)
(* atomic 64-bit word with three 20-bit counters and three flags, and two  *)
(* semaphores on which writers and readers park.  Every loop of the code   *)
(* loads the word into a local ("seen") and publishes a new word with a    *)
(* compare-exchange, so the local may be stale when the exchange is tried. *)
(*                                                                         *)
(* The word is modelled as a record of its fields.  The semaphores are the *)
(* counters that module Semaphore shows the futex code to implement.       *)
(***************************************************************************)
EXTENDS Integers, FiniteSets

CONSTANTS
  Threads,        \* the threads that use the mutex
  kMaxSpinIters,  \* iterations of active spinning before a thread blocks
  kCounterWidth,  \* bits of each counter of the state word
  MaxOps          \* bound: how many lock operations each thread starts

ASSUME MutexAssumption ==
  /\ IsFiniteSet(Threads)
  /\ kMaxSpinIters \in Nat
  /\ MaxOps \in [Threads -> Nat]
  /\ kCounterWidth \in Nat
  /\ 2^kCounterWidth \in Nat
  /\ Cardinality(Threads) < 2^kCounterWidth

VARIABLES
  state,    \* Mutex::state_, by field
  writers,  \* Mutex::writers_, tokens posted and not yet consumed
  readers,  \* Mutex::readers_, tokens posted and not yet consumed
  pc,       \* where each thread is
  seen,     \* the local "state" of the operation each thread executes
  spin,     \* the local spin_iters, saturated at kMaxSpinIters + 1
  reset,    \* the local reset_mask differs from ~0
  wake,     \* the local wake_readers of Unlock
  ops       \* operations each thread may still start

vars == <<state, writers, readers, pc, seen, spin, reset, wake, ops>>

Word == [readerLock : Nat, waitingReader : Nat, waitingWriter : Nat,
         writerLock : BOOLEAN, writerSpinWait : BOOLEAN,
         readerSpinWait : BOOLEAN]

Label == {"idle", "lock", "lock_reload", "writers_wait", "trylock", "writing",
          "unlock", "writers_post", "readers_post", "readlock",
          "readlock_reload", "readers_wait", "reading", "read_unlock"}

Zero == [readerLock |-> 0, waitingReader |-> 0, waitingWriter |-> 0,
         writerLock |-> FALSE, writerSpinWait |-> FALSE,
         readerSpinWait |-> FALSE]

Init ==
  /\ state = Zero
  /\ writers = 0
  /\ readers = 0
  /\ pc = [t \in Threads |-> "idle"]
  /\ seen = [t \in Threads |-> Zero]
  /\ spin = [t \in Threads |-> 0]
  /\ reset = [t \in Threads |-> FALSE]
  /\ wake = [t \in Threads |-> 0]
  /\ ops = MaxOps

-----------------------------------------------------------------------------
(* Pieces shared by the operations. *)

Goto(t, l) == pc' = [pc EXCEPT ![t] = l]
Load(t) == seen' = [seen EXCEPT ![t] = state]

\* spin_iters++ of the for loops; only its comparison with kMaxSpinIters
\* matters, so it saturates.
SpinNext(n) == IF n > kMaxSpinIters THEN n ELSE n + 1

SpunEnough(t) == spin[t] > kMaxSpinIters

\* A thread enters Lock, TryLock or ReadLock: the locals are initialised and
\* the word is loaded.
Begin(t, l) ==
  /\ pc[t] = "idle"
  /\ ops[t] > 0
  /\ ops' = [ops EXCEPT ![t] = @ - 1]
  /\ Goto(t, l)
  /\ Load(t)
  /\ spin' = [spin EXCEPT ![t] = 0]
  /\ reset' = [reset EXCEPT ![t] = FALSE]
  /\ UNCHANGED <<state, writers, readers, wake>>

\* The compare-exchange succeeds and publishes w.
Publish(t, w) == seen[t] = state /\ state' = w

\* Mutant: the loop goes on with the stale word.
CasFailsStale(t) ==
  /\ seen[t] # state
  /\ UNCHANGED <<state, writers, readers, pc, seen, reset, wake, ops>>

\* The compare-exchange fails: it loads the current word and the loop goes on.
CasFails(t) ==
  /\ seen[t] # state
  /\ Load(t)
  /\ UNCHANGED <<state, writers, readers, pc, reset, wake, ops>>

CountSpin(t) == spin' = [spin EXCEPT ![t] = SpinNext(@)]

\* Active spinning: reload the word, count the iteration.
Spin(t) ==
  /\ Load(t)
  /\ CountSpin(t)
  /\ UNCHANGED <<state, writers, readers, pc, reset, wake, ops>>

\* The locals that are dead after the operation returns or parks.
Forget(t) ==
  /\ seen' = [seen EXCEPT ![t] = Zero]
  /\ spin' = [spin EXCEPT ![t] = 0]
  /\ reset' = [reset EXCEPT ![t] = FALSE]

\* After the thread was woken, or after it set its spin flag: remember to
\* reset the flag, load the word and go round the loop (spin_iters++).
Reload(t, from, to) ==
  /\ pc[t] = from
  /\ Goto(t, to)
  /\ Load(t)
  /\ reset' = [reset EXCEPT ![t] = TRUE]
  /\ CountSpin(t)
  /\ UNCHANGED <<state, writers, readers, wake, ops>>

-----------------------------------------------------------------------------
(* Lock and TryLock *)

Locked(w) == w.writerLock \/ w.readerLock # 0

\* Mutant: reset_mask is never applied.
NeverReset(t, w) == w

ResetWriter(t, w) ==
  IF reset[t] THEN [w EXCEPT !.writerSpinWait = FALSE] ELSE w

LockBegin(t) == Begin(t, "lock")

LockAcquire(t) ==
  /\ pc[t] = "lock"
  /\ ~Locked(seen[t])
  /\ Publish(t, ResetWriter(t, [seen[t] EXCEPT !.writerLock = TRUE]))
  /\ Goto(t, "writing")
  /\ Forget(t)
  /\ UNCHANGED <<writers, readers, wake, ops>>

LockBlock(t) ==
  /\ pc[t] = "lock"
  /\ Locked(seen[t])
  /\ SpunEnough(t)
  /\ Publish(t, ResetWriter(t, [seen[t] EXCEPT !.waitingWriter = @ + 1]))
  /\ Goto(t, "writers_wait")
  /\ Forget(t)
  /\ UNCHANGED <<writers, readers, wake, ops>>

LockMark(t) ==
  /\ pc[t] = "lock"
  /\ Locked(seen[t])
  /\ ~SpunEnough(t)
  /\ ~seen[t].writerSpinWait
  /\ Publish(t, [seen[t] EXCEPT !.writerSpinWait = TRUE])
  /\ Goto(t, "lock_reload")
  /\ seen' = [seen EXCEPT ![t] = Zero]
  /\ UNCHANGED <<writers, readers, spin, reset, wake, ops>>

LockSpin(t) ==
  /\ pc[t] = "lock"
  /\ Locked(seen[t])
  /\ ~SpunEnough(t)
  /\ seen[t].writerSpinWait
  /\ Spin(t)

LockRetry(t) ==
  /\ pc[t] = "lock"
  /\ ~(Locked(seen[t]) /\ ~SpunEnough(t) /\ seen[t].writerSpinWait)
  /\ CasFails(t)
  /\ CountSpin(t)

\* writers_.Wait() returns; spin_iters = 0.
LockWoken(t) ==
  /\ pc[t] = "writers_wait"
  /\ writers > 0
  /\ writers' = writers - 1
  /\ Goto(t, "lock_reload")
  /\ spin' = [spin EXCEPT ![t] = 0]
  /\ UNCHANGED <<state, readers, seen, reset, wake, ops>>

LockReload(t) == Reload(t, "lock_reload", "lock")

TryLockBegin(t) == Begin(t, "trylock")

\* Mutant: TryLock tests only kWriterLock.
TryLockIgnoresReaders(t) ==
  /\ pc[t] = "trylock"
  /\ ~seen[t].writerLock
  /\ Publish(t, [seen[t] EXCEPT !.writerLock = TRUE])
  /\ Goto(t, "writing")
  /\ Forget(t)
  /\ UNCHANGED <<writers, readers, wake, ops>>

TryLockAcquire(t) ==
  /\ pc[t] = "trylock"
  /\ ~Locked(seen[t])
  /\ Publish(t, [seen[t] EXCEPT !.writerLock = TRUE])
  /\ Goto(t, "writing")
  /\ Forget(t)
  /\ UNCHANGED <<writers, readers, wake, ops>>

TryLockFail(t) ==
  /\ pc[t] = "trylock"
  /\ Locked(seen[t])
  /\ Goto(t, "idle")
  /\ Forget(t)
  /\ UNCHANGED <<state, writers, readers, wake, ops>>

TryLockRetry(t) ==
  /\ pc[t] = "trylock"
  /\ ~Locked(seen[t])
  /\ CasFails(t)
  /\ UNCHANGED spin

-----------------------------------------------------------------------------
(* Unlock *)

Spinning(w) == w.writerSpinWait \/ w.readerSpinWait

WakeWriter(w) == ~Spinning(w) /\ w.waitingWriter # 0

WakeReaders(w) ==
  IF WakeWriter(w) \/ w.writerSpinWait THEN 0 ELSE w.waitingReader

HandToWriter(w) ==
  [w EXCEPT !.waitingWriter = @ - 1, !.writerSpinWait = TRUE]

Unlocked(w) ==
  LET free == [w EXCEPT !.writerLock = FALSE]
  IN  IF WakeWriter(w) THEN HandToWriter(free)
      ELSE IF WakeReaders(w) # 0
           THEN [free EXCEPT !.waitingReader = 0, !.readerSpinWait = TRUE]
           ELSE free

\* The critical section ends: Unlock or ReadUnlock is called and loads the word.
UnlockBegin(t) ==
  /\ pc[t] = "writing"
  /\ Goto(t, "unlock")
  /\ Load(t)
  /\ UNCHANGED <<state, writers, readers, spin, reset, wake, ops>>

UnlockPublish(t) ==
  /\ pc[t] = "unlock"
  /\ Publish(t, Unlocked(seen[t]))
  /\ Goto(t, IF WakeWriter(seen[t]) THEN "writers_post"
             ELSE IF WakeReaders(seen[t]) # 0 THEN "readers_post" ELSE "idle")
  /\ wake' = [wake EXCEPT ![t] = WakeReaders(seen[t])]
  /\ Forget(t)
  /\ UNCHANGED <<writers, readers, ops>>

UnlockRetry(t) == pc[t] = "unlock" /\ CasFails(t) /\ UNCHANGED spin

WritersPost(t) ==
  /\ pc[t] = "writers_post"
  /\ writers' = writers + 1
  /\ Goto(t, "idle")
  /\ UNCHANGED <<state, readers, seen, spin, reset, wake, ops>>

ReadersPost(t) ==
  /\ pc[t] = "readers_post"
  /\ readers' = readers + wake[t]
  /\ wake' = [wake EXCEPT ![t] = 0]
  /\ Goto(t, "idle")
  /\ UNCHANGED <<state, writers, seen, spin, reset, ops>>

-----------------------------------------------------------------------------
(* ReadLock and ReadUnlock *)

ResetReader(t, w) ==
  IF reset[t] THEN [w EXCEPT !.readerSpinWait = FALSE] ELSE w

ReadLockBegin(t) == Begin(t, "readlock")

ReadLockAcquire(t) ==
  /\ pc[t] = "readlock"
  /\ ~seen[t].writerLock
  /\ Publish(t, ResetReader(t, [seen[t] EXCEPT !.readerLock = @ + 1]))
  /\ Goto(t, "reading")
  /\ Forget(t)
  /\ UNCHANGED <<writers, readers, wake, ops>>

ReadLockBlock(t) ==
  /\ pc[t] = "readlock"
  /\ seen[t].writerLock
  /\ SpunEnough(t)
  /\ Publish(t, ResetReader(t, [seen[t] EXCEPT !.waitingReader = @ + 1]))
  /\ Goto(t, "readers_wait")
  /\ Forget(t)
  /\ UNCHANGED <<writers, readers, wake, ops>>

ReadLockMark(t) ==
  /\ pc[t] = "readlock"
  /\ seen[t].writerLock
  /\ ~SpunEnough(t)
  /\ ~seen[t].readerSpinWait
  /\ Publish(t, [seen[t] EXCEPT !.readerSpinWait = TRUE])
  /\ Goto(t, "readlock_reload")
  /\ seen' = [seen EXCEPT ![t] = Zero]
  /\ UNCHANGED <<writers, readers, spin, reset, wake, ops>>

ReadLockSpin(t) ==
  /\ pc[t] = "readlock"
  /\ seen[t].writerLock
  /\ ~SpunEnough(t)
  /\ seen[t].readerSpinWait
  /\ Spin(t)

ReadLockRetry(t) ==
  /\ pc[t] = "readlock"
  /\ ~(seen[t].writerLock /\ ~SpunEnough(t) /\ seen[t].readerSpinWait)
  /\ CasFails(t)
  /\ CountSpin(t)

\* readers_.Wait() returns; spin_iters = 0.
ReadLockWoken(t) ==
  /\ pc[t] = "readers_wait"
  /\ readers > 0
  /\ readers' = readers - 1
  /\ Goto(t, "readlock_reload")
  /\ spin' = [spin EXCEPT ![t] = 0]
  /\ UNCHANGED <<state, writers, seen, reset, wake, ops>>

ReadLockReload(t) == Reload(t, "readlock_reload", "readlock")

\* Mutant: the test looks at the word before this reader is taken out.
WakesTooLate(w) ==
  w.readerLock = 0 /\ ~Spinning(w) /\ w.waitingWriter # 0

\* The last reader leaves and no awake thread will look after the writers.
ReadUnlockWakes(w) ==
  w.readerLock = 1 /\ ~Spinning(w) /\ w.waitingWriter # 0

ReadUnlocked(w) ==
  LET less == [w EXCEPT !.readerLock = @ - 1]
  IN  IF ReadUnlockWakes(w) THEN HandToWriter(less) ELSE less

ReadUnlockBegin(t) ==
  /\ pc[t] = "reading"
  /\ Goto(t, "read_unlock")
  /\ Load(t)
  /\ UNCHANGED <<state, writers, readers, spin, reset, wake, ops>>

ReadUnlockPublish(t) ==
  /\ pc[t] = "read_unlock"
  /\ Publish(t, ReadUnlocked(seen[t]))
  /\ Goto(t, IF ReadUnlockWakes(seen[t]) THEN "writers_post" ELSE "idle")
  /\ Forget(t)
  /\ UNCHANGED <<writers, readers, wake, ops>>

ReadUnlockRetry(t) == pc[t] = "read_unlock" /\ CasFails(t) /\ UNCHANGED spin

-----------------------------------------------------------------------------
(* Steps inside an operation, and the choice to start one. *)

LockStep(t) ==
  \/ LockAcquire(t) \/ LockBlock(t) \/ LockMark(t) \/ LockSpin(t)
  \/ LockRetry(t) \/ LockWoken(t) \/ LockReload(t)

TryLockStep(t) == TryLockAcquire(t) \/ TryLockFail(t) \/ TryLockRetry(t)

ReadLockStep(t) ==
  \/ ReadLockAcquire(t) \/ ReadLockBlock(t) \/ ReadLockMark(t)
  \/ ReadLockSpin(t) \/ ReadLockRetry(t) \/ ReadLockWoken(t)
  \/ ReadLockReload(t)

UnlockStep(t) ==
  \/ UnlockBegin(t) \/ UnlockPublish(t) \/ UnlockRetry(t)
  \/ WritersPost(t) \/ ReadersPost(t)
  \/ ReadUnlockBegin(t) \/ ReadUnlockPublish(t) \/ ReadUnlockRetry(t)

Step(t) == LockStep(t) \/ TryLockStep(t) \/ ReadLockStep(t) \/ UnlockStep(t)

Start(t) == LockBegin(t) \/ TryLockBegin(t) \/ ReadLockBegin(t)

\* Every thread has used up its operations and returned from them.
Done ==
  /\ \A t \in Threads : pc[t] = "idle" /\ ops[t] = 0
  /\ UNCHANGED vars

Next == (\E t \in Threads : Step(t) \/ Start(t)) \/ Done

Spec == Init /\ [][Next]_vars

\* A thread inside an operation keeps running: the scheduler is fair to it and
\* its critical sections end.  Nothing obliges a thread to start an operation.
FairSpec == Spec /\ \A t \in Threads : WF_vars(Step(t))

-----------------------------------------------------------------------------
(* Properties *)

Writing == {t \in Threads : pc[t] \in {"writing", "unlock"}}
Reading == {t \in Threads : pc[t] \in {"reading", "read_unlock"}}
WritersBlocked == {t \in Threads : pc[t] = "writers_wait"}

\* Whoever will clear kWriterSpinWait or pass the duty on: a writer that is
\* awake and must reset it, or a thread about to post writers_.
WriterSpinOwners ==
  {t \in Threads : \/ pc[t] \in {"lock_reload", "writers_post"}
                   \/ pc[t] = "lock" /\ reset[t]}

\* A writer has been taken out of waitingWriter and has not returned from Wait.
WriterWakeup == writers # 0 \/ \E t \in Threads : pc[t] = "writers_post"

ReaderSpinOwners ==
  {t \in Threads :
     pc[t] = "readlock_reload" \/ (pc[t] = "readlock" /\ reset[t])}

\* The state word, the semaphores and the locals have their types.
TypeOK ==
  /\ state \in Word
  /\ writers \in Nat
  /\ readers \in Nat
  /\ pc \in [Threads -> Label]
  /\ seen \in [Threads -> Word]
  /\ spin \in [Threads -> Nat]
  /\ reset \in [Threads -> BOOLEAN]
  /\ wake \in [Threads -> Nat]
  /\ ops \in [Threads -> Nat]

\* Lock excludes everybody, ReadLock excludes writers: between the return of
\* Lock (or a TryLock that returned true) and the exchange of Unlock no other
\* thread is between ReadLock or Lock and its release.
MutualExclusion ==
  /\ \A t, u \in Writing : t = u
  /\ Writing = {} \/ Reading = {}

\* The word counts exactly the threads that hold the mutex, and every parked
\* writer is in waitingWriter except at most one, whose wakeup is about to be
\* posted or is a token of writers_: Unlock and ReadUnlock neither lose nor
\* invent a wakeup of a writer.
WriterAccounting ==
  /\ state.readerLock = Cardinality(Reading)
  /\ state.writerLock <=> Writing # {}
  /\ state.waitingWriter + (IF WriterWakeup THEN 1 ELSE 0)
       = Cardinality(WritersBlocked)

\* kWriterSpinWait has exactly one owner: an awake writer that will reset it,
\* a thread about to post writers_, or the one token in writers_.  So a flag
\* that suppresses wakeups is never left behind, and two writers never both
\* think that they must reset it.
WriterSpinHasOneOwner ==
  /\ \A t, u \in WriterSpinOwners : t = u
  /\ writers = 0 \/ (writers = 1 /\ WriterSpinOwners = {})
  /\ state.writerSpinWait <=> (WriterSpinOwners # {} \/ writers = 1)

\* The DCHECK of Lock: a writer that was woken, or that set the flag, still
\* finds kWriterSpinWait set when it reloads the word.
LockDCheck ==
  \A t \in Threads : pc[t] = "lock_reload" => state.writerSpinWait

\* kReaderSpinWait is set only while some reader is awake to reset it, or is
\* being woken.
ReaderSpinHasOwner ==
  state.readerSpinWait =>
    \/ ReaderSpinOwners # {}
    \/ \E t \in Threads : pc[t] = "readers_post"
    \/ readers > 0

\* No wakeup is lost: parked writers are looked after by a holder of the mutex
\* or by an awake spinner; parked readers by the writer that holds it, or by a
\* writer that is awake or parked and whose Unlock will wake them.
NoLostWakeup ==
  /\ state.waitingWriter # 0 => Locked(state) \/ Spinning(state)
  /\ state.waitingReader # 0 =>
       state.writerLock \/ state.writerSpinWait \/ state.waitingWriter # 0

\* No counter of the word outgrows its bits, so an increment never carries
\* into the neighbouring counter and a decrement never borrows from it.
CountersFit ==
  /\ state.readerLock < 2^kCounterWidth
  /\ state.waitingWriter < 2^kCounterWidth

\* Every Lock, ReadLock and TryLock returns when the holders release the mutex
\* and no thread keeps taking it: nobody stays parked.
OperationsReturn == \A t \in Threads : pc[t] # "idle" ~> pc[t] = "idle"

-----------------------------------------------------------------------------
(* The mutex implements a reader-writer lock. *)
RW == INSTANCE RWLock WITH writing <- Writing, reading <- Reading
RWSpec == RW!Spec
=============================================================================
