------------------------ MODULE SanitizerMutexProofs ------------------------
(***************************************************************************)
(* Proofs about Mutex for any number of threads, any spinning bound and    *)
(* any number of operations, and about the Semaphore its threads park on.  *)
(***************************************************************************)
EXTENDS Locks, FiniteSetTheorems, TLAPS

\* The counter c becomes d when a thread goes from condition p to condition q.
Follows(c, d, p, q) ==
  /\ c \in Nat /\ d \in Nat
  /\ p => c > 0
  /\ (p <=> q) => d = c
  /\ (p /\ ~q) => d = c - 1
  /\ (~p /\ q) => d = c + 1

\* When two sets of threads agree on everybody but t, their sizes differ by
\* what happens to t.
LEMMA CardinalityStep ==
  ASSUME NEW S \in SUBSET Threads, NEW T \in SUBSET Threads,
         NEW t \in Threads,
         \A u \in Threads \ {t} : u \in S <=> u \in T
  PROVE  /\ Follows(Cardinality(S), Cardinality(T), t \in S, t \in T)
         /\ Cardinality(S) = 0 <=> S = {}
<1> USE DEF Follows
<1>1. IsFiniteSet(S) /\ IsFiniteSet(T)
  BY MutexAssumption, FS_Subset
<1>2. Cardinality(S) \in Nat /\ Cardinality(T) \in Nat
  BY <1>1, FS_CardinalityType
<1>3. Cardinality(S) = 0 <=> S = {}
  BY <1>1, FS_EmptySet
<1>4. CASE t \in S <=> t \in T
  <2>1. S = T
    BY <1>4
  <2> QED
    BY <1>2, <1>3, <1>4, <2>1
<1>5. CASE t \notin S /\ t \in T
  <2>1. T = S \cup {t}
    BY <1>5
  <2>2. Cardinality(T) = Cardinality(S) + 1
    BY <1>1, <1>5, <2>1, FS_AddElement
  <2> QED
    BY <1>2, <1>3, <1>5, <2>2
<1>6. CASE t \in S /\ t \notin T
  <2>1. T = S \ {t}
    BY <1>6
  <2>2. Cardinality(T) = Cardinality(S) - 1
    BY <1>1, <1>6, <2>1, FS_RemoveElement
  <2> QED
    BY <1>2, <1>3, <1>6, <2>2
<1> QED
  BY <1>4, <1>5, <1>6

\* The other threads stay where they are while t takes a step.
OnlyMoves(t) ==
  \A u \in Threads \ {t} : pc'[u] = pc[u] /\ reset'[u] = reset[u]

IsReading(l) == l \in {"reading", "read_unlock"}
IsWriting(l) == l \in {"writing", "unlock"}
OwnsWriterSpin(l, r) ==
  l \in {"lock_reload", "writers_post"} \/ (l = "lock" /\ r)

\* An action of thread t moves t between the sets of threads that the
\* invariants count and leaves everybody else where they were.
LEMMA CountStep ==
  ASSUME NEW t \in Threads, OnlyMoves(t)
  PROVE  /\ Follows(Cardinality(Reading), Cardinality(Reading'),
                    IsReading(pc[t]), IsReading(pc'[t]))
         /\ Follows(Cardinality(WritersBlocked), Cardinality(WritersBlocked'),
                    pc[t] = "writers_wait", pc'[t] = "writers_wait")
<1> USE DEF Follows, OnlyMoves
<1>1. Follows(Cardinality(Reading), Cardinality(Reading'),
              t \in Reading, t \in Reading')
  BY CardinalityStep DEF Reading
<1>2. Follows(Cardinality(WritersBlocked), Cardinality(WritersBlocked'),
              t \in WritersBlocked, t \in WritersBlocked')
  BY CardinalityStep DEF WritersBlocked
<1>3. /\ t \in Reading <=> IsReading(pc[t])
      /\ t \in Reading' <=> IsReading(pc'[t])
      /\ t \in WritersBlocked <=> pc[t] = "writers_wait"
      /\ t \in WritersBlocked' <=> pc'[t] = "writers_wait"
  BY DEF Reading, WritersBlocked, IsReading
<1> QED
  BY <1>1, <1>2, <1>3

-----------------------------------------------------------------------------
(* The inductive invariant *)

\* A thread that posts readers_ has somebody to wake.
WakePositive == \A t \in Threads : pc[t] = "readers_post" => wake[t] # 0

\* MutualExclusion needs the counters of the word to be exact, their exactness
\* needs the types (no decrement below zero), and the waiting counters need the
\* single owner of kWriterSpinWait.
IInv ==
  /\ TypeOK
  /\ WriterAccounting
  /\ WriterSpinHasOneOwner
  /\ MutualExclusion
  /\ WakePositive
  /\ ReaderSpinHasOwner
  /\ NoLostWakeup


\* What a thread knows from where it is: a writer that must reset the flag
\* finds it set, a holder finds itself in the word.
LEMMA HolderFacts ==
  ASSUME IInv, NEW t \in Threads
  PROVE  /\ OwnsWriterSpin(pc[t], reset[t]) => state.writerSpinWait
         /\ IsReading(pc[t]) => state.readerLock > 0 /\ ~state.writerLock
         /\ IsWriting(pc[t]) => state.writerLock /\ state.readerLock = 0
         /\ state.readerLock = 0 <=> Reading = {}
         /\ state.writerLock <=> Writing # {}
<1> USE DEF IInv, TypeOK, Word
<1>1. state.readerLock = 0 <=> Reading = {}
  BY CardinalityStep DEF Reading, WriterAccounting
<1>2. state.writerLock <=> Writing # {}
  BY DEF WriterAccounting
<1>3. OwnsWriterSpin(pc[t], reset[t]) => state.writerSpinWait
  BY DEF OwnsWriterSpin, WriterSpinOwners, WriterSpinHasOneOwner
<1>4. IsReading(pc[t]) => state.readerLock > 0 /\ ~state.writerLock
  BY <1>1, <1>2 DEF IsReading, Reading, MutualExclusion
<1>5. IsWriting(pc[t]) => state.writerLock /\ state.readerLock = 0
  BY <1>1, <1>2 DEF IsWriting, Writing, MutualExclusion
<1> QED
  BY <1>1, <1>2, <1>3, <1>4, <1>5

OwnsReaderSpin(l, r) == l = "readlock_reload" \/ (l = "readlock" /\ r)

\* A step that leaves the word and the semaphores alone, and moves its thread
\* only between places that the invariants do not tell apart.
LEMMA QuietStep ==
  ASSUME IInv, NEW t \in Threads, OnlyMoves(t), TypeOK',
         UNCHANGED <<state, writers, readers, wake>>,
         IsReading(pc[t]) <=> IsReading(pc'[t]),
         IsWriting(pc[t]) <=> IsWriting(pc'[t]),
         pc[t] = "writers_wait" <=> pc'[t] = "writers_wait",
         pc[t] = "writers_post" <=> pc'[t] = "writers_post",
         pc[t] = "readers_post" <=> pc'[t] = "readers_post",
         OwnsWriterSpin(pc[t], reset[t]) <=> OwnsWriterSpin(pc'[t], reset'[t]),
         OwnsReaderSpin(pc[t], reset[t]) => OwnsReaderSpin(pc'[t], reset'[t])
  PROVE  IInv'
<1> USE DEF IInv, OnlyMoves
<1>1. Writing' = Writing /\ Reading' = Reading
  BY DEF Writing, Reading, IsWriting, IsReading
<1>2. WritersBlocked' = WritersBlocked /\ WriterSpinOwners' = WriterSpinOwners
  BY DEF WritersBlocked, WriterSpinOwners, OwnsWriterSpin
<1>3. WriterWakeup' <=> WriterWakeup
  BY DEF WriterWakeup
<1>4. ReaderSpinOwners \subseteq ReaderSpinOwners'
  BY DEF ReaderSpinOwners, OwnsReaderSpin
<1>5. WriterAccounting'
  BY <1>1, <1>2, <1>3 DEF WriterAccounting
<1>6. WriterSpinHasOneOwner'
  BY <1>2 DEF WriterSpinHasOneOwner
<1>7. MutualExclusion'
  BY <1>1 DEF MutualExclusion
<1>8. WakePositive'
  BY DEF WakePositive
<1>9. ReaderSpinHasOwner'
  BY <1>4 DEF ReaderSpinHasOwner
<1>10. NoLostWakeup'
  BY DEF NoLostWakeup, Locked, Spinning
<1> QED
  BY <1>5, <1>6, <1>7, <1>8, <1>9, <1>10

\* Quiet steps: starting an operation, spinning, a failed compare-exchange,
\* reloading the word.
LEMMA QuietActions ==
  ASSUME IInv, NEW t \in Threads
  PROVE  /\ Start(t) => IInv'
         /\ LockSpin(t) \/ LockRetry(t) \/ LockReload(t) => IInv'
         /\ TryLockFail(t) \/ TryLockRetry(t) => IInv'
         /\ UnlockBegin(t) \/ UnlockRetry(t) => IInv'
         /\ ReadLockSpin(t) \/ ReadLockRetry(t) \/ ReadLockReload(t) => IInv'
         /\ ReadUnlockBegin(t) \/ ReadUnlockRetry(t) => IInv'
<1> USE DEF TypeOK, Label, Goto, OnlyMoves, IsReading, IsWriting,
            OwnsWriterSpin, OwnsReaderSpin
<1>0. TypeOK
  BY DEF IInv
<1>1. ASSUME LockBegin(t) PROVE IInv'
  <2>1. TypeOK'
    BY <1>1, <1>0, MutexAssumption DEF LockBegin, Begin, Load
  <2>2. /\ OnlyMoves(t)
        /\ pc[t] = "idle" /\ pc'[t] = "lock"
        /\ reset'[t] = FALSE
        /\ UNCHANGED <<state, writers, readers, wake>>
    BY <1>1, <1>0 DEF LockBegin, Begin, Load
  <2> QED
    BY <2>1, <2>2, QuietStep
<1>2. ASSUME TryLockBegin(t) PROVE IInv'
  <2>1. TypeOK'
    BY <1>2, <1>0, MutexAssumption DEF TryLockBegin, Begin, Load
  <2>2. /\ OnlyMoves(t) /\ pc[t] = "idle" /\ pc'[t] = "trylock"
        /\ UNCHANGED <<state, writers, readers, wake>>
    BY <1>2, <1>0 DEF TryLockBegin, Begin, Load
  <2> QED
    BY <2>1, <2>2, QuietStep
<1>3. ASSUME ReadLockBegin(t) PROVE IInv'
  <2>1. TypeOK'
    BY <1>3, <1>0, MutexAssumption DEF ReadLockBegin, Begin, Load
  <2>2. /\ OnlyMoves(t)
        /\ pc[t] = "idle" /\ pc'[t] = "readlock"
        /\ reset'[t] = FALSE
        /\ UNCHANGED <<state, writers, readers, wake>>
    BY <1>3, <1>0 DEF ReadLockBegin, Begin, Load
  <2> QED
    BY <2>1, <2>2, QuietStep
<1>4. ASSUME LockSpin(t) PROVE IInv'
  <2>1. TypeOK'
    BY <1>4, <1>0, MutexAssumption
       DEF LockSpin, Spin, CountSpin, SpinNext, Load
  <2>2. /\ OnlyMoves(t)
        /\ pc[t] = "lock" /\ pc'[t] = "lock"
        /\ reset'[t] = reset[t]
        /\ UNCHANGED <<state, writers, readers, wake>>
    BY <1>4, <1>0 DEF LockSpin, Spin, CountSpin, SpinNext, Load
  <2> QED
    BY <2>1, <2>2, QuietStep
<1>5. ASSUME LockRetry(t) PROVE IInv'
  <2>1. TypeOK'
    BY <1>5, <1>0, MutexAssumption
       DEF LockRetry, CasFails, CountSpin, SpinNext, Load
  <2>2. /\ OnlyMoves(t)
        /\ pc[t] = "lock" /\ pc'[t] = "lock"
        /\ reset'[t] = reset[t]
        /\ UNCHANGED <<state, writers, readers, wake>>
    BY <1>5, <1>0 DEF LockRetry, CasFails, CountSpin, SpinNext, Load
  <2> QED
    BY <2>1, <2>2, QuietStep
<1>6. ASSUME LockReload(t) PROVE IInv'
  <2>1. TypeOK'
    BY <1>6, <1>0, MutexAssumption
       DEF LockReload, Reload, CountSpin, SpinNext, Load
  <2>2. /\ OnlyMoves(t)
        /\ pc[t] = "lock_reload" /\ pc'[t] = "lock"
        /\ reset'[t] = TRUE
        /\ UNCHANGED <<state, writers, readers, wake>>
    BY <1>6, <1>0 DEF LockReload, Reload, CountSpin, SpinNext, Load
  <2> QED
    BY <2>1, <2>2, QuietStep
<1>7. ASSUME TryLockFail(t) PROVE IInv'
  <2>1. TypeOK'
    BY <1>7, <1>0, MutexAssumption DEF TryLockFail, Forget, Zero, Word
  <2>2. /\ OnlyMoves(t) /\ pc[t] = "trylock" /\ pc'[t] = "idle"
        /\ UNCHANGED <<state, writers, readers, wake>>
    BY <1>7, <1>0 DEF TryLockFail, Forget, Zero
  <2> QED
    BY <2>1, <2>2, QuietStep
<1>8. ASSUME TryLockRetry(t) PROVE IInv'
  <2>1. TypeOK'
    BY <1>8, <1>0, MutexAssumption DEF TryLockRetry, CasFails, Load
  <2>2. /\ OnlyMoves(t) /\ pc[t] = "trylock" /\ pc'[t] = "trylock"
        /\ UNCHANGED <<state, writers, readers, wake>>
    BY <1>8, <1>0 DEF TryLockRetry, CasFails, Load
  <2> QED
    BY <2>1, <2>2, QuietStep
<1>9. ASSUME UnlockBegin(t) PROVE IInv'
  <2>1. TypeOK'
    BY <1>9, <1>0, MutexAssumption DEF UnlockBegin, Load
  <2>2. /\ OnlyMoves(t) /\ pc[t] = "writing" /\ pc'[t] = "unlock"
        /\ UNCHANGED <<state, writers, readers, wake>>
    BY <1>9, <1>0 DEF UnlockBegin, Load
  <2> QED
    BY <2>1, <2>2, QuietStep
<1>10. ASSUME UnlockRetry(t) PROVE IInv'
  <2>1. TypeOK'
    BY <1>10, <1>0, MutexAssumption DEF UnlockRetry, CasFails, Load
  <2>2. /\ OnlyMoves(t) /\ pc[t] = "unlock" /\ pc'[t] = "unlock"
        /\ UNCHANGED <<state, writers, readers, wake>>
    BY <1>10, <1>0 DEF UnlockRetry, CasFails, Load
  <2> QED
    BY <2>1, <2>2, QuietStep
<1>11. ASSUME ReadLockSpin(t) PROVE IInv'
  <2>1. TypeOK'
    BY <1>11, <1>0, MutexAssumption
       DEF ReadLockSpin, Spin, CountSpin, SpinNext, Load
  <2>2. /\ OnlyMoves(t)
        /\ pc[t] = "readlock" /\ pc'[t] = "readlock"
        /\ reset'[t] = reset[t]
        /\ UNCHANGED <<state, writers, readers, wake>>
    BY <1>11, <1>0 DEF ReadLockSpin, Spin, CountSpin, SpinNext, Load
  <2> QED
    BY <2>1, <2>2, QuietStep
<1>12. ASSUME ReadLockRetry(t) PROVE IInv'
  <2>1. TypeOK'
    BY <1>12, <1>0, MutexAssumption
       DEF ReadLockRetry, CasFails, CountSpin, SpinNext, Load
  <2>2. /\ OnlyMoves(t)
        /\ pc[t] = "readlock" /\ pc'[t] = "readlock"
        /\ reset'[t] = reset[t]
        /\ UNCHANGED <<state, writers, readers, wake>>
    BY <1>12, <1>0 DEF ReadLockRetry, CasFails, CountSpin, SpinNext, Load
  <2> QED
    BY <2>1, <2>2, QuietStep
<1>13. ASSUME ReadLockReload(t) PROVE IInv'
  <2>1. TypeOK'
    BY <1>13, <1>0, MutexAssumption
       DEF ReadLockReload, Reload, CountSpin, SpinNext, Load
  <2>2. /\ OnlyMoves(t)
        /\ pc[t] = "readlock_reload" /\ pc'[t] = "readlock"
        /\ reset'[t] = TRUE
        /\ UNCHANGED <<state, writers, readers, wake>>
    BY <1>13, <1>0 DEF ReadLockReload, Reload, CountSpin, SpinNext, Load
  <2> QED
    BY <2>1, <2>2, QuietStep
<1>14. ASSUME ReadUnlockBegin(t) PROVE IInv'
  <2>1. TypeOK'
    BY <1>14, <1>0, MutexAssumption DEF ReadUnlockBegin, Load
  <2>2. /\ OnlyMoves(t) /\ pc[t] = "reading" /\ pc'[t] = "read_unlock"
        /\ UNCHANGED <<state, writers, readers, wake>>
    BY <1>14, <1>0 DEF ReadUnlockBegin, Load
  <2> QED
    BY <2>1, <2>2, QuietStep
<1>15. ASSUME ReadUnlockRetry(t) PROVE IInv'
  <2>1. TypeOK'
    BY <1>15, <1>0, MutexAssumption DEF ReadUnlockRetry, CasFails, Load
  <2>2. /\ OnlyMoves(t) /\ pc[t] = "read_unlock" /\ pc'[t] = "read_unlock"
        /\ UNCHANGED <<state, writers, readers, wake>>
    BY <1>15, <1>0 DEF ReadUnlockRetry, CasFails, Load
  <2> QED
    BY <2>1, <2>2, QuietStep
<1> QED
  BY <1>1, <1>2, <1>3, <1>4, <1>5, <1>6, <1>7, <1>8, <1>9,
     <1>10, <1>11, <1>12, <1>13, <1>14, <1>15
     DEF Start

\* Updating a field keeps the word well-formed.
LEMMA WordUpdates ==
  ASSUME NEW w \in Word, NEW t \in Threads
  PROVE  /\ [w EXCEPT !.writerLock = TRUE] \in Word
         /\ [w EXCEPT !.waitingWriter = @ + 1] \in Word
         /\ [w EXCEPT !.writerSpinWait = TRUE] \in Word
         /\ [w EXCEPT !.readerLock = @ + 1] \in Word
         /\ [w EXCEPT !.waitingReader = @ + 1] \in Word
         /\ [w EXCEPT !.readerSpinWait = TRUE] \in Word
         /\ ResetWriter(t, w) \in Word
         /\ ResetReader(t, w) \in Word
         /\ Zero \in Word
         /\ w.readerLock # 0 => [w EXCEPT !.readerLock = @ - 1] \in Word
         /\ [w EXCEPT !.writerLock = FALSE] \in Word
         /\ w.waitingWriter # 0 => HandToWriter(w) \in Word
<1>1. /\ [w EXCEPT !.writerLock = TRUE] \in Word
      /\ [w EXCEPT !.writerSpinWait = TRUE] \in Word
      /\ [w EXCEPT !.readerSpinWait = TRUE] \in Word
  BY DEF Word
<1>2. /\ [w EXCEPT !.waitingWriter = @ + 1] \in Word
      /\ [w EXCEPT !.readerLock = @ + 1] \in Word
      /\ [w EXCEPT !.waitingReader = @ + 1] \in Word
  BY DEF Word
<1>3. ResetWriter(t, w) \in Word /\ ResetReader(t, w) \in Word
  BY DEF Word, ResetWriter, ResetReader
<1>4. w.readerLock # 0 => [w EXCEPT !.readerLock = @ - 1] \in Word
  BY DEF Word
<1>5. [w EXCEPT !.writerLock = FALSE] \in Word
  BY DEF Word
<1>6. ASSUME w.waitingWriter # 0 PROVE HandToWriter(w) \in Word
  <2> DEFINE v == [w EXCEPT !.waitingWriter = @ - 1]
  <2>1. v \in Word
    BY <1>6 DEF Word
  <2>2. [v EXCEPT !.writerSpinWait = TRUE] \in Word
    BY <2>1 DEF Word
  <2>3. HandToWriter(w) = [v EXCEPT !.writerSpinWait = TRUE]
    BY DEF HandToWriter, Word
  <2> QED
    BY <2>2, <2>3
<1> QED
  BY <1>1, <1>2, <1>3, <1>4, <1>5, <1>6 DEF Word, Zero

LoudStep(t) ==
  \/ LockAcquire(t)
  \/ LockBlock(t)
  \/ LockMark(t)
  \/ LockWoken(t)
  \/ TryLockAcquire(t)
  \/ WritersPost(t)
  \/ ReadersPost(t)
  \/ ReadLockAcquire(t)
  \/ ReadLockBlock(t)
  \/ ReadLockMark(t)
  \/ ReadLockWoken(t)

\* Steps that change the word or a semaphore.
LEMMA LoudActions ==
  ASSUME IInv, NEW t \in Threads
  PROVE  LoudStep(t) => IInv'
<1>1. ASSUME LockAcquire(t) PROVE IInv'
  <2>1. TypeOK'
    BY <1>1, WordUpdates
       DEF IInv, TypeOK, Label, LockAcquire, Goto, Publish, Forget, Locked
  <2>2. /\ pc[t] = "lock"
        /\ pc'[t] = "writing"
        /\ OnlyMoves(t)
        /\ ~state.writerLock
        /\ state.readerLock = 0
        /\ UNCHANGED <<writers, readers, wake>>
        /\ state'.readerLock = state.readerLock
        /\ state'.waitingReader = state.waitingReader
        /\ state'.waitingWriter = state.waitingWriter
        /\ state'.writerLock <=> TRUE
        /\ state'.writerSpinWait <=> (state.writerSpinWait /\ ~reset[t])
        /\ state'.readerSpinWait <=> state.readerSpinWait
    BY <1>1
       DEF IInv, TypeOK, Word, OnlyMoves, LockAcquire, Goto, Publish,
           ResetWriter, Forget, Locked, Zero
  <2>3. state'.readerLock = Cardinality(Reading')
    BY <2>1, <2>2, CountStep
       DEF IInv, TypeOK, Word, WriterAccounting, Follows, IsReading
  <2>4. state'.writerLock <=> Writing' # {}
    BY <2>2 DEF IInv, TypeOK, Word, WriterAccounting, Writing, OnlyMoves
  <2>5. WriterWakeup' <=> WriterWakeup
    BY <2>2
       DEF IInv, TypeOK, WriterWakeup, OnlyMoves, WriterSpinHasOneOwner,
           WriterSpinOwners
  <2>6. WriterSpinOwners' = WriterSpinOwners \ {t}
    BY <2>2 DEF WriterSpinOwners, OnlyMoves
  <2>7. state'.waitingWriter + (IF WriterWakeup' THEN 1 ELSE 0)
          = Cardinality(WritersBlocked')
    <3>1. Follows(Cardinality(WritersBlocked), Cardinality(WritersBlocked'),
                  pc[t] = "writers_wait", pc'[t] = "writers_wait")
      BY <2>2, CountStep
    <3> QED
      BY <2>1, <2>2, <2>5, <3>1
         DEF IInv, TypeOK, Word, WriterAccounting, Follows
  <2>8. WriterSpinHasOneOwner'
    <3>1. t \in WriterSpinOwners <=> OwnsWriterSpin(pc[t], reset[t])
      BY DEF WriterSpinOwners, OwnsWriterSpin
    <3> QED
      BY <2>1, <2>2, <2>6, <3>1, HolderFacts
         DEF IInv, TypeOK, Word, WriterSpinHasOneOwner, OwnsWriterSpin
  <2>9. MutualExclusion'
    BY <2>2, HolderFacts
       DEF IInv, MutualExclusion, Writing, Reading, OnlyMoves, IsWriting,
           IsReading
  <2>10. WakePositive'
    BY <2>2, <1>1
       DEF IInv, TypeOK, WakePositive, OnlyMoves, LockAcquire, Goto, Publish,
           ResetWriter, Forget, Locked, Zero
  <2>11. ReaderSpinHasOwner'
    BY <2>1, <2>2, <1>1
       DEF IInv, TypeOK, Word, ReaderSpinHasOwner, ReaderSpinOwners,
           WakePositive, OnlyMoves, LockAcquire, Goto, Publish, ResetWriter,
           Forget, Locked, Zero
  <2>12. NoLostWakeup'
    BY <2>1, <2>2 DEF IInv, TypeOK, Word, NoLostWakeup, Locked, Spinning
  <2> QED
    BY <2>1, <2>3, <2>4, <2>7, <2>8, <2>9, <2>10, <2>11, <2>12
       DEF IInv, WriterAccounting
<1>2. ASSUME LockBlock(t) PROVE IInv'
  <2>1. TypeOK'
    BY <1>2, WordUpdates
       DEF IInv, TypeOK, Label, LockBlock, Goto, Publish, Forget, Locked
  <2>2. /\ pc[t] = "lock"
        /\ pc'[t] = "writers_wait"
        /\ OnlyMoves(t)
        /\ Locked(state)
        /\ UNCHANGED <<writers, readers, wake>>
        /\ state'.readerLock = state.readerLock
        /\ state'.waitingReader = state.waitingReader
        /\ state'.waitingWriter = state.waitingWriter + 1
        /\ state'.writerLock <=> state.writerLock
        /\ state'.writerSpinWait <=> (state.writerSpinWait /\ ~reset[t])
        /\ state'.readerSpinWait <=> state.readerSpinWait
    BY <1>2
       DEF IInv, TypeOK, Word, OnlyMoves, LockBlock, Goto, Publish,
           ResetWriter, Forget, Locked, Zero
  <2>3. state'.readerLock = Cardinality(Reading')
    BY <2>1, <2>2, CountStep
       DEF IInv, TypeOK, Word, WriterAccounting, Follows, IsReading
  <2>4. state'.writerLock <=> Writing' # {}
    BY <2>2 DEF IInv, TypeOK, Word, WriterAccounting, Writing, OnlyMoves
  <2>5. WriterWakeup' <=> WriterWakeup
    BY <2>2
       DEF IInv, TypeOK, WriterWakeup, OnlyMoves, WriterSpinHasOneOwner,
           WriterSpinOwners
  <2>6. WriterSpinOwners' = WriterSpinOwners \ {t}
    BY <2>2 DEF WriterSpinOwners, OnlyMoves
  <2>7. state'.waitingWriter + (IF WriterWakeup' THEN 1 ELSE 0)
          = Cardinality(WritersBlocked')
    <3>1. Follows(Cardinality(WritersBlocked), Cardinality(WritersBlocked'),
                  pc[t] = "writers_wait", pc'[t] = "writers_wait")
      BY <2>2, CountStep
    <3> QED
      BY <2>1, <2>2, <2>5, <3>1
         DEF IInv, TypeOK, Word, WriterAccounting, Follows
  <2>8. WriterSpinHasOneOwner'
    <3>1. t \in WriterSpinOwners <=> OwnsWriterSpin(pc[t], reset[t])
      BY DEF WriterSpinOwners, OwnsWriterSpin
    <3> QED
      BY <2>1, <2>2, <2>6, <3>1, HolderFacts
         DEF IInv, TypeOK, Word, WriterSpinHasOneOwner, OwnsWriterSpin
  <2>9. MutualExclusion'
    BY <2>2, HolderFacts
       DEF IInv, MutualExclusion, Writing, Reading, OnlyMoves, IsWriting,
           IsReading
  <2>10. WakePositive'
    BY <2>2, <1>2
       DEF IInv, TypeOK, WakePositive, OnlyMoves, LockBlock, Goto, Publish,
           ResetWriter, Forget, Locked, Zero
  <2>11. ReaderSpinHasOwner'
    BY <2>1, <2>2, <1>2
       DEF IInv, TypeOK, Word, ReaderSpinHasOwner, ReaderSpinOwners,
           WakePositive, OnlyMoves, LockBlock, Goto, Publish, ResetWriter,
           Forget, Locked, Zero
  <2>12. NoLostWakeup'
    BY <2>1, <2>2 DEF IInv, TypeOK, Word, NoLostWakeup, Locked, Spinning
  <2> QED
    BY <2>1, <2>3, <2>4, <2>7, <2>8, <2>9, <2>10, <2>11, <2>12
       DEF IInv, WriterAccounting
<1>3. ASSUME LockMark(t) PROVE IInv'
  <2>1. TypeOK'
    BY <1>3, WordUpdates
       DEF IInv, TypeOK, Label, LockMark, Goto, Publish, Locked
  <2>2. /\ pc[t] = "lock"
        /\ pc'[t] = "lock_reload"
        /\ OnlyMoves(t)
        /\ Locked(state)
        /\ ~state.writerSpinWait
        /\ reset' = reset
        /\ UNCHANGED <<writers, readers, wake>>
        /\ state'.readerLock = state.readerLock
        /\ state'.waitingReader = state.waitingReader
        /\ state'.waitingWriter = state.waitingWriter
        /\ state'.writerLock <=> state.writerLock
        /\ state'.writerSpinWait <=> TRUE
        /\ state'.readerSpinWait <=> state.readerSpinWait
    BY <1>3
       DEF IInv, TypeOK, Word, OnlyMoves, LockMark, Goto, Publish, Locked, Zero
  <2>3. state'.readerLock = Cardinality(Reading')
    BY <2>1, <2>2, CountStep
       DEF IInv, TypeOK, Word, WriterAccounting, Follows, IsReading
  <2>4. state'.writerLock <=> Writing' # {}
    BY <2>2 DEF IInv, TypeOK, Word, WriterAccounting, Writing, OnlyMoves
  <2>5. WriterWakeup' <=> WriterWakeup
    BY <2>2
       DEF IInv, TypeOK, WriterWakeup, OnlyMoves, WriterSpinHasOneOwner,
           WriterSpinOwners
  <2>6. WriterSpinOwners' = WriterSpinOwners \cup {t}
    BY <2>2 DEF WriterSpinOwners, OnlyMoves
  <2>7. state'.waitingWriter + (IF WriterWakeup' THEN 1 ELSE 0)
          = Cardinality(WritersBlocked')
    <3>1. Follows(Cardinality(WritersBlocked), Cardinality(WritersBlocked'),
                  pc[t] = "writers_wait", pc'[t] = "writers_wait")
      BY <2>2, CountStep
    <3> QED
      BY <2>1, <2>2, <2>5, <3>1
         DEF IInv, TypeOK, Word, WriterAccounting, Follows
  <2>8. WriterSpinHasOneOwner'
    <3>1. t \in WriterSpinOwners <=> OwnsWriterSpin(pc[t], reset[t])
      BY DEF WriterSpinOwners, OwnsWriterSpin
    <3> QED
      BY <2>1, <2>2, <2>6, <3>1, HolderFacts
         DEF IInv, TypeOK, Word, WriterSpinHasOneOwner, OwnsWriterSpin
  <2>9. MutualExclusion'
    BY <2>2, HolderFacts
       DEF IInv, MutualExclusion, Writing, Reading, OnlyMoves, IsWriting,
           IsReading
  <2>10. WakePositive'
    BY <2>2, <1>3
       DEF IInv, TypeOK, WakePositive, OnlyMoves, LockMark, Goto, Publish,
           Locked, Zero
  <2>11. ReaderSpinHasOwner'
    BY <2>1, <2>2, <1>3
       DEF IInv, TypeOK, Word, ReaderSpinHasOwner, ReaderSpinOwners,
           WakePositive, OnlyMoves, LockMark, Goto, Publish, Locked, Zero
  <2>12. NoLostWakeup'
    BY <2>1, <2>2 DEF IInv, TypeOK, Word, NoLostWakeup, Locked, Spinning
  <2> QED
    BY <2>1, <2>3, <2>4, <2>7, <2>8, <2>9, <2>10, <2>11, <2>12
       DEF IInv, WriterAccounting
<1>4. ASSUME LockWoken(t) PROVE IInv'
  <2>1. TypeOK'
    BY <1>4 DEF IInv, TypeOK, Label, LockWoken, Goto
  <2>2. /\ pc[t] = "writers_wait"
        /\ pc'[t] = "lock_reload"
        /\ OnlyMoves(t)
        /\ writers > 0
        /\ writers' = writers - 1
        /\ UNCHANGED <<state, readers, wake>>
    BY <1>4 DEF IInv, TypeOK, Word, OnlyMoves, LockWoken, Goto
  <2>3. state'.readerLock = Cardinality(Reading')
    BY <2>1, <2>2, CountStep
       DEF IInv, TypeOK, Word, WriterAccounting, Follows, IsReading
  <2>4. state'.writerLock <=> Writing' # {}
    BY <2>2 DEF IInv, TypeOK, Word, WriterAccounting, Writing, OnlyMoves
  <2>5. WriterWakeup /\ ~WriterWakeup'
    BY <2>2
       DEF IInv, TypeOK, WriterWakeup, OnlyMoves, WriterSpinHasOneOwner,
           WriterSpinOwners
  <2>6. WriterSpinOwners' = WriterSpinOwners \cup {t}
    BY <2>2 DEF WriterSpinOwners, OnlyMoves
  <2>7. state'.waitingWriter + (IF WriterWakeup' THEN 1 ELSE 0)
          = Cardinality(WritersBlocked')
    <3>1. Follows(Cardinality(WritersBlocked), Cardinality(WritersBlocked'),
                  pc[t] = "writers_wait", pc'[t] = "writers_wait")
      BY <2>2, CountStep
    <3> QED
      BY <2>1, <2>2, <2>5, <3>1
         DEF IInv, TypeOK, Word, WriterAccounting, Follows
  <2>8. WriterSpinHasOneOwner'
    <3>1. t \in WriterSpinOwners <=> OwnsWriterSpin(pc[t], reset[t])
      BY DEF WriterSpinOwners, OwnsWriterSpin
    <3> QED
      BY <2>1, <2>2, <2>6, <3>1, HolderFacts
         DEF IInv, TypeOK, Word, WriterSpinHasOneOwner, OwnsWriterSpin
  <2>9. MutualExclusion'
    BY <2>2, HolderFacts
       DEF IInv, MutualExclusion, Writing, Reading, OnlyMoves, IsWriting,
           IsReading
  <2>10. WakePositive'
    BY <2>2, <1>4 DEF IInv, TypeOK, WakePositive, OnlyMoves, LockWoken, Goto
  <2>11. ReaderSpinHasOwner'
    BY <2>1, <2>2, <1>4
       DEF IInv, TypeOK, Word, ReaderSpinHasOwner, ReaderSpinOwners,
           WakePositive, OnlyMoves, LockWoken, Goto
  <2>12. NoLostWakeup'
    BY <2>1, <2>2 DEF IInv, TypeOK, Word, NoLostWakeup, Locked, Spinning
  <2> QED
    BY <2>1, <2>3, <2>4, <2>7, <2>8, <2>9, <2>10, <2>11, <2>12
       DEF IInv, WriterAccounting
<1>5. ASSUME TryLockAcquire(t) PROVE IInv'
  <2>1. TypeOK'
    BY <1>5, WordUpdates
       DEF IInv, TypeOK, Label, TryLockAcquire, Goto, Publish, Forget, Locked
  <2>2. /\ pc[t] = "trylock"
        /\ pc'[t] = "writing"
        /\ OnlyMoves(t)
        /\ ~state.writerLock
        /\ state.readerLock = 0
        /\ UNCHANGED <<writers, readers, wake>>
        /\ state'.readerLock = state.readerLock
        /\ state'.waitingReader = state.waitingReader
        /\ state'.waitingWriter = state.waitingWriter
        /\ state'.writerLock <=> TRUE
        /\ state'.writerSpinWait <=> state.writerSpinWait
        /\ state'.readerSpinWait <=> state.readerSpinWait
    BY <1>5
       DEF IInv, TypeOK, Word, OnlyMoves, TryLockAcquire, Goto, Publish,
           Forget, Locked, Zero
  <2>3. state'.readerLock = Cardinality(Reading')
    BY <2>1, <2>2, CountStep
       DEF IInv, TypeOK, Word, WriterAccounting, Follows, IsReading
  <2>4. state'.writerLock <=> Writing' # {}
    BY <2>2 DEF IInv, TypeOK, Word, WriterAccounting, Writing, OnlyMoves
  <2>5. WriterWakeup' <=> WriterWakeup
    BY <2>2
       DEF IInv, TypeOK, WriterWakeup, OnlyMoves, WriterSpinHasOneOwner,
           WriterSpinOwners
  <2>6. WriterSpinOwners' = WriterSpinOwners
    BY <2>2 DEF WriterSpinOwners, OnlyMoves
  <2>7. state'.waitingWriter + (IF WriterWakeup' THEN 1 ELSE 0)
          = Cardinality(WritersBlocked')
    <3>1. Follows(Cardinality(WritersBlocked), Cardinality(WritersBlocked'),
                  pc[t] = "writers_wait", pc'[t] = "writers_wait")
      BY <2>2, CountStep
    <3> QED
      BY <2>1, <2>2, <2>5, <3>1
         DEF IInv, TypeOK, Word, WriterAccounting, Follows
  <2>8. WriterSpinHasOneOwner'
    <3>1. t \in WriterSpinOwners <=> OwnsWriterSpin(pc[t], reset[t])
      BY DEF WriterSpinOwners, OwnsWriterSpin
    <3> QED
      BY <2>1, <2>2, <2>6, <3>1, HolderFacts
         DEF IInv, TypeOK, Word, WriterSpinHasOneOwner, OwnsWriterSpin
  <2>9. MutualExclusion'
    BY <2>2, HolderFacts
       DEF IInv, MutualExclusion, Writing, Reading, OnlyMoves, IsWriting,
           IsReading
  <2>10. WakePositive'
    BY <2>2, <1>5
       DEF IInv, TypeOK, WakePositive, OnlyMoves, TryLockAcquire, Goto,
           Publish, Forget, Locked, Zero
  <2>11. ReaderSpinHasOwner'
    BY <2>1, <2>2, <1>5
       DEF IInv, TypeOK, Word, ReaderSpinHasOwner, ReaderSpinOwners,
           WakePositive, OnlyMoves, TryLockAcquire, Goto, Publish, Forget,
           Locked, Zero
  <2>12. NoLostWakeup'
    BY <2>1, <2>2 DEF IInv, TypeOK, Word, NoLostWakeup, Locked, Spinning
  <2> QED
    BY <2>1, <2>3, <2>4, <2>7, <2>8, <2>9, <2>10, <2>11, <2>12
       DEF IInv, WriterAccounting
<1>6. ASSUME WritersPost(t) PROVE IInv'
  <2>1. TypeOK'
    BY <1>6 DEF IInv, TypeOK, Label, WritersPost, Goto
  <2>2. /\ pc[t] = "writers_post"
        /\ pc'[t] = "idle"
        /\ OnlyMoves(t)
        /\ writers' = writers + 1
        /\ UNCHANGED <<state, readers, wake>>
    BY <1>6 DEF IInv, TypeOK, Word, OnlyMoves, WritersPost, Goto
  <2>3. state'.readerLock = Cardinality(Reading')
    BY <2>1, <2>2, CountStep
       DEF IInv, TypeOK, Word, WriterAccounting, Follows, IsReading
  <2>4. state'.writerLock <=> Writing' # {}
    BY <2>2 DEF IInv, TypeOK, Word, WriterAccounting, Writing, OnlyMoves
  <2>5. WriterWakeup /\ WriterWakeup'
    BY <2>2
       DEF IInv, TypeOK, WriterWakeup, OnlyMoves, WriterSpinHasOneOwner,
           WriterSpinOwners
  <2>6. WriterSpinOwners' = WriterSpinOwners \ {t}
    BY <2>2 DEF WriterSpinOwners, OnlyMoves
  <2>7. state'.waitingWriter + (IF WriterWakeup' THEN 1 ELSE 0)
          = Cardinality(WritersBlocked')
    <3>1. Follows(Cardinality(WritersBlocked), Cardinality(WritersBlocked'),
                  pc[t] = "writers_wait", pc'[t] = "writers_wait")
      BY <2>2, CountStep
    <3> QED
      BY <2>1, <2>2, <2>5, <3>1
         DEF IInv, TypeOK, Word, WriterAccounting, Follows
  <2>8. WriterSpinHasOneOwner'
    <3>1. t \in WriterSpinOwners <=> OwnsWriterSpin(pc[t], reset[t])
      BY DEF WriterSpinOwners, OwnsWriterSpin
    <3> QED
      BY <2>1, <2>2, <2>6, <3>1, HolderFacts
         DEF IInv, TypeOK, Word, WriterSpinHasOneOwner, OwnsWriterSpin
  <2>9. MutualExclusion'
    BY <2>2, HolderFacts
       DEF IInv, MutualExclusion, Writing, Reading, OnlyMoves, IsWriting,
           IsReading
  <2>10. WakePositive'
    BY <2>2, <1>6 DEF IInv, TypeOK, WakePositive, OnlyMoves, WritersPost, Goto
  <2>11. ReaderSpinHasOwner'
    BY <2>1, <2>2, <1>6
       DEF IInv, TypeOK, Word, ReaderSpinHasOwner, ReaderSpinOwners,
           WakePositive, OnlyMoves, WritersPost, Goto
  <2>12. NoLostWakeup'
    BY <2>1, <2>2 DEF IInv, TypeOK, Word, NoLostWakeup, Locked, Spinning
  <2> QED
    BY <2>1, <2>3, <2>4, <2>7, <2>8, <2>9, <2>10, <2>11, <2>12
       DEF IInv, WriterAccounting
<1>7. ASSUME ReadersPost(t) PROVE IInv'
  <2>1. TypeOK'
    BY <1>7 DEF IInv, TypeOK, Label, ReadersPost, Goto
  <2>2. /\ pc[t] = "readers_post"
        /\ pc'[t] = "idle"
        /\ OnlyMoves(t)
        /\ readers' = readers + wake[t]
        /\ UNCHANGED <<state, writers>>
    BY <1>7 DEF IInv, TypeOK, Word, OnlyMoves, ReadersPost, Goto
  <2>3. state'.readerLock = Cardinality(Reading')
    BY <2>1, <2>2, CountStep
       DEF IInv, TypeOK, Word, WriterAccounting, Follows, IsReading
  <2>4. state'.writerLock <=> Writing' # {}
    BY <2>2 DEF IInv, TypeOK, Word, WriterAccounting, Writing, OnlyMoves
  <2>5. WriterWakeup' <=> WriterWakeup
    BY <2>2
       DEF IInv, TypeOK, WriterWakeup, OnlyMoves, WriterSpinHasOneOwner,
           WriterSpinOwners
  <2>6. WriterSpinOwners' = WriterSpinOwners
    BY <2>2 DEF WriterSpinOwners, OnlyMoves
  <2>7. state'.waitingWriter + (IF WriterWakeup' THEN 1 ELSE 0)
          = Cardinality(WritersBlocked')
    <3>1. Follows(Cardinality(WritersBlocked), Cardinality(WritersBlocked'),
                  pc[t] = "writers_wait", pc'[t] = "writers_wait")
      BY <2>2, CountStep
    <3> QED
      BY <2>1, <2>2, <2>5, <3>1
         DEF IInv, TypeOK, Word, WriterAccounting, Follows
  <2>8. WriterSpinHasOneOwner'
    <3>1. t \in WriterSpinOwners <=> OwnsWriterSpin(pc[t], reset[t])
      BY DEF WriterSpinOwners, OwnsWriterSpin
    <3> QED
      BY <2>1, <2>2, <2>6, <3>1, HolderFacts
         DEF IInv, TypeOK, Word, WriterSpinHasOneOwner, OwnsWriterSpin
  <2>9. MutualExclusion'
    BY <2>2, HolderFacts
       DEF IInv, MutualExclusion, Writing, Reading, OnlyMoves, IsWriting,
           IsReading
  <2>10. WakePositive'
    BY <2>2, <1>7 DEF IInv, TypeOK, WakePositive, OnlyMoves, ReadersPost, Goto
  <2>11. ReaderSpinHasOwner'
    BY <2>1, <2>2, <1>7
       DEF IInv, TypeOK, Word, ReaderSpinHasOwner, ReaderSpinOwners,
           WakePositive, OnlyMoves, ReadersPost, Goto
  <2>12. NoLostWakeup'
    BY <2>1, <2>2 DEF IInv, TypeOK, Word, NoLostWakeup, Locked, Spinning
  <2> QED
    BY <2>1, <2>3, <2>4, <2>7, <2>8, <2>9, <2>10, <2>11, <2>12
       DEF IInv, WriterAccounting
<1>8. ASSUME ReadLockAcquire(t) PROVE IInv'
  <2>1. TypeOK'
    BY <1>8, WordUpdates
       DEF IInv, TypeOK, Label, ReadLockAcquire, Goto, Publish, Forget
  <2>2. /\ pc[t] = "readlock"
        /\ pc'[t] = "reading"
        /\ OnlyMoves(t)
        /\ ~state.writerLock
        /\ UNCHANGED <<writers, readers, wake>>
        /\ state'.readerLock = state.readerLock + 1
        /\ state'.waitingReader = state.waitingReader
        /\ state'.waitingWriter = state.waitingWriter
        /\ state'.writerLock <=> state.writerLock
        /\ state'.writerSpinWait <=> state.writerSpinWait
        /\ state'.readerSpinWait <=> (state.readerSpinWait /\ ~reset[t])
    BY <1>8
       DEF IInv, TypeOK, Word, OnlyMoves, ReadLockAcquire, Goto, Publish,
           ResetReader, Forget, Zero
  <2>3. state'.readerLock = Cardinality(Reading')
    BY <2>1, <2>2, CountStep
       DEF IInv, TypeOK, Word, WriterAccounting, Follows, IsReading
  <2>4. state'.writerLock <=> Writing' # {}
    BY <2>2 DEF IInv, TypeOK, Word, WriterAccounting, Writing, OnlyMoves
  <2>5. WriterWakeup' <=> WriterWakeup
    BY <2>2
       DEF IInv, TypeOK, WriterWakeup, OnlyMoves, WriterSpinHasOneOwner,
           WriterSpinOwners
  <2>6. WriterSpinOwners' = WriterSpinOwners
    BY <2>2 DEF WriterSpinOwners, OnlyMoves
  <2>7. state'.waitingWriter + (IF WriterWakeup' THEN 1 ELSE 0)
          = Cardinality(WritersBlocked')
    <3>1. Follows(Cardinality(WritersBlocked), Cardinality(WritersBlocked'),
                  pc[t] = "writers_wait", pc'[t] = "writers_wait")
      BY <2>2, CountStep
    <3> QED
      BY <2>1, <2>2, <2>5, <3>1
         DEF IInv, TypeOK, Word, WriterAccounting, Follows
  <2>8. WriterSpinHasOneOwner'
    <3>1. t \in WriterSpinOwners <=> OwnsWriterSpin(pc[t], reset[t])
      BY DEF WriterSpinOwners, OwnsWriterSpin
    <3> QED
      BY <2>1, <2>2, <2>6, <3>1, HolderFacts
         DEF IInv, TypeOK, Word, WriterSpinHasOneOwner, OwnsWriterSpin
  <2>9. MutualExclusion'
    BY <2>2, HolderFacts
       DEF IInv, MutualExclusion, Writing, Reading, OnlyMoves, IsWriting,
           IsReading
  <2>10. WakePositive'
    BY <2>2, <1>8
       DEF IInv, TypeOK, WakePositive, OnlyMoves, ReadLockAcquire, Goto,
           Publish, ResetReader, Forget, Zero
  <2>11. ReaderSpinHasOwner'
    BY <2>1, <2>2, <1>8
       DEF IInv, TypeOK, Word, ReaderSpinHasOwner, ReaderSpinOwners,
           WakePositive, OnlyMoves, ReadLockAcquire, Goto, Publish,
           ResetReader, Forget, Zero
  <2>12. NoLostWakeup'
    BY <2>1, <2>2 DEF IInv, TypeOK, Word, NoLostWakeup, Locked, Spinning
  <2> QED
    BY <2>1, <2>3, <2>4, <2>7, <2>8, <2>9, <2>10, <2>11, <2>12
       DEF IInv, WriterAccounting
<1>9. ASSUME ReadLockBlock(t) PROVE IInv'
  <2>1. TypeOK'
    BY <1>9, WordUpdates
       DEF IInv, TypeOK, Label, ReadLockBlock, Goto, Publish, Forget
  <2>2. /\ pc[t] = "readlock"
        /\ pc'[t] = "readers_wait"
        /\ OnlyMoves(t)
        /\ state.writerLock
        /\ UNCHANGED <<writers, readers, wake>>
        /\ state'.readerLock = state.readerLock
        /\ state'.waitingReader = state.waitingReader + 1
        /\ state'.waitingWriter = state.waitingWriter
        /\ state'.writerLock <=> state.writerLock
        /\ state'.writerSpinWait <=> state.writerSpinWait
        /\ state'.readerSpinWait <=> (state.readerSpinWait /\ ~reset[t])
    BY <1>9
       DEF IInv, TypeOK, Word, OnlyMoves, ReadLockBlock, Goto, Publish,
           ResetReader, Forget, Zero
  <2>3. state'.readerLock = Cardinality(Reading')
    BY <2>1, <2>2, CountStep
       DEF IInv, TypeOK, Word, WriterAccounting, Follows, IsReading
  <2>4. state'.writerLock <=> Writing' # {}
    BY <2>2 DEF IInv, TypeOK, Word, WriterAccounting, Writing, OnlyMoves
  <2>5. WriterWakeup' <=> WriterWakeup
    BY <2>2
       DEF IInv, TypeOK, WriterWakeup, OnlyMoves, WriterSpinHasOneOwner,
           WriterSpinOwners
  <2>6. WriterSpinOwners' = WriterSpinOwners
    BY <2>2 DEF WriterSpinOwners, OnlyMoves
  <2>7. state'.waitingWriter + (IF WriterWakeup' THEN 1 ELSE 0)
          = Cardinality(WritersBlocked')
    <3>1. Follows(Cardinality(WritersBlocked), Cardinality(WritersBlocked'),
                  pc[t] = "writers_wait", pc'[t] = "writers_wait")
      BY <2>2, CountStep
    <3> QED
      BY <2>1, <2>2, <2>5, <3>1
         DEF IInv, TypeOK, Word, WriterAccounting, Follows
  <2>8. WriterSpinHasOneOwner'
    <3>1. t \in WriterSpinOwners <=> OwnsWriterSpin(pc[t], reset[t])
      BY DEF WriterSpinOwners, OwnsWriterSpin
    <3> QED
      BY <2>1, <2>2, <2>6, <3>1, HolderFacts
         DEF IInv, TypeOK, Word, WriterSpinHasOneOwner, OwnsWriterSpin
  <2>9. MutualExclusion'
    BY <2>2, HolderFacts
       DEF IInv, MutualExclusion, Writing, Reading, OnlyMoves, IsWriting,
           IsReading
  <2>10. WakePositive'
    BY <2>2, <1>9
       DEF IInv, TypeOK, WakePositive, OnlyMoves, ReadLockBlock, Goto, Publish,
           ResetReader, Forget, Zero
  <2>11. ReaderSpinHasOwner'
    BY <2>1, <2>2, <1>9
       DEF IInv, TypeOK, Word, ReaderSpinHasOwner, ReaderSpinOwners,
           WakePositive, OnlyMoves, ReadLockBlock, Goto, Publish, ResetReader,
           Forget, Zero
  <2>12. NoLostWakeup'
    BY <2>1, <2>2 DEF IInv, TypeOK, Word, NoLostWakeup, Locked, Spinning
  <2> QED
    BY <2>1, <2>3, <2>4, <2>7, <2>8, <2>9, <2>10, <2>11, <2>12
       DEF IInv, WriterAccounting
<1>10. ASSUME ReadLockMark(t) PROVE IInv'
  <2>1. TypeOK'
    BY <1>10, WordUpdates DEF IInv, TypeOK, Label, ReadLockMark, Goto, Publish
  <2>2. /\ pc[t] = "readlock"
        /\ pc'[t] = "readlock_reload"
        /\ OnlyMoves(t)
        /\ state.writerLock
        /\ UNCHANGED <<writers, readers, wake>>
        /\ state'.readerLock = state.readerLock
        /\ state'.waitingReader = state.waitingReader
        /\ state'.waitingWriter = state.waitingWriter
        /\ state'.writerLock <=> state.writerLock
        /\ state'.writerSpinWait <=> state.writerSpinWait
        /\ state'.readerSpinWait <=> TRUE
    BY <1>10
       DEF IInv, TypeOK, Word, OnlyMoves, ReadLockMark, Goto, Publish, Zero
  <2>3. state'.readerLock = Cardinality(Reading')
    BY <2>1, <2>2, CountStep
       DEF IInv, TypeOK, Word, WriterAccounting, Follows, IsReading
  <2>4. state'.writerLock <=> Writing' # {}
    BY <2>2 DEF IInv, TypeOK, Word, WriterAccounting, Writing, OnlyMoves
  <2>5. WriterWakeup' <=> WriterWakeup
    BY <2>2
       DEF IInv, TypeOK, WriterWakeup, OnlyMoves, WriterSpinHasOneOwner,
           WriterSpinOwners
  <2>6. WriterSpinOwners' = WriterSpinOwners
    BY <2>2 DEF WriterSpinOwners, OnlyMoves
  <2>7. state'.waitingWriter + (IF WriterWakeup' THEN 1 ELSE 0)
          = Cardinality(WritersBlocked')
    <3>1. Follows(Cardinality(WritersBlocked), Cardinality(WritersBlocked'),
                  pc[t] = "writers_wait", pc'[t] = "writers_wait")
      BY <2>2, CountStep
    <3> QED
      BY <2>1, <2>2, <2>5, <3>1
         DEF IInv, TypeOK, Word, WriterAccounting, Follows
  <2>8. WriterSpinHasOneOwner'
    <3>1. t \in WriterSpinOwners <=> OwnsWriterSpin(pc[t], reset[t])
      BY DEF WriterSpinOwners, OwnsWriterSpin
    <3> QED
      BY <2>1, <2>2, <2>6, <3>1, HolderFacts
         DEF IInv, TypeOK, Word, WriterSpinHasOneOwner, OwnsWriterSpin
  <2>9. MutualExclusion'
    BY <2>2, HolderFacts
       DEF IInv, MutualExclusion, Writing, Reading, OnlyMoves, IsWriting,
           IsReading
  <2>10. WakePositive'
    BY <2>2, <1>10
       DEF IInv, TypeOK, WakePositive, OnlyMoves, ReadLockMark, Goto, Publish,
           Zero
  <2>11. ReaderSpinHasOwner'
    BY <2>1, <2>2, <1>10
       DEF IInv, TypeOK, Word, ReaderSpinHasOwner, ReaderSpinOwners,
           WakePositive, OnlyMoves, ReadLockMark, Goto, Publish, Zero
  <2>12. NoLostWakeup'
    BY <2>1, <2>2 DEF IInv, TypeOK, Word, NoLostWakeup, Locked, Spinning
  <2> QED
    BY <2>1, <2>3, <2>4, <2>7, <2>8, <2>9, <2>10, <2>11, <2>12
       DEF IInv, WriterAccounting
<1>11. ASSUME ReadLockWoken(t) PROVE IInv'
  <2>1. TypeOK'
    BY <1>11 DEF IInv, TypeOK, Label, ReadLockWoken, Goto
  <2>2. /\ pc[t] = "readers_wait"
        /\ pc'[t] = "readlock_reload"
        /\ OnlyMoves(t)
        /\ readers' = readers - 1
        /\ UNCHANGED <<state, writers, wake>>
    BY <1>11 DEF IInv, TypeOK, Word, OnlyMoves, ReadLockWoken, Goto
  <2>3. state'.readerLock = Cardinality(Reading')
    BY <2>1, <2>2, CountStep
       DEF IInv, TypeOK, Word, WriterAccounting, Follows, IsReading
  <2>4. state'.writerLock <=> Writing' # {}
    BY <2>2 DEF IInv, TypeOK, Word, WriterAccounting, Writing, OnlyMoves
  <2>5. WriterWakeup' <=> WriterWakeup
    BY <2>2
       DEF IInv, TypeOK, WriterWakeup, OnlyMoves, WriterSpinHasOneOwner,
           WriterSpinOwners
  <2>6. WriterSpinOwners' = WriterSpinOwners
    BY <2>2 DEF WriterSpinOwners, OnlyMoves
  <2>7. state'.waitingWriter + (IF WriterWakeup' THEN 1 ELSE 0)
          = Cardinality(WritersBlocked')
    <3>1. Follows(Cardinality(WritersBlocked), Cardinality(WritersBlocked'),
                  pc[t] = "writers_wait", pc'[t] = "writers_wait")
      BY <2>2, CountStep
    <3> QED
      BY <2>1, <2>2, <2>5, <3>1
         DEF IInv, TypeOK, Word, WriterAccounting, Follows
  <2>8. WriterSpinHasOneOwner'
    <3>1. t \in WriterSpinOwners <=> OwnsWriterSpin(pc[t], reset[t])
      BY DEF WriterSpinOwners, OwnsWriterSpin
    <3> QED
      BY <2>1, <2>2, <2>6, <3>1, HolderFacts
         DEF IInv, TypeOK, Word, WriterSpinHasOneOwner, OwnsWriterSpin
  <2>9. MutualExclusion'
    BY <2>2, HolderFacts
       DEF IInv, MutualExclusion, Writing, Reading, OnlyMoves, IsWriting,
           IsReading
  <2>10. WakePositive'
    BY <2>2, <1>11
       DEF IInv, TypeOK, WakePositive, OnlyMoves, ReadLockWoken, Goto
  <2>11. ReaderSpinHasOwner'
    BY <2>1, <2>2, <1>11
       DEF IInv, TypeOK, Word, ReaderSpinHasOwner, ReaderSpinOwners,
           WakePositive, OnlyMoves, ReadLockWoken, Goto
  <2>12. NoLostWakeup'
    BY <2>1, <2>2 DEF IInv, TypeOK, Word, NoLostWakeup, Locked, Spinning
  <2> QED
    BY <2>1, <2>3, <2>4, <2>7, <2>8, <2>9, <2>10, <2>11, <2>12
       DEF IInv, WriterAccounting
<1> QED
  BY <1>1, <1>2, <1>3, <1>4, <1>5, <1>6, <1>7, <1>8, <1>9, <1>10, <1>11
     DEF LoudStep

\* When the writer leaves, nobody is writing.
LEMMA WriterLeaves ==
  ASSUME MutualExclusion, NEW t \in Threads, OnlyMoves(t), pc[t] = "unlock",
         pc'[t] \notin {"writing", "unlock"}
  PROVE  Writing' = {}
<1>1. t \in Writing
  BY DEF Writing
<1>2. ASSUME NEW u \in Writing' PROVE FALSE
  <2>1. u \in Threads /\ u # t
    BY <1>2 DEF Writing
  <2>2. u \in Writing
    BY <1>2, <2>1 DEF Writing, OnlyMoves
  <2> QED
    BY <1>1, <2>1, <2>2 DEF MutualExclusion
<1> QED
  BY <1>2

\* The exchanges that release the mutex, by whom they wake.
LEMMA ReleaseActions ==
  ASSUME IInv, NEW t \in Threads
  PROVE  UnlockPublish(t) \/ ReadUnlockPublish(t) => IInv'
<1>0. /\ UnlockPublish(t) => state.writerLock /\ state.readerLock = 0
      /\ ReadUnlockPublish(t) => state.readerLock > 0 /\ ~state.writerLock
  BY HolderFacts DEF UnlockPublish, ReadUnlockPublish, IsWriting, IsReading
<1>1. ASSUME UnlockPublish(t), WakeWriter(state) PROVE IInv'
  <2>1. /\ pc[t] = "unlock"
        /\ pc'[t] = "writers_post"
        /\ OnlyMoves(t)
        /\ ~Spinning(state)
        /\ state.waitingWriter > 0
        /\ wake'[t] = 0
        /\ ~reset'[t]
        /\ UNCHANGED <<writers, readers>>
        /\ state'.readerLock = state.readerLock
        /\ state'.waitingReader = state.waitingReader
        /\ state'.waitingWriter = state.waitingWriter - 1
        /\ state'.writerLock <=> FALSE
        /\ state'.writerSpinWait <=> TRUE
        /\ state'.readerSpinWait <=> state.readerSpinWait
    BY <1>1, <1>0
       DEF IInv, TypeOK, Word, OnlyMoves, UnlockPublish, Goto, Publish, Forget,
           Unlocked, HandToWriter, Zero, WakeWriter, WakeReaders, Spinning
  <2>2. TypeOK'
    <3>1. state' \in Word
      <4> DEFINE free == [state EXCEPT !.writerLock = FALSE]
      <4>1. free \in Word /\ free.waitingWriter # 0
        <5>1. state \in Word
          BY DEF IInv, TypeOK
        <5>2. free \in Word
          BY <5>1, WordUpdates
        <5>3. free.waitingWriter = state.waitingWriter
          BY <5>1 DEF Word
        <5> QED
          BY <2>1, <5>1, <5>2, <5>3 DEF Word
      <4>2. state' = HandToWriter(free)
        BY <1>1 DEF UnlockPublish, Publish, Unlocked
      <4> QED
        BY <4>1, <4>2, WordUpdates
    <3> QED
      BY <1>1, <3>1, WordUpdates
         DEF IInv, TypeOK, Word, Label, UnlockPublish, Goto, Publish, Forget,
             Unlocked, HandToWriter, WakeWriter, WakeReaders, Spinning
  <2>3. state'.readerLock = Cardinality(Reading')
    BY <2>1, <2>2, CountStep
       DEF IInv, TypeOK, Word, WriterAccounting, Follows, IsReading
  <2>4. state'.writerLock <=> Writing' # {}
    <3>1. Writing' = {}
      BY <2>1, WriterLeaves DEF IInv
    <3> QED
      BY <2>1, <3>1
  <2>5. ~WriterWakeup /\ WriterWakeup'
    BY <2>1
       DEF IInv, TypeOK, WriterWakeup, OnlyMoves, WriterSpinHasOneOwner,
           WriterSpinOwners, Spinning
  <2>6. WriterSpinOwners' = WriterSpinOwners \cup {t}
    BY <2>1 DEF WriterSpinOwners, OnlyMoves
  <2>7. state'.waitingWriter + (IF WriterWakeup' THEN 1 ELSE 0)
          = Cardinality(WritersBlocked')
    <3>1. Follows(Cardinality(WritersBlocked), Cardinality(WritersBlocked'),
                  pc[t] = "writers_wait", pc'[t] = "writers_wait")
      BY <2>1, CountStep
    <3> QED
      BY <2>1, <2>2, <2>5, <3>1
         DEF IInv, TypeOK, Word, WriterAccounting, Follows
  <2>8. WriterSpinHasOneOwner'
    BY <2>1, <2>2, <2>6 DEF IInv, TypeOK, Word, WriterSpinHasOneOwner, Spinning
  <2>9. MutualExclusion'
    BY <2>1 DEF IInv, MutualExclusion, Writing, Reading, OnlyMoves
  <2>10. WakePositive'
    BY <2>1, <1>1
       DEF IInv, TypeOK, WakePositive, OnlyMoves, UnlockPublish, Goto, Publish,
           Forget, Unlocked, HandToWriter, Zero
  <2>11. ReaderSpinHasOwner'
    BY <2>1, <2>2
       DEF IInv, TypeOK, Word, ReaderSpinHasOwner, ReaderSpinOwners, OnlyMoves
  <2>12. NoLostWakeup'
    BY <1>0, <2>1, <2>2, <1>1
       DEF IInv, TypeOK, Word, NoLostWakeup, Locked, Spinning
  <2> QED
    BY <2>2, <2>3, <2>4, <2>7, <2>8, <2>9, <2>10, <2>11, <2>12
       DEF IInv, WriterAccounting
<1>2. ASSUME UnlockPublish(t), ~WakeWriter(state) /\ WakeReaders(state) # 0
      PROVE  IInv'
  <2>1. /\ pc[t] = "unlock"
        /\ pc'[t] = "readers_post"
        /\ OnlyMoves(t)
        /\ ~state.writerSpinWait
        /\ Spinning(state) \/ state.waitingWriter = 0
        /\ wake'[t] # 0
        /\ UNCHANGED <<writers, readers>>
        /\ state'.readerLock = state.readerLock
        /\ state'.waitingReader = 0
        /\ state'.waitingWriter = state.waitingWriter
        /\ state'.writerLock <=> FALSE
        /\ state'.writerSpinWait <=> state.writerSpinWait
        /\ state'.readerSpinWait <=> TRUE
    BY <1>2, <1>0
       DEF IInv, TypeOK, Word, OnlyMoves, UnlockPublish, Goto, Publish, Forget,
           Unlocked, HandToWriter, Zero, WakeWriter, WakeReaders, Spinning
  <2>2. TypeOK'
    <3>1. state' \in Word
      BY <1>2, <1>0
         DEF IInv, TypeOK, Word, UnlockPublish, Goto, Publish, Forget,
             Unlocked, HandToWriter, Zero, WakeWriter, WakeReaders, Spinning
    <3> QED
      BY <1>2, <3>1, WordUpdates
         DEF IInv, TypeOK, Word, Label, UnlockPublish, Goto, Publish, Forget,
             Unlocked, HandToWriter, WakeWriter, WakeReaders, Spinning
  <2>3. state'.readerLock = Cardinality(Reading')
    BY <2>1, <2>2, CountStep
       DEF IInv, TypeOK, Word, WriterAccounting, Follows, IsReading
  <2>4. state'.writerLock <=> Writing' # {}
    <3>1. Writing' = {}
      BY <2>1, WriterLeaves DEF IInv
    <3> QED
      BY <2>1, <3>1
  <2>5. WriterWakeup' <=> WriterWakeup
    BY <2>1
       DEF IInv, TypeOK, WriterWakeup, OnlyMoves, WriterSpinHasOneOwner,
           WriterSpinOwners, Spinning
  <2>6. WriterSpinOwners' = WriterSpinOwners
    BY <2>1 DEF WriterSpinOwners, OnlyMoves
  <2>7. state'.waitingWriter + (IF WriterWakeup' THEN 1 ELSE 0)
          = Cardinality(WritersBlocked')
    <3>1. Follows(Cardinality(WritersBlocked), Cardinality(WritersBlocked'),
                  pc[t] = "writers_wait", pc'[t] = "writers_wait")
      BY <2>1, CountStep
    <3> QED
      BY <2>1, <2>2, <2>5, <3>1
         DEF IInv, TypeOK, Word, WriterAccounting, Follows
  <2>8. WriterSpinHasOneOwner'
    BY <2>1, <2>2, <2>6 DEF IInv, TypeOK, Word, WriterSpinHasOneOwner, Spinning
  <2>9. MutualExclusion'
    BY <2>1 DEF IInv, MutualExclusion, Writing, Reading, OnlyMoves
  <2>10. WakePositive'
    BY <2>1, <1>2
       DEF IInv, TypeOK, WakePositive, OnlyMoves, UnlockPublish, Goto, Publish,
           Forget, Unlocked, HandToWriter, Zero
  <2>11. ReaderSpinHasOwner'
    BY <2>1, <2>2
       DEF IInv, TypeOK, Word, ReaderSpinHasOwner, ReaderSpinOwners, OnlyMoves
  <2>12. NoLostWakeup'
    BY <1>0, <2>1, <2>2, <1>2
       DEF IInv, TypeOK, Word, NoLostWakeup, Locked, Spinning
  <2> QED
    BY <2>2, <2>3, <2>4, <2>7, <2>8, <2>9, <2>10, <2>11, <2>12
       DEF IInv, WriterAccounting
<1>3. ASSUME UnlockPublish(t), ~WakeWriter(state) /\ WakeReaders(state) = 0
      PROVE  IInv'
  <2>1. /\ pc[t] = "unlock"
        /\ pc'[t] = "idle"
        /\ OnlyMoves(t)
        /\ Spinning(state) \/ state.waitingWriter = 0
        /\ state.writerSpinWait \/ state.waitingReader = 0
        /\ UNCHANGED <<writers, readers>>
        /\ state'.readerLock = state.readerLock
        /\ state'.waitingReader = state.waitingReader
        /\ state'.waitingWriter = state.waitingWriter
        /\ state'.writerLock <=> FALSE
        /\ state'.writerSpinWait <=> state.writerSpinWait
        /\ state'.readerSpinWait <=> state.readerSpinWait
    BY <1>3, <1>0
       DEF IInv, TypeOK, Word, OnlyMoves, UnlockPublish, Goto, Publish, Forget,
           Unlocked, HandToWriter, Zero, WakeWriter, WakeReaders, Spinning
  <2>2. TypeOK'
    <3>1. state' \in Word
      BY <1>3, <1>0
         DEF IInv, TypeOK, Word, UnlockPublish, Goto, Publish, Forget,
             Unlocked, HandToWriter, Zero, WakeWriter, WakeReaders, Spinning
    <3> QED
      BY <1>3, <3>1, WordUpdates
         DEF IInv, TypeOK, Word, Label, UnlockPublish, Goto, Publish, Forget,
             Unlocked, HandToWriter, WakeWriter, WakeReaders, Spinning
  <2>3. state'.readerLock = Cardinality(Reading')
    BY <2>1, <2>2, CountStep
       DEF IInv, TypeOK, Word, WriterAccounting, Follows, IsReading
  <2>4. state'.writerLock <=> Writing' # {}
    <3>1. Writing' = {}
      BY <2>1, WriterLeaves DEF IInv
    <3> QED
      BY <2>1, <3>1
  <2>5. WriterWakeup' <=> WriterWakeup
    BY <2>1
       DEF IInv, TypeOK, WriterWakeup, OnlyMoves, WriterSpinHasOneOwner,
           WriterSpinOwners, Spinning
  <2>6. WriterSpinOwners' = WriterSpinOwners
    BY <2>1 DEF WriterSpinOwners, OnlyMoves
  <2>7. state'.waitingWriter + (IF WriterWakeup' THEN 1 ELSE 0)
          = Cardinality(WritersBlocked')
    <3>1. Follows(Cardinality(WritersBlocked), Cardinality(WritersBlocked'),
                  pc[t] = "writers_wait", pc'[t] = "writers_wait")
      BY <2>1, CountStep
    <3> QED
      BY <2>1, <2>2, <2>5, <3>1
         DEF IInv, TypeOK, Word, WriterAccounting, Follows
  <2>8. WriterSpinHasOneOwner'
    BY <2>1, <2>2, <2>6 DEF IInv, TypeOK, Word, WriterSpinHasOneOwner, Spinning
  <2>9. MutualExclusion'
    BY <2>1 DEF IInv, MutualExclusion, Writing, Reading, OnlyMoves
  <2>10. WakePositive'
    BY <2>1, <1>3
       DEF IInv, TypeOK, WakePositive, OnlyMoves, UnlockPublish, Goto, Publish,
           Forget, Unlocked, HandToWriter, Zero
  <2>11. ReaderSpinHasOwner'
    BY <2>1, <2>2
       DEF IInv, TypeOK, Word, ReaderSpinHasOwner, ReaderSpinOwners, OnlyMoves
  <2>12. NoLostWakeup'
    BY <1>0, <2>1, <2>2, <1>3
       DEF IInv, TypeOK, Word, NoLostWakeup, Locked, Spinning
  <2> QED
    BY <2>2, <2>3, <2>4, <2>7, <2>8, <2>9, <2>10, <2>11, <2>12
       DEF IInv, WriterAccounting
<1>4. ASSUME ReadUnlockPublish(t), ReadUnlockWakes(state) PROVE IInv'
  <2>1. /\ pc[t] = "read_unlock"
        /\ pc'[t] = "writers_post"
        /\ OnlyMoves(t)
        /\ ~Spinning(state)
        /\ state.waitingWriter > 0
        /\ UNCHANGED <<writers, readers, wake>>
        /\ state'.readerLock = state.readerLock - 1
        /\ state'.waitingReader = state.waitingReader
        /\ state'.waitingWriter = state.waitingWriter - 1
        /\ state'.writerLock <=> state.writerLock
        /\ state'.writerSpinWait <=> TRUE
        /\ state'.readerSpinWait <=> state.readerSpinWait
    BY <1>4, <1>0
       DEF IInv, TypeOK, Word, OnlyMoves, ReadUnlockPublish, Goto, Publish,
           Forget, ReadUnlocked, HandToWriter, Zero, ReadUnlockWakes, Spinning
  <2>2. TypeOK'
    <3>1. state' \in Word
      <4> DEFINE less == [state EXCEPT !.readerLock = @ - 1]
      <4>1. less \in Word /\ less.waitingWriter # 0
        <5>1. state \in Word
          BY DEF IInv, TypeOK
        <5>2. state.readerLock # 0
          BY <1>0, <1>4, <5>1 DEF Word
        <5>3. less \in Word
          BY <5>1, <5>2, WordUpdates
        <5>4. less.waitingWriter = state.waitingWriter
          BY <5>1 DEF Word
        <5> QED
          BY <2>1, <5>1, <5>3, <5>4 DEF Word
      <4>2. state' = HandToWriter(less)
        BY <1>4 DEF ReadUnlockPublish, Publish, ReadUnlocked
      <4> QED
        BY <4>1, <4>2, WordUpdates
    <3> QED
      BY <1>4, <3>1, WordUpdates
         DEF IInv, TypeOK, Word, Label, ReadUnlockPublish, Goto, Publish,
             Forget, ReadUnlocked, HandToWriter, ReadUnlockWakes, Spinning
  <2>3. state'.readerLock = Cardinality(Reading')
    BY <2>1, <2>2, CountStep
       DEF IInv, TypeOK, Word, WriterAccounting, Follows, IsReading
  <2>4. state'.writerLock <=> Writing' # {}
    BY <2>1
       DEF IInv, TypeOK, Word, WriterAccounting, MutualExclusion, Writing,
           OnlyMoves
  <2>5. ~WriterWakeup /\ WriterWakeup'
    BY <2>1
       DEF IInv, TypeOK, WriterWakeup, OnlyMoves, WriterSpinHasOneOwner,
           WriterSpinOwners, Spinning
  <2>6. WriterSpinOwners' = WriterSpinOwners \cup {t}
    BY <2>1 DEF WriterSpinOwners, OnlyMoves
  <2>7. state'.waitingWriter + (IF WriterWakeup' THEN 1 ELSE 0)
          = Cardinality(WritersBlocked')
    <3>1. Follows(Cardinality(WritersBlocked), Cardinality(WritersBlocked'),
                  pc[t] = "writers_wait", pc'[t] = "writers_wait")
      BY <2>1, CountStep
    <3> QED
      BY <2>1, <2>2, <2>5, <3>1
         DEF IInv, TypeOK, Word, WriterAccounting, Follows
  <2>8. WriterSpinHasOneOwner'
    BY <2>1, <2>2, <2>6 DEF IInv, TypeOK, Word, WriterSpinHasOneOwner, Spinning
  <2>9. MutualExclusion'
    BY <2>1 DEF IInv, MutualExclusion, Writing, Reading, OnlyMoves
  <2>10. WakePositive'
    BY <2>1, <1>4
       DEF IInv, TypeOK, WakePositive, OnlyMoves, ReadUnlockPublish, Goto,
           Publish, Forget, ReadUnlocked, HandToWriter, Zero
  <2>11. ReaderSpinHasOwner'
    BY <2>1, <2>2
       DEF IInv, TypeOK, Word, ReaderSpinHasOwner, ReaderSpinOwners, OnlyMoves
  <2>12. NoLostWakeup'
    BY <1>0, <2>1, <2>2, <1>4
       DEF IInv, TypeOK, Word, NoLostWakeup, Locked, Spinning
  <2> QED
    BY <2>2, <2>3, <2>4, <2>7, <2>8, <2>9, <2>10, <2>11, <2>12
       DEF IInv, WriterAccounting
<1>5. ASSUME ReadUnlockPublish(t), ~ReadUnlockWakes(state) PROVE IInv'
  <2>1. /\ pc[t] = "read_unlock"
        /\ pc'[t] = "idle"
        /\ OnlyMoves(t)
        /\ state.readerLock # 1 \/ Spinning(state) \/ state.waitingWriter = 0
        /\ UNCHANGED <<writers, readers, wake>>
        /\ state'.readerLock = state.readerLock - 1
        /\ state'.waitingReader = state.waitingReader
        /\ state'.waitingWriter = state.waitingWriter
        /\ state'.writerLock <=> state.writerLock
        /\ state'.writerSpinWait <=> state.writerSpinWait
        /\ state'.readerSpinWait <=> state.readerSpinWait
    BY <1>5, <1>0
       DEF IInv, TypeOK, Word, OnlyMoves, ReadUnlockPublish, Goto, Publish,
           Forget, ReadUnlocked, HandToWriter, Zero, ReadUnlockWakes, Spinning
  <2>2. TypeOK'
    <3>1. state' \in Word
      BY <1>5, <1>0
         DEF IInv, TypeOK, Word, ReadUnlockPublish, Goto, Publish, Forget,
             ReadUnlocked, HandToWriter, Zero, ReadUnlockWakes, Spinning
    <3> QED
      BY <1>5, <3>1, WordUpdates
         DEF IInv, TypeOK, Word, Label, ReadUnlockPublish, Goto, Publish,
             Forget, ReadUnlocked, HandToWriter, ReadUnlockWakes, Spinning
  <2>3. state'.readerLock = Cardinality(Reading')
    BY <2>1, <2>2, CountStep
       DEF IInv, TypeOK, Word, WriterAccounting, Follows, IsReading
  <2>4. state'.writerLock <=> Writing' # {}
    BY <2>1
       DEF IInv, TypeOK, Word, WriterAccounting, MutualExclusion, Writing,
           OnlyMoves
  <2>5. WriterWakeup' <=> WriterWakeup
    BY <2>1
       DEF IInv, TypeOK, WriterWakeup, OnlyMoves, WriterSpinHasOneOwner,
           WriterSpinOwners, Spinning
  <2>6. WriterSpinOwners' = WriterSpinOwners
    BY <2>1 DEF WriterSpinOwners, OnlyMoves
  <2>7. state'.waitingWriter + (IF WriterWakeup' THEN 1 ELSE 0)
          = Cardinality(WritersBlocked')
    <3>1. Follows(Cardinality(WritersBlocked), Cardinality(WritersBlocked'),
                  pc[t] = "writers_wait", pc'[t] = "writers_wait")
      BY <2>1, CountStep
    <3> QED
      BY <2>1, <2>2, <2>5, <3>1
         DEF IInv, TypeOK, Word, WriterAccounting, Follows
  <2>8. WriterSpinHasOneOwner'
    BY <2>1, <2>2, <2>6 DEF IInv, TypeOK, Word, WriterSpinHasOneOwner, Spinning
  <2>9. MutualExclusion'
    BY <2>1 DEF IInv, MutualExclusion, Writing, Reading, OnlyMoves
  <2>10. WakePositive'
    BY <2>1, <1>5
       DEF IInv, TypeOK, WakePositive, OnlyMoves, ReadUnlockPublish, Goto,
           Publish, Forget, ReadUnlocked, HandToWriter, Zero
  <2>11. ReaderSpinHasOwner'
    BY <2>1, <2>2
       DEF IInv, TypeOK, Word, ReaderSpinHasOwner, ReaderSpinOwners, OnlyMoves
  <2>12. NoLostWakeup'
    BY <1>0, <2>1, <2>2, <1>5
       DEF IInv, TypeOK, Word, NoLostWakeup, Locked, Spinning
  <2> QED
    BY <2>2, <2>3, <2>4, <2>7, <2>8, <2>9, <2>10, <2>11, <2>12
       DEF IInv, WriterAccounting
<1> QED
  BY <1>1, <1>2, <1>3, <1>4, <1>5

-----------------------------------------------------------------------------
(* The theorems *)

\* The invariant holds of a zero-initialised Mutex.
LEMMA InitIInv == Init => IInv
<1> SUFFICES ASSUME Init PROVE IInv
  OBVIOUS
<1>1. TypeOK
  BY MutexAssumption DEF Init, TypeOK, Word, Label, Zero
<1>2. Reading = {} /\ Writing = {} /\ WritersBlocked = {}
      /\ WriterSpinOwners = {} /\ ~WriterWakeup
  BY DEF Init, Reading, Writing, WritersBlocked, WriterSpinOwners, WriterWakeup
<1>3. WriterAccounting
  BY <1>2, FS_EmptySet DEF Init, Zero, WriterAccounting
<1>4. WriterSpinHasOneOwner /\ MutualExclusion /\ NoLostWakeup
  BY <1>2 DEF Init, Zero, WriterSpinHasOneOwner, MutualExclusion, NoLostWakeup
<1>5. WakePositive /\ ReaderSpinHasOwner
  BY DEF Init, Zero, WakePositive, ReaderSpinHasOwner
<1> QED
  BY <1>1, <1>3, <1>4, <1>5 DEF IInv

\* Every step of Lock, Unlock, ReadLock and ReadUnlock keeps the invariant.
LEMMA NextIInv == IInv /\ [Next]_vars => IInv'
<1> SUFFICES ASSUME IInv, [Next]_vars PROVE IInv'
  OBVIOUS
<1>1. ASSUME NEW t \in Threads, Step(t) \/ Start(t) PROVE IInv'
  BY <1>1, QuietActions, LoudActions, ReleaseActions
     DEF Step, LockStep, TryLockStep, ReadLockStep, UnlockStep, LoudStep
<1>2. CASE UNCHANGED vars
  BY <1>2 DEF vars, IInv, TypeOK, WriterAccounting, WriterSpinHasOneOwner,
              MutualExclusion, WakePositive, ReaderSpinHasOwner, NoLostWakeup,
              Reading, Writing, WritersBlocked, WriterSpinOwners,
              ReaderSpinOwners, WriterWakeup, Locked, Spinning
<1> QED
  BY <1>1, <1>2 DEF Next, Done

\* The inductive invariant holds in every reachable state.
THEOREM MutexInvariant == Spec => []IInv
  BY InitIInv, NextIInv, PTL DEF Spec

\* Types: in particular no counter of the state word is decremented below zero.
THEOREM MutexTypes == Spec => []TypeOK
<1>1. IInv => TypeOK
  BY DEF IInv
<1> QED
  BY <1>1, MutexInvariant, PTL

\* Lock excludes everybody and ReadLock excludes writers, for any number of
\* threads.
THEOREM MutexExclusion == Spec => []MutualExclusion
<1>1. IInv => MutualExclusion
  BY DEF IInv
<1> QED
  BY <1>1, MutexInvariant, PTL

\* The state word counts holders and parked writers exactly.
THEOREM MutexAccounting == Spec => []WriterAccounting
<1>1. IInv => WriterAccounting
  BY DEF IInv
<1> QED
  BY <1>1, MutexInvariant, PTL

\* kWriterSpinWait has exactly one owner.
THEOREM MutexSpinOwner == Spec => []WriterSpinHasOneOwner
<1>1. IInv => WriterSpinHasOneOwner
  BY DEF IInv
<1> QED
  BY <1>1, MutexInvariant, PTL

\* The DCHECK at the end of the loop of Lock never fires.
THEOREM MutexLockDCheck == Spec => []LockDCheck
<1>1. IInv => LockDCheck
  BY HolderFacts DEF LockDCheck, OwnsWriterSpin
<1> QED
  BY <1>1, MutexInvariant, PTL

\* CHECK_NE(count, 0) of Semaphore::Post: Unlock posts readers_ only when it has taken
\* somebody out of waitingReader.
THEOREM MutexPostsSomething == Spec => []WakePositive
<1>1. IInv => WakePositive
  BY DEF IInv
<1> QED
  BY <1>1, MutexInvariant, PTL

\* Parked threads are always looked after by somebody who is awake.
THEOREM MutexNoLostWakeup == Spec => [](NoLostWakeup /\ ReaderSpinHasOwner)
<1>1. IInv => NoLostWakeup /\ ReaderSpinHasOwner
  BY DEF IInv
<1> QED
  BY <1>1, MutexInvariant, PTL

\* The holders' and the waiting writers' counters fit their bits when there
\* are fewer threads than a counter can count.
THEOREM MutexCountersFit == Spec => []CountersFit
<1>1. IInv => CountersFit
  <2> SUFFICES ASSUME IInv PROVE CountersFit
    OBVIOUS
  <2>1. /\ Reading \in SUBSET Threads
        /\ WritersBlocked \in SUBSET Threads
    BY DEF Reading, WritersBlocked
  <2>2. /\ Cardinality(Reading) <= Cardinality(Threads)
        /\ Cardinality(WritersBlocked) <= Cardinality(Threads)
        /\ Cardinality(Reading) \in Nat
        /\ Cardinality(WritersBlocked) \in Nat
        /\ Cardinality(Threads) \in Nat
    BY <2>1, MutexAssumption, FS_Subset, FS_CardinalityType
  <2>3. /\ state.readerLock <= Cardinality(Threads)
        /\ state.waitingWriter <= Cardinality(Threads)
    BY <2>2 DEF IInv, TypeOK, Word, WriterAccounting
  <2> QED
    BY <2>2, <2>3, MutexAssumption DEF CountersFit, IInv, TypeOK, Word
<1> QED
  BY <1>1, MutexInvariant, PTL

-----------------------------------------------------------------------------
(* The mutex implements the reader-writer lock. *)

\* The mapped state changes only when the exchange that takes or releases the
\* mutex succeeds.
LEMMA RefinementStep ==
  ASSUME IInv, NEW t \in Threads, Step(t) \/ Start(t)
  PROVE  RW!Next \/ UNCHANGED RW!rwvars
<1> USE DEF RW!rwvars, Goto
<1>0. pc \in [Threads -> Label]
  BY DEF IInv, TypeOK
<1>1. CASE LockAcquire(t) \/ TryLockAcquire(t)
  <2>1. Writing = {} /\ Reading = {}
    BY <1>1, HolderFacts DEF LockAcquire, TryLockAcquire, Publish, Locked
  <2>2. Writing' = {t} /\ Reading' = {}
    BY <1>0, <1>1, <2>1 DEF LockAcquire, TryLockAcquire, Writing, Reading
  <2>3. RW!AcquireWrite(t)
    BY <2>1, <2>2 DEF RW!AcquireWrite
  <2> QED
    BY <2>3 DEF RW!Next
<1>2. CASE ReadLockAcquire(t)
  <2>1. Writing = {} /\ t \notin Reading
    BY <1>2, HolderFacts DEF ReadLockAcquire, Publish, Reading
  <2>2. Writing' = Writing /\ Reading' = Reading \cup {t}
    BY <1>0, <1>2 DEF ReadLockAcquire, Writing, Reading
  <2>3. RW!AcquireRead(t)
    BY <2>1, <2>2 DEF RW!AcquireRead
  <2> QED
    BY <2>3 DEF RW!Next
<1>3. CASE UnlockPublish(t)
  <2>1. /\ t \in Writing
        /\ pc' = [pc EXCEPT ![t] = pc'[t]]
        /\ pc'[t] \in {"writers_post", "readers_post", "idle"}
    BY <1>0, <1>3 DEF UnlockPublish, Writing
  <2>2. Writing' = Writing \ {t} /\ Reading' = Reading
    BY <1>0, <1>3, <2>1 DEF Writing, Reading
  <2>3. RW!ReleaseWrite(t)
    BY <2>1, <2>2 DEF RW!ReleaseWrite
  <2> QED
    BY <2>3 DEF RW!Next
<1>4. CASE ReadUnlockPublish(t)
  <2>1. /\ t \in Reading
        /\ pc' = [pc EXCEPT ![t] = pc'[t]]
        /\ pc'[t] \in {"writers_post", "idle"}
    BY <1>0, <1>4 DEF ReadUnlockPublish, Reading
  <2>2. Reading' = Reading \ {t} /\ Writing' = Writing
    BY <1>0, <1>4, <2>1 DEF Writing, Reading
  <2>3. RW!ReleaseRead(t)
    BY <2>1, <2>2 DEF RW!ReleaseRead
  <2> QED
    BY <2>3 DEF RW!Next
<1>5. CASE Start(t)
  BY <1>0, <1>5 DEF Start, LockBegin, TryLockBegin, ReadLockBegin, Begin,
                    Writing, Reading
<1>6. CASE LockBlock(t) \/ LockMark(t) \/ LockSpin(t) \/ LockRetry(t)
           \/ LockWoken(t) \/ LockReload(t)
  BY <1>0, <1>6 DEF LockBlock, LockMark, LockSpin, Spin, LockRetry, CasFails,
                    LockWoken, LockReload, Reload, Writing, Reading
<1>7. CASE TryLockFail(t) \/ TryLockRetry(t)
  BY <1>0, <1>7 DEF TryLockFail, TryLockRetry, CasFails, Writing, Reading
<1>8. CASE UnlockBegin(t) \/ UnlockRetry(t) \/ WritersPost(t)
           \/ ReadersPost(t) \/ ReadUnlockBegin(t) \/ ReadUnlockRetry(t)
  BY <1>0, <1>8 DEF UnlockBegin, UnlockRetry, WritersPost, ReadersPost,
                    ReadUnlockBegin, ReadUnlockRetry, CasFails,
                    Writing, Reading
<1>9. CASE ReadLockBlock(t) \/ ReadLockMark(t) \/ ReadLockSpin(t)
           \/ ReadLockRetry(t) \/ ReadLockWoken(t) \/ ReadLockReload(t)
  BY <1>0, <1>9 DEF ReadLockBlock, ReadLockMark, ReadLockSpin, Spin,
                    ReadLockRetry, CasFails, ReadLockWoken, ReadLockReload,
                    Reload, Writing, Reading
<1> QED
  BY <1>1, <1>2, <1>3, <1>4, <1>5, <1>6, <1>7, <1>8, <1>9
     DEF Step, LockStep, TryLockStep, ReadLockStep, UnlockStep

\* Every behaviour of the mutex is a behaviour of the reader-writer lock whose
\* holders are the threads between the exchange that took the mutex and the
\* exchange that releases it.
THEOREM MutexImplementsRWLock == Spec => RWSpec
<1>1. Init => RW!Init
  BY DEF Init, RW!Init, Writing, Reading
<1>2. IInv /\ [Next]_vars => [RW!Next]_(RW!rwvars)
  <2> SUFFICES ASSUME IInv, [Next]_vars
               PROVE  RW!Next \/ UNCHANGED RW!rwvars
    OBVIOUS
  <2>1. CASE UNCHANGED vars
    BY <2>1 DEF vars, RW!rwvars, Writing, Reading
  <2>2. CASE Next
    BY <2>1, <2>2, RefinementStep DEF Next, Done
  <2> QED
    BY <2>1, <2>2
<1> QED
  BY <1>1, <1>2, MutexInvariant, PTL DEF Spec, RWSpec, RW!Spec

-----------------------------------------------------------------------------
(* The semaphores on which writers and readers park *)

\* The counter is never negative, and every thread is at a known place.
SemInv ==
  /\ sem \in Nat
  /\ semPc \in [Threads -> {"idle", "wait", "reload", "wake"}]

\* Nobody waits for a semaphore that holds nothing.
LEMMA SemInit == Sem!Init => SemInv /\ Sem!CS!Init
BY DEF Sem!Init, SemInv, Sem!CS!Init, Sem!Waiting

\* A thread at a new place in its operation is in Wait, or out of it.
LEMMA SemWaiting ==
  ASSUME SemInv, NEW t \in Threads, NEW l \in {"idle", "wait", "reload", "wake"},
         semPc' = [semPc EXCEPT ![t] = l]
  PROVE  /\ semPc' \in [Threads -> {"idle", "wait", "reload", "wake"}]
         /\ t \in Sem!Waiting <=> semPc[t] \in {"wait", "reload"}
         /\ l \in {"wait", "reload"} => Sem!Waiting' = Sem!Waiting \cup {t}
         /\ l \in {"idle", "wake"} => Sem!Waiting' = Sem!Waiting \ {t}
BY DEF SemInv, Sem!Waiting

\* Every step is a step of the counter, or changes nothing that a caller sees.
LEMMA SemStep ==
  ASSUME SemInv, [Sem!Next]_(Sem!vars)
  PROVE  SemInv' /\ [Sem!CS!Next]_(Sem!CS!csvars)
<1> USE DEF Sem!CS!csvars
<1>1. ASSUME NEW t \in Threads, Sem!WaitBegin(t)
      PROVE  SemInv' /\ Sem!CS!Enter(t)
  BY <1>1, SemWaiting DEF Sem!WaitBegin, Sem!StartOp, Sem!Goto, SemInv, Sem!CS!Enter
<1>2. ASSUME NEW t \in Threads, Sem!WaitSleep(t) \/ Sem!WaitReload(t)
      PROVE  SemInv' /\ UNCHANGED Sem!CS!csvars
  BY <1>2, SemWaiting DEF Sem!WaitSleep, Sem!WaitReload, Sem!Goto, SemInv
<1>3. ASSUME NEW t \in Threads, Sem!WaitInterrupted(t) \/ Sem!WaitRetry(t)
      PROVE  SemInv' /\ UNCHANGED Sem!CS!csvars
  BY <1>3 DEF Sem!WaitInterrupted, Sem!WaitRetry, SemInv, Sem!Waiting
<1>4. ASSUME NEW t \in Threads, Sem!WaitTake(t)
      PROVE  SemInv' /\ Sem!CS!Take(t)
  <2>1. /\ semPc' = [semPc EXCEPT ![t] = "idle"] /\ semPc[t] = "wait"
        /\ sem # 0 /\ sem' = sem - 1
    BY <1>4 DEF Sem!WaitTake, Sem!Goto
  <2>2. /\ semPc' \in [Threads -> {"idle", "wait", "reload", "wake"}]
        /\ t \in Sem!Waiting /\ Sem!Waiting' = Sem!Waiting \ {t}
    BY <2>1, SemWaiting
  <2> QED
    BY <2>1, <2>2 DEF SemInv, Sem!CS!Take
<1>5. ASSUME NEW t \in Threads, NEW n \in 1 .. MaxCount, Sem!PostAdd(t, n)
      PROVE  SemInv' /\ Sem!CS!Post(n)
  <2>1. /\ semPc' = [semPc EXCEPT ![t] = "wake"] /\ semPc[t] = "idle"
        /\ sem' = sem + n
    BY <1>5 DEF Sem!PostAdd, Sem!StartOp, Sem!Goto
  <2>2. /\ semPc' \in [Threads -> {"idle", "wait", "reload", "wake"}]
        /\ Sem!Waiting' = Sem!Waiting
    <3>1. /\ semPc' \in [Threads -> {"idle", "wait", "reload", "wake"}]
          /\ t \notin Sem!Waiting /\ Sem!Waiting' = Sem!Waiting \ {t}
      BY <2>1, SemWaiting
    <3> QED
      BY <3>1
  <2> QED
    BY <2>1, <2>2, SemaphoreAssumption DEF SemInv, Sem!CS!Post
<1>6. ASSUME NEW t \in Threads, Sem!PostWake(t)
      PROVE  SemInv' /\ UNCHANGED Sem!CS!csvars
  <2>1. /\ semPc' = [semPc EXCEPT ![t] = "idle"] /\ semPc[t] = "wake"
        /\ sem' = sem
    BY <1>6 DEF Sem!PostWake, Sem!Goto
  <2>2. /\ semPc' \in [Threads -> {"idle", "wait", "reload", "wake"}]
        /\ Sem!Waiting' = Sem!Waiting
    <3>1. /\ semPc' \in [Threads -> {"idle", "wait", "reload", "wake"}]
          /\ t \notin Sem!Waiting /\ Sem!Waiting' = Sem!Waiting \ {t}
      BY <2>1, SemWaiting
    <3> QED
      BY <3>1
  <2> QED
    BY <2>1, <2>2 DEF SemInv
<1>7. CASE UNCHANGED Sem!vars
  BY <1>7 DEF Sem!vars, SemInv, Sem!Waiting
<1>8. CASE Sem!Next
  BY <1>1, <1>2, <1>3, <1>4, <1>5, <1>6, <1>7, <1>8
     DEF Sem!Next, Sem!Step, Sem!Start, Sem!Quiet, Sem!CS!Next
<1> QED
  BY <1>7, <1>8

\* The futex code is the counter that Lock, ReadLock and their unlocks use: Post adds
\* its tokens at once, and each return from Wait takes exactly one.
THEOREM SemaphoreCounts == Sem!Spec => CountingSpec
<1>1. Sem!Init => SemInv /\ Sem!CS!Init
  BY SemInit
<1>2. SemInv /\ [Sem!Next]_(Sem!vars) => SemInv' /\ [Sem!CS!Next]_(Sem!CS!csvars)
  BY SemStep
<1> QED
  BY <1>1, <1>2, PTL DEF Sem!Spec, CountingSpec, Sem!CountingSpec, Sem!CS!Spec
=============================================================================
