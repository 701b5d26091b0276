----------------------------- MODULE Quarantine -----------------------------
(***************************************************************************)
(* The quarantine of freed chunks, sanitizer_quarantine.h: each thread     *)
(* collects chunks in batches in a cache of its own, moves full caches to  *)
(* the global cache under cache_mutex_, and whoever finds the global cache *)
(* too large extracts its oldest batches and recycles their chunks.        *)
(*                                                                         *)
(* Recycle holds cache_mutex_ while it merges and dequeues batches, one    *)
(* step each, and is told by its label; the critical section of Drain is   *)
(* one step.  The size of the global cache is also read without a mutex.   *)
(*                                                                         *)
(* A program that starts deactivated has a quarantine of size zero, until  *)
(* AsanActivate calls Quarantine::Init once more, with threads in Put: it  *)
(* stores the limits one by one and initialises the mutexes afterwards.    *)
(* The cache that threads without an AsanThread share under fallback_mutex *)
(* is one more member of Threads.                                          *)
(***************************************************************************)
EXTENDS Integers, Sequences, FiniteSets, FiniteSetsExt, Functions

CONSTANTS
  Threads,    \* the threads, each the owner of a local cache
  Chunks,     \* the chunks that are freed
  NoChunk,    \* no chunk
  ChunkSize,  \* the size each chunk is put with
  kSize,      \* QuarantineBatch::kSize, chunks in a batch
  kBatch,     \* sizeof(QuarantineBatch)
  Limits,     \* the arguments <<size, cache_size>> Init may be called with
  MaxDrains   \* bound: calls of CommitBack and Purge

ASSUME QuarantineAssumption ==
  /\ NoChunk \notin Chunks
  /\ ChunkSize \in [Chunks -> Nat \ {0}]
  /\ kSize \in Nat \ {0}
  /\ kBatch \in Nat \ {0}
  /\ Limits \subseteq Nat \X Nat
  /\ \A l \in Limits : l = <<0, 0>> \/ l[2] # 0  \* CHECK in Init
  /\ MaxDrains \in Nat

VARIABLES
  options,       \* the limits that AllocatorOptions asks for
  activation,    \* the next step of the call of Init by AsanActivate
  max_size, min_size, max_cache_size,  \* max_size_, min_size_, max_cache_size_
  recycleMutex,  \* recycle_mutex_ is taken
  cache,         \* cache_, the global cache: its list_ and its size_
  local,         \* the local cache of each thread
  tmp,           \* the list of the local "tmp" of Recycle
  pc,            \* where each thread is
  arg,           \* the chunk a thread is putting
  maxCache,      \* the local max_cache_size of Put; zero outside Put
  target,        \* the parameter min_size of Recycle; zero outside
  current,       \* the local of MergeBatches, as a position in the list
  extracted,     \* the local extracted_size of MergeBatches
  batches,       \* QuarantineBatch objects allocated and not deallocated
  freed,         \* the chunks that have been put, each at most once
  before,        \* history: the pairs <<c, d>> such that c is in a cache and
                 \* was there before d
  brought,       \* history: the bytes each thread has transferred in a Drain
                 \* that is not over
  late,          \* history: the bytes brought by Drains that have given up,
                 \* another thread being in Recycle, since the last extraction
  drains         \* calls of CommitBack and Purge that may still happen

lists == <<cache, local, tmp, batches, before>>
merging == <<current, extracted>>
limits == <<options, activation, max_size, min_size, max_cache_size>>
calls == <<arg, maxCache, target, freed, drains>>
ghosts == <<brought, late>>
vars == <<limits, recycleMutex, lists, pc, merging, calls, ghosts>>

Empty == [list |-> <<>>, size |-> 0]

-----------------------------------------------------------------------------
(* QuarantineBatch and QuarantineCache *)

\* The chunks in a list of batches.
Held(list) == UNION {Range(list[i].items) : i \in DOMAIN list}

OverheadSize(q) == Len(q.list) * kBatch

NewBatch(c) == [size |-> ChunkSize[c] + kBatch, items |-> <<c>>]
PushBack(b, c) ==
  [size |-> b.size + ChunkSize[c], items |-> Append(b.items, c)]

NeedsBatch(q) == q.list = <<>> \/ Len(q.list[Len(q.list)].items) = kSize

EnqueueBatch(q, b) == [list |-> Append(q.list, b), size |-> q.size + b.size]

\* Mutant: the chunk is not added to the size of the cache.
EnqueueUncounted(q, c) ==
  IF NeedsBatch(q)
  THEN EnqueueBatch(q, NewBatch(c))
  ELSE [list |-> [q.list EXCEPT ![Len(q.list)] = PushBack(@, c)],
        size |-> q.size]

\* Enqueue: into the last batch, or into a new one if that is full.
Enqueue(q, c) ==
  IF NeedsBatch(q)
  THEN EnqueueBatch(q, NewBatch(c))
  ELSE [list |-> [q.list EXCEPT ![Len(q.list)] = PushBack(@, c)],
        size |-> q.size + ChunkSize[c]]

Transfer(q, from) ==
  [list |-> q.list \o from.list, size |-> q.size + from.size]

DequeueBatch(q) ==
  [list |-> Tail(q.list), size |-> q.size - Head(q.list).size]

CanMerge(a, b) == Len(a.items) + Len(b.items) <= kSize
EmptyBatch == [size |-> kBatch, items |-> <<>>]

\* Mutant: the chunks of the later batch go to the front.
MergeToFront(a, b) ==
  [size |-> a.size + (b.size - kBatch), items |-> b.items \o a.items]

MergeTwo(a, b) ==
  [size |-> a.size + (b.size - kBatch), items |-> a.items \o b.items]

\* Batch i takes in batch i + 1, which leaves the list.
MergeAt(list, i) ==
  [j \in 1 .. Len(list) - 1 |->
     IF j < i THEN list[j]
     ELSE IF j = i THEN MergeTwo(list[i], list[i + 1])
     ELSE list[j + 1]]

\* The overhead exceeds kOverheadThresholdPercents = 100 of the user memory.
WorthMerging(q) ==
  /\ q.size > OverheadSize(q)
  /\ OverheadSize(q) * 200 > q.size * 100

-----------------------------------------------------------------------------
MinSize(size) == (size \div 10) * 9

Init ==
  /\ options \in Limits
  /\ \/ /\ activation = "done"
        /\ max_size = options[1] /\ max_cache_size = options[2]
        /\ min_size = MinSize(options[1])
     \/ /\ activation = "max_size"
        /\ max_size = 0 /\ min_size = 0 /\ max_cache_size = 0
  /\ recycleMutex = FALSE
  /\ cache = Empty
  /\ local = [t \in Threads |-> Empty]
  /\ tmp = [t \in Threads |-> <<>>]
  /\ pc = [t \in Threads |-> "idle"]
  /\ arg = [t \in Threads |-> NoChunk]
  /\ maxCache = [t \in Threads |-> 0]
  /\ target = [t \in Threads |-> 0]
  /\ current = 0 /\ extracted = 0
  /\ batches = 0
  /\ freed = {}
  /\ before = {}
  /\ brought = [t \in Threads |-> 0] /\ late = 0
  /\ drains = MaxDrains

Goto(t, l) == pc' = [pc EXCEPT ![t] = l]

\* cache_mutex_ is held inside the loops of Recycle.
InsideCache(t) == pc[t] \in {"merge", "dequeue"}
CacheMutexFree == \A t \in Threads : ~InsideCache(t)

\* Init called again: the limits change one after the other ...
InitStores ==
  /\ \/ /\ activation = "max_size" /\ activation' = "min_size"
        /\ max_size' = options[1]
        /\ UNCHANGED <<min_size, max_cache_size>>
     \/ /\ activation = "min_size" /\ activation' = "max_cache_size"
        /\ min_size' = MinSize(options[1])
        /\ UNCHANGED <<max_size, max_cache_size>>
     \/ /\ activation = "max_cache_size" /\ activation' = "mutexes"
        /\ max_cache_size' = options[2]
        /\ UNCHANGED <<max_size, min_size>>
  /\ UNCHANGED <<options, recycleMutex, lists, pc, merging, calls, ghosts>>

\* ... and both mutexes are initialised, recycle_mutex_ even if it is held.
\* That cache_mutex_ is held at this moment is not modelled.
InitMutexes ==
  /\ activation = "mutexes" /\ activation' = "done"
  /\ CacheMutexFree
  /\ recycleMutex' = FALSE
  /\ UNCHANGED <<options, max_size, min_size, max_cache_size, lists, pc,
                 merging, calls, ghosts>>

\* Put(c, cb, ptr, size): max_cache_size is read once, first.
PutBegin(t, c) ==
  /\ pc[t] = "idle"
  /\ c \notin freed
  /\ freed' = freed \cup {c}
  /\ arg' = [arg EXCEPT ![t] = c]
  /\ maxCache' = [maxCache EXCEPT ![t] = max_cache_size]
  /\ Goto(t, "put")
  /\ UNCHANGED <<limits, recycleMutex, lists, merging, target, ghosts, drains>>

MustDrain(t, q) == q.size > maxCache[t]

Quarantined(t) == maxCache[t] # 0 /\ ChunkSize[arg[t]] <= max_size

\* Both ways out of Put look at the size of the local cache.
PutEnd(t) ==
  /\ arg' = [arg EXCEPT ![t] = NoChunk]
  /\ maxCache' = [maxCache EXCEPT ![t] = 0]
  /\ Goto(t, IF MustDrain(t, local'[t]) THEN "drain" ELSE "idle")
  /\ UNCHANGED <<limits, recycleMutex, merging, target, freed, ghosts, drains>>

PutPassThrough(t) ==
  /\ pc[t] = "put"
  /\ ~Quarantined(t)
  /\ UNCHANGED lists
  /\ PutEnd(t)

PutEnqueue(t) ==
  /\ pc[t] = "put"
  /\ Quarantined(t)
  /\ local' = [local EXCEPT ![t] = Enqueue(@, arg[t])]
  /\ batches' = IF NeedsBatch(local[t]) THEN batches + 1 ELSE batches
  /\ before' = before \cup (Held(local[t].list) \X {arg[t]})
  /\ UNCHANGED <<cache, tmp>>
  /\ PutEnd(t)

\* CommitBack (the thread exits) drains, Purge drains and recycles everything.
DrainBegin(t, l) ==
  /\ pc[t] = "idle"
  /\ drains > 0
  /\ drains' = drains - 1
  /\ Goto(t, l)
  /\ UNCHANGED <<limits, recycleMutex, lists, merging, arg, maxCache, target,
                 freed, ghosts>>

CommitBackBegin(t) == DrainBegin(t, "drain")
PurgeBegin(t) == DrainBegin(t, "purge")

\* Mutant: the local cache is copied and not emptied.
TransferCopies(t) ==
  /\ pc[t] \in {"drain", "purge"}
  /\ CacheMutexFree
  /\ cache' = Transfer(cache, local[t])
  /\ before' = before \cup (Held(cache.list) \X Held(local[t].list))
  /\ Goto(t, IF pc[t] = "drain" THEN "check" ELSE "lock")
  /\ brought' = [brought EXCEPT ![t] = local[t].size]
  /\ UNCHANGED <<limits, recycleMutex, local, tmp, batches, merging, calls, late>>

\* The critical section at the start of Drain and of DrainAndRecycle.
TransferCache(t) ==
  /\ pc[t] \in {"drain", "purge"}
  /\ CacheMutexFree
  /\ cache' = Transfer(cache, local[t])
  /\ local' = [local EXCEPT ![t] = Empty]
  /\ before' = before \cup (Held(cache.list) \X Held(local[t].list))
  /\ Goto(t, IF pc[t] = "drain" THEN "check" ELSE "lock")
  /\ brought' = [brought EXCEPT ![t] = local[t].size]
  /\ UNCHANGED <<limits, recycleMutex, tmp, batches, merging, calls, late>>

\* Drain reads the size of the global cache without cache_mutex_.
DrainDone(t) ==
  /\ pc[t] = "check"
  /\ cache.size <= max_size
  /\ Goto(t, "idle")
  /\ brought' = [brought EXCEPT ![t] = 0]
  /\ UNCHANGED <<limits, recycleMutex, lists, merging, calls, late>>

DrainOverLimit(t) ==
  /\ pc[t] = "check"
  /\ cache.size > max_size
  /\ Goto(t, "trylock")
  /\ UNCHANGED <<limits, recycleMutex, lists, merging, calls, ghosts>>

\* Inside Recycle, until it unlocks recycle_mutex_.
InsideRecycle(t) == pc[t] \in {"recycle", "merge", "dequeue", "unlock"}

\* recycle_mutex_.TryLock() fails.
DrainGivesUp(t) ==
  /\ pc[t] = "trylock"
  /\ recycleMutex
  /\ Goto(t, "idle")
  /\ late' = late + IF \E u \in Threads : InsideRecycle(u) THEN brought[t] ELSE 0
  /\ brought' = [brought EXCEPT ![t] = 0]
  /\ UNCHANGED <<limits, recycleMutex, lists, merging, calls>>

\* recycle_mutex_ is taken, by Drain's TryLock or by DrainAndRecycle's Lock.
RecycleBegin(t) ==
  /\ pc[t] \in {"trylock", "lock"}
  /\ ~recycleMutex
  /\ recycleMutex' = TRUE
  /\ target' = [target EXCEPT ![t] = IF pc[t] = "trylock" THEN min_size ELSE 0]
  /\ Goto(t, "recycle")
  /\ UNCHANGED <<limits, lists, merging, arg, maxCache, freed, ghosts, drains>>

\* Recycle takes cache_mutex_ and merges if that pays.
RecycleLock(t) ==
  /\ pc[t] = "recycle"
  /\ CacheMutexFree
  /\ IF WorthMerging(cache)
     THEN current' = 1 /\ Goto(t, "merge")
     ELSE UNCHANGED current /\ Goto(t, "dequeue")
  /\ UNCHANGED <<limits, recycleMutex, lists, extracted, calls, ghosts>>

\* MergeBatches: the chunks of the next batch move into the current one, and
\* the batch left empty goes to tmp, to be deallocated ...
MergeNext(t) ==
  /\ pc[t] = "merge"
  /\ current < Len(cache.list)
  /\ CanMerge(cache.list[current], cache.list[current + 1])
  /\ cache' = [cache EXCEPT !.list = MergeAt(@, current)]
  /\ extracted' = extracted + EmptyBatch.size
  /\ tmp' = [tmp EXCEPT ![t] = Append(@, EmptyBatch)]
  /\ UNCHANGED <<limits, recycleMutex, local, batches, before, pc, current,
                 calls, ghosts>>

\* ... or they do not fit, and the next batch becomes the current one.
MergeSkip(t) ==
  /\ pc[t] = "merge"
  /\ current < Len(cache.list)
  /\ ~CanMerge(cache.list[current], cache.list[current + 1])
  /\ current' = current + 1
  /\ UNCHANGED <<limits, recycleMutex, lists, pc, extracted, calls, ghosts>>

\* The size of the cache follows when the walk is over.
MergeEnd(t) ==
  /\ pc[t] = "merge"
  /\ current >= Len(cache.list)
  /\ cache' = [cache EXCEPT !.size = @ - extracted]
  /\ current' = 0 /\ extracted' = 0
  /\ Goto(t, "dequeue")
  /\ UNCHANGED <<limits, recycleMutex, local, tmp, batches, before, calls, ghosts>>

\* The oldest batch goes to tmp as long as the cache is too large.
RecycleDequeue(t) ==
  /\ pc[t] = "dequeue"
  /\ cache.size > target[t]
  /\ cache' = DequeueBatch(cache)
  /\ tmp' = [tmp EXCEPT ![t] = Append(@, Head(cache.list))]
  /\ before' = {p \in before : p[1] \notin Range(Head(cache.list).items)}
  /\ UNCHANGED <<limits, recycleMutex, local, batches, pc, merging, calls, ghosts>>

\* The end of the critical section of cache_mutex_.
RecycleExtracted(t) ==
  /\ pc[t] = "dequeue"
  /\ cache.size <= target[t]
  /\ target' = [target EXCEPT ![t] = 0]
  /\ late' = 0
  /\ brought' = [brought EXCEPT ![t] = 0]
  /\ Goto(t, "unlock")
  /\ UNCHANGED <<limits, recycleMutex, lists, merging, arg, maxCache, freed,
                 drains>>

\* Mutant: recycle_mutex_ is not unlocked.
RecycleStaysLocked(t) ==
  /\ pc[t] = "unlock"
  /\ Goto(t, "dorecycle")
  /\ UNCHANGED <<limits, recycleMutex, lists, merging, calls, ghosts>>

RecycleUnlock(t) ==
  /\ pc[t] = "unlock"
  /\ recycleMutex' = FALSE
  /\ Goto(t, "dorecycle")
  /\ UNCHANGED <<limits, lists, merging, calls, ghosts>>

\* DoRecycle: cb.Recycle for the next chunk of the first batch ...
DoRecycleChunk(t) ==
  /\ pc[t] = "dorecycle"
  /\ tmp[t] # <<>>
  /\ tmp[t][1].items # <<>>
  /\ tmp' = [tmp EXCEPT ![t][1].items = Tail(@)]
  /\ UNCHANGED <<limits, recycleMutex, cache, local, batches, before, pc,
                 merging, calls, ghosts>>

\* ... and cb.Deallocate for the batch itself.
DoRecycleBatch(t) ==
  /\ pc[t] = "dorecycle"
  /\ tmp[t] # <<>>
  /\ tmp[t][1].items = <<>>
  /\ batches' = batches - 1
  /\ tmp' = [tmp EXCEPT ![t] = Tail(@)]
  /\ UNCHANGED <<limits, recycleMutex, cache, local, before, pc, merging,
                 calls, ghosts>>

DoRecycleDone(t) ==
  /\ pc[t] = "dorecycle"
  /\ tmp[t] = <<>>
  /\ Goto(t, "idle")
  /\ UNCHANGED <<limits, recycleMutex, lists, merging, calls, ghosts>>

Put(t) == PutPassThrough(t) \/ PutEnqueue(t)
Drain(t) ==
  TransferCache(t) \/ DrainDone(t) \/ DrainOverLimit(t) \/ DrainGivesUp(t)
MergeBatches(t) == MergeNext(t) \/ MergeSkip(t) \/ MergeEnd(t)
Recycle(t) ==
  \/ RecycleBegin(t) \/ RecycleLock(t) \/ MergeBatches(t)
  \/ RecycleDequeue(t) \/ RecycleExtracted(t) \/ RecycleUnlock(t)
DoRecycle(t) == DoRecycleChunk(t) \/ DoRecycleBatch(t) \/ DoRecycleDone(t)

Begins(t) ==
  (\E c \in Chunks : PutBegin(t, c)) \/ CommitBackBegin(t) \/ PurgeBegin(t)

\* Every chunk was put, the bounds are used up and every call returned.
Done ==
  /\ \A t \in Threads : pc[t] = "idle"
  /\ freed = Chunks /\ activation = "done" /\ drains = 0
  /\ UNCHANGED vars

Next ==
  \/ \E t \in Threads : Put(t) \/ Drain(t) \/ Recycle(t) \/ DoRecycle(t)
                         \/ Begins(t)
  \/ InitStores \/ InitMutexes
  \/ Done

Spec == Init /\ [][Next]_vars

-----------------------------------------------------------------------------
(* Properties *)

Weight(S) == MapThenSumSet(LAMBDA c : ChunkSize[c], S)

\* A batch is as large as its chunks and itself and not overfull.
BatchExact(b) ==
  /\ Len(b.items) <= kSize
  /\ b.size = kBatch + Weight(Range(b.items))

\* A cache, from whose size the bytes n are yet to be taken, is as large as
\* its batches.
CacheExact(q, n) ==
  /\ q.size = OverheadSize(q) + Weight(Held(q.list)) + n
  /\ \A i \in DOMAIN q.list : BatchExact(q.list[i])

\* The size of a cache is the sum of its batches, each batch is as large as
\* its chunks and itself and holds at most kSize of them: the loop of Recycle
\* can trust size_ and never dequeues from an empty list.  No batch object is
\* lost or deallocated twice, by MergeBatches in particular.
SizesExact ==
  /\ CacheExact(cache, extracted)
  /\ \A t \in Threads : CacheExact(local[t], 0)
  /\ batches = Len(cache.list)
       + MapThenSumSet(LAMBDA t : Len(local[t].list) + Len(tmp[t]), Threads)

\* Chunk c is in front of chunk d in a list of batches.
InFront(list, c, d) ==
  \E i, j \in DOMAIN list :
    \E k \in DOMAIN list[i].items, l \in DOMAIN list[j].items :
      /\ i < j \/ (i = j /\ k < l)
      /\ list[i].items[k] = c /\ list[j].items[l] = d

\* The quarantine is first in, first out: whatever is transferred, merged and
\* extracted, each cache holds its chunks in the order in which they came, and
\* none that came after a chunk left before it.
OldestFirst ==
  \A c, d \in Chunks :
    <<c, d>> \in before <=>
      InFront(cache.list, c, d) \/ \E t \in Threads : InFront(local[t].list, c, d)

\* The limit is kept: the global cache exceeds max_size_ by no more than what
\* Drains have brought that are not over, and what Drains have brought since
\* the last extraction that gave up, a thread in Recycle having the mutex.
\* So such a Drain leaves the cache too large only if it comes between the
\* extraction and the unlock of recycle_mutex_, and the next one that finds
\* the cache too large takes it down to its limit again.
LimitKept ==
  cache.size <= max_size + late + MapThenSumSet(LAMBDA t : brought[t], Threads)

-----------------------------------------------------------------------------
(* The quarantine is three kinds of sets to its user, the allocator.  What   *)
(* Recycle extracts has left when it gives up cache_mutex_.                  *)
QS == INSTANCE QuarantineSets WITH
        arriving <- [t \in Threads |-> {arg[t]} \ {NoChunk}],
        cached <- [t \in Threads |-> Held(local[t].list)],
        global <- Held(cache.list) \cup
                    UNION {Held(tmp[t]) : t \in {u \in Threads : InsideCache(u)}},
        leaving <- [t \in Threads |-> IF InsideCache(t) THEN {} ELSE Held(tmp[t])]
QuarantineSpec == QS!Spec
=============================================================================
