# A verification project for tasan

tasan is the AddressSanitizer runtime of LLVM as a library of its own: the
allocator with its quarantine, the bookkeeping of threads, the depot of stack
traces, the leak checker, and the locks and containers below them
(`src/src/asan`, `src/src/lsan`, `src/src/sanitizer_common`).  This directory
models the parts of it that several threads run through at once, and whose
mistakes a unit test would hardly provoke.  TLC checks the models on small
instances; TLAPS proves the safety properties of most of them for every instance.

Contents:

1. The system, and which module models which part
2. The modules and the code
3. The runs: what is checked, bounds, fairness
4. What is proved, from which assumptions, and how
5. What is only model-checked
6. Limits of the code: where code and comments disagree
7. What is not modelled
8. Running it

## 1. The system

    malloc, free          pthread_create, join     __lsan_do_leak_check, exit
        |                        |                          |
    AsanAllocator            AsanThreads                LeakCheck
     |     |    \                |                          |
     |     |     Quarantine      ThreadRegistry         StopTheWorld
     |     |                                             (locks registry,
     |     StackDepot -> StackStore -> StackCompression   allocator, libdl)
     |
    CombinedAllocator -> PrimaryAllocator, SecondaryAllocator

    everything above: SanitizerMutex -> Semaphore -> futex

An allocation takes a block from the combined allocator, stores the stack in the
depot, writes a header and unpoisons the shadow.  A free marks the header with
one compare-exchange, poisons, and puts the chunk in the quarantine; whoever
drains the quarantine recycles chunks back to the combined allocator.  A thread
has a context in the registry, found by tid or by `pthread_t`; its argument and
return value are kept as roots for the leak checker.  The leak checker takes
the locks of the registry and the allocator, clones a tracer that stops
every thread, classifies all chunks, and lets the threads go.

| Part | Source (below `src/src/`) | Modules |
| --- | --- | --- |
| Mutex | `sanitizer_common/sanitizer_mutex.h` | `SanitizerMutex`, abstract `RWLock`, `SanitizerMutexProofs` |
| Semaphore | `sanitizer_mutex.cpp` | `Semaphore`, abstract `CountingSemaphore`, `Locks`; proofs in `SanitizerMutexProofs` |
| Quarantine | `sanitizer_quarantine.h` | `Quarantine`, abstract `QuarantineSets` |
| Life of a chunk | `asan/asan_allocator.cpp` | `AsanAllocator`, `AsanAllocatorProofs` |
| Primary, secondary, combined allocator | `sanitizer_allocator_primary64.h`, `..._local_cache.h`, `..._secondary.h`, `..._combined.h` | `PrimaryAllocator`, `SecondaryAllocator`, `CombinedAllocator`, `CombinedAllocatorProofs` |
| Thread registry | `sanitizer_thread_registry.cpp` | `ThreadRegistry`, `ThreadRegistryProofs` |
| Threads of ASan | `asan/asan_thread.cpp`, `asan_interceptors.cpp`, `sanitizer_thread_arg_retval.cpp` | `AsanThreads`, `AsanThreadsProofs` |
| Stack depot | `sanitizer_stackdepotbase.h`, `sanitizer_flat_map.h` | `StackDepot`, abstract `DepotMap`, `StackDepotProofs` |
| Stack store | `sanitizer_stack_store.cpp`, `sanitizer_stackdepot.cpp` | `StackStore`, `StackStoreProofs` |
| Compression | `sanitizer_leb128.h`, `sanitizer_lzw.h` | `StackCompression` |
| Stop the world | `sanitizer_stoptheworld_linux_libcdep.cpp`, `lsan_common_linux.cpp` | `StopTheWorld` |
| Leak checker | `lsan/lsan_common.cpp`, `asan/asan_allocator.cpp` | `LeakCheck` (extends `StopTheWorld`), `LeakCheckProofs` |

`MC*.tla` and `*.cfg` give the constants their values for a run.  `PROJECT.json`
maps every definition to the lines it models, lists the hazards with the
properties that would catch them, and one mutant per property: a plausible
mistake in the code, under which TLC finds the property violated.

The models are of the build the repository supports: 64-bit x86 Linux.  A
compare-exchange there does not fail spuriously.  The models let atomic accesses
happen one after the other; that a store may be delayed past a later load of
the same thread, as it may be on that processor, is not modelled.

## 2. The modules and the code

Each module says at its head what one step is.  In general a critical section of
a lock that nothing else can observe is one step; where shared state is read
without the lock, or an operation spans several critical sections, the operation
is a sequence of steps with a program counter per thread (`pc`), whose locals,
possibly stale, are variables too.

**SanitizerMutex.**  The 64-bit word is a record of its fields (`readerLock`,
`waitingReader`, `waitingWriter`, the writer lock and the two spin flags).  Each
loop of `Lock`, `ReadLock`, `Unlock`, `ReadUnlock` and `TryLock` is a load of the
word into a local, then one action per branch, each of which publishes a new
word only if the word is still the local (`CasFails` and the `...Retry` actions
otherwise).  `RWLock` says what callers rely on: one writer, or readers.

**Semaphore.**  `Wait` decrements by compare-exchange from a local that may be
stale, or sleeps in `FutexWait`; `Post` adds and then wakes in a second step.  The
kernel's queue is a set, from which a signal may take a sleeper at any moment.
`CountingSemaphore` is the counter that `SanitizerMutex` uses.  `Locks` has the two
classes side by side: a behaviour is one of a mutex or one of a semaphore.

**Quarantine.**  Caches are sequences of batches, with sizes as the code counts
them (the batch object included).  `Put`, `Drain` with the unlocked look at the size
and the `TryLock` of `recycle_mutex_`, and `DoRecycle` chunk by chunk are steps;
`Recycle` holds `cache_mutex_` over several of them, one per round of `MergeBatches`
and of the loop that extracts.  A program that starts deactivated has a quarantine
of size zero until `AsanActivate` calls `Init` again, with threads in `Put`: the
three limits are stored one after the other and the mutexes initialised last
(`InitStores`, `InitMutexes`), so that `recycle_mutex_` may be held, and two threads may
then recycle at once.  `before`, `brought` and `late` are history variables for
the properties.  `QuarantineSets` is what the allocator sees: a chunk arrives, is
cached, is global, leaves with one thread.  `AsanAllocator` uses `QuarantineSets`, so
each is checked against the same interface from its side.

**AsanAllocator.**  Blocks with a header byte at two possible places (the start of
the block, or later after a larger redzone), the magic word, and one shadow state
per block.  `malloc` is allocate, unpoison, publish, set the magic; `free` is the
compare-exchange of the header byte, the context, the poisoning, the put; recycling
clears the magic, invalidates the header, poisons and deallocates.  Sizes do not
occur: whether a free drains the quarantine is a free choice here, decided in
`Quarantine`.  The cache that threads without an `AsanThread` share is one more
member of `Threads`.  With `Misuse` the application frees pointers that malloc has
returned again, and errors are reported in recover mode; pointers that malloc never
returned are not among its arguments.

**PrimaryAllocator, SecondaryAllocator, CombinedAllocator.**  One size class of the
64-bit primary: chunks are numbers, the free array and the caches of threads are
sets; `Refill`, `PopulateFreeArray` with each mapping that can be refused,
`DrainHalfMax`, and the release of free pages with its counters per page (in the
form the code computes them, for every case of chunk and page size; the runs of
pages that `FreePagesRangeTracker` hands to the kernel are the set of their pages).  The secondary
keeps the array of headers, lazily sorted, with `mmap` and `munmap` outside its
mutex; `GetBlockBeginFastLocked`, which runs while the allocator is locked, is a step
to sort and look at the ends of the array, one per round of its binary search, and
one to answer.  `CombinedAllocator` chooses between the two; they share only statistics.

**ThreadRegistry, AsanThreads.**  A method of the registry is one step under its
mutex, except `JoinThread`, which polls.  Threads are named by `unique_id`; tids go
through the quarantine of dead contexts to the list of invalid ones and are
reused.  `AsanThreads` has the interceptors around `pthread_create`, `join` and
`detach`, the `AsanThread` object, and `ThreadArgRetval` with its generations; there
the system reuses `pthread_t` and kernel ids as soon as it may.  ASan itself never
calls the registry's `JoinThread` and `DetachThread`, and its registry does not
reuse tids, so the two modules are about different uses of the same class.

**StackDepot, StackStore, StackCompression.**  `Put` is every access to a bucket, the
nodes and the two-level map, with the lock bit; `fork` leaves the other threads
behind.  `DepotMap` is a growing map from hashes to ids.  In the store a trace is the
frame it starts at, and a block has up to three memories (raw, packed, unpacked);
`CompressThread` is started, notified, stopped and joined as in the code.
`StackCompression` has SLEB128, the delta streams and LZW as functions, in words of a
few bits.

**StopTheWorld, LeakCheck.**  The locks of `LockStuffAndStopTheWorld` in their order
(libdl's lock, the registry, the allocator), the clone of the tracer, listings
that may be incomplete and are retried, attaching, forwarded signals, a `waitpid`
that fails, the tracer's signal handler, and resuming; around it threads are created,
end, fork, load libraries and refill their caches.  Threads are named by their tid in
the registry, and `os_id` is the kernel id of each, which the kernel may give out again
when its thread has ended.  A listing that `ThreadLister` calls complete is complete in
the model: that the kernel ends one early only in the ways the code looks for
(`sanitizer_linux.cpp:1126-1143`) is an assumption about `/proc`.  `LeakCheck` fills the
callback: the stages of `ClassifyAllChunks` with the lookup of each suspended task by its
kernel id, collecting, resetting the tags, the reruns for suppressions, and the
application's changes to the heap before and after.

## 3. The runs

Every run explores all interleavings of its instance; the number of distinct states
is given in brackets.  Deadlock is checked where the model has no legal end
(`locks` and `quarantine` have an explicit final step; `allocator` never
stops); elsewhere the process may end or the bounds be used up, and what must not
get stuck is a liveness property instead.

**locks** [146,537] - a mutex or a semaphore.  The mutex: three threads with two, two and
one operations of any kind, no active spinning (`kMaxSpinIters = 0`; a larger value
only adds retries of the same branches), counters of two bits.
`WriterSpinHasOneOwner`: the flag that keeps `Unlock` from waking a second writer always
has one thread that will clear it.  `NoLostWakeup`: parked threads are looked after by a
holder or an awake spinner.  `RWSpec`: refinement of `RWLock`, so exclusion.
`OperationsReturn`: under fairness nobody stays parked.  Three threads are the least
with which a writer and a reader are parked behind a third; with three threads and two
operations each the properties hold on 416,908 states.  The semaphore: three threads, two
operations each, posts of one or two.  `CountingSpec`: refinement of a counter.
`TokensAreTaken`: no token lies beside a sleeper for ever, although `Post` wakes in a
second step and signals interrupt.

**quarantine** [289,946] - two threads, four small chunks, which are symmetric, and one
larger than the whole quarantine, batches of two, two pairs of limits, active from the
start or activated at any moment, two calls of `CommitBack` or `Purge`.  A batch object is
8 bytes and a small chunk 4.  A batch of one, 12 bytes, exceeds the limit 11 of a local
cache, or 13 only with a second chunk; the limits 20 and 26 of the global cache are
exceeded by two or three batches, merging then pays, and the target of the extraction
(18 for both) is met before all batches are gone.  `SizesExact`: byte counts and batch objects
agree with the lists.  `OldestFirst`: first in, first out through transfers, merges and
partial extractions, against the history of arrivals.  `LimitKept`: the global cache
exceeds its limit by no more than what is brought by drains that are not over, and by
drains that gave up because another thread was in `Recycle`, since the last
extraction; so an excess does not add up.  It is exceeded in the run, also when
all is quiet.  `QuarantineSpec`: refinement of `QuarantineSets`.

**allocator** [37,548] - two threads, a primary and a secondary block, both places of
the header, legal calls only.  `EachBlockOnce`: one owner among free store,
application, calls in progress, quarantine.  `LegalCallsPass`: no legal call is
reported and no CHECK of the recycling fails.  `LookupSound`: `GetAsanChunk` never
answers with a chunk that is not initialised or a wrong header.  `ShadowTellsLife`:
user memory is addressable exactly while the chunk is live.  Also on {p1, p2, s1}
(1,792,928) and with three threads (702,000).

**allocator_misuse** [24,372] - three threads free the same pointers again and race
their frees (threads are symmetric).  `FreedOnce`: exactly one free goes through, and
the chunk names its thread.  Also on two blocks (327,066).

**registry** [313,444] - six threads over three tids, a quarantine of one context,
contexts retired after two reuses, two user ids.  `TidKept`: no tid changes hands
while somebody may still use it.  `ChecksHold`: the CHECKs of the class hold in
every order of calls.  `LiveExact`: the map of user ids is the inverse of the
contexts.  `JoinReturns`: the polling join ends when the thread has finished.

**threads** [48,587] - the main thread and two others, three handles and kernel ids,
generations that wrap after two.  `RootsExact`, `JoinsMeetTheirThread`,
`ThreadIsMapped`: arguments, results, joins and thread objects stay with their thread
although handles are reused at once.  With a third thread: 4,096,251 states.

**stack_store** [190,707] - two threads and the compressor, two blocks of three frames,
traces of one or two frames, one load, one fork.  `IssuedIsKept`: an id returned
finds its trace for ever.  `UsedIsThere`: nobody writes to or reads from memory that
is gone.  `FramesAddUp`: every frame given out is counted once, a fork's losses
included.  `CallsReturn`, `FullBlockIsPacked` under fairness; the second assumes that
compression is on and excludes a fork or `Stop`.  With three frames stored per
thread: 888,081 states.  Beside the store, in behaviours of their own, single blocks are
packed and unpacked: words of 5 bits in groups of 2, so that, as with 64 and 7, the last
byte of the longest number is not full; all blocks of four words over six boundary
values, all blocks of eight over three, and patterns that make LZW refer to the entry it
is just building.  `UnpackedIsExact`: what `Pack` keeps packed is unpacked to the same
frames.

**stack_depot** [113,328] - two threads, three traces, two in one bucket, one fork.
`ChainsAreWhole`: a list is what was published in its bucket, ids descending.
`PublishedIsFrozen`: published nodes are never written.  `DepotIsAMap`: refinement of
`DepotMap`.  `PutReturns`.  With three threads and four traces 1,228,174 states, with
two forks 890,451.

**leak_check** [872,766] - a thread, one that has ended without being joined, one that is
created later and may get the kernel id of the second, and one task unknown to ASan; two
chunks, one fault (an incomplete listing, a failed attach or `waitpid`, a signal), two
checks, one turn of other activity, two tries (30 in the code), one rerun (8 in the
code), two initial heaps.  `WorldStands`: during the callback every running thread is
stopped, none of them in the middle of a change to the allocator or to the list of
modules, and the heap does not change.  `ReportIsExact`: the leaks are what no root
reaches, with the right tag, in the second check as in the first.  Two things are not
roots here that should be: the memory of a thread that the lookup by kernel id does not
find (`Hidden`), and an ignored chunk whose tag a scan has overwritten (`lost`).  That the
code loses them is what the next two runs show.  `SuppressedHoldNothing`: no reported
leak is held only by a suppressed one; a rerun after a rerun needs more chunks than this
instance has, and is left to the proof.  `LeakCheckReturns`: the check ends with all
threads resumed.

**ignored_objects**, expected to fail - `IgnoredIsNoLeak`: what the application asked to
ignore is not collected as a leak.  Two threads, two checks; see section 6.

**reused_ids**, expected to fail - `NotFoundIsEnding`: a suspended task that is not found in
the registry does not run application code any more.  One check; see section 6.

**allocator_backend** [422,150] - two threads; eight chunk sizes against a page of 8 (a
divisor, a multiple, neither, and equal: every case the counting tells apart), a
free array of four, caches of at most two; or large blocks of one or two pages in
ten pages, at most four of them, so that the binary search goes round and both ways.  `EachChunkOnce`, `ReleaseIsExact`, `ArrayIsExact`,
`LookupsAgree` (the linear and the binary search find the one block that holds an
address, and the binary search stays inside the array).  Also with larger caches (123,992; six chunks 6,021,750) and a page of
16 with fifteen sizes (137,327).

### Fairness

Weak fairness is assumed of what a thread does *inside* an operation, never of
starting one: the kernel schedules every thread that can run, and the critical
sections of the code end.

- `SanitizerMutex`, `Semaphore`: the steps of each thread, leaving its critical
  section included.  A sleeper in the kernel is not helped by fairness.  Operations
  are bounded, so "no thread keeps taking the lock for ever" is part of the claim:
  the lock itself promises no more.
- `ThreadRegistry`: the polling of `JoinThread`; not that threads finish.
- `StackDepot`: the steps of `Put` and the second half of a fork.
- `StackStore`: the steps of each thread, and the compressor.
- `LeakCheck`: the check, the tracer, a thread that holds a lock, and a task that has a
  stop signal pending.  The tracer need not crash.

## 4. What is proved

The proofs are in `...Proofs.tla`, one module per component.  TLAPS checks them
without any statement taken on trust.  They hold for every value of the constants
that satisfies the named assumption of the module, so for any number of threads,
blocks, traces or chunks, and any bound on operations.

| Module | Theorems about properties of runs | Further theorems |
| --- | --- | --- |
| `SanitizerMutexProofs` | `MutexSpinOwner`, `MutexNoLostWakeup`, `MutexImplementsRWLock`, `SemaphoreCounts` | `MutexInvariant`, `MutexTypes`, `MutexExclusion`, `MutexAccounting`, `MutexLockDCheck`, `MutexPostsSomething`, `MutexCountersFit` |
| `AsanAllocatorProofs` | `BlocksHaveOneOwner`, `LegalCallsAreNotReported`, `LookupIsSound`, `ShadowFollowsLife`, `FreesGoThroughOnce` | `AllocatorTypes`, `AllocatorInvariant`, `MisuseInvariant`, `LiveChunksAreFound`, `QuarantineIsUsedWell` |
| `ThreadRegistryProofs` | `TidIsKept`, `RegistryChecksHold`, `LiveIsExact` | `RegistryInvariant`, `RegistryTypes`, `CountersAreExact` |
| `StackDepotProofs` | `DepotChainsAreWhole`, `DepotPublishedIsFrozen`, `DepotRefinesMap` | `DepotInvariant`, `DepotTypes`, `DepotOneIdPerHash`, `DepotIssuedIsFound` |
| `StackStoreProofs` | `IssuedAreKept`, `UsedMemoryIsThere`, `FramesAreCountedOnce` | `StoreInvariant` |
| `CombinedAllocatorProofs` | `ChunksAreNeitherLostNorDoubled`, `ReleaseFindsExactlyTheFreePages`, `TheArrayIsExact`, `LookupsFindTheBlock` | `SecondaryInvariant` |
| `AsanThreadsProofs` | `RootsAreExact`, `JoinsMeetTheirThreads`, `ContextsPointToThreads` | `ThreadsInvariant` |
| `LeakCheckProofs` | `TheWorldIsStopped`, `TheReportIsExact`, `SuppressedChunksHoldNothing` | |

Each follows the same plan: an inductive invariant holds initially, one lemma
per action shows that the action keeps it, and the properties follow from it.
TLC has checked each invariant on an instance before it was proved.

**Mutex.**  Assumption: finitely many threads, fewer than a counter of the word can
count.  `IInv` is types, exact counters (`WriterAccounting`), `WriterSpinHasOneOwner`,
`MutualExclusion`, `WakePositive`, `ReaderSpinHasOwner` and `NoLostWakeup`.  None of them
is inductive alone.  Exclusion needs that the reader counter is exactly the number
of readers; that a decrement of the waiting writers is legal needs that only
the one owner of the spin flag is awake on their behalf; and a wakeup is not lost
only because the flag has an owner that will look again.  `WakePositive` is also the
`CHECK_NE` at the start of `Semaphore::Post`, for the one caller whose count varies.
The module ends with `Semaphore`, instantiated on variables of its own: every step of the
futex code is a step of `CountingSemaphore` or invisible to it, given only that the
counter is a natural number.  So the counters `writers` and `readers` of the mutex are
what the futex code provides.

**Allocator.**  `IInv` is types, `Control` (what a register holds at each label),
`EachBlockOnce`, `Life` (header, magic and shadow of a block for each owner and phase)
and `StartByte` (the byte at a place without a header).  A step of one thread may
touch a block only through the owner it has; so the proof shows for each action
which blocks move (`Moves`) and that the memory of all others stays (`OnlyTouches`).
`Life` is needed because a free is legal only if the header byte says so, which
is a fact about the last thread that wrote it.  These theorems assume `~Misuse`.
With misuse a block may be in several calls at once, so `EachBlockOnce` is false, and
another invariant takes over.  `MInv` speaks only of the stages in which a block is
not the application's: not yet published, marked by a free, in the quarantine, being
recycled, or free.  A block is in at most one stage of one thread (`OneStage`), its
chunk is not in state `ALLOCATED` there (`StageBytes`), and no state lies where the
header does not (`OtherByte`).  The compare-exchange of a free finds `ALLOCATED`, so
the block was in no stage, and enters the first.  From the two invariants follow, for
any use, `FreesGoThroughOnce` and `QuarantineIsUsedWell`.  `AllocatorTypes` holds for any
use too.  `LiveChunksAreFound` assumes also that a header in a block of the
secondary allocator never lies at its start (see section 6).

**Registry.**  `IInv` is types, `Lists` (dead and invalid contexts are apart, without
repetition, and in step with the statuses), `Contexts`, `Uses` (what a thread that may
still name its tid knows of the context), `HandlesApart`, `LiveInverse` and
`CountersExact`.  `TidKept` needs all but the last: a tid is reused only through
the two lists, so the lists must never hold a context in use.  The theorems assume
`QuarantineSize > 0`: with size zero `QuarantinePush` resets the very context that
`FinishThread` marks destroyed afterwards.  ASan's registry has an unlimited one
(`sanitizer_thread_registry.cpp`, the constructor with one argument).

**Depot.**  `IInv` is types, what is shared (`ChainsAreWhole`, well-formed nodes, no hash
twice, ids returned), what each thread inside `Put` knows (`Searches`: everything it has
passed has another hash; `Holds`: the bucket it locked does not change; `Fills`: its
node is not published), and that two threads never hold one bucket or fill one
node.  The steps that publish nothing are dealt with together (`Quiet`).  That a
second node for a hash is never made rests on `Searches` surviving from the
search without the lock to the lock: when the head of the bucket is still the same,
the code does not search again.
The refinement maps `DepotMap`'s table to the id of the published node of a hash.

**Store.**  Assumption: blocks have at least one frame, there is at least one block, and
a trace is small enough for a block (`2 * n - 1 <= kBlockSizeFrames`; the source has 256
and 2^20).  `IInv` is types, `FramesAddUp`, `Full` (a full block is owed nothing, which
follows from it by counting), `Locks` and `Loops` (which locks a thread has,
also half way through `LockAll` and `UnlockAll`), `BlockOk` (the state of a block against
the memory `data_` points to), `PackOk` and `CallOk` (what a thread knows where it is),
and `TraceOk` and `LoanOk` (a trace whose id, or a pointer, was returned).  Three
arguments meet in it.  The counting: a thread that has not called `Stored` owes its
frames, so the block is not full (`WriterOwes`), so it is not packed, whence the memory
written to without a lock is there; this needs the frames of the threads a fork
left behind to count as lost for good, and the two parts of a range that crosses
a block to be counted apart.  The lock: between publishing a memory and the new state of
the block the two disagree, and `BlockOk` allows that only to the holder of the lock.
And the order of states: once `Unpacked` a block stays so, which is what pointers
returned by `Load` rely on.  In the child of a fork all locks are the caller's, so no
block is half way.

**Back end.**  `PInv` is types, `Placed` (each chunk that was cut is in one
place), `UserFits` and `ArrayFits` (chunks and free array lie in mapped memory).  It
covers each mapping that `PopulateFreeArray` and `ReturnToAllocator` may be refused.
`ReleaseIsExact` adds what the counters of `ReleaseFreeMemoryToOS` compute.  The chunks on
page `p` are those from `FirstOn(p)` to `LastOn(p)`, so their number is a difference of two
quotients.  Where the code expects one number for all pages (`FastPath`), the ratio
of the sizes makes this difference constant.  Where it walks over the pages
(`SlowPath`), `current_boundary` is a recursive function; `Walk` shows by induction over
the pages that at page `i` it is the end of the last chunk begun before that page
(`Begun`), and hence that the walk counts the same difference.  A page's counter is the
number of free chunks on it (`CountIsExact`), so it reaches the expected number exactly
if no other chunk is there.  That pages given back carry no chunk in use
(`UsedIsKept`) is inductive over `PInv`: only free chunks make a page free, and `Allocate`
writes to what it returns.
`SInv`, of the secondary, is types, `Apart` (no header has two users, and each lies in
a mapping of its own), `Indexed` (the array holds the callers' blocks, each at the index
its header has, so that `Deallocate` may swap by index) and `Sound` (`chunks_sorted_` is
true only of a sorted array; the binary search has between `beg` and `end` what it looks
for).  That sorting exists and is unique is shown by ranks: the place of a header is
the number of headers not above it.  `TheArrayIsExact` and `LookupsFindTheBlock`
follow; the second needs that mappings are apart, or the nearest header below an
address would not be the only candidate.  The constants: addresses, sizes and
alignments are positive, and the mark for "not locked" is no thread.

**Threads.**  The assumption bounds the threads ever created by the number of
generations (`MaxTid <= kInvalidGen`): the registry of ASan never reuses a tid and
holds at most `UINT32_MAX` contexts (`sanitizer_thread_registry.cpp:116`), which is also
the value of `kInvalidGen`.  `IInv` is types,
`HandlesApart` (no two threads own one `pthread_t`, from creation until the library
may hand it out again), `Claims` (who may still join or detach), `Entry` and `EntryOf`
(what `ThreadArgRetval` knows of a thread, and of whom an entry speaks), and
`Generations`.  An entry is changed only for the owner of its `pthread_t`.  The one
exception is `AfterJoin`, which runs when the `pthread_t` is free already; there the
generation decides, and that no two entries share one is what `Generations` adds.

**Leak check.**  `WInv` is types, `HoldsRegistry` (who holds the lock, by label),
`ParentSpins` (while there is a tracer its parent waits and holds the registry),
`Stopped` (a suspended task is stopped or dead), `Covered` (after a complete listing every
running thread is suspended, or its turn will come) and `Listed`.  `Covered` is the
heart: it survives because threads start and end only with the registry free,
which `ParentSpins` rules out while the tracer works.  `WorldStands` speaks of
checks whose listing was complete and in which no living task resisted; the
code goes on in the other case too, and may then miss threads.
`HInv` is about kernel ids and the other two locks: no two living threads have one id
(`OsIds`), so that the first context with the id of a running thread is that of the
thread, or of one that has ended and hides it; and `LocksHeld` says who holds the lock of
the allocator and of the linker, by label, which rules out that a stopped thread was
half way through a change of either.
`LInv` is what the scan adds: `HoldsGlobal` (the checks take turns), `TagsBetween` (between two scans tags say only what is to be
ignored, unless the callback crashed, after which no scan follows), `IgnoredTags` (a chunk
to be ignored has its tag or is in `lost`), `Scanning` and `HeldApart`.  `Scanning` is the loop invariant of the flood fill: what is marked is
reachable, and what a marked chunk points to is marked or the chunk is still on the
frontier (`Flood`); each stage leaves its roots marked (`RootsFound`); the others have the
tag of a leak (`LeakTags`).  `Reachable` is defined as the least set closed under
pointers, so an empty frontier makes the two equal.  `WorldStands` is what keeps
heap and roots from changing meanwhile.  `HeldApart` says that a report follows only a
scan in which suppressed chunks hold none of it; `reported`, what the last report
named, is a history variable for it.  The only assumption is that a heap to start with
has its chunks in `Chunks`.

## 5. What is only model-checked

- Liveness (`OperationsReturn`, `TokensAreTaken`, `JoinReturns`, `CallsReturn`,
  `FullBlockIsPacked`, `PutReturns`, `LeakCheckReturns`): reasoning about fairness is
  outside what the installed prover supports.
- `UnpackedIsExact`: `StackCompression` is written with recursive operators over
  sequences (LZW, SLEB128), for which the prover has no induction.
- `SizesExact`, `OldestFirst`, `LimitKept` and `QuarantineSpec`: they sum over lists of
  batches, and each transfer, merge and extraction would need an induction over the list.
- `IgnoredIsNoLeak` and `NotFoundIsEnding`, which are false.

## 6. Limits of the code

Reading the code for the models turned up places where a comment says more than
the code does, or where a property holds only under a condition.  None of them
is hidden in the models: they are assumptions, parameters, or explicit exclusions.

- `sanitizer_mutex.h:334-337` says that waiting readers imply a write lock and waiting
  writers some lock.  Between an `Unlock` and the wakeup it causes, either counter may
  be non-zero with the mutex free.  `NoLostWakeup` states what does hold: a holder
  *or an awake spinner*.
- `asan_allocator.cpp:826`: `GetAsanChunk` takes a block of the secondary allocator
  without the magic word for "not initialised".  A large chunk with the smallest
  redzone (`max_redzone=16`) has its header at the start of the block and no magic,
  so lookups do not find it.  `LiveChunksAreFound` states the condition.
- `sanitizer_thread_registry.cpp:227`: a context is found by kernel id also after its
  thread has finished and the kernel has given the id to another thread, for ASan never
  joins a context.  `GetThreadRangesLocked` then finds no `AsanThread`, and `ProcessThread`
  skips the stack of a thread that runs.  `lsan_common.cpp:462` explains a thread that is
  not found with "it's probably in the process of destruction".  The run `reused_ids` has
  a counterexample: thread 1 has ended, thread 2 gets its kernel id, a check starts.
- `sanitizer_stack_store.cpp:95-96`: a range that crosses the end of the last block
  counts frames in an element behind `blocks_`: the test against `ARRAY_SIZE` is only
  on the path of a range within one block.  It takes as many frames as the whole id
  space to get there.  In the model that memory is nobody's, and what `Stored`
  answers for it is a free choice.
- `lsan_common.cpp:441`: `ProcessThreadRegistry` tags what arguments of threads lead to as
  reachable without looking at the tag before, also when it was `kIgnored`; `ResetTags`
  (747-748) then makes it an ordinary chunk.  The comment at 837-838, "This assumes we
  did not overwrite any kIgnored tags", and `lsan_interface.h:26`, "The heap object into
  which p points will be treated as a non-leak", say otherwise.  The run
  `ignored_objects` has a counterexample of two checks: an ignored chunk is the argument
  of a thread during the first, and reported by the second.
- `sanitizer_allocator_primary64.h:875`: "Nothing new to release" is a heuristic: it
  counts bytes freed since the last release, not free pages.  `ReleaseIsExact` is about
  what is released when the code decides to.
- `sanitizer_allocator_primary64.h:627-630`: the free array may in principle be too small
  for its region; the model includes the failure (`FreeArrayOverflows`, `NoRoomToReturn`).
- `asan_report.cpp:130-152`: the list of modules is refreshed before the registry is
  locked, which the comment says "eliminates the lock order inversion risk" with a
  leak check.  A `dlopen` of another thread in between marks the list stale
  (`sanitizer_common_interceptors.inc:6514`), and symbolizing then iterates over the
  modules with the registry locked (`sanitizer_symbolizer_libcdep.cpp:215`), in the
  order opposite to the leak checker's.  This comes from reading: reports are not in
  the model, and by default the first one ends the process.

## 7. What is not modelled

`PROJECT.json` lists every part with its status; in short:

- **Left out of modelled parts.**  Allocator: sizes, allocation contexts, mismatches of
  new and delete, `ReInitialize` and re-poisoning.  Threads: names, fibers, the
  fake stack, fork handlers of `AsanThread`.  Leak checker: root regions, poisoned words,
  `use_detached`, `thread_suspend_fail` other than 1, the guard against a second
  check at exit (`already_done`), the retries of a failed check (flag `tries`) and
  `__lsan_is_turned_off`; signals of the tracer only arrive in the callback, and
  `TracerAbort` stands for every way it may die.  Back end: statistics, metadata, the
  random order of chunks, the 32-bit primary (not built for this target).  Depot and
  store: use counts, statistics, printing.
- **Sequential, or data only.**  The layout of an allocation, shadow poisoning of
  ranges, the small containers, flags, text and formatting: functions of one
  request, well within reach of unit tests.
- **Once, before a second thread.**  Initialisation, interception.  Of activation only the
  second `Init` of the quarantine is modelled.
- **Driven from outside.**  Globals (called by the dynamic linker under one
  mutex), the fake stack (called by compiled code, one thread each), handlers of
  the undefined-behaviour sanitizer, coverage.
- **Input and output.**  Reports, symbolizer, unwinding, the system-call layer, and the
  interceptors of libc, which check ranges and call the original.  These are by far the
  largest part of the roughly 107,000 lines of the repository, together with the
  ports to other platforms, which the build excludes; so the modules cover a small
  share of its lines, and most of its concurrent protocols.
- **Not instantiated.**  The lock-free stack; the deadlock detector, which ASan never
  calls.  `AddrHashMap` serves interceptors of streams only.

Also outside the models: reordering of memory accesses, exhaustion of 64-bit counters,
collisions of 64-bit hashes (ids agree exactly when hashes do), that the
`Init` of activation finds `cache_mutex_` held, and frees inside signal handlers.

## 8. Running it

    tlc -workers 2 -config MCLocks.cfg MCLocks
    tlapm SanitizerMutexProofs.tla

and likewise for the other runs (`PROJECT.json` gives module and configuration of each)
and proof modules (for the depot, both).  No run takes longer than three minutes on two
cores; the proofs take four (mutex) to twenty minutes (allocator) from nothing.
