--------------------------- MODULE PrimaryAllocator ---------------------------
(*****************************************************************************)
(* One size class of SizeClassAllocator64, with the per-thread caches        *)
(* (SizeClassAllocator64LocalCache) in front of it.                          *)
(*                                                                           *)
(* The region of the class is an address range that is mapped from its start *)
(* on demand and cut into chunks of class_size.  A chunk is named by its     *)
(* number in the region.  The free array is in the last part of the region   *)
(* and is mapped on demand too.  Everything the region holds is changed      *)
(* under region->mutex, and a cache is touched by its own thread only, so a  *)
(* call of Allocate, Deallocate or Drain is one step.  The order of the      *)
(* chunks within an array decides only which chunk comes next: the arrays    *)
(* are sets, and a taker takes any of them.                                  *)
(*****************************************************************************)
EXTENDS Integers, FiniteSets, FiniteSetsExt

CONSTANTS
  Threads,           \* the owners of a cache
  ClassSizes,        \* the class sizes a region may have
  kPageSize,
  kUserSpace,        \* kUserSpace[size]: kRegionSize - kFreeArraySize
  kUserMapSize,      \* kUserMapSize[size]: the unit in which chunks are mapped
  kFreeArraySize,    \* the entries the free array has room for
  kFreeArrayMapSize, \* the unit in which the free array is mapped, in entries
  MaxCachedHint      \* half of the chunks a cache may hold

ASSUME PrimaryAssumption ==
  /\ ClassSizes \subseteq Nat \ {0}
  /\ kPageSize \in Nat \ {0}
  /\ kUserSpace \in [ClassSizes -> Nat]
  /\ kUserMapSize \in [ClassSizes -> Nat \ {0}]
  /\ kFreeArraySize \in Nat
  /\ kFreeArrayMapSize \in Nat \ {0}
  /\ MaxCachedHint \in Nat \ {0}

VARIABLES
  class_size,        \* ClassIdToSize of this class, never changes
  free_array,        \* the chunks of the free array
  n_allocated,       \* allocated_user, in chunks
  mapped_user,       \* how far the region is mapped
  mapped_free_array, \* the entries of the free array that are mapped
  exhausted,
  unreleased,        \* n_freed - n_freed_at_last_release, saturated
  released,          \* pages given back to the kernel and not used since
  cache,             \* cache[t]: the chunks of per_class_ of thread t
  used,              \* the chunks handed to the caller and not given back
  aborted            \* a CHECK or Die ended the process

pvars == << class_size, free_array, n_allocated, mapped_user,
            mapped_free_array, exhausted, unreleased, released, cache, used,
            aborted >>

RoundUpTo(x, b) == ((x + b - 1) \div b) * b

\* The pages a chunk lies on.
PagesOf(c) == ((c * class_size) \div kPageSize) ..
                (((c + 1) * class_size - 1) \div kPageSize)

PrimaryInit ==
  /\ class_size \in ClassSizes
  /\ free_array = {}
  /\ n_allocated = 0
  /\ mapped_user = 0
  /\ mapped_free_array = 0
  /\ exhausted = FALSE
  /\ unreleased = 0
  /\ released = {}
  /\ cache = [t \in Threads |-> {}]
  /\ used = {}
  /\ aborted = FALSE

-------------------------------------------------------------------------------
(* ReleaseFreeMemoryToOS: which pages hold free chunks only.                 *)

\* The counters: how many chunks of the free array touch page p.
FreeOn(chunks, p) == Cardinality({c \in chunks : p \in PagesOf(c)})

SameChunkCountPerPage ==
  IF class_size > kPageSize THEN class_size % kPageSize = 0
  ELSE \/ kPageSize % class_size = 0
       \/ class_size % (kPageSize % class_size) = 0

\* full_pages_chunk_count_max on the fast path.
FullPageCount ==
  IF class_size > kPageSize THEN 1
  ELSE IF kPageSize % class_size = 0 THEN kPageSize \div class_size
  ELSE (kPageSize \div class_size) + 1

\* The slow path walks over the pages; current_boundary when it reaches page
\* i, and the chunks it expects on that page.
pn == IF class_size < kPageSize THEN kPageSize \div class_size ELSE 1

AfterPage(i, current) ==
  LET boundary == (i + 1) * kPageSize
      middle == current + pn * class_size
  IN IF current >= boundary THEN current
     ELSE IF middle < boundary THEN middle + class_size
     ELSE middle

CurrentBoundary[i \in Nat] ==
  IF i = 0 THEN 0 ELSE AfterPage(i - 1, CurrentBoundary[i - 1])

\* Mutant: a page that begins with a new chunk is taken to share it.
ChunksPerPageOff(i) ==
  LET boundary == (i + 1) * kPageSize
      current == CurrentBoundary[i]
  IN IF current >= boundary THEN pn
     ELSE pn + (IF current >= i * kPageSize THEN 1 ELSE 0)
             + (IF current + pn * class_size < boundary THEN 1 ELSE 0)

ChunksPerPage(i) ==
  LET boundary == (i + 1) * kPageSize
      current == CurrentBoundary[i]
  IN IF current >= boundary THEN pn
     ELSE pn + (IF current > i * kPageSize THEN 1 ELSE 0)
             + (IF current + pn * class_size < boundary THEN 1 ELSE 0)

AllocatedPages == RoundUpTo(n_allocated * class_size, kPageSize) \div kPageSize

ReleaseFreeMemoryToOS(chunks) ==
  {p \in 0 .. AllocatedPages - 1 :
     FreeOn(chunks, p) = IF SameChunkCountPerPage THEN FullPageCount
                                                  ELSE ChunksPerPage(p)}

\* unreleased is compared with one page only; above that it is all the same.
Saturated(n) == IF n * class_size < kPageSize THEN n
                ELSE RoundUpTo(kPageSize, class_size) \div class_size

\* MaybeReleaseToOS with the given free array and count.  When it is not
\* forced it may find that the interval is off or has not passed, and the
\* memory for its counters may be refused; then nothing changes.
MaybeReleaseToOS(chunks, count) ==
  \/ /\ released' = released
     /\ unreleased' = count
  \/ /\ Cardinality(chunks) * class_size >= kPageSize
     /\ count * class_size >= kPageSize
     /\ LET pages == ReleaseFreeMemoryToOS(chunks)
        IN /\ pages # {}
           /\ released' = released \cup pages
           /\ unreleased' = 0

ForceReleaseToOS ==
  /\ MaybeReleaseToOS(free_array, unreleased)
  /\ UNCHANGED << class_size, free_array, n_allocated, mapped_user,
                  mapped_free_array, exhausted, cache, used, aborted >>

-------------------------------------------------------------------------------
(* The free array.                                                           *)

\* EnsureFreeArraySpace(n): nothing to do, more to map (which the kernel may
\* refuse), or more than the array can ever hold, which is a failed CHECK.
SpaceIsMapped(n) == n <= mapped_free_array
SpaceFits(n) == RoundUpTo(n, kFreeArrayMapSize) <= kFreeArraySize
EnsureFreeArraySpace(n) ==
  /\ SpaceIsMapped(n) \/ SpaceFits(n)
  /\ mapped_free_array' = IF SpaceIsMapped(n) THEN mapped_free_array
                          ELSE RoundUpTo(n, kFreeArrayMapSize)

\* A step that ends the process in the middle of a call.
Abort ==
  /\ aborted' = TRUE
  /\ UNCHANGED << class_size, free_array, n_allocated, mapped_user,
                  mapped_free_array, exhausted, unreleased, released, cache,
                  used >>

\* ReturnToAllocator.  Without room in the free array the process dies.
ReturnToAllocator(chunks) ==
  LET all == free_array \cup chunks
      n == Cardinality(free_array) + Cardinality(chunks)
  IN /\ EnsureFreeArraySpace(n)
     /\ free_array' = all
     /\ MaybeReleaseToOS(all, Saturated(unreleased + Cardinality(chunks)))

NoRoomToReturn(n) == ~SpaceIsMapped(Cardinality(free_array) + n)

\* The chunks that a region mapped up to m has beyond the present ones.
NewChunksCount(m) == (m - n_allocated * class_size) \div class_size
NewChunks(m) == n_allocated .. n_allocated + NewChunksCount(m) - 1

\* What PopulateFreeArray maps so that the missing chunks fit.
Missing == MaxCachedHint - Cardinality(free_array)
TotalUserBytes == (n_allocated + Missing) * class_size
MappedUser ==
  IF TotalUserBytes <= mapped_user THEN mapped_user
  ELSE mapped_user + RoundUpTo(TotalUserBytes - mapped_user,
                               kUserMapSize[class_size])
IsRegionExhausted ==
  TotalUserBytes > mapped_user /\ MappedUser > kUserSpace[class_size]

-------------------------------------------------------------------------------
(* Allocate: SizeClassAllocator64LocalCache::Allocate with Refill and        *)
(* GetFromAllocator.                                                         *)

AllocateFromCache(t) ==
  \E c \in cache[t] :
    /\ cache' = [cache EXCEPT ![t] = @ \ {c}]
    /\ used' = used \cup {c}
    /\ released' = released \ PagesOf(c)
    /\ UNCHANGED << class_size, free_array, n_allocated, mapped_user,
                    mapped_free_array, exhausted, unreleased, aborted >>

\* Refill moves half a cache out of the free array; Allocate returns one.
TakeFrom(t, chunks) ==
  \E taken \in kSubset(MaxCachedHint, chunks) : \E c \in taken :
    /\ free_array' = chunks \ taken
    /\ cache' = [cache EXCEPT ![t] = taken \ {c}]
    /\ used' = used \cup {c}
    /\ released' = released \ PagesOf(c)

Refill(t) ==
  /\ cache[t] = {}
  /\ Missing <= 0
  /\ TakeFrom(t, free_array)
  /\ UNCHANGED << class_size, n_allocated, mapped_user, mapped_free_array,
                  exhausted, unreleased, aborted >>

\* PopulateFreeArray succeeds.  It adds every chunk the mapped part has room
\* for, which are more than the missing ones after an earlier call had mapped
\* the chunks and not the free array.
PopulateFreeArray(t) ==
  /\ cache[t] = {}
  /\ Missing > 0
  /\ ~IsRegionExhausted
  /\ EnsureFreeArraySpace(Cardinality(free_array) + NewChunksCount(MappedUser))
  /\ mapped_user' = MappedUser
  /\ n_allocated' = n_allocated + NewChunksCount(MappedUser)
  /\ exhausted' = FALSE
  /\ TakeFrom(t, free_array \cup NewChunks(MappedUser))
  /\ UNCHANGED << class_size, unreleased, aborted >>

\* It fails: the region is full; the kernel refuses the chunks' memory (which
\* changes nothing); or it grants that and refuses the free array's.
RegionIsExhausted(t) ==
  /\ cache[t] = {}
  /\ Missing > 0
  /\ IsRegionExhausted
  /\ exhausted' = TRUE
  /\ UNCHANGED << class_size, free_array, n_allocated, mapped_user,
                  mapped_free_array, unreleased, released, cache, used,
                  aborted >>

\* Mutant: allocated_user is advanced before all memory is mapped.
FreeArrayIsRefusedLate(t) ==
  /\ cache[t] = {}
  /\ Missing > 0
  /\ ~IsRegionExhausted
  /\ LET n == Cardinality(free_array) + NewChunksCount(MappedUser)
     IN ~SpaceIsMapped(n) /\ SpaceFits(n)
  /\ mapped_user' = MappedUser
  /\ n_allocated' = n_allocated + NewChunksCount(MappedUser)
  /\ UNCHANGED << class_size, free_array, mapped_free_array, exhausted,
                  unreleased, released, cache, used, aborted >>

FreeArrayIsRefused(t) ==
  /\ cache[t] = {}
  /\ Missing > 0
  /\ ~IsRegionExhausted
  /\ LET n == Cardinality(free_array) + NewChunksCount(MappedUser)
     IN ~SpaceIsMapped(n) /\ SpaceFits(n)
  /\ mapped_user' = MappedUser
  /\ UNCHANGED << class_size, free_array, n_allocated, mapped_free_array,
                  exhausted, unreleased, released, cache, used, aborted >>

\* The CHECK in EnsureFreeArraySpace fails.
FreeArrayOverflows(t) ==
  /\ cache[t] = {}
  /\ Missing > 0
  /\ ~IsRegionExhausted
  /\ LET n == Cardinality(free_array) + NewChunksCount(MappedUser)
     IN ~SpaceIsMapped(n) /\ ~SpaceFits(n)
  /\ Abort

-------------------------------------------------------------------------------
(* Deallocate and Drain.  Any thread may give a chunk back, whoever got it.  *)

Deallocate(t, c) ==
  /\ c \in used
  /\ Cardinality(cache[t]) # 2 * MaxCachedHint
  /\ used' = used \ {c}
  /\ cache' = [cache EXCEPT ![t] = @ \cup {c}]
  /\ UNCHANGED << class_size, free_array, n_allocated, mapped_user,
                  mapped_free_array, exhausted, unreleased, released, aborted >>

\* The cache is full: DrainHalfMax first.
DeallocateFull(t, c) ==
  /\ c \in used
  /\ Cardinality(cache[t]) = 2 * MaxCachedHint
  /\ \E half \in kSubset(MaxCachedHint, cache[t]) :
       /\ ReturnToAllocator(half)
       /\ cache' = [cache EXCEPT ![t] = (@ \ half) \cup {c}]
  /\ used' = used \ {c}
  /\ UNCHANGED << class_size, n_allocated, mapped_user, exhausted, aborted >>

\* At the end of a thread (Destroy) and in __sanitizer_purge_allocator.
Drain(t) ==
  /\ cache[t] # {}
  /\ ReturnToAllocator(cache[t])
  /\ cache' = [cache EXCEPT ![t] = {}]
  /\ UNCHANGED << class_size, n_allocated, mapped_user, exhausted, used,
                  aborted >>

\* Either finds no room in the free array: Die.
ReturnDies(t) ==
  /\ \/ /\ Cardinality(cache[t]) = 2 * MaxCachedHint /\ used # {}
        /\ NoRoomToReturn(MaxCachedHint)
     \/ cache[t] # {} /\ NoRoomToReturn(Cardinality(cache[t]))
  /\ Abort

PrimaryNext ==
  /\ ~aborted
  /\ \/ \E t \in Threads :
          \/ AllocateFromCache(t)
          \/ Refill(t)
          \/ PopulateFreeArray(t)
          \/ RegionIsExhausted(t)
          \/ FreeArrayIsRefused(t)
          \/ FreeArrayOverflows(t)
          \/ Drain(t)
          \/ ReturnDies(t)
          \/ \E c \in used : Deallocate(t, c) \/ DeallocateFull(t, c)
     \/ ForceReleaseToOS

-------------------------------------------------------------------------------
(* Properties.                                                               *)

\* Every chunk below allocated_user is in exactly one place: the free array,
\* one cache, or a caller of Allocate.  No refill, drain, refused mapping or
\* free by another thread loses a chunk or hands it out twice; and the chunks
\* lie in the mapped part of the region, the free array in its own.
EachChunkOnce ==
  /\ free_array \cup used \cup UNION {cache[t] : t \in Threads}
       = 0 .. n_allocated - 1
  /\ free_array \cap used = {}
  /\ \A t \in Threads : cache[t] \cap (free_array \cup used) = {}
  /\ \A t, u \in Threads : t # u => cache[t] \cap cache[u] = {}
  /\ n_allocated * class_size <= mapped_user
  /\ mapped_user <= kUserSpace[class_size]
  /\ Cardinality(free_array) <= mapped_free_array

\* What ReleaseFreeMemoryToOS must compute: the pages that lie wholly in the
\* part cut into chunks and carry no chunk that is not in the free array.
FreePages ==
  {p \in 0 .. AllocatedPages - 1 :
     /\ (p + 1) * kPageSize <= n_allocated * class_size
     /\ \A c \in 0 .. n_allocated - 1 : p \in PagesOf(c) => c \in free_array}

\* The counting of ReleaseFreeMemoryToOS is exact for every ratio of chunk and
\* page size: it finds all free pages and no other; so a page that was given
\* back carries no chunk in use.
ReleaseIsExact ==
  /\ ReleaseFreeMemoryToOS(free_array) = FreePages
  /\ \A c \in used : PagesOf(c) \cap released = {}
=============================================================================
