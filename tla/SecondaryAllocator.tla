-------------------------- MODULE SecondaryAllocator --------------------------
(*****************************************************************************)
(* LargeMmapAllocator: every large block has a mapping of its own, with a    *)
(* Header on the page before the block.  The array chunks_ holds the headers *)
(* of all blocks; it is changed under mutex_, while the mapping is made      *)
(* before and undone after that, outside the mutex.                          *)
(*                                                                           *)
(* Addresses are pages.  A header is named by its page, and chunk_idx counts *)
(* from 1 as the sequences of TLA+ do.                                       *)
(*****************************************************************************)
EXTENDS Integers, Sequences, FiniteSets, FiniteSetsExt

CONSTANTS
  Callers,        \* the threads that call the allocator
  AddressSpace,   \* the pages mmap may return, a set of positive numbers
  LargeSizes,     \* sizes of the blocks, in pages
  Alignments,     \* alignments, in pages
  kMaxNumChunks,  \* EnsureSpace refuses to grow the array beyond this
  NoThread

ASSUME SecondaryAssumption ==
  /\ AddressSpace \subseteq Nat \ {0}
  /\ LargeSizes \subseteq Nat \ {0}
  /\ Alignments \subseteq Nat \ {0}
  /\ kMaxNumChunks \in Nat
  /\ NoThread \notin Callers

VARIABLES
  mapped,         \* the pages that are mapped
  header,         \* header[h]: the Header on page h, NoHeader when none is
  chunks_,        \* the array of headers, in order
  chunks_sorted_,
  owned,          \* headers of the blocks the callers hold
  at,             \* at[t]: "idle", or where t is in Allocate or Deallocate
  h,              \* h[t]: the header t works on there
  locked,         \* who holds mutex_ between ForceLock and ForceUnlock
  ptr,            \* what GetBlockBeginFastLocked looks up or has looked up, or 0
  beg, end,       \* where its loop is in the array, 0 outside the loop
  block,          \* what it has returned
  check_failed    \* a CHECK ended the process

array == << chunks_, chunks_sorted_, owned >>
lookup == << ptr, beg, end, block >>
svars == << mapped, header, array, at, h, locked, lookup, check_failed >>

NoHeader == [map_beg |-> 0, map_size |-> 0, chunk_idx |-> 0]

SecondaryInit ==
  /\ mapped = {}
  /\ header = [p \in AddressSpace |-> NoHeader]
  /\ chunks_ = << >>
  /\ chunks_sorted_ = FALSE
  /\ owned = {}
  /\ at = [t \in Callers |-> "idle"]
  /\ h = [t \in Callers |-> 0]
  /\ locked = NoThread
  /\ ptr = 0 /\ beg = 0 /\ end = 0 /\ block = 0
  /\ check_failed = FALSE

MapRange(map_beg, map_size) == map_beg .. map_beg + map_size - 1
Mapping(g) == MapRange(header[g].map_beg, header[g].map_size)

\* GetUser: the block begins on the page after its header.
GetUser(g) == g + 1

AlignUp(p, alignment) ==
  IF p % alignment = 0 THEN p ELSE p + alignment - (p % alignment)

-------------------------------------------------------------------------------
(* Allocate.  The kernel returns any free range; when it returns none, the   *)
(* call returns null and changes nothing.                                    *)

Mmap(t, size, alignment, map_beg) ==
  LET map_size == size + 1 + (IF alignment > 1 THEN alignment ELSE 0)
      pages == MapRange(map_beg, map_size)
      g == AlignUp(map_beg + 1, alignment) - 1
  IN /\ at[t] = "idle"
     /\ locked # t
     /\ pages \subseteq AddressSpace
     /\ pages \cap mapped = {}
     /\ mapped' = mapped \cup pages
     /\ header' = [header EXCEPT ![g] = [map_beg |-> map_beg,
                                         map_size |-> map_size,
                                         chunk_idx |-> 0]]
     /\ at' = [at EXCEPT ![t] = "insert"]
     /\ h' = [h EXCEPT ![t] = g]
     /\ UNCHANGED << array, locked, lookup, check_failed >>

\* Under mutex_: the header goes to the end of the array.
InsertHeader(t) ==
  /\ at[t] = "insert"
  /\ locked = NoThread
  /\ at' = [at EXCEPT ![t] = "idle"]
  /\ h' = [h EXCEPT ![t] = 0]
  /\ IF Len(chunks_) >= kMaxNumChunks
     THEN check_failed' = TRUE
          /\ UNCHANGED << header, array >>
     ELSE /\ chunks_' = Append(chunks_, h[t])
          /\ header' = [header EXCEPT ![h[t]].chunk_idx = Len(chunks_) + 1]
          /\ chunks_sorted_' = FALSE
          /\ owned' = owned \cup {h[t]}
          /\ UNCHANGED check_failed
  /\ UNCHANGED << mapped, locked, lookup >>

-------------------------------------------------------------------------------
(* Deallocate.                                                               *)

\* Mutant: the header that moves keeps its old index.
MovedToUntold(g, idx) == header

\* The header g is told its new index in the array.
MovedTo(g, idx) == [header EXCEPT ![g].chunk_idx = idx]

\* Under mutex_: the last header of the array takes the place of this one.
RemoveHeader(t, g) ==
  LET idx == header[g].chunk_idx
      n == Len(chunks_)
      last == chunks_[n]
  IN /\ at[t] = "idle"
     /\ locked = NoThread
     /\ g \in owned
     /\ IF idx \notin DOMAIN chunks_ \/ chunks_[idx] # g
        THEN check_failed' = TRUE
             /\ UNCHANGED << header, array, at, h >>
        ELSE /\ chunks_' = SubSeq([chunks_ EXCEPT ![idx] = last], 1, n - 1)
             /\ header' = MovedTo(last, idx)
             /\ chunks_sorted_' = FALSE
             /\ owned' = owned \ {g}
             /\ at' = [at EXCEPT ![t] = "unmap"]
             /\ h' = [h EXCEPT ![t] = g]
             /\ UNCHANGED check_failed
     /\ UNCHANGED << mapped, locked, lookup >>

Unmap(t) ==
  /\ at[t] = "unmap"
  /\ mapped' = mapped \ Mapping(h[t])
  /\ header' = [p \in AddressSpace |->
                  IF p \in Mapping(h[t]) THEN NoHeader ELSE header[p]]
  /\ at' = [at EXCEPT ![t] = "idle"]
  /\ h' = [h EXCEPT ![t] = 0]
  /\ UNCHANGED << array, locked, lookup, check_failed >>

-------------------------------------------------------------------------------
(* Under ForceLock: the leak checker looks blocks up and iterates.           *)

ForceLock(t) ==
  /\ at[t] = "idle"
  /\ locked = NoThread
  /\ locked' = t
  /\ UNCHANGED << mapped, header, array, at, h, lookup, check_failed >>

\* Sort puts the i-th smallest header at index i; no header is there twice.
Sorted(s) ==
  [i \in DOMAIN s |->
     CHOOSE x \in Range(s) : Cardinality({y \in Range(s) : y <= x}) = i]

\* GetBlockBeginFastLocked and ForEachChunk sort the array first.
EnsureSortedChunks(t) ==
  /\ locked = t
  /\ ~chunks_sorted_
  /\ chunks_' = Sorted(chunks_)
  /\ header' = [p \in AddressSpace |->
                  IF p \in Range(chunks_)
                  THEN [header[p] EXCEPT !.chunk_idx =
                          CHOOSE i \in DOMAIN chunks_ : Sorted(chunks_)[i] = p]
                  ELSE header[p]]
  /\ chunks_sorted_' = TRUE
  /\ UNCHANGED << mapped, owned, at, h, locked, lookup, check_failed >>

\* GetBlockBeginFastLocked(p), once the array is sorted: an address outside of
\* all blocks is answered at once.
BeginLookup(t, p) ==
  /\ locked = t /\ beg = 0
  /\ chunks_sorted_ \/ chunks_ = << >>
  /\ ptr' = p
  /\ block' = 0
  /\ LET n == Len(chunks_)
         outside == \/ n = 0
                    \/ p < chunks_[1]
                    \/ p >= chunks_[n] + header[chunks_[n]].map_size
     IN /\ beg' = IF outside THEN 0 ELSE 1
        /\ end' = IF outside THEN 0 ELSE n
  /\ UNCHANGED << mapped, header, array, at, h, locked, check_failed >>

\* The loop.
SearchLoop(t) ==
  /\ locked = t /\ beg # 0
  /\ end - beg >= 2
  /\ LET mid == (beg + end) \div 2
     IN IF ptr < chunks_[mid] THEN end' = mid - 1 /\ UNCHANGED beg
                              ELSE beg' = mid /\ UNCHANGED end
  /\ UNCHANGED << mapped, header, array, at, h, locked, ptr, block, check_failed >>

\* Mutant: the first address of the later header is taken for the earlier one's.
ChosenOff == IF beg < end /\ ptr > chunks_[end] THEN chunks_[end] ELSE chunks_[beg]

\* Of the two headers that may be left.
Chosen == IF beg < end /\ ptr >= chunks_[end] THEN chunks_[end] ELSE chunks_[beg]

SearchEnd(t) ==
  /\ locked = t /\ beg # 0
  /\ end - beg < 2
  /\ block' = IF ptr \in Mapping(Chosen) THEN GetUser(Chosen) ELSE 0
  /\ beg' = 0 /\ end' = 0
  /\ UNCHANGED << mapped, header, array, at, h, locked, ptr, check_failed >>

ForceUnlock(t) ==
  /\ locked = t /\ beg = 0
  /\ locked' = NoThread
  /\ ptr' = 0 /\ block' = 0
  /\ UNCHANGED << mapped, header, array, at, h, beg, end, check_failed >>

SecondaryNext ==
  /\ ~check_failed
  /\ \E t \in Callers :
       \/ \E size \in LargeSizes, a \in Alignments, map_beg \in AddressSpace :
            Mmap(t, size, a, map_beg)
       \/ InsertHeader(t)
       \/ \E g \in owned : RemoveHeader(t, g)
       \/ Unmap(t)
       \/ ForceLock(t)
       \/ EnsureSortedChunks(t)
       \/ \E p \in AddressSpace : BeginLookup(t, p)
       \/ SearchLoop(t)
       \/ SearchEnd(t)
       \/ ForceUnlock(t)

-------------------------------------------------------------------------------
(* The other lookup.                                                         *)

\* GetBlockBegin: the nearest header at or below p, by linear search.
GetBlockBegin(p) ==
  LET left == {g \in Range(chunks_) : g <= p}
      nearest == Max(left)
  IN IF left = {} \/ header[nearest].map_beg + header[nearest].map_size <= p
     THEN 0 ELSE GetUser(nearest)

-------------------------------------------------------------------------------
(* Properties.                                                               *)

\* The array holds exactly the headers of the blocks in use, each once and at
\* the index its header says; each header is in a mapping that is there and is
\* no other block's.  So no CHECK of Deallocate fails, and no lookup reads a
\* header that is unmapped or was reused, although blocks are mapped before
\* they are inserted and unmapped after they are removed.
ArrayIsExact ==
  /\ ~check_failed \/ Len(chunks_) = kMaxNumChunks
  /\ Range(chunks_) = owned
  /\ \A i \in DOMAIN chunks_ :
       /\ header[chunks_[i]].chunk_idx = i
       /\ chunks_[i] \in Mapping(chunks_[i])
       /\ Mapping(chunks_[i]) \subseteq mapped
       /\ \A j \in DOMAIN chunks_ : i # j =>
            Mapping(chunks_[i]) \cap Mapping(chunks_[j]) = {}

\* The blocks at an address: a block goes from its header to the end of its
\* mapping.
BlocksAt(p) == {g \in owned : p \in g .. header[g].map_beg + header[g].map_size - 1}

\* The block an address belongs to, or 0.
BlockOf(p) ==
  IF BlocksAt(p) = {} THEN 0 ELSE GetUser(CHOOSE g \in BlocksAt(p) : TRUE)

\* "This function does the same as GetBlockBegin, but is much faster": both
\* lookups find, for every address, the block it belongs to, although blocks
\* are mapped and unmapped meanwhile; and the loop stays inside the array.
LookupsAgree ==
  /\ \A p \in AddressSpace : GetBlockBegin(p) = BlockOf(p)
  /\ ptr # 0 /\ beg = 0 => block = BlockOf(ptr)
  /\ beg # 0 => 1 <= beg /\ beg <= end /\ end <= Len(chunks_)
=============================================================================
