--------------------------- MODULE AsanAllocator ---------------------------
(***************************************************************************)
(* The life of a heap chunk, asan_allocator.cpp: Allocate, Deallocate,     *)
(* Reallocate, the callbacks of the quarantine and the chunk lookup, run   *)
(* by several threads at once.                                             *)
(*                                                                         *)
(* A block is what the underlying allocator hands out.  The chunk header   *)
(* lies at the start of the block, or later in it when the left redzone or *)
(* the alignment asks for that; then the first word of the block holds     *)
(* kAllocBegMagic and leads to the header.  The byte at each of the two    *)
(* places where a header may lie is kept apart: the other place is old     *)
(* memory, or memory of the application.  The shadow of a block is         *)
(*   "redzone"  poisoned throughout,                                       *)
(*   "user"     user region addressable, redzones poisoned,                *)
(*   "freed"    user region poisoned as freed, redzones poisoned,          *)
(*   "zero"     addressable throughout (a fresh mapping).                  *)
(* Sizes, fill patterns, statistics and allocation stacks are left out;    *)
(* whether a chunk is quarantined, drained or extracted, which sizes       *)
(* decide, is left open here and decided in module Quarantine.             *)
(***************************************************************************)
CONSTANTS
  Threads,  \* the threads of the process
  Blocks,   \* the blocks of the underlying allocator
  Primary,  \* those of the size class allocator; the others are mmapped
  Places,   \* where the header of a chunk in each block may lie
  None,     \* no block
  Misuse    \* the application may free a pointer that it has freed already

Place == {"start", "later"}
State == {"INVALID", "ALLOCATED", "QUARANTINE"}

\* The header bytes of memory that was never written.
Blank == [p \in Place |-> "INVALID"]

ASSUME AllocatorAssumption ==
  /\ None \notin Blocks
  /\ None \notin Threads
  /\ Primary \subseteq Blocks
  /\ Places \in [Blocks -> SUBSET Place]
  /\ Misuse \in BOOLEAN

VARIABLES
  free,      \* blocks in the underlying allocator
  place,     \* where the header of the current or last chunk of a block lies
  hdr,       \* the byte chunk_state, at each place where it may lie
  magic,     \* the first word of the block is kAllocBegMagic
  shadow,    \* the shadow memory of the block
  freeTid,   \* the thread in free_context_id, None for kInvalidTid
  held,      \* the pointers the application owns
  known,     \* the pointers the application was ever given
  arriving, cached, global, leaving,  \* the quarantine, see QuarantineSets
  pc,        \* where each thread is
  new,       \* the block a thread is allocating, or will return
  old,       \* the block a thread is freeing
  rec        \* the block a thread is recycling

mem == <<place, hdr, magic, shadow, freeTid>>
app == <<held, known>>
quarantine == <<arriving, cached, global, leaving>>
vars == <<free, mem, app, quarantine, pc, new, old, rec>>

Q == INSTANCE QuarantineSets WITH Chunks <- Blocks

Init ==
  /\ free = Blocks
  /\ place \in [Blocks -> Place]
  /\ \A b \in Blocks : place[b] \in Places[b]
  /\ hdr = [b \in Blocks |-> Blank]
  /\ magic = [b \in Blocks |-> FALSE]
  /\ shadow = [b \in Blocks |-> IF b \in Primary THEN "redzone" ELSE "zero"]
  /\ freeTid = [b \in Blocks |-> None]
  /\ held = {}
  /\ known = {}
  /\ Q!Init
  /\ pc = [t \in Threads |-> "idle"]
  /\ new = [t \in Threads |-> None]
  /\ old = [t \in Threads |-> None]
  /\ rec = [t \in Threads |-> None]

Goto(t, l) == pc' = [pc EXCEPT ![t] = l]

ChunkState(b) == hdr[b][place[b]]
SetChunkState(b, s) == hdr' = [hdr EXCEPT ![b][place[b]] = s]

-----------------------------------------------------------------------------
(* Allocate and Reallocate *)

MallocBegin(t) ==
  /\ pc[t] = "idle"
  /\ Goto(t, "malloc")
  /\ UNCHANGED <<free, mem, app, quarantine, new, old, rec>>

\* Reallocate(old_ptr): the application gives the pointer up if it succeeds.
ReallocBegin(t, b) ==
  /\ pc[t] = "idle"
  /\ b \in held
  /\ held' = held \ {b}
  /\ old' = [old EXCEPT ![t] = b]
  /\ Goto(t, "malloc")
  /\ UNCHANGED <<free, mem, known, quarantine, new, rec>>

\* Mutant: realloc loses the old pointer when it returns null.
MallocFailsLosesOld(t) ==
  /\ pc[t] = "malloc"
  /\ old' = [old EXCEPT ![t] = None]
  /\ Goto(t, "idle")
  /\ UNCHANGED <<free, mem, app, quarantine, new, rec>>

\* A limit is exceeded or memory is exhausted: null is returned, and the old
\* pointer of a Reallocate stays with the application.
MallocFails(t) ==
  /\ pc[t] = "malloc"
  /\ held' = held \cup ({old[t]} \ {None})
  /\ old' = [old EXCEPT ![t] = None]
  /\ Goto(t, "idle")
  /\ UNCHANGED <<free, mem, known, quarantine, new, rec>>

\* What the byte at place p of a block may hold when the block is handed out:
\* inside a primary block, anything the last owner wrote there.
OldBytes(b, p) ==
  IF p = "later" /\ b \in Primary /\ ~Misuse THEN State ELSE {hdr[b][p]}

\* allocator.Allocate returns block b, in which the header will lie at p.
AllocateBlock(t, b, p, s) ==
  /\ pc[t] = "malloc"
  /\ b \in free
  /\ p \in Places[b]
  /\ s \in OldBytes(b, p)
  /\ hdr' = [hdr EXCEPT ![b][p] = s]
  /\ free' = free \ {b}
  /\ place' = [place EXCEPT ![b] = p]
  /\ new' = [new EXCEPT ![t] = b]
  /\ Goto(t, "unpoison")
  /\ UNCHANGED <<magic, shadow, freeTid, app, quarantine, old, rec>>

\* Mutant: "and" in place of "or".
PoisonRedzonesOfPrimary(b) ==
  IF b \in Primary /\ shadow[b] = "zero" THEN "redzone" ELSE shadow[b]

\* The redzones are poisoned if the block comes unpoisoned.
PoisonRedzones(b) ==
  IF b \notin Primary \/ shadow[b] = "zero" THEN "redzone" ELSE shadow[b]

\* Then the user region is made addressable; the redzones stay as they are.
Unpoison(t) ==
  /\ pc[t] = "unpoison"
  /\ shadow' = [shadow EXCEPT ![new[t]] = IF PoisonRedzones(new[t]) = "zero"
                                           THEN "zero" ELSE "user"]
  /\ Goto(t, "publish")
  /\ UNCHANGED <<free, place, hdr, magic, freeTid, app, quarantine, new, old,
                 rec>>

\* "Must be the last mutation of metadata in this function."
Publish(t) ==
  /\ pc[t] = "publish"
  /\ SetChunkState(new[t], "ALLOCATED")
  /\ Goto(t, "set_magic")
  /\ UNCHANGED <<free, place, magic, shadow, freeTid, app, quarantine, new,
                 old, rec>>

\* Mutant: the magic is never set.
SetMagicNever(t) ==
  /\ pc[t] = "set_magic"
  /\ Goto(t, IF old[t] = None THEN "return" ELSE "check_old")
  /\ UNCHANGED <<free, mem, app, quarantine, new, old, rec>>

\* LargeChunkHeader::Set(m) if the header does not lie at the start.
SetMagic(t) ==
  /\ pc[t] = "set_magic"
  /\ magic' = [magic EXCEPT ![new[t]] = @ \/ place[new[t]] = "later"]
  /\ Goto(t, IF old[t] = None THEN "return" ELSE "check_old")
  /\ UNCHANGED <<free, place, hdr, shadow, freeTid, app, quarantine, new, old,
                 rec>>

\* Reallocate looks at the state of the old chunk, reports unless it is
\* CHUNK_ALLOCATED, copies and calls Deallocate.
CheckOld(t) ==
  /\ pc[t] = "check_old"
  /\ Goto(t, "free")
  /\ UNCHANGED <<free, mem, app, quarantine, new, old, rec>>

\* The call returns; a block that was allocated goes to the application.
Return(t) ==
  /\ pc[t] = "return"
  /\ held' = held \cup ({new[t]} \ {None})
  /\ known' = IF Misuse THEN known \cup ({new[t]} \ {None}) ELSE known
  /\ new' = [new EXCEPT ![t] = None]
  /\ Goto(t, "idle")
  /\ UNCHANGED <<free, mem, quarantine, old, rec>>

-----------------------------------------------------------------------------
(* Deallocate *)

FreeBegin(t, b) ==
  /\ pc[t] = "idle"
  /\ b \in held \/ (Misuse /\ b \in known)
  /\ held' = held \ {b}
  /\ old' = [old EXCEPT ![t] = b]
  /\ Goto(t, "free")
  /\ UNCHANGED <<free, mem, known, quarantine, new, rec>>

\* Mutant: the state is changed without looking at it.
SetQuarantineFlag(t) ==
  /\ pc[t] = "free"
  /\ SetChunkState(old[t], "QUARANTINE")
  /\ Goto(t, "mark")
  /\ UNCHANGED <<free, place, magic, shadow, freeTid, app, quarantine, new,
                 old, rec>>

\* RunFreeHooks: a hook asks for the pointer to stay allocated.
FreeIgnored(t) ==
  /\ pc[t] = "free"
  /\ held' = held \cup {old[t]}
  /\ old' = [old EXCEPT ![t] = None]
  /\ Goto(t, "return")
  /\ UNCHANGED <<free, mem, known, quarantine, new, rec>>

\* AtomicallySetQuarantineFlagIfAllocated: one compare-exchange.
SetQuarantineFlagIfAllocated(t) ==
  /\ pc[t] = "free"
  /\ ChunkState(old[t]) = "ALLOCATED"
  /\ SetChunkState(old[t], "QUARANTINE")
  /\ Goto(t, "mark")
  /\ UNCHANGED <<free, place, magic, shadow, freeTid, app, quarantine, new,
                 old, rec>>

\* ReportInvalidFree: double free, or free of memory not allocated.
ReportInvalidFree(t) ==
  /\ pc[t] = "free"
  /\ ChunkState(old[t]) # "ALLOCATED"
  /\ old' = [old EXCEPT ![t] = None]
  /\ Goto(t, "return")
  /\ UNCHANGED <<free, mem, app, quarantine, new, rec>>

\* SetFreeContext(kInvalidTid, 0): the field held user data.
MarkContext(t) ==
  /\ pc[t] = "mark"
  /\ freeTid' = [freeTid EXCEPT ![old[t]] = None]
  /\ Goto(t, "context")
  /\ UNCHANGED <<free, place, hdr, magic, shadow, app, quarantine, new, old,
                 rec>>

\* QuarantineChunk: SetFreeContext(t), then quarantine.Put.
QuarantineChunk(t) ==
  /\ pc[t] = "context"
  /\ freeTid' = [freeTid EXCEPT ![old[t]] = t]
  /\ arriving' = [arriving EXCEPT ![t] = {old[t]}]
  /\ Goto(t, "put")
  /\ UNCHANGED <<free, place, hdr, magic, shadow, app, cached, global, leaving,
                 new, old, rec>>

\* Quarantine::Put: PreQuarantine poisons the user region, then Enqueue.
PutQuarantine(t) ==
  /\ pc[t] = "put"
  /\ shadow' = [shadow EXCEPT ![old[t]] = "freed"]
  /\ Q!Enqueue(t)
  /\ old' = [old EXCEPT ![t] = None]
  /\ Goto(t, "drain")
  /\ UNCHANGED <<free, place, hdr, magic, freeTid, app, new, rec>>

\* Quarantine::Put: RecyclePassThrough.
PutPassThrough(t) ==
  /\ pc[t] = "put"
  /\ Q!PassThrough(t)
  /\ rec' = [rec EXCEPT ![t] = old[t]]
  /\ old' = [old EXCEPT ![t] = None]
  /\ Goto(t, "clear_magic")
  /\ UNCHANGED <<free, mem, app, new>>

-----------------------------------------------------------------------------
(* Draining the quarantine, and its callback Recycle *)

\* CommitBack of a thread that exits, and Purge.
DrainBegin(t) ==
  /\ pc[t] = "idle"
  /\ Goto(t, "drain")
  /\ UNCHANGED <<free, mem, app, quarantine, new, old, rec>>

\* Put finds the local cache small enough.
SkipDrain(t) ==
  /\ pc[t] = "drain"
  /\ Goto(t, "return")
  /\ UNCHANGED <<free, mem, app, quarantine, new, old, rec>>

Transfer(t) ==
  /\ pc[t] = "drain"
  /\ Q!Transfer(t)
  /\ Goto(t, "extract")
  /\ UNCHANGED <<free, mem, app, new, old, rec>>

\* Quarantine::Recycle takes batches; none if the global cache is small or
\* another thread is at it.
Extract(t, out) ==
  /\ pc[t] = "extract"
  /\ Q!Extract(t, out)
  /\ Goto(t, "recycle")
  /\ UNCHANGED <<free, mem, app, new, old, rec>>

RecycleNext(t, b) ==
  /\ pc[t] = "recycle"
  /\ Q!Recycle(t, b)
  /\ rec' = [rec EXCEPT ![t] = b]
  /\ Goto(t, "clear_magic")
  /\ UNCHANGED <<free, mem, app, new, old>>

\* Put looks at the size of the local cache after RecyclePassThrough as well.
RecycleDone(t) ==
  /\ pc[t] = "recycle"
  /\ leaving[t] = {}
  /\ Goto(t, "drain")
  /\ UNCHANGED <<free, mem, app, quarantine, new, old, rec>>

\* Mutant: the magic stays.
ClearMagicNever(t) ==
  /\ pc[t] = "clear_magic"
  /\ rec[t] \in Primary
  /\ Goto(t, "invalidate")
  /\ UNCHANGED <<free, mem, app, quarantine, new, old, rec>>

\* LargeChunkHeader::Set(nullptr), whose CHECK wants the magic to be there.
ClearMagic(t) ==
  /\ pc[t] = "clear_magic"
  /\ rec[t] \in Primary
  /\ place[rec[t]] = "later" => magic[rec[t]]
  /\ magic' = [magic EXCEPT ![rec[t]] = FALSE]
  /\ Goto(t, "invalidate")
  /\ UNCHANGED <<free, place, hdr, shadow, freeTid, app, quarantine, new, old,
                 rec>>

\* The compare-exchange to CHUNK_INVALID, with its CHECK.
Invalidate(t) ==
  /\ pc[t] = "invalidate"
  /\ ChunkState(rec[t]) = "QUARANTINE"
  /\ SetChunkState(rec[t], "INVALID")
  /\ Goto(t, "poison")
  /\ UNCHANGED <<free, place, magic, shadow, freeTid, app, quarantine, new,
                 old, rec>>

PoisonRecycled(t) ==
  /\ pc[t] = "poison"
  /\ shadow' = [shadow EXCEPT ![rec[t]] = "redzone"]
  /\ Goto(t, "deallocate")
  /\ UNCHANGED <<free, place, hdr, magic, freeTid, app, quarantine, new, old,
                 rec>>

DeallocatePrimary(t) ==
  /\ pc[t] = "deallocate"
  /\ free' = free \cup {rec[t]}
  /\ rec' = [rec EXCEPT ![t] = None]
  /\ Goto(t, "recycle")
  /\ UNCHANGED <<mem, app, quarantine, new, old>>

\* The secondary unpoisons and unmaps the block; a later mapping is zero.
DeallocateSecondary(t) ==
  /\ pc[t] = "clear_magic"
  /\ rec[t] \notin Primary
  /\ free' = free \cup {rec[t]}
  /\ hdr' = [hdr EXCEPT ![rec[t]] = Blank]
  /\ magic' = [magic EXCEPT ![rec[t]] = FALSE]
  /\ shadow' = [shadow EXCEPT ![rec[t]] = "zero"]
  /\ rec' = [rec EXCEPT ![t] = None]
  /\ Goto(t, "recycle")
  /\ UNCHANGED <<place, freeTid, app, quarantine, new, old>>

Malloc(t) ==
  \/ MallocBegin(t) \/ MallocFails(t) \/ Unpoison(t) \/ Publish(t)
  \/ SetMagic(t) \/ CheckOld(t) \/ Return(t)
  \/ \E b \in Blocks : ReallocBegin(t, b)
  \/ \E b \in Blocks, p \in Place, s \in State :
       AllocateBlock(t, b, p, s)

Free(t) ==
  \/ FreeIgnored(t) \/ SetQuarantineFlagIfAllocated(t) \/ ReportInvalidFree(t)
  \/ MarkContext(t) \/ QuarantineChunk(t) \/ PutQuarantine(t)
  \/ PutPassThrough(t)
  \/ \E b \in Blocks : FreeBegin(t, b)

Drain(t) ==
  \/ DrainBegin(t) \/ SkipDrain(t) \/ Transfer(t) \/ RecycleDone(t)
  \/ ClearMagic(t) \/ Invalidate(t) \/ PoisonRecycled(t)
  \/ DeallocatePrimary(t) \/ DeallocateSecondary(t)
  \/ \E b \in Blocks : RecycleNext(t, b)
  \/ \E out \in SUBSET global : Extract(t, out)

Next == \E t \in Threads : Malloc(t) \/ Free(t) \/ Drain(t)

Spec == Init /\ [][Next]_vars

-----------------------------------------------------------------------------
(* The chunk lookup *)

\* GetAsanChunk: the place of the header found in block b, or "null".
GetAsanChunk(b) ==
  LET p == IF magic[b] THEN "later" ELSE "start"
  IN  IF /\ magic[b] \/ b \in Primary
         /\ hdr[b][p] \in {"ALLOCATED", "QUARANTINE"}
        THEN p
        ELSE "null"

-----------------------------------------------------------------------------
(* Properties *)

Labels == {"idle", "malloc", "unpoison", "publish", "set_magic", "check_old",
           "return", "free", "mark", "context", "put", "drain", "extract",
           "recycle", "clear_magic", "invalidate", "poison", "deallocate"}

\* Every variable has its type.
TypeOK ==
  /\ free \in SUBSET Blocks
  /\ place \in [Blocks -> Place]
  /\ hdr \in [Blocks -> [Place -> State]]
  /\ magic \in [Blocks -> BOOLEAN]
  /\ shadow \in [Blocks -> {"redzone", "user", "freed", "zero"}]
  /\ freeTid \in [Blocks -> Threads \cup {None}]
  /\ held \in SUBSET Blocks
  /\ known \in SUBSET Blocks
  /\ arriving \in [Threads -> SUBSET Blocks]
  /\ cached \in [Threads -> SUBSET Blocks]
  /\ global \in SUBSET Blocks
  /\ leaving \in [Threads -> SUBSET Blocks]
  /\ pc \in [Threads -> Labels]
  /\ new \in [Threads -> Blocks \cup {None}]
  /\ old \in [Threads -> Blocks \cup {None}]
  /\ rec \in [Threads -> Blocks \cup {None}]

Owners == {"free", "held", "global", "new", "old", "rec", "arriving", "cached",
           "leaving"}

\* Block b is with owner k; for the owners that belong to a thread, with the
\* thread t.
Owns(k, t, b) ==
  \/ k = "free" /\ t = None /\ b \in free
  \/ k = "held" /\ t = None /\ b \in held
  \/ k = "global" /\ t = None /\ b \in global
  \/ k = "new" /\ t \in Threads /\ new[t] = b
  \/ k = "old" /\ t \in Threads /\ old[t] = b /\ pc[t] # "put"
  \/ k = "rec" /\ t \in Threads /\ rec[t] = b
  \/ k = "arriving" /\ t \in Threads /\ b \in arriving[t]
  \/ k = "cached" /\ t \in Threads /\ b \in cached[t]
  \/ k = "leaving" /\ t \in Threads /\ b \in leaving[t]

\* A block has exactly one owner at any time: the underlying allocator, the
\* application, one call in progress or one list of the quarantine.  No block
\* is lost and none is handed out twice (Allocate, Reallocate, Deallocate,
\* the quarantine and its Recycle callback, together).
EachBlockOnce ==
  \A b \in Blocks :
    \E k \in Owners, t \in Threads \cup {None} :
      \A l \in Owners, u \in Threads \cup {None} :
        Owns(l, u, b) <=> (l = k /\ u = t)

\* Every CHECK and every report on the path of a legal call would pass:
\* Reallocate and Deallocate find the chunk allocated, QuarantineChunk and
\* Recycle find it quarantined, and LargeChunkHeader::Set(nullptr) finds the
\* magic.
LegalCallsPass ==
  \A t \in Threads :
    /\ pc[t] \in {"check_old", "free"} => ChunkState(old[t]) = "ALLOCATED"
    /\ pc[t] = "context" => ChunkState(old[t]) = "QUARANTINE"
    /\ pc[t] = "clear_magic" =>
         (place[rec[t]] = "later" => magic[rec[t]])
    /\ pc[t] = "invalidate" => ChunkState(rec[t]) = "QUARANTINE"

\* GetAsanChunk answers with the header of the current chunk or with null; it
\* says null while Allocate has not initialised the chunk and once Recycle
\* has given it up (comment of GetAsanChunk).
LookupSound ==
  \A b \in Blocks :
    GetAsanChunk(b) # "null" =>
      /\ GetAsanChunk(b) = place[b]
      /\ b \notin free
      /\ \A t \in Threads :
           /\ new[t] = b => pc[t] \notin {"unpoison", "publish"}
           /\ rec[t] = b => pc[t] \notin {"poison", "deallocate"}

\* GetAsanChunk finds every chunk that the application owns: it says null only
\* for a chunk not yet initialised or being destroyed (comment of
\* GetAsanChunk).
LiveIsFound == \A b \in held : GetAsanChunk(b) = place[b]

\* The user region is addressable, between poisoned redzones, exactly while
\* the application owns the chunk or a call on it is in progress; a chunk in
\* the quarantine is poisoned as freed, and a block waiting in the primary
\* is poisoned throughout (Allocate, PreQuarantine, Recycle).
ShadowTellsLife ==
  \A b \in Blocks :
    /\ b \in held => shadow[b] = "user"
    /\ shadow[b] = "user" =>
         \/ b \in held
         \/ \E t \in Threads : b \in {new[t], old[t], rec[t]}
    /\ (b \in global \/ \E t \in Threads : b \in cached[t] \cup leaving[t])
         => shadow[b] = "freed"
    /\ b \in free /\ b \in Primary => shadow[b] = "redzone"

\* However often, and from however many threads, the application frees a
\* pointer that malloc has returned, one free goes through
\* (AtomicallySetQuarantineFlagIfAllocated): a block is in at most one list of
\* the quarantine, and then neither free nor being recycled, and the chunk
\* names the thread whose free it was (SetFreeContext in QuarantineChunk).
FreedOnce ==
  /\ \A b \in Blocks :
       \A k, l \in Owners \ {"held", "new", "old"}, t, u \in Threads \cup {None} :
         Owns(k, t, b) /\ Owns(l, u, b) => k = l /\ t = u
  /\ \A t \in Threads : \A b \in arriving[t] \cup cached[t] : freeTid[b] = t

\* The allocator uses the quarantine as the quarantine expects: a chunk is put
\* only when it is not inside (QuarantineChunk).
QuarantineUse == Q!Spec
=============================================================================
