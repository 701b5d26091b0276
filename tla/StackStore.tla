----------------------------- MODULE StackStore -----------------------------
(***************************************************************************)
(* The store of stack traces (sanitizer_stack_store.cpp): frames are given *)
(* out by one fetch_add, blocks are mapped by the first thread that needs  *)
(* one, packed once nobody writes to them any more, and unpacked for good  *)
(* when a trace is asked for.  The thread that packs in the background     *)
(* (CompressThread of sanitizer_stackdepot.cpp) is started by the first    *)
(* notification and stopped before a fork.                                 *)
(*                                                                         *)
(* A trace is the frame it starts at.  A block has up to three memories,   *)
(* and a memory is the set of the traces whose frames it holds; what the   *)
(* compression does to the frames is in StackCompression.                  *)
(***************************************************************************)
EXTENDS Integers, FiniteSets

CONSTANTS
  Threads,           \* threads that store and load
  Compressor,        \* the background thread of the stack depot
  kBlockSizeFrames,
  kBlockCount,
  Counts,            \* what a Store may ask for: the frames and the header
  MaxFrames,         \* bound: nothing is stored beyond
  MaxLoads,          \* bound: traces and memories that Load returns
  MaxForks,          \* bound on the number of forks
  None

Memories == {"raw", "packed", "unpacked"}

\* A second range fits behind the head that a retry has used up, or Alloc could
\* go from block to block for ever; the source has 256 and 2^20 on 64 bits.
ASSUME SizesAssumption ==
  /\ kBlockSizeFrames \in Nat \ {0}
  /\ kBlockCount \in Nat \ {0}
  /\ \A n \in Counts : n \in Nat \ {0} /\ 2 * n - 1 <= kBlockSizeFrames
  /\ Compressor \notin Threads
  /\ None \notin Threads \cup {Compressor} \cup Memories

Procs == Threads \cup {Compressor}
Blocks == 0 .. kBlockCount - 1

VARIABLES
  total_frames,  \* total_frames_
  stored,        \* stored_ of a block
  data,          \* data_: the memory it points to, or None
  state,         \* Storing, Packed or Unpacked
  mtx,           \* mtx_: who holds it
  mapped,        \* the memories of a block that are mapped
  readonly,      \* the ones that are write protected
  traces,        \* what each memory holds
  pc,
  start,         \* the frame a Store got, or a Load wants
  count,         \* the frames a Store needs
  ptr,           \* the memory a Store writes to
  pack,          \* the blocks a Store has completed
  blk,           \* the block Pack, LockAll or UnlockAll is at
  semaphore,     \* notifications the background thread has not taken
  thread,        \* CompressThread::state_
  run,           \* run_: the background thread goes on
  mutex,         \* mutex_ of CompressThread: who keeps it
  forks,         \* number of forks
  issued,        \* traces whose ids Store has returned
  loans,         \* traces and memories that Load has returned
  lost           \* frames of threads that a fork left behind

blockvars == <<stored, data, state, mtx, mapped, readonly, traces>>
locals == <<start, count, ptr, pack, blk>>
compress == <<semaphore, thread, run, mutex>>
ghosts == <<issued, loans, lost>>
vars == <<total_frames, blockvars, pc, locals, compress, forks, ghosts>>

GetBlockIdx(frame) == frame \div kBlockSizeFrames
GetInBlockIdx(frame) == frame % kBlockSizeFrames
OffsetToId(frame) == (frame + 1) % (kBlockCount * kBlockSizeFrames)

Block(t) == GetBlockIdx(start[t])
LastBlock(t) == GetBlockIdx(start[t] + count[t] - 1)
InFirst(t) == kBlockSizeFrames - GetInBlockIdx(start[t])

Goto(t, label) == pc' = [pc EXCEPT ![t] = label]

Init ==
  /\ total_frames = 0
  /\ stored = [b \in Blocks |-> 0]
  /\ data = [b \in Blocks |-> None]
  /\ state = [b \in Blocks |-> "Storing"]
  /\ mtx = [b \in Blocks |-> None]
  /\ mapped = [b \in Blocks |-> {}]
  /\ readonly = [b \in Blocks |-> {}]
  /\ traces = [b \in Blocks |-> [m \in Memories |-> {}]]
  /\ pc = [t \in Procs |-> IF t = Compressor THEN "gone" ELSE "idle"]
  /\ start = [t \in Procs |-> 0]
  /\ count = [t \in Procs |-> 0]
  /\ ptr = [t \in Procs |-> None]
  /\ pack = [t \in Procs |-> 0]
  /\ blk = [t \in Procs |-> 0]
  /\ semaphore = 0
  /\ thread = "NotStarted"
  /\ run = FALSE
  /\ mutex = None
  /\ forks = 0
  /\ issued = {}
  /\ loans = {}
  /\ lost = {}

-----------------------------------------------------------------------------
(* Store *)

Store(t, n) ==
  /\ pc[t] = "idle"
  /\ total_frames < MaxFrames
  /\ Goto(t, "alloc")
  /\ count' = [count EXCEPT ![t] = n]
  /\ UNCHANGED <<total_frames, blockvars, start, ptr, pack, blk, compress,
                 forks, ghosts>>

\* Store returns: the locals are dead, and the caller looks at pack.
Return(t, completed) ==
  /\ Goto(t, IF completed > 0 THEN "notify" ELSE "idle")
  /\ start' = [start EXCEPT ![t] = 0]
  /\ count' = [count EXCEPT ![t] = 0]
  /\ ptr' = [ptr EXCEPT ![t] = None]
  /\ pack' = [pack EXCEPT ![t] = 0]

\* The fetch_add of Alloc, for a range within a block.
AllocFits(t) ==
  LET first == GetBlockIdx(total_frames)
  IN  /\ pc[t] = "alloc"
      /\ first = GetBlockIdx(total_frames + count[t] - 1)
      /\ total_frames' = total_frames + count[t]
      /\ \/ /\ first \in Blocks
            /\ start' = [start EXCEPT ![t] = total_frames]
            /\ Goto(t, "get")
            /\ UNCHANGED <<count, ptr, pack>>
         \/ /\ first \notin Blocks
            /\ Return(t, pack[t])
      /\ UNCHANGED <<blockvars, blk, compress, forks, ghosts>>

\* The fetch_add of Alloc, for a range in two blocks.
AllocCrosses(t) ==
  /\ pc[t] = "alloc"
  /\ GetBlockIdx(total_frames) # GetBlockIdx(total_frames + count[t] - 1)
  /\ total_frames' = total_frames + count[t]
  /\ start' = [start EXCEPT ![t] = total_frames]
  /\ Goto(t, "tail")
  /\ UNCHANGED <<blockvars, count, ptr, pack, blk, compress, forks, ghosts>>

\* BlockInfo::Stored.  Behind the last block is memory of somebody else: its
\* contents decide what the caller is told.
Stored(b, n, completed) ==
  /\ stored' = IF b \in Blocks THEN [stored EXCEPT ![b] = @ + n] ELSE stored
  /\ b \in Blocks => completed = (stored[b] + n = kBlockSizeFrames)

Completed(completed) == IF completed THEN 1 ELSE 0

\* The unusable range is marked stored, first its tail, then its head.
StoredTail(t) ==
  \E completed \in BOOLEAN :
    /\ pc[t] = "tail"
    /\ Stored(Block(t), InFirst(t), completed)
    /\ pack' = [pack EXCEPT ![t] = @ + Completed(completed)]
    /\ Goto(t, "head")
    /\ UNCHANGED <<total_frames, data, state, mtx, mapped, readonly, traces,
                   start, count, ptr, blk, compress, forks, ghosts>>

\* Mutant: the head of the next block is not marked.
StoredHeadForgotten(t) ==
  /\ pc[t] = "head"
  /\ start' = [start EXCEPT ![t] = 0]
  /\ Goto(t, "alloc")
  /\ UNCHANGED <<total_frames, blockvars, count, ptr, pack, blk, compress,
                 forks, ghosts>>

StoredHead(t) ==
  \E completed \in BOOLEAN :
    /\ pc[t] = "head"
    /\ Stored(LastBlock(t), count[t] - InFirst(t), completed)
    /\ pack' = [pack EXCEPT ![t] = @ + Completed(completed)]
    /\ start' = [start EXCEPT ![t] = 0]
    /\ Goto(t, "alloc")
    /\ UNCHANGED <<total_frames, data, state, mtx, mapped, readonly, traces,
                   count, ptr, blk, compress, forks, ghosts>>

\* GetOrCreate: the look without the lock.
GetOrCreate(t) ==
  /\ pc[t] = "get"
  /\ ptr' = [ptr EXCEPT ![t] = data[Block(t)]]
  /\ Goto(t, IF data[Block(t)] = None THEN "create" ELSE "write")
  /\ UNCHANGED <<total_frames, blockvars, start, count, pack, blk, compress,
                 forks, ghosts>>

\* Mutant: Create maps the block without looking again.
CreateBlind(t) ==
  LET b == Block(t)
  IN  /\ pc[t] = "create"
      /\ mtx[b] = None
      /\ data' = [data EXCEPT ![b] = "raw"]
      /\ mapped' = [mapped EXCEPT ![b] = @ \cup {"raw"}]
      /\ traces' = [traces EXCEPT ![b]["raw"] = {}]
      /\ ptr' = [ptr EXCEPT ![t] = "raw"]
      /\ Goto(t, "write")
      /\ UNCHANGED <<total_frames, stored, state, mtx, readonly, start, count,
                     pack, blk, compress, forks, ghosts>>

\* Create, under mtx_: somebody else may have mapped the block.
Create(t) ==
  LET b == Block(t)
      memory == IF data[b] = None THEN "raw" ELSE data[b]
  IN  /\ pc[t] = "create"
      /\ mtx[b] = None
      /\ data' = [data EXCEPT ![b] = memory]
      /\ mapped' = [mapped EXCEPT ![b] = @ \cup {memory}]
      /\ ptr' = [ptr EXCEPT ![t] = memory]
      /\ Goto(t, "write")
      /\ UNCHANGED <<total_frames, stored, state, mtx, readonly, traces, start,
                     count, pack, blk, compress, forks, ghosts>>

\* The header and the frames are written.
Write(t) ==
  /\ pc[t] = "write"
  /\ traces' = [traces EXCEPT ![Block(t)][ptr[t]] = @ \cup {start[t]}]
  /\ Goto(t, "stored")
  /\ UNCHANGED <<total_frames, stored, data, state, mtx, mapped, readonly,
                 locals, compress, forks, ghosts>>

\* The frames are counted and the id is returned; an id of 0 means no trace.
StoreReturns(t) ==
  \E completed \in BOOLEAN :
    /\ pc[t] = "stored"
    /\ Stored(Block(t), count[t], completed)
    /\ issued' = IF OffsetToId(start[t]) = 0 THEN issued
                 ELSE issued \cup {start[t]}
    /\ Return(t, pack[t] + Completed(completed))
    /\ UNCHANGED <<total_frames, data, state, mtx, mapped, readonly, traces,
                   blk, compress, forks, loans, lost>>

\* Mutant: the thread that runs already is not told.
NewWorkNotifyOnce(t) ==
  \E after \in {"Started", "Failed"} :
    /\ pc[t] = "notify"
    /\ mutex = None
    /\ thread # "NotStarted" => after = thread
    /\ thread' = after
    /\ run' = (run \/ thread = "NotStarted")
    /\ semaphore' = semaphore + (IF thread = "NotStarted" THEN 1 ELSE 0)
    /\ pc' = [pc EXCEPT
         ![t] = IF after = "Started" THEN "idle" ELSE "pack",
         ![Compressor] = IF thread = "NotStarted" /\ after = "Started"
                           THEN "idle" ELSE @]
    /\ UNCHANGED <<total_frames, blockvars, locals, mutex, forks, ghosts>>

\* NewWorkNotify, with compression on: the background thread is started, unless
\* that fails, and notified; or else the thread packs itself, as it does with a
\* negative compress_stack_depot.
NewWorkNotify(t) ==
  \E after \in {"Started", "Failed", "Stopped"} :
    /\ pc[t] = "notify"
    /\ mutex = None
    /\ IF thread = "NotStarted" THEN after # "Stopped" ELSE after = thread
    /\ thread' = after
    /\ run' = (run \/ thread = "NotStarted")
    /\ semaphore' = semaphore + (IF after = "Started" THEN 1 ELSE 0)
    /\ pc' = [pc EXCEPT
         ![t] = IF after = "Started" THEN "idle" ELSE "pack",
         ![Compressor] = IF thread = "NotStarted" /\ after = "Started"
                           THEN "idle" ELSE @]
    /\ UNCHANGED <<total_frames, blockvars, locals, mutex, forks, ghosts>>

\* Run: the background thread takes a notification and looks at run_.
WaitForWork(c) ==
  /\ pc[c] = "idle"
  /\ semaphore > 0
  /\ semaphore' = semaphore - 1
  /\ Goto(c, IF run THEN "pack" ELSE "gone")
  /\ UNCHANGED <<total_frames, blockvars, locals, thread, run, mutex, forks,
                 ghosts>>

\* Stop, at the end of the process: the critical section.
Stop(t) ==
  /\ pc[t] = "idle"
  /\ mutex = None
  /\ thread = "Started"
  /\ thread' = "Stopped"
  /\ Goto(t, "stop")
  /\ UNCHANGED <<total_frames, blockvars, locals, semaphore, run, mutex, forks,
                 ghosts>>

\* Stop tells the background thread to end.
StopPost(t) ==
  /\ pc[t] = "stop"
  /\ run' = FALSE
  /\ semaphore' = semaphore + 1
  /\ Goto(t, "join_stopped")
  /\ UNCHANGED <<total_frames, blockvars, locals, thread, mutex, forks,
                 ghosts>>

\* Stop joins the background thread.
StopJoin(t) ==
  /\ pc[t] = "join_stopped"
  /\ pc[Compressor] = "gone"
  /\ Goto(t, "idle")
  /\ UNCHANGED <<total_frames, blockvars, locals, compress, forks, ghosts>>

-----------------------------------------------------------------------------
(* Load *)

Load(t, s) ==
  /\ pc[t] = "idle"
  /\ s \in issued
  /\ Cardinality(loans) < MaxLoads
  /\ start' = [start EXCEPT ![t] = s]
  /\ Goto(t, "load")
  /\ UNCHANGED <<total_frames, blockvars, count, ptr, pack, blk, compress,
                 forks, ghosts>>

\* GetOrUnpack of a block that is not packed: it will never be.
GetUnpacked(t) ==
  LET b == Block(t)
  IN  /\ pc[t] = "load"
      /\ mtx[b] = None
      /\ state[b] # "Packed"
      /\ state' = [state EXCEPT ![b] = "Unpacked"]
      /\ loans' = loans \cup {<<start[t], data[b]>>}
      /\ start' = [start EXCEPT ![t] = 0]
      /\ Goto(t, "idle")
      /\ UNCHANGED <<total_frames, stored, data, mtx, mapped, readonly, traces,
                     count, ptr, pack, blk, compress, forks, issued, lost>>

\* GetOrUnpack of a packed block: lock, map, decode, protect, publish.
Unpack(t) ==
  LET b == Block(t)
  IN  /\ pc[t] = "load"
      /\ mtx[b] = None
      /\ state[b] = "Packed"
      /\ mtx' = [mtx EXCEPT ![b] = t]
      /\ mapped' = [mapped EXCEPT ![b] = @ \cup {"unpacked"}]
      /\ traces' = [traces EXCEPT ![b]["unpacked"] = traces[b][data[b]]]
      /\ readonly' = [readonly EXCEPT ![b] = @ \cup {"unpacked"}]
      /\ data' = [data EXCEPT ![b] = "unpacked"]
      /\ Goto(t, "unmap_packed")
      /\ UNCHANGED <<total_frames, stored, state, locals, compress, forks,
                     ghosts>>

\* The rest of it: unmap the packed memory, unlock and return.
UnmapPacked(t) ==
  LET b == Block(t)
  IN  /\ pc[t] = "unmap_packed"
      /\ mapped' = [mapped EXCEPT ![b] = @ \ {"packed"}]
      /\ readonly' = [readonly EXCEPT ![b] = @ \ {"packed"}]
      /\ traces' = [traces EXCEPT ![b]["packed"] = {}]
      /\ state' = [state EXCEPT ![b] = "Unpacked"]
      /\ mtx' = [mtx EXCEPT ![b] = None]
      /\ loans' = loans \cup {<<start[t], data[b]>>}
      /\ start' = [start EXCEPT ![t] = 0]
      /\ Goto(t, "idle")
      /\ UNCHANGED <<total_frames, stored, data, count, ptr, pack, blk,
                     compress,
                     forks, issued, lost>>

-----------------------------------------------------------------------------
(* Pack *)

\* The loop over the blocks goes on, or ends.
NextBlock(t, label, after) ==
  /\ blk' = [blk EXCEPT ![t] = (@ + 1) % kBlockCount]
  /\ Goto(t, IF blk[t] + 1 = kBlockCount THEN after ELSE label)

\* Mutant: Pack does not ask whether all frames are stored.
PackableEarly(b) == state[b] = "Storing" /\ data[b] # None

Packable(b) ==
  /\ state[b] = "Storing"
  /\ data[b] # None
  /\ stored[b] = kBlockSizeFrames

\* BlockInfo::Pack leaves the block alone.
PackSkips(t) ==
  /\ pc[t] = "pack"
  /\ mtx[blk[t]] = None
  /\ ~Packable(blk[t])
  /\ NextBlock(t, "pack", "idle")
  /\ UNCHANGED <<total_frames, blockvars, start, count, ptr, pack, compress,
                 forks, ghosts>>

\* BlockInfo::Pack locks the block and compresses it into new memory.
Compress(t) ==
  LET b == blk[t]
  IN  /\ pc[t] = "pack"
      /\ mtx[b] = None
      /\ Packable(b)
      /\ mtx' = [mtx EXCEPT ![b] = t]
      /\ mapped' = [mapped EXCEPT ![b] = @ \cup {"packed"}]
      /\ traces' = [traces EXCEPT ![b]["packed"] = traces[b][data[b]]]
      /\ Goto(t, "compressed")
      /\ UNCHANGED <<total_frames, stored, data, state, readonly, locals,
                     compress,
                     forks, ghosts>>

\* It is not worth it: the block stays as it is, for good.
UndoPack(t) ==
  LET b == blk[t]
  IN  /\ pc[t] = "compressed"
      /\ readonly' = [readonly EXCEPT ![b] = @ \cup {data[b]}]
      /\ mapped' = [mapped EXCEPT ![b] = @ \ {"packed"}]
      /\ traces' = [traces EXCEPT ![b]["packed"] = {}]
      /\ state' = [state EXCEPT ![b] = "Unpacked"]
      /\ mtx' = [mtx EXCEPT ![b] = None]
      /\ NextBlock(t, "pack", "idle")
      /\ UNCHANGED <<total_frames, stored, data, start, count, ptr, pack,
                     compress,
                     forks, ghosts>>

\* The packed memory is protected and published.
PublishPacked(t) ==
  LET b == blk[t]
  IN  /\ pc[t] = "compressed"
      /\ readonly' = [readonly EXCEPT ![b] = @ \cup {"packed"}]
      /\ data' = [data EXCEPT ![b] = "packed"]
      /\ Goto(t, "unmap_raw")
      /\ UNCHANGED <<total_frames, stored, state, mtx, mapped, traces, locals,
                     compress, forks, ghosts>>

\* The memory the frames were written to is unmapped.
UnmapRaw(t) ==
  LET b == blk[t]
  IN  /\ pc[t] = "unmap_raw"
      /\ mapped' = [mapped EXCEPT ![b] = @ \ {"raw"}]
      /\ traces' = [traces EXCEPT ![b]["raw"] = {}]
      /\ state' = [state EXCEPT ![b] = "Packed"]
      /\ mtx' = [mtx EXCEPT ![b] = None]
      /\ NextBlock(t, "pack", "idle")
      /\ UNCHANGED <<total_frames, stored, data, readonly, start, count, ptr,
                     pack, compress, forks, ghosts>>

-----------------------------------------------------------------------------
(* Fork *)

\* A fork begins with LockAndStop, which keeps mutex_.
LockAndStop(t) ==
  /\ pc[t] = "idle"
  /\ forks < MaxForks
  /\ mutex = None
  /\ forks' = forks + 1
  /\ mutex' = t
  /\ run' = (run /\ thread # "Started")
  /\ semaphore' = semaphore + (IF thread = "Started" THEN 1 ELSE 0)
  /\ Goto(t, IF thread = "Started" THEN "join" ELSE "lock_all")
  /\ UNCHANGED <<total_frames, blockvars, locals, thread, ghosts>>

\* LockAndStop joins the background thread, which may be started again.
Join(t) ==
  /\ pc[t] = "join"
  /\ pc[Compressor] = "gone"
  /\ thread' = "NotStarted"
  /\ Goto(t, "lock_all")
  /\ UNCHANGED <<total_frames, blockvars, locals, semaphore, run, mutex, forks,
                 ghosts>>

\* LockAll, block by block.
LockAll(t) ==
  /\ pc[t] = "lock_all"
  /\ mtx[blk[t]] = None
  /\ mtx' = [mtx EXCEPT ![blk[t]] = t]
  /\ NextBlock(t, "lock_all", "fork")
  /\ UNCHANGED <<total_frames, stored, data, state, mapped, readonly, traces,
                 start, count, ptr, pack, compress, forks, ghosts>>

\* The frames that a thread has been given and not counted yet.
Owed(t) ==
  CASE pc[t] \in {"tail", "get", "create", "write", "stored"} ->
         start[t] .. start[t] + count[t] - 1
    [] pc[t] = "head" -> start[t] + InFirst(t) .. start[t] + count[t] - 1
    [] OTHER -> {}

\* In the parent nothing has happened.
ForkInParent(t) ==
  /\ pc[t] = "fork"
  /\ Goto(t, "unlock_all")
  /\ UNCHANGED <<total_frames, blockvars, locals, compress, forks, ghosts>>

\* In the child the other threads are gone, whatever they were doing.
ForkInChild(t) ==
  /\ pc[t] = "fork"
  /\ pc' = [u \in Procs |-> IF u = t THEN "unlock_all" ELSE "gone"]
  /\ start' = [u \in Procs |-> 0]
  /\ count' = [u \in Procs |-> 0]
  /\ ptr' = [u \in Procs |-> None]
  /\ pack' = [u \in Procs |-> 0]
  /\ blk' = [u \in Procs |-> 0]
  /\ lost' = lost \cup UNION {Owed(u) : u \in Procs \ {t}}
  /\ UNCHANGED <<total_frames, blockvars, compress, forks, issued, loans>>

\* Mutant: the last block stays locked.
UnlockAllButLast(t) ==
  /\ pc[t] = "unlock_all"
  /\ mtx' = [mtx EXCEPT ![blk[t]] =
              IF blk[t] + 1 = kBlockCount THEN t ELSE None]
  /\ NextBlock(t, "unlock_all", "unlock")
  /\ UNCHANGED <<total_frames, stored, data, state, mapped, readonly, traces,
                 start, count, ptr, pack, compress, forks, ghosts>>

\* UnlockAll, block by block.
UnlockAll(t) ==
  /\ pc[t] = "unlock_all"
  /\ mtx' = [mtx EXCEPT ![blk[t]] = None]
  /\ NextBlock(t, "unlock_all", "unlock")
  /\ UNCHANGED <<total_frames, stored, data, state, mapped, readonly, traces,
                 start, count, ptr, pack, compress, forks, ghosts>>

\* CompressThread::Unlock.
Unlock(t) ==
  /\ pc[t] = "unlock"
  /\ mutex' = None
  /\ Goto(t, "idle")
  /\ UNCHANGED <<total_frames, blockvars, locals, semaphore, thread, run,
                 forks,
                 ghosts>>

-----------------------------------------------------------------------------

StoreStep(t) ==
  \/ AllocFits(t) \/ AllocCrosses(t) \/ StoredTail(t) \/ StoredHead(t)
  \/ GetOrCreate(t) \/ Create(t) \/ Write(t) \/ StoreReturns(t)
  \/ NewWorkNotify(t)
LoadStep(t) == GetUnpacked(t) \/ Unpack(t) \/ UnmapPacked(t)
PackStep(t) ==
  PackSkips(t) \/ Compress(t) \/ UndoPack(t) \/ PublishPacked(t) \/ UnmapRaw(t)
ForkStep(t) ==
  \/ Join(t) \/ LockAll(t) \/ ForkInParent(t) \/ ForkInChild(t)
  \/ UnlockAll(t) \/ Unlock(t)

Step(t) ==
  \/ StoreStep(t) \/ LoadStep(t) \/ PackStep(t) \/ ForkStep(t)
  \/ StopPost(t) \/ StopJoin(t)

Compressing == WaitForWork(Compressor) \/ PackStep(Compressor)

Next ==
  \/ \E t \in Threads :
       \/ \E n \in Counts : Store(t, n)
       \/ \E s \in issued : Load(t, s)
       \/ LockAndStop(t) \/ Stop(t) \/ Step(t)
  \/ Compressing

Spec == Init /\ [][Next]_vars

\* A thread that has begun something is scheduled again and again; every lock
\* is held for finitely many steps, finitely often.
Fairness == WF_vars(Compressing) /\ \A t \in Threads : WF_vars(Step(t))

FairSpec == Spec /\ Fairness

-----------------------------------------------------------------------------
(* Properties *)

\* An id that Store has returned finds its trace in the memory data_ points
\* to, through packing, unpacking and forks.
IssuedIsKept ==
  \A s \in issued :
    LET b == GetBlockIdx(s)
    IN  /\ data[b] \in mapped[b]
        /\ s \in traces[b][data[b]]

\* Nobody uses memory of a block that is gone.  Between the fetch_add and the
\* call of Stored a thread writes to the block without a lock: that memory is
\* mapped, not protected, and the one the others read.  Load returns a pointer
\* into the block that nobody gives back: that memory stays mapped and keeps
\* the trace.
UsedIsThere ==
  /\ \A t \in Threads :
       /\ pc[t] \in {"get", "create"} => data[Block(t)] \in {None, "raw"}
       /\ pc[t] \in {"write", "stored"} =>
            /\ ptr[t] = "raw"
            /\ data[Block(t)] = "raw"
            /\ "raw" \in mapped[Block(t)] \ readonly[Block(t)]
  /\ \A loan \in loans :
       LET b == GetBlockIdx(loan[1])
       IN  loan[2] \in mapped[b] /\ loan[1] \in traces[b][loan[2]]

\* The frames of block b that Stored has been told of.
CountedIn(b) ==
  {f \in 0 .. total_frames - 1 :
     GetBlockIdx(f) = b /\ f \notin lost /\ \A t \in Procs : f \notin Owed(t)}

\* Every frame given out is counted once: by Stored, by the one thread that
\* still owes it, or by the threads a fork left behind.  A block can be
\* completed only when nobody is going to write to it, and it is completed by
\* one call.
FramesAddUp ==
  /\ \A t \in Procs : Owed(t) \subseteq 0 .. total_frames - 1 /\ Owed(t) \cap lost = {}
  /\ \A t, u \in Procs : t # u => Owed(t) \cap Owed(u) = {}
  /\ \A b \in Blocks : stored[b] = Cardinality(CountedIn(b))

\* Every Store, Load, Stop and fork comes to its end.
CallsReturn == \A t \in Threads : pc[t] # "idle" ~> pc[t] \in {"idle", "gone"}

\* When compression is on, a block all of whose frames are stored does not stay
\* as it is: the call that completes it reports it, and it is packed or found
\* not to be worth it.  A fork or Stop may take the thread away before that.
FullBlockIsPacked ==
  \A b \in Blocks :
    stored[b] = kBlockSizeFrames /\ data[b] # None
      ~> state[b] # "Storing" \/ forks > 0 \/ thread = "Stopped"
=============================================================================
