-------------------------- MODULE StackStoreProofs --------------------------
(***************************************************************************)
(* The inductive invariant of StackStore, for any number of threads,       *)
(* blocks, frames, loads and forks and for every size of a block.          *)
(*                                                                         *)
(* A thread writes to a block without a lock.  What keeps the memory there *)
(* is that the frames it owes are missing from the count of the block, so  *)
(* the block is not full and Pack leaves it alone.  What keeps a loan good *)
(* is that an unpacked block is never packed again.  The rest of the       *)
(* invariant says who holds the lock of a block, and at which step.        *)
(***************************************************************************)
EXTENDS StackStore, TLAPS

K == kBlockSizeFrames

Labels ==
  {"idle", "gone", "alloc", "tail", "head", "get", "create", "write", "stored", "notify",
   "stop", "join_stopped", "load", "unmap_packed", "pack", "compressed", "unmap_raw",
   "join", "lock_all", "fork", "unlock_all", "unlock"}

TypeOK ==
  /\ total_frames \in Nat
  /\ stored \in [Blocks -> Nat]
  /\ data \in [Blocks -> Memories \cup {None}]
  /\ state \in [Blocks -> {"Storing", "Packed", "Unpacked"}]
  /\ mtx \in [Blocks -> Procs \cup {None}]
  /\ mapped \in [Blocks -> SUBSET Memories]
  /\ readonly \in [Blocks -> SUBSET Memories]
  /\ traces \in [Blocks -> [Memories -> SUBSET Nat]]
  /\ pc \in [Procs -> Labels]
  /\ start \in [Procs -> Nat]
  /\ count \in [Procs -> Nat]
  /\ ptr \in [Procs -> Memories \cup {None}]
  /\ pack \in [Procs -> Nat]
  /\ blk \in [Procs -> Blocks]
  /\ issued \subseteq Nat
  /\ loans \subseteq Nat \X (Memories \cup {None})
  /\ lost \subseteq 0 .. total_frames - 1

\* Where a thread has the lock of block b.
Holding(t, b) ==
  \/ pc[t] \in {"compressed", "unmap_raw"} /\ blk[t] = b
  \/ pc[t] = "unmap_packed" /\ Block(t) = b
  \/ pc[t] = "lock_all" /\ b < blk[t]
  \/ pc[t] = "fork"
  \/ pc[t] = "unlock_all" /\ b >= blk[t]

Locks == \A t \in Procs, b \in Blocks : Holding(t, b) => mtx[b] = t

\* A loop over the blocks starts at the first one.
Loops ==
  \A t \in Procs :
    pc[t] \notin {"pack", "compressed", "unmap_raw", "lock_all", "unlock_all"} => blk[t] = 0

\* The background thread is started when there is none.
OneCompressor == thread = "NotStarted" => pc[Compressor] = "gone"

\* Who holds the lock of block b is between publishing a memory and giving the
\* block its new state.
Publishing(b, label) ==
  /\ mtx[b] \in Procs
  /\ pc[mtx[b]] = label
  /\ b = IF label = "unmap_raw" THEN blk[mtx[b]] ELSE Block(mtx[b])

\* The memories of a block and its state.
BlockOk(b) ==
  /\ data[b] # None => data[b] \in mapped[b]
  /\ data[b] \in {"packed", "unpacked"} \/ "raw" \in readonly[b] => stored[b] = K
  /\ state[b] = "Unpacked" => data[b] \in {"raw", "unpacked"}
  /\ state[b] = "Packed" =>
       \/ data[b] = "packed"
       \/ data[b] = "unpacked" /\ Publishing(b, "unmap_packed")
  /\ state[b] = "Storing" =>
       \/ data[b] \in {None, "raw"}
       \/ data[b] = "packed" /\ Publishing(b, "unmap_raw")

\* What a thread knows of the block it has locked.
PackOk(t) ==
  /\ pc[t] = "compressed" =>
       /\ state[blk[t]] = "Storing" /\ data[blk[t]] = "raw" /\ stored[blk[t]] = K
       /\ "packed" \in mapped[blk[t]]
       /\ traces[blk[t]]["packed"] = traces[blk[t]]["raw"]
  /\ pc[t] = "unmap_raw" => state[blk[t]] = "Storing" /\ data[blk[t]] = "packed"
  /\ pc[t] = "unmap_packed" => state[Block(t)] = "Packed" /\ data[Block(t)] = "unpacked"

\* What a thread knows of the trace it stores or loads.
CallOk(t) ==
  /\ pc[t] \in {"alloc", "tail", "head", "get", "create", "write", "stored"} =>
       count[t] \in Counts
  /\ pc[t] \in {"tail", "head"} => Block(t) # LastBlock(t)
  /\ pc[t] \in {"get", "create", "write", "stored"} =>
       Block(t) \in Blocks /\ Block(t) = LastBlock(t)
  /\ pc[t] \in {"write", "stored"} => ptr[t] = "raw" /\ data[Block(t)] # None
  /\ pc[t] = "stored" => start[t] \in traces[Block(t)]["raw"]
  /\ pc[t] \in {"load", "unmap_packed"} => start[t] \in issued

\* What is known of a trace whose id Store has returned.
TraceOk(s) ==
  /\ GetBlockIdx(s) \in Blocks
  /\ data[GetBlockIdx(s)] # None
  /\ s \in traces[GetBlockIdx(s)][data[GetBlockIdx(s)]]

\* What is known of a pointer that Load has returned.
LoanOk(loan) ==
  /\ loan[1] \in issued
  /\ state[GetBlockIdx(loan[1])] = "Unpacked"
  /\ loan[2] = data[GetBlockIdx(loan[1])]

\* A block all of whose frames are counted is one to which nobody owes a frame.
Full ==
  \A b \in Blocks, t \in Procs : stored[b] = K => \A f \in Owed(t) : GetBlockIdx(f) # b

IInv ==
  /\ TypeOK /\ Locks /\ Loops /\ OneCompressor /\ FramesAddUp /\ Full
  /\ \A b \in Blocks : BlockOk(b)
  /\ \A t \in Procs : PackOk(t) /\ CallOk(t)
  /\ \A s \in issued : TraceOk(s)
  /\ \A loan \in loans : LoanOk(loan)

-----------------------------------------------------------------------------
(* Frames and blocks *)

\* The frames of block b are K * b and the K - 1 behind.
LEMMA FramesOfBlock ==
  ASSUME NEW f \in Nat, NEW b \in Nat
  PROVE  GetBlockIdx(f) = b <=> K * b <= f /\ f < K * b + K
<1>0. K \in Nat /\ K > 0
  BY SizesAssumption DEF K
<1>1. PICK q \in Nat : q = f \div K
  BY <1>0
<1>2. PICK r \in Nat : r = f % K
  BY <1>0
<1>3. f = K * q + r /\ r < K
  BY <1>0, <1>1, <1>2
<1>4. q = b => K * b <= f /\ f < K * b + K
  BY <1>0, <1>3
<1>5. ASSUME q < b PROVE f < K * b
  <2>1. PICK d \in Nat : b = q + 1 + d
    BY <1>5
  <2>2. K * b = K * q + K + K * d
    BY <1>0, <2>1
  <2>3. K * d >= 0 /\ K * d \in Int /\ K * q \in Int
    BY <1>0
  <2> QED
    BY <1>0, <1>3, <2>2, <2>3
<1>6. ASSUME b < q PROVE f >= K * b + K
  <2>1. PICK d \in Nat : q = b + 1 + d
    BY <1>6
  <2>2. K * q = K * b + K + K * d
    BY <1>0, <2>1
  <2>3. K * d >= 0 /\ K * d \in Int /\ K * b \in Int
    BY <1>0
  <2> QED
    BY <1>0, <1>3, <2>2, <2>3
<1>7. q = b \/ q < b \/ b < q
  OBVIOUS
<1>8. K * b \in Int
  BY <1>0
<1> QED
  BY <1>0, <1>1, <1>4, <1>5, <1>6, <1>7, <1>8 DEF GetBlockIdx, K

\* The block of a frame.
LEMMA BlockType ==
  ASSUME NEW f \in Nat
  PROVE  GetBlockIdx(f) \in Nat /\ GetInBlockIdx(f) \in Nat
         /\ f = K * GetBlockIdx(f) + GetInBlockIdx(f) /\ GetInBlockIdx(f) < K
<1>0. kBlockSizeFrames \in Nat /\ kBlockSizeFrames > 0
  BY SizesAssumption
<1> QED
  BY <1>0 DEF GetBlockIdx, GetInBlockIdx, K

\* Between two frames of a block there are only frames of the block.
LEMMA SameBlock ==
  ASSUME NEW f \in Nat, NEW g \in Nat, NEW h \in Nat, f <= h, h <= g,
         GetBlockIdx(f) = GetBlockIdx(g)
  PROVE  GetBlockIdx(h) = GetBlockIdx(f)
<1>0. K \in Nat
  BY SizesAssumption DEF K
<1>1. PICK b \in Nat : b = GetBlockIdx(f)
  BY BlockType
<1>2. K * b <= f /\ f < K * b + K
  BY <1>1, FramesOfBlock
<1>3. K * b <= g /\ g < K * b + K
  BY <1>1, FramesOfBlock
<1>4. K * b \in Int
  BY <1>0
<1>5. K * b <= h /\ h < K * b + K
  BY <1>0, <1>2, <1>3, <1>4
<1> QED
  BY <1>1, <1>5, FramesOfBlock

\* A range that leaves its first block ends in the next one.
LEMMA TwoBlocks ==
  ASSUME NEW f \in Nat, NEW n \in Counts, GetBlockIdx(f) # GetBlockIdx(f + n - 1)
  PROVE  LET m == kBlockSizeFrames - GetInBlockIdx(f)
         IN  /\ m \in Nat /\ 0 < m /\ m < n
             /\ \A g \in f .. f + m - 1 : GetBlockIdx(g) = GetBlockIdx(f)
             /\ \A g \in f + m .. f + n - 1 : GetBlockIdx(g) = GetBlockIdx(f + n - 1)
<1>0. K \in Nat /\ K > 0 /\ n \in Nat /\ n > 0 /\ n <= K
  BY SizesAssumption DEF K
<1>1. PICK b \in Nat : b = GetBlockIdx(f)
  BY BlockType
<1>2. PICK r \in Nat : r = GetInBlockIdx(f)
  BY BlockType
<1>3. f = K * b + r /\ r < K
  BY <1>1, <1>2, BlockType
<1>4. PICK m : m = K - r
  OBVIOUS
<1>5. K * b \in Nat /\ m \in Nat /\ 0 < m /\ f + m = K * b + K
  BY <1>0, <1>3, <1>4
<1>6. ASSUME NEW g \in f .. f + m - 1 PROVE GetBlockIdx(g) = b
  <2>1. g \in Nat /\ K * b <= g /\ g < K * b + K
    BY <1>0, <1>3, <1>5
  <2> QED
    BY <2>1, FramesOfBlock
<1>7. m < n
  <2>1. f + n - 1 \in Nat /\ f + n - 1 \notin f .. f + m - 1
    BY <1>0, <1>1, <1>6
  <2> QED
    BY <1>0, <1>5, <2>1
<1>8. ASSUME NEW g \in f + m .. f + n - 1 PROVE GetBlockIdx(g) = b + 1
  <2>1. K * (b + 1) = K * b + K
    BY <1>0
  <2>2. g \in Nat /\ K * (b + 1) <= g /\ g < K * (b + 1) + K
    BY <1>0, <1>3, <1>5, <2>1
  <2>3. b + 1 \in Nat
    OBVIOUS
  <2> QED
    BY <2>2, <2>3, FramesOfBlock
<1>9. GetBlockIdx(f + n - 1) = b + 1
  BY <1>0, <1>5, <1>7, <1>8
<1>10. m = kBlockSizeFrames - GetInBlockIdx(f)
  BY <1>2, <1>4 DEF K
<1> QED
  BY <1>1, <1>5, <1>6, <1>7, <1>8, <1>9, <1>10

-----------------------------------------------------------------------------
(* Counting frames *)

\* Where a thread owes nothing, and one that does nothing to its call.
LEMMA OwesNothing ==
  ASSUME NEW t,
         pc[t] \notin {"tail", "head", "get", "create", "write", "stored"}
  PROVE  Owed(t) = {}
BY DEF Owed

\* The same, after a step.
LEMMA OwesNothingAfter ==
  ASSUME NEW t,
         pc'[t] \notin {"tail", "head", "get", "create", "write", "stored"}
  PROVE  Owed(t)' = {}
BY DEF Owed

\* What a thread owes depends on its own locals only.
LEMMA OwesTheSame ==
  ASSUME NEW t, pc'[t] = pc[t], start'[t] = start[t], count'[t] = count[t]
  PROVE  Owed(t)' = Owed(t)
BY DEF Owed, InFirst

\* A step of thread t leaves what the others owe.
OthersOwe(t) == \A u \in Procs : u # t => Owed(u)' = Owed(u)

\* Such a step, seen from the locals.
LEMMA OthersOweTheSame ==
  ASSUME NEW t, \A u \in Procs : u # t => /\ pc'[u] = pc[u] /\ start'[u] = start[u]
                                          /\ count'[u] = count[u]
  PROVE  OthersOwe(t)
BY OwesTheSame DEF OthersOwe

\* What a step may do to the count of block b: nothing, or it counts a range of
\* frames that were not counted.
Tally(b) ==
  \/ stored'[b] = stored[b] /\ CountedIn(b)' = CountedIn(b)
  \/ \E i, j \in Nat :
       /\ i <= j /\ CountedIn(b) \cap (i .. j) = {}
       /\ CountedIn(b)' = CountedIn(b) \cup (i .. j)
       /\ stored'[b] = stored[b] + (j - i + 1)

\* A step that keeps the frames of the threads apart, and the count.
AddsUp ==
  /\ \A t \in Procs : Owed(t)' \subseteq 0 .. total_frames' - 1 /\ Owed(t)' \cap lost' = {}
  /\ \A t, u \in Procs : t # u => Owed(t)' \cap Owed(u)' = {}
  /\ \A b \in Blocks : Tally(b)

\* The steps that count nothing and give nothing out.
LEMMA AddUpKept ==
  ASSUME FramesAddUp, NEW t \in Procs, OthersOwe(t), Owed(t)' = Owed(t),
         UNCHANGED <<total_frames, stored, lost>>
  PROVE  AddsUp
<1>1. \A u \in Procs : Owed(u)' = Owed(u)
  BY DEF OthersOwe
<1>2. \A b \in Blocks : CountedIn(b)' = CountedIn(b)
  BY <1>1 DEF CountedIn
<1> QED
  BY <1>1, <1>2 DEF FramesAddUp, AddsUp, Tally

\* The fetch_add of Alloc: the thread owes the frames, or they are beyond the
\* last block.
LEMMA AddUpGiven ==
  ASSUME TypeOK, FramesAddUp, NEW t \in Procs, NEW n \in Nat, OthersOwe(t), Owed(t) = {},
         total_frames' = total_frames + n, UNCHANGED <<stored, lost>>,
         \/ Owed(t)' = total_frames .. total_frames + n - 1
         \/ /\ Owed(t)' = {}
            /\ \A f \in total_frames .. total_frames + n - 1 : GetBlockIdx(f) \notin Blocks
  PROVE  AddsUp
<1>0. total_frames \in Nat /\ lost \subseteq 0 .. total_frames - 1
  BY DEF TypeOK
<1>1. \A u \in Procs : u # t => Owed(u)' = Owed(u)
  BY DEF OthersOwe
<1>2. \A u \in Procs : Owed(u) \subseteq 0 .. total_frames - 1 /\ Owed(u) \cap lost = {}
  BY DEF FramesAddUp
<1>3. Owed(t)' \subseteq total_frames .. total_frames + n - 1
  BY Zenon
<1>4. /\ 0 .. total_frames - 1 \subseteq 0 .. total_frames' - 1
      /\ total_frames .. total_frames + n - 1 \subseteq 0 .. total_frames' - 1
      /\ (0 .. total_frames - 1) \cap (total_frames .. total_frames + n - 1) = {}
      /\ \A f \in 0 .. total_frames' - 1 :
           f \in 0 .. total_frames - 1 \/ f \in total_frames .. total_frames + n - 1
  BY <1>0
<1>5. \A u \in Procs : Owed(u)' \subseteq 0 .. total_frames' - 1 /\ Owed(u)' \cap lost' = {}
  BY <1>0, <1>1, <1>2, <1>3, <1>4
<1>6. \A u, v \in Procs : u # v => Owed(u)' \cap Owed(v)' = {}
  <2>1. \A u \in Procs : u # t => Owed(u)' \cap Owed(t)' = {}
    BY <1>1, <1>2, <1>3, <1>4
  <2>2. \A u, v \in Procs : u # v /\ u # t /\ v # t => Owed(u)' \cap Owed(v)' = {}
    BY <1>1 DEF FramesAddUp
  <2> QED
    BY <2>1, <2>2
<1>7. ASSUME NEW b \in Blocks PROVE CountedIn(b)' = CountedIn(b)
  <2>1. ASSUME NEW f \in CountedIn(b) PROVE f \in CountedIn(b)'
    <3>1. f \in 0 .. total_frames - 1 /\ GetBlockIdx(f) = b /\ f \notin lost
          /\ \A u \in Procs : f \notin Owed(u)
      BY DEF CountedIn
    <3>2. \A u \in Procs : f \notin Owed(u)'
      BY <1>1, <1>3, <1>4, <3>1
    <3> QED
      BY <1>4, <3>1, <3>2 DEF CountedIn
  <2>2. ASSUME NEW f \in CountedIn(b)' PROVE f \in CountedIn(b)
    <3>1. f \in 0 .. total_frames' - 1 /\ GetBlockIdx(f) = b /\ f \notin lost
          /\ \A u \in Procs : f \notin Owed(u)'
      BY DEF CountedIn
    <3>2. f \in 0 .. total_frames - 1
      BY <1>4, <3>1, Zenon
    <3>3. \A u \in Procs : f \notin Owed(u)
      BY <1>1, <3>1
    <3> QED
      BY <3>1, <3>2, <3>3 DEF CountedIn
  <2> QED
    BY <2>1, <2>2, Zenon
<1> QED
  BY <1>5, <1>6, <1>7 DEF AddsUp, Tally

\* Stored counts the frames from i to j of block b, which the thread owed.
LEMMA AddUpStored ==
  ASSUME TypeOK, FramesAddUp, NEW t \in Procs, OthersOwe(t),
         NEW i \in Nat, NEW j \in Nat, i <= j, NEW b,
         i .. j \subseteq Owed(t), Owed(t)' = Owed(t) \ (i .. j),
         \A f \in i .. j : GetBlockIdx(f) = b,
         UNCHANGED <<total_frames, lost>>,
         stored' = IF b \in Blocks THEN [stored EXCEPT ![b] = @ + (j - i + 1)] ELSE stored
  PROVE  AddsUp
<1>0. PICK R : R = i .. j
  OBVIOUS
<1>2. R \subseteq Owed(t) /\ Owed(t)' = Owed(t) \ R /\ \A f \in R : GetBlockIdx(f) = b
  BY <1>0
<1>3. \A u \in Procs : u # t => Owed(u)' = Owed(u)
  BY DEF OthersOwe
<1>4. \A u \in Procs : Owed(u)' \subseteq Owed(u)
  BY <1>2, <1>3
<1>5. /\ \A u \in Procs : Owed(u)' \subseteq 0 .. total_frames' - 1 /\ Owed(u)' \cap lost' = {}
      /\ \A u, v \in Procs : u # v => Owed(u)' \cap Owed(v)' = {}
  BY <1>4 DEF FramesAddUp
<1>6. \A f \in R : /\ f \in 0 .. total_frames - 1 /\ f \notin lost
                   /\ \A u \in Procs : u # t => f \notin Owed(u)
  BY <1>2 DEF FramesAddUp
<1>7. ASSUME NEW c \in Blocks, c # b PROVE CountedIn(c)' = CountedIn(c)
  <2>1. \A f : GetBlockIdx(f) = c => f \notin R
    BY <1>2, <1>7
  <2>2. \A f : GetBlockIdx(f) = c =>
          ((\A u \in Procs : f \notin Owed(u)') <=> \A u \in Procs : f \notin Owed(u))
    BY <1>2, <1>3, <2>1
  <2> QED
    BY <2>2 DEF CountedIn
<1>8. ASSUME b \in Blocks PROVE Tally(b)
  <2>1. CountedIn(b)' = CountedIn(b) \cup R
    <3>1. ASSUME NEW f \in R PROVE f \in CountedIn(b)'
      <4>1. \A u \in Procs : f \notin Owed(u)'
        BY <1>2, <1>3, <1>6
      <4> QED
        BY <1>2, <1>6, <4>1 DEF CountedIn
    <3>2. ASSUME NEW f \in CountedIn(b) PROVE f \in CountedIn(b)'
      BY <1>4 DEF CountedIn
    <3>3. ASSUME NEW f \in CountedIn(b)', f \notin R PROVE f \in CountedIn(b)
      <4>1. \A u \in Procs : f \notin Owed(u)
        BY <1>2, <1>3, <3>3 DEF CountedIn
      <4> QED
        BY <4>1 DEF CountedIn
    <3> QED
      BY <3>1, <3>2, <3>3
  <2>2. CountedIn(b) \cap R = {}
    BY <1>2 DEF CountedIn
  <2>3. stored'[b] = stored[b] + (j - i + 1)
    BY <1>8 DEF TypeOK
  <2> QED
    BY <1>0, <2>1, <2>2, <2>3 DEF Tally
<1>9. \A c \in Blocks : c # b => stored'[c] = stored[c]
  BY DEF TypeOK
<1>10. \A c \in Blocks : Tally(c)
  BY <1>7, <1>8, <1>9 DEF Tally
<1> QED
  BY <1>5, <1>10 DEF AddsUp

\* In the child of a fork the frames that the others owed are lost.
LEMMA AddUpLost ==
  ASSUME FramesAddUp, NEW t \in Procs, Owed(t) = {}, \A u \in Procs : Owed(u)' = {},
         lost' = lost \cup UNION {Owed(u) : u \in Procs \ {t}},
         UNCHANGED <<total_frames, stored>>
  PROVE  AddsUp
<1>1. \A f : f \in lost' <=> f \in lost \/ \E u \in Procs : f \in Owed(u)
  OBVIOUS
<1>2. \A b \in Blocks : CountedIn(b)' = CountedIn(b)
  BY <1>1 DEF CountedIn
<1> QED
  BY <1>2 DEF FramesAddUp, AddsUp, Tally

-----------------------------------------------------------------------------
(* What a step of one thread may do to the others *)

\* The locals of the other threads stay; the background thread may be started.
LocalsGo(t) ==
  \A u \in Procs : u # t =>
    /\ start'[u] = start[u] /\ count'[u] = count[u] /\ ptr'[u] = ptr[u] /\ blk'[u] = blk[u]
    /\ pc'[u] = pc[u] \/ (pc[u] = "gone" /\ pc'[u] = "idle")

\* A block is not taken back, what data_ leads to is kept, an unpacked block
\* and a full one stay so, and nothing happens to a block another thread has
\* locked, unless it is to be filled.
BlockGoes(b, t) ==
  /\ data[b] # None => data'[b] # None /\ traces[b][data[b]] \subseteq traces'[b][data'[b]]
  /\ state[b] = "Unpacked" => state'[b] = "Unpacked" /\ data'[b] = data[b]
  /\ stored[b] = K => stored'[b] = K
  /\ traces[b]["raw"] \subseteq traces'[b]["raw"] \/ stored[b] = K
  /\ mtx[b] \notin {None, t} =>
       /\ mtx'[b] = mtx[b] /\ state'[b] = state[b] /\ data'[b] = data[b]
       /\ mapped'[b] = mapped[b]
       /\ stored[b] = K => traces'[b] = traces[b]

\* What the invariant says of one thread.
OwnOk(t) ==
  /\ PackOk(t) /\ CallOk(t)
  /\ \A b \in Blocks : Holding(t, b) => mtx[b] = t
  /\ pc[t] \notin {"pack", "compressed", "unmap_raw", "lock_all", "unlock_all"} => blk[t] = 0

\* The threads, one by one.
LEMMA OwnAll ==
  IInv <=> /\ TypeOK /\ OneCompressor /\ FramesAddUp /\ Full
           /\ \A b \in Blocks : BlockOk(b)
           /\ \A t \in Procs : OwnOk(t)
           /\ \A s \in issued : TraceOk(s)
           /\ \A loan \in loans : LoanOk(loan)
BY DEF IInv, OwnOk, Locks, Loops

\* What a step has to establish; the rest of the invariant follows by counting.
KeepsInv ==
  /\ TypeOK' /\ OneCompressor' /\ AddsUp
  /\ \A b \in Blocks : BlockOk(b)'
  /\ \A t \in Procs : OwnOk(t)'
  /\ \A s \in issued' : TraceOk(s)'
  /\ \A loan \in loans' : LoanOk(loan)'

\* Nobody owes a frame of a full block.
LEMMA FullIsOwedNothing ==
  ASSUME IInv, NEW b \in Blocks, stored[b] = K, NEW t \in Procs, NEW f \in Owed(t)
  PROVE  GetBlockIdx(f) # b
BY DEF IInv, Full

\* A loaded trace is in a block.
LEMMA LoadedBlock ==
  ASSUME IInv, NEW t \in Procs, pc[t] \in {"load", "unmap_packed"}
  PROVE  /\ start[t] \in Nat /\ Block(t) \in Blocks /\ data[Block(t)] # None
         /\ start[t] \in issued /\ start[t] \in traces[Block(t)][data[Block(t)]]
BY DEF IInv, TypeOK, CallOk, TraceOk, Block

\* A thread that is about to write owes its first frame.
LEMMA WriterOwes ==
  ASSUME IInv, NEW t \in Procs, pc[t] \in {"get", "create", "write", "stored"}
  PROVE  /\ Block(t) \in Blocks /\ start[t] \in Owed(t) /\ stored[Block(t)] # K
         /\ data[Block(t)] \in {None, "raw"} /\ "raw" \notin readonly[Block(t)]
         /\ state[Block(t)] # "Packed"
<1>1. start[t] \in Nat /\ count[t] \in Counts /\ Block(t) \in Blocks
  BY DEF IInv, TypeOK, CallOk
<1>2. count[t] \in Nat /\ count[t] > 0
  BY <1>1, SizesAssumption
<1>3. start[t] \in start[t] .. start[t] + count[t] - 1
  BY <1>1, <1>2
<1>4. start[t] \in Owed(t)
  BY <1>3, Zenon DEF Owed
<1>5. stored[Block(t)] # K
  BY <1>1, <1>4, FullIsOwedNothing DEF IInv, Block
<1>6. BlockOk(Block(t)) /\ data[Block(t)] \in Memories \cup {None}
  BY <1>1 DEF IInv, TypeOK
<1> QED
  BY <1>1, <1>4, <1>5, <1>6 DEF BlockOk, Memories

\* The other threads: what they know stays true.
LEMMA OthersStay ==
  ASSUME IInv, NEW t \in Procs, LocalsGo(t), \A b \in Blocks : BlockGoes(b, t),
         issued \subseteq issued', NEW u \in Procs, u # t
  PROVE  OwnOk(u)'
<1>1. OwnOk(u) /\ TypeOK
  BY OwnAll
<1>2. /\ start'[u] = start[u] /\ count'[u] = count[u] /\ ptr'[u] = ptr[u] /\ blk'[u] = blk[u]
      /\ pc'[u] = pc[u] \/ (pc[u] = "gone" /\ pc'[u] = "idle")
  BY DEF LocalsGo
<1>3. u # None /\ blk[u] \in Blocks
  BY <1>1, SizesAssumption DEF Procs, TypeOK
<1>4. Block(u)' = Block(u) /\ LastBlock(u)' = LastBlock(u)
  BY <1>2 DEF Block, LastBlock
<1>5. \A b \in Blocks : Holding(u, b)' => Holding(u, b)
  BY <1>2, <1>4 DEF Holding
<1>6. \A b \in Blocks : Holding(u, b) => mtx[b] = u
  BY <1>1 DEF OwnOk
<1>7. \A b \in Blocks : Holding(u, b) =>
        /\ mtx'[b] = u /\ state'[b] = state[b] /\ data'[b] = data[b]
        /\ mapped'[b] = mapped[b]
        /\ stored[b] = K => traces'[b] = traces[b] /\ stored'[b] = K
  BY <1>3, <1>6 DEF BlockGoes
<1>8. PackOk(u)'
  <2>1. PackOk(u)
    BY <1>1 DEF OwnOk
  <2>2. CASE pc'[u] = "compressed"
    <3>1. Holding(u, blk[u]) /\ pc[u] = "compressed"
      BY <1>2, <2>2 DEF Holding
    <3> QED
      BY <1>2, <1>3, <1>7, <2>1, <2>2, <3>1 DEF PackOk
  <2>3. CASE pc'[u] = "unmap_raw"
    <3>1. Holding(u, blk[u]) /\ pc[u] = "unmap_raw"
      BY <1>2, <2>3 DEF Holding
    <3> QED
      BY <1>2, <1>3, <1>7, <2>1, <2>3, <3>1 DEF PackOk
  <2>4. CASE pc'[u] = "unmap_packed"
    <3>1. Holding(u, Block(u)) /\ pc[u] = "unmap_packed"
      BY <1>2, <2>4 DEF Holding
    <3>2. Block(u) \in Blocks
      BY <3>1, LoadedBlock
    <3> QED
      BY <1>4, <1>7, <2>1, <2>4, <3>1, <3>2 DEF PackOk
  <2> QED
    BY <2>2, <2>3, <2>4 DEF PackOk
<1>9. CallOk(u)'
  <2>1. CallOk(u)
    BY <1>1 DEF OwnOk
  <2>2. ASSUME pc[u] \in {"write", "stored"} PROVE data'[Block(u)] # None
    BY <2>1, <2>2 DEF CallOk, BlockGoes
  <2>3. ASSUME pc[u] = "stored" PROVE start[u] \in traces'[Block(u)]["raw"]
    <3>1. Block(u) \in Blocks /\ stored[Block(u)] # K
      BY <2>3, WriterOwes
    <3> QED
      BY <2>1, <2>3, <3>1 DEF CallOk, BlockGoes
  <2> QED
    BY <1>2, <1>4, <2>1, <2>2, <2>3 DEF CallOk
<1>10. \A b \in Blocks : Holding(u, b)' => mtx'[b] = u
  BY <1>5, <1>7
<1>11. pc'[u] \notin {"pack", "compressed", "unmap_raw", "lock_all", "unlock_all"} =>
         blk'[u] = 0
  BY <1>1, <1>2 DEF OwnOk
<1> QED
  BY <1>8, <1>9, <1>10, <1>11 DEF OwnOk

\* A step that treats the blocks and the others well keeps the invariant, if the
\* rest of it holds again.
LEMMA StepKeeps ==
  ASSUME IInv, NEW t \in Procs, LocalsGo(t), \A b \in Blocks : BlockGoes(b, t),
         issued \subseteq issued', TypeOK', OneCompressor', AddsUp, OwnOk(t)',
         \A b \in Blocks : BlockOk(b)',
         \A s \in issued' : s \in issued \/ TraceOk(s)',
         \A loan \in loans' : loan \in loans \/ LoanOk(loan)'
  PROVE  KeepsInv
<1>1. \A u \in Procs : OwnOk(u)'
  <2>1. ASSUME NEW u \in Procs, u # t PROVE OwnOk(u)'
    BY <2>1, OthersStay
  <2> QED
    BY <2>1
<1>2. ASSUME NEW s \in issued PROVE TraceOk(s)'
  <2>1. TraceOk(s)
    BY OwnAll
  <2>2. GetBlockIdx(s) \in Blocks
    BY <2>1 DEF TraceOk
  <2> QED
    BY <2>1, <2>2 DEF TraceOk, BlockGoes
<1>3. ASSUME NEW loan \in loans PROVE LoanOk(loan)'
  <2>1. LoanOk(loan)
    BY OwnAll
  <2>2. GetBlockIdx(loan[1]) \in Blocks
    BY <2>1, OwnAll DEF TraceOk, LoanOk
  <2> QED
    BY <2>1, <2>2 DEF LoanOk, BlockGoes
<1> QED
  BY <1>1, <1>2, <1>3 DEF KeepsInv

\* A block that the step leaves alone, apart from its frames.
BlockStays(b) ==
  /\ data'[b] = data[b] /\ state'[b] = state[b] /\ mtx'[b] = mtx[b]
  /\ mapped'[b] = mapped[b] /\ readonly'[b] = readonly[b]
  /\ stored[b] = K => stored'[b] = K

\* Such a block is as it must be again, unless the step is its holder's.
LEMMA BlockOkStays ==
  ASSUME IInv, NEW t \in Procs, LocalsGo(t), NEW b \in Blocks, BlockStays(b),
         mtx[b] = t => ~Publishing(b, "unmap_raw") /\ ~Publishing(b, "unmap_packed")
  PROVE  BlockOk(b)'
<1>1. BlockOk(b)
  BY DEF IInv
<1>2. ASSUME Publishing(b, "unmap_raw") PROVE Publishing(b, "unmap_raw")'
  <2>1. PICK u \in Procs : u = mtx[b] /\ pc[u] = "unmap_raw" /\ blk[u] = b
    BY <1>2 DEF Publishing
  <2>2. u # t
    BY <1>2, <2>1
  <2>3. pc'[u] = "unmap_raw" /\ blk'[u] = b /\ mtx'[b] = u
    BY <2>1, <2>2 DEF LocalsGo, BlockStays
  <2> QED
    BY <2>3 DEF Publishing
<1>3. ASSUME Publishing(b, "unmap_packed") PROVE Publishing(b, "unmap_packed")'
  <2>1. PICK u \in Procs : u = mtx[b] /\ pc[u] = "unmap_packed" /\ Block(u) = b
    BY <1>3 DEF Publishing
  <2>2. u # t
    BY <1>3, <2>1
  <2>3. pc'[u] = "unmap_packed" /\ Block(u)' = b /\ mtx'[b] = u
    BY <2>1, <2>2 DEF LocalsGo, BlockStays, Block
  <2> QED
    BY <2>3 DEF Publishing
<1> QED
  BY <1>1, <1>2, <1>3 DEF BlockOk, BlockStays

\* A block whose holder is at another step of its own.
LEMMA NotPublishing ==
  ASSUME NEW t, NEW b, mtx[b] = t, pc[t] \notin {"unmap_raw", "unmap_packed"}
  PROVE  ~Publishing(b, "unmap_raw") /\ ~Publishing(b, "unmap_packed")
BY DEF Publishing

\* A block that stays and whose traces stay.
LEMMA StaysGoes ==
  ASSUME NEW t, NEW b, BlockStays(b), traces'[b] = traces[b]
  PROVE  BlockGoes(b, t)
BY DEF BlockGoes, BlockStays

\* The steps that change no block.
LEMMA LocalStep ==
  ASSUME IInv, NEW t \in Procs, LocalsGo(t), UNCHANGED <<blockvars, issued, loans>>,
         pc[t] \notin {"unmap_raw", "unmap_packed"},
         TypeOK', OneCompressor', AddsUp, OwnOk(t)'
  PROVE  KeepsInv
<1>1. \A b \in Blocks : BlockStays(b) /\ traces'[b] = traces[b]
  BY DEF blockvars, BlockStays
<1>2. \A b \in Blocks : BlockGoes(b, t)
  BY <1>1, StaysGoes
<1>3. \A b \in Blocks : BlockOk(b)'
  BY <1>1, BlockOkStays, NotPublishing
<1>4. issued' = issued /\ loans' = loans
  OBVIOUS
<1> QED
  BY <1>2, <1>3, <1>4, StepKeeps

-----------------------------------------------------------------------------
(* The steps that change no block *)

\* A thread that is at no call that the invariant speaks of.
LEMMA QuietOwn ==
  ASSUME NEW t \in Procs, pc'[t] = "pack" \/ blk'[t] = 0,
         pc'[t] \in {"idle", "notify", "pack", "stop", "join_stopped", "join", "unlock", "gone"}
  PROVE  OwnOk(t)'
<1>1. PackOk(t)'
  BY DEF PackOk
<1>2. CallOk(t)'
  BY DEF CallOk
<1>3. \A b \in Blocks : ~Holding(t, b)'
  BY DEF Holding
<1> QED
  BY <1>1, <1>2, <1>3 DEF OwnOk

\* The others owe what they owed.
LEMMA LocalsOwe ==
  ASSUME NEW t, LocalsGo(t) PROVE OthersOwe(t)
<1> SUFFICES ASSUME NEW u \in Procs, u # t PROVE Owed(u)' = Owed(u)
  BY DEF OthersOwe
<1>1. start'[u] = start[u] /\ count'[u] = count[u]
  BY DEF LocalsGo
<1>2. CASE pc'[u] = pc[u]
  BY <1>1, <1>2, OwesTheSame
<1>3. CASE pc'[u] # pc[u]
  <2>1. pc[u] = "gone" /\ pc'[u] = "idle"
    BY <1>3 DEF LocalsGo
  <2>2. Owed(u) = {} /\ Owed(u)' = {}
    BY <2>1 DEF Owed
  <2> QED
    BY <2>2
<1> QED
  BY <1>2, <1>3

\* A step of a thread that owes nothing, neither before nor after.
LEMMA QuietAddUp ==
  ASSUME FramesAddUp, NEW t \in Procs, LocalsGo(t),
         UNCHANGED <<total_frames, stored, lost>>,
         pc[t] \notin {"tail", "head", "get", "create", "write", "stored"},
         pc'[t] \notin {"tail", "head", "get", "create", "write", "stored"}
  PROVE  AddsUp
<1>1. Owed(t) = {} /\ Owed(t)' = {}
  BY OwesNothing, OwesNothingAfter
<1> QED
  BY <1>1, LocalsOwe, AddUpKept

\* A thread goes from one label to another, and nothing else changes that the
\* invariant speaks of.
LEMMA GotoStep ==
  ASSUME IInv, NEW t \in Procs, NEW label \in Labels, pc' = [pc EXCEPT ![t] = label],
         UNCHANGED <<total_frames, blockvars, locals, ghosts>>, OneCompressor',
         pc[t] \in {"idle", "notify", "stop", "join_stopped", "join", "unlock"},
         label \in {"idle", "pack", "stop", "join_stopped", "join", "gone"}
  PROVE  KeepsInv
<1>1. TypeOK /\ FramesAddUp
  BY DEF IInv
<1>2. LocalsGo(t) /\ pc'[t] = label
  BY <1>1 DEF LocalsGo, locals, TypeOK
<1>3. TypeOK'
  BY <1>1 DEF TypeOK, locals, blockvars, ghosts
<1>4. blk'[t] = 0
  BY DEF IInv, Loops, locals
<1>5. OwnOk(t)'
  BY <1>2, <1>4, QuietOwn
<1>6. AddsUp
  BY <1>1, <1>2, QuietAddUp DEF blockvars, ghosts
<1>7. issued' = issued /\ loans' = loans
  BY DEF ghosts
<1> QED
  BY <1>2, <1>3, <1>5, <1>6, <1>7, LocalStep

\* A longer range has the frames of a shorter one.
LEMMA LongerRange ==
  ASSUME NEW m \in Nat, NEW n \in Nat, m <= n PROVE 0 .. m - 1 \subseteq 0 .. n - 1
OBVIOUS

\* The types after a step that changes no block.
LEMMA TypeLocals ==
  ASSUME TypeOK, UNCHANGED <<blockvars, issued, loans, lost>>,
         total_frames' \in Nat, total_frames <= total_frames',
         pc' \in [Procs -> Labels], start' \in [Procs -> Nat], count' \in [Procs -> Nat],
         ptr' \in [Procs -> Memories \cup {None}], pack' \in [Procs -> Nat],
         blk' \in [Procs -> Blocks]
  PROVE  TypeOK'
<1>0. total_frames \in Nat /\ lost \subseteq 0 .. total_frames - 1
  BY DEF TypeOK
<1>1. lost' \subseteq 0 .. total_frames' - 1
  <2>1. 0 .. total_frames - 1 \subseteq 0 .. total_frames' - 1
    BY <1>0, LongerRange, Zenon
  <2>2. lost' = lost
    OBVIOUS
  <2> QED
    BY <1>0, <2>1, <2>2, Zenon
<1>2. /\ stored' \in [Blocks -> Nat] /\ data' \in [Blocks -> Memories \cup {None}]
      /\ state' \in [Blocks -> {"Storing", "Packed", "Unpacked"}]
      /\ mtx' \in [Blocks -> Procs \cup {None}] /\ mapped' \in [Blocks -> SUBSET Memories]
      /\ readonly' \in [Blocks -> SUBSET Memories]
      /\ traces' \in [Blocks -> [Memories -> SUBSET Nat]]
  BY DEF TypeOK, blockvars
<1>3. issued' \subseteq Nat /\ loans' \subseteq Nat \X (Memories \cup {None})
  BY DEF TypeOK
<1> QED
  BY <1>1, <1>2, <1>3, Zenon DEF TypeOK

\* No background thread is started or forgotten.
LEMMA CompressorStays ==
  ASSUME TypeOK, OneCompressor, NEW t \in Procs, NEW label, pc[t] # "gone",
         thread' = thread, pc' = [pc EXCEPT ![t] = label]
  PROVE  OneCompressor'
BY DEF OneCompressor, TypeOK, Procs

\* What a thread inside Store or Load has to know.
LEMMA CallOwn ==
  ASSUME NEW t \in Procs, blk'[t] = 0, CallOk(t)',
         pc'[t] \in {"alloc", "tail", "head", "get", "create", "write", "stored", "load"}
  PROVE  OwnOk(t)'
<1>1. PackOk(t)'
  BY DEF PackOk
<1>2. \A b \in Blocks : ~Holding(t, b)'
  BY DEF Holding
<1> QED
  BY <1>1, <1>2 DEF OwnOk

\* What a memory of a block holds.
LEMMA TracesAre ==
  ASSUME TypeOK, NEW b \in Blocks
  PROVE  /\ "raw" \in Memories /\ traces[b]["raw"] \in SUBSET Nat
         /\ "packed" \in Memories /\ traces[b]["packed"] \in SUBSET Nat
         /\ "unpacked" \in Memories /\ traces[b]["unpacked"] \in SUBSET Nat
<1>1. traces \in [Blocks -> [Memories -> SUBSET Nat]]
  BY DEF TypeOK
<1> QED
  BY <1>1 DEF Memories

\* One memory of one block is written to.
LEMMA TracesAt ==
  ASSUME TypeOK, NEW b \in Blocks, NEW m \in Memories, NEW new \in SUBSET Nat,
         traces' = [traces EXCEPT ![b][m] = new]
  PROVE  /\ traces'[b][m] = new
         /\ \A k \in Memories : k # m => traces'[b][k] = traces[b][k]
         /\ \A c \in Blocks : c # b => traces'[c] = traces[c]
         /\ traces' \in [Blocks -> [Memories -> SUBSET Nat]]
<1>1. traces \in [Blocks -> [Memories -> SUBSET Nat]]
  BY DEF TypeOK
<1>2. PICK g : g = [traces[b] EXCEPT ![m] = new]
  BY Zenon
<1>3. /\ g \in [Memories -> SUBSET Nat] /\ g[m] = new
      /\ \A k \in Memories : k # m => g[k] = traces[b][k]
  BY <1>1, <1>2
<1>4. traces' = [traces EXCEPT ![b] = g]
  BY <1>2
<1> QED
  BY <1>1, <1>3, <1>4

\* Store begins.
LEMMA StoreStepOk ==
  ASSUME IInv, NEW t \in Procs, NEW n \in Counts, Store(t, n) PROVE KeepsInv
<1>1. /\ pc[t] = "idle" /\ pc' = [pc EXCEPT ![t] = "alloc"]
      /\ count' = [count EXCEPT ![t] = n]
      /\ UNCHANGED <<total_frames, blockvars, start, ptr, pack, blk, compress, issued, loans,
                     lost>>
  BY DEF Store, Goto, ghosts
<1>2. TypeOK /\ FramesAddUp /\ n \in Nat
  BY SizesAssumption DEF IInv
<1>3. pc'[t] = "alloc" /\ count'[t] = n
  BY <1>1, <1>2 DEF TypeOK
<1>4. LocalsGo(t)
  BY <1>1, <1>2 DEF LocalsGo, TypeOK
<1>5. TypeOK'
  <2>1. /\ pc' \in [Procs -> Labels] /\ start' \in [Procs -> Nat] /\ count' \in [Procs -> Nat]
        /\ ptr' \in [Procs -> Memories \cup {None}] /\ pack' \in [Procs -> Nat]
        /\ blk' \in [Procs -> Blocks] /\ total_frames' \in Nat /\ total_frames <= total_frames'
    BY <1>1, <1>2 DEF TypeOK, Labels
  <2> QED
    BY <1>1, <1>2, <2>1, TypeLocals
<1>6. blk'[t] = 0
  BY <1>1 DEF IInv, Loops
<1>7. OwnOk(t)'
  <2>1. CallOk(t)'
    BY <1>3 DEF CallOk
  <2> QED
    BY <1>3, <1>6, <2>1, CallOwn
<1>8. AddsUp
  BY <1>1, <1>2, <1>3, <1>4, QuietAddUp DEF blockvars
<1>9. OneCompressor'
  <2>1. OneCompressor /\ thread' = thread
    BY <1>1 DEF IInv, compress
  <2> QED
    BY <1>1, <1>2, <2>1, CompressorStays, Zenon
<1> QED
  BY <1>1, <1>4, <1>5, <1>7, <1>8, <1>9, LocalStep

\* Load begins.
LEMMA LoadStepOk ==
  ASSUME IInv, NEW t \in Procs, NEW s \in issued, Load(t, s) PROVE KeepsInv
<1>1. /\ pc[t] = "idle" /\ pc' = [pc EXCEPT ![t] = "load"]
      /\ start' = [start EXCEPT ![t] = s]
      /\ UNCHANGED <<total_frames, blockvars, count, ptr, pack, blk, compress, issued, loans,
                     lost>>
  BY DEF Load, Goto, ghosts
<1>2. TypeOK /\ FramesAddUp /\ s \in Nat
  BY DEF IInv, TypeOK
<1>3. pc'[t] = "load" /\ start'[t] = s
  BY <1>1, <1>2 DEF TypeOK
<1>4. LocalsGo(t)
  BY <1>1, <1>2 DEF LocalsGo, TypeOK
<1>5. TypeOK'
  <2>1. /\ pc' \in [Procs -> Labels] /\ start' \in [Procs -> Nat] /\ count' \in [Procs -> Nat]
        /\ ptr' \in [Procs -> Memories \cup {None}] /\ pack' \in [Procs -> Nat]
        /\ blk' \in [Procs -> Blocks] /\ total_frames' \in Nat /\ total_frames <= total_frames'
    BY <1>1, <1>2 DEF TypeOK, Labels
  <2> QED
    BY <1>1, <1>2, <2>1, TypeLocals
<1>6. blk'[t] = 0
  BY <1>1 DEF IInv, Loops
<1>7. OwnOk(t)'
  <2>1. CallOk(t)'
    BY <1>1, <1>3 DEF CallOk
  <2> QED
    BY <1>3, <1>6, <2>1, CallOwn
<1>8. AddsUp
  BY <1>1, <1>2, <1>3, <1>4, QuietAddUp DEF blockvars
<1>9. OneCompressor'
  <2>1. OneCompressor /\ thread' = thread
    BY <1>1 DEF IInv, compress
  <2> QED
    BY <1>1, <1>2, <2>1, CompressorStays, Zenon
<1> QED
  BY <1>1, <1>4, <1>5, <1>7, <1>8, <1>9, LocalStep

\* Where a loop over the blocks goes.
LEMMA NextBlockIs ==
  ASSUME TypeOK, NEW t \in Procs, NEW label, NEW after, NextBlock(t, label, after)
  PROVE  /\ blk' \in [Procs -> Blocks]
         /\ \A u \in Procs : u # t => blk'[u] = blk[u] /\ pc'[u] = pc[u]
         /\ pc' = [pc EXCEPT ![t] = IF blk[t] + 1 = kBlockCount THEN after ELSE label]
         /\ \/ blk[t] + 1 = kBlockCount /\ blk'[t] = 0 /\ pc'[t] = after
            \/ blk[t] + 1 # kBlockCount /\ blk'[t] = blk[t] + 1 /\ pc'[t] = label
<1>0. kBlockCount \in Nat /\ kBlockCount > 0
  BY SizesAssumption
<1>1. blk[t] \in Nat /\ blk[t] < kBlockCount /\ blk \in [Procs -> Blocks]
  BY <1>0 DEF TypeOK, Blocks
<1>2. blk' = [blk EXCEPT ![t] = (blk[t] + 1) % kBlockCount]
  BY DEF NextBlock
<1>3. blk'[t] = (blk[t] + 1) % kBlockCount
  BY <1>1, <1>2
<1>4. IF blk[t] + 1 = kBlockCount THEN (blk[t] + 1) % kBlockCount = 0
                                  ELSE (blk[t] + 1) % kBlockCount = blk[t] + 1
  <2>1. PICK n \in Nat : n = blk[t] + 1 /\ n <= kBlockCount
    BY <1>0, <1>1
  <2>2. CASE n = kBlockCount
    <3>1. n % n = 0
      BY <1>0, <2>2
    <3> QED
      BY <2>1, <2>2, <3>1
  <2>3. CASE n # kBlockCount
    <3>1. n < kBlockCount
      BY <1>0, <2>1, <2>3
    <3>2. n % kBlockCount = n
      BY <1>0, <3>1
    <3> QED
      BY <2>1, <2>3, <3>2
  <2> QED
    BY <2>2, <2>3
<1>5. (blk[t] + 1) % kBlockCount \in Blocks
  BY <1>0, <1>1, <1>4 DEF Blocks
<1>6. blk' \in [Procs -> Blocks]
  BY <1>1, <1>2, <1>5
<1>7. pc' = [pc EXCEPT ![t] = IF blk[t] + 1 = kBlockCount THEN after ELSE label]
  BY DEF NextBlock, Goto
<1>8. /\ \A u \in Procs : u # t => pc'[u] = pc[u]
      /\ pc'[t] = IF blk[t] + 1 = kBlockCount THEN after ELSE label
  BY <1>7 DEF TypeOK
<1>9. \A u \in Procs : u # t => blk'[u] = blk[u]
  BY <1>1, <1>2
<1> QED
  BY <1>3, <1>4, <1>6, <1>7, <1>8, <1>9

\* The fetch_add of Alloc, for a range that will be used or is beyond the store.
LEMMA AllocFitsOk ==
  ASSUME IInv, NEW t \in Procs, AllocFits(t) PROVE KeepsInv
<1>0. PICK n : n = count[t]
  OBVIOUS
<1>1. /\ pc[t] = "alloc"
      /\ GetBlockIdx(total_frames) = GetBlockIdx(total_frames + n - 1)
      /\ total_frames' = total_frames + n
      /\ UNCHANGED <<blockvars, blk, compress, issued, loans, lost>>
  BY <1>0 DEF AllocFits, ghosts
<1>2. TypeOK /\ FramesAddUp /\ OneCompressor /\ n \in Counts
  BY <1>0, <1>1 DEF IInv, CallOk
<1>3. n \in Nat /\ n > 0 /\ total_frames \in Nat
  BY <1>2, SizesAssumption DEF TypeOK
<1>4. blk'[t] = 0
  BY <1>1 DEF IInv, Loops
<1>5. Owed(t) = {}
  BY <1>1, OwesNothing
<1>6. \A f \in total_frames .. total_frames + n - 1 :
        GetBlockIdx(f) = GetBlockIdx(total_frames)
  <2> SUFFICES ASSUME NEW f \in total_frames .. total_frames + n - 1
               PROVE  GetBlockIdx(f) = GetBlockIdx(total_frames)
    OBVIOUS
  <2>1. /\ f \in Nat /\ total_frames <= f /\ f <= total_frames + n - 1
        /\ total_frames + n - 1 \in Nat
    BY <1>3
  <2> QED
    BY <1>1, <1>3, <2>1, SameBlock
<1>7. CASE /\ GetBlockIdx(total_frames) \in Blocks
           /\ start' = [start EXCEPT ![t] = total_frames]
           /\ pc' = [pc EXCEPT ![t] = "get"]
           /\ UNCHANGED <<count, ptr, pack>>
  <2>1. pc'[t] = "get" /\ start'[t] = total_frames /\ count'[t] = n
    BY <1>0, <1>2, <1>7 DEF TypeOK
  <2>2. LocalsGo(t)
    BY <1>1, <1>2, <1>7 DEF LocalsGo, TypeOK
  <2>3. TypeOK'
    <3>1. /\ pc' \in [Procs -> Labels] /\ start' \in [Procs -> Nat]
          /\ count' \in [Procs -> Nat] /\ ptr' \in [Procs -> Memories \cup {None}]
          /\ pack' \in [Procs -> Nat] /\ blk' \in [Procs -> Blocks]
      BY <1>1, <1>2, <1>3, <1>7 DEF TypeOK, Labels
    <3>2. total_frames' \in Nat /\ total_frames <= total_frames'
      BY <1>1, <1>3
    <3> QED
      BY <1>1, <1>2, <3>1, <3>2, TypeLocals
  <2>4. Owed(t)' = total_frames .. total_frames + n - 1
    BY <2>1 DEF Owed
  <2>5. AddsUp
    BY <1>1, <1>2, <1>3, <1>5, <2>2, <2>4, AddUpGiven, LocalsOwe DEF blockvars
  <2>6. OwnOk(t)'
    BY <1>1, <1>2, <1>4, <1>7, <2>1
       DEF OwnOk, PackOk, CallOk, Holding, Block, LastBlock
  <2>7. OneCompressor'
    BY <1>1, <1>2, <1>7, CompressorStays, Zenon DEF compress
  <2> QED
    BY <1>1, <2>2, <2>3, <2>5, <2>6, <2>7, LocalStep
<1>8. CASE /\ GetBlockIdx(total_frames) \notin Blocks
           /\ Return(t, pack[t])
  <2>1. pc'[t] \in {"notify", "idle"}
    BY <1>2, <1>8 DEF TypeOK, Return, Goto
  <2>2. LocalsGo(t)
    BY <1>1, <1>2, <1>8 DEF LocalsGo, TypeOK, Return, Goto
  <2>3. TypeOK'
    <3>1. /\ pc' \in [Procs -> Labels] /\ start' \in [Procs -> Nat]
          /\ count' \in [Procs -> Nat] /\ ptr' \in [Procs -> Memories \cup {None}]
          /\ pack' \in [Procs -> Nat] /\ blk' \in [Procs -> Blocks]
      BY <1>1, <1>2, <1>8 DEF TypeOK, Labels, Return, Goto
    <3>2. total_frames' \in Nat /\ total_frames <= total_frames'
      BY <1>1, <1>3
    <3> QED
      BY <1>1, <1>2, <3>1, <3>2, TypeLocals
  <2>4. Owed(t)' = {}
    BY <2>1, OwesNothingAfter
  <2>5. \A f \in total_frames .. total_frames + n - 1 : GetBlockIdx(f) \notin Blocks
    BY <1>6, <1>8
  <2>6. AddsUp
    BY <1>1, <1>2, <1>3, <1>5, <2>2, <2>4, <2>5, AddUpGiven, LocalsOwe DEF blockvars
  <2>7. OwnOk(t)'
    BY <1>4, <2>1, QuietOwn
  <2>8. OneCompressor'
    BY <1>1, <1>2, <1>8, CompressorStays, Zenon DEF compress, Return, Goto
  <2> QED
    BY <1>1, <2>2, <2>3, <2>6, <2>7, <2>8, LocalStep
<1> QED
  BY <1>7, <1>8 DEF AllocFits, Goto

\* The fetch_add of Alloc, for a range in two blocks.
LEMMA AllocCrossesOk ==
  ASSUME IInv, NEW t \in Procs, AllocCrosses(t) PROVE KeepsInv
<1>0. PICK n : n = count[t]
  OBVIOUS
<1>1. /\ pc[t] = "alloc"
      /\ GetBlockIdx(total_frames) # GetBlockIdx(total_frames + n - 1)
      /\ total_frames' = total_frames + n
      /\ start' = [start EXCEPT ![t] = total_frames]
      /\ pc' = [pc EXCEPT ![t] = "tail"]
      /\ UNCHANGED <<blockvars, count, ptr, pack, blk, compress, issued, loans, lost>>
  BY <1>0 DEF AllocCrosses, Goto, ghosts
<1>2. TypeOK /\ FramesAddUp /\ OneCompressor /\ n \in Counts
  BY <1>0, <1>1 DEF IInv, CallOk
<1>3. n \in Nat /\ n > 0 /\ total_frames \in Nat
  BY <1>2, SizesAssumption DEF TypeOK
<1>4. blk'[t] = 0
  BY <1>1, Zenon DEF IInv, Loops
<1>5. pc'[t] = "tail" /\ start'[t] = total_frames /\ count'[t] = n
  BY <1>0, <1>1, <1>2 DEF TypeOK
<1>6. LocalsGo(t)
  BY <1>1, <1>2 DEF LocalsGo, TypeOK
<1>7. TypeOK'
  <2>1. /\ pc' \in [Procs -> Labels] /\ start' \in [Procs -> Nat]
        /\ count' \in [Procs -> Nat] /\ ptr' \in [Procs -> Memories \cup {None}]
        /\ pack' \in [Procs -> Nat] /\ blk' \in [Procs -> Blocks]
    BY <1>1, <1>2, <1>3 DEF TypeOK, Labels
  <2>2. total_frames' \in Nat /\ total_frames <= total_frames'
    BY <1>1, <1>3
  <2> QED
    BY <1>1, <1>2, <2>1, <2>2, TypeLocals
<1>8. Owed(t) = {} /\ Owed(t)' = total_frames .. total_frames + n - 1
  BY <1>1, <1>5 DEF Owed
<1>9. AddsUp
  BY <1>1, <1>2, <1>3, <1>6, <1>8, AddUpGiven, LocalsOwe DEF blockvars
<1>10. OwnOk(t)'
  BY <1>1, <1>2, <1>4, <1>5, Zenon DEF OwnOk, PackOk, CallOk, Holding, Block, LastBlock
<1>11. OneCompressor'
  BY <1>1, <1>2, CompressorStays, Zenon DEF compress
<1> QED
  BY <1>1, <1>6, <1>7, <1>9, <1>10, <1>11, LocalStep

\* GetOrCreate finds the memory of the frames, if any: it is not packed.
LEMMA GetOrCreateOk ==
  ASSUME IInv, NEW t \in Procs, GetOrCreate(t) PROVE KeepsInv
<1>0. PICK b : b = Block(t)
  OBVIOUS
<1>1. /\ pc[t] = "get"
      /\ ptr' = [ptr EXCEPT ![t] = data[b]]
      /\ pc' = [pc EXCEPT ![t] = IF data[b] = None THEN "create" ELSE "write"]
      /\ UNCHANGED <<total_frames, blockvars, start, count, pack, blk, compress, issued, loans,
                     lost>>
  BY <1>0 DEF GetOrCreate, Goto, ghosts
<1>2. TypeOK /\ FramesAddUp /\ OneCompressor /\ CallOk(t)
  BY DEF IInv
<1>3. b \in Blocks /\ data[b] \in {None, "raw"}
  BY <1>0, <1>1, WriterOwes
<1>4. blk'[t] = 0
  BY <1>1, Zenon DEF IInv, Loops
<1>5. /\ pc'[t] \in {"create", "write"} /\ (pc'[t] = "write" => data[b] = "raw")
      /\ ptr'[t] = data[b]
  BY <1>1, <1>2, <1>3 DEF TypeOK
<1>6. LocalsGo(t)
  BY <1>1, <1>2 DEF LocalsGo, TypeOK
<1>7. TypeOK'
  <2>1. /\ pc' \in [Procs -> Labels] /\ start' \in [Procs -> Nat]
        /\ count' \in [Procs -> Nat] /\ ptr' \in [Procs -> Memories \cup {None}]
        /\ pack' \in [Procs -> Nat] /\ blk' \in [Procs -> Blocks]
    BY <1>1, <1>2, <1>3 DEF TypeOK, Labels, Memories
  <2>2. total_frames' \in Nat /\ total_frames <= total_frames'
    BY <1>1, <1>2 DEF TypeOK
  <2> QED
    BY <1>1, <1>2, <2>1, <2>2, TypeLocals
<1>8. Owed(t)' = Owed(t)
  BY <1>1, <1>5 DEF Owed
<1>9. AddsUp
  BY <1>1, <1>2, <1>6, <1>8, AddUpKept, LocalsOwe DEF blockvars
<1>10. Block(t)' = b /\ LastBlock(t)' = LastBlock(t) /\ data' = data
  BY <1>0, <1>1 DEF Block, LastBlock, blockvars
<1>11. CallOk(t)'
  BY <1>0, <1>1, <1>2, <1>3, <1>5, <1>10, SizesAssumption, Zenon DEF CallOk, Memories
<1>12. OwnOk(t)'
  BY <1>4, <1>5, <1>11, Zenon DEF OwnOk, PackOk, Holding
<1>13. OneCompressor'
  BY <1>1, <1>2, CompressorStays, Zenon DEF compress
<1> QED
  BY <1>1, <1>6, <1>7, <1>9, <1>12, <1>13, LocalStep

\* NewWorkNotify starts the background thread when there is none.
LEMMA NewWorkNotifyOk ==
  ASSUME IInv, NEW t \in Threads, NewWorkNotify(t) PROVE KeepsInv
<1>1. PICK after \in {"Started", "Failed", "Stopped"} :
        /\ pc[t] = "notify"
        /\ thread' = after
        /\ pc' = [pc EXCEPT
             ![t] = IF after = "Started" THEN "idle" ELSE "pack",
             ![Compressor] = IF thread = "NotStarted" /\ after = "Started"
                               THEN "idle" ELSE @]
        /\ UNCHANGED <<total_frames, blockvars, locals, issued, loans, lost>>
  BY Zenon DEF NewWorkNotify, ghosts
<1>2. TypeOK /\ FramesAddUp /\ OneCompressor
  BY DEF IInv
<1>3. t \in Procs /\ Compressor \in Procs /\ t # Compressor
  BY SizesAssumption DEF Procs
<1>4. /\ pc'[t] \in {"idle", "pack"}
      /\ \A u \in Procs : u # t /\ u # Compressor => pc'[u] = pc[u]
      /\ pc'[Compressor] = pc[Compressor] \/ (thread = "NotStarted" /\ pc'[Compressor] = "idle")
      /\ pc' \in [Procs -> Labels]
  BY <1>1, <1>2, <1>3, Zenon DEF TypeOK, Labels
<1>5. UNCHANGED <<start, count, ptr, pack, blk>>
  BY <1>1 DEF locals
<1>6. LocalsGo(t)
  BY <1>2, <1>4, <1>5 DEF LocalsGo, OneCompressor
<1>7. TypeOK'
  <2>1. /\ start' \in [Procs -> Nat] /\ count' \in [Procs -> Nat]
        /\ ptr' \in [Procs -> Memories \cup {None}] /\ pack' \in [Procs -> Nat]
        /\ blk' \in [Procs -> Blocks] /\ total_frames' \in Nat /\ total_frames <= total_frames'
    BY <1>1, <1>2, <1>5 DEF TypeOK
  <2> QED
    BY <1>1, <1>2, <1>4, <2>1, TypeLocals
<1>8. blk'[t] = 0
  BY <1>1, <1>3, <1>5 DEF IInv, Loops
<1>9. OwnOk(t)'
  BY <1>3, <1>4, <1>8, QuietOwn
<1>10. AddsUp
  BY <1>1, <1>2, <1>3, <1>4, <1>6, QuietAddUp DEF blockvars
<1>11. OneCompressor'
  BY <1>1 DEF OneCompressor
<1> QED
  BY <1>1, <1>3, <1>6, <1>7, <1>9, <1>10, <1>11, LocalStep

\* The steps that only go from one label to the next.
LEMMA LabelStepsOk ==
  ASSUME IInv, NEW t \in Procs,
         WaitForWork(t) \/ Stop(t) \/ StopPost(t) \/ StopJoin(t) \/ Unlock(t)
  PROVE  KeepsInv
<1>0. TypeOK /\ OneCompressor
  BY DEF IInv
<1>1. CASE WaitForWork(t)
  <2>1. PICK label : label \in {"pack", "gone"} /\ pc' = [pc EXCEPT ![t] = label]
    BY <1>1, Zenon DEF WaitForWork, Goto
  <2>2. pc[t] = "idle" /\ thread' = thread
        /\ UNCHANGED <<total_frames, blockvars, locals, ghosts>>
    BY <1>1 DEF WaitForWork
  <2>3. OneCompressor' /\ label \in Labels
    BY <1>0, <2>1, <2>2, CompressorStays, Zenon DEF Labels
  <2> QED
    BY <2>1, <2>2, <2>3, GotoStep, Zenon
<1>2. CASE Stop(t)
  <2>1. pc[t] = "idle" /\ pc' = [pc EXCEPT ![t] = "stop"] /\ thread' = "Stopped"
        /\ UNCHANGED <<total_frames, blockvars, locals, ghosts>>
    BY <1>2 DEF Stop, Goto
  <2>2. OneCompressor' /\ "stop" \in Labels
    BY <2>1 DEF OneCompressor, Labels
  <2> QED
    BY <2>1, <2>2, GotoStep, Zenon
<1>3. CASE StopPost(t)
  <2>1. pc[t] = "stop" /\ pc' = [pc EXCEPT ![t] = "join_stopped"] /\ thread' = thread
        /\ UNCHANGED <<total_frames, blockvars, locals, ghosts>>
    BY <1>3 DEF StopPost, Goto
  <2>2. OneCompressor' /\ "join_stopped" \in Labels
    BY <1>0, <2>1, CompressorStays, Zenon DEF Labels
  <2> QED
    BY <2>1, <2>2, GotoStep, Zenon
<1>4. CASE StopJoin(t)
  <2>1. pc[t] = "join_stopped" /\ pc' = [pc EXCEPT ![t] = "idle"] /\ thread' = thread
        /\ UNCHANGED <<total_frames, blockvars, locals, ghosts>>
    BY <1>4 DEF StopJoin, Goto, compress
  <2>2. OneCompressor' /\ "idle" \in Labels
    BY <1>0, <2>1, CompressorStays, Zenon DEF Labels
  <2> QED
    BY <2>1, <2>2, GotoStep, Zenon
<1>5. CASE Unlock(t)
  <2>1. pc[t] = "unlock" /\ pc' = [pc EXCEPT ![t] = "idle"] /\ thread' = thread
        /\ UNCHANGED <<total_frames, blockvars, locals, ghosts>>
    BY <1>5 DEF Unlock, Goto
  <2>2. OneCompressor' /\ "idle" \in Labels
    BY <1>0, <2>1, CompressorStays, Zenon DEF Labels
  <2> QED
    BY <2>1, <2>2, GotoStep, Zenon
<1> QED
  BY <1>1, <1>2, <1>3, <1>4, <1>5

\* A thread goes to another label and the rest of its locals stays: types and
\* the other threads.
LEMMA OnlyLabel ==
  ASSUME TypeOK, NEW t \in Procs, NEW label \in Labels, pc' = [pc EXCEPT ![t] = label],
         UNCHANGED <<total_frames, blockvars, locals, issued, loans, lost>>
  PROVE  TypeOK' /\ LocalsGo(t) /\ pc'[t] = label
<1>1. UNCHANGED <<start, count, ptr, pack, blk>>
  BY DEF locals
<1>2. pc' \in [Procs -> Labels] /\ pc'[t] = label /\ \A u \in Procs : u # t => pc'[u] = pc[u]
  BY DEF TypeOK
<1>3. /\ start' \in [Procs -> Nat] /\ count' \in [Procs -> Nat]
      /\ ptr' \in [Procs -> Memories \cup {None}] /\ pack' \in [Procs -> Nat]
      /\ blk' \in [Procs -> Blocks] /\ total_frames' \in Nat /\ total_frames <= total_frames'
  BY <1>1 DEF TypeOK
<1>4. TypeOK'
  BY <1>2, <1>3, TypeLocals
<1>5. LocalsGo(t)
  BY <1>1, <1>2 DEF LocalsGo
<1> QED
  BY <1>2, <1>4, <1>5

\* A thread that is to lock all blocks holds none yet.
LEMMA LockAllBegins ==
  ASSUME IInv, NEW t \in Procs, pc[t] \in {"idle", "join"},
         pc' = [pc EXCEPT ![t] = "lock_all"], OneCompressor',
         UNCHANGED <<total_frames, blockvars, locals, ghosts>>
  PROVE  KeepsInv
<1>1. TypeOK /\ FramesAddUp /\ "lock_all" \in Labels
  BY DEF IInv, Labels
<1>2. issued' = issued /\ loans' = loans /\ lost' = lost
  BY DEF ghosts
<1>3. TypeOK' /\ LocalsGo(t) /\ pc'[t] = "lock_all"
  BY <1>1, <1>2, OnlyLabel, Zenon
<1>4. blk'[t] = 0
  BY DEF IInv, Loops, locals
<1>5. AddsUp
  BY <1>1, <1>2, <1>3, QuietAddUp DEF blockvars
<1>6. \A b \in Blocks : ~Holding(t, b)'
  BY <1>3, <1>4 DEF Holding, Blocks
<1>7. OwnOk(t)'
  BY <1>3, <1>6, Zenon DEF OwnOk, PackOk, CallOk
<1> QED
  BY <1>2, <1>3, <1>5, <1>7, LocalStep

\* A fork begins.
LEMMA LockAndStopOk ==
  ASSUME IInv, NEW t \in Procs, LockAndStop(t) PROVE KeepsInv
<1>1. /\ pc[t] = "idle" /\ thread' = thread
      /\ pc' = [pc EXCEPT ![t] = IF thread = "Started" THEN "join" ELSE "lock_all"]
      /\ UNCHANGED <<total_frames, blockvars, locals, ghosts>>
  BY DEF LockAndStop, Goto
<1>2. TypeOK /\ OneCompressor
  BY DEF IInv
<1>3. OneCompressor'
  BY <1>1, <1>2, CompressorStays, Zenon
<1>4. CASE thread = "Started"
  <2>1. pc' = [pc EXCEPT ![t] = "join"] /\ "join" \in Labels
    BY <1>1, <1>4 DEF Labels
  <2> QED
    BY <1>1, <1>3, <2>1, GotoStep, Zenon
<1>5. CASE thread # "Started"
  <2>1. pc' = [pc EXCEPT ![t] = "lock_all"]
    BY <1>1, <1>5
  <2> QED
    BY <1>1, <1>3, <2>1, LockAllBegins, Zenon
<1> QED
  BY <1>4, <1>5

\* The background thread is gone: it may be started again.
LEMMA JoinOk ==
  ASSUME IInv, NEW t \in Threads, Join(t) PROVE KeepsInv
<1>1. /\ pc[t] = "join" /\ pc[Compressor] = "gone"
      /\ pc' = [pc EXCEPT ![t] = "lock_all"]
      /\ UNCHANGED <<total_frames, blockvars, locals, ghosts>>
  BY DEF Join, Goto
<1>2. t \in Procs /\ Compressor \in Procs /\ t # Compressor /\ TypeOK
  BY SizesAssumption DEF IInv, Procs
<1>3. OneCompressor'
  BY <1>1, <1>2 DEF OneCompressor, TypeOK
<1> QED
  BY <1>1, <1>2, <1>3, LockAllBegins, Zenon

\* The parent of a fork still holds all blocks.
LEMMA ForkInParentOk ==
  ASSUME IInv, NEW t \in Procs, ForkInParent(t) PROVE KeepsInv
<1>1. /\ pc[t] = "fork" /\ thread' = thread
      /\ pc' = [pc EXCEPT ![t] = "unlock_all"]
      /\ UNCHANGED <<total_frames, blockvars, locals, issued, loans, lost>>
  BY DEF ForkInParent, Goto, compress, ghosts
<1>2. TypeOK /\ FramesAddUp /\ OneCompressor /\ "unlock_all" \in Labels
  BY DEF IInv, Labels
<1>3. TypeOK' /\ LocalsGo(t) /\ pc'[t] = "unlock_all"
  BY <1>1, <1>2, OnlyLabel, Zenon
<1>4. \A b \in Blocks : mtx'[b] = t
  BY <1>1 DEF IInv, Locks, Holding, blockvars
<1>5. AddsUp
  BY <1>1, <1>2, <1>3, QuietAddUp DEF blockvars
<1>6. OwnOk(t)'
  BY <1>3, <1>4, Zenon DEF OwnOk, PackOk, CallOk
<1>7. OneCompressor'
  BY <1>1, <1>2, CompressorStays, Zenon
<1> QED
  BY <1>1, <1>3, <1>5, <1>6, <1>7, LocalStep

\* Pack leaves a block alone.
LEMMA PackSkipsOk ==
  ASSUME IInv, NEW t \in Procs, PackSkips(t) PROVE KeepsInv
<1>1. /\ pc[t] = "pack" /\ NextBlock(t, "pack", "idle")
      /\ UNCHANGED <<total_frames, blockvars, start, count, ptr, pack, thread, issued, loans,
                     lost>>
  BY DEF PackSkips, compress, ghosts
<1>2. TypeOK /\ FramesAddUp /\ OneCompressor
  BY DEF IInv
<1>3. /\ blk' \in [Procs -> Blocks]
      /\ \A u \in Procs : u # t => blk'[u] = blk[u] /\ pc'[u] = pc[u]
      /\ pc' = [pc EXCEPT ![t] = IF blk[t] + 1 = kBlockCount THEN "idle" ELSE "pack"]
      /\ \/ blk[t] + 1 = kBlockCount /\ blk'[t] = 0 /\ pc'[t] = "idle"
         \/ blk[t] + 1 # kBlockCount /\ blk'[t] = blk[t] + 1 /\ pc'[t] = "pack"
  BY <1>1, <1>2, NextBlockIs
<1>4. LocalsGo(t)
  BY <1>1, <1>3, Zenon DEF LocalsGo
<1>5. TypeOK'
  <2>1. /\ pc' \in [Procs -> Labels] /\ start' \in [Procs -> Nat] /\ count' \in [Procs -> Nat]
        /\ ptr' \in [Procs -> Memories \cup {None}] /\ pack' \in [Procs -> Nat]
        /\ total_frames' \in Nat /\ total_frames <= total_frames'
    <3>1. pc' \in [Procs -> Labels]
      BY <1>2, <1>3 DEF TypeOK, Labels
    <3> QED
      BY <1>1, <1>2, <3>1 DEF TypeOK
  <2> QED
    BY <1>1, <1>2, <1>3, <2>1, TypeLocals
<1>6. OwnOk(t)'
  BY <1>3, QuietOwn
<1>7. AddsUp
  BY <1>1, <1>2, <1>3, <1>4, QuietAddUp DEF blockvars
<1>8. OneCompressor'
  BY <1>1, <1>2, <1>3, CompressorStays, Zenon
<1> QED
  BY <1>1, <1>4, <1>5, <1>6, <1>7, <1>8, LocalStep

-----------------------------------------------------------------------------
(* The steps that count frames *)

\* A step that counts the frames from i to j of block b.
LEMMA CountStep ==
  ASSUME IInv, NEW t \in Procs, LocalsGo(t), NEW b, NEW i \in Nat, NEW j \in Nat, i <= j,
         i .. j \subseteq Owed(t), Owed(t)' = Owed(t) \ (i .. j),
         \A f \in i .. j : GetBlockIdx(f) = b,
         stored' = IF b \in Blocks THEN [stored EXCEPT ![b] = @ + (j - i + 1)] ELSE stored,
         UNCHANGED <<total_frames, data, state, mtx, mapped, readonly, traces, loans, lost>>,
         pc[t] \notin {"unmap_raw", "unmap_packed"}, issued \subseteq issued',
         \A s \in issued' : s \in issued \/ TraceOk(s)',
         TypeOK', OneCompressor', OwnOk(t)'
  PROVE  KeepsInv
<1>0. TypeOK /\ FramesAddUp
  BY DEF IInv
<1>1. ASSUME NEW c \in Blocks PROVE BlockStays(c) /\ traces'[c] = traces[c]
  <2>1. stored[c] = K => stored'[c] = K
    <3>1. CASE c # b
      BY <1>0, <3>1, Zenon DEF TypeOK
    <3>2. CASE c = b
      <4>1. i \in i .. j
        OBVIOUS
      <4>2. i \in Owed(t) /\ GetBlockIdx(i) = b
        BY <4>1
      <4> QED
        BY <3>2, <4>2, FullIsOwedNothing
    <3> QED
      BY <3>1, <3>2
  <2> QED
    BY <2>1, Zenon DEF BlockStays
<1>2. \A c \in Blocks : BlockGoes(c, t)
  BY <1>1, StaysGoes
<1>3. \A c \in Blocks : BlockOk(c)'
  BY <1>1, BlockOkStays, NotPublishing, Zenon
<1>4. AddsUp
  BY <1>0, AddUpStored, LocalsOwe, Zenon
<1>5. \A loan \in loans' : loan \in loans \/ LoanOk(loan)'
  OBVIOUS
<1> QED
  BY <1>2, <1>3, <1>4, <1>5, StepKeeps

\* The types after a step that counts.
LEMMA CountTypes ==
  ASSUME TypeOK, NEW b, NEW n \in Nat, NEW completed, Stored(b, n, completed),
         UNCHANGED <<total_frames, data, state, mtx, mapped, readonly, traces, loans, lost>>,
         issued' \subseteq Nat,
         pc' \in [Procs -> Labels], start' \in [Procs -> Nat], count' \in [Procs -> Nat],
         ptr' \in [Procs -> Memories \cup {None}], pack' \in [Procs -> Nat],
         blk' \in [Procs -> Blocks]
  PROVE  TypeOK'
<1>1. stored' \in [Blocks -> Nat]
  BY DEF TypeOK, Stored
<1>2. /\ total_frames' \in Nat /\ data' \in [Blocks -> Memories \cup {None}]
      /\ state' \in [Blocks -> {"Storing", "Packed", "Unpacked"}]
      /\ mtx' \in [Blocks -> Procs \cup {None}] /\ mapped' \in [Blocks -> SUBSET Memories]
      /\ readonly' \in [Blocks -> SUBSET Memories]
      /\ traces' \in [Blocks -> [Memories -> SUBSET Nat]]
      /\ loans' \subseteq Nat \X (Memories \cup {None})
      /\ lost' \subseteq 0 .. total_frames' - 1
  BY DEF TypeOK
<1> QED
  BY <1>1, <1>2 DEF TypeOK

\* The tail of a range in two blocks is counted.
LEMMA StoredTailOk ==
  ASSUME IInv, NEW t \in Procs, StoredTail(t) PROVE KeepsInv
<1>0. PICK b, f, n, m : b = Block(t) /\ f = start[t] /\ n = count[t] /\ m = InFirst(t)
  OBVIOUS
<1>1. PICK completed \in BOOLEAN :
        /\ pc[t] = "tail" /\ Stored(b, m, completed)
        /\ pack' = [pack EXCEPT ![t] = @ + Completed(completed)]
        /\ pc' = [pc EXCEPT ![t] = "head"]
        /\ UNCHANGED <<total_frames, data, state, mtx, mapped, readonly, traces, start, count,
                       ptr, blk, thread, issued, loans, lost>>
  BY <1>0, Zenon DEF StoredTail, Goto, compress, ghosts
<1>2. TypeOK /\ FramesAddUp /\ OneCompressor /\ CallOk(t)
  BY DEF IInv
<1>3. f \in Nat /\ n \in Counts /\ n \in Nat /\ n > 0
      /\ b = GetBlockIdx(f) /\ GetBlockIdx(f) # GetBlockIdx(f + n - 1)
  <2>1. f \in Nat
    BY <1>0, <1>2 DEF TypeOK
  <2>2. n \in Counts /\ Block(t) # LastBlock(t)
    BY <1>0, <1>1, <1>2, Zenon DEF CallOk
  <2>3. n \in Nat /\ n > 0
    BY <2>2, SizesAssumption
  <2> QED
    BY <1>0, <2>1, <2>2, <2>3, Zenon DEF Block, LastBlock
<1>4. m = kBlockSizeFrames - GetInBlockIdx(f)
  BY <1>0 DEF InFirst
<1>5. /\ m \in Nat /\ 0 < m /\ m < n
      /\ \A g \in f .. f + m - 1 : GetBlockIdx(g) = b
  BY <1>3, <1>4, TwoBlocks
<1>6. pc'[t] = "head" /\ start'[t] = f /\ count'[t] = n /\ blk'[t] = 0
  BY <1>0, <1>1, <1>2, Zenon DEF TypeOK, IInv, Loops
<1>7. LocalsGo(t)
  BY <1>1, <1>2 DEF LocalsGo, TypeOK
<1>8. TypeOK'
  <2>1. /\ pc' \in [Procs -> Labels] /\ start' \in [Procs -> Nat] /\ count' \in [Procs -> Nat]
        /\ ptr' \in [Procs -> Memories \cup {None}] /\ blk' \in [Procs -> Blocks]
        /\ issued' \subseteq Nat
    BY <1>1, <1>2 DEF TypeOK, Labels
  <2>2. pack' \in [Procs -> Nat]
    <3>1. pack \in [Procs -> Nat] /\ Completed(completed) \in {0, 1}
      BY <1>2 DEF TypeOK, Completed
    <3> QED
      BY <1>1, <3>1
  <2> QED
    BY <1>1, <1>2, <1>5, <2>1, <2>2, CountTypes
<1>9. PICK j \in Nat : j = f + m - 1
  BY <1>3, <1>5
<1>10. f <= j /\ j - f + 1 = m
  BY <1>3, <1>5, <1>9
<1>11. Owed(t) = f .. f + n - 1
  BY <1>0, <1>1 DEF Owed
<1>12. Owed(t)' = f + m .. f + n - 1
  BY <1>0, <1>1, <1>6 DEF Owed, InFirst
<1>13. f .. j \subseteq Owed(t) /\ Owed(t)' = Owed(t) \ (f .. j)
  BY <1>3, <1>5, <1>9, <1>11, <1>12
<1>14. \A g \in f .. j : GetBlockIdx(g) = b
  BY <1>5, <1>9
<1>15. stored' = IF b \in Blocks THEN [stored EXCEPT ![b] = @ + (j - f + 1)] ELSE stored
  BY <1>1, <1>10, Zenon DEF Stored
<1>16. OwnOk(t)'
  BY <1>3, <1>6, Zenon DEF OwnOk, PackOk, CallOk, Holding, Block, LastBlock
<1>17. OneCompressor'
  BY <1>1, <1>2, CompressorStays, Zenon
<1> QED
  BY <1>1, <1>3, <1>7, <1>8, <1>10, <1>13, <1>14, <1>15, <1>16, <1>17, CountStep

\* The head of a range in two blocks is counted.
LEMMA StoredHeadOk ==
  ASSUME IInv, NEW t \in Procs, StoredHead(t) PROVE KeepsInv
<1>0. PICK b, f, n, m : b = LastBlock(t) /\ f = start[t] /\ n = count[t] /\ m = InFirst(t)
  OBVIOUS
<1>1. PICK completed \in BOOLEAN :
        /\ pc[t] = "head" /\ Stored(b, n - m, completed)
        /\ pack' = [pack EXCEPT ![t] = @ + Completed(completed)]
        /\ start' = [start EXCEPT ![t] = 0]
        /\ pc' = [pc EXCEPT ![t] = "alloc"]
        /\ UNCHANGED <<total_frames, data, state, mtx, mapped, readonly, traces, count,
                       ptr, blk, thread, issued, loans, lost>>
  BY <1>0, Zenon DEF StoredHead, Goto, compress, ghosts
<1>2. TypeOK /\ FramesAddUp /\ OneCompressor /\ CallOk(t)
  BY DEF IInv
<1>3. f \in Nat /\ n \in Counts /\ n \in Nat /\ n > 0
      /\ b = GetBlockIdx(f + n - 1) /\ GetBlockIdx(f) # GetBlockIdx(f + n - 1)
  <2>1. f \in Nat
    BY <1>0, <1>2 DEF TypeOK
  <2>2. n \in Counts /\ Block(t) # LastBlock(t)
    BY <1>0, <1>1, <1>2, Zenon DEF CallOk
  <2>3. n \in Nat /\ n > 0
    BY <2>2, SizesAssumption
  <2> QED
    BY <1>0, <2>1, <2>2, <2>3, Zenon DEF Block, LastBlock
<1>4. m = kBlockSizeFrames - GetInBlockIdx(f)
  BY <1>0 DEF InFirst
<1>5. /\ m \in Nat /\ 0 < m /\ m < n
      /\ \A g \in f + m .. f + n - 1 : GetBlockIdx(g) = b
  BY <1>3, <1>4, TwoBlocks
<1>6. pc'[t] = "alloc" /\ count'[t] = n /\ blk'[t] = 0
  BY <1>0, <1>1, <1>2, Zenon DEF TypeOK, IInv, Loops
<1>7. LocalsGo(t)
  BY <1>1, <1>2 DEF LocalsGo, TypeOK
<1>8. TypeOK'
  <2>1. /\ pc' \in [Procs -> Labels] /\ start' \in [Procs -> Nat] /\ count' \in [Procs -> Nat]
        /\ ptr' \in [Procs -> Memories \cup {None}] /\ blk' \in [Procs -> Blocks]
        /\ issued' \subseteq Nat
    BY <1>1, <1>2 DEF TypeOK, Labels
  <2>2. pack' \in [Procs -> Nat] /\ n - m \in Nat
    <3>1. pack' \in [Procs -> Nat]
      BY <1>1, <1>2 DEF TypeOK, Completed
    <3> QED
      BY <1>3, <1>5, <3>1
  <2> QED
    BY <1>1, <1>2, <2>1, <2>2, CountTypes
<1>9. PICK i \in Nat, j \in Nat : i = f + m /\ j = f + n - 1
  BY <1>3, <1>5
<1>10. i <= j /\ j - i + 1 = n - m
  BY <1>3, <1>5, <1>9
<1>11. Owed(t) = i .. j /\ Owed(t)' = {}
  BY <1>0, <1>1, <1>6, <1>9 DEF Owed
<1>12. i .. j \subseteq Owed(t) /\ Owed(t)' = Owed(t) \ (i .. j)
  BY <1>11
<1>13. \A g \in i .. j : GetBlockIdx(g) = b
  BY <1>5, <1>9
<1>14. stored' = IF b \in Blocks THEN [stored EXCEPT ![b] = @ + (j - i + 1)] ELSE stored
  BY <1>1, <1>10, Zenon DEF Stored
<1>15. OwnOk(t)'
  <2>1. CallOk(t)'
    BY <1>3, <1>6, Zenon DEF CallOk
  <2> QED
    BY <1>6, <2>1, CallOwn
<1>16. OneCompressor'
  BY <1>1, <1>2, CompressorStays, Zenon
<1> QED
  BY <1>1, <1>7, <1>8, <1>10, <1>12, <1>13, <1>14, <1>15, <1>16, CountStep

\* The frames of a trace are counted and its id is returned.
LEMMA StoreReturnsOk ==
  ASSUME IInv, NEW t \in Procs, StoreReturns(t) PROVE KeepsInv
<1>0. PICK b, f, n : b = Block(t) /\ f = start[t] /\ n = count[t]
  OBVIOUS
<1>1. PICK completed \in BOOLEAN :
        /\ pc[t] = "stored" /\ Stored(b, n, completed)
        /\ issued' = IF OffsetToId(f) = 0 THEN issued ELSE issued \cup {f}
        /\ Return(t, pack[t] + Completed(completed))
        /\ UNCHANGED <<total_frames, data, state, mtx, mapped, readonly, traces,
                       blk, thread, loans, lost>>
  BY <1>0, Zenon DEF StoreReturns, compress
<1>2. TypeOK /\ FramesAddUp /\ OneCompressor /\ CallOk(t)
  BY DEF IInv
<1>3. f \in Nat /\ n \in Nat /\ n > 0 /\ b \in Blocks
      /\ b = GetBlockIdx(f) /\ GetBlockIdx(f) = GetBlockIdx(f + n - 1)
  <2>1. f \in Nat
    BY <1>0, <1>2 DEF TypeOK
  <2>2. n \in Counts /\ Block(t) \in Blocks /\ Block(t) = LastBlock(t)
    BY <1>0, <1>1, <1>2, Zenon DEF CallOk
  <2>3. n \in Nat /\ n > 0
    BY <2>2, SizesAssumption
  <2> QED
    BY <1>0, <2>1, <2>2, <2>3 DEF Block, LastBlock
<1>4. data[b] = "raw" /\ f \in traces[b]["raw"]
  BY <1>0, <1>1, <1>2, WriterOwes, Zenon DEF CallOk
<1>5. /\ pc'[t] \in {"notify", "idle"} /\ blk'[t] = 0
      /\ pc' \in [Procs -> Labels] /\ \A u \in Procs : u # t => pc'[u] = pc[u]
  BY <1>1, <1>2, Zenon DEF TypeOK, IInv, Loops, Return, Goto, Labels
<1>6. LocalsGo(t)
  BY <1>1, <1>2, <1>5, Zenon DEF LocalsGo, TypeOK, Return
<1>7. TypeOK'
  <2>1. /\ start' \in [Procs -> Nat] /\ count' \in [Procs -> Nat]
        /\ ptr' \in [Procs -> Memories \cup {None}] /\ blk' \in [Procs -> Blocks]
        /\ pack' \in [Procs -> Nat]
    BY <1>1, <1>2, Zenon DEF TypeOK, Return
  <2>2. issued' \subseteq Nat
    BY <1>1, <1>2, <1>3 DEF TypeOK
  <2> QED
    BY <1>1, <1>2, <1>3, <1>5, <2>1, <2>2, CountTypes, Zenon
<1>8. PICK j \in Nat : j = f + n - 1
  BY <1>3
<1>9. f <= j /\ j - f + 1 = n
  BY <1>3, <1>8
<1>10. Owed(t) = f .. j /\ Owed(t)' = {}
  BY <1>0, <1>1, <1>5, <1>8 DEF Owed
<1>11. f .. j \subseteq Owed(t) /\ Owed(t)' = Owed(t) \ (f .. j)
  BY <1>10
<1>12. \A g \in f .. j : GetBlockIdx(g) = b
  <2> SUFFICES ASSUME NEW g \in f .. j PROVE GetBlockIdx(g) = b
    OBVIOUS
  <2>1. g \in Nat /\ f <= g /\ g <= j
    BY <1>3, <1>8
  <2>2. GetBlockIdx(f) = GetBlockIdx(j)
    BY <1>3, <1>8
  <2> QED
    BY <1>3, <2>1, <2>2, SameBlock
<1>13. stored' = IF b \in Blocks THEN [stored EXCEPT ![b] = @ + (j - f + 1)] ELSE stored
  BY <1>1, <1>9, Zenon DEF Stored
<1>14. issued \subseteq issued' /\ \A s \in issued' : s \in issued \/ TraceOk(s)'
  <2>1. TraceOk(f)'
    BY <1>1, <1>3, <1>4, SizesAssumption DEF TraceOk, Memories
  <2> QED
    BY <1>1, <2>1, Zenon
<1>15. OwnOk(t)'
  BY <1>5, QuietOwn
<1>16. OneCompressor'
  BY <1>1, <1>2, CompressorStays, Zenon DEF Return, Goto
<1> QED
  BY <1>1, <1>3, <1>6, <1>7, <1>9, <1>11, <1>12, <1>13, <1>14, <1>15, <1>16, CountStep, Zenon

-----------------------------------------------------------------------------
(* The steps that change one block *)

\* A step that leaves all blocks alone but one.
OnlyBlock(b) == \A c \in Blocks : c # b => BlockStays(c) /\ traces'[c] = traces[c]

\* Such a step keeps the invariant if the block is well afterwards.
LEMMA TouchStep ==
  ASSUME IInv, NEW t \in Procs, LocalsGo(t), NEW b \in Blocks, OnlyBlock(b),
         BlockGoes(b, t), BlockOk(b)', OwnOk(t)', TypeOK', OneCompressor',
         pc[t] = "unmap_raw" => b = blk[t], pc[t] = "unmap_packed" => b = Block(t),
         UNCHANGED <<total_frames, stored, issued, lost>>, Owed(t)' = Owed(t),
         \A loan \in loans' : loan \in loans \/ LoanOk(loan)'
  PROVE  KeepsInv
<1>1. ASSUME NEW c \in Blocks PROVE BlockGoes(c, t)
  BY StaysGoes, Zenon DEF OnlyBlock
<1>2. ASSUME NEW c \in Blocks, c # b PROVE BlockOk(c)'
  <2>1. BlockStays(c)
    BY <1>2, Zenon DEF OnlyBlock
  <2>2. ASSUME mtx[c] = t PROVE ~Publishing(c, "unmap_raw") /\ ~Publishing(c, "unmap_packed")
    BY <1>2, <2>2, Zenon DEF Publishing
  <2> QED
    BY <2>1, <2>2, BlockOkStays, Zenon
<1>3. AddsUp
  <2>1. FramesAddUp
    BY Zenon DEF IInv
  <2> QED
    BY <2>1, AddUpKept, LocalsOwe, Zenon
<1>4. issued \subseteq issued' /\ \A s \in issued' : s \in issued \/ TraceOk(s)'
  BY Zenon
<1>5. \A c \in Blocks : BlockOk(c)'
  BY <1>2, Zenon
<1> QED
  BY <1>1, <1>3, <1>4, <1>5, StepKeeps, Zenon

\* Create gives the block a memory, unless it has one.
LEMMA CreateOk ==
  ASSUME IInv, NEW t \in Procs, Create(t) PROVE KeepsInv
<1>0. PICK b : b = Block(t)
  OBVIOUS
<1>1. TypeOK /\ OneCompressor /\ CallOk(t) /\ pc[t] = "create" /\ mtx[b] = None
  BY <1>0 DEF IInv, Create
<1>2. b \in Blocks /\ data[b] \in {None, "raw"} /\ BlockOk(b)
      /\ "raw" \notin readonly[b] /\ state[b] # "Packed" /\ None # "raw"
  BY <1>0, <1>1, WriterOwes, SizesAssumption, Zenon DEF IInv, Memories
<1>3. /\ data' = [data EXCEPT ![b] = "raw"]
      /\ mapped' = [mapped EXCEPT ![b] = @ \cup {"raw"}]
      /\ ptr' = [ptr EXCEPT ![t] = "raw"]
      /\ pc' = [pc EXCEPT ![t] = "write"]
      /\ UNCHANGED <<total_frames, stored, state, mtx, readonly, traces, start, count, pack,
                     blk, thread, issued, loans, lost>>
  BY <1>0, <1>2, Zenon DEF Create, Goto, compress, ghosts
<1>4. /\ data'[b] = "raw" /\ mapped'[b] = mapped[b] \cup {"raw"} /\ ptr'[t] = "raw"
      /\ pc'[t] = "write"
      /\ \A c \in Blocks : c # b => data'[c] = data[c] /\ mapped'[c] = mapped[c]
      /\ \A u \in Procs : u # t => ptr'[u] = ptr[u] /\ pc'[u] = pc[u]
  BY <1>1, <1>2, <1>3, Zenon DEF TypeOK
<1>5. LocalsGo(t)
  BY <1>3, <1>4 DEF LocalsGo
<1>6. OnlyBlock(b)
  BY <1>3, <1>4 DEF OnlyBlock, BlockStays
<1>7. TypeOK'
  BY <1>1, <1>3, Zenon DEF TypeOK, Labels, Memories
<1>8. BlockGoes(b, t)
  <2>0. None \notin {"raw", "unpacked"}
    BY SizesAssumption DEF Memories
  <2>1. state[b] = "Unpacked" => data[b] = "raw"
    BY <1>2, <2>0, Zenon DEF BlockOk
  <2> QED
    BY <1>1, <1>2, <1>3, <1>4, <2>1, Zenon DEF BlockGoes
<1>9. BlockOk(b)'
  BY <1>2, <1>3, <1>4, Zenon DEF BlockOk
<1>10. Block(t)' = b /\ LastBlock(t)' = LastBlock(t) /\ blk'[t] = 0
  BY <1>0, <1>1, <1>3, Zenon DEF Block, LastBlock, IInv, Loops
<1>11. OwnOk(t)'
  <2>1. CallOk(t)'
    <3>1. count[t] \in Counts /\ Block(t) = LastBlock(t)
      BY <1>1, Zenon DEF CallOk
    <3>2. /\ pc'[t] = "write" /\ count'[t] \in Counts /\ Block(t)' = b /\ b \in Blocks
          /\ LastBlock(t)' = b
      BY <1>0, <1>2, <1>3, <1>4, <1>10, <3>1, Zenon
    <3>3. ptr'[t] = "raw" /\ data'[b] # None
      BY <1>4, SizesAssumption DEF Memories
    <3> QED
      BY <3>2, <3>3 DEF CallOk
  <2> QED
    BY <1>4, <1>10, <2>1, CallOwn, Zenon
<1>12. Owed(t)' = Owed(t)
  BY <1>1, <1>3, <1>4 DEF Owed
<1>13. OneCompressor'
  BY <1>1, <1>3, CompressorStays, Zenon
<1> QED
  BY <1>1, <1>2, <1>3, <1>5, <1>6, <1>7, <1>8, <1>9, <1>11, <1>12, <1>13, TouchStep, Zenon

\* The frames are written: to the memory data_ leads to, and to no other.
LEMMA WriteOk ==
  ASSUME IInv, NEW t \in Procs, Write(t) PROVE KeepsInv
<1>0. PICK b, f : b = Block(t) /\ f = start[t]
  OBVIOUS
<1>1. TypeOK /\ OneCompressor /\ CallOk(t) /\ pc[t] = "write" /\ ptr[t] = "raw"
  BY DEF IInv, Write, CallOk
<1>2. b \in Blocks /\ BlockOk(b) /\ f \in Nat /\ stored[b] # K
  BY <1>0, <1>1, WriterOwes, Zenon DEF IInv, TypeOK
<1>3. /\ traces' = [traces EXCEPT ![b]["raw"] = @ \cup {f}]
      /\ pc' = [pc EXCEPT ![t] = "stored"]
      /\ UNCHANGED <<total_frames, stored, data, state, mtx, mapped, readonly, start, count,
                     ptr, pack, blk, thread, issued, loans, lost>>
  BY <1>0, <1>1 DEF Write, Goto, compress, ghosts, locals
<1>4. /\ traces'[b]["raw"] = traces[b]["raw"] \cup {f}
      /\ \A m \in Memories : traces[b][m] \subseteq traces'[b][m]
      /\ \A c \in Blocks : c # b => traces'[c] = traces[c]
      /\ pc'[t] = "stored" /\ \A u \in Procs : u # t => pc'[u] = pc[u]
      /\ traces' \in [Blocks -> [Memories -> SUBSET Nat]]
  <2>1. PICK new : new = traces[b]["raw"] \cup {f}
    BY Zenon
  <2>2. "raw" \in Memories /\ new \in SUBSET Nat
    BY <1>1, <1>2, <2>1, TracesAre
  <2>3. /\ traces'[b]["raw"] = new
        /\ \A k \in Memories : k # "raw" => traces'[b][k] = traces[b][k]
        /\ \A c \in Blocks : c # b => traces'[c] = traces[c]
        /\ traces' \in [Blocks -> [Memories -> SUBSET Nat]]
    <3>1. traces' = [traces EXCEPT ![b]["raw"] = new]
      BY <1>3, <2>1
    <3> QED
      BY <1>1, <1>2, <2>2, <3>1, TracesAt, Zenon
  <2>4. pc'[t] = "stored" /\ \A u \in Procs : u # t => pc'[u] = pc[u]
    BY <1>1, <1>3 DEF TypeOK
  <2> QED
    BY <2>1, <2>3, <2>4
<1>5. LocalsGo(t)
  BY <1>3, <1>4 DEF LocalsGo
<1>6. \A c \in Blocks : BlockStays(c)
  BY <1>3 DEF BlockStays
<1>7. OnlyBlock(b)
  BY <1>4, <1>6 DEF OnlyBlock
<1>8. TypeOK'
  BY <1>1, <1>3, <1>4, Zenon DEF TypeOK, Labels
<1>9. BlockGoes(b, t)
  <2>1. data[b] \in Memories \cup {None}
    BY <1>1, <1>2 DEF TypeOK
  <2> QED
    BY <1>2, <1>3, <1>4, <2>1 DEF BlockGoes
<1>10. BlockOk(b)'
  BY <1>1, <1>2, <1>5, <1>6, BlockOkStays, NotPublishing
<1>11. Block(t)' = b /\ LastBlock(t)' = LastBlock(t) /\ blk'[t] = 0
  BY <1>0, <1>1, <1>3 DEF Block, LastBlock, IInv, Loops
<1>12. OwnOk(t)'
  <2>1. CallOk(t)'
    <3>1. count[t] \in Counts /\ Block(t) = LastBlock(t) /\ data[b] # None
      BY <1>0, <1>1 DEF CallOk
    <3>2. /\ pc'[t] = "stored" /\ count'[t] \in Counts /\ Block(t)' = b /\ b \in Blocks
          /\ LastBlock(t)' = b /\ ptr'[t] = "raw" /\ data'[b] # None
      BY <1>0, <1>1, <1>2, <1>3, <1>4, <1>11, <3>1, Zenon
    <3>3. start'[t] \in traces'[b]["raw"]
      BY <1>0, <1>3, <1>4
    <3> QED
      BY <3>2, <3>3 DEF CallOk
  <2> QED
    BY <1>4, <1>11, <2>1, CallOwn, Zenon
<1>13. Owed(t)' = Owed(t)
  BY <1>1, <1>3, <1>4 DEF Owed
<1>14. OneCompressor'
  BY <1>1, <1>3, CompressorStays, Zenon
<1> QED
  BY <1>1, <1>2, <1>3, <1>5, <1>7, <1>8, <1>9, <1>10, <1>12, <1>13, <1>14, TouchStep

-----------------------------------------------------------------------------
(* The steps under the lock of a block *)

\* A block nobody has locked is at rest.
LEMMA AtRest ==
  ASSUME IInv, NEW b \in Blocks, mtx[b] = None
  PROVE  /\ state[b] = "Storing" => data[b] \in {None, "raw"}
         /\ state[b] = "Packed" => data[b] = "packed" /\ stored[b] = K
         /\ state[b] = "Unpacked" => data[b] \in {"raw", "unpacked"}
<1>1. None \notin Procs
  BY SizesAssumption DEF Procs
<1>2. ~Publishing(b, "unmap_raw") /\ ~Publishing(b, "unmap_packed")
  BY <1>1 DEF Publishing
<1>3. BlockOk(b)
  BY DEF IInv
<1> QED
  BY <1>2, <1>3 DEF BlockOk

\* GetOrUnpack of a block that is not packed.
LEMMA GetUnpackedOk ==
  ASSUME IInv, NEW t \in Procs, GetUnpacked(t) PROVE KeepsInv
<1>0. PICK b, f : b = Block(t) /\ f = start[t]
  OBVIOUS
<1>1. TypeOK /\ OneCompressor /\ pc[t] = "load" /\ mtx[b] = None /\ state[b] # "Packed"
  BY <1>0, Zenon DEF IInv, GetUnpacked
<1>2. b \in Blocks /\ f \in Nat /\ f \in issued /\ data[b] # None /\ b = GetBlockIdx(f)
  BY <1>0, <1>1, LoadedBlock DEF Block
<1>3. BlockOk(b) /\ data[b] \in {"raw", "unpacked"}
  BY <1>1, <1>2, AtRest, Zenon DEF IInv, TypeOK
<1>4. /\ state' = [state EXCEPT ![b] = "Unpacked"]
      /\ loans' = loans \cup {<<f, data[b]>>}
      /\ start' = [start EXCEPT ![t] = 0]
      /\ pc' = [pc EXCEPT ![t] = "idle"]
      /\ UNCHANGED <<total_frames, stored, data, mtx, mapped, readonly, traces, count, ptr,
                     pack, blk, thread, issued, lost>>
  BY <1>0, Zenon DEF GetUnpacked, Goto, compress
<1>5. /\ state'[b] = "Unpacked" /\ \A c \in Blocks : c # b => state'[c] = state[c]
      /\ pc'[t] = "idle" /\ blk'[t] = 0
      /\ \A u \in Procs : u # t => pc'[u] = pc[u] /\ start'[u] = start[u]
  BY <1>1, <1>2, <1>4, Zenon DEF TypeOK, IInv, Loops
<1>6. LocalsGo(t)
  BY <1>4, <1>5, Zenon DEF LocalsGo
<1>7. OnlyBlock(b)
  BY <1>4, <1>5 DEF OnlyBlock, BlockStays
<1>8. TypeOK'
  <2>1. loans' \subseteq Nat \X (Memories \cup {None})
    <3>1. <<f, data[b]>> \in Nat \X (Memories \cup {None})
      BY <1>2, <1>3 DEF Memories
    <3>2. loans \subseteq Nat \X (Memories \cup {None})
      BY <1>1 DEF TypeOK
    <3> QED
      BY <1>4, <3>1, <3>2
  <2> QED
    BY <1>1, <1>4, <2>1, Zenon DEF TypeOK, Labels
<1>9. BlockGoes(b, t)
  BY <1>1, <1>4, <1>5, Zenon DEF BlockGoes
<1>10. BlockOk(b)'
  BY <1>3, <1>4, <1>5, Zenon DEF BlockOk
<1>11. OwnOk(t)'
  BY <1>5, QuietOwn
<1>12. Owed(t)' = Owed(t)
  BY <1>1, <1>5 DEF Owed
<1>13. OneCompressor'
  BY <1>1, <1>4, CompressorStays, Zenon
<1>14. \A loan \in loans' : loan \in loans \/ LoanOk(loan)'
  <2>1. LoanOk(<<f, data[b]>>)'
    BY <1>2, <1>4, <1>5 DEF LoanOk
  <2> QED
    BY <1>4, <2>1
<1> QED
  BY <1>1, <1>2, <1>4, <1>6, <1>7, <1>8, <1>9, <1>10, <1>11, <1>12, <1>13, <1>14, TouchStep, Zenon

\* GetOrUnpack of a packed block: what is unpacked is what was packed.
LEMMA UnpackOk ==
  ASSUME IInv, NEW t \in Procs, Unpack(t) PROVE KeepsInv
<1>0. PICK b : b = Block(t)
  OBVIOUS
<1>1. /\ TypeOK /\ OneCompressor /\ CallOk(t) /\ pc[t] = "load" /\ mtx[b] = None
      /\ state[b] = "Packed"
  BY <1>0 DEF IInv, Unpack
<1>2. b \in Blocks /\ data[b] = "packed" /\ stored[b] = K /\ BlockOk(b)
  BY <1>0, <1>1, LoadedBlock, AtRest, Zenon DEF IInv
<1>3. /\ mtx' = [mtx EXCEPT ![b] = t]
      /\ mapped' = [mapped EXCEPT ![b] = @ \cup {"unpacked"}]
      /\ traces' = [traces EXCEPT ![b]["unpacked"] = traces[b]["packed"]]
      /\ readonly' = [readonly EXCEPT ![b] = @ \cup {"unpacked"}]
      /\ data' = [data EXCEPT ![b] = "unpacked"]
      /\ pc' = [pc EXCEPT ![t] = "unmap_packed"]
      /\ UNCHANGED <<total_frames, stored, state, start, count, ptr, pack, blk, thread,
                     issued, loans, lost>>
  BY <1>0, <1>2 DEF Unpack, Goto, compress, ghosts, locals
<1>4. /\ mtx'[b] = t /\ data'[b] = "unpacked" /\ mapped'[b] = mapped[b] \cup {"unpacked"}
      /\ traces'[b]["unpacked"] = traces[b]["packed"]
      /\ \A c \in Blocks : c # b =>
           /\ mtx'[c] = mtx[c] /\ data'[c] = data[c] /\ mapped'[c] = mapped[c]
           /\ traces'[c] = traces[c] /\ readonly'[c] = readonly[c]
      /\ pc'[t] = "unmap_packed" /\ blk'[t] = 0
      /\ \A u \in Procs : u # t => pc'[u] = pc[u]
      /\ traces' \in [Blocks -> [Memories -> SUBSET Nat]]
  <2>1. "unpacked" \in Memories /\ traces[b]["packed"] \in SUBSET Nat
    BY <1>1, <1>2, TracesAre, Zenon
  <2>2. /\ traces'[b]["unpacked"] = traces[b]["packed"]
        /\ \A c \in Blocks : c # b => traces'[c] = traces[c]
        /\ traces' \in [Blocks -> [Memories -> SUBSET Nat]]
    BY <1>1, <1>2, <1>3, <2>1, TracesAt, Zenon
  <2>3. blk[t] = 0
    BY <1>1, Zenon DEF IInv, Loops
  <2> QED
    BY <1>1, <1>2, <1>3, <2>2, <2>3, Zenon DEF TypeOK
<1>5. LocalsGo(t)
  BY <1>3, <1>4, Zenon DEF LocalsGo
<1>6. OnlyBlock(b)
  BY <1>3, <1>4, Zenon DEF OnlyBlock, BlockStays
<1>7. TypeOK'
  <2>1. traces' \in [Blocks -> [Memories -> SUBSET Nat]]
    BY <1>4, Zenon
  <2>2. /\ mapped' \in [Blocks -> SUBSET Memories] /\ readonly' \in [Blocks -> SUBSET Memories]
        /\ data' \in [Blocks -> Memories \cup {None}] /\ mtx' \in [Blocks -> Procs \cup {None}]
        /\ pc' \in [Procs -> Labels]
    BY <1>1, <1>2, <1>3, Zenon DEF TypeOK, Memories, Labels
  <2> QED
    BY <1>1, <1>3, <2>1, <2>2, Zenon DEF TypeOK
<1>8. BlockGoes(b, t)
  BY <1>1, <1>2, <1>3, <1>4, SizesAssumption, Zenon DEF BlockGoes, Memories
<1>9. Block(t)' = b
  BY <1>0, <1>3 DEF Block
<1>10. BlockOk(b)'
  <2>1. Publishing(b, "unmap_packed")'
    BY <1>4, <1>9, Zenon DEF Publishing
  <2> QED
    BY <1>1, <1>2, <1>3, <1>4, <2>1, Zenon DEF BlockOk
<1>11. OwnOk(t)'
  <2>1. PackOk(t)'
    BY <1>1, <1>3, <1>4, <1>9, Zenon DEF PackOk
  <2>2. CallOk(t)'
    BY <1>1, <1>3, <1>4, Zenon DEF CallOk
  <2>3. \A c \in Blocks : Holding(t, c)' => c = b
    BY <1>4, <1>9, Zenon DEF Holding
  <2> QED
    BY <1>4, <2>1, <2>2, <2>3, Zenon DEF OwnOk
<1>12. Owed(t)' = Owed(t)
  BY <1>1, <1>4 DEF Owed
<1>13. OneCompressor'
  BY <1>1, <1>3, CompressorStays, Zenon
<1> QED
  BY <1>1, <1>2, <1>3, <1>5, <1>6, <1>7, <1>8, <1>10, <1>11, <1>12, <1>13, TouchStep

\* The packed memory goes; nobody has a pointer to it.
LEMMA UnmapPackedOk ==
  ASSUME IInv, NEW t \in Procs, UnmapPacked(t) PROVE KeepsInv
<1>0. PICK b, f : b = Block(t) /\ f = start[t]
  OBVIOUS
<1>1. TypeOK /\ OneCompressor /\ pc[t] = "unmap_packed"
  BY DEF IInv, UnmapPacked
<1>2. /\ b \in Blocks /\ f \in Nat /\ f \in issued /\ b = GetBlockIdx(f)
      /\ mtx[b] = t /\ state[b] = "Packed" /\ data[b] = "unpacked" /\ BlockOk(b)
  BY <1>0, <1>1, LoadedBlock, Zenon DEF IInv, Locks, Holding, PackOk, Block
<1>3. /\ mapped' = [mapped EXCEPT ![b] = @ \ {"packed"}]
      /\ readonly' = [readonly EXCEPT ![b] = @ \ {"packed"}]
      /\ traces' = [traces EXCEPT ![b]["packed"] = {}]
      /\ state' = [state EXCEPT ![b] = "Unpacked"]
      /\ mtx' = [mtx EXCEPT ![b] = None]
      /\ loans' = loans \cup {<<f, "unpacked">>}
      /\ start' = [start EXCEPT ![t] = 0]
      /\ pc' = [pc EXCEPT ![t] = "idle"]
      /\ UNCHANGED <<total_frames, stored, data, count, ptr, pack, blk, thread, issued, lost>>
  BY <1>0, <1>2 DEF UnmapPacked, Goto, compress
<1>4. /\ mapped'[b] = mapped[b] \ {"packed"} /\ readonly'[b] = readonly[b] \ {"packed"}
      /\ traces'[b]["unpacked"] = traces[b]["unpacked"]
      /\ traces'[b]["raw"] = traces[b]["raw"]
      /\ state'[b] = "Unpacked" /\ mtx'[b] = None
      /\ \A c \in Blocks : c # b =>
           /\ mtx'[c] = mtx[c] /\ state'[c] = state[c] /\ mapped'[c] = mapped[c]
           /\ traces'[c] = traces[c] /\ readonly'[c] = readonly[c]
      /\ pc'[t] = "idle" /\ blk'[t] = 0
      /\ \A u \in Procs : u # t => pc'[u] = pc[u] /\ start'[u] = start[u]
      /\ traces' \in [Blocks -> [Memories -> SUBSET Nat]]
  <2>0. {"packed", "unpacked", "raw"} \subseteq Memories
    BY DEF Memories
  <2>1. /\ traces'[b]["unpacked"] = traces[b]["unpacked"]
        /\ traces'[b]["raw"] = traces[b]["raw"]
        /\ \A c \in Blocks : c # b => traces'[c] = traces[c]
        /\ traces' \in [Blocks -> [Memories -> SUBSET Nat]]
    <3>1. PICK new : new = {}
      BY Zenon
    <3>2. new \in SUBSET Nat /\ traces' = [traces EXCEPT ![b]["packed"] = new]
      BY <1>3, <3>1
    <3>3. /\ \A k \in Memories : k # "packed" => traces'[b][k] = traces[b][k]
          /\ \A c \in Blocks : c # b => traces'[c] = traces[c]
          /\ traces' \in [Blocks -> [Memories -> SUBSET Nat]]
      <4>1. TypeOK /\ b \in Blocks /\ "packed" \in Memories
        BY <1>1, <1>2, <2>0
      <4> QED
        BY <3>2, <4>1, TracesAt, Zenon
    <3> QED
      BY <2>0, <3>3
  <2>2. blk[t] = 0
    BY <1>1, Zenon DEF IInv, Loops
  <2>3. /\ mapped'[b] = mapped[b] \ {"packed"} /\ readonly'[b] = readonly[b] \ {"packed"}
        /\ \A c \in Blocks : c # b => mapped'[c] = mapped[c] /\ readonly'[c] = readonly[c]
    BY <1>1, <1>2, <1>3, Zenon DEF TypeOK
  <2>4. /\ state'[b] = "Unpacked" /\ mtx'[b] = None
        /\ \A c \in Blocks : c # b => mtx'[c] = mtx[c] /\ state'[c] = state[c]
    BY <1>1, <1>2, <1>3, Zenon DEF TypeOK
  <2>5. /\ pc'[t] = "idle" /\ \A u \in Procs : u # t => pc'[u] = pc[u] /\ start'[u] = start[u]
    BY <1>1, <1>3 DEF TypeOK
  <2> QED
    BY <1>3, <2>1, <2>2, <2>3, <2>4, <2>5, Zenon
<1>5. LocalsGo(t)
  BY <1>3, <1>4, Zenon DEF LocalsGo
<1>6. OnlyBlock(b)
  BY <1>3, <1>4 DEF OnlyBlock, BlockStays
<1>7. TypeOK'
  <2>1. traces' \in [Blocks -> [Memories -> SUBSET Nat]]
    BY <1>4, Zenon
  <2>2. /\ mapped' \in [Blocks -> SUBSET Memories] /\ readonly' \in [Blocks -> SUBSET Memories]
        /\ mtx' \in [Blocks -> Procs \cup {None}]
        /\ state' \in [Blocks -> {"Storing", "Packed", "Unpacked"}]
        /\ pc' \in [Procs -> Labels] /\ start' \in [Procs -> Nat]
    BY <1>1, <1>2, <1>3, Zenon DEF TypeOK, Labels
  <2>3. loans' \subseteq Nat \X (Memories \cup {None})
    <3>1. <<f, "unpacked">> \in Nat \X (Memories \cup {None})
      BY <1>2, Zenon DEF Memories
    <3>2. loans \subseteq Nat \X (Memories \cup {None})
      BY <1>1 DEF TypeOK
    <3> QED
      BY <1>3, <3>1, <3>2
  <2> QED
    BY <1>1, <1>3, <2>1, <2>2, <2>3, Zenon DEF TypeOK
<1>8. BlockGoes(b, t)
  BY <1>2, <1>3, <1>4, Zenon DEF BlockGoes
<1>9. BlockOk(b)'
  BY <1>2, <1>3, <1>4, Zenon DEF BlockOk
<1>10. OwnOk(t)'
  BY <1>4, QuietOwn, Zenon
<1>11. Owed(t)' = Owed(t)
  BY <1>1, <1>4 DEF Owed
<1>12. OneCompressor'
  BY <1>1, <1>3, CompressorStays, Zenon
<1>13. \A loan \in loans' : loan \in loans \/ LoanOk(loan)'
  <2>1. LoanOk(<<f, "unpacked">>)'
    BY <1>2, <1>3, <1>4, Zenon DEF LoanOk
  <2> QED
    BY <1>3, <2>1
<1> QED
  BY <1>0, <1>1, <1>2, <1>3, <1>5, <1>6, <1>7, <1>8, <1>9, <1>10, <1>11, <1>12, <1>13, TouchStep, Zenon

\* Pack compresses a full block into new memory.
LEMMA CompressOk ==
  ASSUME IInv, NEW t \in Procs, Compress(t) PROVE KeepsInv
<1>0. PICK b : b = blk[t]
  OBVIOUS
<1>1. /\ TypeOK /\ OneCompressor /\ CallOk(t) /\ pc[t] = "pack" /\ mtx[b] = None
      /\ state[b] = "Storing" /\ data[b] # None /\ stored[b] = K
  BY <1>0 DEF IInv, Compress, Packable, K
<1>2. b \in Blocks /\ BlockOk(b) /\ data[b] = "raw"
  BY <1>0, <1>1, AtRest, Zenon DEF IInv, TypeOK
<1>3. /\ mtx' = [mtx EXCEPT ![b] = t]
      /\ mapped' = [mapped EXCEPT ![b] = @ \cup {"packed"}]
      /\ traces' = [traces EXCEPT ![b]["packed"] = traces[b]["raw"]]
      /\ pc' = [pc EXCEPT ![t] = "compressed"]
      /\ UNCHANGED <<total_frames, stored, data, state, readonly, start, count, ptr, pack, blk,
                     thread, issued, loans, lost>>
  BY <1>0, <1>2 DEF Compress, Goto, compress, ghosts, locals
<1>4. /\ mtx'[b] = t /\ mapped'[b] = mapped[b] \cup {"packed"}
      /\ traces'[b]["packed"] = traces[b]["raw"] /\ traces'[b]["raw"] = traces[b]["raw"]
      /\ \A c \in Blocks : c # b =>
           mtx'[c] = mtx[c] /\ mapped'[c] = mapped[c] /\ traces'[c] = traces[c]
      /\ pc'[t] = "compressed"
      /\ \A u \in Procs : u # t => pc'[u] = pc[u]
      /\ traces' \in [Blocks -> [Memories -> SUBSET Nat]]
  <2>1. "packed" \in Memories /\ "raw" \in Memories /\ traces[b]["raw"] \in SUBSET Nat
    BY <1>1, <1>2, TracesAre, Zenon
  <2>2. /\ traces'[b]["packed"] = traces[b]["raw"] /\ traces'[b]["raw"] = traces[b]["raw"]
        /\ \A c \in Blocks : c # b => traces'[c] = traces[c]
        /\ traces' \in [Blocks -> [Memories -> SUBSET Nat]]
    <3>1. PICK new \in SUBSET Nat : new = traces[b]["raw"]
      BY <2>1
    <3>2. /\ traces'[b]["packed"] = new
          /\ \A k \in Memories : k # "packed" => traces'[b][k] = traces[b][k]
          /\ \A c \in Blocks : c # b => traces'[c] = traces[c]
          /\ traces' \in [Blocks -> [Memories -> SUBSET Nat]]
      <4>1. TypeOK /\ b \in Blocks /\ traces' = [traces EXCEPT ![b]["packed"] = new]
        BY <1>1, <1>2, <1>3, <3>1
      <4> QED
        BY <2>1, <4>1, TracesAt, Zenon
    <3> QED
      BY <2>1, <3>1, <3>2
  <2> QED
    BY <1>1, <1>2, <1>3, <2>2, Zenon DEF TypeOK
<1>5. LocalsGo(t)
  BY <1>3, <1>4, Zenon DEF LocalsGo
<1>6. OnlyBlock(b)
  BY <1>3, <1>4, Zenon DEF OnlyBlock, BlockStays
<1>7. TypeOK'
  <2>1. traces' \in [Blocks -> [Memories -> SUBSET Nat]]
    BY <1>4, Zenon
  <2>2. /\ mapped' \in [Blocks -> SUBSET Memories] /\ mtx' \in [Blocks -> Procs \cup {None}]
        /\ pc' \in [Procs -> Labels]
    BY <1>1, <1>2, <1>3, Zenon DEF TypeOK, Memories, Labels
  <2> QED
    BY <1>1, <1>3, <2>1, <2>2 DEF TypeOK
<1>8. BlockGoes(b, t)
  BY <1>1, <1>2, <1>3, <1>4, Zenon DEF BlockGoes
<1>9. BlockOk(b)'
  BY <1>1, <1>2, <1>3, <1>4, Zenon DEF BlockOk
<1>10. OwnOk(t)'
  <2>0. blk'[t] = b
    BY <1>0, <1>3
  <2>1. PackOk(t)'
    BY <1>1, <1>2, <1>3, <1>4, <2>0, Zenon DEF PackOk
  <2>2. CallOk(t)'
    BY <1>4, Zenon DEF CallOk
  <2>3. \A c \in Blocks : Holding(t, c)' => c = b
    BY <1>4, <2>0 DEF Holding
  <2> QED
    BY <1>4, <2>1, <2>2, <2>3, Zenon DEF OwnOk
<1>11. Owed(t)' = Owed(t)
  BY <1>1, <1>4 DEF Owed
<1>12. OneCompressor'
  BY <1>1, <1>3, CompressorStays, Zenon
<1> QED
  BY <1>1, <1>2, <1>3, <1>5, <1>6, <1>7, <1>8, <1>9, <1>10, <1>11, <1>12, TouchStep

\* The packed memory is published, with all that was in the other one.
LEMMA PublishPackedOk ==
  ASSUME IInv, NEW t \in Procs, PublishPacked(t) PROVE KeepsInv
<1>0. PICK b : b = blk[t]
  OBVIOUS
<1>1. TypeOK /\ OneCompressor /\ CallOk(t) /\ PackOk(t) /\ pc[t] = "compressed"
  BY DEF IInv, PublishPacked
<1>2. /\ b \in Blocks /\ BlockOk(b) /\ mtx[b] = t
      /\ state[b] = "Storing" /\ data[b] = "raw" /\ stored[b] = K /\ "packed" \in mapped[b]
      /\ traces[b]["packed"] = traces[b]["raw"]
  BY <1>0, <1>1, Zenon DEF IInv, TypeOK, Locks, Holding, PackOk
<1>3. /\ readonly' = [readonly EXCEPT ![b] = @ \cup {"packed"}]
      /\ data' = [data EXCEPT ![b] = "packed"]
      /\ pc' = [pc EXCEPT ![t] = "unmap_raw"]
      /\ UNCHANGED <<total_frames, stored, state, mtx, mapped, traces, start, count, ptr, pack,
                     blk, thread, issued, loans, lost>>
  BY <1>0, Zenon DEF PublishPacked, Goto, compress, ghosts, locals
<1>4. /\ readonly'[b] = readonly[b] \cup {"packed"} /\ data'[b] = "packed"
      /\ \A c \in Blocks : c # b => readonly'[c] = readonly[c] /\ data'[c] = data[c]
      /\ pc'[t] = "unmap_raw"
      /\ \A u \in Procs : u # t => pc'[u] = pc[u]
  BY <1>1, <1>2, <1>3, Zenon DEF TypeOK
<1>5. LocalsGo(t)
  BY <1>3, <1>4, Zenon DEF LocalsGo
<1>6. OnlyBlock(b)
  BY <1>3, <1>4 DEF OnlyBlock, BlockStays
<1>7. TypeOK'
  <2>1. /\ readonly' \in [Blocks -> SUBSET Memories] /\ data' \in [Blocks -> Memories \cup {None}]
        /\ pc' \in [Procs -> Labels]
    BY <1>1, <1>2, <1>3, Zenon DEF TypeOK, Memories, Labels
  <2> QED
    BY <1>1, <1>3, <2>1 DEF TypeOK
<1>8. BlockGoes(b, t)
  BY <1>2, <1>3, <1>4, SizesAssumption DEF BlockGoes, Memories
<1>9. BlockOk(b)'
  <2>1. Publishing(b, "unmap_raw")'
    BY <1>0, <1>2, <1>3, <1>4, Zenon DEF Publishing
  <2> QED
    BY <1>2, <1>3, <1>4, <2>1, Zenon DEF BlockOk
<1>10. OwnOk(t)'
  BY <1>0, <1>1, <1>2, <1>3, <1>4, Zenon DEF OwnOk, PackOk, CallOk, Holding
<1>11. Owed(t)' = Owed(t)
  BY <1>1, <1>4 DEF Owed
<1>12. OneCompressor'
  BY <1>1, <1>3, CompressorStays, Zenon
<1> QED
  BY <1>1, <1>2, <1>3, <1>5, <1>6, <1>7, <1>8, <1>9, <1>10, <1>11, <1>12, TouchStep, Zenon

\* Pack gives up: the block keeps its memory, for good.
LEMMA UndoPackOk ==
  ASSUME IInv, NEW t \in Procs, UndoPack(t) PROVE KeepsInv
<1>0. PICK b : b = blk[t]
  OBVIOUS
<1>1. /\ TypeOK /\ OneCompressor /\ CallOk(t) /\ PackOk(t) /\ pc[t] = "compressed"
      /\ NextBlock(t, "pack", "idle")
  BY DEF IInv, UndoPack
<1>2. /\ b \in Blocks /\ BlockOk(b) /\ mtx[b] = t
      /\ state[b] = "Storing" /\ data[b] = "raw" /\ stored[b] = K
  BY <1>0, <1>1, Zenon DEF IInv, TypeOK, Locks, Holding, PackOk
<1>3. /\ readonly' = [readonly EXCEPT ![b] = @ \cup {"raw"}]
      /\ mapped' = [mapped EXCEPT ![b] = @ \ {"packed"}]
      /\ traces' = [traces EXCEPT ![b]["packed"] = {}]
      /\ state' = [state EXCEPT ![b] = "Unpacked"]
      /\ mtx' = [mtx EXCEPT ![b] = None]
      /\ UNCHANGED <<total_frames, stored, data, start, count, ptr, pack, thread, issued, loans,
                     lost>>
  BY <1>0, <1>2 DEF UndoPack, compress, ghosts
<1>4. /\ blk' \in [Procs -> Blocks]
      /\ \A u \in Procs : u # t => blk'[u] = blk[u] /\ pc'[u] = pc[u]
      /\ pc' = [pc EXCEPT ![t] = IF blk[t] + 1 = kBlockCount THEN "idle" ELSE "pack"]
      /\ \/ blk[t] + 1 = kBlockCount /\ blk'[t] = 0 /\ pc'[t] = "idle"
         \/ blk[t] + 1 # kBlockCount /\ blk'[t] = blk[t] + 1 /\ pc'[t] = "pack"
  BY <1>1, NextBlockIs
<1>5. /\ readonly'[b] = readonly[b] \cup {"raw"} /\ mapped'[b] = mapped[b] \ {"packed"}
      /\ traces'[b]["raw"] = traces[b]["raw"] /\ state'[b] = "Unpacked" /\ mtx'[b] = None
      /\ \A c \in Blocks : c # b =>
           /\ mtx'[c] = mtx[c] /\ state'[c] = state[c] /\ mapped'[c] = mapped[c]
           /\ traces'[c] = traces[c] /\ readonly'[c] = readonly[c]
  <2>1. traces'[b]["raw"] = traces[b]["raw"] /\ \A c \in Blocks : c # b => traces'[c] = traces[c]
    BY <1>1, <1>2, <1>3, Zenon DEF TypeOK, Memories
  <2> QED
    BY <1>1, <1>2, <1>3, <2>1, Zenon DEF TypeOK
<1>6. LocalsGo(t)
  BY <1>3, <1>4 DEF LocalsGo
<1>7. OnlyBlock(b)
  BY <1>3, <1>5 DEF OnlyBlock, BlockStays
<1>8. TypeOK'
  <2>1. traces' \in [Blocks -> [Memories -> SUBSET Nat]]
    BY <1>1, <1>2, <1>3, Zenon DEF TypeOK, Memories
  <2>2. /\ mapped' \in [Blocks -> SUBSET Memories] /\ readonly' \in [Blocks -> SUBSET Memories]
        /\ mtx' \in [Blocks -> Procs \cup {None}]
        /\ state' \in [Blocks -> {"Storing", "Packed", "Unpacked"}]
    BY <1>1, <1>2, <1>3, Zenon DEF TypeOK, Memories
  <2>3. pc' \in [Procs -> Labels]
    BY <1>1, <1>4 DEF TypeOK, Labels
  <2> QED
    BY <1>1, <1>3, <1>4, <2>1, <2>2, <2>3, Zenon DEF TypeOK
<1>9. BlockGoes(b, t)
  BY <1>2, <1>3, <1>5 DEF BlockGoes
<1>10. BlockOk(b)'
  BY <1>2, <1>3, <1>5 DEF BlockOk
<1>11. OwnOk(t)'
  BY <1>4, QuietOwn
<1>12. Owed(t)' = Owed(t)
  BY <1>1, <1>4 DEF Owed
<1>13. OneCompressor'
  BY <1>1, <1>3, <1>4, CompressorStays, Zenon
<1> QED
  BY <1>1, <1>2, <1>3, <1>6, <1>7, <1>8, <1>9, <1>10, <1>11, <1>12, <1>13, TouchStep

\* The memory the frames were written to goes; nobody writes to it or reads it.
LEMMA UnmapRawOk ==
  ASSUME IInv, NEW t \in Procs, UnmapRaw(t) PROVE KeepsInv
<1>0. PICK b : b = blk[t]
  OBVIOUS
<1>1. /\ TypeOK /\ OneCompressor /\ CallOk(t) /\ PackOk(t) /\ pc[t] = "unmap_raw"
      /\ NextBlock(t, "pack", "idle")
  BY DEF IInv, UnmapRaw
<1>2. /\ b \in Blocks /\ BlockOk(b) /\ mtx[b] = t
      /\ state[b] = "Storing" /\ data[b] = "packed"
  BY <1>0, <1>1, Zenon DEF IInv, TypeOK, Locks, Holding, PackOk
<1>3. /\ mapped' = [mapped EXCEPT ![b] = @ \ {"raw"}]
      /\ traces' = [traces EXCEPT ![b]["raw"] = {}]
      /\ state' = [state EXCEPT ![b] = "Packed"]
      /\ mtx' = [mtx EXCEPT ![b] = None]
      /\ UNCHANGED <<total_frames, stored, data, readonly, start, count, ptr, pack, thread,
                     issued, loans, lost>>
  BY <1>0 DEF UnmapRaw, compress, ghosts
<1>4. /\ blk' \in [Procs -> Blocks]
      /\ \A u \in Procs : u # t => blk'[u] = blk[u] /\ pc'[u] = pc[u]
      /\ pc' = [pc EXCEPT ![t] = IF blk[t] + 1 = kBlockCount THEN "idle" ELSE "pack"]
      /\ \/ blk[t] + 1 = kBlockCount /\ blk'[t] = 0 /\ pc'[t] = "idle"
         \/ blk[t] + 1 # kBlockCount /\ blk'[t] = blk[t] + 1 /\ pc'[t] = "pack"
  BY <1>1, NextBlockIs
<1>5. /\ mapped'[b] = mapped[b] \ {"raw"}
      /\ traces'[b]["packed"] = traces[b]["packed"] /\ state'[b] = "Packed" /\ mtx'[b] = None
      /\ \A c \in Blocks : c # b =>
           /\ mtx'[c] = mtx[c] /\ state'[c] = state[c] /\ mapped'[c] = mapped[c]
           /\ traces'[c] = traces[c]
  <2>1. /\ traces'[b]["packed"] = traces[b]["packed"]
        /\ \A c \in Blocks : c # b => traces'[c] = traces[c]
    BY <1>1, <1>2, <1>3, Zenon DEF TypeOK, Memories
  <2> QED
    BY <1>1, <1>2, <1>3, <2>1, Zenon DEF TypeOK
<1>6. LocalsGo(t)
  BY <1>3, <1>4 DEF LocalsGo
<1>7. OnlyBlock(b)
  BY <1>3, <1>5 DEF OnlyBlock, BlockStays
<1>8. TypeOK'
  <2>1. traces' \in [Blocks -> [Memories -> SUBSET Nat]]
    BY <1>1, <1>2, <1>3 DEF TypeOK, Memories
  <2>2. /\ mapped' \in [Blocks -> SUBSET Memories] /\ mtx' \in [Blocks -> Procs \cup {None}]
        /\ state' \in [Blocks -> {"Storing", "Packed", "Unpacked"}]
    BY <1>1, <1>2, <1>3, Zenon DEF TypeOK
  <2>3. pc' \in [Procs -> Labels]
    BY <1>1, <1>4 DEF TypeOK, Labels
  <2> QED
    BY <1>1, <1>3, <1>4, <2>1, <2>2, <2>3, Zenon DEF TypeOK
<1>9. BlockGoes(b, t)
  <2>1. stored[b] = K
    BY <1>2, Zenon DEF BlockOk
  <2> QED
    BY <1>2, <1>3, <1>5, <2>1 DEF BlockGoes
<1>10. BlockOk(b)'
  BY <1>2, <1>3, <1>5 DEF BlockOk
<1>11. OwnOk(t)'
  BY <1>4, QuietOwn
<1>12. Owed(t)' = Owed(t)
  BY <1>1, <1>4 DEF Owed
<1>13. OneCompressor'
  BY <1>1, <1>3, <1>4, CompressorStays, Zenon
<1> QED
  BY <1>0, <1>1, <1>2, <1>3, <1>6, <1>7, <1>8, <1>9, <1>10, <1>11, <1>12, <1>13, TouchStep

-----------------------------------------------------------------------------
(* A fork *)

\* LockAll takes the next lock.
LEMMA LockAllOk ==
  ASSUME IInv, NEW t \in Procs, LockAll(t) PROVE KeepsInv
<1>0. PICK b : b = blk[t]
  OBVIOUS
<1>1. /\ TypeOK /\ OneCompressor /\ pc[t] = "lock_all" /\ mtx[b] = None
      /\ NextBlock(t, "lock_all", "fork")
  BY <1>0, Zenon DEF IInv, LockAll
<1>2. b \in Blocks /\ BlockOk(b)
  BY <1>0, <1>1, Zenon DEF IInv, TypeOK
<1>3. /\ mtx' = [mtx EXCEPT ![b] = t]
      /\ UNCHANGED <<total_frames, stored, data, state, mapped, readonly, traces, start, count,
                     ptr, pack, thread, issued, loans, lost>>
  BY <1>0, Zenon DEF LockAll, compress, ghosts
<1>4. /\ blk' \in [Procs -> Blocks]
      /\ \A u \in Procs : u # t => blk'[u] = blk[u] /\ pc'[u] = pc[u]
      /\ pc' = [pc EXCEPT ![t] = IF blk[t] + 1 = kBlockCount THEN "fork" ELSE "lock_all"]
      /\ \/ blk[t] + 1 = kBlockCount /\ blk'[t] = 0 /\ pc'[t] = "fork"
         \/ blk[t] + 1 # kBlockCount /\ blk'[t] = blk[t] + 1 /\ pc'[t] = "lock_all"
  BY <1>1, NextBlockIs
<1>5. mtx'[b] = t /\ \A c \in Blocks : c # b => mtx'[c] = mtx[c]
  BY <1>1, <1>2, <1>3 DEF TypeOK
<1>6. LocalsGo(t)
  BY <1>3, <1>4, Zenon DEF LocalsGo
<1>7. OnlyBlock(b)
  BY <1>3, <1>5 DEF OnlyBlock, BlockStays
<1>8. TypeOK'
  <2>1. mtx' \in [Blocks -> Procs \cup {None}]
    BY <1>1, <1>2, <1>3 DEF TypeOK
  <2>2. pc' \in [Procs -> Labels]
    BY <1>1, <1>4 DEF TypeOK, Labels
  <2> QED
    BY <1>1, <1>3, <1>4, <2>1, <2>2, Zenon DEF TypeOK
<1>9. BlockGoes(b, t)
  BY <1>1, <1>2, <1>3, <1>5, Zenon DEF BlockGoes
<1>10. BlockOk(b)'
  <2>1. ~Publishing(b, "unmap_raw") /\ ~Publishing(b, "unmap_packed")
    <3>1. None \notin Procs
      BY SizesAssumption DEF Procs
    <3> QED
      BY <1>1, <3>1 DEF Publishing
  <2> QED
    BY <1>2, <1>3, <2>1, Zenon DEF BlockOk
<1>11. OwnOk(t)'
  <2>1. ASSUME NEW c \in Blocks, Holding(t, c)'
        PROVE  mtx'[c] = t
    <3>1. c < blk[t] => mtx[c] = t
      BY <1>1 DEF IInv, Locks, Holding
    <3>2. c = b \/ c < blk[t]
      <4>1. kBlockCount \in Nat /\ c \in Nat /\ c < kBlockCount /\ blk[t] \in Nat
        BY <1>0, <1>2, SizesAssumption DEF Blocks
      <4>2. pc'[t] = "lock_all" => c < blk'[t]
        BY <2>1 DEF Holding
      <4> QED
        BY <1>0, <1>4, <4>1, <4>2
    <3> QED
      BY <1>5, <3>1, <3>2
  <2>2. PackOk(t)' /\ CallOk(t)'
    BY <1>4, Zenon DEF PackOk, CallOk
  <2> QED
    BY <1>4, <2>1, <2>2, Zenon DEF OwnOk
<1>12. Owed(t)' = Owed(t)
  BY <1>1, <1>4 DEF Owed
<1>13. OneCompressor'
  BY <1>1, <1>3, <1>4, CompressorStays, Zenon
<1> QED
  BY <1>1, <1>2, <1>3, <1>6, <1>7, <1>8, <1>9, <1>10, <1>11, <1>12, <1>13, TouchStep, Zenon

\* UnlockAll gives the next lock back.
LEMMA UnlockAllOk ==
  ASSUME IInv, NEW t \in Procs, UnlockAll(t) PROVE KeepsInv
<1>0. PICK b : b = blk[t]
  OBVIOUS
<1>1. /\ TypeOK /\ OneCompressor /\ pc[t] = "unlock_all"
      /\ NextBlock(t, "unlock_all", "unlock")
  BY <1>0, Zenon DEF IInv, UnlockAll
<1>2. b \in Blocks /\ BlockOk(b) /\ mtx[b] = t
  <2>1. b \in Blocks /\ BlockOk(b)
    BY <1>0, <1>1, Zenon DEF IInv, TypeOK
  <2>2. b >= blk[t]
    BY <1>0, <2>1 DEF Blocks
  <2>3. Holding(t, b)
    BY <1>1, <2>2, Zenon DEF Holding
  <2> QED
    BY <2>1, <2>3 DEF IInv, Locks
<1>3. /\ mtx' = [mtx EXCEPT ![b] = None]
      /\ UNCHANGED <<total_frames, stored, data, state, mapped, readonly, traces, start, count,
                     ptr, pack, thread, issued, loans, lost>>
  BY <1>0 DEF UnlockAll, compress, ghosts
<1>4. /\ blk' \in [Procs -> Blocks]
      /\ \A u \in Procs : u # t => blk'[u] = blk[u] /\ pc'[u] = pc[u]
      /\ pc' = [pc EXCEPT ![t] = IF blk[t] + 1 = kBlockCount THEN "unlock" ELSE "unlock_all"]
      /\ \/ blk[t] + 1 = kBlockCount /\ blk'[t] = 0 /\ pc'[t] = "unlock"
         \/ blk[t] + 1 # kBlockCount /\ blk'[t] = blk[t] + 1 /\ pc'[t] = "unlock_all"
  BY <1>1, NextBlockIs
<1>5. mtx'[b] = None /\ \A c \in Blocks : c # b => mtx'[c] = mtx[c]
  BY <1>1, <1>2, <1>3 DEF TypeOK
<1>6. LocalsGo(t)
  BY <1>3, <1>4 DEF LocalsGo
<1>7. OnlyBlock(b)
  BY <1>3, <1>5, Zenon DEF OnlyBlock, BlockStays
<1>8. TypeOK'
  <2>1. mtx' \in [Blocks -> Procs \cup {None}]
    BY <1>1, <1>2, <1>3 DEF TypeOK
  <2>2. pc' \in [Procs -> Labels]
    BY <1>1, <1>4 DEF TypeOK, Labels
  <2> QED
    BY <1>1, <1>3, <1>4, <2>1, <2>2, Zenon DEF TypeOK
<1>9. BlockGoes(b, t)
  BY <1>1, <1>2, <1>3, <1>5, Zenon DEF BlockGoes
<1>10. BlockOk(b)'
  <2>1. ~Publishing(b, "unmap_raw") /\ ~Publishing(b, "unmap_packed")
    BY <1>1, <1>2, Zenon DEF Publishing
  <2> QED
    BY <1>2, <1>3, <2>1, Zenon DEF BlockOk
<1>11. OwnOk(t)'
  <2>1. ASSUME NEW c \in Blocks, Holding(t, c)'
        PROVE  mtx'[c] = t
    <3>1. c >= blk[t] => mtx[c] = t
      BY <1>1, Zenon DEF IInv, Locks, Holding
    <3>2. c # b /\ c >= blk[t]
      <4>1. kBlockCount \in Nat /\ c \in Nat /\ c < kBlockCount /\ blk[t] \in Nat
        <5>1. kBlockCount \in Nat
          BY SizesAssumption
        <5>2. c \in 0 .. kBlockCount - 1 /\ b \in 0 .. kBlockCount - 1
          BY <1>2 DEF Blocks
        <5> QED
          BY <1>0, <5>1, <5>2
      <4>2. pc'[t] = "unlock_all" /\ c >= blk'[t]
        BY <1>4, <2>1 DEF Holding
      <4> QED
        BY <1>0, <1>4, <4>1, <4>2
    <3> QED
      BY <1>5, <3>1, <3>2
  <2>2. PackOk(t)' /\ CallOk(t)'
    BY <1>4, Zenon DEF PackOk, CallOk
  <2> QED
    BY <1>4, <2>1, <2>2, Zenon DEF OwnOk
<1>12. Owed(t)' = Owed(t)
  BY <1>1, <1>4 DEF Owed
<1>13. OneCompressor'
  BY <1>1, <1>3, <1>4, CompressorStays, Zenon
<1> QED
  BY <1>1, <1>2, <1>3, <1>6, <1>7, <1>8, <1>9, <1>10, <1>11, <1>12, <1>13, TouchStep, Zenon

\* In the child no block is being packed or unpacked: the locks are all taken.
LEMMA ForkInChildOk ==
  ASSUME IInv, NEW t \in Threads, ForkInChild(t) PROVE KeepsInv
<1>1. TypeOK /\ FramesAddUp /\ pc[t] = "fork" /\ t \in Procs /\ t # Compressor
  BY SizesAssumption, Zenon DEF IInv, ForkInChild, Procs
<1>2. /\ pc' = [u \in Procs |-> IF u = t THEN "unlock_all" ELSE "gone"]
      /\ start' = [u \in Procs |-> 0] /\ count' = [u \in Procs |-> 0]
      /\ ptr' = [u \in Procs |-> None] /\ pack' = [u \in Procs |-> 0]
      /\ blk' = [u \in Procs |-> 0]
      /\ lost' = lost \cup UNION {Owed(u) : u \in Procs \ {t}}
      /\ UNCHANGED <<total_frames, stored, data, state, mtx, mapped, readonly, traces, issued,
                     loans>>
  BY DEF ForkInChild, blockvars
<1>3. pc'[t] = "unlock_all" /\ \A u \in Procs : blk'[u] = 0 /\ (u # t => pc'[u] = "gone")
  BY <1>1, <1>2
<1>4. \A b \in Blocks : mtx[b] = t
  BY <1>1, Zenon DEF IInv, Locks, Holding
<1>5. TypeOK'
  <2>0. PICK given : given = 0 .. total_frames - 1
    OBVIOUS
  <2>1. lost' \subseteq given
    <3>1. lost \subseteq given
      BY <1>1, <2>0 DEF TypeOK
    <3>2. \A u \in Procs : Owed(u) \subseteq given
      BY <1>1, <2>0 DEF FramesAddUp
    <3> QED
      BY <1>2, <3>1, <3>2, Zenon
  <2>2. blk' \in [Procs -> Blocks]
    <3>1. 0 \in Blocks
      BY SizesAssumption DEF Blocks
    <3> QED
      BY <1>2, <3>1
  <2>3. pc' \in [Procs -> Labels]
    BY <1>2 DEF Labels
  <2>4. /\ start' \in [Procs -> Nat] /\ count' \in [Procs -> Nat] /\ pack' \in [Procs -> Nat]
        /\ ptr' \in [Procs -> Memories \cup {None}]
    BY <1>2
  <2> QED
    BY <1>1, <1>2, <2>0, <2>1, <2>2, <2>3, <2>4, Zenon DEF TypeOK
<1>6. OneCompressor'
  BY <1>1, <1>3 DEF OneCompressor, Procs
<1>7. AddsUp
  <2>1. Owed(t) = {}
    BY <1>1, OwesNothing
  <2>2. \A u \in Procs : Owed(u)' = {}
    BY <1>3, OwesNothingAfter
  <2> QED
    BY <1>1, <1>2, <2>1, <2>2, AddUpLost
<1>8. ASSUME NEW b \in Blocks PROVE BlockOk(b)'
  <2>1. BlockOk(b) /\ ~Publishing(b, "unmap_raw") /\ ~Publishing(b, "unmap_packed")
    BY <1>1, <1>4, Zenon DEF IInv, Publishing
  <2> QED
    BY <1>2, <2>1, Zenon DEF BlockOk
<1>9. ASSUME NEW u \in Procs PROVE OwnOk(u)'
  <2>1. CASE u # t
    BY <1>3, <2>1, QuietOwn, Zenon
  <2>2. CASE u = t
    <3>1. PackOk(t)' /\ CallOk(t)'
      BY <1>3, Zenon DEF PackOk, CallOk
    <3>2. \A b \in Blocks : mtx'[b] = t
      BY <1>2, <1>4
    <3> QED
      BY <1>3, <2>2, <3>1, <3>2, Zenon DEF OwnOk
  <2> QED
    BY <2>1, <2>2
<1>10. \A s \in issued' : TraceOk(s)'
  BY <1>2, Zenon DEF IInv, TraceOk
<1>11. \A loan \in loans' : LoanOk(loan)'
  BY <1>2, Zenon DEF IInv, LoanOk
<1> QED
  BY <1>5, <1>6, <1>7, <1>8, <1>9, <1>10, <1>11 DEF KeepsInv

\* A step of a thread keeps the invariant.
LEMMA ThreadStepOk ==
  ASSUME IInv, NEW t \in Threads, Step(t) PROVE KeepsInv
<1>0. t \in Procs
  BY DEF Procs
<1>1. CASE StoreStep(t)
  BY <1>0, <1>1, AllocFitsOk, AllocCrossesOk, StoredTailOk, StoredHeadOk, GetOrCreateOk, CreateOk,
     WriteOk, StoreReturnsOk, NewWorkNotifyOk DEF StoreStep
<1>2. CASE LoadStep(t)
  BY <1>0, <1>2, GetUnpackedOk, UnpackOk, UnmapPackedOk DEF LoadStep
<1>3. CASE PackStep(t)
  BY <1>0, <1>3, PackSkipsOk, CompressOk, UndoPackOk, PublishPackedOk, UnmapRawOk DEF PackStep
<1>4. CASE ForkStep(t)
  BY <1>0, <1>4, JoinOk, LockAllOk, ForkInParentOk, ForkInChildOk, UnlockAllOk, LabelStepsOk
     DEF ForkStep
<1>5. CASE StopPost(t) \/ StopJoin(t)
  BY <1>0, <1>5, LabelStepsOk
<1> QED
  BY <1>1, <1>2, <1>3, <1>4, <1>5 DEF Step

-----------------------------------------------------------------------------
(* Cardinalities *)

Sets == INSTANCE FiniteSetTheorems

\* The library counts as FiniteSets does.
LEMMA SameSize ==
  ASSUME NEW S
  PROVE  Cardinality(S) = Sets!Cardinality(S) /\ IsFiniteSet(S) = Sets!IsFiniteSet(S)
<1>1. Cardinality(S) = Sets!Cardinality(S)
  BY DEF Cardinality, Sets!Cardinality
<1>2. IsFiniteSet(S) = Sets!IsFiniteSet(S)
  BY DEF IsFiniteSet, Sets!IsFiniteSet
<1> QED
  BY <1>1, <1>2

\* The empty set has no elements.
LEMMA EmptySize == Cardinality({}) = 0
BY SameSize, Sets!FS_EmptySet

\* A subset of a finite set, and one as large as the whole set.
LEMMA SubsetSize ==
  ASSUME NEW S, IsFiniteSet(S), NEW T, T \subseteq S
  PROVE  IsFiniteSet(T) /\ (Cardinality(T) = Cardinality(S) => T = S)
<1>1. Sets!IsFiniteSet(S) /\ T \in SUBSET S
  BY SameSize
<1>2. /\ Sets!IsFiniteSet(T)
      /\ Sets!Cardinality(S) = Sets!Cardinality(T) => S = T
  BY <1>1, Sets!FS_Subset
<1> QED
  BY <1>2, SameSize

\* The cardinality of a disjoint union.
LEMMA DisjointSum ==
  ASSUME NEW S, NEW T, IsFiniteSet(S), IsFiniteSet(T), S \cap T = {}
  PROVE  Cardinality(S \cup T) = Cardinality(S) + Cardinality(T)
<1>0. Sets!IsFiniteSet(S) /\ Sets!IsFiniteSet(T)
  BY SameSize
<1>1. Sets!Cardinality(S) \in Nat /\ Sets!Cardinality(T) \in Nat
  BY <1>0, Sets!FS_CardinalityType
<1>2. Sets!Cardinality(S \cup T)
        = Sets!Cardinality(S) + Sets!Cardinality(T) - Sets!Cardinality(S \cap T)
  BY <1>0, Sets!FS_Union
<1>3. Sets!Cardinality(S \cap T) = 0
  BY Sets!FS_EmptySet
<1>4. Sets!Cardinality(S \cup T) = Sets!Cardinality(S) + Sets!Cardinality(T)
  BY <1>1, <1>2, <1>3
<1> QED
  BY <1>4, SameSize

\* The frames from i to j.
LEMMA RangeSize ==
  ASSUME NEW i \in Nat, NEW j \in Nat, i <= j
  PROVE  IsFiniteSet(i .. j) /\ Cardinality(i .. j) = j - i + 1
<1>1. i \in Int /\ j \in Int /\ ~(i > j)
  OBVIOUS
<1>2. /\ Sets!IsFiniteSet(i .. j)
      /\ Sets!Cardinality(i .. j) = IF i > j THEN 0 ELSE j - i + 1
  BY <1>1, Sets!FS_Interval
<1>3. Sets!Cardinality(i .. j) = j - i + 1
  BY <1>1, <1>2
<1> QED
  BY <1>2, <1>3, SameSize

\* A set of frames of a block has K elements only if it has them all.
LEMMA FullBlock ==
  ASSUME NEW b \in Nat, NEW S, S \subseteq Nat, \A g \in S : GetBlockIdx(g) = b,
         Cardinality(S) = K, NEW f \in Nat, GetBlockIdx(f) = b
  PROVE  f \in S
<1>0. K \in Nat /\ K > 0
  BY SizesAssumption DEF K
<1>1. PICK low \in Nat : low = K * b
  BY <1>0
<1>2. PICK high \in Nat : high = low + K - 1 /\ low <= high
  BY <1>0
<1>3. IsFiniteSet(low .. high) /\ Cardinality(low .. high) = K
  <2>1. high - low + 1 = K
    BY <1>0, <1>2
  <2> QED
    BY <1>2, <2>1, RangeSize
<1>4. ASSUME NEW g \in Nat, GetBlockIdx(g) = b PROVE g \in low .. high
  <2>1. K * b <= g /\ g < K * b + K
    BY <1>4, FramesOfBlock
  <2> QED
    BY <1>0, <1>1, <1>2, <2>1
<1>5. S \subseteq low .. high
  BY <1>4
<1>6. S = low .. high
  BY <1>3, <1>5, SubsetSize, Zenon
<1> QED
  BY <1>4, <1>6

\* The count of a block stays right.
LEMMA TallyCounts ==
  ASSUME TypeOK, NEW b \in Blocks, stored[b] = Cardinality(CountedIn(b)), Tally(b)
  PROVE  stored'[b] = Cardinality(CountedIn(b)')
<1>1. CASE stored'[b] = stored[b] /\ CountedIn(b)' = CountedIn(b)
  BY <1>1, Zenon
<1>2. ASSUME NEW i \in Nat, NEW j \in Nat, i <= j, CountedIn(b) \cap (i .. j) = {},
             CountedIn(b)' = CountedIn(b) \cup (i .. j),
             stored'[b] = stored[b] + (j - i + 1)
      PROVE  stored'[b] = Cardinality(CountedIn(b)')
  <2>1. IsFiniteSet(0 .. total_frames - 1)
    <3>1. 0 \in Int /\ total_frames - 1 \in Int
      BY DEF TypeOK
    <3>2. Sets!IsFiniteSet(0 .. total_frames - 1)
      BY <3>1, Sets!FS_Interval
    <3> QED
      BY <3>2, SameSize
  <2>2. CountedIn(b) \subseteq 0 .. total_frames - 1
    BY DEF CountedIn
  <2>3. IsFiniteSet(CountedIn(b))
    BY <2>1, <2>2, SubsetSize, Zenon
  <2>4. IsFiniteSet(i .. j) /\ Cardinality(i .. j) = j - i + 1
    BY <1>2, RangeSize, Zenon
  <2>5. Cardinality(CountedIn(b) \cup (i .. j)) = Cardinality(CountedIn(b)) + Cardinality(i .. j)
    BY <1>2, <2>3, <2>4, DisjointSum, Zenon
  <2> QED
    BY <1>2, <2>4, <2>5
<1> QED
  BY <1>1, <1>2, Zenon DEF Tally

\* Where every frame is owed once, and counted, a full block is owed nothing.
LEMMA KeepsAll ==
  ASSUME IInv, KeepsInv
  PROVE  IInv'
<1>1. FramesAddUp'
  <2>1. ASSUME NEW b \in Blocks PROVE stored'[b] = Cardinality(CountedIn(b)')
    <3>1. TypeOK /\ stored[b] = Cardinality(CountedIn(b)) /\ Tally(b)
      BY DEF IInv, FramesAddUp, KeepsInv, AddsUp
    <3> QED
      BY <3>1, TallyCounts
  <2> QED
    BY <2>1 DEF KeepsInv, AddsUp, FramesAddUp
<1>2. Full'
  <2> SUFFICES ASSUME NEW b \in Blocks, NEW t \in Procs, stored'[b] = K, NEW f \in Owed(t)',
                      GetBlockIdx(f) = b
               PROVE  FALSE
    BY DEF Full, K, GetBlockIdx
  <2>1. b \in Nat /\ total_frames' \in Nat
    <3>1. b \in 0 .. kBlockCount - 1 /\ kBlockCount \in Nat
      BY SizesAssumption DEF Blocks
    <3>2. total_frames' \in Nat
      BY DEF KeepsInv, TypeOK
    <3> QED
      BY <3>1, <3>2
  <2>2. PICK S : S = CountedIn(b)'
    OBVIOUS
  <2>3. S \subseteq Nat /\ \A g \in S : GetBlockIdx(g) = b
    <3>1. S \subseteq 0 .. total_frames' - 1 /\ \A g \in S : GetBlockIdx(g) = b
      BY <2>2 DEF CountedIn
    <3>2. ASSUME NEW g \in S PROVE g \in Nat
      <4>1. g \in 0 .. total_frames' - 1
        BY <3>1
      <4> QED
        BY <2>1, <4>1
    <3> QED
      BY <3>1, <3>2
  <2>4. Cardinality(S) = K
    BY <1>1, <2>2 DEF FramesAddUp
  <2>5. f \in Nat
    <3>1. f \in 0 .. total_frames' - 1
      BY <1>1 DEF FramesAddUp
    <3> QED
      BY <2>1, <3>1
  <2>6. f \in S
    BY <2>1, <2>3, <2>4, <2>5, FullBlock, Zenon
  <2> QED
    BY <2>2, <2>6 DEF CountedIn
<1>3. Locks' /\ Loops' /\ \A t \in Procs : PackOk(t)' /\ CallOk(t)'
  BY DEF KeepsInv, OwnOk, Locks, Loops
<1> QED
  BY <1>1, <1>2, <1>3 DEF IInv, KeepsInv

-----------------------------------------------------------------------------
(* The invariant *)

\* Nothing is stored.
LEMMA InitIInv == Init => IInv
<1> SUFFICES ASSUME Init PROVE IInv
  OBVIOUS
<1>1. TypeOK
  <2>1. 0 \in Blocks
    BY SizesAssumption DEF Blocks
  <2> QED
    BY <2>1 DEF Init, TypeOK, Labels
<1>2. \A t \in Procs : pc[t] \in {"idle", "gone"} /\ blk[t] = 0
  BY DEF Init
<1>3. \A t \in Procs : OwnOk(t)
  BY <1>2, Zenon DEF OwnOk, PackOk, CallOk, Holding
<1>4. FramesAddUp
  <2>1. \A t \in Procs : Owed(t) = {}
    BY <1>2, OwesNothing
  <2>2. ASSUME NEW b \in Blocks PROVE stored[b] = Cardinality(CountedIn(b))
    <3>1. CountedIn(b) = {}
      BY DEF CountedIn, Init
    <3>2. stored[b] = 0
      BY DEF Init
    <3> QED
      BY <3>1, <3>2, EmptySize
  <2> QED
    BY <2>1, <2>2 DEF FramesAddUp
<1>8. Full
  BY <1>2, OwesNothing, Zenon DEF Full
<1>5. \A b \in Blocks : BlockOk(b)
  <2>1. None \notin {"packed", "unpacked"}
    BY SizesAssumption DEF Memories
  <2> QED
    BY <2>1 DEF BlockOk, Init
<1>6. OneCompressor
  BY DEF OneCompressor, Init, Procs
<1>7. issued = {} /\ loans = {}
  BY DEF Init
<1> QED
  BY <1>1, <1>3, <1>4, <1>5, <1>6, <1>7, <1>8, OwnAll

\* A step that changes nothing changes nothing the invariant speaks of.
LEMMA StutterOk ==
  ASSUME IInv, UNCHANGED vars PROVE IInv'
<1>1. UNCHANGED <<total_frames, stored, data, state, mtx, mapped, readonly, traces, pc, start,
                  count, ptr, pack, blk, thread, issued, loans, lost>>
  BY DEF vars, blockvars, locals, compress, ghosts
<1>2. TypeOK' /\ OneCompressor'
  BY <1>1 DEF IInv, TypeOK, OneCompressor
<1>3. FramesAddUp' /\ Full'
  BY <1>1 DEF IInv, FramesAddUp, Full, CountedIn, Owed, InFirst
<1>4. Locks' /\ Loops'
  BY <1>1, Zenon DEF IInv, Locks, Loops, Holding, Block
<1>5. \A b \in Blocks : BlockOk(b)'
  BY <1>1, Zenon DEF IInv, BlockOk, Publishing, Block
<1>6. \A t \in Procs : PackOk(t)' /\ CallOk(t)'
  BY <1>1, Zenon DEF IInv, PackOk, CallOk, Block, LastBlock
<1>7. (\A s \in issued : TraceOk(s))' /\ (\A loan \in loans : LoanOk(loan))'
  BY <1>1, Zenon DEF IInv, TraceOk, LoanOk
<1> QED
  BY <1>2, <1>3, <1>4, <1>5, <1>6, <1>7 DEF IInv

\* Every step keeps the invariant.
LEMMA StepIInv == IInv /\ [Next]_vars => IInv'
<1> SUFFICES ASSUME IInv, [Next]_vars PROVE IInv'
  OBVIOUS
<1>1. Threads \subseteq Procs /\ Compressor \in Procs
  BY DEF Procs
<1>2. ASSUME NEW t \in Threads, NEW n \in Counts, Store(t, n) PROVE IInv'
  BY <1>1, <1>2, StoreStepOk, KeepsAll
<1>3. ASSUME NEW t \in Threads, NEW s \in issued, Load(t, s) PROVE IInv'
  BY <1>1, <1>3, LoadStepOk, KeepsAll
<1>4. ASSUME NEW t \in Threads, LockAndStop(t) PROVE IInv'
  BY <1>1, <1>4, LockAndStopOk, KeepsAll
<1>5. ASSUME NEW t \in Threads, Stop(t) PROVE IInv'
  BY <1>1, <1>5, LabelStepsOk, KeepsAll
<1>6. ASSUME NEW t \in Threads, Step(t) PROVE IInv'
  BY <1>6, ThreadStepOk, KeepsAll
<1>7. CASE Compressing
  BY <1>1, <1>7, LabelStepsOk, PackSkipsOk, CompressOk, UndoPackOk, PublishPackedOk, UnmapRawOk,
     KeepsAll      DEF Compressing, PackStep
<1>8. CASE UNCHANGED vars
  BY <1>8, StutterOk
<1> QED
  BY <1>2, <1>3, <1>4, <1>5, <1>6, <1>7, <1>8 DEF Next

\* The invariant holds in every reachable state, however many threads, blocks
\* and forks there are.
THEOREM StoreInvariant == Spec => []IInv
BY InitIInv, StepIInv, PTL DEF Spec

\* A trace that Store has returned is where data_ points.
LEMMA KeptByInv == IInv => IssuedIsKept
BY Zenon DEF IInv, IssuedIsKept, TraceOk, BlockOk

\* Writers write where readers read, and what is lent stays.
LEMMA ThereByInv == IInv => UsedIsThere
<1> SUFFICES ASSUME IInv PROVE UsedIsThere
  OBVIOUS
<1>1. ASSUME NEW t \in Threads, pc[t] \in {"get", "create"}
      PROVE  data[Block(t)] \in {None, "raw"}
  BY <1>1, WriterOwes DEF Procs
<1>2. ASSUME NEW t \in Threads, pc[t] \in {"write", "stored"}
      PROVE  /\ ptr[t] = "raw" /\ data[Block(t)] = "raw"
             /\ "raw" \in mapped[Block(t)] \ readonly[Block(t)]
  <2>1. t \in Procs
    BY DEF Procs
  <2>2. Block(t) \in Blocks /\ data[Block(t)] \in {None, "raw"} /\ "raw" \notin readonly[Block(t)]
    BY <1>2, <2>1, WriterOwes, Zenon
  <2>3. ptr[t] = "raw" /\ data[Block(t)] # None
    BY <1>2, <2>1, Zenon DEF IInv, CallOk
  <2>4. data[Block(t)] \in mapped[Block(t)]
    BY <2>2, <2>3, Zenon DEF IInv, BlockOk
  <2> QED
    BY <2>2, <2>3, <2>4
<1>3. ASSUME NEW loan \in loans
      PROVE  /\ loan[2] \in mapped[GetBlockIdx(loan[1])]
             /\ loan[1] \in traces[GetBlockIdx(loan[1])][loan[2]]
  <2>1. LoanOk(loan)
    BY DEF IInv
  <2>2. TraceOk(loan[1])
    BY <2>1, Zenon DEF IInv, LoanOk
  <2>3. BlockOk(GetBlockIdx(loan[1]))
    BY <2>2, Zenon DEF IInv, TraceOk
  <2> QED
    BY <2>1, <2>2, <2>3, Zenon DEF LoanOk, TraceOk, BlockOk
<1> QED
  BY <1>1, <1>2, <1>3, Zenon DEF UsedIsThere

\* An id that Store has returned finds its trace, in memory that is mapped,
\* through packing, unpacking and forks.
THEOREM IssuedAreKept == Spec => []IssuedIsKept
BY StoreInvariant, KeptByInv, PTL

\* A thread between Alloc and Stored writes to mapped memory that is not
\* protected and that readers look at, and a pointer from Load stays good.
THEOREM UsedMemoryIsThere == Spec => []UsedIsThere
BY StoreInvariant, ThereByInv, PTL

\* Every frame that Alloc gives out is counted once by Stored, owed by one
\* thread, or lost in a fork: stored_ of a block is what has been counted.
THEOREM FramesAreCountedOnce == Spec => []FramesAddUp
<1>1. IInv => FramesAddUp
  BY DEF IInv
<1> QED
  BY <1>1, StoreInvariant, PTL
=============================================================================
