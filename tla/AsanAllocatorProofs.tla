------------------------ MODULE AsanAllocatorProofs ------------------------
(***************************************************************************)
(* Proofs about module AsanAllocator, for any threads and any blocks: what *)
(* holds when the application frees only what it owns, and what holds      *)
(* whatever it frees.                                                      *)
(***************************************************************************)
EXTENDS AsanAllocator, TLAPS

Owner == Threads \cup {None}

-----------------------------------------------------------------------------
(* The inductive invariant *)

\* Which of its registers a thread uses at which label.
Control ==
  \A t \in Threads :
    /\ pc[t] \in {"idle", "malloc"} => new[t] = None
    /\ pc[t] \in {"unpoison", "publish", "set_magic", "check_old"} =>
         new[t] # None
    /\ pc[t] \in {"check_old", "free", "mark", "context", "put"} =>
         old[t] # None
    /\ pc[t] \notin {"malloc", "unpoison", "publish", "set_magic", "check_old",
                     "free", "mark", "context", "put"} => old[t] = None
    /\ rec[t] # None <=>
         pc[t] \in {"clear_magic", "invalidate", "poison", "deallocate"}
    /\ pc[t] \in {"invalidate", "poison", "deallocate"} => rec[t] \in Primary
    /\ arriving[t] = IF pc[t] = "put" THEN {old[t]} ELSE {}

\* The lookup finds nothing.
Unborn(b) == ~magic[b] /\ hdr[b]["start"] = "INVALID"

Waiting(b) == IF b \in Primary THEN "redzone" ELSE "zero"

\* The magic is there if it must be.
Marked(b) == magic[b] <=> place[b] = "later"

Live(b) == ChunkState(b) = "ALLOCATED" /\ Marked(b) /\ shadow[b] = "user"
Dead(b) == ChunkState(b) = "QUARANTINE" /\ Marked(b)

\* What the memory of block b looks like while it is with owner k of thread t.
LifeOf(k, t, b) ==
  /\ k = "free" => Unborn(b) /\ shadow[b] = Waiting(b)
  /\ k = "held" => Live(b)
  /\ k = "new" =>
       /\ pc[t] = "unpoison" => Unborn(b) /\ shadow[b] = Waiting(b)
       /\ pc[t] = "publish" => Unborn(b) /\ shadow[b] = "user"
       /\ pc[t] = "set_magic" =>
            ~magic[b] /\ ChunkState(b) = "ALLOCATED" /\ shadow[b] = "user"
       /\ pc[t] \notin {"unpoison", "publish", "set_magic"} => Live(b)
  /\ k = "old" =>
       /\ pc[t] \in {"mark", "context"} => Dead(b) /\ shadow[b] = "user"
       /\ pc[t] \notin {"mark", "context"} => Live(b)
  /\ k = "arriving" => Dead(b) /\ shadow[b] = "user" /\ freeTid[b] = t
  /\ k = "cached" => Dead(b) /\ shadow[b] = "freed" /\ freeTid[b] = t
  /\ k \in {"global", "leaving"} => Dead(b) /\ shadow[b] = "freed"
  /\ k = "rec" =>
       /\ pc[t] = "clear_magic" => Dead(b)
       /\ pc[t] = "invalidate" =>
            ~magic[b] /\ ChunkState(b) = "QUARANTINE"
       /\ pc[t] = "poison" => Unborn(b)
       /\ pc[t] = "deallocate" => Unborn(b) /\ shadow[b] = Waiting(b)

Life ==
  \A b \in Blocks, k \in Owners, t \in Owner : Owns(k, t, b) => LifeOf(k, t, b)

\* While the header lies later, the first byte of the block is no state.
StartByte ==
  \A b \in Blocks : place[b] = "later" => hdr[b]["start"] = "INVALID"

IInv == TypeOK /\ Control /\ EachBlockOnce /\ Life /\ StartByte

-----------------------------------------------------------------------------
(* Types and control *)

\* A byte of a header is overwritten.
LEMMA HeaderType ==
  ASSUME hdr \in [Blocks -> [Place -> State]], NEW b, NEW p, NEW s \in State
  PROVE  [hdr EXCEPT ![b][p] = s] \in [Blocks -> [Place -> State]]
BY Zenon DEF Place, State

\* Every step of a thread keeps the types and the use of the registers.
LEMMA ControlStep ==
  ASSUME AllocatorAssumption, TypeOK, Control, [Next]_vars
  PROVE  TypeOK' /\ Control'
<1>1. CASE UNCHANGED vars
  BY <1>1 DEF vars, mem, app, quarantine, TypeOK, Control
<1>2. ASSUME NEW t \in Threads, Malloc(t) \/ Free(t) \/ Drain(t)
      PROVE  TypeOK' /\ Control'
  <2>1. CASE MallocBegin(t)
    BY <1>2, <2>1, HeaderType, AllocatorAssumption
       DEF MallocBegin, Goto, mem, app, quarantine, TypeOK, Control, Labels
  <2>2. CASE MallocFails(t)
    BY <1>2, <2>2, HeaderType, AllocatorAssumption
       DEF MallocFails, Goto, mem, app, quarantine, TypeOK, Control, Labels
  <2>3. CASE Unpoison(t)
    BY <1>2, <2>3, HeaderType, AllocatorAssumption
       DEF Unpoison, Goto, mem, app, quarantine, PoisonRedzones, TypeOK,
           Control, Labels
  <2>4. CASE Publish(t)
    <3>1. hdr' = [hdr EXCEPT ![new[t]][place[new[t]]] = "ALLOCATED"]
      BY <2>4 DEF Publish, SetChunkState
    <3>2. hdr' \in [Blocks -> [Place -> State]]
      BY <3>1, HeaderType DEF TypeOK, State
    <3> QED
      BY <1>2, <2>4, <3>2, AllocatorAssumption
         DEF Publish, Goto, mem, app, quarantine, TypeOK, Control, Labels
  <2>5. CASE SetMagic(t)
    BY <1>2, <2>5, HeaderType, AllocatorAssumption
       DEF SetMagic, Goto, mem, app, quarantine, TypeOK, Control, Labels
  <2>6. CASE CheckOld(t)
    BY <1>2, <2>6, HeaderType, AllocatorAssumption
       DEF CheckOld, Goto, mem, app, quarantine, TypeOK, Control, Labels
  <2>7. CASE Return(t)
    BY <1>2, <2>7, HeaderType, AllocatorAssumption
       DEF Return, Goto, mem, app, quarantine, TypeOK, Control, Labels
  <2>8. CASE \E b \in Blocks : ReallocBegin(t, b)
    BY <1>2, <2>8, HeaderType, AllocatorAssumption
       DEF ReallocBegin, Goto, mem, app, quarantine, TypeOK, Control, Labels
  <2>9. CASE \E b \in Blocks, p \in Place, s \in State : AllocateBlock(t, b, p, s)
    BY <1>2, <2>9, HeaderType, AllocatorAssumption
       DEF AllocateBlock, Goto, mem, app, quarantine, OldBytes, TypeOK,
           Control, Labels
  <2>10. CASE FreeIgnored(t)
    BY <1>2, <2>10, HeaderType, AllocatorAssumption
       DEF FreeIgnored, Goto, mem, app, quarantine, TypeOK, Control, Labels
  <2>11. CASE SetQuarantineFlagIfAllocated(t)
    <3>1. hdr' = [hdr EXCEPT ![old[t]][place[old[t]]] = "QUARANTINE"]
      BY <2>11 DEF SetQuarantineFlagIfAllocated, SetChunkState
    <3>2. hdr' \in [Blocks -> [Place -> State]]
      BY <3>1, HeaderType DEF TypeOK, State
    <3> QED
      BY <1>2, <2>11, <3>2, AllocatorAssumption
         DEF SetQuarantineFlagIfAllocated, Goto, mem, app, quarantine, TypeOK,
             Control, Labels
  <2>12. CASE ReportInvalidFree(t)
    BY <1>2, <2>12, HeaderType, AllocatorAssumption
       DEF ReportInvalidFree, Goto, mem, app, quarantine, TypeOK, Control,
           Labels
  <2>13. CASE MarkContext(t)
    BY <1>2, <2>13, HeaderType, AllocatorAssumption
       DEF MarkContext, Goto, mem, app, quarantine, TypeOK, Control, Labels
  <2>14. CASE QuarantineChunk(t)
    <3>1. old[t] \in Blocks
      BY <1>2, <2>14 DEF QuarantineChunk, TypeOK, Control
    <3>2. TypeOK'
      BY <1>2, <2>14, <3>1
         DEF QuarantineChunk, Goto, app, TypeOK, Labels
    <3>3. Control'
      BY <1>2, <2>14, <3>1, Zenon
         DEF QuarantineChunk, Goto, app, TypeOK, Control, Labels
    <3> QED
      BY <3>2, <3>3
  <2>15. CASE PutQuarantine(t)
    <3>1. TypeOK'
      BY <1>2, <2>15
         DEF PutQuarantine, Q!Enqueue, Goto, app, TypeOK, Control, Labels
    <3>2. Control'
      BY <1>2, <2>15, Zenon
         DEF PutQuarantine, Q!Enqueue, Goto, TypeOK, Control, Labels
    <3> QED
      BY <3>1, <3>2
  <2>16. CASE PutPassThrough(t)
    BY <1>2, <2>16, HeaderType, AllocatorAssumption
       DEF PutPassThrough, Goto, mem, app, quarantine, Q!PassThrough, TypeOK,
           Control, Labels
  <2>17. CASE \E b \in Blocks : FreeBegin(t, b)
    BY <1>2, <2>17, HeaderType, AllocatorAssumption
       DEF FreeBegin, Goto, mem, app, quarantine, TypeOK, Control, Labels
  <2>18. CASE DrainBegin(t)
    BY <1>2, <2>18, HeaderType, AllocatorAssumption
       DEF DrainBegin, Goto, mem, app, quarantine, TypeOK, Control, Labels
  <2>19. CASE SkipDrain(t)
    BY <1>2, <2>19, HeaderType, AllocatorAssumption
       DEF SkipDrain, Goto, mem, app, quarantine, TypeOK, Control, Labels
  <2>20. CASE Transfer(t)
    BY <1>2, <2>20, HeaderType, AllocatorAssumption
       DEF Transfer, Goto, mem, app, quarantine, Q!Transfer, TypeOK, Control,
           Labels
  <2>21. CASE RecycleDone(t)
    BY <1>2, <2>21, HeaderType, AllocatorAssumption
       DEF RecycleDone, Goto, mem, app, quarantine, TypeOK, Control, Labels
  <2>22. CASE ClearMagic(t)
    BY <1>2, <2>22, HeaderType, AllocatorAssumption
       DEF ClearMagic, Goto, mem, app, quarantine, TypeOK, Control, Labels
  <2>23. CASE Invalidate(t)
    <3>1. hdr' = [hdr EXCEPT ![rec[t]][place[rec[t]]] = "INVALID"]
      BY <2>23 DEF Invalidate, SetChunkState
    <3>2. hdr' \in [Blocks -> [Place -> State]]
      BY <3>1, HeaderType DEF TypeOK, State
    <3> QED
      BY <1>2, <2>23, <3>2, AllocatorAssumption
         DEF Invalidate, Goto, mem, app, quarantine, TypeOK, Control, Labels
  <2>24. CASE PoisonRecycled(t)
    BY <1>2, <2>24, HeaderType, AllocatorAssumption
       DEF PoisonRecycled, Goto, mem, app, quarantine, TypeOK, Control, Labels
  <2>25. CASE DeallocatePrimary(t)
    BY <1>2, <2>25, HeaderType, AllocatorAssumption
       DEF DeallocatePrimary, Goto, mem, app, quarantine, TypeOK, Control,
           Labels
  <2>26. CASE DeallocateSecondary(t)
    BY <1>2, <2>26, HeaderType, AllocatorAssumption
       DEF DeallocateSecondary, Blank, Place, State, Goto, mem, app,
           quarantine, TypeOK, Control, Labels
  <2>27. CASE \E b \in Blocks : RecycleNext(t, b)
    BY <1>2, <2>27, HeaderType, AllocatorAssumption
       DEF RecycleNext, Goto, mem, app, quarantine, Q!Recycle, TypeOK, Control,
           Labels
  <2>28. CASE \E out \in SUBSET global : Extract(t, out)
    BY <1>2, <2>28, HeaderType, AllocatorAssumption
       DEF Extract, Goto, mem, app, quarantine, Q!Extract, TypeOK, Control,
           Labels
  <2> QED
    BY <1>2, <2>1, <2>2, <2>3, <2>4, <2>5, <2>6, <2>7, <2>8, <2>9, <2>10,
       <2>11, <2>12, <2>13, <2>14, <2>15, <2>16, <2>17, <2>18, <2>19,
       <2>20, <2>21, <2>22, <2>23, <2>24, <2>25, <2>26, <2>27, <2>28
       DEF Malloc, Free, Drain
<1> QED
  BY <1>1, <1>2 DEF Next
-----------------------------------------------------------------------------
(* Owners *)

\* The null pointer is neither a block nor a thread.
LEMMA NoneApart == None \notin Blocks /\ None \notin Threads
BY AllocatorAssumption

\* The owner of a block is unique.
LEMMA Sole ==
  ASSUME EachBlockOnce, NEW b \in Blocks, NEW k \in Owners, NEW t \in Owner,
         Owns(k, t, b)
  PROVE  \A l \in Owners, u \in Owner : Owns(l, u, b) <=> l = k /\ u = t
BY DEF EachBlockOnce, Owner

\* The step leaves the blocks of S with owner k of thread t, and every other
\* block where it is.
Moves(S, k, t) ==
  \A b \in Blocks, l \in Owners, u \in Owner :
    Owns(l, u, b)' <=> IF b \in S THEN l = k /\ u = t ELSE Owns(l, u, b)

\* A step that moves the blocks of S to one owner leaves each block with one owner.
LEMMA Moved ==
  ASSUME EachBlockOnce, NEW S, NEW k \in Owners, NEW t \in Owner,
         Moves(S, k, t)
  PROVE  EachBlockOnce'
BY DEF EachBlockOnce, Owner, Moves

\* All owners keep their blocks.
LEMMA StaysPut ==
  ASSUME NEW t \in Threads, pc[t] # "put", pc'[t] # "put",
         \A u \in Threads : u # t => pc'[u] = pc[u],
         UNCHANGED <<free, held, quarantine, new, old, rec>>
  PROVE  \A b \in Blocks, l \in Owners, u \in Owner :
           Owns(l, u, b)' <=> Owns(l, u, b)
BY DEF Owns, quarantine

\* What is said of the memory of every block outside S stays true.
KeepsLifeBut(S) ==
  \A b \in Blocks \ S, l \in Owners, u \in Owner :
    Owns(l, u, b) /\ LifeOf(l, u, b) => LifeOf(l, u, b)'

\* Header, magic and shadow still agree after blocks of S move to one owner, when
\* the step sets up the memory of S and leaves the others' alone.
LEMMA MovedLife ==
  ASSUME Life, NEW S, NEW k \in Owners, NEW t \in Owner, Moves(S, k, t),
         \A b \in Blocks : b \in S => LifeOf(k, t, b)', KeepsLifeBut(S)
  PROVE  Life'
BY DEF Life, Owner, Moves, KeepsLifeBut

\* The memory of a block is left alone.
SameMemory(b) ==
  /\ place'[b] = place[b] /\ hdr'[b] = hdr[b] /\ magic'[b] = magic[b]
  /\ shadow'[b] = shadow[b] /\ freeTid'[b] = freeTid[b]

\* A step of its owner's thread makes no difference to block b.
SamePhase(k, t) ==
  \/ k \notin {"new", "old", "rec"}
  \/ pc'[t] = pc[t]
  \/ /\ k = "new"
     /\ pc[t] \notin {"unpoison", "publish", "set_magic"}
     /\ pc'[t] \notin {"unpoison", "publish", "set_magic"}
  \/ /\ k = "old"
     /\ pc[t] \notin {"mark", "context"}
     /\ pc'[t] \notin {"mark", "context"}

\* What is said of a block's memory stays true while neither its memory nor the
\* phase of the operation on it changes.
LEMMA LifeKept ==
  ASSUME NEW b, NEW k, NEW t, LifeOf(k, t, b), SameMemory(b), SamePhase(k, t)
  PROVE  LifeOf(k, t, b)'
<1>1. /\ Unborn(b)' <=> Unborn(b)
      /\ Live(b)' <=> Live(b)
      /\ Dead(b)' <=> Dead(b)
      /\ ChunkState(b)' = ChunkState(b)
      /\ Waiting(b)' = Waiting(b)
  BY DEF SameMemory, Unborn, Live, Dead, Marked, ChunkState, Waiting
<1>2. CASE k \notin {"new", "old", "rec"}
  BY <1>1, <1>2 DEF LifeOf, SameMemory
<1>3. CASE pc'[t] = pc[t]
  BY <1>1, <1>3 DEF LifeOf, SameMemory
<1>4. CASE /\ k = "new"
           /\ pc[t] \notin {"unpoison", "publish", "set_magic"}
           /\ pc'[t] \notin {"unpoison", "publish", "set_magic"}
  BY <1>1, <1>4 DEF LifeOf, SameMemory
<1>5. CASE /\ k = "old"
           /\ pc[t] \notin {"mark", "context"}
           /\ pc'[t] \notin {"mark", "context"}
  BY <1>1, <1>5 DEF LifeOf, SameMemory
<1> QED
  BY <1>2, <1>3, <1>4, <1>5 DEF SamePhase

\* The same for all blocks outside S, in a step of thread t.
OnlyTouches(t, S) ==
  /\ \A u \in Threads : u # t => pc'[u] = pc[u]
  /\ \A b \in Blocks \ S :
       /\ SameMemory(b)
       /\ new[t] = b => SamePhase("new", t)
       /\ old[t] = b /\ pc[t] # "put" => SamePhase("old", t)
       /\ rec[t] # b

\* A step of Allocate or Deallocate that touches only the blocks of S keeps what is
\* said of the memory of the others.
LEMMA OthersKept ==
  ASSUME NEW S, NEW t \in Threads, OnlyTouches(t, S)
  PROVE  KeepsLifeBut(S)
<1> SUFFICES ASSUME NEW b \in Blocks \ S, NEW l \in Owners, NEW u \in Owner,
                    Owns(l, u, b), LifeOf(l, u, b)
             PROVE  LifeOf(l, u, b)'
  BY DEF KeepsLifeBut
<1>1. CASE l \notin {"new", "old", "rec"}
  BY <1>1, LifeKept DEF SamePhase, OnlyTouches
<1>2. CASE l \in {"new", "old", "rec"} /\ u # t
  <2>1. u \in Threads
    BY <1>2 DEF Owns
  <2> QED
    BY <1>2, <2>1, LifeKept DEF SamePhase, OnlyTouches
<1>3. CASE l \in {"new", "old", "rec"} /\ u = t
  <2>1. SamePhase(l, t)
    BY <1>3 DEF Owns, OnlyTouches
  <2> QED
    BY <1>3, <2>1, LifeKept DEF OnlyTouches
<1> QED
  BY <1>1, <1>2, <1>3

\* Step MallocFails.
LEMMA MallocFailsStep ==
  ASSUME ~Misuse, IInv, NEW t \in Threads,
         MallocFails(t), old[t] # None
  PROVE  EachBlockOnce' /\ Life' /\ StartByte'
<1>0. TypeOK /\ Control
  BY DEF IInv
<1>1. PICK x \in Blocks : x = old[t] /\ Owns("old", t, x)
  BY DEF IInv, MallocFails, TypeOK, Control, Owns
<1>2. /\ pc[t] = "malloc"
      /\ pc'[t] = "idle"
      /\ \A u \in Threads : u # t => pc'[u] = pc[u]
      /\ \A c \in Blocks : c # x => SameMemory(c)
      /\ place'[x] = place[x]
      /\ hdr'[x] = hdr[x]
      /\ magic'[x] = magic[x]
      /\ shadow'[x] = shadow[x]
      /\ freeTid'[x] = freeTid[x]
  BY <1>0, <1>1, AllocatorAssumption
     DEF TypeOK, SameMemory, Place, State, MallocFails, Goto, mem, app,
         quarantine
<1>3. "old" \in Owners /\ t \in Owner /\ "held" \in Owners /\ None \in Owner
  BY DEF Owners, Owner
<1>4. \A l \in Owners, u \in Owner : Owns(l, u, x) <=> l = "old" /\ u = t
  BY <1>1, <1>3, Sole DEF IInv
<1>5. Moves({x}, "held", None)
  <2>1. /\ held' = held \cup {x}
        /\ old'[t] = None
        /\ \A u \in Threads : u # t => old'[u] = old[u]
        /\ UNCHANGED <<free, global, new, rec, arriving, cached, leaving>>
    BY <1>0, <1>1, <1>2, NoneApart
       DEF TypeOK, Control, MallocFails, Goto, mem, app, quarantine
  <2>2. ASSUME NEW c \in Blocks, c # x, NEW l \in Owners, NEW u \in Owner
        PROVE  Owns(l, u, c)' <=> Owns(l, u, c)
    BY <1>1, <1>2, <2>1, <2>2, NoneApart DEF Owns
  <2>3. ASSUME NEW l \in Owners, NEW u \in Owner
        PROVE  Owns(l, u, x)' <=> l = "held" /\ u = None
    <3>1. Owns(l, u, x) <=> l = "old" /\ u = t
      BY <1>4
    <3> QED
      BY <1>1, <1>2, <2>1, <3>1, NoneApart DEF Owns
  <2> QED
    BY <2>2, <2>3 DEF Moves
<1>6. LifeOf("old", t, x)
  BY <1>1, <1>3 DEF IInv, Life
<1>7. LifeOf("held", None, x)'
  BY <1>1, <1>2, <1>6, NoneApart DEF LifeOf, Live, Dead, Marked, Unborn,
      Waiting, ChunkState
<1>8. OnlyTouches(t, {x})
  <2>1. rec[t] = None
    BY <1>2, Zenon DEF IInv, Control
  <2> QED
    BY <1>1, <1>2, <2>1, NoneApart DEF SamePhase, OnlyTouches
<1>9. StartByte'
  BY DEF IInv, StartByte, MallocFails, mem
<1>10. Life'
  BY <1>1, <1>3, <1>5, <1>7, <1>8, OthersKept, MovedLife DEF IInv
<1>11. EachBlockOnce'
  BY <1>3, <1>5, Moved DEF IInv
<1> QED
  BY <1>9, <1>10, <1>11

\* Step Unpoison.
LEMMA UnpoisonStep ==
  ASSUME ~Misuse, IInv, NEW t \in Threads,
         Unpoison(t)
  PROVE  EachBlockOnce' /\ Life' /\ StartByte'
<1>0. TypeOK /\ Control
  BY DEF IInv
<1>1. PICK x \in Blocks : x = new[t] /\ Owns("new", t, x)
  BY DEF IInv, Unpoison, TypeOK, Control, Owns
<1>2. /\ pc[t] = "unpoison"
      /\ pc'[t] = "publish"
      /\ \A u \in Threads : u # t => pc'[u] = pc[u]
      /\ \A c \in Blocks : c # x => SameMemory(c)
      /\ place'[x] = place[x]
      /\ hdr'[x] = hdr[x]
      /\ magic'[x] = magic[x]
      /\ shadow'[x] = "user"
      /\ freeTid'[x] = freeTid[x]
  BY <1>0, <1>1, AllocatorAssumption
     DEF TypeOK, SameMemory, Place, State, Unpoison, Goto, mem, app,
         quarantine, PoisonRedzones
<1>3. "new" \in Owners /\ t \in Owner
  BY DEF Owners, Owner
<1>4. \A l \in Owners, u \in Owner : Owns(l, u, x) <=> l = "new" /\ u = t
  BY <1>1, <1>3, Sole DEF IInv
<1>5. Moves({x}, "new", t)
  <2>1. \A b \in Blocks, l \in Owners, u \in Owner :
          Owns(l, u, b)' <=> Owns(l, u, b)
    BY <1>2, StaysPut DEF Unpoison, app
  <2> QED
    BY <1>4, <2>1 DEF Moves
<1>6. LifeOf("new", t, x)
  BY <1>1, <1>3 DEF IInv, Life
<1>7. LifeOf("new", t, x)'
  BY <1>1, <1>2, <1>6, NoneApart DEF LifeOf, Live, Dead, Marked, Unborn,
      Waiting, ChunkState
<1>8. OnlyTouches(t, {x})
  <2>1. rec[t] = None
    BY <1>2, Zenon DEF IInv, Control
  <2> QED
    BY <1>1, <1>2, <2>1, NoneApart DEF SamePhase, OnlyTouches
<1>9. StartByte'
  BY DEF IInv, StartByte, Unpoison, mem
<1>10. Life'
  BY <1>1, <1>3, <1>5, <1>7, <1>8, OthersKept, MovedLife DEF IInv
<1>11. EachBlockOnce'
  BY <1>3, <1>5, Moved DEF IInv
<1> QED
  BY <1>9, <1>10, <1>11

\* Step Publish.
LEMMA PublishStep ==
  ASSUME ~Misuse, IInv, NEW t \in Threads,
         Publish(t)
  PROVE  EachBlockOnce' /\ Life' /\ StartByte'
<1>0. TypeOK /\ Control
  BY DEF IInv
<1>1. PICK x \in Blocks : x = new[t] /\ Owns("new", t, x)
  BY DEF IInv, Publish, TypeOK, Control, Owns
<1>2. /\ pc[t] = "publish"
      /\ pc'[t] = "set_magic"
      /\ \A u \in Threads : u # t => pc'[u] = pc[u]
      /\ \A c \in Blocks : c # x => SameMemory(c)
      /\ place'[x] = place[x]
      /\ ChunkState(x)' = "ALLOCATED"
      /\ place[x] # "start" => hdr'[x]["start"] = hdr[x]["start"]
      /\ place[x] = "start" => hdr'[x]["start"] = ChunkState(x)'
      /\ magic'[x] = magic[x]
      /\ shadow'[x] = shadow[x]
      /\ freeTid'[x] = freeTid[x]
  BY <1>0, <1>1, AllocatorAssumption
     DEF TypeOK, SameMemory, Place, State, Publish, Goto, mem, app,
         quarantine, SetChunkState, ChunkState
<1>3. "new" \in Owners /\ t \in Owner
  BY DEF Owners, Owner
<1>4. \A l \in Owners, u \in Owner : Owns(l, u, x) <=> l = "new" /\ u = t
  BY <1>1, <1>3, Sole DEF IInv
<1>5. Moves({x}, "new", t)
  <2>1. \A b \in Blocks, l \in Owners, u \in Owner :
          Owns(l, u, b)' <=> Owns(l, u, b)
    BY <1>2, StaysPut, Zenon DEF Publish, app
  <2> QED
    BY <1>4, <2>1 DEF Moves
<1>6. LifeOf("new", t, x)
  BY <1>1, <1>3 DEF IInv, Life
<1>7. LifeOf("new", t, x)'
  BY <1>1, <1>2, <1>6, NoneApart, Zenon DEF LifeOf, Live, Dead, Marked, Unborn,
      Waiting
<1>8. OnlyTouches(t, {x})
  <2>1. rec[t] = None
    BY <1>2, Zenon DEF IInv, Control
  <2> QED
    BY <1>1, <1>2, <2>1, NoneApart, Zenon DEF SamePhase, OnlyTouches
<1>9. StartByte'
  BY <1>1, <1>2 DEF IInv, StartByte, SameMemory
<1>10. Life'
  BY <1>1, <1>3, <1>5, <1>7, <1>8, OthersKept, MovedLife DEF IInv
<1>11. EachBlockOnce'
  BY <1>3, <1>5, Moved DEF IInv
<1> QED
  BY <1>9, <1>10, <1>11

\* Step SetMagic.
LEMMA SetMagicStep ==
  ASSUME ~Misuse, IInv, NEW t \in Threads,
         SetMagic(t)
  PROVE  EachBlockOnce' /\ Life' /\ StartByte'
<1>0. TypeOK /\ Control
  BY DEF IInv
<1>1. PICK x \in Blocks : x = new[t] /\ Owns("new", t, x)
  BY DEF IInv, SetMagic, TypeOK, Control, Owns
<1>2. /\ pc[t] = "set_magic"
      /\ pc'[t] \in {"return", "check_old"}
      /\ \A u \in Threads : u # t => pc'[u] = pc[u]
      /\ \A c \in Blocks : c # x => SameMemory(c)
      /\ place'[x] = place[x]
      /\ hdr'[x] = hdr[x]
      /\ magic'[x] = (magic[x] \/ place[x] = "later")
      /\ shadow'[x] = shadow[x]
      /\ freeTid'[x] = freeTid[x]
  BY <1>0, <1>1, AllocatorAssumption
     DEF TypeOK, SameMemory, Place, State, SetMagic, Goto, mem, app,
         quarantine
<1>3. "new" \in Owners /\ t \in Owner
  BY DEF Owners, Owner
<1>4. \A l \in Owners, u \in Owner : Owns(l, u, x) <=> l = "new" /\ u = t
  BY <1>1, <1>3, Sole DEF IInv
<1>5. Moves({x}, "new", t)
  <2>1. \A b \in Blocks, l \in Owners, u \in Owner :
          Owns(l, u, b)' <=> Owns(l, u, b)
    BY <1>2, StaysPut DEF SetMagic, app
  <2> QED
    BY <1>4, <2>1 DEF Moves
<1>6. LifeOf("new", t, x)
  BY <1>1, <1>3 DEF IInv, Life
<1>7. LifeOf("new", t, x)'
  BY <1>1, <1>2, <1>6, NoneApart, Zenon DEF LifeOf, Live, Dead, Marked, Unborn,
      Waiting, ChunkState
<1>8. OnlyTouches(t, {x})
  <2>1. rec[t] = None
    BY <1>2, Zenon DEF IInv, Control
  <2> QED
    BY <1>1, <1>2, <2>1, NoneApart DEF SamePhase, OnlyTouches
<1>9. StartByte'
  BY DEF IInv, StartByte, SetMagic, mem
<1>10. Life'
  BY <1>1, <1>3, <1>5, <1>7, <1>8, OthersKept, MovedLife DEF IInv
<1>11. EachBlockOnce'
  BY <1>3, <1>5, Moved DEF IInv
<1> QED
  BY <1>9, <1>10, <1>11

\* Step Return.
LEMMA ReturnStep ==
  ASSUME ~Misuse, IInv, NEW t \in Threads,
         Return(t), new[t] # None
  PROVE  EachBlockOnce' /\ Life' /\ StartByte'
<1>0. TypeOK /\ Control
  BY DEF IInv
<1>1. PICK x \in Blocks : x = new[t] /\ Owns("new", t, x)
  BY DEF IInv, Return, TypeOK, Control, Owns
<1>2. /\ pc[t] = "return"
      /\ pc'[t] = "idle"
      /\ \A u \in Threads : u # t => pc'[u] = pc[u]
      /\ \A c \in Blocks : c # x => SameMemory(c)
      /\ place'[x] = place[x]
      /\ hdr'[x] = hdr[x]
      /\ magic'[x] = magic[x]
      /\ shadow'[x] = shadow[x]
      /\ freeTid'[x] = freeTid[x]
  BY <1>0, <1>1, AllocatorAssumption
     DEF TypeOK, SameMemory, Place, State, Return, Goto, mem, app,
         quarantine
<1>3. "new" \in Owners /\ t \in Owner /\ "held" \in Owners /\ None \in Owner
  BY DEF Owners, Owner
<1>4. \A l \in Owners, u \in Owner : Owns(l, u, x) <=> l = "new" /\ u = t
  BY <1>1, <1>3, Sole DEF IInv
<1>5. Moves({x}, "held", None)
  <2>1. /\ held' = held \cup {x}
        /\ new'[t] = None
        /\ \A u \in Threads : u # t => new'[u] = new[u]
        /\ UNCHANGED <<free, global, old, rec, arriving, cached, leaving>>
    BY <1>0, <1>1, <1>2, NoneApart
       DEF TypeOK, Control, Return, Goto, mem, app, quarantine
  <2>2. ASSUME NEW c \in Blocks, c # x, NEW l \in Owners, NEW u \in Owner
        PROVE  Owns(l, u, c)' <=> Owns(l, u, c)
    BY <1>1, <1>2, <2>1, <2>2, NoneApart DEF Owns
  <2>3. ASSUME NEW l \in Owners, NEW u \in Owner
        PROVE  Owns(l, u, x)' <=> l = "held" /\ u = None
    <3>1. Owns(l, u, x) <=> l = "new" /\ u = t
      BY <1>4
    <3> QED
      BY <1>1, <1>2, <2>1, <3>1, NoneApart DEF Owns
  <2> QED
    BY <2>2, <2>3 DEF Moves
<1>6. LifeOf("new", t, x)
  BY <1>1, <1>3 DEF IInv, Life
<1>7. LifeOf("held", None, x)'
  BY <1>1, <1>2, <1>6, NoneApart DEF LifeOf, Live, Dead, Marked, Unborn,
      Waiting, ChunkState
<1>8. OnlyTouches(t, {x})
  <2>1. rec[t] = None
    BY <1>2, Zenon DEF IInv, Control
  <2> QED
    BY <1>1, <1>2, <2>1, NoneApart DEF SamePhase, OnlyTouches
<1>9. StartByte'
  BY DEF IInv, StartByte, Return, mem
<1>10. Life'
  BY <1>1, <1>3, <1>5, <1>7, <1>8, OthersKept, MovedLife DEF IInv
<1>11. EachBlockOnce'
  BY <1>3, <1>5, Moved DEF IInv
<1> QED
  BY <1>9, <1>10, <1>11

\* Step ReallocBegin.
LEMMA ReallocBeginStep ==
  ASSUME ~Misuse, IInv, NEW t \in Threads, NEW b \in Blocks,
         ReallocBegin(t, b)
  PROVE  EachBlockOnce' /\ Life' /\ StartByte'
<1>0. TypeOK /\ Control
  BY DEF IInv
<1>1. b \in Blocks /\ Owns("held", None, b)
  BY DEF IInv, ReallocBegin, TypeOK, Owns
<1>2. /\ pc[t] = "idle"
      /\ pc'[t] = "malloc"
      /\ \A u \in Threads : u # t => pc'[u] = pc[u]
      /\ \A c \in Blocks : c # b => SameMemory(c)
      /\ place'[b] = place[b]
      /\ hdr'[b] = hdr[b]
      /\ magic'[b] = magic[b]
      /\ shadow'[b] = shadow[b]
      /\ freeTid'[b] = freeTid[b]
  BY <1>0, <1>1, AllocatorAssumption
     DEF TypeOK, SameMemory, Place, State, ReallocBegin, Goto, mem, app,
         quarantine
<1>3. "held" \in Owners /\ None \in Owner /\ "old" \in Owners /\ t \in Owner
  BY DEF Owners, Owner
<1>4. \A l \in Owners, u \in Owner : Owns(l, u, b) <=> l = "held" /\ u = None
  BY <1>1, <1>3, Sole DEF IInv
<1>5. Moves({b}, "old", t)
  <2>1. /\ held' = held \ {b}
        /\ old'[t] = b
        /\ \A u \in Threads : u # t => old'[u] = old[u]
        /\ old[t] = None
        /\ UNCHANGED <<free, global, new, rec, arriving, cached, leaving>>
    BY <1>0, <1>1, <1>2, NoneApart, Zenon
       DEF TypeOK, Control, ReallocBegin, Goto, mem, app, quarantine
  <2>2. ASSUME NEW c \in Blocks, c # b, NEW l \in Owners, NEW u \in Owner
        PROVE  Owns(l, u, c)' <=> Owns(l, u, c)
    <3>1. ASSUME u \in Threads
          PROVE  old'[u] = c /\ pc'[u] # "put" <=> old[u] = c /\ pc[u] # "put"
      <4>1. CASE u = t
        BY <1>1, <2>1, <2>2, <4>1, NoneApart
      <4>2. CASE u # t
        BY <1>2, <2>1, <3>1, <4>2, Zenon
      <4> QED
        BY <4>1, <4>2
    <3>2. /\ c \in held' <=> c \in held
          /\ UNCHANGED <<free, global, new, rec, arriving, cached, leaving>>
      BY <2>1, <2>2
    <3> QED
      BY <3>1, <3>2 DEF Owns
  <2>3. ASSUME NEW l \in Owners, NEW u \in Owner
        PROVE  Owns(l, u, b)' <=> l = "old" /\ u = t
    <3>1. Owns(l, u, b) <=> l = "held" /\ u = None
      BY <1>4
    <3> QED
      BY <1>1, <1>2, <2>1, <3>1, NoneApart DEF Owns
  <2> QED
    BY <2>2, <2>3 DEF Moves
<1>6. LifeOf("held", None, b)
  BY <1>1, <1>3 DEF IInv, Life
<1>7. LifeOf("old", t, b)'
  BY <1>1, <1>2, <1>6, NoneApart, Zenon DEF LifeOf, Live, Dead, Marked, Unborn,
      Waiting, ChunkState
<1>8. OnlyTouches(t, {b})
  <2>1. rec[t] = None /\ new[t] = None /\ old[t] = None
    BY <1>2, Zenon DEF IInv, Control
  <2> QED
    BY <1>1, <1>2, <2>1, NoneApart DEF SamePhase, OnlyTouches
<1>9. StartByte'
  BY DEF IInv, StartByte, ReallocBegin, mem
<1>10. Life'
  BY <1>1, <1>3, <1>5, <1>7, <1>8, OthersKept, MovedLife DEF IInv
<1>11. EachBlockOnce'
  BY <1>3, <1>5, Moved DEF IInv
<1> QED
  BY <1>9, <1>10, <1>11

\* Step AllocateBlock.
LEMMA AllocateBlockStep ==
  ASSUME ~Misuse, IInv, NEW t \in Threads,
         NEW b \in Blocks, NEW p \in Place, NEW s \in State,
         AllocateBlock(t, b, p, s)
  PROVE  EachBlockOnce' /\ Life' /\ StartByte'
<1>0. TypeOK /\ Control
  BY DEF IInv
<1>1. b \in Blocks /\ Owns("free", None, b)
  BY DEF IInv, AllocateBlock, TypeOK, Owns
<1>2. /\ pc[t] = "malloc"
      /\ pc'[t] = "unpoison"
      /\ \A u \in Threads : u # t => pc'[u] = pc[u]
      /\ \A c \in Blocks : c # b => SameMemory(c)
      /\ hdr'[b]["start"] = hdr[b]["start"]
      /\ magic'[b] = magic[b]
      /\ shadow'[b] = shadow[b]
      /\ freeTid'[b] = freeTid[b]
  BY <1>0, <1>1, AllocatorAssumption
     DEF TypeOK, SameMemory, Place, State, AllocateBlock, Goto, mem, app,
         quarantine, OldBytes
<1>3. "free" \in Owners /\ None \in Owner /\ "new" \in Owners /\ t \in Owner
  BY DEF Owners, Owner
<1>4. \A l \in Owners, u \in Owner : Owns(l, u, b) <=> l = "free" /\ u = None
  BY <1>1, <1>3, Sole DEF IInv
<1>5. Moves({b}, "new", t)
  <2>1. /\ free' = free \ {b}
        /\ new'[t] = b
        /\ \A u \in Threads : u # t => new'[u] = new[u]
        /\ new[t] = None
        /\ UNCHANGED <<held, global, old, rec, arriving, cached, leaving>>
    BY <1>0, <1>1, <1>2, NoneApart
       DEF TypeOK, Control, AllocateBlock, Goto, mem, app, quarantine
  <2>2. ASSUME NEW c \in Blocks, c # b, NEW l \in Owners, NEW u \in Owner
        PROVE  Owns(l, u, c)' <=> Owns(l, u, c)
    BY <1>1, <1>2, <2>1, <2>2, NoneApart, Zenon DEF Owns
  <2>3. ASSUME NEW l \in Owners, NEW u \in Owner
        PROVE  Owns(l, u, b)' <=> l = "new" /\ u = t
    <3>1. Owns(l, u, b) <=> l = "free" /\ u = None
      BY <1>4
    <3> QED
      BY <1>1, <1>2, <2>1, <3>1, NoneApart, Zenon DEF Owns
  <2> QED
    BY <2>2, <2>3 DEF Moves
<1>6. LifeOf("free", None, b)
  BY <1>1, <1>3 DEF IInv, Life
<1>7. LifeOf("new", t, b)'
  BY <1>1, <1>2, <1>6, NoneApart, Zenon DEF LifeOf, Live, Dead, Marked, Unborn,
      Waiting
<1>8. OnlyTouches(t, {b})
  <2>1. rec[t] = None /\ new[t] = None
    BY <1>2, Zenon DEF IInv, Control
  <2> QED
    BY <1>1, <1>2, <2>1, NoneApart DEF SamePhase, OnlyTouches
<1>9. StartByte'
  BY <1>1, <1>2, <1>6, Zenon DEF IInv, StartByte, SameMemory, LifeOf, Unborn
<1>10. Life'
  BY <1>1, <1>3, <1>5, <1>7, <1>8, OthersKept, MovedLife DEF IInv
<1>11. EachBlockOnce'
  BY <1>3, <1>5, Moved DEF IInv
<1> QED
  BY <1>9, <1>10, <1>11

\* Step FreeIgnored.
LEMMA FreeIgnoredStep ==
  ASSUME ~Misuse, IInv, NEW t \in Threads,
         FreeIgnored(t)
  PROVE  EachBlockOnce' /\ Life' /\ StartByte'
<1>0. TypeOK /\ Control
  BY DEF IInv
<1>1. PICK x \in Blocks : x = old[t] /\ Owns("old", t, x)
  BY DEF IInv, FreeIgnored, TypeOK, Control, Owns
<1>2. /\ pc[t] = "free"
      /\ pc'[t] = "return"
      /\ \A u \in Threads : u # t => pc'[u] = pc[u]
      /\ \A c \in Blocks : c # x => SameMemory(c)
      /\ place'[x] = place[x]
      /\ hdr'[x] = hdr[x]
      /\ magic'[x] = magic[x]
      /\ shadow'[x] = shadow[x]
      /\ freeTid'[x] = freeTid[x]
  BY <1>0, <1>1, AllocatorAssumption
     DEF TypeOK, SameMemory, Place, State, FreeIgnored, Goto, mem, app,
         quarantine
<1>3. "old" \in Owners /\ t \in Owner /\ "held" \in Owners /\ None \in Owner
  BY DEF Owners, Owner
<1>4. \A l \in Owners, u \in Owner : Owns(l, u, x) <=> l = "old" /\ u = t
  BY <1>1, <1>3, Sole DEF IInv
<1>5. Moves({x}, "held", None)
  <2>1. /\ held' = held \cup {x}
        /\ old'[t] = None
        /\ \A u \in Threads : u # t => old'[u] = old[u]
        /\ UNCHANGED <<free, global, new, rec, arriving, cached, leaving>>
    BY <1>0, <1>1, <1>2, NoneApart
       DEF TypeOK, Control, FreeIgnored, Goto, mem, app, quarantine
  <2>2. ASSUME NEW c \in Blocks, c # x, NEW l \in Owners, NEW u \in Owner
        PROVE  Owns(l, u, c)' <=> Owns(l, u, c)
    BY <1>1, <1>2, <2>1, <2>2, NoneApart DEF Owns
  <2>3. ASSUME NEW l \in Owners, NEW u \in Owner
        PROVE  Owns(l, u, x)' <=> l = "held" /\ u = None
    <3>1. Owns(l, u, x) <=> l = "old" /\ u = t
      BY <1>4
    <3> QED
      BY <1>1, <1>2, <2>1, <3>1, NoneApart DEF Owns
  <2> QED
    BY <2>2, <2>3 DEF Moves
<1>6. LifeOf("old", t, x)
  BY <1>1, <1>3 DEF IInv, Life
<1>7. LifeOf("held", None, x)'
  BY <1>1, <1>2, <1>6, NoneApart DEF LifeOf, Live, Dead, Marked, Unborn,
      Waiting, ChunkState
<1>8. OnlyTouches(t, {x})
  <2>1. rec[t] = None
    BY <1>2, Zenon DEF IInv, Control
  <2> QED
    BY <1>1, <1>2, <2>1, NoneApart DEF SamePhase, OnlyTouches
<1>9. StartByte'
  BY DEF IInv, StartByte, FreeIgnored, mem
<1>10. Life'
  BY <1>1, <1>3, <1>5, <1>7, <1>8, OthersKept, MovedLife DEF IInv
<1>11. EachBlockOnce'
  BY <1>3, <1>5, Moved DEF IInv
<1> QED
  BY <1>9, <1>10, <1>11

\* Step SetQuarantineFlagIfAllocated.
LEMMA SetQuarantineFlagIfAllocatedStep ==
  ASSUME ~Misuse, IInv, NEW t \in Threads,
         SetQuarantineFlagIfAllocated(t)
  PROVE  EachBlockOnce' /\ Life' /\ StartByte'
<1>0. TypeOK /\ Control
  BY DEF IInv
<1>1. PICK x \in Blocks : x = old[t] /\ Owns("old", t, x)
  BY DEF IInv, SetQuarantineFlagIfAllocated, TypeOK, Control, Owns
<1>2. /\ pc[t] = "free"
      /\ pc'[t] = "mark"
      /\ \A u \in Threads : u # t => pc'[u] = pc[u]
      /\ \A c \in Blocks : c # x => SameMemory(c)
      /\ place'[x] = place[x]
      /\ ChunkState(x)' = "QUARANTINE"
      /\ place[x] # "start" => hdr'[x]["start"] = hdr[x]["start"]
      /\ place[x] = "start" => hdr'[x]["start"] = ChunkState(x)'
      /\ magic'[x] = magic[x]
      /\ shadow'[x] = shadow[x]
      /\ freeTid'[x] = freeTid[x]
      /\ ChunkState(x) = "ALLOCATED"
  BY <1>0, <1>1, AllocatorAssumption
     DEF TypeOK, SameMemory, Place, State, SetQuarantineFlagIfAllocated,
         Goto, mem, app, quarantine, SetChunkState, ChunkState
<1>3. "old" \in Owners /\ t \in Owner
  BY DEF Owners, Owner
<1>4. \A l \in Owners, u \in Owner : Owns(l, u, x) <=> l = "old" /\ u = t
  BY <1>1, <1>3, Sole DEF IInv
<1>5. Moves({x}, "old", t)
  <2>1. \A b \in Blocks, l \in Owners, u \in Owner :
          Owns(l, u, b)' <=> Owns(l, u, b)
    BY <1>2, StaysPut DEF SetQuarantineFlagIfAllocated, app
  <2> QED
    BY <1>4, <2>1 DEF Moves
<1>6. LifeOf("old", t, x)
  BY <1>1, <1>3 DEF IInv, Life
<1>7. LifeOf("old", t, x)'
  BY <1>1, <1>2, <1>6, NoneApart, Zenon DEF LifeOf, Live, Dead, Marked, Unborn,
      Waiting
<1>8. OnlyTouches(t, {x})
  <2>1. rec[t] = None
    BY <1>2, Zenon DEF IInv, Control
  <2> QED
    BY <1>1, <1>2, <2>1, NoneApart, Zenon DEF SamePhase, OnlyTouches
<1>9. StartByte'
  BY <1>1, <1>2 DEF IInv, StartByte, SameMemory
<1>10. Life'
  BY <1>1, <1>3, <1>5, <1>7, <1>8, OthersKept, MovedLife DEF IInv
<1>11. EachBlockOnce'
  BY <1>3, <1>5, Moved DEF IInv
<1> QED
  BY <1>9, <1>10, <1>11

\* Step MarkContext.
LEMMA MarkContextStep ==
  ASSUME ~Misuse, IInv, NEW t \in Threads,
         MarkContext(t)
  PROVE  EachBlockOnce' /\ Life' /\ StartByte'
<1>0. TypeOK /\ Control
  BY DEF IInv
<1>1. PICK x \in Blocks : x = old[t] /\ Owns("old", t, x)
  BY DEF IInv, MarkContext, TypeOK, Control, Owns
<1>2. /\ pc[t] = "mark"
      /\ pc'[t] = "context"
      /\ \A u \in Threads : u # t => pc'[u] = pc[u]
      /\ \A c \in Blocks : c # x => SameMemory(c)
      /\ place'[x] = place[x]
      /\ hdr'[x] = hdr[x]
      /\ magic'[x] = magic[x]
      /\ shadow'[x] = shadow[x]
      /\ freeTid'[x] = None
  BY <1>0, <1>1, AllocatorAssumption
     DEF TypeOK, SameMemory, Place, State, MarkContext, Goto, mem, app,
         quarantine
<1>3. "old" \in Owners /\ t \in Owner
  BY DEF Owners, Owner
<1>4. \A l \in Owners, u \in Owner : Owns(l, u, x) <=> l = "old" /\ u = t
  BY <1>1, <1>3, Sole DEF IInv
<1>5. Moves({x}, "old", t)
  <2>1. \A b \in Blocks, l \in Owners, u \in Owner :
          Owns(l, u, b)' <=> Owns(l, u, b)
    BY <1>2, StaysPut DEF MarkContext, app
  <2> QED
    BY <1>4, <2>1 DEF Moves
<1>6. LifeOf("old", t, x)
  BY <1>1, <1>3 DEF IInv, Life
<1>7. LifeOf("old", t, x)'
  BY <1>1, <1>2, <1>6, NoneApart, Zenon DEF LifeOf, Live, Dead, Marked, Unborn,
      Waiting, ChunkState
<1>8. OnlyTouches(t, {x})
  <2>1. rec[t] = None
    BY <1>2, Zenon DEF IInv, Control
  <2> QED
    BY <1>1, <1>2, <2>1, NoneApart DEF SamePhase, OnlyTouches
<1>9. StartByte'
  BY DEF IInv, StartByte, MarkContext, mem
<1>10. Life'
  BY <1>1, <1>3, <1>5, <1>7, <1>8, OthersKept, MovedLife DEF IInv
<1>11. EachBlockOnce'
  BY <1>3, <1>5, Moved DEF IInv
<1> QED
  BY <1>9, <1>10, <1>11

\* Step QuarantineChunk.
LEMMA QuarantineChunkStep ==
  ASSUME ~Misuse, IInv, NEW t \in Threads,
         QuarantineChunk(t)
  PROVE  EachBlockOnce' /\ Life' /\ StartByte'
<1>0. TypeOK /\ Control
  BY DEF IInv
<1>1. PICK x \in Blocks : x = old[t] /\ Owns("old", t, x)
  BY DEF IInv, QuarantineChunk, TypeOK, Control, Owns
<1>2. /\ pc[t] = "context"
      /\ pc'[t] = "put"
      /\ \A u \in Threads : u # t => pc'[u] = pc[u]
      /\ \A c \in Blocks : c # x => SameMemory(c)
      /\ place'[x] = place[x]
      /\ hdr'[x] = hdr[x]
      /\ magic'[x] = magic[x]
      /\ shadow'[x] = shadow[x]
      /\ freeTid'[x] = t
  BY <1>0, <1>1, AllocatorAssumption
     DEF TypeOK, SameMemory, Place, State, QuarantineChunk, Goto, mem,
         app, quarantine
<1>3. "old" \in Owners /\ t \in Owner /\ "arriving" \in Owners /\ t \in Owner
  BY DEF Owners, Owner
<1>4. \A l \in Owners, u \in Owner : Owns(l, u, x) <=> l = "old" /\ u = t
  BY <1>1, <1>3, Sole DEF IInv
<1>5. Moves({x}, "arriving", t)
  <2>1. /\ arriving'[t] = {x}
        /\ \A u \in Threads : u # t => arriving'[u] = arriving[u]
        /\ arriving[t] = {}
        /\ UNCHANGED <<free, held, global, new, old, rec, cached, leaving>>
    BY <1>0, <1>1, <1>2, NoneApart
       DEF TypeOK, Control, QuarantineChunk, Goto, mem, app, quarantine
  <2>2. ASSUME NEW c \in Blocks, c # x, NEW l \in Owners, NEW u \in Owner
        PROVE  Owns(l, u, c)' <=> Owns(l, u, c)
    BY <1>1, <1>2, <2>1, <2>2, NoneApart DEF Owns
  <2>3. ASSUME NEW l \in Owners, NEW u \in Owner
        PROVE  Owns(l, u, x)' <=> l = "arriving" /\ u = t
    <3>1. Owns(l, u, x) <=> l = "old" /\ u = t
      BY <1>4
    <3> QED
      BY <1>1, <1>2, <2>1, <3>1, NoneApart DEF Owns
  <2> QED
    BY <2>2, <2>3 DEF Moves
<1>6. LifeOf("old", t, x)
  BY <1>1, <1>3 DEF IInv, Life
<1>7. LifeOf("arriving", t, x)'
  BY <1>1, <1>2, <1>6, NoneApart, Zenon DEF LifeOf, Live, Dead, Marked, Unborn,
      Waiting, ChunkState
<1>8. OnlyTouches(t, {x})
  <2>1. rec[t] = None
    BY <1>2, Zenon DEF IInv, Control
  <2> QED
    BY <1>1, <1>2, <2>1, NoneApart, Zenon DEF SamePhase, OnlyTouches
<1>9. StartByte'
  BY Zenon DEF IInv, StartByte, QuarantineChunk, mem
<1>10. Life'
  BY <1>1, <1>3, <1>5, <1>7, <1>8, OthersKept, MovedLife DEF IInv
<1>11. EachBlockOnce'
  BY <1>3, <1>5, Moved DEF IInv
<1> QED
  BY <1>9, <1>10, <1>11

\* Step PutQuarantine.
LEMMA PutQuarantineStep ==
  ASSUME ~Misuse, IInv, NEW t \in Threads,
         PutQuarantine(t)
  PROVE  EachBlockOnce' /\ Life' /\ StartByte'
<1>0. TypeOK /\ Control
  BY DEF IInv
<1>1. PICK x \in Blocks : x = old[t] /\ Owns("arriving", t, x)
  BY DEF IInv, PutQuarantine, Q!Enqueue, TypeOK, Control, Owns
<1>2. /\ pc[t] = "put"
      /\ pc'[t] = "drain"
      /\ \A u \in Threads : u # t => pc'[u] = pc[u]
      /\ \A c \in Blocks : c # x => SameMemory(c)
      /\ place'[x] = place[x]
      /\ hdr'[x] = hdr[x]
      /\ magic'[x] = magic[x]
      /\ shadow'[x] = "freed"
      /\ freeTid'[x] = freeTid[x]
  BY <1>0, <1>1, AllocatorAssumption
     DEF TypeOK, SameMemory, Place, State, PutQuarantine, Goto, mem, app,
         quarantine, Q!Enqueue
<1>3. "arriving" \in Owners /\ t \in Owner /\ "cached" \in Owners /\ t \in Owner
  BY DEF Owners, Owner
<1>4. \A l \in Owners, u \in Owner : Owns(l, u, x) <=> l = "arriving" /\ u = t
  BY <1>1, <1>3, Sole DEF IInv
<1>5. Moves({x}, "cached", t)
  <2>1. /\ arriving'[t] = {}
        /\ \A u \in Threads : u # t => arriving'[u] = arriving[u]
        /\ cached'[t] = cached[t] \cup {x}
        /\ \A u \in Threads : u # t => cached'[u] = cached[u]
        /\ old'[t] = None
        /\ \A u \in Threads : u # t => old'[u] = old[u]
        /\ arriving[t] = {x}
        /\ UNCHANGED <<free, held, global, new, rec, leaving>>
    <3>1. arriving[t] = {x}
      BY <1>1, <1>2, Zenon DEF IInv, Control
    <3>2. /\ old \in [Threads -> Blocks \cup {None}]
          /\ arriving \in [Threads -> SUBSET Blocks]
          /\ cached \in [Threads -> SUBSET Blocks]
      BY DEF IInv, TypeOK
    <3>3. /\ old' = [old EXCEPT ![t] = None]
          /\ Q!Enqueue(t)
          /\ UNCHANGED <<free, held, new, rec>>
      BY DEF PutQuarantine, app
    <3>4. /\ arriving' = [arriving EXCEPT ![t] = {}]
          /\ cached' = [cached EXCEPT ![t] = @ \cup {x}]
          /\ UNCHANGED <<global, leaving>>
      BY <3>1, <3>3 DEF Q!Enqueue
    <3> QED
      BY <3>1, <3>2, <3>3, <3>4
  <2>2. ASSUME NEW c \in Blocks, c # x, NEW l \in Owners, NEW u \in Owner
        PROVE  Owns(l, u, c)' <=> Owns(l, u, c)
    <3>1. ASSUME u \in Threads
          PROVE  /\ c \in arriving'[u] <=> c \in arriving[u]
                 /\ c \in cached'[u] <=> c \in cached[u]
                 /\ old'[u] = c /\ pc'[u] # "put" <=> old[u] = c /\ pc[u] # "put"
      <4>1. CASE u = t
        BY <1>1, <1>2, <2>1, <2>2, <4>1, NoneApart
      <4>2. CASE u # t
        BY <1>2, <2>1, <3>1, <4>2
      <4> QED
        BY <4>1, <4>2, Zenon
    <3>2. UNCHANGED <<free, held, global, new, rec, leaving>>
      BY <2>1
    <3> QED
      BY <3>1, <3>2 DEF Owns
  <2>3. ASSUME NEW l \in Owners, NEW u \in Owner
        PROVE  Owns(l, u, x)' <=> l = "cached" /\ u = t
    <3>1. Owns(l, u, x) <=> l = "arriving" /\ u = t
      BY <1>4
    <3> QED
      BY <1>1, <1>2, <2>1, <3>1, NoneApart DEF Owns
  <2> QED
    BY <2>2, <2>3 DEF Moves
<1>6. LifeOf("arriving", t, x)
  BY <1>1, <1>3 DEF IInv, Life
<1>7. LifeOf("cached", t, x)'
  BY <1>1, <1>2, <1>6, NoneApart, Zenon DEF LifeOf, Live, Dead, Marked, Unborn,
      Waiting, ChunkState
<1>8. OnlyTouches(t, {x})
  <2>1. rec[t] = None
    BY <1>2, Zenon DEF IInv, Control
  <2> QED
    BY <1>1, <1>2, <2>1, NoneApart DEF SamePhase, OnlyTouches
<1>9. StartByte'
  BY DEF IInv, StartByte, PutQuarantine, mem
<1>10. Life'
  BY <1>1, <1>3, <1>5, <1>7, <1>8, OthersKept, MovedLife DEF IInv
<1>11. EachBlockOnce'
  BY <1>3, <1>5, Moved DEF IInv
<1> QED
  BY <1>9, <1>10, <1>11

\* Step PutPassThrough.
LEMMA PutPassThroughStep ==
  ASSUME ~Misuse, IInv, NEW t \in Threads,
         PutPassThrough(t)
  PROVE  EachBlockOnce' /\ Life' /\ StartByte'
<1>0. TypeOK /\ Control
  BY DEF IInv
<1>1. PICK x \in Blocks : x = old[t] /\ Owns("arriving", t, x)
  BY DEF IInv, PutPassThrough, Q!PassThrough, TypeOK, Control, Owns
<1>2. /\ pc[t] = "put"
      /\ pc'[t] = "clear_magic"
      /\ \A u \in Threads : u # t => pc'[u] = pc[u]
      /\ \A c \in Blocks : c # x => SameMemory(c)
      /\ place'[x] = place[x]
      /\ hdr'[x] = hdr[x]
      /\ magic'[x] = magic[x]
      /\ shadow'[x] = shadow[x]
      /\ freeTid'[x] = freeTid[x]
  BY <1>0, <1>1, AllocatorAssumption
     DEF TypeOK, SameMemory, Place, State, PutPassThrough, Goto, mem,
         app, quarantine, Q!PassThrough
<1>3. "arriving" \in Owners /\ t \in Owner /\ "rec" \in Owners /\ t \in Owner
  BY DEF Owners, Owner
<1>4. \A l \in Owners, u \in Owner : Owns(l, u, x) <=> l = "arriving" /\ u = t
  BY <1>1, <1>3, Sole DEF IInv
<1>5. Moves({x}, "rec", t)
  <2>1. /\ arriving[t] = {x}
        /\ rec[t] = None
        /\ arriving'[t] = {}
        /\ \A u \in Threads : u # t => arriving'[u] = arriving[u]
        /\ rec'[t] = x
        /\ \A u \in Threads : u # t => rec'[u] = rec[u]
        /\ old'[t] = None
        /\ \A u \in Threads : u # t => old'[u] = old[u]
        /\ UNCHANGED <<free, held, global, new, cached, leaving>>
    <3>1. arriving[t] = {x} /\ rec[t] = None
      BY <1>1, <1>2, Zenon DEF IInv, Control
    <3>2. /\ arriving'[t] = {}
          /\ \A u \in Threads : u # t => arriving'[u] = arriving[u]
          /\ UNCHANGED <<global, cached, leaving>>
      BY <1>1, <3>1 DEF PutPassThrough, Q!PassThrough, IInv, TypeOK
    <3>3. /\ rec'[t] = x
          /\ \A u \in Threads : u # t => rec'[u] = rec[u]
          /\ old'[t] = None
          /\ \A u \in Threads : u # t => old'[u] = old[u]
          /\ UNCHANGED <<free, held, new>>
      BY <1>1 DEF PutPassThrough, app, IInv, TypeOK
    <3> QED
      BY <3>1, <3>2, <3>3
  <2>2. ASSUME NEW c \in Blocks, c # x, NEW l \in Owners, NEW u \in Owner
        PROVE  Owns(l, u, c)' <=> Owns(l, u, c)
    <3>1. ASSUME u \in Threads
          PROVE  /\ c \in arriving'[u] <=> c \in arriving[u]
                 /\ rec'[u] = c <=> rec[u] = c
                 /\ old'[u] = c /\ pc'[u] # "put" <=> old[u] = c /\ pc[u] # "put"
      <4>1. CASE u = t
        BY <1>1, <1>2, <2>1, <2>2, <4>1, NoneApart
      <4>2. CASE u # t
        BY <1>2, <2>1, <3>1, <4>2
      <4> QED
        BY <4>1, <4>2
    <3>2. UNCHANGED <<free, held, global, new, cached, leaving>>
      BY <2>1
    <3> QED
      BY <3>1, <3>2 DEF Owns
  <2>3. ASSUME NEW l \in Owners, NEW u \in Owner
        PROVE  Owns(l, u, x)' <=> l = "rec" /\ u = t
    <3>1. Owns(l, u, x) <=> l = "arriving" /\ u = t
      BY <1>4
    <3>2. CASE u = t
      BY <1>1, <1>2, <2>1, <3>1, <3>2, NoneApart, Zenon DEF Owns
    <3>3. CASE u # t
      BY <1>1, <1>2, <2>1, <3>1, <3>3, NoneApart DEF Owns
    <3> QED
      BY <3>2, <3>3
  <2> QED
    BY <2>2, <2>3 DEF Moves
<1>6. LifeOf("arriving", t, x)
  BY <1>1, <1>3 DEF IInv, Life
<1>7. LifeOf("rec", t, x)'
  BY <1>1, <1>2, <1>6, NoneApart, Zenon DEF LifeOf, Live, Dead, Marked, Unborn,
      Waiting, ChunkState
<1>8. OnlyTouches(t, {x})
  <2>1. rec[t] = None
    BY <1>2, Zenon DEF IInv, Control
  <2> QED
    BY <1>1, <1>2, <2>1, NoneApart, Zenon DEF SamePhase, OnlyTouches
<1>9. StartByte'
  BY DEF IInv, StartByte, PutPassThrough, mem
<1>10. Life'
  BY <1>1, <1>3, <1>5, <1>7, <1>8, OthersKept, MovedLife DEF IInv
<1>11. EachBlockOnce'
  BY <1>3, <1>5, Moved DEF IInv
<1> QED
  BY <1>9, <1>10, <1>11

\* Step FreeBegin.
LEMMA FreeBeginStep ==
  ASSUME ~Misuse, IInv, NEW t \in Threads, NEW b \in Blocks,
         FreeBegin(t, b)
  PROVE  EachBlockOnce' /\ Life' /\ StartByte'
<1>0. TypeOK /\ Control
  BY DEF IInv
<1>1. b \in Blocks /\ Owns("held", None, b)
  BY DEF IInv, FreeBegin, TypeOK, Owns
<1>2. /\ pc[t] = "idle"
      /\ pc'[t] = "free"
      /\ \A u \in Threads : u # t => pc'[u] = pc[u]
      /\ \A c \in Blocks : c # b => SameMemory(c)
      /\ place'[b] = place[b]
      /\ hdr'[b] = hdr[b]
      /\ magic'[b] = magic[b]
      /\ shadow'[b] = shadow[b]
      /\ freeTid'[b] = freeTid[b]
  BY <1>0, <1>1, AllocatorAssumption
     DEF TypeOK, SameMemory, Place, State, FreeBegin, Goto, mem, app,
         quarantine
<1>3. "held" \in Owners /\ None \in Owner /\ "old" \in Owners /\ t \in Owner
  BY DEF Owners, Owner
<1>4. \A l \in Owners, u \in Owner : Owns(l, u, b) <=> l = "held" /\ u = None
  BY <1>1, <1>3, Sole DEF IInv
<1>5. Moves({b}, "old", t)
  <2>1. /\ held' = held \ {b}
        /\ old'[t] = b
        /\ \A u \in Threads : u # t => old'[u] = old[u]
        /\ old[t] = None
        /\ UNCHANGED <<free, global, new, rec, arriving, cached, leaving>>
    BY <1>0, <1>1, <1>2, NoneApart, Zenon
       DEF TypeOK, Control, FreeBegin, Goto, mem, app, quarantine
  <2>2. ASSUME NEW c \in Blocks, c # b, NEW l \in Owners, NEW u \in Owner
        PROVE  Owns(l, u, c)' <=> Owns(l, u, c)
    <3>1. CASE u # t
      BY <1>2, <2>1, <2>2, <3>1, Zenon DEF Owns
    <3>2. CASE u = t
      <4>1. old[t] # c /\ old'[t] # c
        BY <2>1, <2>2, NoneApart
      <4> QED
        BY <2>1, <2>2, <3>2, <4>1, NoneApart DEF Owns
    <3> QED
      BY <3>1, <3>2
  <2>3. ASSUME NEW l \in Owners, NEW u \in Owner
        PROVE  Owns(l, u, b)' <=> l = "old" /\ u = t
    <3>1. Owns(l, u, b) <=> l = "held" /\ u = None
      BY <1>4
    <3> QED
      BY <1>1, <1>2, <2>1, <3>1, NoneApart DEF Owns
  <2> QED
    BY <2>2, <2>3 DEF Moves
<1>6. LifeOf("held", None, b)
  BY <1>1, <1>3 DEF IInv, Life
<1>7. LifeOf("old", t, b)'
  BY <1>1, <1>2, <1>6, NoneApart, Zenon DEF LifeOf, Live, Dead, Marked, Unborn,
      Waiting, ChunkState
<1>8. OnlyTouches(t, {b})
  <2>1. rec[t] = None /\ new[t] = None /\ old[t] = None
    BY <1>2, Zenon DEF IInv, Control
  <2> QED
    BY <1>1, <1>2, <2>1, NoneApart DEF SamePhase, OnlyTouches
<1>9. StartByte'
  BY DEF IInv, StartByte, FreeBegin, mem
<1>10. Life'
  BY <1>1, <1>3, <1>5, <1>7, <1>8, OthersKept, MovedLife DEF IInv
<1>11. EachBlockOnce'
  BY <1>3, <1>5, Moved DEF IInv
<1> QED
  BY <1>9, <1>10, <1>11

\* Step ClearMagic.
LEMMA ClearMagicStep ==
  ASSUME ~Misuse, IInv, NEW t \in Threads,
         ClearMagic(t)
  PROVE  EachBlockOnce' /\ Life' /\ StartByte'
<1>0. TypeOK /\ Control
  BY DEF IInv
<1>1. PICK x \in Blocks : x = rec[t] /\ Owns("rec", t, x)
  BY DEF IInv, ClearMagic, TypeOK, Control, Owns
<1>2. /\ pc[t] = "clear_magic"
      /\ pc'[t] = "invalidate"
      /\ \A u \in Threads : u # t => pc'[u] = pc[u]
      /\ \A c \in Blocks : c # x => SameMemory(c)
      /\ place'[x] = place[x]
      /\ hdr'[x] = hdr[x]
      /\ magic'[x] = FALSE
      /\ shadow'[x] = shadow[x]
      /\ freeTid'[x] = freeTid[x]
  BY <1>0, <1>1, AllocatorAssumption
     DEF TypeOK, SameMemory, Place, State, ClearMagic, Goto, mem, app,
         quarantine
<1>3. "rec" \in Owners /\ t \in Owner
  BY DEF Owners, Owner
<1>4. \A l \in Owners, u \in Owner : Owns(l, u, x) <=> l = "rec" /\ u = t
  BY <1>1, <1>3, Sole DEF IInv
<1>5. Moves({x}, "rec", t)
  <2>1. \A b \in Blocks, l \in Owners, u \in Owner :
          Owns(l, u, b)' <=> Owns(l, u, b)
    BY <1>2, StaysPut, Zenon DEF ClearMagic, app
  <2> QED
    BY <1>4, <2>1 DEF Moves
<1>6. LifeOf("rec", t, x)
  BY <1>1, <1>3 DEF IInv, Life
<1>7. LifeOf("rec", t, x)'
  BY <1>1, <1>2, <1>6, NoneApart, Zenon DEF LifeOf, Live, Dead, Marked, Unborn,
      Waiting, ChunkState
<1>8. OnlyTouches(t, {x})
  BY <1>1, <1>2, NoneApart, Zenon DEF IInv, Control, SamePhase, OnlyTouches
<1>9. StartByte'
  BY Zenon DEF IInv, StartByte, ClearMagic, mem
<1>10. Life'
  BY <1>1, <1>3, <1>5, <1>7, <1>8, OthersKept, MovedLife DEF IInv
<1>11. EachBlockOnce'
  BY <1>3, <1>5, Moved DEF IInv
<1> QED
  BY <1>9, <1>10, <1>11

\* Step Invalidate.
LEMMA InvalidateStep ==
  ASSUME ~Misuse, IInv, NEW t \in Threads,
         Invalidate(t)
  PROVE  EachBlockOnce' /\ Life' /\ StartByte'
<1>0. TypeOK /\ Control
  BY DEF IInv
<1>1. PICK x \in Blocks : x = rec[t] /\ Owns("rec", t, x)
  BY DEF IInv, Invalidate, TypeOK, Control, Owns
<1>2. /\ pc[t] = "invalidate"
      /\ pc'[t] = "poison"
      /\ \A u \in Threads : u # t => pc'[u] = pc[u]
      /\ \A c \in Blocks : c # x => SameMemory(c)
      /\ place'[x] = place[x]
      /\ ChunkState(x)' = "INVALID"
      /\ place[x] # "start" => hdr'[x]["start"] = hdr[x]["start"]
      /\ place[x] = "start" => hdr'[x]["start"] = ChunkState(x)'
      /\ magic'[x] = magic[x]
      /\ shadow'[x] = shadow[x]
      /\ freeTid'[x] = freeTid[x]
  BY <1>0, <1>1, AllocatorAssumption
     DEF TypeOK, SameMemory, Place, State, Invalidate, Goto, mem, app,
         quarantine, SetChunkState, ChunkState
<1>3. "rec" \in Owners /\ t \in Owner
  BY DEF Owners, Owner
<1>4. \A l \in Owners, u \in Owner : Owns(l, u, x) <=> l = "rec" /\ u = t
  BY <1>1, <1>3, Sole DEF IInv
<1>5. Moves({x}, "rec", t)
  <2>1. \A b \in Blocks, l \in Owners, u \in Owner :
          Owns(l, u, b)' <=> Owns(l, u, b)
    BY <1>2, StaysPut DEF Invalidate, app
  <2> QED
    BY <1>4, <2>1 DEF Moves
<1>6. LifeOf("rec", t, x)
  BY <1>1, <1>3 DEF IInv, Life
<1>7. LifeOf("rec", t, x)'
  BY <1>1, <1>2, <1>6, NoneApart DEF LifeOf, Live, Dead, Marked, Unborn,
      Waiting, IInv, StartByte, TypeOK, Place
<1>8. OnlyTouches(t, {x})
  BY <1>1, <1>2, NoneApart, Zenon DEF IInv, Control, SamePhase, OnlyTouches
<1>9. StartByte'
  BY <1>1, <1>2 DEF IInv, StartByte, SameMemory
<1>10. Life'
  BY <1>1, <1>3, <1>5, <1>7, <1>8, OthersKept, MovedLife DEF IInv
<1>11. EachBlockOnce'
  BY <1>3, <1>5, Moved DEF IInv
<1> QED
  BY <1>9, <1>10, <1>11

\* Step PoisonRecycled.
LEMMA PoisonRecycledStep ==
  ASSUME ~Misuse, IInv, NEW t \in Threads,
         PoisonRecycled(t)
  PROVE  EachBlockOnce' /\ Life' /\ StartByte'
<1>0. TypeOK /\ Control
  BY DEF IInv
<1>1. PICK x \in Blocks : x = rec[t] /\ Owns("rec", t, x)
  BY DEF IInv, PoisonRecycled, TypeOK, Control, Owns
<1>2. /\ pc[t] = "poison"
      /\ pc'[t] = "deallocate"
      /\ \A u \in Threads : u # t => pc'[u] = pc[u]
      /\ \A c \in Blocks : c # x => SameMemory(c)
      /\ place'[x] = place[x]
      /\ hdr'[x] = hdr[x]
      /\ magic'[x] = magic[x]
      /\ shadow'[x] = "redzone"
      /\ freeTid'[x] = freeTid[x]
      /\ x \in Primary
  BY <1>0, <1>1, AllocatorAssumption
     DEF TypeOK, SameMemory, Place, State, PoisonRecycled, Goto, mem,
         app, quarantine, Control
<1>3. "rec" \in Owners /\ t \in Owner
  BY DEF Owners, Owner
<1>4. \A l \in Owners, u \in Owner : Owns(l, u, x) <=> l = "rec" /\ u = t
  BY <1>1, <1>3, Sole DEF IInv
<1>5. Moves({x}, "rec", t)
  <2>1. \A b \in Blocks, l \in Owners, u \in Owner :
          Owns(l, u, b)' <=> Owns(l, u, b)
    BY <1>2, StaysPut, Zenon DEF PoisonRecycled, app
  <2> QED
    BY <1>4, <2>1 DEF Moves
<1>6. LifeOf("rec", t, x)
  BY <1>1, <1>3 DEF IInv, Life
<1>7. LifeOf("rec", t, x)'
  BY <1>1, <1>2, <1>6, NoneApart, Zenon DEF LifeOf, Live, Dead, Marked, Unborn,
      Waiting, ChunkState
<1>8. OnlyTouches(t, {x})
  BY <1>1, <1>2, NoneApart, Zenon DEF IInv, Control, SamePhase, OnlyTouches
<1>9. StartByte'
  BY DEF IInv, StartByte, PoisonRecycled, mem
<1>10. Life'
  BY <1>1, <1>3, <1>5, <1>7, <1>8, OthersKept, MovedLife DEF IInv
<1>11. EachBlockOnce'
  BY <1>3, <1>5, Moved DEF IInv
<1> QED
  BY <1>9, <1>10, <1>11

\* Step DeallocatePrimary.
LEMMA DeallocatePrimaryStep ==
  ASSUME ~Misuse, IInv, NEW t \in Threads,
         DeallocatePrimary(t)
  PROVE  EachBlockOnce' /\ Life' /\ StartByte'
<1>0. TypeOK /\ Control
  BY DEF IInv
<1>1. PICK x \in Blocks : x = rec[t] /\ Owns("rec", t, x)
  BY DEF IInv, DeallocatePrimary, TypeOK, Control, Owns
<1>2. /\ pc[t] = "deallocate"
      /\ pc'[t] = "recycle"
      /\ \A u \in Threads : u # t => pc'[u] = pc[u]
      /\ \A c \in Blocks : c # x => SameMemory(c)
      /\ place'[x] = place[x]
      /\ hdr'[x] = hdr[x]
      /\ magic'[x] = magic[x]
      /\ shadow'[x] = shadow[x]
      /\ freeTid'[x] = freeTid[x]
      /\ x \in Primary
  BY <1>0, <1>1, AllocatorAssumption
     DEF TypeOK, SameMemory, Place, State, DeallocatePrimary, Goto, mem,
         app, quarantine, Control
<1>3. "rec" \in Owners /\ t \in Owner /\ "free" \in Owners /\ None \in Owner
  BY DEF Owners, Owner
<1>4. \A l \in Owners, u \in Owner : Owns(l, u, x) <=> l = "rec" /\ u = t
  BY <1>1, <1>3, Sole DEF IInv
<1>5. Moves({x}, "free", None)
  <2>1. /\ free' = free \cup {x}
        /\ rec'[t] = None
        /\ \A u \in Threads : u # t => rec'[u] = rec[u]
        /\ UNCHANGED <<held, global, new, old, arriving, cached, leaving>>
    BY <1>0, <1>1, <1>2, NoneApart
       DEF TypeOK, Control, DeallocatePrimary, Goto, mem, app, quarantine
  <2>2. ASSUME NEW c \in Blocks, c # x, NEW l \in Owners, NEW u \in Owner
        PROVE  Owns(l, u, c)' <=> Owns(l, u, c)
    BY <1>1, <1>2, <2>1, <2>2, NoneApart DEF Owns
  <2>3. ASSUME NEW l \in Owners, NEW u \in Owner
        PROVE  Owns(l, u, x)' <=> l = "free" /\ u = None
    <3>1. Owns(l, u, x) <=> l = "rec" /\ u = t
      BY <1>4
    <3> QED
      BY <1>1, <1>2, <2>1, <3>1, NoneApart DEF Owns
  <2> QED
    BY <2>2, <2>3 DEF Moves
<1>6. LifeOf("rec", t, x)
  BY <1>1, <1>3 DEF IInv, Life
<1>7. LifeOf("free", None, x)'
  BY <1>1, <1>2, <1>6, NoneApart, Zenon DEF LifeOf, Live, Dead, Marked, Unborn,
      Waiting, ChunkState
<1>8. OnlyTouches(t, {x})
  BY <1>1, <1>2, NoneApart, Zenon DEF IInv, Control, SamePhase, OnlyTouches
<1>9. StartByte'
  BY DEF IInv, StartByte, DeallocatePrimary, mem
<1>10. Life'
  BY <1>1, <1>3, <1>5, <1>7, <1>8, OthersKept, MovedLife DEF IInv
<1>11. EachBlockOnce'
  BY <1>3, <1>5, Moved DEF IInv
<1> QED
  BY <1>9, <1>10, <1>11

\* Step DeallocateSecondary.
LEMMA DeallocateSecondaryStep ==
  ASSUME ~Misuse, IInv, NEW t \in Threads,
         DeallocateSecondary(t)
  PROVE  EachBlockOnce' /\ Life' /\ StartByte'
<1>0. TypeOK /\ Control
  BY DEF IInv
<1>1. PICK x \in Blocks : x = rec[t] /\ Owns("rec", t, x)
  BY DEF IInv, DeallocateSecondary, TypeOK, Control, Owns
<1>2. /\ pc[t] = "clear_magic"
      /\ pc'[t] = "recycle"
      /\ \A u \in Threads : u # t => pc'[u] = pc[u]
      /\ \A c \in Blocks : c # x => SameMemory(c)
      /\ hdr'[x]["start"] = "INVALID"
      /\ x \notin Primary
      /\ magic'[x] = FALSE
      /\ shadow'[x] = "zero"
      /\ freeTid'[x] = freeTid[x]
  BY <1>0, <1>1, AllocatorAssumption
     DEF TypeOK, SameMemory, Place, State, DeallocateSecondary, Goto,
         mem, app, quarantine, Blank
<1>3. "rec" \in Owners /\ t \in Owner /\ "free" \in Owners /\ None \in Owner
  BY DEF Owners, Owner
<1>4. \A l \in Owners, u \in Owner : Owns(l, u, x) <=> l = "rec" /\ u = t
  BY <1>1, <1>3, Sole DEF IInv
<1>5. Moves({x}, "free", None)
  <2>1. /\ free' = free \cup {x}
        /\ rec'[t] = None
        /\ \A u \in Threads : u # t => rec'[u] = rec[u]
        /\ UNCHANGED <<held, global, new, old, arriving, cached, leaving>>
    <3>1. /\ free' = free \cup {x}
          /\ rec' = [rec EXCEPT ![t] = None]
          /\ UNCHANGED <<held, global, new, old, arriving, cached, leaving>>
      BY <1>1 DEF DeallocateSecondary, app, quarantine
    <3>2. rec \in [Threads -> Blocks \cup {None}]
      BY <1>0 DEF TypeOK
    <3> QED
      BY <3>1, <3>2
  <2>2. ASSUME NEW c \in Blocks, c # x, NEW l \in Owners, NEW u \in Owner
        PROVE  Owns(l, u, c)' <=> Owns(l, u, c)
    BY <1>1, <1>2, <2>1, <2>2, NoneApart, Zenon DEF Owns
  <2>3. ASSUME NEW l \in Owners, NEW u \in Owner
        PROVE  Owns(l, u, x)' <=> l = "free" /\ u = None
    <3>1. Owns(l, u, x) <=> l = "rec" /\ u = t
      BY <1>4
    <3> QED
      BY <1>1, <1>2, <2>1, <3>1, NoneApart DEF Owns
  <2> QED
    BY <2>2, <2>3 DEF Moves
<1>6. LifeOf("rec", t, x)
  BY <1>1, <1>3 DEF IInv, Life
<1>7. LifeOf("free", None, x)'
  BY <1>1, <1>2, <1>6, NoneApart, Zenon DEF LifeOf, Live, Dead, Marked, Unborn,
      Waiting
<1>8. OnlyTouches(t, {x})
  BY <1>1, <1>2, NoneApart, Zenon DEF IInv, Control, SamePhase, OnlyTouches
<1>9. StartByte'
  BY <1>1, <1>2, <1>6 DEF IInv, StartByte, SameMemory, LifeOf, Unborn
<1>10. Life'
  BY <1>1, <1>3, <1>5, <1>7, <1>8, OthersKept, MovedLife DEF IInv
<1>11. EachBlockOnce'
  BY <1>3, <1>5, Moved DEF IInv
<1> QED
  BY <1>9, <1>10, <1>11

\* Step RecycleNext.
LEMMA RecycleNextStep ==
  ASSUME ~Misuse, IInv, NEW t \in Threads, NEW b \in Blocks,
         RecycleNext(t, b)
  PROVE  EachBlockOnce' /\ Life' /\ StartByte'
<1>0. TypeOK /\ Control
  BY DEF IInv
<1>1. b \in Blocks /\ Owns("leaving", t, b)
  BY DEF IInv, RecycleNext, Q!Recycle, TypeOK, Owns
<1>2. /\ pc[t] = "recycle"
      /\ pc'[t] = "clear_magic"
      /\ \A u \in Threads : u # t => pc'[u] = pc[u]
      /\ \A c \in Blocks : c # b => SameMemory(c)
      /\ place'[b] = place[b]
      /\ hdr'[b] = hdr[b]
      /\ magic'[b] = magic[b]
      /\ shadow'[b] = shadow[b]
      /\ freeTid'[b] = freeTid[b]
  BY <1>0, <1>1, AllocatorAssumption
     DEF TypeOK, SameMemory, Place, State, RecycleNext, Goto, mem, app,
         quarantine, Q!Recycle
<1>3. "leaving" \in Owners /\ t \in Owner /\ "rec" \in Owners /\ t \in Owner
  BY DEF Owners, Owner
<1>4. \A l \in Owners, u \in Owner : Owns(l, u, b) <=> l = "leaving" /\ u = t
  BY <1>1, <1>3, Sole DEF IInv
<1>5. Moves({b}, "rec", t)
  <2>1. /\ leaving'[t] = leaving[t] \ {b}
        /\ \A u \in Threads : u # t => leaving'[u] = leaving[u]
        /\ rec'[t] = b
        /\ \A u \in Threads : u # t => rec'[u] = rec[u]
        /\ rec[t] = None
        /\ UNCHANGED <<free, held, global, new, old, arriving, cached>>
    BY <1>0, <1>1, <1>2, NoneApart
       DEF TypeOK, Control, RecycleNext, Goto, mem, app, quarantine,
           Q!Recycle
  <2>2. ASSUME NEW c \in Blocks, c # b, NEW l \in Owners, NEW u \in Owner
        PROVE  Owns(l, u, c)' <=> Owns(l, u, c)
    BY <1>1, <1>2, <2>1, <2>2, NoneApart, Zenon DEF Owns
  <2>3. ASSUME NEW l \in Owners, NEW u \in Owner
        PROVE  Owns(l, u, b)' <=> l = "rec" /\ u = t
    <3>1. Owns(l, u, b) <=> l = "leaving" /\ u = t
      BY <1>4
    <3> QED
      BY <1>1, <1>2, <2>1, <3>1, NoneApart, Zenon DEF Owns
  <2> QED
    BY <2>2, <2>3 DEF Moves
<1>6. LifeOf("leaving", t, b)
  BY <1>1, <1>3 DEF IInv, Life
<1>7. LifeOf("rec", t, b)'
  BY <1>1, <1>2, <1>6, NoneApart, Zenon DEF LifeOf, Live, Dead, Marked, Unborn,
      Waiting, ChunkState
<1>8. OnlyTouches(t, {b})
  <2>1. rec[t] = None
    BY <1>2, Zenon DEF IInv, Control
  <2> QED
    BY <1>1, <1>2, <2>1, NoneApart, Zenon DEF SamePhase, OnlyTouches
<1>9. StartByte'
  BY Zenon DEF IInv, StartByte, RecycleNext, mem
<1>10. Life'
  BY <1>1, <1>3, <1>5, <1>7, <1>8, OthersKept, MovedLife DEF IInv
<1>11. EachBlockOnce'
  BY <1>3, <1>5, Moved DEF IInv
<1> QED
  BY <1>9, <1>10, <1>11

\* A step that only takes the thread from one label to another, where neither
\* label says anything of the memory.
LEMMA QuietStep ==
  ASSUME IInv, NEW t \in Threads, NEW l,
         pc' = [pc EXCEPT ![t] = l],
         UNCHANGED <<free, mem, held, quarantine, new, old, rec>>,
         pc[t] \notin {"unpoison", "publish", "set_magic", "mark", "context",
                       "put", "clear_magic", "invalidate", "poison",
                       "deallocate"},
         l \notin {"unpoison", "publish", "set_magic", "mark", "context", "put",
                   "clear_magic", "invalidate", "poison", "deallocate"}
  PROVE  EachBlockOnce' /\ Life' /\ StartByte'
<1>2. pc'[t] = l /\ \A u \in Threads : u # t => pc'[u] = pc[u]
  BY DEF IInv, TypeOK
<1>1. Moves({}, "held", None)
  BY <1>2, StaysPut DEF Moves
<1>3. rec[t] = None
  BY Zenon DEF IInv, Control
<1>4. OnlyTouches(t, {})
  BY <1>2, <1>3, NoneApart DEF OnlyTouches, SamePhase, SameMemory, mem
<1>5. "held" \in Owners /\ None \in Owner
  BY DEF Owners, Owner
<1>6. EachBlockOnce'
  BY <1>1, <1>5, Moved DEF IInv
<1>7. Life'
  BY <1>1, <1>4, <1>5, OthersKept, MovedLife DEF IInv
<1>8. StartByte'
  BY DEF IInv, StartByte, mem
<1> QED
  BY <1>6, <1>7, <1>8

\* Transfer: the local cache of the thread goes to the global cache.
LEMMA TransferStep ==
  ASSUME IInv, NEW t \in Threads, Transfer(t)
  PROVE  EachBlockOnce' /\ Life' /\ StartByte'
<1>1. PICK S \in SUBSET Blocks : S = cached[t]
  BY DEF IInv, TypeOK
<1>2. /\ pc[t] = "drain"
      /\ pc'[t] = "extract"
      /\ \A u \in Threads : u # t => pc'[u] = pc[u]
      /\ \A b \in Blocks : SameMemory(b)
  BY DEF IInv, TypeOK, Transfer, Goto, SameMemory, mem
<1>3. ASSUME NEW b \in Blocks, b \in S
      PROVE  /\ \A l \in Owners, u \in Owner :
                  Owns(l, u, b) <=> l = "cached" /\ u = t
             /\ LifeOf("cached", t, b)
  <2>1. Owns("cached", t, b)
    BY <1>1, <1>3 DEF Owns
  <2> QED
    BY <2>1, Sole DEF IInv, Life, Owners, Owner
<1>4. Moves(S, "global", None)
  <2>1. /\ global' = global \cup S
        /\ cached'[t] = {}
        /\ \A u \in Threads : u # t => cached'[u] = cached[u]
        /\ UNCHANGED <<free, held, new, old, rec, arriving, leaving>>
    BY <1>1 DEF IInv, TypeOK, Transfer, Q!Transfer, app
  <2>2. ASSUME NEW b \in Blocks, b \notin S,
               NEW l \in Owners, NEW u \in Owner
        PROVE  Owns(l, u, b)' <=> Owns(l, u, b)
    BY <1>1, <1>2, <2>1, <2>2, Zenon DEF Owns
  <2>3. ASSUME NEW b \in Blocks, b \in S,
               NEW l \in Owners, NEW u \in Owner
        PROVE  Owns(l, u, b)' <=> l = "global" /\ u = None
    <3>1. Owns(l, u, b) <=> l = "cached" /\ u = t
      BY <1>3, <2>3
    <3> QED
      BY <1>1, <1>2, <2>1, <2>3, <3>1, NoneApart DEF Owns
  <2> QED
    BY <2>2, <2>3 DEF Moves
<1>5. ASSUME NEW b \in Blocks, b \in S
      PROVE  LifeOf("global", None, b)'
  <2>1. LifeOf("cached", t, b) /\ SameMemory(b)
    BY <1>2, <1>3, <1>5
  <2> QED
    BY <2>1, Zenon DEF LifeOf, Dead, Marked, ChunkState, SameMemory
<1>6. OnlyTouches(t, S)
  <2>1. rec[t] = None
    BY <1>2, Zenon DEF IInv, Control
  <2> QED
    BY <1>2, <2>1, NoneApart DEF OnlyTouches, SamePhase
<1>7. "global" \in Owners /\ None \in Owner
  BY DEF Owners, Owner
<1>8. EachBlockOnce'
  BY <1>4, <1>7, Moved DEF IInv
<1>9. Life'
  BY <1>4, <1>5, <1>6, <1>7, OthersKept, MovedLife DEF IInv
<1>10. StartByte'
  BY <1>2 DEF IInv, StartByte, SameMemory
<1> QED
  BY <1>8, <1>9, <1>10

\* Extract: some blocks of the global cache go to the thread that recycles.
LEMMA ExtractStep ==
  ASSUME IInv, NEW t \in Threads, NEW out \in SUBSET global, Extract(t, out)
  PROVE  EachBlockOnce' /\ Life' /\ StartByte'
<1>1. PICK S \in SUBSET Blocks : S = out /\ S \subseteq global
  BY DEF IInv, TypeOK
<1>2. /\ pc[t] = "extract"
      /\ pc'[t] = "recycle"
      /\ \A u \in Threads : u # t => pc'[u] = pc[u]
      /\ \A b \in Blocks : SameMemory(b)
  BY DEF IInv, TypeOK, Extract, Goto, SameMemory, mem
<1>3. ASSUME NEW b \in Blocks, b \in S
      PROVE  /\ \A l \in Owners, u \in Owner :
                  Owns(l, u, b) <=> l = "global" /\ u = None
             /\ LifeOf("global", None, b)
  <2>1. Owns("global", None, b)
    BY <1>1, <1>3 DEF Owns
  <2> QED
    BY <2>1, Sole DEF IInv, Life, Owners, Owner
<1>4. Moves(S, "leaving", t)
  <2>1. /\ global' = global \ S
        /\ leaving[t] = {}
        /\ leaving'[t] = S
        /\ \A u \in Threads : u # t => leaving'[u] = leaving[u]
        /\ UNCHANGED <<free, held, new, old, rec, arriving, cached>>
    BY <1>1 DEF IInv, TypeOK, Extract, Q!Extract, app
  <2>2. ASSUME NEW b \in Blocks, b \notin S,
               NEW l \in Owners, NEW u \in Owner
        PROVE  Owns(l, u, b)' <=> Owns(l, u, b)
    BY <1>1, <1>2, <2>1, <2>2, Zenon DEF Owns
  <2>3. ASSUME NEW b \in Blocks, b \in S,
               NEW l \in Owners, NEW u \in Owner
        PROVE  Owns(l, u, b)' <=> l = "leaving" /\ u = t
    <3>1. Owns(l, u, b) <=> l = "global" /\ u = None
      BY <1>3, <2>3
    <3> QED
      BY <1>1, <1>2, <2>1, <2>3, <3>1, NoneApart DEF Owns
  <2> QED
    BY <2>2, <2>3 DEF Moves
<1>5. ASSUME NEW b \in Blocks, b \in S
      PROVE  LifeOf("leaving", t, b)'
  <2>1. LifeOf("global", None, b) /\ SameMemory(b)
    BY <1>2, <1>3, <1>5, Zenon
  <2> QED
    BY <2>1, Zenon DEF LifeOf, Dead, Marked, ChunkState, SameMemory
<1>6. OnlyTouches(t, S)
  <2>1. rec[t] = None
    BY <1>2, Zenon DEF IInv, Control
  <2> QED
    BY <1>2, <2>1, NoneApart DEF OnlyTouches, SamePhase
<1>7. "leaving" \in Owners /\ t \in Owner
  BY DEF Owners, Owner
<1>8. EachBlockOnce'
  BY <1>4, <1>7, Moved DEF IInv
<1>9. Life'
  BY <1>4, <1>5, <1>6, <1>7, OthersKept, MovedLife DEF IInv
<1>10. StartByte'
  BY <1>2 DEF IInv, StartByte, SameMemory
<1> QED
  BY <1>8, <1>9, <1>10

-----------------------------------------------------------------------------
(* The invariant *)

\* The invariant holds before the first Allocate.
LEMMA InitIInv ==
  ASSUME Init
  PROVE  IInv
<1>1. TypeOK
  BY DEF Init, Q!Init, TypeOK, Labels, Blank, Place, State
<1>2. Control
  BY Zenon DEF Init, Q!Init, Control
<1>3. ASSUME NEW b \in Blocks, NEW l \in Owners, NEW u \in Owner
      PROVE  Owns(l, u, b) <=> l = "free" /\ u = None
  BY NoneApart DEF Init, Q!Init, Owns
<1>4. EachBlockOnce
  <2>1. "free" \in Owners /\ None \in Owner
    BY DEF Owners, Owner
  <2> QED
    BY <1>3, <2>1 DEF EachBlockOnce, Owner
<1>5. \A b \in Blocks : LifeOf("free", None, b)
  BY Zenon DEF Init, LifeOf, Unborn, Waiting, Blank, Place
<1>6. Life
  BY <1>3, <1>5 DEF Life
<1>7. StartByte
  BY Zenon DEF Init, StartByte, Blank, Place
<1> QED
  BY <1>1, <1>2, <1>4, <1>6, <1>7 DEF IInv

\* A free that finds the chunk not allocated does not happen here.
LEMMA NoReport ==
  ASSUME IInv, NEW t \in Threads
  PROVE  ~ReportInvalidFree(t)
<1> SUFFICES ASSUME ReportInvalidFree(t) PROVE FALSE
  OBVIOUS
<1>1. old[t] \in Blocks /\ Owns("old", t, old[t])
  BY DEF IInv, TypeOK, Control, Owns, ReportInvalidFree
<1>2. LifeOf("old", t, old[t])
  BY <1>1 DEF IInv, Life, Owners, Owner
<1> QED
  BY <1>2, Zenon DEF LifeOf, Live, ReportInvalidFree

\* Every step of Allocate, Deallocate, Reallocate and Recycle keeps the invariant.
LEMMA StepIInv ==
  ASSUME ~Misuse, IInv, [Next]_vars
  PROVE  IInv'
<1>1. TypeOK' /\ Control'
  BY ControlStep, AllocatorAssumption DEF IInv
<1>2. CASE UNCHANGED vars
  <2>2. ASSUME NEW b \in Blocks, NEW k \in Owners, NEW t \in Owner
        PROVE  /\ Owns(k, t, b)' <=> Owns(k, t, b)
               /\ LifeOf(k, t, b) => LifeOf(k, t, b)'
    <3>1. SameMemory(b) /\ SamePhase(k, t)
      BY <1>2 DEF vars, mem, SameMemory, SamePhase
    <3>2. Owns(k, t, b)' <=> Owns(k, t, b)
      BY <1>2 DEF vars, app, quarantine, Owns
    <3> QED
      BY <3>1, <3>2, LifeKept
  <2>1. EachBlockOnce'
    <3>1. Moves({}, "held", None) /\ "held" \in Owners /\ None \in Owner
      BY <2>2 DEF Moves, Owners, Owner
    <3> QED
      BY <3>1, Moved DEF IInv
  <2>3. Life'
    BY <2>2 DEF IInv, Life, Owner
  <2>4. StartByte'
    BY <1>2 DEF vars, mem, IInv, StartByte
  <2> QED
    BY <1>1, <2>1, <2>3, <2>4 DEF IInv
<1>3. ASSUME NEW t \in Threads, Malloc(t) \/ Free(t) \/ Drain(t)
      PROVE  EachBlockOnce' /\ Life' /\ StartByte'
  <2>1. CASE MallocBegin(t)
    BY <1>3, <2>1, QuietStep, Zenon DEF MallocBegin, Goto, app
  <2>2. CASE MallocFails(t)
    <3>1. CASE old[t] # None
      BY <1>3, <2>2, <3>1, MallocFailsStep
    <3>2. CASE old[t] = None
      <4>1. held' = held /\ old' = old
        BY <1>3, <2>2, <3>2 DEF MallocFails, IInv, TypeOK
      <4> QED
        BY <1>3, <2>2, <4>1, QuietStep, Zenon DEF MallocFails, Goto
    <3> QED
      BY <3>1, <3>2
  <2>3. CASE Unpoison(t)
    BY <1>3, <2>3, UnpoisonStep
  <2>4. CASE Publish(t)
    BY <1>3, <2>4, PublishStep
  <2>5. CASE SetMagic(t)
    BY <1>3, <2>5, SetMagicStep
  <2>6. CASE CheckOld(t)
    BY <1>3, <2>6, QuietStep, Zenon DEF CheckOld, Goto, app
  <2>7. CASE Return(t)
    <3>1. CASE new[t] # None
      BY <1>3, <2>7, <3>1, ReturnStep
    <3>2. CASE new[t] = None
      <4>1. held' = held /\ new' = new
        BY <1>3, <2>7, <3>2 DEF Return, IInv, TypeOK
      <4> QED
        BY <1>3, <2>7, <4>1, QuietStep, Zenon DEF Return, Goto
    <3> QED
      BY <3>1, <3>2
  <2>8. CASE \E b \in Blocks : ReallocBegin(t, b)
    BY <1>3, <2>8, ReallocBeginStep
  <2>9. CASE \E b \in Blocks, p \in Place, s \in State : AllocateBlock(t, b, p, s)
    BY <1>3, <2>9, AllocateBlockStep
  <2>10. CASE FreeIgnored(t)
    BY <1>3, <2>10, FreeIgnoredStep
  <2>11. CASE SetQuarantineFlagIfAllocated(t)
    BY <1>3, <2>11, SetQuarantineFlagIfAllocatedStep
  <2>12. CASE ReportInvalidFree(t)
    BY <1>3, <2>12, NoReport
  <2>13. CASE MarkContext(t)
    BY <1>3, <2>13, MarkContextStep
  <2>14. CASE QuarantineChunk(t)
    BY <1>3, <2>14, QuarantineChunkStep
  <2>15. CASE PutQuarantine(t)
    BY <1>3, <2>15, PutQuarantineStep
  <2>16. CASE PutPassThrough(t)
    BY <1>3, <2>16, PutPassThroughStep
  <2>17. CASE \E b \in Blocks : FreeBegin(t, b)
    BY <1>3, <2>17, FreeBeginStep
  <2>18. CASE DrainBegin(t)
    BY <1>3, <2>18, QuietStep, Zenon DEF DrainBegin, Goto, app
  <2>19. CASE SkipDrain(t)
    BY <1>3, <2>19, QuietStep, Zenon DEF SkipDrain, Goto, app
  <2>20. CASE Transfer(t)
    BY <1>3, <2>20, TransferStep
  <2>21. CASE RecycleDone(t)
    BY <1>3, <2>21, QuietStep, Zenon DEF RecycleDone, Goto, app
  <2>22. CASE ClearMagic(t)
    BY <1>3, <2>22, ClearMagicStep
  <2>23. CASE Invalidate(t)
    BY <1>3, <2>23, InvalidateStep
  <2>24. CASE PoisonRecycled(t)
    BY <1>3, <2>24, PoisonRecycledStep
  <2>25. CASE DeallocatePrimary(t)
    BY <1>3, <2>25, DeallocatePrimaryStep
  <2>26. CASE DeallocateSecondary(t)
    BY <1>3, <2>26, DeallocateSecondaryStep
  <2>27. CASE \E b \in Blocks : RecycleNext(t, b)
    BY <1>3, <2>27, RecycleNextStep
  <2>28. CASE \E out \in SUBSET global : Extract(t, out)
    BY <1>3, <2>28, ExtractStep
  <2> QED
    BY <1>3, <2>1, <2>2, <2>3, <2>4, <2>5, <2>6, <2>7, <2>8, <2>9, <2>10,
       <2>11, <2>12, <2>13, <2>14, <2>15, <2>16, <2>17, <2>18, <2>19,
       <2>20, <2>21, <2>22, <2>23, <2>24, <2>25, <2>26, <2>27, <2>28
       DEF Malloc, Free, Drain
<1> QED
  BY <1>1, <1>2, <1>3 DEF Next, IInv

-----------------------------------------------------------------------------
(* The theorems *)

\* Every variable keeps its type, whatever the application does.
THEOREM AllocatorTypes == Spec => []TypeOK
<1>1. Init => TypeOK /\ Control
  BY InitIInv DEF IInv
<1>2. TypeOK /\ Control /\ [Next]_vars => TypeOK' /\ Control'
  BY ControlStep, AllocatorAssumption
<1> QED
  BY <1>1, <1>2, PTL DEF Spec

\* The inductive invariant holds when the application frees only what it owns.
THEOREM AllocatorInvariant == ASSUME ~Misuse PROVE Spec => []IInv
<1>1. Init => IInv
  BY InitIInv
<1>2. IInv /\ [Next]_vars => IInv'
  BY StepIInv
<1> QED
  BY <1>1, <1>2, PTL DEF Spec

\* No block is lost and none has two owners, for any number of threads that
\* allocate, reallocate, free, drain and purge.
THEOREM BlocksHaveOneOwner == ASSUME ~Misuse PROVE Spec => []EachBlockOnce
<1>1. IInv => EachBlockOnce
  BY DEF IInv
<1> QED
  BY <1>1, AllocatorInvariant, PTL

\* No CHECK fails and no legal free is reported.
THEOREM LegalCallsAreNotReported ==
  ASSUME ~Misuse PROVE Spec => []LegalCallsPass
<1>1. ASSUME IInv PROVE LegalCallsPass
  <2> SUFFICES ASSUME NEW t \in Threads
               PROVE  /\ pc[t] \in {"check_old", "free"} =>
                           ChunkState(old[t]) = "ALLOCATED"
                      /\ pc[t] = "context" => ChunkState(old[t]) = "QUARANTINE"
                      /\ pc[t] = "clear_magic" =>
                           (place[rec[t]] = "later" => magic[rec[t]])
                      /\ pc[t] = "invalidate" =>
                           ChunkState(rec[t]) = "QUARANTINE"
    BY Zenon DEF LegalCallsPass
  <2>1. CASE pc[t] \in {"check_old", "free", "context"}
    <3>1. old[t] \in Blocks /\ Owns("old", t, old[t])
      BY <1>1, <2>1 DEF IInv, TypeOK, Control, Owns
    <3>2. LifeOf("old", t, old[t])
      BY <1>1, <3>1 DEF IInv, Life, Owners, Owner
    <3> QED
      BY <2>1, <3>2, Zenon DEF LifeOf, Live, Dead
  <2>2. CASE pc[t] \in {"clear_magic", "invalidate"}
    <3>1. rec[t] \in Blocks /\ Owns("rec", t, rec[t])
      BY <1>1, <2>2 DEF IInv, TypeOK, Control, Owns
    <3>2. LifeOf("rec", t, rec[t])
      BY <1>1, <3>1 DEF IInv, Life, Owners, Owner
    <3> QED
      BY <2>2, <3>2, Zenon DEF LifeOf, Dead, Marked
  <2> QED
    BY <2>1, <2>2
<1> QED
  BY <1>1, AllocatorInvariant, PTL

\* The magic word is there only while the header lies later.
LEMMA MagicPlace ==
  ASSUME IInv, NEW b \in Blocks
  PROVE  magic[b] => place[b] = "later"
<1>1. PICK k \in Owners, t \in Owner : Owns(k, t, b)
  BY Zenon DEF IInv, EachBlockOnce, Owner
<1>2. LifeOf(k, t, b)
  BY <1>1 DEF IInv, Life
<1>3. k = "rec" => pc[t] \in {"clear_magic", "invalidate", "poison", "deallocate"}
  BY <1>1, NoneApart, Zenon DEF IInv, Control, Owns
<1> QED
  BY <1>2, <1>3, Zenon DEF LifeOf, Unborn, Live, Dead, Marked, Owners

\* The lookup never answers with anything but the header of the current chunk,
\* once it is initialised and until it is given up.
THEOREM LookupIsSound == ASSUME ~Misuse PROVE Spec => []LookupSound
<1>1. ASSUME IInv PROVE LookupSound
  <2> SUFFICES ASSUME NEW b \in Blocks, GetAsanChunk(b) # "null"
               PROVE  /\ GetAsanChunk(b) = place[b]
                      /\ b \notin free
                      /\ \A t \in Threads :
                           /\ new[t] = b => pc[t] \notin {"unpoison", "publish"}
                           /\ rec[t] = b => pc[t] \notin {"poison", "deallocate"}
    BY DEF LookupSound
  <2>1. magic[b] \/ hdr[b]["start"] # "INVALID"
    BY DEF GetAsanChunk
  <2>2. ~Unborn(b)
    BY <2>1 DEF Unborn
  <2>3. GetAsanChunk(b) = place[b]
    <3>1. GetAsanChunk(b) = IF magic[b] THEN "later" ELSE "start"
      BY DEF GetAsanChunk
    <3> QED
      BY <1>1, <2>1, <3>1, MagicPlace DEF IInv, TypeOK, Place, StartByte
  <2>4. \A k \in Owners, t \in Owner : Owns(k, t, b) => LifeOf(k, t, b)
    BY <1>1 DEF IInv, Life
  <2>5. b \notin free
    <3>1. b \in free => Owns("free", None, b)
      BY Zenon DEF Owns
    <3> QED
      BY <2>2, <2>4, <3>1, Zenon DEF LifeOf, Owners, Owner
  <2>6. ASSUME NEW t \in Threads, new[t] = b
        PROVE  pc[t] \notin {"unpoison", "publish"}
    <3>1. Owns("new", t, b)
      BY <2>6 DEF Owns
    <3> QED
      BY <2>2, <2>4, <3>1, Zenon DEF LifeOf, Owners, Owner
  <2>7. ASSUME NEW t \in Threads, rec[t] = b
        PROVE  pc[t] \notin {"poison", "deallocate"}
    <3>1. Owns("rec", t, b)
      BY <2>7 DEF Owns
    <3> QED
      BY <2>2, <2>4, <3>1, Zenon DEF LifeOf, Owners, Owner
  <2> QED
    BY <2>3, <2>5, <2>6, <2>7
<1> QED
  BY <1>1, AllocatorInvariant, PTL

\* The lookup finds every chunk the application owns, provided that the header
\* of a chunk of the secondary never lies at the start of its block.
THEOREM LiveChunksAreFound ==
  ASSUME ~Misuse, \A b \in Blocks \ Primary : Places[b] \subseteq {"later"}
  PROVE  Spec => []LiveIsFound
<1> DEFINE PlaceAllowed == \A b \in Blocks : place[b] \in Places[b]
<1>1. Init => PlaceAllowed
  BY Zenon DEF Init
<1>2. ASSUME TypeOK, PlaceAllowed, [Next]_vars PROVE PlaceAllowed'
  <2>1. CASE \E t \in Threads, b \in Blocks, p \in Place, s \in State :
               AllocateBlock(t, b, p, s)
    <3>1. PICK t \in Threads, b \in Blocks, p \in Place, s \in State :
            AllocateBlock(t, b, p, s)
      BY <2>1
    <3>2. place' = [place EXCEPT ![b] = p] /\ p \in Places[b]
      BY <3>1 DEF AllocateBlock
    <3> QED
      BY <1>2, <3>2 DEF TypeOK
  <2>2. CASE place' = place
    BY <1>2, <2>2
  <2>3. ASSUME NEW t \in Threads, Malloc(t)
        PROVE  \/ place' = place
               \/ \E b \in Blocks, p \in Place, s \in State :
                    AllocateBlock(t, b, p, s)
    BY <2>3, Zenon DEF mem, Malloc, MallocBegin, MallocFails, Unpoison, Publish,
                SetMagic, CheckOld, Return, ReallocBegin
  <2>4. ASSUME NEW t \in Threads, Free(t)
        PROVE  place' = place
    BY <2>4, Zenon DEF mem, Free, FreeIgnored, SetQuarantineFlagIfAllocated,
                ReportInvalidFree, MarkContext, QuarantineChunk, PutQuarantine,
                PutPassThrough, FreeBegin
  <2>5. ASSUME NEW t \in Threads, Drain(t)
        PROVE  place' = place
    BY <2>5, Zenon DEF mem, Drain, DrainBegin, SkipDrain, Transfer, RecycleDone,
                ClearMagic, Invalidate, PoisonRecycled, DeallocatePrimary,
                DeallocateSecondary, RecycleNext, Extract
  <2>6. CASE UNCHANGED vars
    BY <2>2, <2>6, Zenon DEF vars, mem
  <2> QED
    BY <1>2, <2>1, <2>2, <2>3, <2>4, <2>5, <2>6, Zenon DEF Next
<1>3. ASSUME IInv, PlaceAllowed PROVE LiveIsFound
  <2> SUFFICES ASSUME NEW b \in held PROVE GetAsanChunk(b) = place[b]
    BY DEF LiveIsFound
  <2>1. b \in Blocks /\ Owns("held", None, b)
    BY <1>3 DEF IInv, TypeOK, Owns
  <2>2. Live(b)
    BY <1>3, <2>1, Zenon DEF IInv, Life, LifeOf, Owners, Owner
  <2>3. place[b] \in Place
    BY <1>3, <2>1 DEF IInv, TypeOK
  <2>4. b \notin Primary => place[b] = "later"
    BY <1>3, <2>1
  <2> QED
    BY <2>2, <2>3, <2>4 DEF Live, Marked, ChunkState, GetAsanChunk, Place
<1>4. IInv => TypeOK
  BY DEF IInv
<1> QED
  BY <1>1, <1>2, <1>3, <1>4, AllocatorInvariant, PTL DEF Spec

\* The shadow of a block tells whether the application owns it.
THEOREM ShadowFollowsLife == ASSUME ~Misuse PROVE Spec => []ShadowTellsLife
<1>1. ASSUME IInv PROVE ShadowTellsLife
  <2> SUFFICES ASSUME NEW b \in Blocks
               PROVE  /\ b \in held => shadow[b] = "user"
                      /\ shadow[b] = "user" =>
                           \/ b \in held
                           \/ \E t \in Threads : b \in {new[t], old[t], rec[t]}
                      /\ (b \in global \/
                            \E t \in Threads : b \in cached[t] \cup leaving[t])
                           => shadow[b] = "freed"
                      /\ b \in free /\ b \in Primary => shadow[b] = "redzone"
    BY DEF ShadowTellsLife
  <2>1. \A k \in Owners, t \in Owner : Owns(k, t, b) => LifeOf(k, t, b)
    BY <1>1 DEF IInv, Life
  <2>2. b \in held => shadow[b] = "user"
    BY <2>1, Zenon DEF Owns, LifeOf, Live, Owners, Owner
  <2>3. b \in free /\ b \in Primary => shadow[b] = "redzone"
    BY <2>1, Zenon DEF Owns, LifeOf, Waiting, Owners, Owner
  <2>4. b \in global => shadow[b] = "freed"
    BY <2>1, Zenon DEF Owns, LifeOf, Owners, Owner
  <2>5. ASSUME NEW t \in Threads, b \in cached[t] \cup leaving[t]
        PROVE  shadow[b] = "freed"
    BY <2>1, <2>5, Zenon DEF Owns, LifeOf, Owners, Owner
  <2>6. ASSUME shadow[b] = "user", b \notin held
        PROVE  \E t \in Threads : b \in {new[t], old[t], rec[t]}
    <3>1. PICK k \in Owners, t \in Owner : Owns(k, t, b)
      BY <1>1, Zenon DEF IInv, EachBlockOnce, Owner
    <3>2. LifeOf(k, t, b)
      BY <2>1, <3>1
    <3>3. k \notin {"free", "held", "global", "cached", "leaving"}
      BY <2>6, <3>1, <3>2 DEF LifeOf, Waiting, Owns
    <3>4. k = "arriving" => t \in Threads /\ old[t] = b
      BY <1>1, <3>1, Zenon DEF IInv, Control, Owns
    <3> QED
      BY <3>1, <3>3, <3>4 DEF Owns
  <2> QED
    BY <2>2, <2>3, <2>4, <2>5, <2>6
<1> QED
  BY <1>1, AllocatorInvariant, PTL

-----------------------------------------------------------------------------
(* Any frees: the inductive invariant of an application that misuses free *)

\* Block b is between two owners of its memory: not yet published by Allocate,
\* freed and not yet recycled, or with the underlying allocator.  (k, t) says
\* with whom.
Stage(k, t, b) ==
  \/ k \in Owners \ {"held", "new", "old"} /\ Owns(k, t, b)
  \/ k = "new" /\ t \in Threads /\ new[t] = b /\ pc[t] \in {"unpoison", "publish"}
  \/ k = "old" /\ t \in Threads /\ old[t] = b /\ pc[t] \in {"mark", "context"}

\* The memory of a block in a stage: its chunk is not allocated, so that no
\* other free gets through.
StageByte(k, t, b) ==
  /\ ChunkState(b) # "ALLOCATED"
  /\ \/ k \in {"free", "new"}
     \/ k = "rec" /\ pc[t] \in {"poison", "deallocate"}
     => ChunkState(b) = "INVALID"
  /\ k \in {"arriving", "cached"} => freeTid[b] = t

OneStage ==
  \A b \in Blocks, k, l \in Owners, t, u \in Owner :
    Stage(k, t, b) /\ Stage(l, u, b) => k = l /\ t = u

StageBytes ==
  \A b \in Blocks, k \in Owners, t \in Owner : Stage(k, t, b) => StageByte(k, t, b)

\* No state was left where the header does not lie.
OtherByte(b) == \A p \in Place : p # place[b] => hdr[b][p] = "INVALID"

MInv ==
  /\ TypeOK /\ Control /\ OneStage /\ StageBytes
  /\ \A b \in Blocks : OtherByte(b)

\* A step leaves the blocks of S in stage k of thread t or in none, and the other
\* blocks as they are or out of their stage.
StageGoes(S, k, t) ==
  \A b \in Blocks, l \in Owners, u \in Owner :
    Stage(l, u, b)' => IF b \in S THEN l = k /\ u = t ELSE Stage(l, u, b)

\* It does not touch the memory of the other blocks.
OthersKeep(S) ==
  \A b \in Blocks : b \notin S =>
    /\ hdr'[b] = hdr[b] /\ place'[b] = place[b]
    /\ freeTid'[b] = freeTid[b]
    /\ \A u \in Threads : rec'[u] = b /\ pc'[u] \in {"poison", "deallocate"} =>
                            rec[u] = b /\ pc[u] \in {"poison", "deallocate"}

\* It leaves the memory of S as it must be.
LeftSound(S, k, t) ==
  \A b \in Blocks : b \in S => OtherByte(b)' /\ (Stage(k, t, b)' => StageByte(k, t, b)')

\* Such a step keeps the invariant.
LEMMA StageMoves ==
  ASSUME MInv, NEW S, NEW k \in Owners, NEW t \in Owner,
         StageGoes(S, k, t), OthersKeep(S), LeftSound(S, k, t)
  PROVE  OneStage' /\ StageBytes' /\ \A b \in Blocks : OtherByte(b)'
<1>1. OneStage /\ StageBytes /\ \A b \in Blocks : OtherByte(b)
  BY DEF MInv
<1>2. OneStage'
  BY <1>1 DEF OneStage, StageGoes
<1>3. ASSUME NEW b \in Blocks PROVE OtherByte(b)'
  <2>1. CASE b \in S
    BY <2>1 DEF LeftSound
  <2>2. CASE b \notin S
    <3>1. hdr'[b] = hdr[b] /\ place'[b] = place[b]
      BY <2>2 DEF OthersKeep
    <3>2. \A u \in Threads : rec'[u] = b /\ pc'[u] \in {"poison", "deallocate"} =>
                               rec[u] = b /\ pc[u] \in {"poison", "deallocate"}
      BY <2>2 DEF OthersKeep
    <3> QED
      BY <1>1, <3>1, <3>2 DEF OtherByte
  <2> QED
    BY <2>1, <2>2
<1>4. StageBytes'
  <2> SUFFICES ASSUME NEW b \in Blocks, NEW l \in Owners, NEW u \in Owner,
                      Stage(l, u, b)'
               PROVE  StageByte(l, u, b)'
    BY DEF StageBytes
  <2>1. CASE b \in S
    BY <2>1 DEF StageGoes, LeftSound
  <2>2. CASE b \notin S
    <3>1. Stage(l, u, b)
      BY <2>2 DEF StageGoes
    <3>2. StageByte(l, u, b)
      BY <1>1, <3>1 DEF StageBytes
    <3>3. ChunkState(b)' = ChunkState(b) /\ freeTid'[b] = freeTid[b]
      BY <2>2 DEF ChunkState, OthersKeep
    <3>4. l = "rec" => u \in Threads /\ rec'[u] = b
      BY DEF Stage, Owns
    <3>5. l = "rec" /\ pc'[u] \in {"poison", "deallocate"} =>
            pc[u] \in {"poison", "deallocate"}
      BY <2>2, <3>4 DEF OthersKeep
    <3> QED
      BY <3>2, <3>3, <3>5 DEF StageByte
  <2> QED
    BY <2>1, <2>2
<1> QED
  BY <1>2, <1>3, <1>4

\* Where a block is, kind by kind: in stage k of thread t, if anywhere.
OnlyAt(b, k, t) ==
  /\ b \in free => k = "free" /\ t = None
  /\ b \in global => k = "global" /\ t = None
  /\ \A u \in Threads :
       /\ new[u] = b /\ pc[u] \in {"unpoison", "publish"} => k = "new" /\ t = u
       /\ old[u] = b /\ pc[u] \in {"mark", "context"} => k = "old" /\ t = u
       /\ rec[u] = b => k = "rec" /\ t = u
       /\ b \in arriving[u] => k = "arriving" /\ t = u
       /\ b \in cached[u] => k = "cached" /\ t = u
       /\ b \in leaving[u] => k = "leaving" /\ t = u

\* A step brings block b into no stage.
EntersNone(b) ==
  /\ b \in free' => b \in free
  /\ b \in global' => b \in global
  /\ \A u \in Threads :
       /\ new'[u] = b /\ pc'[u] \in {"unpoison", "publish"} =>
            new[u] = b /\ pc[u] \in {"unpoison", "publish"}
       /\ old'[u] = b /\ pc'[u] \in {"mark", "context"} =>
            old[u] = b /\ pc[u] \in {"mark", "context"}
       /\ rec'[u] = b => rec[u] = b
       /\ b \in arriving'[u] => b \in arriving[u]
       /\ b \in cached'[u] => b \in cached[u]
       /\ b \in leaving'[u] => b \in leaving[u]

\* A block whose only stage can be k of t, kind by kind.
LEMMA InOneStage ==
  ASSUME NEW b, NEW k, NEW t,
         \A l \in Owners, u \in Owner : Stage(l, u, b) => l = k /\ u = t
  PROVE  OnlyAt(b, k, t)
<1>1. \A l \in Owners, u \in Owner : Stage(l, u, b) => l = k /\ u = t
  OBVIOUS
<1>2. None \in Owner /\ \A u \in Threads : u \in Owner
  BY DEF Owner
<1>3. /\ b \in free => k = "free" /\ t = None
      /\ b \in global => k = "global" /\ t = None
  BY <1>1, <1>2 DEF Stage, Owns, Owners
<1>4. ASSUME NEW u \in Threads
      PROVE  /\ new[u] = b /\ pc[u] \in {"unpoison", "publish"} => k = "new" /\ t = u
             /\ old[u] = b /\ pc[u] \in {"mark", "context"} => k = "old" /\ t = u
  BY <1>1, <1>2, Zenon DEF Stage, Owners
<1>5. ASSUME NEW u \in Threads
      PROVE  /\ rec[u] = b => k = "rec" /\ t = u
             /\ b \in arriving[u] => k = "arriving" /\ t = u
  BY <1>1, <1>2 DEF Stage, Owns, Owners
<1>6. ASSUME NEW u \in Threads
      PROVE  /\ b \in cached[u] => k = "cached" /\ t = u
             /\ b \in leaving[u] => k = "leaving" /\ t = u
  BY <1>1, <1>2 DEF Stage, Owns, Owners
<1> QED
  BY <1>3, <1>4, <1>5, <1>6 DEF OnlyAt

\* The stages of a block, kind by kind.
LEMMA StageKinds ==
  ASSUME NEW b, NEW k \in Owners, NEW t, Stage(k, t, b)
  PROVE  \/ k = "free" /\ t = None /\ b \in free
         \/ k = "global" /\ t = None /\ b \in global
         \/ k = "new" /\ t \in Threads /\ new[t] = b /\ pc[t] \in {"unpoison", "publish"}
         \/ k = "old" /\ t \in Threads /\ old[t] = b /\ pc[t] \in {"mark", "context"}
         \/ k = "rec" /\ t \in Threads /\ rec[t] = b
         \/ k = "arriving" /\ t \in Threads /\ b \in arriving[t]
         \/ k = "cached" /\ t \in Threads /\ b \in cached[t]
         \/ k = "leaving" /\ t \in Threads /\ b \in leaving[t]
<1>1. CASE k \in {"new", "old"}
  BY <1>1 DEF Stage
<1>2. CASE k \notin {"new", "old"}
  <2>1. k \notin {"held", "new", "old"} /\ Owns(k, t, b)
    BY <1>2 DEF Stage
  <2> QED
    BY <2>1 DEF Owns
<1> QED
  BY <1>1, <1>2, Zenon

\* The same, after a step.
LEMMA StageKindsAfter ==
  ASSUME NEW b, NEW k \in Owners, NEW t, Stage(k, t, b)'
  PROVE  \/ k = "free" /\ t = None /\ b \in free'
         \/ k = "global" /\ t = None /\ b \in global'
         \/ k = "new" /\ t \in Threads /\ new'[t] = b /\ pc'[t] \in {"unpoison", "publish"}
         \/ k = "old" /\ t \in Threads /\ old'[t] = b /\ pc'[t] \in {"mark", "context"}
         \/ k = "rec" /\ t \in Threads /\ rec'[t] = b
         \/ k = "arriving" /\ t \in Threads /\ b \in arriving'[t]
         \/ k = "cached" /\ t \in Threads /\ b \in cached'[t]
         \/ k = "leaving" /\ t \in Threads /\ b \in leaving'[t]
<1>1. CASE k \in {"new", "old"}
  BY <1>1 DEF Stage
<1>2. CASE k \notin {"new", "old"}
  <2>1. k \notin {"held", "new", "old"} /\ Owns(k, t, b)'
    BY <1>2 DEF Stage
  <2> QED
    BY <2>1 DEF Owns
<1> QED
  BY <1>1, <1>2

\* A block that enters no stage is where it was, if in any.
LEMMA NoneEntered ==
  ASSUME NEW b, EntersNone(b), NEW k \in Owners, NEW t, Stage(k, t, b)'
  PROVE  Stage(k, t, b)
<1>1. CASE k \in {"new", "old"}
  BY <1>1, StageKindsAfter DEF EntersNone, Stage
<1>2. CASE k \notin {"new", "old"}
  <2>1. k # "held"
    BY StageKindsAfter
  <2>2. Owns(k, t, b)
    BY <1>2, StageKindsAfter, Zenon DEF EntersNone, Owns
  <2> QED
    BY <1>2, <2>1, <2>2 DEF Stage
<1> QED
  BY <1>1, <1>2

\* A step moves the blocks of S to stage k of thread t, or out, and no other.
LEMMA SomeGo ==
  ASSUME NEW S, NEW k, NEW t, \A c \in Blocks : c \in S => OnlyAt(c, k, t)',
         \A c \in Blocks : c \notin S => EntersNone(c)
  PROVE  StageGoes(S, k, t)
<1> SUFFICES ASSUME NEW c \in Blocks, NEW l \in Owners, NEW u \in Owner, Stage(l, u, c)'
             PROVE  IF c \in S THEN l = k /\ u = t ELSE Stage(l, u, c)
  BY DEF StageGoes
<1>1. CASE c \in S
  <2>1. OnlyAt(c, k, t)'
    BY <1>1
  <2> QED
    BY <1>1, <2>1, StageKindsAfter, Zenon DEF OnlyAt
<1>2. CASE c \notin S
  <2>1. EntersNone(c)
    BY <1>2
  <2> QED
    BY <1>2, <2>1, NoneEntered
<1> QED
  BY <1>1, <1>2

\* The same, of one block.
LEMMA OneGoes ==
  ASSUME NEW b, NEW k, NEW t, OnlyAt(b, k, t)', \A c \in Blocks : c # b => EntersNone(c)
  PROVE  StageGoes({b}, k, t)
<1>1. \A c \in Blocks : c \in {b} => OnlyAt(c, k, t)'
  OBVIOUS
<1>2. \A c \in Blocks : c \notin {b} => EntersNone(c)
  OBVIOUS
<1> QED
  BY <1>1, <1>2, SomeGo

\* The steps that leave every block in its stage.
LEMMA StagesStay ==
  ASSUME MInv, NEW t \in Threads,
         \A u \in Threads : u # t => pc'[u] = pc[u] /\ new'[u] = new[u]
                                     /\ old'[u] = old[u] /\ rec'[u] = rec[u],
         UNCHANGED <<free, quarantine, place, hdr, freeTid>>, rec'[t] = rec[t],
         pc'[t] \in {"unpoison", "publish"} => pc[t] \in {"unpoison", "publish"}
                                               /\ new'[t] = new[t],
         pc'[t] \in {"mark", "context"} => pc[t] \in {"mark", "context"}
                                           /\ old'[t] = old[t],
         pc'[t] \in {"poison", "deallocate"} => pc[t] \in {"poison", "deallocate"}
  PROVE  OneStage' /\ StageBytes' /\ \A b \in Blocks : OtherByte(b)'
<1>1. \A b \in Blocks : EntersNone(b)
  BY DEF EntersNone, quarantine
<1>2. "free" \in Owners /\ None \in Owner
  BY DEF Owners, Owner
<1>3. \A u \in Threads : rec'[u] = rec[u] /\ (pc'[u] \in {"poison", "deallocate"} =>
                                                pc[u] \in {"poison", "deallocate"})
  OBVIOUS
<1>4. PICK S : S = {}
  BY Zenon
<1>5. StageGoes(S, "free", None)
  <2>1. \A c \in Blocks : c \in S => OnlyAt(c, "free", None)'
    BY <1>4
  <2>2. \A c \in Blocks : c \notin S => EntersNone(c)
    BY <1>1
  <2> QED
    BY <2>1, <2>2, SomeGo
<1>6. OthersKeep(S)
  BY <1>3 DEF OthersKeep
<1>7. LeftSound(S, "free", None)
  BY <1>4, Zenon DEF LeftSound
<1> QED
  BY <1>2, <1>5, <1>6, <1>7, StageMoves

\* Allocate gives a thread a block that was free.
LEMMA AllocateBlockStage ==
  ASSUME Misuse, MInv, NEW t \in Threads, NEW b \in Blocks, NEW p \in Place,
         NEW s \in State, AllocateBlock(t, b, p, s)
  PROVE  OneStage' /\ StageBytes' /\ \A c \in Blocks : OtherByte(c)'
<1>1. /\ pc[t] = "malloc" /\ b \in free
      /\ s = hdr[b][p]
      /\ hdr' = [hdr EXCEPT ![b][p] = s]
      /\ free' = free \ {b}
      /\ place' = [place EXCEPT ![b] = p]
      /\ new' = [new EXCEPT ![t] = b]
      /\ pc' = [pc EXCEPT ![t] = "unpoison"]
      /\ UNCHANGED <<freeTid, arriving, cached, global, leaving, old, rec>>
  BY DEF AllocateBlock, OldBytes, Goto, quarantine
<1>2. TypeOK /\ OneStage /\ StageBytes /\ OtherByte(b)
  BY DEF MInv
<1>3. hdr' = hdr
  BY <1>1, <1>2 DEF TypeOK
<1>4. /\ place'[b] = p /\ \A c \in Blocks : c # b => place'[c] = place[c]
      /\ new'[t] = b /\ pc'[t] = "unpoison"
      /\ \A u \in Threads : u # t => new'[u] = new[u] /\ pc'[u] = pc[u]
  BY <1>1, <1>2 DEF TypeOK
<1>5. "free" \in Owners /\ None \in Owner /\ "new" \in Owners /\ t \in Owner
  BY DEF Owners, Owner
<1>6. Stage("free", None, b)
  BY <1>1, <1>5 DEF Stage, Owns
<1>7. \A q \in Place : hdr[b][q] = "INVALID"
  <2>1. ChunkState(b) = "INVALID"
    BY <1>2, <1>5, <1>6 DEF StageBytes, StageByte
  <2> QED
    BY <1>2, <2>1, Zenon DEF OtherByte, ChunkState
<1>8. StageGoes({b}, "new", t)
  <2>1. \A c \in Blocks : c # b => EntersNone(c)
    BY <1>1, <1>4 DEF EntersNone
  <2>2. \A l \in Owners, u \in Owner : Stage(l, u, b) => l = "free" /\ u = None
    BY <1>2, <1>5, <1>6 DEF OneStage
  <2>3. OnlyAt(b, "free", None)
    BY <2>2, InOneStage
  <2>4. OnlyAt(b, "new", t)'
    BY <1>1, <1>4, <2>3, NoneApart DEF OnlyAt
  <2> QED
    BY <2>1, <2>4, OneGoes
<1>9. OtherByte(b)' /\ StageByte("new", t, b)'
  BY <1>3, <1>4, <1>7, Zenon DEF OtherByte, StageByte, ChunkState
<1>10. OthersKeep({b})
  BY <1>1, <1>3, <1>4 DEF OthersKeep
<1>11. LeftSound({b}, "new", t)
  BY <1>9 DEF LeftSound
<1> QED
  BY <1>5, <1>8, <1>10, <1>11, StageMoves

\* Publish is the end of a stage.
LEMMA PublishStage ==
  ASSUME MInv, NEW t \in Threads, Publish(t)
  PROVE  OneStage' /\ StageBytes' /\ \A c \in Blocks : OtherByte(c)'
<1>0. PICK b : b = new[t]
  OBVIOUS
<1>1. /\ pc[t] = "publish"
      /\ hdr' = [hdr EXCEPT ![b][place[b]] = "ALLOCATED"]
      /\ pc' = [pc EXCEPT ![t] = "set_magic"]
      /\ UNCHANGED <<free, place, freeTid, arriving, cached, global, leaving, new, old, rec>>
  BY <1>0 DEF Publish, SetChunkState, Goto, quarantine
<1>2. TypeOK /\ Control /\ OneStage /\ StageBytes /\ \A c \in Blocks : OtherByte(c)
  BY DEF MInv
<1>3. b \in Blocks
  BY <1>0, <1>1, <1>2 DEF TypeOK, Control
<1>4. /\ \A c \in Blocks : c # b => hdr'[c] = hdr[c]
      /\ \A q \in Place : q # place[b] => hdr'[b][q] = hdr[b][q]
      /\ pc'[t] = "set_magic" /\ \A u \in Threads : u # t => pc'[u] = pc[u]
  BY <1>1, <1>2, <1>3 DEF TypeOK
<1>5. "new" \in Owners /\ t \in Owner
  BY DEF Owners, Owner
<1>6. Stage("new", t, b)
  BY <1>0, <1>1 DEF Stage
<1>7. \A c \in Blocks : EntersNone(c)
  BY <1>1, <1>4 DEF EntersNone
<1>8. ASSUME NEW l \in Owners, NEW u \in Owner, Stage(l, u, b)' PROVE FALSE
  <2>1. EntersNone(b)
    BY <1>3, <1>7
  <2>2. Stage(l, u, b)
    BY <1>8, <2>1, NoneEntered
  <2>3. l = "new" /\ u = t
    BY <1>2, <1>3, <1>5, <1>6, <2>2 DEF OneStage
  <2> QED
    BY <1>4, <1>8, <2>3, Zenon DEF Stage
<1>9. OtherByte(b)'
  BY <1>1, <1>2, <1>3, <1>4 DEF OtherByte
<1>10. OthersKeep({b})
  BY <1>1, <1>4 DEF OthersKeep
<1>11. \A c \in Blocks, l \in Owners, u \in Owner :
         Stage(l, u, c)' => IF c = b THEN l = "new" /\ u = t ELSE Stage(l, u, c)
  BY <1>7, <1>8, NoneEntered
<1>12. StageGoes({b}, "new", t)
  BY <1>11 DEF StageGoes
<1>13. LeftSound({b}, "new", t)
  BY <1>3, <1>5, <1>8, <1>9 DEF LeftSound
<1> QED
  BY <1>5, <1>10, <1>12, <1>13, StageMoves

\* The compare-exchange of Deallocate: it succeeds only on a chunk that is in no
\* stage.
LEMMA FlagStage ==
  ASSUME MInv, NEW t \in Threads, SetQuarantineFlagIfAllocated(t)
  PROVE  OneStage' /\ StageBytes' /\ \A c \in Blocks : OtherByte(c)'
<1>0. PICK b : b = old[t]
  OBVIOUS
<1>1. /\ pc[t] = "free" /\ ChunkState(b) = "ALLOCATED"
      /\ hdr' = [hdr EXCEPT ![b][place[b]] = "QUARANTINE"]
      /\ pc' = [pc EXCEPT ![t] = "mark"]
      /\ UNCHANGED <<free, place, freeTid, arriving, cached, global, leaving, new, old, rec>>
  BY <1>0 DEF SetQuarantineFlagIfAllocated, SetChunkState, Goto, quarantine
<1>2. TypeOK /\ Control /\ OneStage /\ StageBytes /\ \A c \in Blocks : OtherByte(c)
  BY DEF MInv
<1>3. b \in Blocks
  BY <1>0, <1>1, <1>2 DEF TypeOK, Control
<1>4. /\ \A c \in Blocks : c # b => hdr'[c] = hdr[c]
      /\ hdr'[b][place[b]] = "QUARANTINE"
      /\ \A q \in Place : q # place[b] => hdr'[b][q] = hdr[b][q]
      /\ pc'[t] = "mark" /\ \A u \in Threads : u # t => pc'[u] = pc[u]
  BY <1>1, <1>2, <1>3 DEF TypeOK
<1>5. "old" \in Owners /\ t \in Owner
  BY DEF Owners, Owner
<1>6. \A l \in Owners, u \in Owner : ~Stage(l, u, b)
  BY <1>1, <1>2, <1>3 DEF StageBytes, StageByte
<1>7. StageGoes({b}, "old", t)
  <2>1. \A c \in Blocks : c # b => EntersNone(c)
    BY <1>0, <1>1, <1>4 DEF EntersNone
  <2>2. \A l \in Owners, u \in Owner : Stage(l, u, b) => l = "old" /\ u = t
    BY <1>6
  <2>3. OnlyAt(b, "old", t)
    BY <2>2, InOneStage
  <2>4. OnlyAt(b, "old", t)'
    BY <1>1, <1>4, <2>3 DEF OnlyAt
  <2> QED
    BY <2>1, <2>4, OneGoes
<1>8. OtherByte(b)' /\ StageByte("old", t, b)'
  BY <1>1, <1>2, <1>3, <1>4 DEF OtherByte, StageByte, ChunkState
<1>9. OthersKeep({b})
  BY <1>1, <1>4 DEF OthersKeep
<1>10. LeftSound({b}, "old", t)
  BY <1>8 DEF LeftSound
<1> QED
  BY <1>5, <1>7, <1>9, <1>10, StageMoves

\* SetFreeContext(kInvalidTid, 0) names nobody.
LEMMA MarkStage ==
  ASSUME MInv, NEW t \in Threads, MarkContext(t)
  PROVE  OneStage' /\ StageBytes' /\ \A c \in Blocks : OtherByte(c)'
<1>0. PICK b : b = old[t]
  OBVIOUS
<1>1. /\ pc[t] = "mark"
      /\ freeTid' = [freeTid EXCEPT ![b] = None]
      /\ pc' = [pc EXCEPT ![t] = "context"]
      /\ UNCHANGED <<free, place, hdr, arriving, cached, global, leaving, new, old, rec>>
  BY <1>0, Zenon DEF MarkContext, Goto, quarantine
<1>2. TypeOK /\ Control /\ OneStage /\ StageBytes /\ \A c \in Blocks : OtherByte(c)
  BY DEF MInv
<1>3. b \in Blocks
  BY <1>0, <1>1, <1>2 DEF TypeOK, Control
<1>4. /\ \A c \in Blocks : c # b => freeTid'[c] = freeTid[c]
      /\ pc'[t] = "context" /\ \A u \in Threads : u # t => pc'[u] = pc[u]
  BY <1>0, <1>1, <1>2, <1>3, NoneApart DEF TypeOK, Control
<1>5. "old" \in Owners /\ t \in Owner
  BY DEF Owners, Owner
<1>6. Stage("old", t, b) /\ StageByte("old", t, b)
  <2>1. Stage("old", t, b)
    BY <1>0, <1>1, <1>2, <1>4, <1>5, Zenon DEF Stage, Owns, Control
  <2> QED
    BY <1>2, <1>3, <1>5, <2>1 DEF StageBytes
<1>7. \A l \in Owners, u \in Owner : Stage(l, u, b) => l = "old" /\ u = t
  BY <1>2, <1>3, <1>5, <1>6 DEF OneStage
<1>8. StageGoes({b}, "old", t)
  <2>1. \A c \in Blocks : c # b => EntersNone(c)
    BY <1>1, <1>4, NoneApart DEF EntersNone
  <2>2. OnlyAt(b, "old", t)
    BY <1>7, InOneStage
  <2>3. OnlyAt(b, "old", t)'
    BY <1>0, <1>1, <1>3, <1>4, <2>2, NoneApart DEF OnlyAt
  <2> QED
    BY <2>1, <2>3, OneGoes
<1>9. OtherByte(b)' /\ StageByte("old", t, b)'
  BY <1>1, <1>2, <1>3, <1>4, <1>6, Zenon DEF OtherByte, StageByte, ChunkState
<1>10. OthersKeep({b})
  BY <1>0, <1>1, <1>2, <1>4, Zenon DEF Control, OthersKeep
<1>11. LeftSound({b}, "old", t)
  BY <1>9 DEF LeftSound
<1> QED
  BY <1>5, <1>8, <1>10, <1>11, StageMoves

\* QuarantineChunk names the thread whose free it was.
LEMMA QuarantineStage ==
  ASSUME MInv, NEW t \in Threads, QuarantineChunk(t)
  PROVE  OneStage' /\ StageBytes' /\ \A c \in Blocks : OtherByte(c)'
<1>0. PICK b : b = old[t]
  OBVIOUS
<1>1. /\ pc[t] = "context"
      /\ freeTid' = [freeTid EXCEPT ![b] = t]
      /\ arriving' = [arriving EXCEPT ![t] = {b}]
      /\ pc' = [pc EXCEPT ![t] = "put"]
      /\ UNCHANGED <<free, place, hdr, cached, global, leaving, new, old, rec>>
  BY <1>0 DEF QuarantineChunk, Goto, app
<1>2. TypeOK /\ Control /\ OneStage /\ StageBytes /\ \A c \in Blocks : OtherByte(c)
  BY DEF MInv
<1>3. b \in Blocks
  BY <1>0, <1>1, <1>2 DEF TypeOK, Control
<1>4. /\ freeTid'[b] = t /\ \A c \in Blocks : c # b => freeTid'[c] = freeTid[c]
      /\ arriving'[t] = {b}
      /\ pc'[t] = "put"
      /\ \A u \in Threads : u # t => pc'[u] = pc[u] /\ arriving'[u] = arriving[u]
  BY <1>0, <1>1, <1>2, <1>3, NoneApart DEF TypeOK, Control
<1>5. "old" \in Owners /\ t \in Owner /\ "arriving" \in Owners
  BY DEF Owners, Owner
<1>6. Stage("old", t, b) /\ StageByte("old", t, b)
  <2>1. Stage("old", t, b)
    BY <1>0, <1>1, <1>2, <1>4, <1>5, Zenon DEF Stage, Owns, Control
  <2> QED
    BY <1>2, <1>3, <1>5, <2>1 DEF StageBytes
<1>7. \A l \in Owners, u \in Owner : Stage(l, u, b) => l = "old" /\ u = t
  BY <1>2, <1>3, <1>5, <1>6 DEF OneStage
<1>8. StageGoes({b}, "arriving", t)
  <2>1. \A c \in Blocks : c # b => EntersNone(c)
    BY <1>1, <1>4, NoneApart DEF EntersNone
  <2>2. OnlyAt(b, "old", t)
    BY <1>7, InOneStage
  <2>3. OnlyAt(b, "arriving", t)'
    BY <1>0, <1>1, <1>3, <1>4, <2>2, NoneApart, Zenon DEF OnlyAt
  <2> QED
    BY <2>1, <2>3, OneGoes
<1>9. OtherByte(b)' /\ StageByte("arriving", t, b)'
  BY <1>1, <1>2, <1>3, <1>4, <1>6, Zenon DEF OtherByte, StageByte, ChunkState
<1>10. OthersKeep({b})
  BY <1>0, <1>1, <1>2, <1>4, Zenon DEF Control, OthersKeep
<1>11. LeftSound({b}, "arriving", t)
  BY <1>9 DEF LeftSound
<1> QED
  BY <1>5, <1>8, <1>10, <1>11, StageMoves

\* Put: the chunk goes to the local cache.
LEMMA PutStage ==
  ASSUME MInv, NEW t \in Threads, PutQuarantine(t)
  PROVE  OneStage' /\ StageBytes' /\ \A c \in Blocks : OtherByte(c)'
<1>0. PICK b : b = old[t]
  OBVIOUS
<1>1. /\ pc[t] = "put"
      /\ arriving' = [arriving EXCEPT ![t] = {}]
      /\ cached' = [cached EXCEPT ![t] = @ \cup arriving[t]]
      /\ old' = [old EXCEPT ![t] = None]
      /\ pc' = [pc EXCEPT ![t] = "drain"]
      /\ UNCHANGED <<free, place, hdr, freeTid, global, leaving, new, rec>>
  BY <1>0 DEF PutQuarantine, Q!Enqueue, Goto
<1>2. TypeOK /\ Control /\ OneStage /\ StageBytes /\ \A c \in Blocks : OtherByte(c)
  BY DEF MInv
<1>3. b \in Blocks
  BY <1>0, <1>1, <1>2 DEF TypeOK, Control
<1>4. /\ arriving[t] = {b} /\ arriving'[t] = {} /\ cached'[t] = cached[t] \cup {b}
      /\ pc'[t] = "drain" /\ old'[t] = None
      /\ \A u \in Threads : u # t => /\ pc'[u] = pc[u] /\ old'[u] = old[u]
                                     /\ arriving'[u] = arriving[u] /\ cached'[u] = cached[u]
  BY <1>0, <1>1, <1>2, <1>3, NoneApart DEF TypeOK, Control
<1>5. "arriving" \in Owners /\ t \in Owner /\ "cached" \in Owners
  BY DEF Owners, Owner
<1>6. Stage("arriving", t, b) /\ StageByte("arriving", t, b)
  <2>1. Stage("arriving", t, b)
    BY <1>0, <1>1, <1>2, <1>4, <1>5, Zenon DEF Stage, Owns, Control
  <2> QED
    BY <1>2, <1>3, <1>5, <2>1 DEF StageBytes
<1>7. \A l \in Owners, u \in Owner : Stage(l, u, b) => l = "arriving" /\ u = t
  BY <1>2, <1>3, <1>5, <1>6 DEF OneStage
<1>8. StageGoes({b}, "cached", t)
  <2>1. \A c \in Blocks : c # b => EntersNone(c)
    BY <1>1, <1>4, NoneApart, Zenon DEF EntersNone
  <2>2. OnlyAt(b, "arriving", t)
    BY <1>7, InOneStage
  <2>3. OnlyAt(b, "cached", t)'
    BY <1>0, <1>1, <1>3, <1>4, <2>2, NoneApart DEF OnlyAt
  <2> QED
    BY <2>1, <2>3, OneGoes
<1>9. OtherByte(b)' /\ StageByte("cached", t, b)'
  BY <1>1, <1>2, <1>3, <1>4, <1>6, Zenon DEF OtherByte, StageByte, ChunkState
<1>10. OthersKeep({b})
  BY <1>0, <1>1, <1>2, <1>4, Zenon DEF Control, OthersKeep
<1>11. LeftSound({b}, "cached", t)
  BY <1>9 DEF LeftSound
<1> QED
  BY <1>5, <1>8, <1>10, <1>11, StageMoves

\* Put: the chunk is recycled at once.
LEMMA PassStage ==
  ASSUME MInv, NEW t \in Threads, PutPassThrough(t)
  PROVE  OneStage' /\ StageBytes' /\ \A c \in Blocks : OtherByte(c)'
<1>0. PICK b : b = old[t]
  OBVIOUS
<1>1. /\ pc[t] = "put"
      /\ arriving' = [arriving EXCEPT ![t] = {}]
      /\ rec' = [rec EXCEPT ![t] = b]
      /\ old' = [old EXCEPT ![t] = None]
      /\ pc' = [pc EXCEPT ![t] = "clear_magic"]
      /\ UNCHANGED <<free, place, hdr, freeTid, cached, global, leaving, new>>
  BY <1>0 DEF PutPassThrough, Q!PassThrough, Goto, mem
<1>2. TypeOK /\ Control /\ OneStage /\ StageBytes /\ \A c \in Blocks : OtherByte(c)
  BY DEF MInv
<1>3. b \in Blocks
  BY <1>0, <1>1, <1>2 DEF TypeOK, Control
<1>4. /\ arriving[t] = {b} /\ arriving'[t] = {} /\ rec'[t] = b
      /\ pc'[t] = "clear_magic" /\ old'[t] = None
      /\ \A u \in Threads : u # t => /\ pc'[u] = pc[u] /\ old'[u] = old[u]
                                     /\ arriving'[u] = arriving[u] /\ rec'[u] = rec[u]
  BY <1>0, <1>1, <1>2, <1>3, NoneApart DEF TypeOK, Control
<1>5. "arriving" \in Owners /\ t \in Owner /\ "rec" \in Owners
  BY DEF Owners, Owner
<1>6. Stage("arriving", t, b) /\ StageByte("arriving", t, b)
  <2>1. Stage("arriving", t, b)
    BY <1>0, <1>1, <1>2, <1>4, <1>5, Zenon DEF Stage, Owns, Control
  <2> QED
    BY <1>2, <1>3, <1>5, <2>1 DEF StageBytes
<1>7. \A l \in Owners, u \in Owner : Stage(l, u, b) => l = "arriving" /\ u = t
  BY <1>2, <1>3, <1>5, <1>6 DEF OneStage
<1>8. StageGoes({b}, "rec", t)
  <2>1. \A c \in Blocks : c # b => EntersNone(c)
    BY <1>1, <1>4, NoneApart, Zenon DEF EntersNone
  <2>2. OnlyAt(b, "arriving", t)
    BY <1>7, InOneStage
  <2>3. OnlyAt(b, "rec", t)'
    BY <1>0, <1>1, <1>3, <1>4, <2>2, NoneApart DEF OnlyAt
  <2> QED
    BY <2>1, <2>3, OneGoes
<1>9. OtherByte(b)' /\ StageByte("rec", t, b)'
  BY <1>1, <1>2, <1>3, <1>4, <1>6, Zenon DEF OtherByte, StageByte, ChunkState
<1>10. OthersKeep({b})
  BY <1>0, <1>1, <1>2, <1>4, Zenon DEF Control, OthersKeep
<1>11. LeftSound({b}, "rec", t)
  BY <1>9 DEF LeftSound
<1> QED
  BY <1>5, <1>8, <1>10, <1>11, StageMoves

\* The quarantine hands one chunk to its callback.
LEMMA RecycleStage ==
  ASSUME MInv, NEW t \in Threads, NEW a \in Blocks, RecycleNext(t, a)
  PROVE  OneStage' /\ StageBytes' /\ \A c \in Blocks : OtherByte(c)'
<1>0. PICK b : b = a
  OBVIOUS
<1>1. /\ pc[t] = "recycle" /\ b \in leaving[t]
      /\ leaving' = [leaving EXCEPT ![t] = @ \ {b}]
      /\ rec' = [rec EXCEPT ![t] = b]
      /\ pc' = [pc EXCEPT ![t] = "clear_magic"]
      /\ UNCHANGED <<free, place, hdr, freeTid, arriving, cached, global, new, old>>
  BY <1>0 DEF RecycleNext, Q!Recycle, Goto, mem
<1>2. TypeOK /\ Control /\ OneStage /\ StageBytes /\ \A c \in Blocks : OtherByte(c)
  BY DEF MInv
<1>3. b \in Blocks
  BY <1>0, <1>1, <1>2 DEF TypeOK, Control
<1>4. /\ leaving'[t] = leaving[t] \ {b} /\ rec'[t] = b /\ pc'[t] = "clear_magic"
      /\ \A u \in Threads : u # t => /\ pc'[u] = pc[u] /\ rec'[u] = rec[u]
                                     /\ leaving'[u] = leaving[u]
  BY <1>0, <1>1, <1>2, <1>3, NoneApart DEF TypeOK, Control
<1>5. "leaving" \in Owners /\ t \in Owner /\ "rec" \in Owners
  BY DEF Owners, Owner
<1>6. Stage("leaving", t, b) /\ StageByte("leaving", t, b)
  <2>1. Stage("leaving", t, b)
    BY <1>0, <1>1, <1>2, <1>4, <1>5, Zenon DEF Stage, Owns, Control
  <2> QED
    BY <1>2, <1>3, <1>5, <2>1 DEF StageBytes
<1>7. \A l \in Owners, u \in Owner : Stage(l, u, b) => l = "leaving" /\ u = t
  BY <1>2, <1>3, <1>5, <1>6 DEF OneStage
<1>8. StageGoes({b}, "rec", t)
  <2>1. \A c \in Blocks : c # b => EntersNone(c)
    BY <1>1, <1>4, NoneApart, Zenon DEF EntersNone
  <2>2. OnlyAt(b, "leaving", t)
    BY <1>7, InOneStage
  <2>3. OnlyAt(b, "rec", t)'
    BY <1>0, <1>1, <1>3, <1>4, <2>2, NoneApart, Zenon DEF OnlyAt
  <2> QED
    BY <2>1, <2>3, OneGoes
<1>9. OtherByte(b)' /\ StageByte("rec", t, b)'
  BY <1>1, <1>2, <1>3, <1>4, <1>6, Zenon DEF OtherByte, StageByte, ChunkState
<1>10. OthersKeep({b})
  BY <1>0, <1>1, <1>2, <1>4, Zenon DEF Control, OthersKeep
<1>11. LeftSound({b}, "rec", t)
  BY <1>9 DEF LeftSound
<1> QED
  BY <1>5, <1>8, <1>10, <1>11, StageMoves

\* Recycle gives the chunk up.
LEMMA InvalidateStage ==
  ASSUME MInv, NEW t \in Threads, Invalidate(t)
  PROVE  OneStage' /\ StageBytes' /\ \A c \in Blocks : OtherByte(c)'
<1>0. PICK b : b = rec[t]
  OBVIOUS
<1>1. /\ pc[t] = "invalidate"
      /\ hdr' = [hdr EXCEPT ![b][place[b]] = "INVALID"]
      /\ pc' = [pc EXCEPT ![t] = "poison"]
      /\ UNCHANGED <<free, place, freeTid, arriving, cached, global, leaving, new, old, rec>>
  BY <1>0 DEF Invalidate, SetChunkState, Goto, quarantine
<1>2. TypeOK /\ Control /\ OneStage /\ StageBytes /\ \A c \in Blocks : OtherByte(c)
  BY DEF MInv
<1>3. b \in Blocks
  BY <1>0, <1>1, <1>2 DEF TypeOK, Control
<1>4. /\ \A c \in Blocks : c # b => hdr'[c] = hdr[c]
      /\ hdr'[b][place[b]] = "INVALID"
      /\ \A q \in Place : q # place[b] => hdr'[b][q] = hdr[b][q]
      /\ pc'[t] = "poison" /\ \A u \in Threads : u # t => pc'[u] = pc[u]
  <2>1. hdr \in [Blocks -> [Place -> State]] /\ pc \in [Threads -> Labels]
    BY <1>2 DEF TypeOK
  <2>2. place[b] \in Place
    BY <1>0, <1>1, <1>2, <1>3 DEF TypeOK, Control
  <2>3. PICK g : g = [hdr[b] EXCEPT ![place[b]] = "INVALID"]
    BY Zenon
  <2>4. g[place[b]] = "INVALID" /\ \A q \in Place : q # place[b] => g[q] = hdr[b][q]
    BY <1>3, <2>1, <2>2, <2>3
  <2>5. hdr' = [hdr EXCEPT ![b] = g]
    BY <1>1, <2>3
  <2>6. hdr'[b] = g /\ \A c \in Blocks : c # b => hdr'[c] = hdr[c]
    BY <1>3, <2>1, <2>5
  <2> QED
    BY <1>1, <2>1, <2>4, <2>6
<1>5. "rec" \in Owners /\ t \in Owner
  BY DEF Owners, Owner
<1>6. Stage("rec", t, b) /\ StageByte("rec", t, b)
  <2>1. Stage("rec", t, b)
    BY <1>0, <1>1, <1>2, <1>4, <1>5 DEF Stage, Owns, Control
  <2> QED
    BY <1>2, <1>3, <1>5, <2>1 DEF StageBytes
<1>7. \A l \in Owners, u \in Owner : Stage(l, u, b) => l = "rec" /\ u = t
  BY <1>2, <1>3, <1>5, <1>6 DEF OneStage
<1>8. StageGoes({b}, "rec", t)
  <2>1. \A c \in Blocks : c # b => EntersNone(c)
    BY <1>1, <1>4, NoneApart DEF EntersNone
  <2>2. OnlyAt(b, "rec", t)
    BY <1>7, InOneStage
  <2>3. OnlyAt(b, "rec", t)'
    BY <1>0, <1>1, <1>3, <1>4, <2>2, NoneApart DEF OnlyAt
  <2> QED
    BY <2>1, <2>3, OneGoes
<1>9. OtherByte(b)' /\ StageByte("rec", t, b)'
  BY <1>1, <1>2, <1>3, <1>4, <1>6 DEF OtherByte, StageByte, ChunkState
<1>10. OthersKeep({b})
  BY <1>0, <1>1, <1>2, <1>4 DEF Control, OthersKeep
<1>11. LeftSound({b}, "rec", t)
  BY <1>9 DEF LeftSound
<1> QED
  BY <1>5, <1>8, <1>10, <1>11, StageMoves

\* Recycle returns a block of the primary allocator.
LEMMA PrimaryStage ==
  ASSUME MInv, NEW t \in Threads, DeallocatePrimary(t)
  PROVE  OneStage' /\ StageBytes' /\ \A c \in Blocks : OtherByte(c)'
<1>0. PICK b : b = rec[t]
  OBVIOUS
<1>1. /\ pc[t] = "deallocate"
      /\ free' = free \cup {b}
      /\ rec' = [rec EXCEPT ![t] = None]
      /\ pc' = [pc EXCEPT ![t] = "recycle"]
      /\ UNCHANGED <<hdr, place, freeTid, arriving, cached, global, leaving, new, old>>
  BY <1>0 DEF DeallocatePrimary, Goto, mem, quarantine
<1>2. TypeOK /\ Control /\ OneStage /\ StageBytes /\ \A c \in Blocks : OtherByte(c)
  BY DEF MInv
<1>3. b \in Blocks
  BY <1>0, <1>1, <1>2 DEF TypeOK, Control
<1>4. /\ rec'[t] = None /\ pc'[t] = "recycle"
      /\ \A u \in Threads : u # t => pc'[u] = pc[u] /\ rec'[u] = rec[u]
  BY <1>0, <1>1, <1>2, <1>3, NoneApart DEF TypeOK, Control
<1>5. "rec" \in Owners /\ t \in Owner /\ "free" \in Owners /\ None \in Owner
  BY DEF Owners, Owner
<1>6. Stage("rec", t, b) /\ StageByte("rec", t, b)
  <2>1. Stage("rec", t, b)
    BY <1>0, <1>1, <1>2, <1>4, <1>5, Zenon DEF Stage, Owns, Control
  <2> QED
    BY <1>2, <1>3, <1>5, <2>1 DEF StageBytes
<1>7. \A l \in Owners, u \in Owner : Stage(l, u, b) => l = "rec" /\ u = t
  BY <1>2, <1>3, <1>5, <1>6 DEF OneStage
<1>8. StageGoes({b}, "free", None)
  <2>1. \A c \in Blocks : c # b => EntersNone(c)
    BY <1>1, <1>4, NoneApart DEF EntersNone
  <2>2. OnlyAt(b, "rec", t)
    BY <1>7, InOneStage
  <2>3. OnlyAt(b, "free", None)'
    BY <1>0, <1>1, <1>3, <1>4, <2>2, NoneApart DEF OnlyAt
  <2> QED
    BY <2>1, <2>3, OneGoes
<1>9. OtherByte(b)' /\ StageByte("free", None, b)'
  BY <1>1, <1>2, <1>3, <1>4, <1>6, Zenon DEF OtherByte, StageByte, ChunkState
<1>10. OthersKeep({b})
  BY <1>0, <1>1, <1>2, <1>4, Zenon DEF Control, OthersKeep
<1>11. LeftSound({b}, "free", None)
  BY <1>9 DEF LeftSound
<1> QED
  BY <1>5, <1>8, <1>10, <1>11, StageMoves

\* Recycle returns a block of the secondary allocator.
LEMMA SecondaryStage ==
  ASSUME MInv, NEW t \in Threads, DeallocateSecondary(t)
  PROVE  OneStage' /\ StageBytes' /\ \A c \in Blocks : OtherByte(c)'
<1>0. PICK b : b = rec[t]
  OBVIOUS
<1>1. /\ pc[t] = "clear_magic"
      /\ free' = free \cup {b}
      /\ hdr' = [hdr EXCEPT ![b] = Blank]
      /\ rec' = [rec EXCEPT ![t] = None]
      /\ pc' = [pc EXCEPT ![t] = "recycle"]
      /\ UNCHANGED <<place, freeTid, arriving, cached, global, leaving, new, old>>
  BY <1>0 DEF DeallocateSecondary, Goto, quarantine
<1>2. TypeOK /\ Control /\ OneStage /\ StageBytes /\ \A c \in Blocks : OtherByte(c)
  BY DEF MInv
<1>3. b \in Blocks
  BY <1>0, <1>1, <1>2 DEF TypeOK, Control
<1>4. /\ hdr'[b] = Blank /\ \A c \in Blocks : c # b => hdr'[c] = hdr[c]
      /\ rec'[t] = None /\ pc'[t] = "recycle"
      /\ place[b] \in Place
      /\ \A u \in Threads : u # t => pc'[u] = pc[u] /\ rec'[u] = rec[u]
  BY <1>0, <1>1, <1>2, <1>3, NoneApart DEF TypeOK, Control
<1>5. "rec" \in Owners /\ t \in Owner /\ "free" \in Owners /\ None \in Owner
  BY DEF Owners, Owner
<1>6. Stage("rec", t, b) /\ StageByte("rec", t, b)
  <2>1. Stage("rec", t, b)
    BY <1>0, <1>1, <1>2, <1>4, <1>5, Zenon DEF Stage, Owns, Control
  <2> QED
    BY <1>2, <1>3, <1>5, <2>1 DEF StageBytes
<1>7. \A l \in Owners, u \in Owner : Stage(l, u, b) => l = "rec" /\ u = t
  BY <1>2, <1>3, <1>5, <1>6 DEF OneStage
<1>8. StageGoes({b}, "free", None)
  <2>1. \A c \in Blocks : c # b => EntersNone(c)
    BY <1>1, <1>4, NoneApart, Zenon DEF EntersNone
  <2>2. OnlyAt(b, "rec", t)
    BY <1>7, InOneStage
  <2>3. OnlyAt(b, "free", None)'
    <3>1. ASSUME NEW u \in Threads PROVE rec'[u] # b
      <4>1. CASE u = t
        BY <1>3, <1>4, <4>1, NoneApart
      <4>2. CASE u # t
        BY <1>4, <2>2, <4>2 DEF OnlyAt
      <4> QED
        BY <4>1, <4>2
    <3>2. ASSUME NEW u \in Threads
          PROVE  /\ ~(new'[u] = b /\ pc'[u] \in {"unpoison", "publish"})
                 /\ ~(old'[u] = b /\ pc'[u] \in {"mark", "context"})
      BY <1>1, <1>4, <2>2 DEF OnlyAt
    <3>3. b \notin global' /\ \A u \in Threads :
            b \notin arriving'[u] /\ b \notin cached'[u] /\ b \notin leaving'[u]
      BY <1>1, <2>2, Zenon DEF OnlyAt
    <3> QED
      BY <3>1, <3>2, <3>3 DEF OnlyAt
  <2> QED
    BY <2>1, <2>3, OneGoes
<1>9. OtherByte(b)' /\ StageByte("free", None, b)'
  <2>1. \A q \in Place : hdr'[b][q] = "INVALID"
    BY <1>4 DEF Blank
  <2>2. place'[b] = place[b]
    BY <1>1
  <2>3. ChunkState(b)' = "INVALID"
    BY <1>4, <2>1, <2>2 DEF ChunkState
  <2> QED
    BY <2>1, <2>3 DEF OtherByte, StageByte
<1>10. OthersKeep({b})
  BY <1>0, <1>1, <1>2, <1>4, Zenon DEF Control, OthersKeep
<1>11. LeftSound({b}, "free", None)
  BY <1>9 DEF LeftSound
<1> QED
  BY <1>5, <1>8, <1>10, <1>11, StageMoves

\* Transfer: the chunks of a local cache go to the global one.
LEMMA TransferStage ==
  ASSUME MInv, NEW t \in Threads, Transfer(t)
  PROVE  OneStage' /\ StageBytes' /\ \A c \in Blocks : OtherByte(c)'
<1>0. PICK S : S = cached[t]
  OBVIOUS
<1>1. /\ pc[t] = "drain"
      /\ global' = global \cup S
      /\ cached' = [cached EXCEPT ![t] = {}]
      /\ pc' = [pc EXCEPT ![t] = "extract"]
      /\ UNCHANGED <<free, place, hdr, freeTid, arriving, leaving, new, old, rec>>
  BY <1>0 DEF Transfer, Q!Transfer, Goto, mem
<1>2. TypeOK /\ Control /\ OneStage /\ StageBytes /\ \A c \in Blocks : OtherByte(c)
  BY DEF MInv
<1>3. /\ cached'[t] = {} /\ pc'[t] = "extract"
      /\ \A u \in Threads : u # t => pc'[u] = pc[u] /\ cached'[u] = cached[u]
  BY <1>1, <1>2 DEF TypeOK
<1>4. "cached" \in Owners /\ t \in Owner /\ "global" \in Owners /\ None \in Owner
  BY DEF Owners, Owner
<1>5. \A b \in Blocks : b \in S => Stage("cached", t, b)
  BY <1>0, <1>4, Zenon DEF Stage, Owns
<1>6. \A b \in Blocks, l \in Owners, u \in Owner :
        b \in S /\ Stage(l, u, b) => l = "cached" /\ u = t
  BY <1>2, <1>4, <1>5 DEF OneStage
<1>7. StageGoes(S, "global", None)
  <2>1. \A c \in Blocks : c \notin S => EntersNone(c)
    BY <1>0, <1>1, <1>3 DEF EntersNone
  <2>2. ASSUME NEW c \in Blocks, c \in S PROVE OnlyAt(c, "global", None)'
    <3>1. \A l \in Owners, u \in Owner : Stage(l, u, c) => l = "cached" /\ u = t
      BY <1>6, <2>2
    <3>2. OnlyAt(c, "cached", t)
      BY <3>1, InOneStage
    <3> QED
      BY <1>0, <1>1, <1>3, <2>2, <3>2, NoneApart, Zenon DEF OnlyAt
  <2>3. \A c \in Blocks : c \in S => OnlyAt(c, "global", None)'
    BY <2>2
  <2> QED
    BY <2>1, <2>3, SomeGo
<1>8. LeftSound(S, "global", None)
  <2> SUFFICES ASSUME NEW c \in Blocks, c \in S
               PROVE  OtherByte(c)' /\ StageByte("global", None, c)'
    BY DEF LeftSound
  <2>1. StageByte("cached", t, c)
    BY <1>2, <1>4, <1>5 DEF StageBytes
  <2> QED
    BY <1>1, <1>2, <2>1 DEF OtherByte, StageByte, ChunkState
<1>9. OthersKeep(S)
  BY <1>1, <1>3, Zenon DEF OthersKeep
<1> QED
  BY <1>4, <1>7, <1>8, <1>9, StageMoves

\* Extract: chunks of the global cache go to the thread that recycles them.
LEMMA ExtractStage ==
  ASSUME MInv, NEW t \in Threads, NEW S \in SUBSET global, Extract(t, S)
  PROVE  OneStage' /\ StageBytes' /\ \A c \in Blocks : OtherByte(c)'
<1>1. /\ pc[t] = "extract"
      /\ global' = global \ S
      /\ leaving' = [leaving EXCEPT ![t] = S]
      /\ pc' = [pc EXCEPT ![t] = "recycle"]
      /\ UNCHANGED <<free, place, hdr, freeTid, arriving, cached, new, old, rec>>
  BY DEF Extract, Q!Extract, Goto, mem
<1>2. TypeOK /\ Control /\ OneStage /\ StageBytes /\ \A c \in Blocks : OtherByte(c)
  BY DEF MInv
<1>3. /\ leaving'[t] = S /\ pc'[t] = "recycle"
      /\ \A u \in Threads : u # t => pc'[u] = pc[u] /\ leaving'[u] = leaving[u]
  BY <1>1, <1>2 DEF TypeOK
<1>4. "global" \in Owners /\ None \in Owner /\ "leaving" \in Owners /\ t \in Owner
  BY DEF Owners, Owner
<1>5. \A b \in Blocks : b \in S => Stage("global", None, b)
  BY <1>4 DEF Stage, Owns
<1>6. \A b \in Blocks, l \in Owners, u \in Owner :
        b \in S /\ Stage(l, u, b) => l = "global" /\ u = None
  BY <1>2, <1>4, <1>5 DEF OneStage
<1>7. StageGoes(S, "leaving", t)
  <2>1. \A c \in Blocks : c \notin S => EntersNone(c)
    BY <1>1, <1>3 DEF EntersNone
  <2>2. ASSUME NEW c \in Blocks, c \in S PROVE OnlyAt(c, "leaving", t)'
    <3>1. \A l \in Owners, u \in Owner : Stage(l, u, c) => l = "global" /\ u = None
      BY <1>6, <2>2
    <3>2. OnlyAt(c, "global", None)
      BY <3>1, InOneStage
    <3> QED
      BY <1>1, <1>3, <2>2, <3>2, NoneApart, Zenon DEF OnlyAt
  <2>3. \A c \in Blocks : c \in S => OnlyAt(c, "leaving", t)'
    BY <2>2
  <2> QED
    BY <2>1, <2>3, SomeGo
<1>8. LeftSound(S, "leaving", t)
  <2> SUFFICES ASSUME NEW c \in Blocks, c \in S
               PROVE  OtherByte(c)' /\ StageByte("leaving", t, c)'
    BY DEF LeftSound
  <2>1. StageByte("global", None, c)
    BY <1>2, <1>4, <1>5 DEF StageBytes
  <2> QED
    BY <1>1, <1>2, <2>1, Zenon DEF OtherByte, StageByte, ChunkState
<1>9. OthersKeep(S)
  BY <1>1, <1>3, Zenon DEF OthersKeep
<1> QED
  BY <1>4, <1>7, <1>8, <1>9, StageMoves

\* The invariant holds at the start.
LEMMA InitMInv ==
  ASSUME Init PROVE MInv
<1>1. TypeOK /\ Control
  BY InitIInv DEF IInv
<1>2. /\ free = Blocks /\ global = {}
      /\ \A t \in Threads : /\ arriving[t] = {} /\ cached[t] = {} /\ leaving[t] = {}
                            /\ pc[t] = "idle" /\ rec[t] = None
      /\ \A b \in Blocks : hdr[b] = Blank
  BY Zenon DEF Init, Q!Init
<1>3. \A b \in Blocks, k \in Owners, t \in Owner : Stage(k, t, b) => k = "free" /\ t = None
  BY <1>2, StageKinds, NoneApart
<1>4. OneStage
  BY <1>3 DEF OneStage
<1>5. \A b \in Blocks, p \in Place : hdr[b][p] = "INVALID"
  BY <1>2 DEF Blank
<1>6. \A b \in Blocks : OtherByte(b) /\ ChunkState(b) = "INVALID"
  BY <1>1, <1>5 DEF OtherByte, ChunkState, TypeOK
<1>7. StageBytes
  BY <1>3, <1>6 DEF StageBytes, StageByte
<1> QED
  BY <1>1, <1>4, <1>6, <1>7 DEF MInv

\* Every step keeps the invariant.
LEMMA StepMInv ==
  ASSUME Misuse, MInv, [Next]_vars PROVE MInv'
<1>1. TypeOK' /\ Control'
  BY ControlStep, AllocatorAssumption DEF MInv
<1>2. CASE UNCHANGED vars
  <2>1. UNCHANGED <<free, arriving, cached, global, leaving, place, hdr, freeTid, pc,
                    new, old, rec>>
    BY <1>2 DEF vars, mem, quarantine
  <2>2. \A b \in Blocks : EntersNone(b)
    BY <2>1 DEF EntersNone
  <2>3. PICK S : S = {}
    BY Zenon
  <2>4. StageGoes(S, "free", None)
    <3>1. \A c \in Blocks : c \in S => OnlyAt(c, "free", None)'
      BY <2>3
    <3>2. \A c \in Blocks : c \notin S => EntersNone(c)
      BY <2>2
    <3> QED
      BY <3>1, <3>2, SomeGo
  <2>5. OthersKeep(S) /\ LeftSound(S, "free", None)
    BY <2>1, <2>3 DEF OthersKeep, LeftSound
  <2>6. "free" \in Owners /\ None \in Owner
    BY DEF Owners, Owner
  <2>7. OneStage' /\ StageBytes' /\ \A b \in Blocks : OtherByte(b)'
    BY <2>4, <2>5, <2>6, StageMoves
  <2> QED
    BY <1>1, <2>7 DEF MInv
<1>3. ASSUME NEW t \in Threads, Malloc(t) \/ Free(t) \/ Drain(t)
      PROVE  OneStage' /\ StageBytes' /\ \A b \in Blocks : OtherByte(b)'
  <2>0. TypeOK /\ Control
    BY DEF MInv
  <2>1. CASE MallocBegin(t)
    BY <2>0, <2>1, StagesStay DEF MallocBegin, Goto, mem, TypeOK
  <2>2. CASE MallocFails(t)
    BY <2>0, <2>2, StagesStay DEF MallocFails, Goto, mem, TypeOK
  <2>3. CASE Unpoison(t)
    BY <2>0, <2>3, StagesStay DEF Unpoison, Goto, mem, TypeOK
  <2>4. CASE Publish(t)
    BY <2>4, PublishStage
  <2>5. CASE SetMagic(t)
    BY <2>0, <2>5, StagesStay, Zenon DEF SetMagic, Goto, mem, TypeOK
  <2>6. CASE CheckOld(t)
    BY <2>0, <2>6, StagesStay DEF CheckOld, Goto, mem, TypeOK
  <2>7. CASE Return(t)
    BY <2>0, <2>7, StagesStay DEF Return, Goto, mem, TypeOK
  <2>8. CASE \E b \in Blocks : ReallocBegin(t, b)
    BY <2>0, <2>8, StagesStay DEF ReallocBegin, Goto, mem, TypeOK
  <2>9. CASE \E b \in Blocks, p \in Place, s \in State : AllocateBlock(t, b, p, s)
    BY <2>9, AllocateBlockStage
  <2>10. CASE FreeIgnored(t)
    BY <2>0, <2>10, StagesStay DEF FreeIgnored, Goto, mem, TypeOK
  <2>11. CASE SetQuarantineFlagIfAllocated(t)
    BY <2>11, FlagStage
  <2>12. CASE ReportInvalidFree(t)
    BY <2>0, <2>12, StagesStay DEF ReportInvalidFree, Goto, mem, TypeOK
  <2>13. CASE MarkContext(t)
    BY <2>13, MarkStage
  <2>14. CASE QuarantineChunk(t)
    BY <2>14, QuarantineStage
  <2>15. CASE PutQuarantine(t)
    BY <2>15, PutStage
  <2>16. CASE PutPassThrough(t)
    BY <2>16, PassStage
  <2>17. CASE \E b \in Blocks : FreeBegin(t, b)
    BY <2>0, <2>17, StagesStay DEF FreeBegin, Goto, mem, TypeOK
  <2>18. CASE DrainBegin(t)
    BY <2>0, <2>18, StagesStay DEF DrainBegin, Goto, mem, TypeOK
  <2>19. CASE SkipDrain(t)
    BY <2>0, <2>19, StagesStay DEF SkipDrain, Goto, mem, TypeOK
  <2>20. CASE Transfer(t)
    BY <2>20, TransferStage
  <2>21. CASE RecycleDone(t)
    BY <2>0, <2>21, StagesStay DEF RecycleDone, Goto, mem, TypeOK
  <2>22. CASE ClearMagic(t)
    BY <2>0, <2>22, StagesStay, Zenon DEF ClearMagic, Goto, mem, TypeOK
  <2>23. CASE Invalidate(t)
    BY <2>23, InvalidateStage
  <2>24. CASE PoisonRecycled(t)
    BY <2>0, <2>24, StagesStay DEF PoisonRecycled, Goto, mem, TypeOK
  <2>25. CASE DeallocatePrimary(t)
    BY <2>25, PrimaryStage
  <2>26. CASE DeallocateSecondary(t)
    BY <2>26, SecondaryStage
  <2>27. CASE \E b \in Blocks : RecycleNext(t, b)
    BY <2>27, RecycleStage
  <2>28. CASE \E out \in SUBSET global : Extract(t, out)
    BY <2>28, ExtractStage
  <2> QED
    BY <1>3, <2>1, <2>2, <2>3, <2>4, <2>5, <2>6, <2>7, <2>8, <2>9, <2>10,
       <2>11, <2>12, <2>13, <2>14, <2>15, <2>16, <2>17, <2>18, <2>19,
       <2>20, <2>21, <2>22, <2>23, <2>24, <2>25, <2>26, <2>27, <2>28, Zenon
       DEF Malloc, Free, Drain
<1> QED
  BY <1>1, <1>2, <1>3 DEF Next, MInv

\* The invariant of an application that frees what it likes.
THEOREM MisuseInvariant == ASSUME Misuse PROVE Spec => []MInv
<1>1. Init => MInv
  BY InitMInv
<1>2. MInv /\ [Next]_vars => MInv'
  BY StepMInv
<1> QED
  BY <1>1, <1>2, PTL DEF Spec

\* However often the application frees a pointer that malloc has returned, one
\* free goes through: no chunk is in two lists of the quarantine, in one and free, or in
\* one and being recycled, and it names the thread that freed it.
THEOREM FreesGoThroughOnce == Spec => []FreedOnce
<1>1. ASSUME MInv PROVE FreedOnce
  <2>1. ASSUME NEW b \in Blocks, NEW k \in Owners \ {"held", "new", "old"},
               NEW t \in Owner, Owns(k, t, b)
        PROVE  Stage(k, t, b)
    BY <2>1 DEF Stage
  <2>2. \A b \in Blocks :
          \A k, l \in Owners \ {"held", "new", "old"}, t, u \in Owner :
            Owns(k, t, b) /\ Owns(l, u, b) => k = l /\ t = u
    BY <1>1, <2>1 DEF MInv, OneStage
  <2>3. ASSUME NEW t \in Threads, NEW b \in arriving[t] \cup cached[t]
        PROVE  freeTid[b] = t
    <3>1. b \in Blocks /\ t \in Owner /\ "arriving" \in Owners /\ "cached" \in Owners
      BY <1>1 DEF MInv, TypeOK, Owner, Owners
    <3>2. Stage("arriving", t, b) \/ Stage("cached", t, b)
      BY <3>1, Zenon DEF Stage, Owns
    <3> QED
      BY <1>1, <3>1, <3>2 DEF MInv, StageBytes, StageByte
  <2> QED
    BY <2>2, <2>3, Zenon DEF FreedOnce, Owner
<1>2. ASSUME IInv PROVE FreedOnce
  <2>1. \A b \in Blocks, k, l \in Owners, t, u \in Owner :
          Owns(k, t, b) /\ Owns(l, u, b) => k = l /\ t = u
    BY <1>2 DEF IInv, EachBlockOnce, Owner
  <2>2. ASSUME NEW t \in Threads, NEW b \in arriving[t] \cup cached[t]
        PROVE  freeTid[b] = t
    <3>1. b \in Blocks /\ t \in Owner /\ "arriving" \in Owners /\ "cached" \in Owners
      BY <1>2 DEF IInv, TypeOK, Owner, Owners
    <3>2. Owns("arriving", t, b) \/ Owns("cached", t, b)
      BY <3>1, Zenon DEF Owns
    <3> QED
      BY <1>2, <3>1, <3>2, Zenon DEF IInv, Life, LifeOf
  <2> QED
    BY <2>1, <2>2, Zenon DEF FreedOnce, Owner
<1>3. CASE Misuse
  BY <1>1, <1>3, MisuseInvariant, PTL
<1>4. CASE ~Misuse
  BY <1>2, <1>4, AllocatorInvariant, PTL
<1> QED
  BY <1>3, <1>4

\* The chunk that Deallocate puts is in no list of the quarantine.
LEMMA PutsWhatIsOutside ==
  ASSUME IInv \/ MInv, NEW t \in Threads, QuarantineChunk(t)
  PROVE  old[t] \in Blocks /\ arriving[t] = {} /\ old[t] \notin Q!Inside
<1>1. TypeOK /\ Control /\ pc[t] = "context"
  BY DEF IInv, MInv, QuarantineChunk
<1>2. PICK x \in Blocks : x = old[t] /\ Owns("old", t, x) /\ arriving[t] = {}
  BY <1>1, Zenon DEF TypeOK, Control, Owns
<1>3. "old" \in Owners /\ t \in Owner
  BY DEF Owners, Owner
<1>4. \A k \in Owners \ {"held", "new", "old"}, u \in Owner : ~Owns(k, u, x)
  <2>1. CASE IInv
    <3>1. EachBlockOnce
      BY <2>1 DEF IInv
    <3>2. \A k \in Owners, u \in Owner : Owns(k, u, x) <=> k = "old" /\ u = t
      BY <1>2, <1>3, <3>1, Sole
    <3> QED
      BY <3>2
  <2>2. CASE MInv
    <3>1. Stage("old", t, x)
      BY <1>1, <1>2 DEF Stage
    <3>2. \A k \in Owners, u \in Owner : Stage(k, u, x) => k = "old"
      BY <1>2, <1>3, <2>2, <3>1, Zenon DEF MInv, OneStage
    <3> QED
      BY <3>2 DEF Stage
  <2> QED
    BY <2>1, <2>2
<1>5. /\ x \notin global
      /\ \A u \in Threads : x \notin arriving[u] \cup cached[u] \cup leaving[u]
  BY <1>4 DEF Owns, Owners, Owner
<1> QED
  BY <1>2, <1>5, Zenon DEF Q!Inside

\* The allocator is a legal user of the quarantine: whatever the application
\* frees, no chunk is put that is still inside.
THEOREM QuarantineIsUsedWell == Spec => QuarantineUse
<1>1. Init => Q!Init
  BY DEF Init
<1>2. ASSUME IInv \/ MInv, [Next]_vars PROVE [Q!Next]_(Q!qsvars)
  <2>1. CASE UNCHANGED quarantine
    BY <2>1 DEF quarantine, Q!qsvars
  <2>2. ASSUME NEW t \in Threads, QuarantineChunk(t)
        PROVE  Q!Next
    <3>1. old[t] \in Blocks /\ Q!Arrive(t, old[t])
      BY <1>2, <2>2, PutsWhatIsOutside, Zenon DEF QuarantineChunk, Q!Arrive
    <3> QED
      BY <2>2, <3>1 DEF Q!Next
  <2>3. ASSUME NEW t \in Threads,
               \/ PutQuarantine(t) \/ PutPassThrough(t) \/ Transfer(t)
               \/ \E b \in Blocks : RecycleNext(t, b)
               \/ \E out \in SUBSET global : Extract(t, out)
        PROVE  Q!Next
    BY <2>3 DEF PutQuarantine, PutPassThrough, Transfer, RecycleNext, Extract,
                Q!Next
  <2>4. ASSUME NEW t \in Threads, Malloc(t)
        PROVE  UNCHANGED quarantine
    BY <2>4, Zenon DEF Malloc, MallocBegin, MallocFails, Unpoison, Publish, SetMagic,
                CheckOld, Return, ReallocBegin, AllocateBlock
  <2>5. ASSUME NEW t \in Threads, Free(t)
        PROVE  Q!Next \/ UNCHANGED quarantine
    BY <2>2, <2>3, <2>5
       DEF Free, FreeIgnored, SetQuarantineFlagIfAllocated, ReportInvalidFree,
           MarkContext, FreeBegin
  <2>6. ASSUME NEW t \in Threads, Drain(t)
        PROVE  Q!Next \/ UNCHANGED quarantine
    BY <2>3, <2>6, Zenon
       DEF Drain, DrainBegin, SkipDrain, RecycleDone, ClearMagic, Invalidate,
           PoisonRecycled, DeallocatePrimary, DeallocateSecondary
  <2>7. CASE UNCHANGED vars
    BY <2>1, <2>7 DEF vars
  <2> QED
    BY <1>2, <2>1, <2>4, <2>5, <2>6, <2>7 DEF Next
<1>3. Spec => [](IInv \/ MInv)
  <2>1. CASE Misuse
    BY <2>1, MisuseInvariant, PTL
  <2>2. CASE ~Misuse
    BY <2>2, AllocatorInvariant, PTL
  <2> QED
    BY <2>1, <2>2
<1> QED
  BY <1>1, <1>2, <1>3, PTL DEF Spec, QuarantineUse, Q!Spec

=============================================================================
