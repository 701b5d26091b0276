----------------------------- MODULE StackDepot -----------------------------
(***************************************************************************)
(* The stack depot (sanitizer_stackdepotbase.h): a hash table from stack   *)
(* traces to ids.  A bucket is the id of the first node of a list and a    *)
(* lock bit; lists are searched without the lock and grow at the front     *)
(* under it.  The nodes live in arrays that are mapped when they are       *)
(* needed (TwoLevelMap, sanitizer_flat_map.h).                             *)
(*                                                                         *)
(* The atomic accesses are sequentially consistent here; in the code the   *)
(* store that publishes a node is a release and the loads are dependent.   *)
(***************************************************************************)
EXTENDS Integers

CONSTANTS
  Threads,
  Traces,       \* the stack traces that are put, all of them valid
  Hashes,
  Hash,         \* StackDepotNode::hash
  kTabSize,     \* number of buckets
  kNodesSize2,  \* nodes in an array
  kMaxId,       \* kUnlockMask, the largest id; beyond it a CHECK ends the process
  MaxForks,     \* bound on the number of forks
  None

ASSUME DepotAssumption ==
  /\ Hashes \subseteq Nat
  /\ Hash \in [Traces -> Hashes]
  /\ kTabSize \in Nat \ {0}
  /\ kNodesSize2 \in Nat \ {0}
  /\ kMaxId \in Nat
  /\ MaxForks \in Nat
  /\ None \notin Threads \cup Traces \cup Hashes

Buckets == 0 .. kTabSize - 1
Ids == 1 .. kMaxId
Links == 0 .. kMaxId

VARIABLES
  tab,         \* a bucket without its lock bit
  locked,      \* the lock bit
  n_uniq_ids,
  map1,        \* the arrays of nodes that are mapped
  mu,          \* mu_ of the TwoLevelMap: who holds it
  stack_hash,  \* of a node
  link,        \* of a node
  stored,      \* of a node: the trace in the stack store, None if it is full
  pc,
  arg,         \* the trace a thread puts
  s,           \* the bucket it has read, later the id of its new node
  s2,          \* the bucket it has locked
  cur,         \* the node find is at
  forks,       \* number of forks
  chain,       \* the nodes that have been published in a bucket
  issued,      \* pairs of a trace and the id Put has returned for it
  lost         \* ids of threads that a fork left behind

nodevars == <<stack_hash, link, stored>>
locals == <<arg, s, s2, cur>>
ghosts == <<chain, issued, lost>>
vars == <<tab, locked, n_uniq_ids, map1, mu, nodevars, pc, locals, forks, ghosts>>

Bucket(h) == h % kTabSize
Array(id) == id \div kNodesSize2

HashOf(t) == Hash[arg[t]]
BucketOf(t) == Bucket(HashOf(t))

Goto(t, label) == pc' = [pc EXCEPT ![t] = label]

Init ==
  /\ tab = [b \in Buckets |-> 0]
  /\ locked = [b \in Buckets |-> FALSE]
  /\ n_uniq_ids = 0
  /\ map1 = {}
  /\ mu = None
  /\ stack_hash = [i \in Ids |-> None]
  /\ link = [i \in Ids |-> 0]
  /\ stored = [i \in Ids |-> None]
  /\ pc = [t \in Threads |-> "idle"]
  /\ arg = [t \in Threads |-> None]
  /\ s = [t \in Threads |-> 0]
  /\ s2 = [t \in Threads |-> 0]
  /\ cur = [t \in Threads |-> 0]
  /\ forks = 0
  /\ chain = [b \in Buckets |-> {}]
  /\ issued = {}
  /\ lost = {}

-----------------------------------------------------------------------------
(* Put *)

Put(t, a) ==
  /\ pc[t] = "idle"
  /\ arg' = [arg EXCEPT ![t] = a]
  /\ Goto(t, "load")
  /\ UNCHANGED <<tab, locked, n_uniq_ids, map1, mu, nodevars, s, s2, cur,
                 forks, ghosts>>

\* Put returns an id; its locals are dead.
Return(t, id) ==
  /\ issued' = issued \cup {<<arg[t], id>>}
  /\ Goto(t, "idle")
  /\ arg' = [arg EXCEPT ![t] = None]
  /\ s' = [s EXCEPT ![t] = 0]
  /\ s2' = [s2 EXCEPT ![t] = 0]
  /\ cur' = [cur EXCEPT ![t] = 0]

\* The bucket is read, whether or not it is locked, and the search begins.
LoadBucket(t) ==
  /\ pc[t] = "load"
  /\ s' = [s EXCEPT ![t] = tab[BucketOf(t)]]
  /\ cur' = [cur EXCEPT ![t] = tab[BucketOf(t)]]
  /\ Goto(t, "find")
  /\ UNCHANGED <<tab, locked, n_uniq_ids, map1, mu, nodevars, arg, s2, forks,
                 ghosts>>

\* One step of find in a list that others are adding to.
FindNext(t) ==
  /\ pc[t] \in {"find", "find_locked"}
  /\ cur[t] # 0
  /\ stack_hash[cur[t]] # HashOf(t)
  /\ cur' = [cur EXCEPT ![t] = link[cur[t]]]
  /\ UNCHANGED <<tab, locked, n_uniq_ids, map1, mu, nodevars, pc, arg, s, s2,
                 forks, ghosts>>

\* The trace is found without the lock.
Found(t) ==
  /\ pc[t] = "find"
  /\ cur[t] # 0
  /\ stack_hash[cur[t]] = HashOf(t)
  /\ Return(t, cur[t])
  /\ UNCHANGED <<tab, locked, n_uniq_ids, map1, mu, nodevars, forks, chain, lost>>

NotFound(t) ==
  /\ pc[t] \in {"find", "find_locked"}
  /\ cur[t] = 0
  /\ Goto(t, IF pc[t] = "find" THEN "lock" ELSE "alloc")
  /\ UNCHANGED <<tab, locked, n_uniq_ids, map1, mu, nodevars, locals, forks,
                 ghosts>>

\* Mutant: the list is not searched again under the lock.
LockAndInsert(t) ==
  LET b == BucketOf(t)
  IN  /\ pc[t] = "lock"
      /\ ~locked[b]
      /\ locked' = [locked EXCEPT ![b] = TRUE]
      /\ s2' = [s2 EXCEPT ![t] = tab[b]]
      /\ cur' = [cur EXCEPT ![t] = tab[b]]
      /\ Goto(t, "alloc")
      /\ UNCHANGED <<tab, n_uniq_ids, map1, mu, nodevars, arg, s, forks, ghosts>>

\* The bucket is locked; it is searched again if it has changed since.
Lock(t) ==
  LET b == BucketOf(t)
  IN  /\ pc[t] = "lock"
      /\ ~locked[b]
      /\ locked' = [locked EXCEPT ![b] = TRUE]
      /\ s2' = [s2 EXCEPT ![t] = tab[b]]
      /\ cur' = [cur EXCEPT ![t] = IF tab[b] # s[t] THEN tab[b] ELSE 0]
      /\ Goto(t, IF tab[b] # s[t] THEN "find_locked" ELSE "alloc")
      /\ UNCHANGED <<tab, n_uniq_ids, map1, mu, nodevars, arg, s, forks, ghosts>>

\* The trace is found under the lock: somebody else has put it meanwhile.
FoundLocked(t) ==
  LET b == BucketOf(t)
  IN  /\ pc[t] = "find_locked"
      /\ cur[t] # 0
      /\ stack_hash[cur[t]] = HashOf(t)
      /\ tab' = [tab EXCEPT ![b] = s2[t]]
      /\ locked' = [locked EXCEPT ![b] = FALSE]
      /\ Return(t, cur[t])
      /\ UNCHANGED <<n_uniq_ids, map1, mu, nodevars, forks, chain, lost>>

\* Mutant: the id is read and the counter written back in two steps.
AllocIdRaces(t) ==
  \E id \in {n_uniq_ids, n_uniq_ids + 1} :
    /\ pc[t] = "alloc"
    /\ id \in Ids
    /\ n_uniq_ids' = id
    /\ s' = [s EXCEPT ![t] = id]
    /\ Goto(t, "node")
    /\ UNCHANGED <<tab, locked, map1, mu, nodevars, arg, s2, cur, forks, ghosts>>

\* An id is taken.
AllocId(t) ==
  /\ pc[t] = "alloc"
  /\ n_uniq_ids < kMaxId
  /\ n_uniq_ids' = n_uniq_ids + 1
  /\ s' = [s EXCEPT ![t] = n_uniq_ids + 1]
  /\ Goto(t, "node")
  /\ UNCHANGED <<tab, locked, map1, mu, nodevars, arg, s2, cur, forks, ghosts>>

\* TwoLevelMap::GetOrCreate: the look without the lock.
GetNode(t) ==
  /\ pc[t] = "node"
  /\ Goto(t, IF Array(s[t]) \in map1 THEN "store" ELSE "create")
  /\ UNCHANGED <<tab, locked, n_uniq_ids, map1, mu, nodevars, locals, forks,
                 ghosts>>

\* TwoLevelMap::Create, under mu_: the array may be there by now.
Create(t) ==
  /\ pc[t] = "create"
  /\ mu = None
  /\ map1' = map1 \cup {Array(s[t])}
  /\ Goto(t, "store")
  /\ UNCHANGED <<tab, locked, n_uniq_ids, mu, nodevars, locals, forks, ghosts>>

\* StackDepotNode::store: the stack store may be full.
StoreNode(t) ==
  /\ pc[t] = "store"
  /\ stack_hash' = [stack_hash EXCEPT ![s[t]] = HashOf(t)]
  /\ \E trace \in {arg[t], None} : stored' = [stored EXCEPT ![s[t]] = trace]
  /\ Goto(t, "link")
  /\ UNCHANGED <<tab, locked, n_uniq_ids, map1, mu, link, locals, forks, ghosts>>

\* Mutant: the new node is not linked to the list.
LinkForgotten(t) ==
  /\ pc[t] = "link"
  /\ link' = [link EXCEPT ![s[t]] = 0]
  /\ Goto(t, "publish")
  /\ UNCHANGED <<tab, locked, n_uniq_ids, map1, mu, stack_hash, stored, locals,
                 forks, ghosts>>

LinkNode(t) ==
  /\ pc[t] = "link"
  /\ link' = [link EXCEPT ![s[t]] = s2[t]]
  /\ Goto(t, "publish")
  /\ UNCHANGED <<tab, locked, n_uniq_ids, map1, mu, stack_hash, stored, locals,
                 forks, ghosts>>

\* The store that unlocks the bucket puts the node into it.
Publish(t) ==
  LET b == BucketOf(t)
  IN  /\ pc[t] = "publish"
      /\ tab' = [tab EXCEPT ![b] = s[t]]
      /\ locked' = [locked EXCEPT ![b] = FALSE]
      /\ chain' = [chain EXCEPT ![b] = @ \cup {s[t]}]
      /\ Return(t, s[t])
      /\ UNCHANGED <<n_uniq_ids, map1, mu, nodevars, forks, lost>>

\* Get, which only reads: None stands for an empty trace.
Get(id) == IF id = 0 \/ Array(id) \notin map1 THEN None ELSE stored[id]

-----------------------------------------------------------------------------
(* Fork *)

\* LockBeforeFork locks the nodes and no bucket.
LockBeforeFork(t) ==
  /\ pc[t] = "idle"
  /\ forks < MaxForks
  /\ mu = None
  /\ mu' = t
  /\ forks' = forks + 1
  /\ Goto(t, "fork")
  /\ UNCHANGED <<tab, locked, n_uniq_ids, map1, nodevars, locals, ghosts>>

\* UnlockAfterFork in the parent.
UnlockInParent(t) ==
  /\ pc[t] = "fork"
  /\ mu' = None
  /\ Goto(t, "idle")
  /\ UNCHANGED <<tab, locked, n_uniq_ids, map1, nodevars, locals, forks, ghosts>>

\* Ids that have been taken and not published.
InFlight == {"node", "create", "store", "link", "publish"}
Taken(S) == {s[t] : t \in {u \in S : pc[u] \in InFlight}}

\* Mutant: the child does not unlock the buckets.
UnlockInChildForgotten(t) ==
  /\ pc[t] = "fork"
  /\ mu' = None
  /\ pc' = [u \in Threads |-> IF u = t THEN "idle" ELSE "gone"]
  /\ arg' = [u \in Threads |-> None]
  /\ s' = [u \in Threads |-> 0]
  /\ s2' = [u \in Threads |-> 0]
  /\ cur' = [u \in Threads |-> 0]
  /\ lost' = lost \cup Taken(Threads)
  /\ UNCHANGED <<tab, locked, n_uniq_ids, map1, nodevars, forks, chain, issued>>

\* UnlockAfterFork in the child, where the other threads are gone, whatever
\* they were doing: every bucket is unlocked.
UnlockInChild(t) ==
  /\ pc[t] = "fork"
  /\ mu' = None
  /\ locked' = [b \in Buckets |-> FALSE]
  /\ pc' = [u \in Threads |-> IF u = t THEN "idle" ELSE "gone"]
  /\ arg' = [u \in Threads |-> None]
  /\ s' = [u \in Threads |-> 0]
  /\ s2' = [u \in Threads |-> 0]
  /\ cur' = [u \in Threads |-> 0]
  /\ lost' = lost \cup Taken(Threads)
  /\ UNCHANGED <<tab, n_uniq_ids, map1, nodevars, forks, chain, issued>>

-----------------------------------------------------------------------------

PutStep(t) ==
  \/ LoadBucket(t) \/ FindNext(t) \/ Found(t) \/ NotFound(t)
  \/ Lock(t) \/ FoundLocked(t) \/ AllocId(t)
  \/ GetNode(t) \/ Create(t) \/ StoreNode(t) \/ LinkNode(t) \/ Publish(t)
ForkStep(t) == UnlockInParent(t) \/ UnlockInChild(t)

Next ==
  \E t \in Threads :
    \/ \E a \in Traces : Put(t, a)
    \/ PutStep(t)
    \/ LockBeforeFork(t)
    \/ ForkStep(t)

Spec == Init /\ [][Next]_vars

\* A thread inside Put, or between the two halves of a fork, keeps running.
\* A bucket is locked only to insert a hash that is new when it is searched
\* first, so a thread that waits for one is not overtaken for ever.
Fairness == \A t \in Threads : WF_vars(PutStep(t)) /\ WF_vars(ForkStep(t))

FairSpec == Spec /\ Fairness

-----------------------------------------------------------------------------
(* Properties *)

Published == UNION {chain[b] : b \in Buckets}

\* Every variable has the type of the field it stands for.
TypeOK ==
  /\ tab \in [Buckets -> Links]
  /\ locked \in [Buckets -> BOOLEAN]
  /\ n_uniq_ids \in Links
  /\ map1 \subseteq Nat
  /\ mu \in Threads \cup {None}
  /\ stack_hash \in [Ids -> Hashes \cup {None}]
  /\ link \in [Ids -> Links]
  /\ stored \in [Ids -> Traces \cup {None}]
  /\ pc \in [Threads -> {"idle", "load", "find", "lock", "find_locked",
                         "alloc", "node", "create", "store", "link",
                         "publish", "fork", "gone"}]
  /\ arg \in [Threads -> Traces \cup {None}]
  /\ s \in [Threads -> Links]
  /\ s2 \in [Threads -> Links]
  /\ cur \in [Threads -> Links]
  /\ forks \in 0 .. MaxForks
  /\ chain \in [Buckets -> SUBSET Ids]
  /\ issued \subseteq Traces \X Ids
  /\ lost \subseteq Ids

\* Two calls of Put, by whichever threads and on whichever side of a fork,
\* return the same id exactly when their traces have the same hash.
OneIdPerHash ==
  \A p, q \in issued : (Hash[p[1]] = Hash[q[1]]) <=> (p[2] = q[2])

\* An id that Put has returned is good for Get from then on: it gives a trace
\* with the hash of the one that was put, or none if the store was full.
IssuedIsFound ==
  \A p \in issued :
    /\ Array(p[2]) \in map1
    /\ stack_hash[p[2]] = Hash[p[1]]
    /\ Get(p[2]) # None => Hash[Get(p[2])] = Hash[p[1]]

\* From a bucket, whether locked or not, the links lead through all the nodes
\* ever published in it, newest first, and to the end, so that a search under
\* way misses none of the nodes that were there when it began.
ChainsAreWhole ==
  \A b \in Buckets :
    /\ tab[b] \in chain[b] \cup {0}
    /\ \A i \in chain[b] :
         /\ i <= tab[b]
         /\ link[i] \in chain[b] \cup {0}
         /\ link[i] < i
         /\ \A j \in chain[b] : j < i => j <= link[i]

\* A node that readers can reach never changes and is never taken out.
PublishedIsFrozen ==
  [][\A b \in Buckets : \A i \in chain[b] :
       /\ i \in chain'[b]
       /\ stack_hash'[i] = stack_hash[i]
       /\ link'[i] = link[i]
       /\ stored'[i] = stored[i]]_vars

\* Every Put returns, in the child of a fork, too, where the thread that had
\* locked the bucket is gone.
PutReturns == \A t \in Threads : pc[t] # "idle" ~> pc[t] \in {"idle", "gone"}

\* The depot is a map from hashes to ids that is updated in one step, the one
\* that unlocks the bucket.
KnownIn(h) == {i \in Published : stack_hash[i] = h}
KnownId(h) == IF KnownIn(h) = {} THEN 0 ELSE CHOOSE i \in KnownIn(h) : TRUE
Map == INSTANCE DepotMap WITH known <- [h \in Hashes |-> KnownId(h)]
DepotIsAMap == Map!Spec
=============================================================================
