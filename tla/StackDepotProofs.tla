-------------------------- MODULE StackDepotProofs --------------------------
(***************************************************************************)
(* Proofs about StackDepot, for any number of threads, traces, buckets,    *)
(* ids and forks: the inductive invariant, what the step of one thread may *)
(* do to the others, every step, what follows from the invariant, and the  *)
(* refinement of DepotMap.                                                 *)
(*                                                                         *)
(* The ids in a bucket are in the order in which they were published, and  *)
(* a link leads to the next smaller one.  So what a search has passed can  *)
(* be said without following links: the published ids between where it     *)
(* began and where it is.                                                  *)
(***************************************************************************)
EXTENDS StackDepot, TLAPS

\* Where a thread holds the lock of its bucket.
Holding == {"find_locked", "alloc"} \cup InFlight

\* Where a thread is putting a trace.
Putting == {"load", "find", "lock"} \cup Holding

\* No published node of bucket b in a range of ids has hash h.
Absent(b, h, low, high) ==
  \A i \in chain[b] : low < i /\ i <= high => stack_hash[i] # h

\* A published node is complete, in the bucket of its hash.
NodeOk(b, i) ==
  /\ stack_hash[i] \in Hashes
  /\ Bucket(stack_hash[i]) = b
  /\ Array(i) \in map1
  /\ i <= n_uniq_ids
  /\ stored[i] # None => Hash[stored[i]] = stack_hash[i]

Nodes == \A b \in Buckets : \A i \in chain[b] : NodeOk(b, i)

\* No two published nodes have the same hash.
HashesApart ==
  \A b \in Buckets : \A i, j \in chain[b] : stack_hash[i] = stack_hash[j] => i = j

IssuedOk ==
  \A p \in issued :
    p[2] \in chain[Bucket(Hash[p[1]])] /\ stack_hash[p[2]] = Hash[p[1]]

\* What a thread knows while it puts a trace.
Searches(t) ==
  LET b == BucketOf(t)
  IN  /\ pc[t] \in {"find", "lock"} =>
           /\ s[t] \in chain[b] \cup {0}
           /\ cur[t] \in chain[b] \cup {0}
           /\ Absent(b, HashOf(t), cur[t], s[t])
      /\ pc[t] = "lock" => cur[t] = 0

Holds(t) ==
  LET b == BucketOf(t)
  IN  pc[t] \in Holding =>
        /\ locked[b]
        /\ s2[t] = tab[b]
        /\ cur[t] \in chain[b] \cup {0}
        /\ pc[t] # "find_locked" => cur[t] = 0
        /\ Absent(b, HashOf(t), cur[t], tab[b])

Fills(t) ==
  /\ pc[t] \in InFlight =>
       /\ s[t] \in Ids
       /\ s[t] <= n_uniq_ids
       /\ tab[BucketOf(t)] < s[t]
       /\ \A b \in Buckets : s[t] \notin chain[b]
  /\ pc[t] \in {"store", "link", "publish"} => Array(s[t]) \in map1
  /\ pc[t] \in {"link", "publish"} =>
       stack_hash[s[t]] = HashOf(t) /\ stored[s[t]] \in {arg[t], None}
  /\ pc[t] = "publish" => link[s[t]] = s2[t]

ThreadOk(t) ==
  /\ pc[t] \in Putting => arg[t] \in Traces
  /\ Searches(t)
  /\ Holds(t)
  /\ Fills(t)

\* Two threads never have the same bucket locked or the same new id.
ThreadsApart(t, u) ==
  /\ pc[t] \in Holding /\ pc[u] \in Holding => BucketOf(t) # BucketOf(u)
  /\ pc[t] \in InFlight /\ pc[u] \in InFlight => s[t] # s[u]

Shared == ChainsAreWhole /\ Nodes /\ HashesApart /\ IssuedOk

IInv ==
  /\ TypeOK
  /\ Shared
  /\ \A t \in Threads : ThreadOk(t)
  /\ \A t, u \in Threads : t # u => ThreadsApart(t, u)
-----------------------------------------------------------------------------
(* Lemmas *)

\* An id is not 0.
LEMMA IdsArePositive == \A j \in Ids : j \in Nat /\ 0 < j
BY DepotAssumption DEF Ids

\* A hash selects a slot of tab.
LEMMA BucketFacts ==
  ASSUME NEW h \in Hashes
  PROVE  Bucket(h) \in Buckets
  BY DepotAssumption DEF Bucket, Buckets

\* A thread inside Put has a trace, and its hash selects a slot of tab.
LEMMA HashFacts ==
  ASSUME NEW t \in Threads, arg[t] \in Traces
  PROVE  HashOf(t) \in Hashes /\ BucketOf(t) \in Buckets
  BY BucketFacts, DepotAssumption DEF HashOf, BucketOf

\* What one thread's step leaves alone of another thread.
SameThread(u) ==
  /\ pc'[u] = pc[u]
  /\ arg'[u] = arg[u]
  /\ s'[u] = s[u]
  /\ s2'[u] = s2[u]
  /\ cur'[u] = cur[u]

\* What any step does to the nodes that are published.
ChainsGrow ==
  /\ \A b \in Buckets : chain[b] \subseteq chain'[b]
  /\ \A b \in Buckets : \A i \in chain[b] :
       /\ stack_hash'[i] = stack_hash[i]
       /\ link'[i] = link[i]
       /\ stored'[i] = stored[i]
  /\ \A b \in Buckets : \A i \in chain'[b] : i \notin chain[b] => tab[b] < i
  /\ map1 \subseteq map1'
  /\ n_uniq_ids <= n_uniq_ids'

\* What a thread relies on the others for while it has a bucket locked.
Respected(u) ==
  LET b == BucketOf(u)
  IN  /\ pc[u] \in Holding =>
           locked'[b] /\ tab'[b] = tab[b] /\ chain'[b] = chain[b]
      /\ pc[u] \in InFlight =>
           /\ \A c \in Buckets : s[u] \notin chain'[c]
           /\ stack_hash'[s[u]] = stack_hash[s[u]]
           /\ link'[s[u]] = link[s[u]]
           /\ stored'[s[u]] = stored[s[u]]

\* A thread inside Put keeps what it knows when another thread's step only makes
\* the chains grow and respects the bucket it has locked.
LEMMA OtherStays ==
  ASSUME TypeOK, TypeOK', ChainsAreWhole, ChainsGrow,
         NEW u \in Threads, ThreadOk(u), SameThread(u), Respected(u)
  PROVE  ThreadOk(u)'
<1> USE DEF SameThread
<1>1. HashOf(u)' = HashOf(u) /\ BucketOf(u)' = BucketOf(u)
  BY DEF HashOf, BucketOf
<1>2. pc'[u] \in Putting => arg'[u] \in Traces
  BY DEF ThreadOk
<1>3. pc[u] \in Putting => BucketOf(u) \in Buckets
  BY HashFacts DEF ThreadOk
<1>4. Searches(u)'
  <2>1. CASE pc[u] \in {"find", "lock"}
    <3> DEFINE b == BucketOf(u)
    <3>1. b \in Buckets
      BY <2>1, <1>3 DEF Putting
    <3>2. /\ s[u] \in chain[b] \cup {0}
          /\ cur[u] \in chain[b] \cup {0}
          /\ Absent(b, HashOf(u), cur[u], s[u])
          /\ pc[u] = "lock" => cur[u] = 0
      BY <2>1 DEF ThreadOk, Searches
    <3>3. s[u] <= tab[b]
      BY <3>1, <3>2 DEF ChainsAreWhole, TypeOK, Links
    <3>4. chain[b] \subseteq Ids /\ chain'[b] \subseteq Ids /\ tab[b] \in Links /\ s[u] \in Links
      BY <3>1 DEF TypeOK
    <3>5. \A i \in chain'[b] : i <= s[u] => i \in chain[b]
      BY <3>1, <3>3, <3>4 DEF ChainsGrow, Ids, Links
    <3>6. \A i \in chain'[b] : cur[u] < i /\ i <= s[u] => stack_hash'[i] # HashOf(u)
      BY <3>1, <3>2, <3>5 DEF Absent, ChainsGrow
    <3>7. chain[b] \subseteq chain'[b]
      BY <3>1 DEF ChainsGrow
    <3>8. Absent(b, HashOf(u), cur[u], s[u])'
      BY <3>6, <1>1 DEF Absent
    <3> QED
      BY <1>1, <3>2, <3>7, <3>8 DEF Searches
  <2>2. CASE pc[u] \notin {"find", "lock"}
    BY <2>2 DEF Searches
  <2> QED
    BY <2>1, <2>2
<1>5. Holds(u)'
  <2>1. CASE pc[u] \in Holding
    <3> DEFINE b == BucketOf(u)
    <3>1. b \in Buckets
      BY <2>1, <1>3 DEF Putting
    <3>2. locked'[b] /\ tab'[b] = tab[b] /\ chain'[b] = chain[b]
      BY <2>1 DEF Respected
    <3>3. /\ s2[u] = tab[b]
          /\ cur[u] \in chain[b] \cup {0}
          /\ pc[u] # "find_locked" => cur[u] = 0
          /\ Absent(b, HashOf(u), cur[u], tab[b])
      BY <2>1 DEF ThreadOk, Holds
    <3>4. Absent(b, HashOf(u), cur[u], tab[b])'
      BY <3>1, <3>2, <3>3, <1>1 DEF Absent, ChainsGrow
    <3> QED
      BY <1>1, <3>2, <3>3, <3>4 DEF Holds
  <2>2. CASE pc[u] \notin Holding
    BY <2>2 DEF Holds
  <2> QED
    BY <2>1, <2>2
<1>6. Fills(u)'
  <2>1. CASE pc[u] \in InFlight
    <3>1. pc[u] \in Holding
      BY <2>1 DEF Holding
    <3>2. tab'[BucketOf(u)] = tab[BucketOf(u)]
      BY <3>1 DEF Respected
    <3>3. /\ \A c \in Buckets : s[u] \notin chain'[c]
          /\ stack_hash'[s[u]] = stack_hash[s[u]]
          /\ link'[s[u]] = link[s[u]]
          /\ stored'[s[u]] = stored[s[u]]
      BY <2>1 DEF Respected
    <3>4. Fills(u)
      BY DEF ThreadOk
    <3>5. s[u] <= n_uniq_ids'
      BY <2>1, <3>4 DEF Fills, ChainsGrow, TypeOK, Ids, Links
    <3>6. map1 \subseteq map1'
      BY DEF ChainsGrow
    <3> QED
      BY <1>1, <2>1, <3>2, <3>3, <3>4, <3>5, <3>6 DEF Fills
  <2>2. CASE pc[u] \notin InFlight
    BY <2>2 DEF Fills, InFlight
  <2> QED
    BY <2>1, <2>2
<1> QED
  BY <1>2, <1>4, <1>5, <1>6 DEF ThreadOk

\* Steps that publish nothing and return nothing.
Quiet ==
  /\ tab' = tab
  /\ chain' = chain
  /\ issued' = issued
  /\ map1 \subseteq map1'
  /\ n_uniq_ids <= n_uniq_ids'
  /\ \A b \in Buckets : \A i \in chain[b] :
       /\ stack_hash'[i] = stack_hash[i]
       /\ link'[i] = link[i]
       /\ stored'[i] = stored[i]

\* A step that publishes no node makes the chains grow, trivially.
LEMMA QuietGrows ==
  ASSUME Quiet
  PROVE  ChainsGrow
  BY DEF Quiet, ChainsGrow

\* A published node stays well formed while the chains grow.
LEMMA NodesStay ==
  ASSUME TypeOK, TypeOK', Nodes, ChainsGrow,
         NEW b \in Buckets, NEW i \in chain[b]
  PROVE  NodeOk(b, i)'
<1>1. NodeOk(b, i)
  BY DEF Nodes
<1>2. /\ stack_hash'[i] = stack_hash[i]
      /\ stored'[i] = stored[i]
      /\ map1 \subseteq map1'
      /\ n_uniq_ids <= n_uniq_ids'
  BY DEF ChainsGrow
<1>3. i \in Nat /\ n_uniq_ids \in Nat /\ n_uniq_ids' \in Nat
  BY DEF TypeOK, Ids, Links
<1> QED
  BY <1>1, <1>2, <1>3 DEF NodeOk, Bucket, Array

\* A step that publishes nothing keeps what is said of the table and the nodes.
LEMMA SharedStays ==
  ASSUME TypeOK, TypeOK', Shared, Quiet
  PROVE  Shared'
<1> USE DEF Shared
<1>1. ChainsAreWhole'
  BY DEF ChainsAreWhole, Quiet
<1>2. Nodes'
  BY NodesStay, QuietGrows DEF Nodes, Quiet
<1>3. HashesApart'
  BY DEF HashesApart, Quiet
<1>4. IssuedOk'
  <2> SUFFICES ASSUME NEW p \in issued
               PROVE  /\ p[2] \in chain[Bucket(Hash[p[1]])]
                      /\ stack_hash'[p[2]] = Hash[p[1]]
    BY DEF IssuedOk, Quiet
  <2>1. p[1] \in Traces
    BY DEF TypeOK
  <2>2. Bucket(Hash[p[1]]) \in Buckets
    BY <2>1, BucketFacts, DepotAssumption
  <2> QED
    BY <2>2 DEF IssuedOk, Quiet
<1> QED
  BY <1>1, <1>2, <1>3, <1>4

\* The step of thread t puts no other thread's knowledge in doubt.
LEMMA ThreadsStay ==
  ASSUME IInv, TypeOK', Shared', ChainsGrow,
         NEW t \in Threads,
         \A u \in Threads \ {t} : SameThread(u) /\ Respected(u),
         ThreadOk(t)',
         \A u \in Threads \ {t} : ThreadsApart(t, u)' /\ ThreadsApart(u, t)'
  PROVE  IInv'
<1>1. \A u \in Threads \ {t} : ThreadOk(u)'
  BY OtherStays DEF IInv, Shared
<1>2. ASSUME NEW u \in Threads \ {t}, NEW v \in Threads \ {t}, u # v
      PROVE  ThreadsApart(u, v)'
  <2>1. ThreadsApart(u, v)
    BY <1>2 DEF IInv
  <2>2. SameThread(u) /\ SameThread(v)
    OBVIOUS
  <2> QED
    BY <2>1, <2>2 DEF ThreadsApart, SameThread, BucketOf, HashOf
<1>3. \A u, v \in Threads : u # v => ThreadsApart(u, v)'
  BY <1>2
<1>4. \A u \in Threads : ThreadOk(u)'
  BY <1>1
<1> QED
  BY <1>3, <1>4 DEF IInv

\* A step that touches neither nodes nor locks respects everybody.
LEMMA LocalRespects ==
  ASSUME IInv, NEW t \in Threads, NEW u \in Threads \ {t},
         locked' = locked, tab' = tab, chain' = chain, nodevars' = nodevars
  PROVE  Respected(u)
<1>1. ThreadOk(u)
  BY DEF IInv
<1> QED
  BY <1>1 DEF Respected, ThreadOk, Holds, Fills, nodevars

\* Entering Put keeps the invariant.
LEMMA PutKeeps ==
  ASSUME IInv, NEW t \in Threads, NEW a \in Traces, Put(t, a)
  PROVE  IInv'
<1>1. TypeOK'
  BY DepotAssumption DEF IInv, TypeOK, Put, Goto, nodevars, ghosts, locals
<1>2. Quiet
  BY DEF IInv, Put, Quiet, TypeOK, ghosts, nodevars, Links
<1>3. \A u \in Threads \ {t} : SameThread(u)
  BY DEF IInv, TypeOK, Put, SameThread, Goto, locals
<1>4. \A u \in Threads \ {t} : Respected(u)
  BY LocalRespects DEF Put, ghosts
<1>5. ThreadOk(t)'
  BY DEF IInv, TypeOK, Put, Goto, ThreadOk, Searches, Holds, Fills, Holding, InFlight, Putting
<1>6. \A u \in Threads \ {t} : ThreadsApart(t, u)' /\ ThreadsApart(u, t)'
  <2>1. pc'[t] \notin Holding
    BY DEF IInv, TypeOK, Put, Goto, Holding, InFlight
  <2> QED
    BY <2>1 DEF ThreadsApart, Holding
<1> QED
  BY <1>1, <1>2, <1>3, <1>4, <1>5, <1>6, ThreadsStay, SharedStays, QuietGrows DEF IInv

\* The first load of the bucket keeps the invariant.
LEMMA LoadBucketKeeps ==
  ASSUME IInv, NEW t \in Threads, LoadBucket(t)
  PROVE  IInv'
<1>1. TypeOK'
  <2>1. BucketOf(t) \in Buckets
    BY HashFacts DEF IInv, ThreadOk, LoadBucket, Putting
  <2> QED
    BY <2>1 DEF IInv, TypeOK, LoadBucket, Goto, nodevars, ghosts
<1>2. Quiet
  BY DEF IInv, LoadBucket, Quiet, TypeOK, ghosts, nodevars, Links
<1>3. \A u \in Threads \ {t} : SameThread(u)
  BY DEF IInv, TypeOK, LoadBucket, SameThread, Goto, locals
<1>4. \A u \in Threads \ {t} : Respected(u)
  BY LocalRespects DEF LoadBucket, ghosts
<1>5. ThreadOk(t)'
  <2> DEFINE b == BucketOf(t)
  <2>1. arg[t] \in Traces
    BY DEF IInv, ThreadOk, LoadBucket, Putting
  <2>2. b \in Buckets
    BY <2>1, HashFacts
  <2>3. tab[b] \in chain[b] \cup {0}
    BY <2>2 DEF IInv, Shared, ChainsAreWhole
  <2>4. pc'[t] = "find" /\ s'[t] = tab[b] /\ cur'[t] = tab[b] /\ arg' = arg /\ chain' = chain
    BY DEF IInv, TypeOK, LoadBucket, Goto, ghosts
  <2>5. BucketOf(t)' = b
    BY <2>4 DEF BucketOf, HashOf
  <2>6. Absent(b, HashOf(t), cur[t], s[t])'
    BY <2>2, <2>4 DEF Absent, IInv, TypeOK, Ids, Links
  <2> QED
    BY <2>1, <2>3, <2>4, <2>5, <2>6 DEF ThreadOk, Searches, Holds, Fills, Holding, InFlight
<1>6. \A u \in Threads \ {t} : ThreadsApart(t, u)' /\ ThreadsApart(u, t)'
  <2>1. pc'[t] \notin Holding
    BY DEF IInv, TypeOK, LoadBucket, Goto, Holding, InFlight
  <2> QED
    BY <2>1 DEF ThreadsApart, Holding
<1> QED
  BY <1>1, <1>2, <1>3, <1>4, <1>5, <1>6, ThreadsStay, SharedStays, QuietGrows DEF IInv

\* Following a link in the search keeps the invariant.
LEMMA FindNextKeeps ==
  ASSUME IInv, NEW t \in Threads, FindNext(t)
  PROVE  IInv'
<1>1. TypeOK'
  <2>1. cur[t] \in Ids
    BY DEF IInv, TypeOK, FindNext, Ids, Links
  <2> QED
    BY <2>1 DEF IInv, TypeOK, FindNext, nodevars, ghosts
<1>2. Quiet
  BY DEF IInv, FindNext, Quiet, TypeOK, ghosts, nodevars, Links
<1>3. \A u \in Threads \ {t} : SameThread(u)
  BY DEF IInv, TypeOK, FindNext, SameThread, Goto, locals
<1>4. \A u \in Threads \ {t} : Respected(u)
  BY LocalRespects DEF FindNext, ghosts
<1>5. ThreadOk(t)'
  <2> DEFINE b == BucketOf(t)
  <2>1. arg[t] \in Traces
    BY DEF IInv, ThreadOk, FindNext, Putting, Holding
  <2>2. b \in Buckets
    BY <2>1, HashFacts
  <2>3. cur'[t] = link[cur[t]] /\ pc' = pc /\ arg' = arg /\ s' = s /\ s2' = s2
    BY DEF IInv, TypeOK, FindNext
  <2>4. tab' = tab /\ chain' = chain /\ stack_hash' = stack_hash /\ locked' = locked
    BY DEF FindNext, ghosts, nodevars
  <2>5. BucketOf(t)' = b /\ HashOf(t)' = HashOf(t)
    BY <2>3 DEF BucketOf, HashOf
  <2>6. cur[t] \in chain[b]
    BY DEF IInv, ThreadOk, Searches, Holds, FindNext, Holding
  <2>7. /\ link[cur[t]] \in chain[b] \cup {0}
        /\ \A j \in chain[b] : j < cur[t] => j <= link[cur[t]]
    BY <2>2, <2>6 DEF IInv, Shared, ChainsAreWhole
  <2>8. stack_hash[cur[t]] # HashOf(t)
    BY DEF FindNext
  <2>9. chain[b] \subseteq Nat /\ link[cur[t]] \in Nat /\ s[t] \in Nat /\ tab[b] \in Nat
    BY <2>2, <2>6, <2>7 DEF IInv, TypeOK, Ids, Links
  <2>10. ASSUME NEW high \in Nat, Absent(b, HashOf(t), cur[t], high)
         PROVE  Absent(b, HashOf(t), link[cur[t]], high)
    BY <2>10, <2>6, <2>7, <2>8, <2>9 DEF Absent
  <2>11. CASE pc[t] = "find"
    <3>1. Absent(b, HashOf(t), cur[t], s[t]) /\ s[t] \in chain[b] \cup {0}
      BY <2>11 DEF IInv, ThreadOk, Searches
    <3>2. Absent(b, HashOf(t), link[cur[t]], s[t])
      BY <3>1, <2>9, <2>10
    <3>3. Absent(b, HashOf(t), cur[t], s[t])'
      BY <3>2, <2>3, <2>4, <2>5 DEF Absent
    <3> QED
      BY <2>1, <2>3, <2>4, <2>5, <2>7, <2>11, <3>1, <3>3 DEF ThreadOk, Searches, Holds, Fills, Holding, InFlight
  <2>12. CASE pc[t] = "find_locked"
    <3>1. Absent(b, HashOf(t), cur[t], tab[b]) /\ locked[b] /\ s2[t] = tab[b]
      BY <2>12 DEF IInv, ThreadOk, Holds, Holding
    <3>2. Absent(b, HashOf(t), link[cur[t]], tab[b])
      BY <3>1, <2>9, <2>10
    <3>3. Absent(b, HashOf(t), cur[t], tab[b])'
      BY <3>2, <2>3, <2>4, <2>5 DEF Absent
    <3> QED
      BY <2>1, <2>3, <2>4, <2>5, <2>7, <2>12, <3>1, <3>3 DEF ThreadOk, Searches, Holds, Fills, Holding, InFlight
  <2> QED
    BY <2>11, <2>12 DEF FindNext
<1>6. \A u \in Threads \ {t} : ThreadsApart(t, u)' /\ ThreadsApart(u, t)'
  <2>1. pc'[t] = pc[t] /\ arg'[t] = arg[t] /\ s'[t] = s[t]
    BY DEF FindNext
  <2>2. \A u \in Threads \ {t} : ThreadsApart(t, u) /\ ThreadsApart(u, t)
    BY DEF IInv
  <2> QED
    BY <1>3, <2>1, <2>2 DEF ThreadsApart, SameThread, BucketOf, HashOf
<1> QED
  BY <1>1, <1>2, <1>3, <1>4, <1>5, <1>6, ThreadsStay, SharedStays, QuietGrows DEF IInv

\* The end of the lock-free search keeps the invariant.
LEMMA NotFoundKeeps ==
  ASSUME IInv, NEW t \in Threads, NotFound(t)
  PROVE  IInv'
<1>1. TypeOK'
  BY DepotAssumption DEF IInv, TypeOK, NotFound, Goto, nodevars, ghosts, locals
<1>2. Quiet
  BY DEF IInv, NotFound, Quiet, TypeOK, ghosts, nodevars, Links
<1>3. \A u \in Threads \ {t} : SameThread(u)
  BY DEF IInv, TypeOK, NotFound, SameThread, Goto, locals
<1>4. \A u \in Threads \ {t} : Respected(u)
  BY LocalRespects DEF NotFound, ghosts
<1>5. ThreadOk(t)'
  <2> DEFINE b == BucketOf(t)
  <2>1. arg' = arg /\ s' = s /\ s2' = s2 /\ cur' = cur /\ tab' = tab /\ chain' = chain /\ stack_hash' = stack_hash /\ locked' = locked
    BY DEF NotFound, locals, ghosts, nodevars
  <2>2. BucketOf(t)' = b /\ HashOf(t)' = HashOf(t)
    BY <2>1 DEF BucketOf, HashOf
  <2>3. \A low, high : Absent(b, HashOf(t), low, high) => Absent(b, HashOf(t), low, high)'
    BY <2>1, <2>2 DEF Absent
  <2>4. arg[t] \in Traces /\ cur[t] = 0
    BY DEF IInv, ThreadOk, NotFound, Putting, Holding
  <2>5. CASE pc[t] = "find"
    <3>1. pc'[t] = "lock"
      BY <2>5 DEF IInv, TypeOK, NotFound, Goto
    <3>2. Absent(b, HashOf(t), cur[t], s[t]) /\ s[t] \in chain[b] \cup {0}
      BY <2>5 DEF IInv, ThreadOk, Searches
    <3>3. Absent(b, HashOf(t), cur[t], s[t])'
      BY <3>2, <2>1, <2>2 DEF Absent
    <3> QED
      BY <2>1, <2>2, <2>4, <3>1, <3>2, <3>3 DEF ThreadOk, Searches, Holds, Fills, Holding, InFlight
  <2>6. CASE pc[t] = "find_locked"
    <3>1. pc'[t] = "alloc"
      BY <2>6 DEF IInv, TypeOK, NotFound, Goto
    <3>2. Absent(b, HashOf(t), cur[t], tab[b]) /\ locked[b] /\ s2[t] = tab[b]
      BY <2>6 DEF IInv, ThreadOk, Holds, Holding
    <3>3. Absent(b, HashOf(t), cur[t], tab[b])'
      BY <3>2, <2>1, <2>2 DEF Absent
    <3> QED
      BY <2>1, <2>2, <2>4, <3>1, <3>2, <3>3 DEF ThreadOk, Searches, Holds, Fills, Holding, InFlight
  <2> QED
    BY <2>5, <2>6 DEF NotFound
<1>6. \A u \in Threads \ {t} : ThreadsApart(t, u)' /\ ThreadsApart(u, t)'
  <2>1. (pc'[t] \in Holding => pc[t] \in Holding) /\ (pc'[t] \in InFlight => pc[t] \in InFlight)
    BY DEF IInv, TypeOK, NotFound, Goto, Holding, InFlight
  <2>2. \A u \in Threads \ {t} : ThreadsApart(t, u) /\ ThreadsApart(u, t)
    BY DEF IInv
  <2>3. arg' = arg /\ s' = s
    BY DEF NotFound, locals
  <2> QED
    BY <1>3, <2>1, <2>2, <2>3 DEF ThreadsApart, SameThread, BucketOf, HashOf
<1> QED
  BY <1>1, <1>2, <1>3, <1>4, <1>5, <1>6, ThreadsStay, SharedStays, QuietGrows DEF IInv

\* Locking the bucket keeps the invariant.
LEMMA LockKeeps ==
  ASSUME IInv, NEW t \in Threads, Lock(t)
  PROVE  IInv'
<1>1. TypeOK'
  <2>1. BucketOf(t) \in Buckets
    BY HashFacts DEF IInv, ThreadOk, Lock, Putting
  <2>2. tab[BucketOf(t)] \in Links /\ 0 \in Links
    BY <2>1, DepotAssumption DEF IInv, TypeOK, Links
  <2> QED
    BY <2>1, <2>2 DEF IInv, TypeOK, Lock, Goto, nodevars, ghosts
<1>2. Quiet
  BY DEF IInv, Lock, Quiet, TypeOK, ghosts, nodevars, Links
<1>3. \A u \in Threads \ {t} : SameThread(u)
  BY DEF IInv, TypeOK, Lock, SameThread, Goto, locals
<1>4. \A u \in Threads \ {t} : Respected(u)
  <2> TAKE u \in Threads \ {t}
  <2>1. ThreadOk(u) /\ (pc[u] \in Putting => arg[u] \in Traces)
    BY DEF IInv, ThreadOk
  <2>2. pc[u] \in Holding => locked'[BucketOf(u)]
    <3> HAVE pc[u] \in Holding
    <3>1. BucketOf(u) \in Buckets /\ locked[BucketOf(u)]
      BY <2>1, HashFacts DEF ThreadOk, Holds, Putting
    <3> QED
      BY <3>1 DEF IInv, TypeOK, Lock
  <2>3. tab' = tab /\ chain' = chain /\ nodevars' = nodevars
    BY DEF Lock, ghosts
  <2> QED
    BY <2>1, <2>2, <2>3 DEF Respected, ThreadOk, Fills, nodevars
<1>5. ThreadOk(t)'
  <2> DEFINE b == BucketOf(t)
  <2>1. arg[t] \in Traces
    BY DEF IInv, ThreadOk, Lock, Putting, Holding, InFlight
  <2>2. b \in Buckets
    BY <2>1, HashFacts
  <2>3. /\ arg' = arg /\ tab' = tab /\ chain' = chain /\ stack_hash' = stack_hash
        /\ locked'[b] /\ s2'[t] = tab[b]
    BY <2>2 DEF IInv, TypeOK, Lock, ghosts, nodevars
  <2>4. BucketOf(t)' = b /\ HashOf(t)' = HashOf(t)
    BY <2>3 DEF BucketOf, HashOf
  <2>5. tab[b] \in chain[b] \cup {0}
    BY <2>2 DEF IInv, Shared, ChainsAreWhole
  <2>6. CASE tab[b] # s[t]
    <3>1. pc'[t] = "find_locked" /\ cur'[t] = tab[b]
      BY <2>6 DEF IInv, TypeOK, Lock, Goto
    <3>2. Absent(b, HashOf(t), cur[t], tab[b])'
      BY <2>2, <2>3, <2>4, <3>1 DEF Absent, IInv, TypeOK, Ids, Links
    <3> QED
      BY <2>1, <2>3, <2>4, <2>5, <3>1, <3>2 DEF ThreadOk, Searches, Holds, Fills, Holding, InFlight
  <2>7. CASE tab[b] = s[t]
    <3>1. pc'[t] = "alloc" /\ cur'[t] = 0
      BY <2>7 DEF IInv, TypeOK, Lock, Goto
    <3>2. Absent(b, HashOf(t), 0, tab[b])
      BY <2>7 DEF IInv, ThreadOk, Searches, Lock
    <3>3. Absent(b, HashOf(t), cur[t], tab[b])'
      BY <2>3, <2>4, <3>1, <3>2 DEF Absent
    <3> QED
      BY <2>1, <2>3, <2>4, <3>1, <3>3 DEF ThreadOk, Searches, Holds, Fills, Holding, InFlight
  <2> QED
    BY <2>6, <2>7
<1>6. \A u \in Threads \ {t} : ThreadsApart(t, u)' /\ ThreadsApart(u, t)'
  <2> TAKE u \in Threads \ {t}
  <2>1. pc'[t] \notin InFlight /\ arg' = arg /\ pc'[u] = pc[u]
    BY <1>3 DEF IInv, TypeOK, Lock, Goto, InFlight, SameThread
  <2>2. pc[u] \in Holding => locked[BucketOf(u)]
    BY DEF IInv, ThreadOk, Holds
  <2>3. ~locked[BucketOf(t)]
    BY DEF Lock
  <2> QED
    BY <2>1, <2>2, <2>3 DEF ThreadsApart, BucketOf, HashOf
<1> QED
  BY <1>1, <1>2, <1>3, <1>4, <1>5, <1>6, ThreadsStay, SharedStays, QuietGrows DEF IInv

-----------------------------------------------------------------------------
(* The steps that fill a node under the lock of the bucket, and those that *)
(* answer with a node which is there.                                      *)


\* Taking the next id from n_uniq_ids keeps the invariant.
LEMMA AllocIdKeeps ==
  ASSUME IInv, NEW t \in Threads, AllocId(t)
  PROVE  IInv'
<1>1. TypeOK'
  <2>1. n_uniq_ids + 1 \in Links
    BY DepotAssumption DEF IInv, TypeOK, AllocId, Links
  <2> QED
    BY <2>1 DEF IInv, TypeOK, AllocId, Goto, nodevars, ghosts
<1>2. Quiet
  BY DEF IInv, AllocId, Quiet, TypeOK, ghosts, nodevars, Links
<1>3. \A u \in Threads \ {t} : SameThread(u)
  BY DEF IInv, TypeOK, AllocId, SameThread, Goto, locals
<1>4. \A u \in Threads \ {t} : Respected(u)
  BY LocalRespects DEF AllocId, ghosts
<1>5. ThreadOk(t)'
  <2> DEFINE b == BucketOf(t)
  <2>1. arg[t] \in Traces
    BY DEF IInv, ThreadOk, AllocId, Putting, Holding, InFlight
  <2>2. b \in Buckets
    BY <2>1, HashFacts
  <2>3. /\ arg' = arg /\ tab' = tab /\ chain' = chain /\ locked' = locked
        /\ s2' = s2 /\ cur' = cur
    BY DEF AllocId, ghosts, locals
  <2>4. BucketOf(t)' = b /\ HashOf(t)' = HashOf(t)
    BY <2>3 DEF BucketOf, HashOf
  <2>5. /\ locked[b] /\ s2[t] = tab[b] /\ cur[t] = 0
        /\ Absent(b, HashOf(t), 0, tab[b])
    BY DEF IInv, ThreadOk, Holds, AllocId, Holding, InFlight
  <2>6. Absent(b, HashOf(t), cur[t], tab[b])'
    BY <1>2, <2>2, <2>3, <2>4, <2>5 DEF Absent, Quiet
  <2>7. pc'[t] = "node" /\ s'[t] = n_uniq_ids + 1 /\ n_uniq_ids' = n_uniq_ids + 1
    BY DEF IInv, TypeOK, AllocId, Goto
  <2>8. n_uniq_ids \in Nat /\ n_uniq_ids + 1 \in Ids
    BY DepotAssumption DEF IInv, TypeOK, AllocId, Ids, Links
  <2>9. \A c \in Buckets : \A i \in chain[c] : i <= n_uniq_ids
    BY DEF IInv, Shared, Nodes, NodeOk
  <2>10. \A c \in Buckets : n_uniq_ids + 1 \notin chain[c]
    BY <2>8, <2>9
  <2>11. tab[b] < n_uniq_ids + 1
    BY <2>2, <2>8, <2>9 DEF IInv, Shared, ChainsAreWhole, TypeOK, Links
  <2>12. Fills(t)'
    <3>1. /\ s'[t] \in Ids
          /\ s'[t] <= n_uniq_ids'
          /\ tab'[BucketOf(t)'] < s'[t]
          /\ \A c \in Buckets : s'[t] \notin chain'[c]
      BY <2>3, <2>4, <2>7, <2>8, <2>10, <2>11
    <3> QED
      BY <2>7, <3>1 DEF Fills
  <2>13. Holds(t)'
    BY <2>3, <2>4, <2>5, <2>6, <2>7 DEF Holds
  <2>14. Searches(t)'
    BY <2>7 DEF Searches
  <2> QED
    BY <2>1, <2>3, <2>12, <2>13, <2>14 DEF ThreadOk
<1>6. \A u \in Threads \ {t} : ThreadsApart(t, u)' /\ ThreadsApart(u, t)'
  <2> TAKE u \in Threads \ {t}
  <2>1. /\ arg' = arg /\ pc'[u] = pc[u] /\ s'[u] = s[u]
        /\ s'[t] = n_uniq_ids + 1 /\ pc[t] \in Holding
    BY <1>3 DEF IInv, TypeOK, AllocId, Holding, SameThread
  <2>2. pc[u] \in InFlight => s[u] <= n_uniq_ids /\ s[u] \in Ids
    BY DEF IInv, ThreadOk, Fills
  <2>3. ThreadsApart(t, u) /\ ThreadsApart(u, t)
    BY DEF IInv
  <2>4. pc[u] \in InFlight => s[u] # n_uniq_ids + 1
    BY <2>2 DEF IInv, TypeOK, Ids, Links
  <2> QED
    BY <2>1, <2>3, <2>4 DEF ThreadsApart, BucketOf, HashOf, InFlight, Holding
<1> QED
  BY <1>1, <1>2, <1>3, <1>4, <1>5, <1>6, ThreadsStay, SharedStays, QuietGrows DEF IInv

\* Looking up the node's second-level array keeps the invariant.
LEMMA GetNodeKeeps ==
  ASSUME IInv, NEW t \in Threads, GetNode(t)
  PROVE  IInv'
<1>1. TypeOK'
  BY DepotAssumption DEF IInv, TypeOK, GetNode, Goto, nodevars, ghosts, locals
<1>2. Quiet
  BY DEF IInv, GetNode, Quiet, TypeOK, ghosts, nodevars, Links
<1>3. \A u \in Threads \ {t} : SameThread(u)
  BY DEF IInv, TypeOK, GetNode, SameThread, Goto, locals
<1>4. \A u \in Threads \ {t} : Respected(u)
  BY LocalRespects DEF GetNode, ghosts
<1>5. ThreadOk(t)'
  <2> DEFINE b == BucketOf(t)
  <2>1. arg[t] \in Traces
    BY DEF IInv, ThreadOk, GetNode, Putting, Holding, InFlight
  <2>2. b \in Buckets
    BY <2>1, HashFacts
  <2>3. /\ arg' = arg /\ tab' = tab /\ chain' = chain /\ locked' = locked
        /\ s2' = s2 /\ cur' = cur
    BY DEF GetNode, ghosts, locals
  <2>4. BucketOf(t)' = b /\ HashOf(t)' = HashOf(t)
    BY <2>3 DEF BucketOf, HashOf
  <2>5. /\ locked[b] /\ s2[t] = tab[b] /\ cur[t] = 0
        /\ Absent(b, HashOf(t), 0, tab[b])
    BY DEF IInv, ThreadOk, Holds, GetNode, Holding, InFlight
  <2>6. Absent(b, HashOf(t), cur[t], tab[b])'
    BY <1>2, <2>2, <2>3, <2>4, <2>5 DEF Absent, Quiet
  <2>7. pc'[t] \in {"store", "create"} /\ (pc'[t] = "store" => Array(s[t]) \in map1)
    BY DEF IInv, TypeOK, GetNode, Goto
  <2>8. Fills(t)
    BY DEF IInv, ThreadOk
  <2>9. s' = s /\ n_uniq_ids' = n_uniq_ids /\ map1 \subseteq map1'
    BY DEF GetNode, locals
  <2>10. Fills(t)'
    BY <2>3, <2>4, <2>7, <2>8, <2>9 DEF Fills, GetNode, InFlight, Array
  <2>11. Holds(t)'
    BY <2>3, <2>4, <2>5, <2>6, <2>7 DEF Holds, Holding, InFlight
  <2>12. Searches(t)'
    BY <2>7 DEF Searches
  <2> QED
    BY <2>1, <2>3, <2>10, <2>11, <2>12 DEF ThreadOk
<1>6. \A u \in Threads \ {t} : ThreadsApart(t, u)' /\ ThreadsApart(u, t)'
  <2>1. (pc'[t] \in Holding => pc[t] \in Holding) /\ (pc'[t] \in InFlight => pc[t] \in InFlight)
    BY DEF IInv, TypeOK, GetNode, Goto, Holding, InFlight
  <2>2. \A u \in Threads \ {t} : ThreadsApart(t, u) /\ ThreadsApart(u, t)
    BY DEF IInv
  <2>3. arg' = arg /\ s' = s
    BY DEF GetNode, locals
  <2> QED
    BY <1>3, <2>1, <2>2, <2>3 DEF ThreadsApart, SameThread, BucketOf, HashOf
<1> QED
  BY <1>1, <1>2, <1>3, <1>4, <1>5, <1>6, ThreadsStay, SharedStays, QuietGrows DEF IInv

\* Mapping the node's second-level array keeps the invariant.
LEMMA CreateKeeps ==
  ASSUME IInv, NEW t \in Threads, Create(t)
  PROVE  IInv'
<1>1. TypeOK'
  <2>1. Array(s[t]) \in Nat
    BY DepotAssumption DEF IInv, TypeOK, Array, Links
  <2> QED
    BY <2>1 DEF IInv, TypeOK, Create, Goto, nodevars, ghosts, locals
<1>2. Quiet
  BY DEF IInv, Create, Quiet, TypeOK, ghosts, nodevars, Links
<1>3. \A u \in Threads \ {t} : SameThread(u)
  BY DEF IInv, TypeOK, Create, SameThread, Goto, locals
<1>4. \A u \in Threads \ {t} : Respected(u)
  BY LocalRespects DEF Create, ghosts
<1>5. ThreadOk(t)'
  <2> DEFINE b == BucketOf(t)
  <2>1. arg[t] \in Traces
    BY DEF IInv, ThreadOk, Create, Putting, Holding, InFlight
  <2>2. b \in Buckets
    BY <2>1, HashFacts
  <2>3. /\ arg' = arg /\ tab' = tab /\ chain' = chain /\ locked' = locked
        /\ s2' = s2 /\ cur' = cur
    BY DEF Create, ghosts, locals
  <2>4. BucketOf(t)' = b /\ HashOf(t)' = HashOf(t)
    BY <2>3 DEF BucketOf, HashOf
  <2>5. /\ locked[b] /\ s2[t] = tab[b] /\ cur[t] = 0
        /\ Absent(b, HashOf(t), 0, tab[b])
    BY DEF IInv, ThreadOk, Holds, Create, Holding, InFlight
  <2>6. Absent(b, HashOf(t), cur[t], tab[b])'
    BY <1>2, <2>2, <2>3, <2>4, <2>5 DEF Absent, Quiet
  <2>7. pc'[t] = "store" /\ Array(s[t]) \in map1'
    BY DEF IInv, TypeOK, Create, Goto
  <2>8. Fills(t)
    BY DEF IInv, ThreadOk
  <2>9. s' = s /\ n_uniq_ids' = n_uniq_ids /\ map1 \subseteq map1'
    BY DEF Create, locals
  <2>10. Fills(t)'
    BY <2>3, <2>4, <2>7, <2>8, <2>9 DEF Fills, Create, InFlight, Array
  <2>11. Holds(t)'
    BY <2>3, <2>4, <2>5, <2>6, <2>7 DEF Holds, Holding, InFlight
  <2>12. Searches(t)'
    BY <2>7 DEF Searches
  <2> QED
    BY <2>1, <2>3, <2>10, <2>11, <2>12 DEF ThreadOk
<1>6. \A u \in Threads \ {t} : ThreadsApart(t, u)' /\ ThreadsApart(u, t)'
  <2>1. (pc'[t] \in Holding => pc[t] \in Holding) /\ (pc'[t] \in InFlight => pc[t] \in InFlight)
    BY DEF IInv, TypeOK, Create, Goto, Holding, InFlight
  <2>2. \A u \in Threads \ {t} : ThreadsApart(t, u) /\ ThreadsApart(u, t)
    BY DEF IInv
  <2>3. arg' = arg /\ s' = s
    BY DEF Create, locals
  <2> QED
    BY <1>3, <2>1, <2>2, <2>3 DEF ThreadsApart, SameThread, BucketOf, HashOf
<1> QED
  BY <1>1, <1>2, <1>3, <1>4, <1>5, <1>6, ThreadsStay, SharedStays, QuietGrows DEF IInv

\* Storing hash and trace in the new node keeps the invariant.
LEMMA StoreNodeKeeps ==
  ASSUME IInv, NEW t \in Threads, StoreNode(t)
  PROVE  IInv'
<1>1. TypeOK'
  <2>1. arg[t] \in Traces /\ HashOf(t) \in Hashes
    BY HashFacts DEF IInv, ThreadOk, StoreNode, Putting, Holding, InFlight
  <2> QED
    BY <2>1 DEF IInv, TypeOK, StoreNode, Goto, ghosts, locals
<1>2. Quiet
  <2>1. \A b \in Buckets : s[t] \notin chain[b]
    BY DEF IInv, ThreadOk, Fills, StoreNode, InFlight
  <2>2. \A b \in Buckets : chain[b] \subseteq Ids
    BY DEF IInv, TypeOK
  <2> QED
    BY <2>1, <2>2 DEF IInv, TypeOK, StoreNode, Quiet, ghosts, Links
<1>3. \A u \in Threads \ {t} : SameThread(u)
  BY DEF IInv, TypeOK, StoreNode, SameThread, Goto, locals
<1>4. \A u \in Threads \ {t} : Respected(u)
  <2> TAKE u \in Threads \ {t}
  <2>1. ThreadOk(u) /\ ThreadsApart(t, u)
    BY DEF IInv
  <2>2. pc[u] \in InFlight => s[u] \in Ids /\ s[u] # s[t]
    BY <2>1 DEF ThreadOk, Fills, ThreadsApart, StoreNode, InFlight
  <2>3. tab' = tab /\ chain' = chain /\ locked' = locked
    BY DEF StoreNode, ghosts
  <2>4. pc[u] \in InFlight =>
          /\ stack_hash'[s[u]] = stack_hash[s[u]]
          /\ link'[s[u]] = link[s[u]]
          /\ stored'[s[u]] = stored[s[u]]
    BY <2>2 DEF IInv, TypeOK, StoreNode
  <2> QED
    BY <2>1, <2>3, <2>4 DEF Respected, ThreadOk, Holds, Fills
<1>5. ThreadOk(t)'
  <2> DEFINE b == BucketOf(t)
  <2>1. arg[t] \in Traces
    BY DEF IInv, ThreadOk, StoreNode, Putting, Holding, InFlight
  <2>2. b \in Buckets
    BY <2>1, HashFacts
  <2>3. /\ arg' = arg /\ tab' = tab /\ chain' = chain /\ locked' = locked
        /\ s2' = s2 /\ cur' = cur
    BY DEF StoreNode, ghosts, locals
  <2>4. BucketOf(t)' = b /\ HashOf(t)' = HashOf(t)
    BY <2>3 DEF BucketOf, HashOf
  <2>5. /\ locked[b] /\ s2[t] = tab[b] /\ cur[t] = 0
        /\ Absent(b, HashOf(t), 0, tab[b])
    BY DEF IInv, ThreadOk, Holds, StoreNode, Holding, InFlight
  <2>6. Absent(b, HashOf(t), cur[t], tab[b])'
    BY <1>2, <2>2, <2>3, <2>4, <2>5 DEF Absent, Quiet
  <2>7. pc'[t] = "link"
    BY DEF IInv, TypeOK, StoreNode, Goto
  <2>8. Fills(t)
    BY DEF IInv, ThreadOk
  <2>9. s' = s /\ n_uniq_ids' = n_uniq_ids /\ map1 \subseteq map1'
    BY DEF StoreNode, locals
  <2>13. s[t] \in Ids
    BY <2>8 DEF Fills, StoreNode, InFlight
  <2>14. stack_hash'[s[t]] = HashOf(t) /\ stored'[s[t]] \in {arg[t], None}
    BY <2>13 DEF IInv, TypeOK, StoreNode
  <2>15. map1' = map1
    BY DEF StoreNode
  <2>10. Fills(t)'
    BY <2>3, <2>4, <2>7, <2>8, <2>9, <2>14, <2>15 DEF Fills, StoreNode, InFlight, Array
  <2>11. Holds(t)'
    BY <2>3, <2>4, <2>5, <2>6, <2>7 DEF Holds, Holding, InFlight
  <2>12. Searches(t)'
    BY <2>7 DEF Searches
  <2> QED
    BY <2>1, <2>3, <2>10, <2>11, <2>12 DEF ThreadOk
<1>6. \A u \in Threads \ {t} : ThreadsApart(t, u)' /\ ThreadsApart(u, t)'
  <2>1. (pc'[t] \in Holding => pc[t] \in Holding) /\ (pc'[t] \in InFlight => pc[t] \in InFlight)
    BY DEF IInv, TypeOK, StoreNode, Goto, Holding, InFlight
  <2>2. \A u \in Threads \ {t} : ThreadsApart(t, u) /\ ThreadsApart(u, t)
    BY DEF IInv
  <2>3. arg' = arg /\ s' = s
    BY DEF StoreNode, locals
  <2> QED
    BY <1>3, <2>1, <2>2, <2>3 DEF ThreadsApart, SameThread, BucketOf, HashOf
<1> QED
  BY <1>1, <1>2, <1>3, <1>4, <1>5, <1>6, ThreadsStay, SharedStays, QuietGrows DEF IInv

\* Linking the new node to the head it was locked with keeps the invariant.
LEMMA LinkNodeKeeps ==
  ASSUME IInv, NEW t \in Threads, LinkNode(t)
  PROVE  IInv'
<1>1. TypeOK'
  BY DEF IInv, TypeOK, LinkNode, Goto, ghosts, locals
<1>2. Quiet
  <2>1. \A b \in Buckets : s[t] \notin chain[b]
    BY DEF IInv, ThreadOk, Fills, LinkNode, InFlight
  <2>2. \A b \in Buckets : chain[b] \subseteq Ids
    BY DEF IInv, TypeOK
  <2> QED
    BY <2>1, <2>2 DEF IInv, TypeOK, LinkNode, Quiet, ghosts, Links
<1>3. \A u \in Threads \ {t} : SameThread(u)
  BY DEF IInv, TypeOK, LinkNode, SameThread, Goto, locals
<1>4. \A u \in Threads \ {t} : Respected(u)
  <2> TAKE u \in Threads \ {t}
  <2>1. ThreadOk(u) /\ ThreadsApart(t, u)
    BY DEF IInv
  <2>2. pc[u] \in InFlight => s[u] \in Ids /\ s[u] # s[t]
    BY <2>1 DEF ThreadOk, Fills, ThreadsApart, LinkNode, InFlight
  <2>3. tab' = tab /\ chain' = chain /\ locked' = locked
    BY DEF LinkNode, ghosts
  <2>4. pc[u] \in InFlight =>
          /\ stack_hash'[s[u]] = stack_hash[s[u]]
          /\ link'[s[u]] = link[s[u]]
          /\ stored'[s[u]] = stored[s[u]]
    BY <2>2 DEF IInv, TypeOK, LinkNode
  <2> QED
    BY <2>1, <2>3, <2>4 DEF Respected, ThreadOk, Holds, Fills
<1>5. ThreadOk(t)'
  <2> DEFINE b == BucketOf(t)
  <2>1. arg[t] \in Traces
    BY DEF IInv, ThreadOk, LinkNode, Putting, Holding, InFlight
  <2>2. b \in Buckets
    BY <2>1, HashFacts
  <2>3. /\ arg' = arg /\ tab' = tab /\ chain' = chain /\ locked' = locked
        /\ s2' = s2 /\ cur' = cur
    BY DEF LinkNode, ghosts, locals
  <2>4. BucketOf(t)' = b /\ HashOf(t)' = HashOf(t)
    BY <2>3 DEF BucketOf, HashOf
  <2>5. /\ locked[b] /\ s2[t] = tab[b] /\ cur[t] = 0
        /\ Absent(b, HashOf(t), 0, tab[b])
    BY DEF IInv, ThreadOk, Holds, LinkNode, Holding, InFlight
  <2>6. Absent(b, HashOf(t), cur[t], tab[b])'
    BY <1>2, <2>2, <2>3, <2>4, <2>5 DEF Absent, Quiet
  <2>7. pc'[t] = "publish"
    BY DEF IInv, TypeOK, LinkNode, Goto
  <2>8. Fills(t)
    BY DEF IInv, ThreadOk
  <2>9. s' = s /\ n_uniq_ids' = n_uniq_ids /\ map1 \subseteq map1'
    BY DEF LinkNode, locals
  <2>13. s[t] \in Ids
    BY <2>8 DEF Fills, LinkNode, InFlight
  <2>14. link'[s[t]] = s2[t] /\ stack_hash' = stack_hash /\ stored' = stored
    BY <2>13 DEF IInv, TypeOK, LinkNode
  <2>15. map1' = map1
    BY DEF LinkNode
  <2>10. Fills(t)'
    BY <2>3, <2>4, <2>7, <2>8, <2>9, <2>14, <2>15 DEF Fills, LinkNode, InFlight, Array
  <2>11. Holds(t)'
    BY <2>3, <2>4, <2>5, <2>6, <2>7 DEF Holds, Holding, InFlight
  <2>12. Searches(t)'
    BY <2>7 DEF Searches
  <2> QED
    BY <2>1, <2>3, <2>10, <2>11, <2>12 DEF ThreadOk
<1>6. \A u \in Threads \ {t} : ThreadsApart(t, u)' /\ ThreadsApart(u, t)'
  <2>1. (pc'[t] \in Holding => pc[t] \in Holding) /\ (pc'[t] \in InFlight => pc[t] \in InFlight)
    BY DEF IInv, TypeOK, LinkNode, Goto, Holding, InFlight
  <2>2. \A u \in Threads \ {t} : ThreadsApart(t, u) /\ ThreadsApart(u, t)
    BY DEF IInv
  <2>3. arg' = arg /\ s' = s
    BY DEF LinkNode, locals
  <2> QED
    BY <1>3, <2>1, <2>2, <2>3 DEF ThreadsApart, SameThread, BucketOf, HashOf
<1> QED
  BY <1>1, <1>2, <1>3, <1>4, <1>5, <1>6, ThreadsStay, SharedStays, QuietGrows DEF IInv

\* The types of what a returning Put changes.
LEMMA ReturnTypes ==
  ASSUME TypeOK, NEW t \in Threads, NEW id \in Ids, arg[t] \in Traces,
         Return(t, id)
  PROVE  /\ pc' \in [Threads -> {"idle", "load", "find", "lock", "find_locked",
                                 "alloc", "node", "create", "store", "link",
                                 "publish", "fork", "gone"}]
         /\ arg' \in [Threads -> Traces \cup {None}]
         /\ s' \in [Threads -> Links]
         /\ s2' \in [Threads -> Links]
         /\ cur' \in [Threads -> Links]
         /\ issued' \subseteq Traces \X Ids
<1>1. 0 \in Links
  BY DepotAssumption DEF Links
<1>2. /\ pc' = [pc EXCEPT ![t] = "idle"]
      /\ arg' = [arg EXCEPT ![t] = None]
      /\ s' = [s EXCEPT ![t] = 0]
      /\ s2' = [s2 EXCEPT ![t] = 0]
      /\ cur' = [cur EXCEPT ![t] = 0]
      /\ issued' = issued \cup {<<arg[t], id>>}
  BY DEF Return, Goto
<1>3. pc' \in [Threads -> {"idle", "load", "find", "lock", "find_locked",
                           "alloc", "node", "create", "store", "link",
                           "publish", "fork", "gone"}]
  BY <1>2 DEF TypeOK
<1>4. arg' \in [Threads -> Traces \cup {None}]
  BY <1>2 DEF TypeOK
<1>5. /\ s' \in [Threads -> Links]
      /\ s2' \in [Threads -> Links]
      /\ cur' \in [Threads -> Links]
  BY <1>1, <1>2 DEF TypeOK
<1>6. issued' \subseteq Traces \X Ids
  <2>1. issued \subseteq Traces \X Ids
    BY DEF TypeOK
  <2> HIDE DEF Ids
  <2> QED
    BY <1>2, <2>1
<1> QED
  BY <1>3, <1>4, <1>5, <1>6

\* A Put that returns the id of a published node with its hash.
LEMMA AnswersKeepShared ==
  ASSUME TypeOK, TypeOK', Shared,
         tab' = tab, chain' = chain, map1' = map1, n_uniq_ids' = n_uniq_ids,
         nodevars' = nodevars,
         NEW a \in Traces, NEW id \in chain[Bucket(Hash[a])],
         stack_hash[id] = Hash[a], issued' = issued \cup {<<a, id>>}
  PROVE  Shared'
<1> USE DEF Shared
<1>1. ChainsAreWhole'
  BY DEF ChainsAreWhole, nodevars
<1>2. Nodes'
  BY DEF Nodes, NodeOk, nodevars, Bucket, Array
<1>3. HashesApart'
  BY DEF HashesApart, nodevars
<1>4. IssuedOk'
  BY DEF IssuedOk, nodevars, Bucket
<1> QED
  BY <1>1, <1>2, <1>3, <1>4

\* Returning the id found by the lock-free search keeps the invariant.
LEMMA FoundKeeps ==
  ASSUME IInv, NEW t \in Threads, Found(t)
  PROVE  IInv'
<1>1. /\ arg[t] \in Traces
      /\ BucketOf(t) \in Buckets
      /\ cur[t] \in chain[BucketOf(t)]
      /\ stack_hash[cur[t]] = HashOf(t)
  BY HashFacts DEF IInv, ThreadOk, Searches, Found, Putting
<1>2. TypeOK'
  <2>1. cur[t] \in Ids
    BY <1>1 DEF IInv, TypeOK
  <2>2. TypeOK /\ Return(t, cur[t])
    BY DEF IInv, Found
  <2>3. UNCHANGED <<tab, locked, n_uniq_ids, map1, mu, stack_hash, link, stored,
                    forks, chain, lost>>
    BY DEF Found, nodevars
  <2> QED
    BY <1>1, <2>1, <2>2, <2>3, ReturnTypes DEF TypeOK
<1>3. Shared'
  BY <1>1, <1>2, AnswersKeepShared DEF IInv, Found, Return, BucketOf, HashOf
<1>4. ChainsGrow
  BY DEF IInv, TypeOK, Links, Found, ChainsGrow, nodevars
<1>5. \A u \in Threads \ {t} : SameThread(u)
  BY DEF IInv, TypeOK, Found, Return, Goto, SameThread
<1>6. \A u \in Threads \ {t} : Respected(u)
  BY LocalRespects DEF Found
<1>7. pc'[t] = "idle"
  BY DEF IInv, TypeOK, Found, Return, Goto
<1>8. ThreadOk(t)'
  BY <1>7 DEF ThreadOk, Searches, Holds, Fills, Putting, Holding, InFlight
<1>9. \A u \in Threads \ {t} : ThreadsApart(t, u)' /\ ThreadsApart(u, t)'
  BY <1>7 DEF ThreadsApart, Holding, InFlight
<1> QED
  BY <1>2, <1>3, <1>4, <1>5, <1>6, <1>8, <1>9, ThreadsStay

\* A thread that unlocks its bucket takes no lock from another.
LEMMA UnlockRespects ==
  ASSUME IInv, NEW t \in Threads, pc[t] \in Holding,
         locked' = [locked EXCEPT ![BucketOf(t)] = FALSE],
         NEW u \in Threads \ {t}, pc[u] \in Holding
  PROVE  /\ BucketOf(u) \in Buckets
         /\ BucketOf(u) # BucketOf(t)
         /\ locked'[BucketOf(u)]
<1>1. ThreadOk(u) /\ ThreadsApart(t, u)
  BY DEF IInv
<1>2. BucketOf(u) \in Buckets /\ locked[BucketOf(u)]
  BY <1>1, HashFacts DEF ThreadOk, Holds, Putting
<1>3. BucketOf(u) # BucketOf(t)
  BY <1>1 DEF ThreadsApart
<1> QED
  BY <1>2, <1>3 DEF IInv, TypeOK

\* Returning the id found under the lock keeps the invariant.
LEMMA FoundLockedKeeps ==
  ASSUME IInv, NEW t \in Threads, FoundLocked(t)
  PROVE  IInv'
<1>1. /\ arg[t] \in Traces
      /\ BucketOf(t) \in Buckets
      /\ pc[t] \in Holding
      /\ cur[t] \in chain[BucketOf(t)]
      /\ stack_hash[cur[t]] = HashOf(t)
      /\ s2[t] = tab[BucketOf(t)]
  BY HashFacts DEF IInv, ThreadOk, Holds, FoundLocked, Putting, Holding
<1>2. tab' = tab
  BY <1>1 DEF IInv, TypeOK, FoundLocked
<1>3. TypeOK'
  <2>1. cur[t] \in Ids
    BY <1>1 DEF IInv, TypeOK
  <2>2. TypeOK /\ Return(t, cur[t])
    BY DEF IInv, FoundLocked
  <2>3. locked' \in [Buckets -> BOOLEAN]
    BY <2>2 DEF TypeOK, FoundLocked
  <2>4. UNCHANGED <<n_uniq_ids, map1, mu, stack_hash, link, stored, forks, chain,
                    lost>>
    BY DEF FoundLocked, nodevars
  <2> QED
    BY <1>1, <1>2, <2>1, <2>2, <2>3, <2>4, ReturnTypes DEF TypeOK
<1>4. Shared'
  <2>1. TypeOK /\ Shared
    BY DEF IInv
  <2>2. /\ issued' = issued \cup {<<arg[t], cur[t]>>}
        /\ UNCHANGED <<chain, map1, n_uniq_ids, nodevars>>
    BY DEF FoundLocked, Return
  <2>3. cur[t] \in chain[Bucket(Hash[arg[t]])] /\ stack_hash[cur[t]] = Hash[arg[t]]
    BY <1>1 DEF BucketOf, HashOf
  <2> QED
    BY <1>1, <1>2, <1>3, <2>1, <2>2, <2>3, AnswersKeepShared
<1>5. ChainsGrow
  <2>1. TypeOK
    BY DEF IInv
  <2> QED
    BY <2>1 DEF TypeOK, Links, FoundLocked, ChainsGrow, nodevars
<1>6. \A u \in Threads \ {t} : SameThread(u)
  BY DEF IInv, TypeOK, FoundLocked, Return, Goto, SameThread
<1>7. \A u \in Threads \ {t} : Respected(u)
  <2> TAKE u \in Threads \ {t}
  <2>1. pc[u] \in Holding => locked'[BucketOf(u)]
    BY <1>1, UnlockRespects DEF FoundLocked
  <2>2. ThreadOk(u)
    BY DEF IInv
  <2> QED
    BY <1>2, <2>1, <2>2 DEF Respected, ThreadOk, Fills, FoundLocked, nodevars
<1>8. pc'[t] = "idle"
  BY DEF IInv, TypeOK, FoundLocked, Return, Goto
<1>9. ThreadOk(t)'
  BY <1>8 DEF ThreadOk, Searches, Holds, Fills, Putting, Holding, InFlight
<1>10. \A u \in Threads \ {t} : ThreadsApart(t, u)' /\ ThreadsApart(u, t)'
  BY <1>8 DEF ThreadsApart, Holding, InFlight
<1> QED
  BY <1>3, <1>4, <1>5, <1>6, <1>7, <1>9, <1>10, ThreadsStay

-----------------------------------------------------------------------------
(* Publishing a node, and a fork *)

\* What Publish finds, with names for the bucket, the id and the hash.
LEMMA PublishFacts ==
  ASSUME IInv, NEW t \in Threads, Publish(t)
  PROVE  /\ pc[t] \in InFlight /\ pc[t] \in Holding
         /\ arg[t] \in Traces
         /\ HashOf(t) \in Hashes
         /\ BucketOf(t) \in Buckets
         /\ s[t] \in Ids
         /\ s[t] <= n_uniq_ids
         /\ tab[BucketOf(t)] < s[t]
         /\ \A c \in Buckets : s[t] \notin chain[c]
         /\ Array(s[t]) \in map1
         /\ stack_hash[s[t]] = HashOf(t)
         /\ stored[s[t]] \in {arg[t], None}
         /\ link[s[t]] = tab[BucketOf(t)]
         /\ Absent(BucketOf(t), HashOf(t), 0, tab[BucketOf(t)])
<1>1. ThreadOk(t) /\ pc[t] = "publish"
  BY DEF IInv, Publish
<1>2. pc[t] \in InFlight /\ pc[t] \in Holding /\ pc[t] \in Putting
  BY <1>1 DEF InFlight, Holding, Putting
<1>3. arg[t] \in Traces /\ HashOf(t) \in Hashes /\ BucketOf(t) \in Buckets
  BY <1>1, <1>2, HashFacts DEF ThreadOk
<1> QED
  BY <1>1, <1>2, <1>3 DEF ThreadOk, Holds, Fills

\* A chain S with the links L stays whole when a larger id goes to its front.
LEMMA ChainGrows ==
  ASSUME NEW S \in SUBSET Nat, NEW top \in Nat, NEW i \in Nat, NEW L,
         top < i, L[i] = top, top \in S \cup {0},
         \A j \in S : /\ j <= top
                     /\ L[j] \in S \cup {0}
                     /\ L[j] < j
                     /\ \A k \in S : k < j => k <= L[j]
  PROVE  \A j \in S \cup {i} : /\ j <= i
                              /\ L[j] \in S \cup {i, 0}
                              /\ L[j] < j
                              /\ \A k \in S \cup {i} : k < j => k <= L[j]
<1>1. ASSUME NEW j \in S
      PROVE  /\ j <= i
             /\ L[j] \in S \cup {i, 0}
             /\ L[j] < j
             /\ \A k \in S \cup {i} : k < j => k <= L[j]
  OBVIOUS
<1>2. /\ L[i] \in S \cup {i, 0}
      /\ L[i] < i
      /\ \A k \in S \cup {i} : k < i => k <= L[i]
  OBVIOUS
<1> QED
  BY <1>1, <1>2

\* Publishing a node of a new hash, larger than all the others of its bucket.
LEMMA PublishKeepsShared ==
  ASSUME TypeOK, TypeOK', Shared,
         NEW b \in Buckets, NEW i \in Ids, NEW a \in Traces,
         b = Bucket(Hash[a]), tab[b] < i, i <= n_uniq_ids,
         \A c \in Buckets : i \notin chain[c],
         Array(i) \in map1, stack_hash[i] = Hash[a], stored[i] \in {a, None},
         link[i] = tab[b], Absent(b, Hash[a], 0, tab[b]),
         tab' = [tab EXCEPT ![b] = i],
         chain' = [chain EXCEPT ![b] = @ \cup {i}],
         issued' = issued \cup {<<a, i>>},
         map1' = map1, n_uniq_ids' = n_uniq_ids, nodevars' = nodevars
  PROVE  Shared'
<1>0. ChainsAreWhole /\ Nodes /\ HashesApart /\ IssuedOk
  BY DEF Shared
<1>1. /\ stack_hash' = stack_hash /\ link' = link /\ stored' = stored
      /\ \A c \in Buckets \ {b} : tab'[c] = tab[c] /\ chain'[c] = chain[c]
      /\ tab'[b] = i
      /\ chain'[b] = chain[b] \cup {i}
  BY DEF TypeOK, nodevars
<1>2. chain[b] \subseteq Ids /\ tab[b] \in Links /\ i \in Nat
  <2>1. chain \in [Buckets -> SUBSET Ids] /\ tab \in [Buckets -> Links]
    BY DEF TypeOK
  <2>2. i \in Nat
    BY IdsArePositive
  <2> QED
    BY <2>1, <2>2
<1>3. \A j \in chain[b] : j <= tab[b] /\ j \in Nat /\ 0 < j
  <2>1. \A j \in chain[b] : j <= tab[b]
    BY <1>0 DEF ChainsAreWhole
  <2>2. \A j \in Ids : j \in Nat /\ 0 < j
    BY DEF Ids
  <2> QED
    BY <1>2, <2>1, <2>2
<1>4. ChainsAreWhole'
  <2> SUFFICES ASSUME NEW c \in Buckets
               PROVE  /\ tab'[c] \in chain'[c] \cup {0}
                      /\ \A j \in chain'[c] :
                           /\ j <= tab'[c]
                           /\ link[j] \in chain'[c] \cup {0}
                           /\ link[j] < j
                           /\ \A k \in chain'[c] : k < j => k <= link[j]
    BY <1>1 DEF ChainsAreWhole
  <2>1. CASE c # b
    BY <2>1, <1>0, <1>1 DEF ChainsAreWhole
  <2>2. CASE c = b
    <3>1. PICK S, top, L : S = chain[b] /\ top = tab[b] /\ L = link
      OBVIOUS
    <3>2. S \subseteq Nat /\ top \in Nat /\ top < i /\ L[i] = top
      BY <1>2, <3>1 DEF Ids, Links
    <3>3. /\ top \in S \cup {0}
          /\ \A j \in S : /\ j <= top
                         /\ L[j] \in S \cup {0}
                         /\ L[j] < j
                         /\ \A k \in S : k < j => k <= L[j]
      BY <1>0, <3>1 DEF ChainsAreWhole
    <3>4. \A j \in S \cup {i} : /\ j <= i
                               /\ L[j] \in S \cup {i, 0}
                               /\ L[j] < j
                               /\ \A k \in S \cup {i} : k < j => k <= L[j]
      <4> HIDE <3>2, <3>3
      <4>1. S \in SUBSET Nat /\ top \in Nat /\ i \in Nat
        BY <1>2, <3>2
      <4>2. top < i /\ L[i] = top
        BY <3>2
      <4> QED
        BY <3>3, <4>1, <4>2, ChainGrows
    <3>5. chain'[c] = S \cup {i} /\ tab'[c] = i /\ L = link
      BY <1>1, <2>2, <3>1
    <3> QED
      BY <3>4, <3>5
  <2> QED
    BY <2>1, <2>2
<1>5. Nodes'
  <2>1. ASSUME NEW c \in Buckets, NEW j \in chain[c]
        PROVE  NodeOk(c, j)'
    BY <1>0, <1>1 DEF Nodes, NodeOk, Bucket, Array
  <2>2. NodeOk(b, i)'
    BY <1>1, DepotAssumption DEF NodeOk, Bucket, Array
  <2> QED
    BY <1>1, <2>1, <2>2 DEF Nodes
<1>6. HashesApart'
  <2>1. \A j \in chain[b] : stack_hash[j] # Hash[a]
    BY <1>3 DEF Absent
  <2> SUFFICES ASSUME NEW c \in Buckets, NEW j \in chain'[c], NEW k \in chain'[c],
                      stack_hash[j] = stack_hash[k]
               PROVE  j = k
    BY <1>1 DEF HashesApart
  <2>2. CASE c # b
    <3>1. j \in chain[c] /\ k \in chain[c]
      BY <1>1, <2>2
    <3> QED
      BY <1>0, <3>1 DEF HashesApart
  <2>3. CASE c = b
    <3>1. j \in chain[b] \cup {i} /\ k \in chain[b] \cup {i}
      BY <1>1, <2>3
    <3>2. j \in chain[b] /\ k \in chain[b] => j = k
      BY <1>0 DEF HashesApart
    <3> QED
      BY <2>1, <3>1, <3>2
  <2> QED
    BY <2>2, <2>3
<1>7. IssuedOk'
  <2> SUFFICES ASSUME NEW p \in issued \cup {<<a, i>>}
               PROVE  /\ p[2] \in chain'[Bucket(Hash[p[1]])]
                      /\ stack_hash[p[2]] = Hash[p[1]]
    BY <1>1 DEF IssuedOk, Bucket
  <2>1. CASE p \in issued
    <3>1. p[1] \in Traces
      BY <2>1 DEF TypeOK
    <3>2. Bucket(Hash[p[1]]) \in Buckets
      BY <3>1, BucketFacts, DepotAssumption
    <3> QED
      BY <2>1, <3>2, <1>0, <1>1 DEF IssuedOk
  <2>2. CASE p = <<a, i>>
    BY <2>2, <1>1
  <2> QED
    BY <2>1, <2>2
<1> QED
  BY <1>4, <1>5, <1>6, <1>7 DEF Shared

\* Unlocking the bucket with the new node as its head keeps the invariant.
LEMMA PublishKeeps ==
  ASSUME IInv, NEW t \in Threads, Publish(t)
  PROVE  IInv'
<1>1. TypeOK'
  <2>1. BucketOf(t) \in Buckets /\ s[t] \in Ids /\ arg[t] \in Traces
    BY PublishFacts
  <2>2. s[t] \in Links /\ 0 \in Links
    BY <2>1, DepotAssumption DEF Ids, Links
  <2>3. TypeOK
    BY DEF IInv
  <2>4. /\ tab' \in [Buckets -> Links]
        /\ locked' \in [Buckets -> BOOLEAN]
        /\ chain' \in [Buckets -> SUBSET Ids]
    BY <2>1, <2>2, <2>3 DEF TypeOK, Publish
  <2>5. Return(t, s[t])
    BY DEF Publish
  <2>7. UNCHANGED <<n_uniq_ids, map1, mu, stack_hash, link, stored, forks, lost>>
    BY DEF Publish, nodevars
  <2> QED
    BY <2>1, <2>3, <2>4, <2>5, <2>7, ReturnTypes DEF TypeOK
<1>2. Shared'
  <2>1. BucketOf(t) = Bucket(Hash[arg[t]]) /\ HashOf(t) = Hash[arg[t]]
    BY DEF BucketOf, HashOf
  <2>2. /\ tab' = [tab EXCEPT ![BucketOf(t)] = s[t]]
        /\ chain' = [chain EXCEPT ![BucketOf(t)] = @ \cup {s[t]}]
        /\ issued' = issued \cup {<<arg[t], s[t]>>}
        /\ map1' = map1 /\ n_uniq_ids' = n_uniq_ids /\ nodevars' = nodevars
    BY DEF Publish, Return
  <2>3. TypeOK /\ Shared
    BY DEF IInv
  <2>4. /\ Bucket(Hash[arg[t]]) \in Buckets /\ s[t] \in Ids /\ arg[t] \in Traces
        /\ tab[Bucket(Hash[arg[t]])] < s[t] /\ s[t] <= n_uniq_ids
        /\ \A c \in Buckets : s[t] \notin chain[c]
        /\ Array(s[t]) \in map1 /\ stack_hash[s[t]] = Hash[arg[t]]
        /\ stored[s[t]] \in {arg[t], None}
        /\ link[s[t]] = tab[Bucket(Hash[arg[t]])]
        /\ Absent(Bucket(Hash[arg[t]]), Hash[arg[t]], 0, tab[Bucket(Hash[arg[t]])])
    BY <2>1, PublishFacts
  <2>5. PICK b, i, a : b = Bucket(Hash[arg[t]]) /\ i = s[t] /\ a = arg[t]
    OBVIOUS
  <2>6. /\ b \in Buckets /\ i \in Ids /\ a \in Traces
        /\ b = Bucket(Hash[a]) /\ tab[b] < i /\ i <= n_uniq_ids
        /\ \A c \in Buckets : i \notin chain[c]
        /\ Array(i) \in map1 /\ stack_hash[i] = Hash[a]
        /\ stored[i] \in {a, None}
        /\ link[i] = tab[b]
        /\ Absent(b, Hash[a], 0, tab[b])
    BY <2>4, <2>5
  <2>7. /\ tab' = [tab EXCEPT ![b] = i]
        /\ chain' = [chain EXCEPT ![b] = @ \cup {i}]
        /\ issued' = issued \cup {<<a, i>>}
    BY <2>1, <2>2, <2>5
  <2> QED
    BY <1>1, <2>2, <2>3, <2>6, <2>7, PublishKeepsShared
<1>3. ChainsGrow
  <2>1. /\ chain' = [chain EXCEPT ![BucketOf(t)] = @ \cup {s[t]}]
        /\ map1' = map1 /\ n_uniq_ids' = n_uniq_ids
        /\ stack_hash' = stack_hash /\ link' = link /\ stored' = stored
    BY DEF Publish, nodevars
  <2>2. chain \in [Buckets -> SUBSET Ids] /\ n_uniq_ids \in Nat
    BY DepotAssumption DEF IInv, TypeOK, Links
  <2>3. BucketOf(t) \in Buckets /\ tab[BucketOf(t)] < s[t]
    BY PublishFacts
  <2> QED
    BY <2>1, <2>2, <2>3 DEF ChainsGrow
<1>4. \A u \in Threads \ {t} : SameThread(u)
  BY DEF IInv, TypeOK, Publish, Return, Goto, SameThread
<1>5. \A u \in Threads \ {t} : Respected(u)
  <2> TAKE u \in Threads \ {t}
  <2>1. ThreadOk(u) /\ ThreadsApart(t, u)
    BY DEF IInv
  <2>2. pc[u] \in Holding =>
          /\ BucketOf(u) \in Buckets
          /\ BucketOf(u) # BucketOf(t)
          /\ locked'[BucketOf(u)]
    BY PublishFacts, UnlockRespects DEF Publish
  <2>3. pc[u] \in Holding =>
          /\ tab'[BucketOf(u)] = tab[BucketOf(u)]
          /\ chain'[BucketOf(u)] = chain[BucketOf(u)]
    BY <2>2 DEF IInv, TypeOK, Publish
  <2>4. pc[u] \in InFlight => s[u] # s[t] /\ \A c \in Buckets : s[u] \notin chain[c]
    BY <2>1, PublishFacts DEF ThreadOk, Fills, ThreadsApart
  <2>5. pc[u] \in InFlight => \A c \in Buckets : s[u] \notin chain'[c]
    BY <2>4 DEF IInv, TypeOK, Publish
  <2>6. nodevars' = nodevars
    BY DEF Publish
  <2> QED
    BY <2>2, <2>3, <2>5, <2>6 DEF Respected, nodevars
<1>6. pc'[t] = "idle"
  BY DEF IInv, TypeOK, Publish, Return, Goto
<1>7. ThreadOk(t)'
  BY <1>6 DEF ThreadOk, Searches, Holds, Fills, Putting, Holding, InFlight
<1>8. \A u \in Threads \ {t} : ThreadsApart(t, u)' /\ ThreadsApart(u, t)'
  BY <1>6 DEF ThreadsApart, Holding, InFlight
<1> QED
  BY <1>1, <1>2, <1>3, <1>4, <1>5, <1>7, <1>8, ThreadsStay

\* LockBeforeFork and UnlockInParent leave everything but mu_ alone.
LEMMA ForkKeeps ==
  ASSUME IInv, NEW t \in Threads, LockBeforeFork(t) \/ UnlockInParent(t)
  PROVE  IInv'
<1>1. TypeOK'
  <2>1. CASE LockBeforeFork(t)
    <3>1. forks' \in 0 .. MaxForks
      BY <2>1, DepotAssumption DEF IInv, TypeOK, LockBeforeFork
    <3> QED
      BY <2>1, <3>1
         DEF IInv, TypeOK, LockBeforeFork, Goto, nodevars, ghosts, locals
  <2>2. CASE UnlockInParent(t)
    BY <2>2 DEF IInv, TypeOK, UnlockInParent, Goto, nodevars, ghosts, locals
  <2> QED
    BY <2>1, <2>2
<1>2. Quiet
  <2>1. UNCHANGED <<tab, n_uniq_ids, map1, nodevars, ghosts>>
    BY DEF LockBeforeFork, UnlockInParent
  <2>2. n_uniq_ids \in Nat
    BY DEF IInv, TypeOK, Links
  <2> QED
    BY <2>1, <2>2 DEF Quiet, ghosts, nodevars
<1>3. \A u \in Threads \ {t} : SameThread(u)
  BY DEF IInv, TypeOK, LockBeforeFork, UnlockInParent, SameThread, Goto, locals
<1>4. \A u \in Threads \ {t} : Respected(u)
  BY LocalRespects DEF LockBeforeFork, UnlockInParent, ghosts
<1>5. pc'[t] \in {"fork", "idle"}
  BY DEF IInv, TypeOK, LockBeforeFork, UnlockInParent, Goto
<1>6. ThreadOk(t)'
  BY <1>5 DEF ThreadOk, Searches, Holds, Fills, Putting, Holding, InFlight
<1>7. \A u \in Threads \ {t} : ThreadsApart(t, u)' /\ ThreadsApart(u, t)'
  BY <1>5 DEF ThreadsApart, Holding, InFlight
<1> QED
  BY <1>1, <1>2, <1>3, <1>4, <1>6, <1>7, ThreadsStay, SharedStays, QuietGrows DEF IInv

\* In the child no thread knows anything any more.
LEMMA UnlockInChildKeeps ==
  ASSUME IInv, NEW t \in Threads, UnlockInChild(t)
  PROVE  IInv'
<1>1. Taken(Threads) \subseteq Ids
  BY DEF IInv, ThreadOk, Fills, Taken
<1>2. TypeOK'
  <2>1. 0 \in Links
    BY DepotAssumption DEF Links
  <2> QED
    BY <1>1, <2>1 DEF IInv, TypeOK, UnlockInChild, nodevars
<1>3. Quiet
  BY DEF IInv, UnlockInChild, Quiet, TypeOK, nodevars, Links
<1>4. \A u \in Threads : pc'[u] \in {"idle", "gone"}
  BY DEF UnlockInChild
<1>5. \A u \in Threads : ThreadOk(u)'
  BY <1>4 DEF ThreadOk, Searches, Holds, Fills, Putting, Holding, InFlight
<1>6. \A u, v \in Threads : ThreadsApart(u, v)'
  BY <1>4 DEF ThreadsApart, Holding, InFlight
<1> QED
  BY <1>2, <1>3, <1>5, <1>6, SharedStays DEF IInv

-----------------------------------------------------------------------------
(* The invariant *)

\* The invariant holds of an empty depot.
LEMMA InitOk ==
  ASSUME Init
  PROVE  IInv
<1>1. TypeOK
  <2>1. 0 \in Links /\ 0 \in 0 .. MaxForks
    BY DepotAssumption DEF Links
  <2> QED
    BY <2>1 DEF Init, TypeOK
<1>2. Shared
  BY DEF Init, Shared, ChainsAreWhole, Nodes, HashesApart, IssuedOk
<1>3. \A t \in Threads : pc[t] = "idle"
  BY DEF Init
<1>4. \A t \in Threads : ThreadOk(t)
  BY <1>3 DEF ThreadOk, Searches, Holds, Fills, Putting, Holding, InFlight
<1>5. \A t, u \in Threads : ThreadsApart(t, u)
  BY <1>3 DEF ThreadsApart, Holding, InFlight
<1> QED
  BY <1>1, <1>2, <1>4, <1>5 DEF IInv

\* A step that changes nothing keeps the invariant.
LEMMA StutterKeeps ==
  ASSUME IInv, UNCHANGED vars
  PROVE  IInv'
<1> USE DEF vars, nodevars, locals, ghosts
<1>1. TypeOK'
  BY DEF IInv, TypeOK
<1>2. Quiet
  BY DEF IInv, Quiet, TypeOK, Links
<1>3. \A u \in Threads : SameThread(u) /\ Respected(u)
  <2>1. \A u \in Threads : SameThread(u)
    BY DEF SameThread
  <2>2. \A u \in Threads : Respected(u)
    BY DEF IInv, Respected, ThreadOk, Holds, Fills
  <2> QED
    BY <2>1, <2>2
<1>4. Shared'
  BY <1>1, <1>2, SharedStays DEF IInv
<1>5. \A u \in Threads : ThreadOk(u)'
  BY <1>1, <1>2, <1>3, QuietGrows, OtherStays DEF IInv, Shared
<1>6. \A u, v \in Threads : u # v => ThreadsApart(u, v)'
  BY DEF IInv, ThreadsApart, BucketOf, HashOf
<1> QED
  BY <1>1, <1>4, <1>5, <1>6 DEF IInv

\* Every step of Put and of fork keeps the invariant.
LEMMA NextOk ==
  ASSUME IInv, [Next]_vars
  PROVE  IInv'
<1>1. CASE UNCHANGED vars
  BY <1>1, StutterKeeps
<1>2. CASE Next
  <2>1. PICK t \in Threads :
          \/ \E a \in Traces : Put(t, a)
          \/ PutStep(t)
          \/ LockBeforeFork(t)
          \/ ForkStep(t)
    BY <1>2 DEF Next
  <2>2. CASE \E a \in Traces : Put(t, a)
    BY <2>2, PutKeeps
  <2>3. CASE PutStep(t)
    BY <2>3, LoadBucketKeeps, FindNextKeeps, FoundKeeps, NotFoundKeeps, LockKeeps,
       FoundLockedKeeps, AllocIdKeeps, GetNodeKeeps, CreateKeeps, StoreNodeKeeps,
       LinkNodeKeeps, PublishKeeps DEF PutStep
  <2>4. CASE LockBeforeFork(t) \/ ForkStep(t)
    BY <2>4, ForkKeeps, UnlockInChildKeeps DEF ForkStep
  <2> QED
    BY <2>1, <2>2, <2>3, <2>4
<1> QED
  BY <1>1, <1>2

\* The inductive invariant holds of the depot, with any number of threads,
\* traces and forks.
THEOREM DepotInvariant == Spec => []IInv
<1>1. Init => IInv
  BY InitOk
<1>2. IInv /\ [Next]_vars => IInv'
  BY NextOk
<1> QED
  BY <1>1, <1>2, PTL DEF Spec

\* Every variable of the depot keeps its type; in particular s, a new id, and
\* link never exceed the 31 bits of a bucket.
THEOREM DepotTypes == Spec => []TypeOK
<1>1. IInv => TypeOK
  BY DEF IInv
<1> QED
  BY <1>1, DepotInvariant, PTL

\* Put returns the same id for two traces exactly when their hashes are equal,
\* however the threads that put them interleave (find before the lock and
\* again after it).
THEOREM DepotOneIdPerHash == Spec => []OneIdPerHash
<1>1. IInv => OneIdPerHash
  <2> SUFFICES ASSUME IInv, NEW p \in issued, NEW q \in issued
               PROVE  (Hash[p[1]] = Hash[q[1]]) <=> (p[2] = q[2])
    BY DEF OneIdPerHash
  <2>1. p[1] \in Traces /\ q[1] \in Traces
    BY DEF IInv, TypeOK
  <2>2. Bucket(Hash[p[1]]) \in Buckets /\ Bucket(Hash[q[1]]) \in Buckets
    BY <2>1, BucketFacts, DepotAssumption
  <2>3. /\ p[2] \in chain[Bucket(Hash[p[1]])] /\ stack_hash[p[2]] = Hash[p[1]]
        /\ q[2] \in chain[Bucket(Hash[q[1]])] /\ stack_hash[q[2]] = Hash[q[1]]
    BY DEF IInv, Shared, IssuedOk
  <2> QED
    BY <2>2, <2>3 DEF IInv, Shared, HashesApart
<1> QED
  BY <1>1, DepotInvariant, PTL

\* Get with an id that Put has returned finds a node with the hash of the
\* trace, in an array that is mapped.
THEOREM DepotIssuedIsFound == Spec => []IssuedIsFound
<1>1. IInv => IssuedIsFound
  <2> SUFFICES ASSUME IInv, NEW p \in issued
               PROVE  /\ Array(p[2]) \in map1
                      /\ stack_hash[p[2]] = Hash[p[1]]
                      /\ Get(p[2]) # None => Hash[Get(p[2])] = Hash[p[1]]
    BY DEF IssuedIsFound
  <2>1. p[1] \in Traces
    BY DEF IInv, TypeOK
  <2>2. Bucket(Hash[p[1]]) \in Buckets
    BY <2>1, BucketFacts, DepotAssumption
  <2>3. p[2] \in chain[Bucket(Hash[p[1]])] /\ stack_hash[p[2]] = Hash[p[1]]
    BY DEF IInv, Shared, IssuedOk
  <2>4. NodeOk(Bucket(Hash[p[1]]), p[2])
    BY <2>2, <2>3 DEF IInv, Shared, Nodes
  <2> QED
    BY <2>3, <2>4 DEF NodeOk, Get
<1> QED
  BY <1>1, DepotInvariant, PTL

\* The list of a bucket holds exactly the nodes that were published in it, in
\* the order of their ids, and ends in 0: find terminates and misses nothing.
THEOREM DepotChainsAreWhole == Spec => []ChainsAreWhole
<1>1. IInv => ChainsAreWhole
  BY DEF IInv, Shared
<1> QED
  BY <1>1, DepotInvariant, PTL

-----------------------------------------------------------------------------
(* What a step does to the published nodes *)

\* Only a thread that has not published its node yet writes to it.
LEMMA StepFreezes ==
  ASSUME IInv, [Next]_vars, NEW b \in Buckets, NEW i \in chain[b]
  PROVE  /\ i \in chain'[b]
         /\ stack_hash'[i] = stack_hash[i]
         /\ link'[i] = link[i]
         /\ stored'[i] = stored[i]
<1> USE DEF nodevars, ghosts
<1>1. ASSUME NEW t \in Threads, StoreNode(t) \/ LinkNode(t)
      PROVE  i # s[t] /\ chain' = chain
  <2>1. pc[t] \in InFlight
    BY <1>1 DEF StoreNode, LinkNode, InFlight
  <2> QED
    BY <1>1, <2>1 DEF IInv, ThreadOk, Fills, StoreNode, LinkNode
<1>2. ASSUME NEW t \in Threads, StoreNode(t) \/ LinkNode(t)
      PROVE  /\ stack_hash'[i] = stack_hash[i]
             /\ link'[i] = link[i]
             /\ stored'[i] = stored[i]
  <2>1. i \in Ids
    BY DEF IInv, TypeOK
  <2> QED
    BY <1>1, <1>2, <2>1 DEF IInv, TypeOK, StoreNode, LinkNode
<1>3. ASSUME NEW t \in Threads, Publish(t)
      PROVE  i \in chain'[b] /\ nodevars' = nodevars
  BY <1>3 DEF IInv, TypeOK, Publish
<1>4. CASE UNCHANGED vars
  BY <1>4 DEF vars
<1>5. CASE Next
  <2>1. PICK t \in Threads :
          \/ \E a \in Traces : Put(t, a)
          \/ PutStep(t)
          \/ LockBeforeFork(t)
          \/ ForkStep(t)
    BY <1>5 DEF Next
  <2>2. CASE StoreNode(t) \/ LinkNode(t)
    BY <2>2, <1>1, <1>2
  <2>3. CASE Publish(t)
    BY <2>3, <1>3
  <2>4. CASE ~(StoreNode(t) \/ LinkNode(t) \/ Publish(t))
    <3>1. nodevars' = nodevars /\ chain' = chain
      BY <2>1, <2>4
         DEF PutStep, ForkStep, Put, LoadBucket, FindNext, Found, NotFound, Lock,
             FoundLocked, AllocId, GetNode, Create, LockBeforeFork, UnlockInParent,
             UnlockInChild
    <3> QED
      BY <3>1
  <2> QED
    BY <2>2, <2>3, <2>4
<1> QED
  BY <1>4, <1>5

\* A node that is published stays in its list and is never written again, so
\* a search without the lock may follow it at any time.
THEOREM DepotPublishedIsFrozen == Spec => PublishedIsFrozen
<1>1. IInv /\ [Next]_vars =>
        [\A b \in Buckets : \A i \in chain[b] :
           /\ i \in chain'[b]
           /\ stack_hash'[i] = stack_hash[i]
           /\ link'[i] = link[i]
           /\ stored'[i] = stored[i]]_vars
  BY StepFreezes
<1> QED
  BY <1>1, DepotInvariant, PTL DEF Spec, PublishedIsFrozen

-----------------------------------------------------------------------------
(* Refinement of DepotMap *)

\* A published node is the id of its hash.
LEMMA KnownOf ==
  ASSUME TypeOK, Nodes, HashesApart, NEW b \in Buckets, NEW i \in chain[b]
  PROVE  KnownId(stack_hash[i]) = i
<1>1. i \in KnownIn(stack_hash[i])
  BY DEF KnownIn, Published
<1>2. \A j \in KnownIn(stack_hash[i]) : j = i
  <2> TAKE j \in KnownIn(stack_hash[i])
  <2>1. PICK c \in Buckets : j \in chain[c]
    BY DEF KnownIn, Published
  <2>2. stack_hash[j] = stack_hash[i]
    BY DEF KnownIn
  <2>3. c = b
    BY <2>1, <2>2 DEF Nodes, NodeOk
  <2> QED
    BY <2>1, <2>2, <2>3 DEF HashesApart
<1> QED
  BY <1>1, <1>2 DEF KnownId

\* A hash with an id has a published node.
LEMMA KnownHas ==
  ASSUME NEW h, KnownId(h) # 0
  PROVE  \E b \in Buckets : KnownId(h) \in chain[b] /\ stack_hash[KnownId(h)] = h
<1>1. KnownId(h) \in KnownIn(h)
  BY DEF KnownId
<1> QED
  BY <1>1 DEF KnownIn, Published

\* A step that publishes nothing changes no id.
LEMMA KnownStays ==
  ASSUME IInv, [Next]_vars, chain' = chain, NEW h
  PROVE  KnownId(h)' = KnownId(h)
<1>1. Published' = Published
  BY DEF Published
<1>2. \A i \in Published : stack_hash'[i] = stack_hash[i]
  BY StepFreezes DEF Published
<1>3. KnownIn(h)' = KnownIn(h)
  BY <1>1, <1>2 DEF KnownIn
<1> QED
  BY <1>3 DEF KnownId

\* Returning the id of a trace already there is the map's lookup.
LEMMA OldRefines ==
  ASSUME IInv, IInv', [Next]_vars, NEW t \in Threads, Found(t) \/ FoundLocked(t)
  PROVE  Map!Next
<1>1. /\ arg[t] \in Traces /\ HashOf(t) \in Hashes
      /\ BucketOf(t) \in Buckets /\ cur[t] \in chain[BucketOf(t)]
      /\ stack_hash[cur[t]] = HashOf(t)
  <2>1. pc[t] \in Putting
    BY DEF Found, FoundLocked, Putting, Holding
  <2>2. arg[t] \in Traces /\ cur[t] \in chain[BucketOf(t)] \cup {0} /\ cur[t] # 0
    BY <2>1 DEF IInv, ThreadOk, Searches, Holds, Holding, Found, FoundLocked
  <2> QED
    BY <2>2, HashFacts DEF Found, FoundLocked
<1>2. KnownId(HashOf(t)) = cur[t]
  BY <1>1, KnownOf DEF IInv, Shared
<1>3. cur[t] # 0
  BY DEF Found, FoundLocked
<1>4. issued' = issued \cup {<<arg[t], cur[t]>>} /\ chain' = chain
  BY DEF Found, FoundLocked, Return
<1>5. \A h \in Hashes : KnownId(h)' = KnownId(h)
  BY <1>4, KnownStays
<1>6. Map!PutOld(arg[t])
  BY <1>1, <1>2, <1>3, <1>4, <1>5 DEF Map!PutOld, HashOf
<1> QED
  BY <1>1, <1>6 DEF Map!Next

\* Publishing a node is the map's insertion of a fresh id.
LEMMA NewRefines ==
  ASSUME IInv, IInv', [Next]_vars, NEW t \in Threads, Publish(t)
  PROVE  Map!Next
<1>1. PICK a, i, b : a = arg[t] /\ i = s[t] /\ b = BucketOf(t)
  OBVIOUS
<1>2. /\ a \in Traces /\ Hash[a] \in Hashes /\ b \in Buckets /\ i \in Ids
      /\ b = Bucket(Hash[a])
      /\ \A c \in Buckets : i \notin chain[c]
      /\ stack_hash[i] = Hash[a]
      /\ Absent(b, Hash[a], 0, tab[b])
  BY <1>1, PublishFacts DEF BucketOf, HashOf
<1>3. /\ chain' = [chain EXCEPT ![b] = @ \cup {i}]
      /\ issued' = issued \cup {<<a, i>>}
      /\ stack_hash' = stack_hash
  BY <1>1 DEF Publish, Return, nodevars
<1>4. i # 0
  BY <1>2 DEF Ids
<1>5. KnownIn(Hash[a]) = {}
  <2> SUFFICES ASSUME NEW j \in KnownIn(Hash[a])
               PROVE  FALSE
    OBVIOUS
  <2>1. PICK c \in Buckets : j \in chain[c] /\ stack_hash[j] = Hash[a]
    BY DEF KnownIn, Published
  <2>2. c = b
    <3>1. Bucket(stack_hash[j]) = c
      BY <2>1 DEF IInv, Shared, Nodes, NodeOk
    <3> QED
      BY <1>2, <2>1, <3>1
  <2>3. j \in Ids
    BY <2>1 DEF IInv, TypeOK
  <2>4. ChainsAreWhole
    BY DEF IInv, Shared
  <2>5. j <= tab[b]
    BY <1>2, <2>1, <2>2, <2>4 DEF ChainsAreWhole
  <2>6. 0 < j
    BY <2>3 DEF Ids
  <2> QED
    BY <1>2, <2>1, <2>2, <2>5, <2>6 DEF Absent
<1>6. \A h \in Hashes : KnownId(h) # i
  BY <1>2, <1>4, KnownHas
<1>7. Published' = Published \cup {i}
  <2>1. /\ chain'[b] = chain[b] \cup {i}
        /\ \A c \in Buckets \ {b} : chain'[c] = chain[c]
    BY <1>2, <1>3 DEF IInv, TypeOK
  <2>2. b \in Buckets
    BY <1>2
  <2>3. ASSUME NEW j \in Published PROVE j \in Published'
    <3>1. PICK c \in Buckets : j \in chain[c]
      BY DEF Published
    <3>2. j \in chain'[c]
      BY <2>1, <3>1
    <3> QED
      BY <3>2 DEF Published
  <2>4. i \in Published'
    <3>1. i \in chain'[b]
      BY <2>1
    <3> QED
      BY <2>2, <3>1 DEF Published
  <2>5. ASSUME NEW j \in Published' PROVE j \in Published \cup {i}
    <3>1. PICK c \in Buckets : j \in chain'[c]
      BY DEF Published
    <3>2. j \in chain[c] \cup {i}
      BY <2>1, <3>1
    <3> QED
      BY <3>2 DEF Published
  <2> QED
    BY <2>3, <2>4, <2>5
<1>8. KnownId(Hash[a]) = 0 /\ KnownId(Hash[a])' = i
  <2>1. KnownIn(Hash[a])' = {i}
    BY <1>2, <1>3, <1>5, <1>7 DEF KnownIn
  <2> QED
    BY <1>5, <2>1 DEF KnownId
<1>9. \A h \in Hashes \ {Hash[a]} : KnownId(h)' = KnownId(h)
  <2> TAKE h \in Hashes \ {Hash[a]}
  <2>1. KnownIn(h)' = KnownIn(h)
    BY <1>2, <1>3, <1>7 DEF KnownIn
  <2> QED
    BY <2>1 DEF KnownId
<1>10. Map!PutNew(a, i)
  BY <1>2, <1>3, <1>6, <1>8, <1>9 DEF Map!PutNew
<1> QED
  BY <1>2, <1>10 DEF Map!Next

\* Every step of the depot is a step of the map, or changes nothing the map sees.
LEMMA StepRefines ==
  ASSUME IInv, IInv', [Next]_vars
  PROVE  [Map!Next]_(Map!vars)
<1>1. ASSUME chain' = chain, issued' = issued
      PROVE  UNCHANGED Map!vars
  BY <1>1, KnownStays DEF Map!vars
<1>2. CASE UNCHANGED vars
  BY <1>1, <1>2 DEF vars, ghosts
<1>3. CASE Next
  <2>1. PICK t \in Threads :
          \/ \E a \in Traces : Put(t, a)
          \/ PutStep(t)
          \/ LockBeforeFork(t)
          \/ ForkStep(t)
    BY <1>3 DEF Next
  <2>2. CASE Found(t) \/ FoundLocked(t)
    BY <2>2, OldRefines
  <2>3. CASE Publish(t)
    BY <2>3, NewRefines
  <2>4. CASE ~(Found(t) \/ FoundLocked(t) \/ Publish(t))
    <3>1. chain' = chain /\ issued' = issued
      BY <2>1, <2>4
         DEF PutStep, ForkStep, Put, LoadBucket, FindNext, NotFound, Lock, AllocId,
             GetNode, Create, StoreNode, LinkNode, LockBeforeFork, UnlockInParent,
             UnlockInChild, ghosts
    <3> QED
      BY <3>1, <1>1
  <2> QED
    BY <2>2, <2>3, <2>4
<1> QED
  BY <1>2, <1>3

\* The depot implements DepotMap: publishing a node is the step that makes up
\* an id, the other steps only give out ids that exist or are not seen.
THEOREM DepotRefinesMap == Spec => DepotIsAMap
<1>1. Init => Map!Init
  BY DEF Init, Map!Init, KnownId, KnownIn, Published
<1>2. IInv /\ IInv' /\ [Next]_vars => [Map!Next]_(Map!vars)
  BY StepRefines
<1> QED
  BY <1>1, <1>2, DepotInvariant, PTL DEF Spec, DepotIsAMap, Map!Spec
=============================================================================
