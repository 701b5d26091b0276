--------------------------- MODULE LeakCheckProofs ---------------------------
(***************************************************************************)
(* WorldStands, ReportIsExact and SuppressedHoldNothing for any number of  *)
(* threads, foreign tasks and chunks, any heap to start with and any bound *)
(* on what the threads do.                                                 *)
(***************************************************************************)
EXTENDS LeakCheck, TLAPS

-----------------------------------------------------------------------------
(* The inductive invariant *)

Labels ==
  {"none", "born", "user", "create", "exit", "dead", "foreign", "refill", "dlopen",
   "fork_threads", "fork_allocator", "fork", "iterate", "lock_threads",
   "lock_allocator", "spawn", "spin", "unlock", "report"}

WType ==
  /\ pc \in [Tasks -> Labels]
  /\ tr \in [Tasks -> {"free", "attached", "signalled", "stopped"}]
  /\ making \in [Threads -> Threads \cup {None}]
  /\ tpc \in {"none", "suspend", "attach", "waitpid", "callback", "resume"}
  /\ todo \in SUBSET Tasks
  /\ suspended \in SUBSET Tasks
  /\ tries \in Nat
  /\ \A t \in Foreign : pc[t] \in {"none", "foreign", "dead"}
  /\ \A t \in Threads : pc[t] # "foreign"

\* A thread that has not started or is about to end.
Outside == {"none", "born", "exit", "dead"}

\* Where a thread has called LockThreads and not UnlockThreads.
Holders == {"fork_allocator", "fork", "lock_allocator", "spawn", "spin", "unlock"}

HoldsRegistry == \A t \in Threads : pc[t] \in Holders => registry = t

\* As long as there is a tracer, its parent spins and holds the registry.
ParentSpins ==
  tpc # "none" => registry \in Threads /\ pc[registry] = "spin" /\ done = FALSE

\* A suspended task is stopped, or dead; no task is attached to twice.
Stopped ==
  /\ tpc = "none" => suspended = {}
  /\ \A t \in suspended : pc[t] # "none" /\ (tr[t] = "stopped" \/ pc[t] = "dead")
  /\ tpc \in {"attach", "waitpid"} => \A t \in todo : t \notin suspended
  /\ tpc = "waitpid" => /\ target \in Tasks
                        /\ target \notin todo
                        /\ target \notin suspended
                        /\ pc[target] # "none"

\* After a complete listing every running thread is suspended or has its turn.
Covered ==
  ~troubled =>
    \A t \in Threads : Running(t) =>
      /\ tpc = "attach" => t \in suspended \/ t \in todo
      /\ tpc = "waitpid" => t \in suspended \/ t \in todo \/ t = target
      /\ tpc = "suspend" /\ tries # 0 => t \in suspended
      /\ tpc = "callback" => t \in suspended

\* The loop of SuspendAllThreads is entered.
Listed ==
  /\ tpc = "suspend" /\ tries = 0 => retry = TRUE
  /\ tpc \in {"attach", "waitpid"} => tries # 0

WInv == WType /\ HoldsRegistry /\ ParentSpins /\ Stopped /\ Covered /\ Listed

-----------------------------------------------------------------------------
(* Steps of the threads *)

\* None is no thread and no task.
LEMMA NoneApart == None \notin Threads /\ None \notin Foreign /\ None \notin Tasks
BY WorldAssumption DEF Tasks

\* When nobody holds the registry there is no tracer.
LEMMA FreeRegistry ==
  ASSUME WInv, registry = None
  PROVE  tpc = "none" /\ suspended = {}
BY NoneApart DEF WInv, ParentSpins, Stopped

\* A task that executes is not suspended, unless it is dead.
LEMMA SuspendedRest ==
  ASSUME WInv, NEW t \in Tasks, Executes(t)
  PROVE  t \notin suspended
BY DEF WInv, Stopped, Executes, Alive

\* A step of the application keeps the invariant when it leaves alone the
\* tracer, its parent and the suspended tasks, and starts no thread meanwhile.
LEMMA ApplicationStep ==
  ASSUME WInv, UNCHANGED <<tracer, done>>, WType', HoldsRegistry',
         tpc # "none" => registry' = registry /\ pc'[registry] = "spin",
         \A u \in suspended : pc'[u] = pc[u] /\ tr'[u] = tr[u],
         \A u \in Tasks : pc[u] # "none" => pc'[u] # "none",
         tpc # "none" => \A u \in Threads : Running(u)' => Running(u)
  PROVE  WInv'
<1>1. UNCHANGED <<tpc, todo, target, retry, tries, suspended, troubled, done>>
  BY DEF tracer
<1>2. ParentSpins'
  BY <1>1 DEF WInv, ParentSpins
<1>3. Stopped'
  <2>1. \A t \in suspended : pc'[t] # "none" /\ (tr'[t] = "stopped" \/ pc'[t] = "dead")
    BY DEF WInv, Stopped
  <2> QED
    BY <1>1, <2>1 DEF WInv, Stopped
<1>4. Covered'
  <2>1. CASE tpc = "none"
    BY <1>1, <2>1 DEF Covered
  <2>2. CASE tpc # "none"
    BY <1>1, <2>2 DEF WInv, Covered
  <2> QED
    BY <2>1, <2>2
<1>5. Listed'
  BY <1>1 DEF WInv, Listed
<1> QED
  BY <1>2, <1>3, <1>4, <1>5 DEF WInv

\* A thread goes from one label to another.
LEMMA ThreadMoves ==
  ASSUME WInv, UNCHANGED <<tracer, done, tr>>,
         NEW t \in Threads, Executes(t),
         NEW b \in Labels, b # "none", b # "foreign",
         pc' = [pc EXCEPT ![t] = b],
         making' \in [Threads -> Threads \cup {None}],
         HoldsRegistry',
         tpc # "none" => /\ registry' = registry
                         /\ pc[t] # "spin"
                         /\ b \in Outside \/ pc[t] \notin Outside
  PROVE  WInv'
<1>1. t \in Tasks /\ t \notin Foreign
  BY WorldAssumption DEF Tasks
<1>2. WType
  BY DEF WInv
<1>3. pc'[t] = b /\ \A u \in Tasks : u # t => pc'[u] = pc[u]
  BY <1>1, <1>2 DEF WType
<1>4. WType'
  <2>1. pc' \in [Tasks -> Labels]
    BY <1>2, Zenon DEF WType
  <2>2. \A u \in Foreign : pc'[u] = pc[u]
    BY <1>1, <1>3 DEF Tasks
  <2>3. \A u \in Threads : pc'[u] # "foreign"
    BY <1>2, <1>3 DEF WType, Tasks
  <2> QED
    BY <1>2, <2>1, <2>2, <2>3 DEF WType, tracer
<1>5. \A u \in suspended : pc'[u] = pc[u] /\ tr'[u] = tr[u]
  BY <1>1, <1>2, <1>3, SuspendedRest DEF WType
<1>6. \A u \in Tasks : pc[u] # "none" => pc'[u] # "none"
  BY <1>3
<1>7. tpc # "none" => registry' = registry /\ pc'[registry] = "spin"
  BY <1>3 DEF WInv, ParentSpins, Tasks
<1>8. tpc # "none" => \A u \in Threads : Running(u)' => Running(u)
  BY <1>3 DEF Running, Outside, Tasks
<1> QED
  BY <1>4, <1>5, <1>6, <1>7, <1>8, ApplicationStep

\* A thread that is running goes on without touching the registry.
LEMMA WalkStep ==
  ASSUME WInv, UNCHANGED <<tracer, done, tr, registry>>,
         NEW t \in Threads, NEW a \in Labels \ Outside, NEW b \in Labels \ Outside,
         At(t, a), Goto(t, b),
         making' \in [Threads -> Threads \cup {None}],
         a # "spin", b # "foreign", b \in Holders => a \in Holders
  PROVE  WInv'
<1>1. /\ pc[t] = a /\ Executes(t)
      /\ pc' = [pc EXCEPT ![t] = b]
  BY DEF At, Goto
<1>2. b # "none"
  BY DEF Outside
<1>3. pc'[t] = b /\ \A u \in Threads : u # t => pc'[u] = pc[u]
  BY <1>1 DEF WInv, WType, Tasks
<1>4. HoldsRegistry'
  BY <1>1, <1>3 DEF WInv, HoldsRegistry, Holders
<1> QED
  BY <1>1, <1>2, <1>4, ThreadMoves, Zenon

\* A step that needs the registry to be free, and may take it.
LEMMA FreeRegistryStep ==
  ASSUME WInv, UNCHANGED <<tracer, done, tr, making>>,
         NEW t \in Threads, NEW a \in Labels, NEW b \in Labels,
         At(t, a), Goto(t, b), b # "none", b # "foreign",
         registry = None,
         registry' = t \/ (registry' = None /\ b \notin Holders)
  PROVE  WInv'
<1>1. /\ pc[t] = a /\ Executes(t)
      /\ pc' = [pc EXCEPT ![t] = b]
  BY DEF At, Goto
<1>2. pc'[t] = b /\ \A u \in Threads : u # t => pc'[u] = pc[u]
  BY <1>1 DEF WInv, WType, Tasks
<1>3. \A u \in Threads : pc[u] \notin Holders
  BY NoneApart DEF WInv, HoldsRegistry, Holders
<1>4. HoldsRegistry'
  BY <1>2, <1>3 DEF HoldsRegistry, Holders
<1>5. tpc = "none"
  BY FreeRegistry
<1>6. making' \in [Threads -> Threads \cup {None}]
  BY DEF WInv, WType
<1> QED
  BY <1>1, <1>4, <1>5, <1>6, ThreadMoves, Zenon

\* A thread that holds the registry, and is no parent of a tracer, releases it.
LEMMA ReleaseStep ==
  ASSUME WInv, UNCHANGED <<tracer, done, tr, making>>,
         NEW t \in Threads, NEW a \in Holders, NEW b \in Labels \ Outside,
         At(t, a), Goto(t, b), a # "spin", b # "foreign", b \notin Holders,
         registry' = None
  PROVE  WInv'
<1>1. /\ pc[t] = a /\ Executes(t)
      /\ pc' = [pc EXCEPT ![t] = b]
  BY DEF At, Goto
<1>2. pc'[t] = b /\ \A u \in Threads : u # t => pc'[u] = pc[u]
  BY <1>1 DEF WInv, WType, Tasks
<1>3. registry = t /\ \A u \in Threads : u # t => pc[u] \notin Holders
  BY <1>1 DEF WInv, HoldsRegistry, Holders
<1>4. HoldsRegistry'
  BY <1>2, <1>3 DEF HoldsRegistry, Holders
<1>5. tpc = "none"
  BY <1>1, <1>3 DEF WInv, ParentSpins
<1>6. making' \in [Threads -> Threads \cup {None}]
  BY DEF WInv, WType
<1>7. b # "none"
  BY DEF Outside
<1> QED
  BY <1>1, <1>4, <1>5, <1>6, <1>7, ThreadMoves, Zenon

\* The steps of a thread that leave the registry alone.
LEMMA WalkingActions ==
  ASSUME WInv, NEW t \in Threads,
         \/ \E u \in Threads : CreateThread(t, u)
         \/ Refill(t) \/ RefillDone(t) \/ DlOpen(t) \/ DlOpenDone(t)
         \/ ForkLockGlobal(t) \/ ForkLockAllocator(t)
         \/ CheckForLeaks(t) \/ DlIterate(t) \/ LockAllocator(t) \/ SpawnFails(t)
         \/ Rerun(t) \/ PrintResults(t)
  PROVE  WInv'
<1>0. making \in [Threads -> Threads \cup {None}]
  BY DEF WInv, WType
<1>1. ASSUME NEW u \in Threads, CreateThread(t, u)
      PROVE  WInv'
  <2>1. At(t, "user") /\ Goto(t, "create") /\ UNCHANGED <<tracer, done, tr, registry>>
    BY <1>1 DEF CreateThread, InUserCode, At, locks, outcome
  <2>2. making' \in [Threads -> Threads \cup {None}]
    BY <1>0, <1>1 DEF CreateThread
  <2> QED
    BY <2>1, <2>2, WalkStep DEF Labels, Outside, Holders
<1>2. ASSUME Refill(t)
      PROVE  WInv'
  <2>1. /\ At(t, "user") /\ Goto(t, "refill")
        /\ UNCHANGED <<tracer, done, tr, registry, making>>
    BY <1>2 DEF Refill, InUserCode, At, locks, outcome
  <2> QED
    BY <1>0, <2>1, WalkStep DEF Labels, Outside, Holders
<1>3. ASSUME RefillDone(t)
      PROVE  WInv'
  <2>1. /\ At(t, "refill") /\ Goto(t, "user")
        /\ UNCHANGED <<tracer, done, tr, registry, making>>
    BY <1>3 DEF RefillDone, InUserCode, At, locks, outcome
  <2> QED
    BY <1>0, <2>1, WalkStep DEF Labels, Outside, Holders
<1>4. ASSUME DlOpen(t)
      PROVE  WInv'
  <2>1. /\ At(t, "user") /\ Goto(t, "dlopen")
        /\ UNCHANGED <<tracer, done, tr, registry, making>>
    BY <1>4 DEF DlOpen, InUserCode, At, locks, outcome
  <2> QED
    BY <1>0, <2>1, WalkStep DEF Labels, Outside, Holders
<1>5. ASSUME DlOpenDone(t)
      PROVE  WInv'
  <2>1. /\ At(t, "dlopen") /\ Goto(t, "user")
        /\ UNCHANGED <<tracer, done, tr, registry, making>>
    BY <1>5 DEF DlOpenDone, InUserCode, At, locks, outcome
  <2> QED
    BY <1>0, <2>1, WalkStep DEF Labels, Outside, Holders
<1>6. ASSUME ForkLockGlobal(t)
      PROVE  WInv'
  <2>1. /\ At(t, "user") /\ Goto(t, "fork_threads")
        /\ UNCHANGED <<tracer, done, tr, registry, making>>
    BY <1>6 DEF ForkLockGlobal, InUserCode, At, locks, outcome
  <2> QED
    BY <1>0, <2>1, WalkStep DEF Labels, Outside, Holders
<1>7. ASSUME ForkLockAllocator(t)
      PROVE  WInv'
  <2>1. /\ At(t, "fork_allocator") /\ Goto(t, "fork")
        /\ UNCHANGED <<tracer, done, tr, registry, making>>
    BY <1>7 DEF ForkLockAllocator, InUserCode, At, locks, outcome
  <2> QED
    BY <1>0, <2>1, WalkStep DEF Labels, Outside, Holders
<1>8. ASSUME CheckForLeaks(t)
      PROVE  WInv'
  <2>1. /\ At(t, "user") /\ Goto(t, "iterate")
        /\ UNCHANGED <<tracer, done, tr, registry, making>>
    BY <1>8 DEF CheckForLeaks, InUserCode, At, locks, outcome
  <2> QED
    BY <1>0, <2>1, WalkStep DEF Labels, Outside, Holders
<1>9. ASSUME DlIterate(t)
      PROVE  WInv'
  <2>1. /\ At(t, "iterate") /\ Goto(t, "lock_threads")
        /\ UNCHANGED <<tracer, done, tr, registry, making>>
    BY <1>9 DEF DlIterate, InUserCode, At, locks, outcome
  <2> QED
    BY <1>0, <2>1, WalkStep DEF Labels, Outside, Holders
<1>10. ASSUME LockAllocator(t)
      PROVE  WInv'
  <2>1. /\ At(t, "lock_allocator") /\ Goto(t, "spawn")
        /\ UNCHANGED <<tracer, done, tr, registry, making>>
    BY <1>10 DEF LockAllocator, InUserCode, At, locks, outcome
  <2> QED
    BY <1>0, <2>1, WalkStep DEF Labels, Outside, Holders
<1>11. ASSUME SpawnFails(t)
      PROVE  WInv'
  <2>1. /\ At(t, "spawn") /\ Goto(t, "unlock")
        /\ UNCHANGED <<tracer, done, tr, registry, making>>
    BY <1>11 DEF SpawnFails, InUserCode, At, locks, outcome
  <2> QED
    BY <1>0, <2>1, WalkStep DEF Labels, Outside, Holders
<1>12. ASSUME Rerun(t)
      PROVE  WInv'
  <2>1. /\ At(t, "report") /\ Goto(t, "iterate")
        /\ UNCHANGED <<tracer, done, tr, registry, making>>
    BY <1>12 DEF Rerun, InUserCode, At, locks, outcome
  <2> QED
    BY <1>0, <2>1, WalkStep DEF Labels, Outside, Holders
<1>13. ASSUME PrintResults(t)
      PROVE  WInv'
  <2>1. /\ At(t, "report") /\ Goto(t, "user")
        /\ UNCHANGED <<tracer, done, tr, registry, making>>
    BY <1>13 DEF PrintResults, InUserCode, At, locks, outcome
  <2> QED
    BY <1>0, <2>1, WalkStep DEF Labels, Outside, Holders
<1> QED
  BY <1>1, <1>2, <1>3, <1>4, <1>5, <1>6, <1>7, <1>8, <1>9, <1>10, <1>11, <1>12, <1>13

\* The steps of a thread that need the registry to be free.
LEMMA RegistryActions ==
  ASSUME WInv, NEW t \in Threads,
         StartThread(t) \/ FinishThread(t) \/ ForkLockThreads(t) \/ LockThreads(t)
  PROVE  WInv'
<1>1. ASSUME StartThread(t)
      PROVE  WInv'
  <2>1. /\ At(t, "born") /\ Goto(t, "user")
        /\ registry = None /\ registry' = None
        /\ UNCHANGED <<tracer, done, tr, making>>
    BY <1>1 DEF StartThread, InUserCode, At, locks, outcome
  <2> QED
    BY <2>1, FreeRegistryStep DEF Labels, Holders
<1>2. ASSUME FinishThread(t)
      PROVE  WInv'
  <2>1. /\ At(t, "user") /\ Goto(t, "exit")
        /\ registry = None /\ registry' = None
        /\ UNCHANGED <<tracer, done, tr, making>>
    BY <1>2 DEF FinishThread, InUserCode, At, locks, outcome
  <2> QED
    BY <2>1, FreeRegistryStep DEF Labels, Holders
<1>3. ASSUME ForkLockThreads(t)
      PROVE  WInv'
  <2>1. /\ At(t, "fork_threads") /\ Goto(t, "fork_allocator")
        /\ registry = None /\ registry' = t
        /\ UNCHANGED <<tracer, done, tr, making>>
    BY <1>3 DEF ForkLockThreads, InUserCode, At, locks, outcome
  <2> QED
    BY <2>1, FreeRegistryStep DEF Labels, Holders
<1>4. ASSUME LockThreads(t)
      PROVE  WInv'
  <2>1. /\ At(t, "lock_threads") /\ Goto(t, "lock_allocator")
        /\ registry = None /\ registry' = t
        /\ UNCHANGED <<tracer, done, tr, making>>
    BY <1>4 DEF LockThreads, InUserCode, At, locks, outcome
  <2> QED
    BY <2>1, FreeRegistryStep DEF Labels, Holders
<1> QED
  BY <1>1, <1>2, <1>3, <1>4

\* The steps of a thread that release the registry.
LEMMA ReleasingActions ==
  ASSUME WInv, NEW t \in Threads, AfterFork(t) \/ Unlock(t)
  PROVE  WInv'
<1>1. ASSUME AfterFork(t)
      PROVE  WInv'
  <2>1. /\ At(t, "fork") /\ Goto(t, "user")
        /\ registry' = None
        /\ UNCHANGED <<tracer, done, tr, making>>
    BY <1>1 DEF AfterFork, outcome
  <2> QED
    BY <2>1, ReleaseStep DEF Labels, Outside, Holders
<1>2. ASSUME Unlock(t)
      PROVE  WInv'
  <2>1. /\ At(t, "unlock") /\ Goto(t, "report")
        /\ registry' = None
        /\ UNCHANGED <<tracer, done, tr, making>>
    BY <1>2 DEF Unlock, outcome
  <2> QED
    BY <2>1, ReleaseStep DEF Labels, Outside, Holders
<1> QED
  BY <1>1, <1>2

\* pthread_create: there is no tracer, because the registry is free.
LEMMA CloneThreadStep ==
  ASSUME WInv, NEW p \in Threads, CloneThread(p)
  PROVE  WInv'
<1>1. /\ registry = None /\ registry' = None
      /\ pc' = [pc EXCEPT ![p] = "user", ![making[p]] = "born"]
      /\ making' = [making EXCEPT ![p] = None]
      /\ UNCHANGED <<tr, tracer, done>>
  BY DEF CloneThread, locks, outcome
<1>2. WType /\ tpc = "none" /\ suspended = {}
  BY <1>1, FreeRegistry DEF WInv
<1>3. making[p] \in Threads \cup {None}
  BY <1>2 DEF WType
<1>4. \A u \in Tasks : pc'[u] = pc[u] \/ (u \in Threads /\ pc'[u] \in {"user", "born"})
  BY <1>1, <1>2, <1>3, NoneApart DEF WType
<1>5. WType'
  <2>1. pc' \in [Tasks -> Labels]
    BY <1>1, <1>2, Zenon DEF WType, Labels
  <2>2. making' \in [Threads -> Threads \cup {None}]
    BY <1>1, <1>2 DEF WType
  <2>3. \A u \in Foreign : pc'[u] = pc[u]
    BY <1>4, WorldAssumption, Zenon DEF Tasks
  <2>4. \A u \in Threads : pc'[u] # "foreign"
    BY <1>2, <1>4 DEF WType, Tasks
  <2> QED
    BY <1>1, <1>2, <2>1, <2>2, <2>3, <2>4, Zenon DEF WType, tracer
<1>6. HoldsRegistry'
  <2>1. \A u \in Threads : pc[u] \notin Holders
    BY <1>1, NoneApart DEF WInv, HoldsRegistry
  <2> QED
    BY <1>4, <2>1 DEF HoldsRegistry, Holders, Tasks
<1>7. \A u \in Tasks : pc[u] # "none" => pc'[u] # "none"
  BY <1>4
<1> QED
  BY <1>1, <1>2, <1>5, <1>6, <1>7, ApplicationStep, Zenon

\* A raw clone: the new task is not suspended, having been no task before.
LEMMA CloneForeignStep ==
  ASSUME WInv, NEW p \in Tasks, NEW f \in Foreign, CloneForeign(p, f)
  PROVE  WInv'
<1>1. /\ pc[f] = "none"
      /\ pc' = [pc EXCEPT ![f] = "foreign"]
      /\ UNCHANGED <<tr, making, registry, tracer, done>>
  BY DEF CloneForeign, Goto, locks, outcome
<1>2. WType /\ f \in Tasks /\ f \notin Threads /\ f \notin suspended
  BY <1>1, WorldAssumption DEF WInv, Tasks, Stopped
<1>3. pc'[f] = "foreign" /\ \A u \in Tasks : u # f => pc'[u] = pc[u]
  BY <1>1, <1>2 DEF WType
<1>4. \A u \in Threads : pc'[u] = pc[u]
  BY <1>2, <1>3 DEF Tasks
<1>5. WType'
  <2>1. pc' \in [Tasks -> Labels]
    BY <1>1, <1>2 DEF WType, Labels
  <2>2. \A u \in Foreign : pc'[u] \in {"none", "foreign", "dead"}
    BY <1>2, <1>3 DEF WType, Tasks
  <2> QED
    BY <1>1, <1>2, <1>4, <2>1, <2>2 DEF WType, tracer
<1>6. HoldsRegistry'
  BY <1>1, <1>4 DEF WInv, HoldsRegistry
<1>7. \A u \in suspended : pc'[u] = pc[u] /\ tr'[u] = tr[u]
  BY <1>1, <1>2, <1>3 DEF WType
<1>8. \A u \in Tasks : pc[u] # "none" => pc'[u] # "none"
  BY <1>3
<1>9. tpc # "none" => registry' = registry /\ pc'[registry] = "spin"
  BY <1>1, <1>4 DEF WInv, ParentSpins
<1>10. \A u \in Threads : Running(u)' => Running(u)
  BY <1>4 DEF Running
<1> QED
  BY <1>1, <1>5, <1>6, <1>7, <1>8, <1>9, <1>10, ApplicationStep

\* A task ends.
LEMMA ExitStep ==
  ASSUME WInv, NEW t \in Tasks, Exit(t)
  PROVE  WInv'
<1>1. /\ pc[t] \in {"exit", "foreign"} /\ Executes(t)
      /\ pc' = [pc EXCEPT ![t] = "dead"]
      /\ tr' = [tr EXCEPT ![t] = "free"]
      /\ UNCHANGED <<making, registry, tracer, done>>
  BY DEF Exit, At, Goto, locks, outcome
<1>2. WType /\ t \notin suspended
  BY <1>1, SuspendedRest DEF WInv
<1>3. /\ pc'[t] = "dead"
      /\ \A u \in Tasks : u # t => pc'[u] = pc[u] /\ tr'[u] = tr[u]
  BY <1>1, <1>2 DEF WType
<1>4. WType'
  <2>1. /\ pc' \in [Tasks -> Labels]
        /\ tr' \in [Tasks -> {"free", "attached", "signalled", "stopped"}]
    BY <1>1, <1>2 DEF WType, Labels
  <2>2. \A u \in Foreign : pc'[u] \in {"none", "foreign", "dead"}
    BY <1>2, <1>3 DEF WType, Tasks
  <2>3. \A u \in Threads : pc'[u] # "foreign"
    BY <1>2, <1>3 DEF WType, Tasks
  <2> QED
    BY <1>1, <1>2, <2>1, <2>2, <2>3 DEF WType, tracer
<1>5. HoldsRegistry'
  BY <1>1, <1>3 DEF WInv, HoldsRegistry, Holders, Tasks
<1>6. \A u \in suspended : pc'[u] = pc[u] /\ tr'[u] = tr[u]
  BY <1>2, <1>3 DEF WType
<1>7. \A u \in Tasks : pc[u] # "none" => pc'[u] # "none"
  BY <1>3
<1>8. tpc # "none" => registry' = registry /\ pc'[registry] = "spin"
  BY <1>1, <1>3 DEF WInv, ParentSpins, Tasks
<1>9. \A u \in Threads : Running(u)' => Running(u)
  BY <1>3 DEF Running, Tasks
<1> QED
  BY <1>1, <1>4, <1>5, <1>6, <1>7, <1>8, <1>9, ApplicationStep

\* The parent goes on: the tracer is done.
LEMMA SpinEndsStep ==
  ASSUME WInv, NEW t \in Threads, SpinEnds(t)
  PROVE  WInv'
<1>1. /\ pc[t] = "spin" /\ Executes(t)
      /\ done
      /\ pc' = [pc EXCEPT ![t] = "unlock"]
      /\ UNCHANGED <<tr, making, registry, tracer, done>>
  BY DEF SpinEnds, At, Goto, locks, outcome
<1>2. tpc = "none"
  BY <1>1 DEF WInv, ParentSpins
<1>3. pc'[t] = "unlock" /\ \A u \in Threads : u # t => pc'[u] = pc[u]
  BY <1>1 DEF WInv, WType, Tasks
<1>4. HoldsRegistry'
  BY <1>1, <1>3 DEF WInv, HoldsRegistry, Holders
<1>5. making' \in [Threads -> Threads \cup {None}]
  BY <1>1 DEF WInv, WType
<1>6. "unlock" \in Labels
  BY DEF Labels
<1> QED
  BY <1>1, <1>2, <1>4, <1>5, <1>6, ThreadMoves, Zenon

-----------------------------------------------------------------------------
(* Steps of the tracer *)

\* The tracer begins with nobody suspended, and its parent spins.
LEMMA SpawnTracerStep ==
  ASSUME WInv, NEW t \in Threads, SpawnTracer(t)
  PROVE  WInv'
<1>1. /\ pc[t] = "spawn"
      /\ pc' = [pc EXCEPT ![t] = "spin"]
      /\ done' = FALSE /\ tpc' = "suspend" /\ suspended' = {}
      /\ tries' = 0 /\ retry' = TRUE /\ troubled' = FALSE
      /\ UNCHANGED <<tr, making, registry, todo>>
  BY DEF SpawnTracer, At, Goto, TracerGoto, locks
<1>2. t \in Tasks /\ WType
  BY DEF WInv, Tasks
<1>3. pc'[t] = "spin" /\ \A u \in Tasks : u # t => pc'[u] = pc[u]
  BY <1>1, <1>2 DEF WType
<1>4. WType'
  <2>1. pc' \in [Tasks -> Labels]
    BY <1>1, <1>2 DEF WType, Labels
  <2>2. \A u \in Foreign : pc'[u] = pc[u]
    BY <1>3, WorldAssumption, Zenon DEF Tasks
  <2>3. \A u \in Threads : pc'[u] # "foreign"
    BY <1>2, <1>3 DEF WType, Tasks
  <2> QED
    BY <1>1, <1>2, <2>1, <2>2, <2>3 DEF WType
<1>5. registry = t
  BY <1>1 DEF WInv, HoldsRegistry, Holders
<1>6. HoldsRegistry'
  BY <1>1, <1>3, <1>5 DEF WInv, HoldsRegistry, Holders, Tasks
<1>7. ParentSpins'
  BY <1>1, <1>3, <1>5 DEF ParentSpins
<1>8. Stopped' /\ Covered' /\ Listed'
  BY <1>1 DEF Stopped, Covered, Listed
<1> QED
  BY <1>4, <1>6, <1>7, <1>8 DEF WInv

\* What all other steps of the tracer leave alone.
LEMMA TracerStep ==
  ASSUME WInv, UNCHANGED <<pc, making, registry, done>>,
         tr' \in [Tasks -> {"free", "attached", "signalled", "stopped"}],
         tpc # "none",
         tpc' \in {"suspend", "attach", "waitpid", "callback", "resume"},
         todo' \in SUBSET Tasks, suspended' \in SUBSET Tasks, tries' \in Nat,
         Stopped', Covered', Listed'
  PROVE  WInv'
<1>1. WType'
  BY DEF WInv, WType
<1>2. HoldsRegistry' /\ ParentSpins'
  BY DEF WInv, HoldsRegistry, ParentSpins
<1> QED
  BY <1>1, <1>2 DEF WInv

\* A listing that is complete has all threads that run; another one is
\* remembered as such.
LEMMA ListSteps ==
  ASSUME WInv, ListThreads \/ ListIncomplete
  PROVE  WInv'
<1>1. WType
  BY DEF WInv
<1>2. PICK l \in SUBSET Tasks :
        /\ List(l)
        /\ \A u \in l : Alive(u)
        /\ ~troubled' => l = {t \in Tasks : Alive(t)}
  <2>1. CASE ListThreads
    BY <2>1 DEF ListThreads
  <2>2. CASE ListIncomplete
    BY <2>2 DEF ListIncomplete
  <2> QED
    BY <2>1, <2>2
<1>3. /\ UNCHANGED <<pc, tr, making, registry, done, suspended>>
  BY DEF ListThreads, ListIncomplete, locks, outcome
<1>4. /\ tpc = "suspend" /\ tpc' = "attach"
      /\ todo' = l \ suspended /\ tries' = tries + 1
  BY <1>2 DEF List, TracerGoto
<1>5. Stopped'
  BY <1>3, <1>4 DEF WInv, Stopped
<1>6. Covered'
  <2> SUFFICES ASSUME ~troubled', NEW t \in Threads, Running(t)'
               PROVE  t \in suspended' \/ t \in todo'
    BY <1>4 DEF Covered
  <2>1. t \in Tasks /\ Alive(t)
    BY <1>3 DEF Running, Alive, Tasks
  <2> QED
    BY <1>2, <1>3, <1>4, <2>1
<1>7. Listed'
  BY <1>1, <1>4 DEF Listed, WType
<1>8. tries' \in Nat /\ todo' \in SUBSET Tasks
  BY <1>1, <1>4 DEF WType
<1> QED
  BY <1>1, <1>3, <1>4, <1>5, <1>6, <1>7, <1>8, TracerStep DEF WType

\* The tracer attaches to a task of the list.
LEMMA AttachStep ==
  ASSUME WInv, NEW t \in Tasks, Attach(t)
  PROVE  WInv'
<1>1. /\ tpc = "attach" /\ tpc' = "waitpid"
      /\ t \in todo /\ Alive(t)
      /\ todo' = todo \ {t} /\ target' = t
      /\ tr' = [tr EXCEPT ![t] = "attached"]
      /\ UNCHANGED <<pc, making, registry, done, retry, tries, suspended, troubled>>
  BY DEF Attach, TracerGoto, locks, outcome
<1>2. WType /\ t \notin suspended /\ pc[t] # "none"
  BY <1>1 DEF WInv, Stopped, Alive
<1>3. \A u \in suspended : tr'[u] = tr[u]
  BY <1>1, <1>2 DEF WType
<1>4. Stopped'
  BY <1>1, <1>2, <1>3 DEF WInv, Stopped
<1>5. Covered'
  BY <1>1 DEF WInv, Covered, Running
<1>6. Listed'
  BY <1>1 DEF WInv, Listed
<1>7. tr' \in [Tasks -> {"free", "attached", "signalled", "stopped"}]
  BY <1>1, <1>2 DEF WType
<1> QED
  BY <1>1, <1>2, <1>4, <1>5, <1>6, <1>7, TracerStep DEF WType

\* A task it cannot attach to is dead, or is remembered.
LEMMA AttachFailsStep ==
  ASSUME WInv, NEW t \in Tasks, AttachFails(t)
  PROVE  WInv'
<1>1. /\ tpc = "attach" /\ tpc' = "attach"
      /\ todo' = todo \ {t}
      /\ UNCHANGED <<pc, tr, making, registry, done, retry, tries, suspended>>
  BY DEF AttachFails, locks, outcome
<1>2. ~troubled' => ~troubled /\ ~Alive(t)
  BY DEF AttachFails
<1>3. WType
  BY DEF WInv
<1>4. Stopped'
  BY <1>1 DEF WInv, Stopped
<1>5. Covered'
  BY <1>1, <1>2 DEF WInv, Covered, Running, Alive
<1>6. Listed'
  BY <1>1 DEF WInv, Listed
<1> QED
  BY <1>1, <1>3, <1>4, <1>5, <1>6, TracerStep DEF WType

\* The tracer has waited for a task: it is stopped or dead.
LEMMA SuspendedStep ==
  ASSUME WInv, Suspended
  PROVE  WInv'
<1>1. /\ tpc = "waitpid" /\ tpc' = "attach"
      /\ tr[target] = "stopped" \/ ~Alive(target)
      /\ suspended' = suspended \cup {target}
      /\ UNCHANGED <<pc, tr, making, registry, done, todo, tries, troubled>>
  BY DEF Suspended, TracerGoto, locks, outcome
<1>2. WType /\ target \in Tasks /\ target \notin todo /\ pc[target] # "none"
  BY <1>1 DEF WInv, Stopped
<1>3. Stopped'
  BY <1>1, <1>2 DEF WInv, Stopped, Alive
<1>4. Covered'
  BY <1>1 DEF WInv, Covered, Running
<1>5. Listed'
  BY <1>1 DEF WInv, Listed
<1> QED
  BY <1>1, <1>2, <1>3, <1>4, <1>5, TracerStep DEF WType

\* waitpid fails: the task is dead, or is remembered.
LEMMA WaitpidFailsStep ==
  ASSUME WInv, WaitpidFails
  PROVE  WInv'
<1>1. /\ tpc = "waitpid" /\ tpc' = "attach"
      /\ tr' = IF tr[target] = "attached" THEN tr ELSE [tr EXCEPT ![target] = "free"]
      /\ troubled' = (troubled \/ Alive(target))
      /\ UNCHANGED <<pc, making, registry, done, todo, tries, suspended>>
  BY DEF WaitpidFails, TracerGoto, locks, outcome
<1>2. WType /\ target \in Tasks /\ target \notin suspended
  BY <1>1 DEF WInv, Stopped
<1>3. \A u \in suspended : tr'[u] = tr[u]
  BY <1>1, <1>2 DEF WType
<1>4. Stopped'
  BY <1>1, <1>3 DEF WInv, Stopped
<1>5. Covered'
  BY <1>1, Zenon DEF WInv, Covered, Running, Alive
<1>6. Listed'
  BY <1>1 DEF WInv, Listed
<1>7. tr' \in [Tasks -> {"free", "attached", "signalled", "stopped"}]
  BY <1>1, <1>2 DEF WType
<1> QED
  BY <1>1, <1>2, <1>4, <1>5, <1>6, <1>7, TracerStep DEF WType

\* The list is done.
LEMMA ListDoneStep ==
  ASSUME WInv, ListDone
  PROVE  WInv'
<1>1. /\ tpc = "attach" /\ tpc' = "suspend" /\ todo = {}
      /\ UNCHANGED <<pc, tr, making, registry, done, todo, target, retry, tries,
                     suspended, troubled>>
  BY DEF ListDone, TracerGoto, locks, outcome
<1>2. WType
  BY DEF WInv
<1>3. Stopped'
  BY <1>1 DEF WInv, Stopped
<1>4. Covered'
  BY <1>1 DEF WInv, Covered, Running
<1>5. Listed'
  BY <1>1 DEF WInv, Listed
<1> QED
  BY <1>1, <1>2, <1>3, <1>4, <1>5, TracerStep DEF WType

\* The tracer calls the callback, having listed the threads at least once.
LEMMA SuspendAllThreadsStep ==
  ASSUME WInv, SuspendAllThreads
  PROVE  WInv'
<1>1. /\ tpc = "suspend" /\ tpc' \in {"resume", "callback"}
      /\ ~retry \/ tries = kMaxTries
      /\ UNCHANGED <<pc, tr, making, registry, done, todo, target, retry, tries,
                     suspended, troubled>>
  BY DEF SuspendAllThreads, TracerGoto, locks, outcome
<1>2. tries # 0
  BY <1>1, WorldAssumption DEF WInv, Listed
<1>3. WType
  BY DEF WInv
<1>4. Stopped'
  BY <1>1 DEF WInv, Stopped
<1>5. Covered'
  BY <1>1, <1>2 DEF WInv, Covered, Running
<1>6. Listed'
  BY <1>1 DEF Listed
<1> QED
  BY <1>1, <1>3, <1>4, <1>5, <1>6, TracerStep DEF WType

\* The tracer stops waiting: a listing fails, or the callback ends.
LEMMA ResumeBegins ==
  ASSUME WInv, ListError \/ EndCallback(TRUE) \/ EndCallback(FALSE)
  PROVE  WInv'
<1>1. /\ tpc # "none" /\ tpc' = "resume"
      /\ UNCHANGED <<pc, tr, making, registry, done, todo, target, retry, tries,
                     suspended, troubled>>
  BY DEF ListError, EndCallback, TracerGoto, locks, outcome
<1>2. WType
  BY DEF WInv
<1>3. Stopped' /\ Covered' /\ Listed'
  BY <1>1 DEF WInv, Stopped, Covered, Listed
<1> QED
  BY <1>1, <1>2, <1>3, TracerStep DEF WType

\* A task is resumed.
LEMMA ResumeThreadStep ==
  ASSUME WInv, NEW t \in Tasks, ResumeThread(t)
  PROVE  WInv'
<1>1. /\ tpc = "resume" /\ tpc' = "resume"
      /\ suspended' = suspended \ {t}
      /\ tr' = [tr EXCEPT ![t] = "free"]
      /\ UNCHANGED <<pc, making, registry, done, todo, target, retry, tries, troubled>>
  BY DEF ResumeThread, locks, outcome
<1>2. WType
  BY DEF WInv
<1>3. \A u \in suspended' : u \in suspended /\ tr'[u] = tr[u]
  BY <1>1, <1>2 DEF WType
<1>4. Stopped'
  BY <1>1, <1>3 DEF WInv, Stopped
<1>5. Covered' /\ Listed'
  BY <1>1 DEF Covered, Listed
<1>6. tr' \in [Tasks -> {"free", "attached", "signalled", "stopped"}]
  BY <1>1, <1>2 DEF WType
<1> QED
  BY <1>1, <1>2, <1>4, <1>5, <1>6, TracerStep DEF WType

\* The tracer ends with nobody suspended.
LEMMA TracerDoneStep ==
  ASSUME WInv, TracerDone
  PROVE  WInv'
<1>1. /\ tpc' = "none" /\ suspended = {}
      /\ tr' = [t \in Tasks |-> "free"]
      /\ UNCHANGED <<pc, making, registry, todo, tries, suspended>>
  BY DEF TracerDone, TracerGoto, locks
<1>2. WType'
  BY <1>1 DEF WInv, WType
<1>3. HoldsRegistry'
  BY <1>1 DEF WInv, HoldsRegistry
<1>4. ParentSpins' /\ Stopped' /\ Covered' /\ Listed'
  BY <1>1 DEF ParentSpins, Stopped, Covered, Listed
<1> QED
  BY <1>2, <1>3, <1>4 DEF WInv

\* The kernel stops a task, or the tracer lets it go on with a signal: no task
\* that is suspended.
LEMMA PtraceSteps ==
  ASSUME WInv, NEW t \in Tasks,
         Stop(t) \/ StopForSignal(t) \/ (ForwardSignal /\ t = target)
  PROVE  WInv'
<1>1. WType
  BY DEF WInv
<1>2. PICK s \in {"attached", "signalled", "stopped"} : tr' = [tr EXCEPT ![t] = s]
  BY DEF Stop, StopForSignal, ForwardSignal
<1>3. tr[t] # "stopped" /\ UNCHANGED <<pc, making, registry, tracer, done>>
  BY DEF Stop, StopForSignal, ForwardSignal, locks, outcome
<1>4. UNCHANGED <<tpc, todo, target, retry, tries, suspended, troubled>>
  BY <1>3 DEF tracer
<1>5. \A u \in suspended : tr'[u] = tr[u] \/ pc[u] = "dead"
  BY <1>1, <1>2, <1>3 DEF WInv, Stopped, WType
<1>6. WType'
  BY <1>1, <1>2, <1>3, <1>4 DEF WType
<1>7. Stopped'
  BY <1>3, <1>4, <1>5, Zenon DEF WInv, Stopped
<1>8. HoldsRegistry' /\ ParentSpins' /\ Covered' /\ Listed'
  BY <1>3, <1>4 DEF WInv, HoldsRegistry, ParentSpins, Covered, Listed, Running
<1> QED
  BY <1>6, <1>7, <1>8 DEF WInv

-----------------------------------------------------------------------------
(* The induction *)

\* Steps that change only the heap, the tags and the report.
LEMMA WorldFrame ==
  ASSUME WInv, UNCHANGED <<pc, tr, making, registry, tracer, done>>
  PROVE  WInv'
BY DEF WInv, WType, HoldsRegistry, ParentSpins, Stopped, Covered, Listed, Running,
       tracer

\* The threads of Started run at first, and there is no tracer.
LEMMA WorldInitInv == Init => WInv
<1> SUFFICES ASSUME Init
             PROVE  WInv
  OBVIOUS
<1>0. /\ pc \in [Tasks -> {"user", "dead", "none"}]
      /\ \A t \in Foreign : pc[t] = "none"
  BY WorldAssumption DEF Init, WorldInit, Tasks
<1>1. WType
  <2>1. pc \in [Tasks -> Labels]
    BY <1>0 DEF Labels
  <2>2. \A t \in Threads : pc[t] # "foreign"
    BY <1>0 DEF Tasks
  <2> QED
    BY <1>0, <2>1, <2>2 DEF Init, WorldInit, WType
<1>2. HoldsRegistry
  BY <1>0 DEF HoldsRegistry, Holders, Tasks
<1>3. ParentSpins /\ Stopped /\ Covered /\ Listed
  BY DEF Init, WorldInit, ParentSpins, Stopped, Covered, Listed
<1> QED
  BY <1>1, <1>2, <1>3 DEF WInv

\* What the application does to the heap, and the threads it starts and ends.
LEMMA MutateStep ==
  ASSUME WInv, Mutate
  PROVE  WInv'
<1>1. ASSUME NEW t \in Threads, Operate(t)
      PROVE  WInv'
  BY <1>1, WorldFrame DEF Operate, locks, outcome
<1>2. ASSUME NEW t \in Threads, NEW c \in Chunks,
             \/ Malloc(t, c) \/ Free(t, c) \/ Load(t, c) \/ StoreGlobal(t, c)
             \/ Forget(t, c) \/ IgnoreObject(t, c)
             \/ \E d \in Chunks : Store(t, c, d)
      PROVE  WInv'
  <2>1. Operate(t)
    BY <1>2, Zenon DEF Malloc, Free, Load, StoreGlobal, Forget, IgnoreObject, Store
  <2> QED
    BY <1>1, <2>1
<1>3. ASSUME NEW p \in Threads, NEW a \in SUBSET Chunks, Create(p, a)
      PROVE  WInv'
  BY <1>3, CloneThreadStep, Zenon DEF Create
<1>4. ASSUME NEW t \in Threads, Start(t) \/ \E r \in SUBSET Chunks : Finish(t, r)
      PROVE  WInv'
  BY <1>4, RegistryActions DEF Start, Finish
<1>5. ASSUME NEW p \in Threads, NEW t \in Threads, Join(p, t)
      PROVE  WInv'
  BY <1>5, WorldFrame DEF Join, world, locks, outcome
<1> QED
  BY <1>2, <1>3, <1>4, <1>5 DEF Mutate

\* Every step keeps the invariant.
LEMMA WorldNextInv == WInv /\ [Next]_vars => WInv'
<1> SUFFICES ASSUME WInv, [Next]_vars
             PROVE  WInv'
  OBVIOUS
<1>1. CASE WorldStep
  <2>1. ASSUME NEW p \in Threads, NEW t \in Threads, CreateThread(p, t)
        PROVE  WInv'
    BY <2>1, WalkingActions
  <2>2. ASSUME NEW p \in Tasks, NEW f \in Foreign, CloneForeign(p, f)
        PROVE  WInv'
    BY <2>2, CloneForeignStep
  <2>3. ASSUME NEW t \in Tasks, Exit(t)
        PROVE  WInv'
    BY <2>3, ExitStep
  <2>4. ASSUME NEW t \in Threads,
               \/ Refill(t) \/ RefillDone(t) \/ DlOpen(t) \/ DlOpenDone(t)
               \/ ForkLockGlobal(t) \/ ForkLockAllocator(t) \/ CheckForLeaks(t)
        PROVE  WInv'
    BY <2>4, WalkingActions
  <2>5. ASSUME NEW t \in Threads, ForkLockThreads(t)
        PROVE  WInv'
    BY <2>5, RegistryActions
  <2>6. ASSUME NEW t \in Threads, AfterFork(t)
        PROVE  WInv'
    BY <2>6, ReleasingActions
  <2>7. ASSUME NEW t \in Tasks, StopForSignal(t)
        PROVE  WInv'
    BY <2>7, PtraceSteps
  <2>8. CASE TracerAbort
    BY <2>8, WorldFrame DEF TracerAbort, locks
  <2> QED
    BY <1>1, <2>1, <2>2, <2>3, <2>4, <2>5, <2>6, <2>7, <2>8 DEF WorldStep
<1>2. CASE Mutate
  BY <1>2, MutateStep
<1>3. CASE Check
  <2>1. ASSUME NEW t \in Threads,
               DlIterate(t) \/ LockAllocator(t) \/ SpawnFails(t) \/ Rerun(t) \/ PrintResults(t)
        PROVE  WInv'
    BY <2>1, WalkingActions
  <2>2. ASSUME NEW t \in Threads, LockThreads(t)
        PROVE  WInv'
    BY <2>2, RegistryActions
  <2>3. ASSUME NEW t \in Threads, SpawnTracer(t)
        PROVE  WInv'
    BY <2>3, SpawnTracerStep
  <2>4. ASSUME NEW t \in Threads, SpinEnds(t)
        PROVE  WInv'
    BY <2>4, SpinEndsStep
  <2>5. ASSUME NEW t \in Threads, Unlock(t)
        PROVE  WInv'
    BY <2>5, ReleasingActions
  <2>6. ASSUME NEW t \in Threads, CheckFails(t)
        PROVE  WInv'
    BY <2>6, WorldFrame DEF CheckFails, locks
  <2> QED
    BY <1>3, <2>1, <2>2, <2>3, <2>4, <2>5, <2>6 DEF Check
<1>4. CASE Trace
  <2>1. ASSUME NEW t \in Tasks, Attach(t) \/ AttachFails(t) \/ ResumeThread(t)
        PROVE  WInv'
    BY <2>1, AttachStep, AttachFailsStep, ResumeThreadStep
  <2>2. CASE ForwardSignal
    <3>1. target \in Tasks
      BY <2>2 DEF ForwardSignal, WInv, Stopped
    <3> QED
      BY <2>2, <3>1, PtraceSteps
  <2>3. CASE ListThreads \/ ListIncomplete
    BY <2>3, ListSteps
  <2>4. CASE ListError
    BY <2>4, ResumeBegins
  <2>5. CASE ListDone \/ Suspended \/ WaitpidFails \/ SuspendAllThreads \/ TracerDone
    BY <2>5, ListDoneStep, SuspendedStep, WaitpidFailsStep, SuspendAllThreadsStep,
       TracerDoneStep
  <2>6. ASSUME UNCHANGED world
        PROVE  WInv'
    BY <2>6, WorldFrame DEF world, locks, outcome
  <2>7. CASE \/ CollectIgnored \/ ProcessGlobalRegions \/ ProcessThreads
             \/ ProcessThreadRegistry \/ MarkIndirectlyLeaked \/ CollectLeaks
             \/ \E c \in Chunks : FloodFillTag(c)
    BY <2>6, <2>7, Zenon DEF CollectIgnored, ProcessGlobalRegions, ProcessThreads,
         ProcessThreadRegistry, MarkIndirectlyLeaked, CollectLeaks, FloodFillTag
  <2>8. CASE ResetTags
    BY <2>8, ResumeBegins DEF ResetTags
  <2> QED
    BY <1>4, <2>1, <2>2, <2>3, <2>4, <2>5, <2>7, <2>8 DEF Trace
<1>5. CASE CallbackCrashes
  BY <1>5, ResumeBegins DEF CallbackCrashes, TracerSignal
<1>6. ASSUME NEW t \in Tasks, StopTask(t)
      PROVE  WInv'
  BY <1>6, PtraceSteps DEF StopTask
<1>7. CASE UNCHANGED vars
  BY <1>7, WorldFrame DEF vars, world, locks, outcome
<1> QED
  BY <1>1, <1>2, <1>3, <1>4, <1>5, <1>6, <1>7 DEF Next

-----------------------------------------------------------------------------
(* Kernel ids, and the locks of the allocator and of the linker *)

\* No two tasks that are alive have the same kernel id.
OsIds ==
  /\ os_id \in [Threads -> Threads]
  /\ \A t, u \in Threads : Alive(t) /\ Alive(u) /\ os_id[t] = os_id[u] => t = u

\* Where a thread holds a lock of the allocator, or that of the linker.
AllocatorHolders == {"refill", "fork", "spawn", "spin", "unlock"}
LinkerHolders ==
  {"dlopen", "lock_threads", "lock_allocator", "spawn", "spin", "unlock"}

LocksHeld ==
  \A t \in Threads : /\ pc[t] \in AllocatorHolders => allocator = t
                     /\ pc[t] \in LinkerHolders => dl = t

HInv == OsIds /\ LocksHeld

\* A thread moves on, takes a lock that is free or leaves one that it has.
LEMMA ThreadGoes ==
  ASSUME WInv, HInv, NEW t \in Threads, NEW b \in Labels, Executes(t),
         pc' = [pc EXCEPT ![t] = b], os_id' = os_id,
         b \in AllocatorHolders => allocator' = t,
         allocator' = allocator \/ allocator = None \/ pc[t] \in AllocatorHolders,
         b \in LinkerHolders => dl' = t,
         dl' = dl \/ dl = None \/ pc[t] \in LinkerHolders
  PROVE  HInv'
<1>1. t \in Tasks /\ pc'[t] = b /\ \A u \in Threads : u # t => pc'[u] = pc[u]
  BY DEF WInv, WType, Tasks
<1>2. \A u \in Threads : Alive(u)' => Alive(u)
  BY <1>1 DEF Alive, Executes
<1>3. OsIds'
  BY <1>2 DEF HInv, OsIds
<1>4. LocksHeld'
  BY <1>1, NoneApart DEF HInv, LocksHeld
<1> QED
  BY <1>3, <1>4 DEF HInv

\* What a thread does with the locks.
LEMMA ThreadsKeepLocks ==
  ASSUME WInv, HInv, NEW t \in Threads,
         \/ \E u \in Threads : CreateThread(t, u)
         \/ StartThread(t) \/ FinishThread(t) \/ Refill(t) \/ RefillDone(t)
         \/ DlOpen(t) \/ DlOpenDone(t) \/ ForkLockGlobal(t) \/ ForkLockThreads(t)
         \/ ForkLockAllocator(t) \/ AfterFork(t) \/ CheckForLeaks(t) \/ DlIterate(t)
         \/ LockThreads(t) \/ LockAllocator(t) \/ SpawnTracer(t) \/ SpawnFails(t)
         \/ SpinEnds(t) \/ Unlock(t) \/ Rerun(t) \/ PrintResults(t)
  PROVE  HInv'
<1> DEFINE Goes(b) ==
      /\ Executes(t)
      /\ pc' = [pc EXCEPT ![t] = b] /\ os_id' = os_id
      /\ b \in AllocatorHolders => allocator' = t
      /\ allocator' = allocator \/ allocator = None \/ pc[t] \in AllocatorHolders
      /\ b \in LinkerHolders => dl' = t
      /\ dl' = dl \/ dl = None \/ pc[t] \in LinkerHolders
<1>0. /\ pc[t] \in AllocatorHolders => allocator = t
      /\ pc[t] \in LinkerHolders => dl = t
  BY DEF HInv, LocksHeld
<1>1. ASSUME NEW u \in Threads, CreateThread(t, u)
      PROVE  Goes("create")
  BY <1>0, <1>1 DEF CreateThread, InUserCode, Goto, locks, AllocatorHolders,
     LinkerHolders
<1>2. ASSUME StartThread(t)
      PROVE  Goes("user")
  BY <1>0, <1>2 DEF StartThread, InUserCode, At, Goto, locks, AllocatorHolders, LinkerHolders
<1>3. ASSUME FinishThread(t)
      PROVE  Goes("exit")
  BY <1>0, <1>3 DEF FinishThread, InUserCode, At, Goto, locks, AllocatorHolders, LinkerHolders
<1>4. ASSUME Refill(t)
      PROVE  Goes("refill")
  BY <1>0, <1>4 DEF Refill, InUserCode, At, Goto, locks, AllocatorHolders, LinkerHolders
<1>5. ASSUME RefillDone(t)
      PROVE  Goes("user")
  BY <1>0, <1>5 DEF RefillDone, InUserCode, At, Goto, locks, AllocatorHolders, LinkerHolders
<1>6. ASSUME DlOpen(t)
      PROVE  Goes("dlopen")
  BY <1>0, <1>6 DEF DlOpen, InUserCode, At, Goto, locks, AllocatorHolders, LinkerHolders
<1>7. ASSUME DlOpenDone(t)
      PROVE  Goes("user")
  BY <1>0, <1>7 DEF DlOpenDone, InUserCode, At, Goto, locks, AllocatorHolders, LinkerHolders
<1>8. ASSUME ForkLockGlobal(t)
      PROVE  Goes("fork_threads")
  BY <1>0, <1>8 DEF ForkLockGlobal, InUserCode, At, Goto, locks, AllocatorHolders, LinkerHolders
<1>9. ASSUME ForkLockThreads(t)
      PROVE  Goes("fork_allocator")
  BY <1>0, <1>9 DEF ForkLockThreads, InUserCode, At, Goto, locks, AllocatorHolders, LinkerHolders
<1>10. ASSUME ForkLockAllocator(t)
      PROVE  Goes("fork")
  BY <1>0, <1>10 DEF ForkLockAllocator, InUserCode, At, Goto, locks, AllocatorHolders, LinkerHolders
<1>11. ASSUME AfterFork(t)
      PROVE  Goes("user")
  BY <1>0, <1>11 DEF AfterFork, InUserCode, At, Goto, locks, AllocatorHolders, LinkerHolders
<1>12. ASSUME CheckForLeaks(t)
      PROVE  Goes("iterate")
  BY <1>0, <1>12 DEF CheckForLeaks, InUserCode, At, Goto, locks, AllocatorHolders, LinkerHolders
<1>13. ASSUME DlIterate(t)
      PROVE  Goes("lock_threads")
  BY <1>0, <1>13 DEF DlIterate, InUserCode, At, Goto, locks, AllocatorHolders, LinkerHolders
<1>14. ASSUME LockThreads(t)
      PROVE  Goes("lock_allocator")
  BY <1>0, <1>14 DEF LockThreads, InUserCode, At, Goto, locks, AllocatorHolders, LinkerHolders
<1>15. ASSUME LockAllocator(t)
      PROVE  Goes("spawn")
  BY <1>0, <1>15 DEF LockAllocator, InUserCode, At, Goto, locks, AllocatorHolders, LinkerHolders
<1>16. ASSUME SpawnTracer(t)
      PROVE  Goes("spin")
  BY <1>0, <1>16 DEF SpawnTracer, InUserCode, At, Goto, locks, AllocatorHolders, LinkerHolders
<1>17. ASSUME SpawnFails(t)
      PROVE  Goes("unlock")
  BY <1>0, <1>17 DEF SpawnFails, InUserCode, At, Goto, locks, AllocatorHolders, LinkerHolders
<1>18. ASSUME SpinEnds(t)
      PROVE  Goes("unlock")
  BY <1>0, <1>18 DEF SpinEnds, InUserCode, At, Goto, locks, AllocatorHolders, LinkerHolders
<1>19. ASSUME Unlock(t)
      PROVE  Goes("report")
  BY <1>0, <1>19 DEF Unlock, InUserCode, At, Goto, locks, AllocatorHolders, LinkerHolders
<1>20. ASSUME Rerun(t)
      PROVE  Goes("iterate")
  BY <1>0, <1>20 DEF Rerun, InUserCode, At, Goto, locks, AllocatorHolders, LinkerHolders
<1>21. ASSUME PrintResults(t)
      PROVE  Goes("user")
  BY <1>0, <1>21, Zenon DEF PrintResults, InUserCode, At, Goto, locks, AllocatorHolders, LinkerHolders
<1>22. ASSUME NEW b \in Labels, Goes(b)
       PROVE  HInv'
  BY <1>22, ThreadGoes, Zenon
<1> HIDE DEF Goes
<1>23. \E b \in Labels : Goes(b)
  BY <1>1, <1>2, <1>3, <1>4, <1>5, <1>6, <1>7, <1>8, <1>9, <1>10, <1>11, <1>12,
     <1>13, <1>14, <1>15, <1>16, <1>17, <1>18, <1>19, <1>20, <1>21
     DEF Labels
<1> QED
  BY <1>22, <1>23

\* Steps that leave the labels, the ids and these locks alone.
LEMMA LocksRest ==
  ASSUME HInv, UNCHANGED <<pc, os_id, allocator, dl>>
  PROVE  HInv'
BY DEF HInv, OsIds, LocksHeld, Alive

\* A new thread has an id that no living thread has.
LEMMA CloneKeepsIds ==
  ASSUME WInv, HInv, NEW p \in Threads, CloneThread(p)
  PROVE  HInv'
<1> DEFINE m == making[p]
<1>1. PICK i \in KernelIds(m) : os_id' = [os_id EXCEPT ![m] = i]
  BY Zenon DEF CloneThread
<1>2. /\ m \in Threads \cup {None}
      /\ pc' = [pc EXCEPT ![p] = "user", ![m] = "born"]
      /\ UNCHANGED <<allocator, dl>>
      /\ Alive(p)
  BY DEF CloneThread, WInv, WType, locks, At, Executes
<1>3. /\ i = m \/ i \in Threads
      /\ \A u \in Threads : Alive(u) => os_id[u] # i
  BY DEF KernelIds, HInv, OsIds
<1>4. \A u \in Threads : \/ pc'[u] = pc[u]
                         \/ u \in {p, m} /\ pc'[u] \in {"user", "born"}
  BY <1>2, NoneApart DEF WInv, WType, Tasks
<1> HIDE DEF m
<1>5. OsIds'
  <2>1. os_id' \in [Threads -> Threads]
    BY <1>1, <1>2, <1>3, NoneApart, Zenon DEF HInv, OsIds
  <2>2. \A u \in Threads : u # m => os_id'[u] = os_id[u] /\ (Alive(u)' => Alive(u))
    BY <1>1, <1>2, <1>4, Zenon DEF HInv, OsIds, Alive
  <2>3. m \in Threads => os_id'[m] = i
    BY <1>1 DEF HInv, OsIds
  <2> QED
    BY <1>3, <2>1, <2>2, <2>3 DEF HInv, OsIds
<1>6. LocksHeld'
  BY <1>2, <1>4, Zenon DEF HInv, LocksHeld, AllocatorHolders, LinkerHolders
<1> QED
  BY <1>5, <1>6 DEF HInv

\* Neither a foreign task nor the end of a task matters.
LEMMA OthersKeepIds ==
  ASSUME WInv, HInv,
         \/ \E p \in Tasks, f \in Foreign : CloneForeign(p, f)
         \/ \E t \in Tasks : Exit(t)
  PROVE  HInv'
<1>1. /\ UNCHANGED <<os_id, allocator, dl>>
      /\ \A u \in Threads : pc'[u] = pc[u] \/ pc'[u] = "dead"
  BY WorldAssumption DEF CloneForeign, Exit, Goto, locks, WInv, WType, Tasks
<1>2. \A u \in Threads : Alive(u)' => Alive(u)
  BY <1>1 DEF Alive
<1> QED
  BY <1>1, <1>2, Zenon DEF HInv, OsIds, LocksHeld, AllocatorHolders, LinkerHolders

\* The initial states: every thread has an id of its own.
LEMMA IdsInitInv == Init => HInv
<1> SUFFICES ASSUME Init
             PROVE  HInv
  OBVIOUS
<1>1. \A t \in Threads : pc[t] \in {"user", "dead", "none"}
  BY DEF Init, WorldInit, Tasks
<1>2. os_id = [t \in Threads |-> t]
  BY DEF Init, WorldInit
<1> QED
  BY <1>1, <1>2 DEF HInv, OsIds, LocksHeld, AllocatorHolders, LinkerHolders

\* Every step keeps the ids and the locks apart.
LEMMA IdsNextInv == WInv /\ HInv /\ [Next]_vars => HInv'
<1> SUFFICES ASSUME WInv, HInv, [Next]_vars
             PROVE  HInv'
  OBVIOUS
<1>0. ASSUME UNCHANGED <<pc, os_id, locks>>
      PROVE  HInv'
  BY <1>0, LocksRest DEF locks
<1>1. CASE WorldStep
  <2>1. ASSUME NEW t \in Tasks, StopForSignal(t)
        PROVE  UNCHANGED <<pc, os_id, locks>>
    BY <2>1 DEF StopForSignal
  <2>2. ASSUME TracerAbort
        PROVE  UNCHANGED <<pc, os_id, locks>>
    BY <2>2 DEF TracerAbort
  <2> QED
    BY <1>0, <1>1, <2>1, <2>2, ThreadsKeepLocks, OthersKeepIds DEF WorldStep
<1>2. CASE Mutate
  <2>1. ASSUME NEW t \in Threads, NEW c \in Chunks,
               \/ Malloc(t, c) \/ Free(t, c) \/ Load(t, c) \/ StoreGlobal(t, c)
               \/ Forget(t, c) \/ IgnoreObject(t, c)
               \/ \E d \in Chunks : Store(t, c, d)
        PROVE  UNCHANGED <<pc, os_id, locks>>
    BY <2>1, Zenon DEF Malloc, Free, Load, StoreGlobal, Forget, IgnoreObject, Store, Operate
  <2>2. ASSUME NEW p \in Threads, NEW a \in SUBSET Chunks, Create(p, a)
        PROVE  HInv'
    BY <2>2, CloneKeepsIds DEF Create
  <2>3. ASSUME NEW t \in Threads, Start(t) \/ \E r \in SUBSET Chunks : Finish(t, r)
        PROVE  HInv'
    BY <2>3, ThreadsKeepLocks, Zenon DEF Start, Finish
  <2>4. ASSUME NEW p \in Threads, NEW t \in Threads, Join(p, t)
        PROVE  UNCHANGED <<pc, os_id, locks>>
    BY <2>4 DEF Join, world
  <2> QED
    BY <1>0, <1>2, <2>1, <2>2, <2>3, <2>4 DEF Mutate
<1>3. CASE Check
  <2>1. ASSUME NEW t \in Threads, CheckFails(t)
        PROVE  UNCHANGED <<pc, os_id, locks>>
    BY <2>1 DEF CheckFails
  <2> QED
    BY <1>0, <1>3, <2>1, ThreadsKeepLocks DEF Check
<1>4. CASE Trace
  <2>1. UNCHANGED <<pc, os_id, locks>>
    BY <1>4, Zenon DEF Trace, ListThreads, ListIncomplete, ListError, ListDone, ForwardSignal,
       Suspended, WaitpidFails, SuspendAllThreads, TracerDone, Attach, AttachFails,
       ResumeThread, CollectIgnored, ProcessGlobalRegions, ProcessThreads,
       ProcessThreadRegistry, FloodFillTag, MarkIndirectlyLeaked, CollectLeaks,
       ResetTags, EndCallback, world
  <2> QED
    BY <1>0, <2>1
<1>5. CASE CallbackCrashes
  BY <1>0, <1>5 DEF CallbackCrashes, TracerSignal, EndCallback
<1>6. CASE \E t \in Tasks : StopTask(t)
  BY <1>0, <1>6 DEF StopTask, Stop
<1>7. CASE UNCHANGED vars
  BY <1>0, <1>7 DEF vars, world
<1> QED
  BY <1>1, <1>2, <1>3, <1>4, <1>5, <1>6, <1>7 DEF Next

-----------------------------------------------------------------------------
(* The theorem *)

\* Under the callback no thread is in the application's code.
LEMMA NobodyRuns ==
  ASSUME WInv, tpc = "callback", ~troubled, NEW t \in Threads
  PROVE  /\ Running(t) => t \in suspended /\ tr[t] = "stopped"
         /\ ~InUserCode(t)
         /\ registry # None
<1>1. registry # None
  BY NoneApart DEF WInv, ParentSpins
<1>2. Running(t) => t \in suspended /\ tr[t] = "stopped"
  BY DEF WInv, Covered, Stopped, Running
<1>3. InUserCode(t) => Running(t) /\ tr[t] # "stopped"
  BY DEF InUserCode, Executes, Running
<1> QED
  BY <1>1, <1>2, <1>3

\* Nor has any thread been stopped with a lock that the parent of the tracer has.
LEMMA NobodyHolds ==
  ASSUME WInv, HInv, tpc = "callback", NEW t \in Threads
  PROVE  pc[t] \notin {"refill", "dlopen"}
<1>1. registry \in Threads /\ pc[registry] = "spin"
  BY DEF WInv, ParentSpins
<1>2. allocator = registry /\ dl = registry
  BY <1>1 DEF HInv, LocksHeld, AllocatorHolders, LinkerHolders
<1> QED
  BY <1>1, <1>2 DEF HInv, LocksHeld, AllocatorHolders, LinkerHolders

\* Whatever is done while it runs, the heap stays as it is.
LEMMA HeapRests ==
  ASSUME WInv, Next, tpc = "callback", ~troubled
  PROVE  UNCHANGED heap
<1>1. CASE WorldStep
  BY <1>1 DEF WorldStep, leakvars
<1>2. ~Mutate
  <2>1. ASSUME NEW t \in Threads
        PROVE  /\ ~InUserCode(t)
               /\ ~Operate(t) /\ ~FinishThread(t) /\ ~StartThread(t) /\ ~CloneThread(t)
    BY <2>1, NobodyRuns, Zenon DEF Operate, FinishThread, StartThread, CloneThread
  <2>2. ASSUME NEW t \in Threads, NEW c \in Chunks
        PROVE  /\ ~Malloc(t, c) /\ ~Free(t, c) /\ ~Load(t, c) /\ ~StoreGlobal(t, c)
               /\ ~Forget(t, c) /\ ~IgnoreObject(t, c)
               /\ \A d \in Chunks : ~Store(t, c, d)
    BY <2>1, Zenon DEF Malloc, Free, Load, StoreGlobal, Forget, IgnoreObject, Store
  <2>3. \A p \in Threads, a \in SUBSET Chunks : ~Create(p, a)
    BY <2>1, Zenon DEF Create
  <2>4. \A t \in Threads : ~Start(t) /\ \A r \in SUBSET Chunks : ~Finish(t, r)
    BY <2>1, Zenon DEF Start, Finish
  <2>5. \A p, t \in Threads : ~Join(p, t)
    BY <2>1 DEF Join
  <2> QED
    BY <2>2, <2>3, <2>4, <2>5 DEF Mutate
<1>3. CASE Check
  BY <1>3, Zenon DEF Check, CheckFails, Rerun, PrintResults, leakvars
<1>4. CASE Trace
  BY <1>4, Zenon DEF Trace, CollectIgnored, ProcessGlobalRegions, ProcessThreads,
     ProcessThreadRegistry, FloodFillTag, MarkIndirectlyLeaked, CollectLeaks, ResetTags,
     leakvars
<1>5. CASE CallbackCrashes
  BY <1>5 DEF CallbackCrashes
<1>6. CASE \E t \in Tasks : StopTask(t)
  BY <1>6 DEF StopTask, leakvars
<1> QED
  BY <1>1, <1>2, <1>3, <1>4, <1>5, <1>6 DEF Next

\* Once SuspendAllThreads has listed all tasks, CheckForLeaksCallback has the
\* heap for itself until it returns, whatever threads and tasks there are:
\* WorldStands.
THEOREM TheWorldIsStopped == Spec => WorldStands
<1>1. Spec => [](WInv /\ HInv)
  BY WorldInitInv, WorldNextInv, IdsInitInv, IdsNextInv, PTL DEF Spec
<1>2. WInv /\ HInv /\ [Next]_vars
      => [tpc = "callback" /\ tpc' = "callback" /\ ~troubled
          => /\ \A t \in Threads : Running(t) => t \in suspended /\ tr[t] = "stopped"
             /\ \A t \in Threads : pc[t] \notin {"refill", "dlopen"}
             /\ UNCHANGED heap]_vars
  BY NobodyRuns, NobodyHolds, HeapRests
<1> QED
  BY <1>1, <1>2, PTL DEF Spec, WorldStands
-----------------------------------------------------------------------------
(* The inductive invariant of the scan *)

\* Where a thread holds global_mutex.
GlobalHolders ==
  {"fork_threads", "fork_allocator", "fork", "iterate", "lock_threads",
   "lock_allocator", "spawn", "spin", "unlock", "report"}

HoldsGlobal == \A t \in Threads : pc[t] \in GlobalHolders => global = t

LType ==
  /\ alive \in SUBSET Chunks
  /\ tag \in [Chunks -> {"direct", "indirect", "reachable", "ignored"}]
  /\ stage \in {"none", "globals", "threads", "registry", "flood", "collect", "reset"}
  /\ stage # "none" => tpc = "callback"

\* Between two scans a tag says only whether the chunk is to be ignored.
TagsAreReset == \A c \in alive : tag[c] \in {"direct", "ignored"}

\* A chunk that the application has asked to ignore has the tag that says so,
\* unless it is lost; otherwise it has it for its stack.
IgnoredTags ==
  /\ lost \subseteq ignored /\ ignored \subseteq alive
  /\ \A c \in ignored \ lost : tag[c] = "ignored"
  /\ \A c \in alive : tag[c] = "ignored" => \/ c \in ignored \ lost
                                          \/ Stack[c] \in suppressed

\* The callback has crashed: the check fails, and there is none after it.
Doomed ==
  /\ ~success
  /\ global # None
  /\ tpc \in {"none", "resume"}
  /\ \A t \in Threads : pc[t] \notin GlobalHolders \ {"spin", "unlock", "report"}

TagsBetween == stage = "none" => TagsAreReset \/ Doomed

\* The chunks the scan has found.
Marked == {c \in alive : ~Untouched(c)}

\* What has been found is reachable, and all that it points to has been found
\* but for the frontier.
Flood ==
  /\ frontier \subseteq Marked
  /\ Marked \subseteq Reachable(Roots)
  /\ \A d \in Marked : d \in frontier \/ points[d] \cap alive \subseteq Marked

\* The roots that each stage leaves behind have been found.
RootsFound ==
  /\ (ignored \ lost) \cap alive \subseteq Marked
  /\ \A c \in alive : Stack[c] \in suppressed => c \in Marked
  /\ stage # "globals" => globals \cap alive \subseteq Marked
  /\ stage \notin {"globals", "threads"} =>
       \A t \in Threads : Seen(t) => local[t] \cap alive \subseteq Marked
  /\ stage \notin {"globals", "threads", "registry"} =>
       \A t \in Threads : argument[t] \cap alive \subseteq Marked

\* What has not been found is a direct leak until MarkIndirectlyLeaked.
LeakTags ==
  \A c \in alive \ Marked :
    tag[c] = IF /\ stage = "collect"
                /\ \E d \in alive \ Marked : d # c /\ c \in points[d]
             THEN "indirect" ELSE "direct"

Scanning ==
  ~troubled =>
    /\ stage \notin {"none", "reset"} => Flood /\ RootsFound /\ LeakTags
    /\ stage = "collect" => frontier = {}
    /\ stage = "reset" => leaks = Leaks

\* If a report follows without a rerun, suppressed chunks hold none of it.
HeldApart ==
  /\ ~MayHoldLeaks => {l[1] : l \in Unsuppressed} \cap held = {}
  /\ ~gave_up => reported \cap held = {}

LInv == LType /\ HoldsGlobal /\ TagsBetween /\ IgnoredTags /\ Scanning /\ HeldApart

-----------------------------------------------------------------------------
(* Reachability, as the least set of chunks closed under pointers *)

\* A set that holds the roots and what its chunks point to holds all.
LEMMA ReachableLeast ==
  ASSUME NEW from, NEW s \in SUBSET alive, from \cap alive \subseteq s,
         \A d \in s : points[d] \cap alive \subseteq s
  PROVE  Reachable(from) \subseteq s
BY DEF Reachable

\* The roots that are alive are reachable, and nothing dead is.
LEMMA ReachableRoots ==
  ASSUME NEW from
  PROVE  from \cap alive \subseteq Reachable(from) /\ Reachable(from) \subseteq alive
BY DEF Reachable

\* What a reachable chunk points to is reachable.
LEMMA ReachableClosed ==
  ASSUME NEW from, NEW d \in Reachable(from)
  PROVE  points[d] \cap alive \subseteq Reachable(from)
BY DEF Reachable

\* More roots reach more.
LEMMA ReachableFrom ==
  ASSUME NEW from, NEW more, from \cap alive \subseteq Reachable(more)
  PROVE  Reachable(from) \subseteq Reachable(more)
<1>1. Reachable(more) \in SUBSET alive
  BY ReachableRoots
<1>2. \A d \in Reachable(more) : points[d] \cap alive \subseteq Reachable(more)
  BY ReachableClosed
<1> QED
  BY <1>1, <1>2, ReachableLeast

-----------------------------------------------------------------------------
(* global_mutex, and the check that fails *)

\* A thread takes global_mutex when nobody has it, or gives it up, and a check
\* that is doomed stays so unless another one begins.
LEMMA ThreadStep ==
  ASSUME WInv, HoldsGlobal, NEW t \in Threads, NEW b \in Labels,
         pc' = [pc EXCEPT ![t] = b],
         b \in GlobalHolders => global' = t,
         global' = global \/ global = None \/ pc[t] \in GlobalHolders,
         Doomed => /\ b \notin GlobalHolders \ {"spin", "unlock", "report"}
                   /\ UNCHANGED <<success, global, tpc>>
  PROVE  HoldsGlobal' /\ (Doomed => Doomed')
<1>1. t \in Tasks /\ pc'[t] = b /\ \A u \in Threads : u # t => pc'[u] = pc[u]
  BY DEF WInv, WType, Tasks
<1>2. HoldsGlobal'
  BY <1>1, NoneApart, Zenon DEF HoldsGlobal
<1>3. Doomed => Doomed'
  BY <1>1 DEF Doomed
<1> QED
  BY <1>2, <1>3

\* The steps of a thread that leave global_mutex alone.
LEMMA OtherLockSteps ==
  ASSUME WInv, HoldsGlobal, NEW t \in Threads,
         \/ \E u \in Threads : CreateThread(t, u)
         \/ StartThread(t) \/ FinishThread(t)
         \/ Refill(t) \/ RefillDone(t) \/ DlOpen(t) \/ DlOpenDone(t)
  PROVE  HoldsGlobal' /\ (Doomed => Doomed')
<1> DEFINE Walks(b) == /\ pc' = [pc EXCEPT ![t] = b]
                      /\ UNCHANGED <<global, success, tpc>>
<1>1. ASSUME NEW u \in Threads, CreateThread(t, u)
      PROVE  Walks("create")
  BY <1>1 DEF CreateThread, InUserCode, Goto, locks, outcome, tracer
<1>2. ASSUME StartThread(t)
      PROVE  Walks("user")
  BY <1>2 DEF StartThread, At, Goto, locks, outcome, tracer
<1>3. ASSUME FinishThread(t)
      PROVE  Walks("exit")
  BY <1>3 DEF FinishThread, InUserCode, Goto, locks, outcome, tracer
<1>4. ASSUME Refill(t)
      PROVE  Walks("refill")
  BY <1>4 DEF Refill, InUserCode, Goto, outcome, tracer
<1>5. ASSUME RefillDone(t)
      PROVE  Walks("user")
  BY <1>5 DEF RefillDone, At, Goto, outcome, tracer
<1>6. ASSUME DlOpen(t)
      PROVE  Walks("dlopen")
  BY <1>6 DEF DlOpen, InUserCode, Goto, outcome, tracer
<1>7. ASSUME DlOpenDone(t)
      PROVE  Walks("user")
  BY <1>7 DEF DlOpenDone, At, Goto, outcome, tracer
<1>8. ASSUME NEW b \in {"create", "user", "exit", "refill", "dlopen"}, Walks(b)
      PROVE  HoldsGlobal' /\ (Doomed => Doomed')
  <2>1. b \in Labels /\ b \notin GlobalHolders
    BY DEF Labels, GlobalHolders
  <2> QED
    BY <1>8, <2>1, ThreadStep, Zenon
<1> HIDE DEF Walks
<1> QED
  BY <1>1, <1>2, <1>3, <1>4, <1>5, <1>6, <1>7, <1>8

\* The steps of a thread that takes, holds or releases global_mutex.
LEMMA GlobalLockSteps ==
  ASSUME WInv, HoldsGlobal, NEW t \in Threads,
         \/ ForkLockGlobal(t) \/ ForkLockThreads(t) \/ ForkLockAllocator(t)
         \/ AfterFork(t) \/ CheckForLeaks(t) \/ DlIterate(t) \/ LockThreads(t)
         \/ LockAllocator(t) \/ SpawnTracer(t) \/ SpawnFails(t) \/ SpinEnds(t)
         \/ Unlock(t) \/ Rerun(t) \/ PrintResults(t)
  PROVE  HoldsGlobal' /\ (Doomed => Doomed')
<1>0. t \in Tasks /\ (pc[t] \in GlobalHolders => global = t)
  BY DEF HoldsGlobal, Tasks
<1>1. ASSUME ForkLockGlobal(t)
      PROVE  HoldsGlobal' /\ (Doomed => Doomed')
  <2>1. /\ pc' = [pc EXCEPT ![t] = "fork_threads"]
        /\ "fork_threads" \in GlobalHolders => global' = t
        /\ global' = global \/ global = None \/ pc[t] \in GlobalHolders
    BY <1>0, <1>1 DEF ForkLockGlobal, InUserCode, Goto, locks, GlobalHolders
  <2>2. Doomed => /\ "fork_threads" \notin GlobalHolders \ {"spin", "unlock", "report"}
                  /\ UNCHANGED <<success, global, tpc>>
    BY <1>1 DEF ForkLockGlobal, InUserCode, Goto, locks, tracer, outcome, Doomed, GlobalHolders
  <2>3. "fork_threads" \in Labels
    BY DEF Labels
  <2> QED
    BY <2>1, <2>2, <2>3, ThreadStep, Zenon
<1>2. ASSUME ForkLockThreads(t)
      PROVE  HoldsGlobal' /\ (Doomed => Doomed')
  <2>1. /\ pc' = [pc EXCEPT ![t] = "fork_allocator"]
        /\ "fork_allocator" \in GlobalHolders => global' = t
        /\ global' = global \/ global = None \/ pc[t] \in GlobalHolders
    BY <1>0, <1>2 DEF ForkLockThreads, At, Goto, locks, GlobalHolders
  <2>2. Doomed => /\ "fork_allocator" \notin GlobalHolders \ {"spin", "unlock", "report"}
                  /\ UNCHANGED <<success, global, tpc>>
    BY <1>2 DEF ForkLockThreads, At, Goto, locks, tracer, outcome, Doomed, GlobalHolders
  <2>3. "fork_allocator" \in Labels
    BY DEF Labels
  <2> QED
    BY <2>1, <2>2, <2>3, ThreadStep, Zenon
<1>3. ASSUME ForkLockAllocator(t)
      PROVE  HoldsGlobal' /\ (Doomed => Doomed')
  <2>1. /\ pc' = [pc EXCEPT ![t] = "fork"]
        /\ "fork" \in GlobalHolders => global' = t
        /\ global' = global \/ global = None \/ pc[t] \in GlobalHolders
    BY <1>0, <1>3 DEF ForkLockAllocator, At, Goto, locks, GlobalHolders
  <2>2. Doomed => /\ "fork" \notin GlobalHolders \ {"spin", "unlock", "report"}
                  /\ UNCHANGED <<success, global, tpc>>
    BY <1>3 DEF ForkLockAllocator, At, Goto, locks, tracer, outcome, Doomed, GlobalHolders
  <2>3. "fork" \in Labels
    BY DEF Labels
  <2> QED
    BY <2>1, <2>2, <2>3, ThreadStep, Zenon
<1>4. ASSUME AfterFork(t)
      PROVE  HoldsGlobal' /\ (Doomed => Doomed')
  <2>1. /\ pc' = [pc EXCEPT ![t] = "user"]
        /\ "user" \in GlobalHolders => global' = t
        /\ global' = global \/ global = None \/ pc[t] \in GlobalHolders
    BY <1>0, <1>4 DEF AfterFork, At, Goto, locks, GlobalHolders
  <2>2. Doomed => /\ "user" \notin GlobalHolders \ {"spin", "unlock", "report"}
                  /\ UNCHANGED <<success, global, tpc>>
    BY <1>4 DEF AfterFork, At, Goto, locks, tracer, outcome, Doomed, GlobalHolders
  <2>3. "user" \in Labels
    BY DEF Labels
  <2> QED
    BY <2>1, <2>2, <2>3, ThreadStep, Zenon
<1>5. ASSUME CheckForLeaks(t)
      PROVE  HoldsGlobal' /\ (Doomed => Doomed')
  <2>1. /\ pc' = [pc EXCEPT ![t] = "iterate"]
        /\ "iterate" \in GlobalHolders => global' = t
        /\ global' = global \/ global = None \/ pc[t] \in GlobalHolders
    BY <1>0, <1>5 DEF CheckForLeaks, InUserCode, Goto, locks, GlobalHolders
  <2>2. Doomed => /\ "iterate" \notin GlobalHolders \ {"spin", "unlock", "report"}
                  /\ UNCHANGED <<success, global, tpc>>
    BY <1>5 DEF CheckForLeaks, InUserCode, Goto, locks, tracer, outcome, Doomed, GlobalHolders
  <2>3. "iterate" \in Labels
    BY DEF Labels
  <2> QED
    BY <2>1, <2>2, <2>3, ThreadStep, Zenon
<1>6. ASSUME DlIterate(t)
      PROVE  HoldsGlobal' /\ (Doomed => Doomed')
  <2>1. /\ pc' = [pc EXCEPT ![t] = "lock_threads"]
        /\ "lock_threads" \in GlobalHolders => global' = t
        /\ global' = global \/ global = None \/ pc[t] \in GlobalHolders
    BY <1>0, <1>6 DEF DlIterate, At, Goto, locks, GlobalHolders
  <2>2. Doomed => /\ "lock_threads" \notin GlobalHolders \ {"spin", "unlock", "report"}
                  /\ UNCHANGED <<success, global, tpc>>
    BY <1>6 DEF DlIterate, At, Goto, locks, tracer, outcome, Doomed, GlobalHolders
  <2>3. "lock_threads" \in Labels
    BY DEF Labels
  <2> QED
    BY <2>1, <2>2, <2>3, ThreadStep, Zenon
<1>7. ASSUME LockThreads(t)
      PROVE  HoldsGlobal' /\ (Doomed => Doomed')
  <2>1. /\ pc' = [pc EXCEPT ![t] = "lock_allocator"]
        /\ "lock_allocator" \in GlobalHolders => global' = t
        /\ global' = global \/ global = None \/ pc[t] \in GlobalHolders
    BY <1>0, <1>7 DEF LockThreads, At, Goto, locks, GlobalHolders
  <2>2. Doomed => /\ "lock_allocator" \notin GlobalHolders \ {"spin", "unlock", "report"}
                  /\ UNCHANGED <<success, global, tpc>>
    BY <1>7 DEF LockThreads, At, Goto, locks, tracer, outcome, Doomed, GlobalHolders
  <2>3. "lock_allocator" \in Labels
    BY DEF Labels
  <2> QED
    BY <2>1, <2>2, <2>3, ThreadStep, Zenon
<1>8. ASSUME LockAllocator(t)
      PROVE  HoldsGlobal' /\ (Doomed => Doomed')
  <2>1. /\ pc' = [pc EXCEPT ![t] = "spawn"]
        /\ "spawn" \in GlobalHolders => global' = t
        /\ global' = global \/ global = None \/ pc[t] \in GlobalHolders
    BY <1>0, <1>8 DEF LockAllocator, At, Goto, locks, GlobalHolders
  <2>2. Doomed => /\ "spawn" \notin GlobalHolders \ {"spin", "unlock", "report"}
                  /\ UNCHANGED <<success, global, tpc>>
    BY <1>8 DEF LockAllocator, At, Goto, locks, tracer, outcome, Doomed, GlobalHolders
  <2>3. "spawn" \in Labels
    BY DEF Labels
  <2> QED
    BY <2>1, <2>2, <2>3, ThreadStep, Zenon
<1>9. ASSUME SpawnTracer(t)
      PROVE  HoldsGlobal' /\ (Doomed => Doomed')
  <2>1. /\ pc' = [pc EXCEPT ![t] = "spin"]
        /\ "spin" \in GlobalHolders => global' = t
        /\ global' = global \/ global = None \/ pc[t] \in GlobalHolders
    BY <1>0, <1>9 DEF SpawnTracer, At, Goto, locks, GlobalHolders
  <2>2. Doomed => /\ "spin" \notin GlobalHolders \ {"spin", "unlock", "report"}
                  /\ UNCHANGED <<success, global, tpc>>
    BY <1>9 DEF SpawnTracer, At, Goto, locks, tracer, outcome, Doomed, GlobalHolders
  <2>3. "spin" \in Labels
    BY DEF Labels
  <2> QED
    BY <2>1, <2>2, <2>3, ThreadStep, Zenon
<1>10. ASSUME SpawnFails(t)
      PROVE  HoldsGlobal' /\ (Doomed => Doomed')
  <2>1. /\ pc' = [pc EXCEPT ![t] = "unlock"]
        /\ "unlock" \in GlobalHolders => global' = t
        /\ global' = global \/ global = None \/ pc[t] \in GlobalHolders
    BY <1>0, <1>10 DEF SpawnFails, At, Goto, locks, GlobalHolders
  <2>2. Doomed => /\ "unlock" \notin GlobalHolders \ {"spin", "unlock", "report"}
                  /\ UNCHANGED <<success, global, tpc>>
    BY <1>10 DEF SpawnFails, At, Goto, locks, tracer, outcome, Doomed, GlobalHolders
  <2>3. "unlock" \in Labels
    BY DEF Labels
  <2> QED
    BY <2>1, <2>2, <2>3, ThreadStep, Zenon
<1>11. ASSUME SpinEnds(t)
      PROVE  HoldsGlobal' /\ (Doomed => Doomed')
  <2>1. /\ pc' = [pc EXCEPT ![t] = "unlock"]
        /\ "unlock" \in GlobalHolders => global' = t
        /\ global' = global \/ global = None \/ pc[t] \in GlobalHolders
    BY <1>0, <1>11 DEF SpinEnds, At, Goto, locks, GlobalHolders
  <2>2. Doomed => /\ "unlock" \notin GlobalHolders \ {"spin", "unlock", "report"}
                  /\ UNCHANGED <<success, global, tpc>>
    BY <1>11 DEF SpinEnds, At, Goto, locks, tracer, outcome, Doomed, GlobalHolders
  <2>3. "unlock" \in Labels
    BY DEF Labels
  <2> QED
    BY <2>1, <2>2, <2>3, ThreadStep, Zenon
<1>12. ASSUME Unlock(t)
      PROVE  HoldsGlobal' /\ (Doomed => Doomed')
  <2>1. /\ pc' = [pc EXCEPT ![t] = "report"]
        /\ "report" \in GlobalHolders => global' = t
        /\ global' = global \/ global = None \/ pc[t] \in GlobalHolders
    BY <1>0, <1>12 DEF Unlock, At, Goto, locks, GlobalHolders
  <2>2. Doomed => /\ "report" \notin GlobalHolders \ {"spin", "unlock", "report"}
                  /\ UNCHANGED <<success, global, tpc>>
    BY <1>12 DEF Unlock, At, Goto, locks, tracer, outcome, Doomed, GlobalHolders
  <2>3. "report" \in Labels
    BY DEF Labels
  <2> QED
    BY <2>1, <2>2, <2>3, ThreadStep, Zenon
<1>13. ASSUME Rerun(t)
      PROVE  HoldsGlobal' /\ (Doomed => Doomed')
  <2>1. /\ pc' = [pc EXCEPT ![t] = "iterate"]
        /\ "iterate" \in GlobalHolders => global' = t
        /\ global' = global \/ global = None \/ pc[t] \in GlobalHolders
    BY <1>0, <1>13 DEF Rerun, At, Goto, locks, GlobalHolders
  <2>2. Doomed => /\ "iterate" \notin GlobalHolders \ {"spin", "unlock", "report"}
                  /\ UNCHANGED <<success, global, tpc>>
    BY <1>13 DEF Rerun, At, Goto, locks, tracer, outcome, Doomed, GlobalHolders
  <2>3. "iterate" \in Labels
    BY DEF Labels
  <2> QED
    BY <2>1, <2>2, <2>3, ThreadStep, Zenon
<1>14. ASSUME PrintResults(t)
      PROVE  HoldsGlobal' /\ (Doomed => Doomed')
  <2>1. /\ pc' = [pc EXCEPT ![t] = "user"]
        /\ "user" \in GlobalHolders => global' = t
        /\ global' = global \/ global = None \/ pc[t] \in GlobalHolders
    BY <1>0, <1>14, Zenon DEF PrintResults, At, Goto, locks, GlobalHolders
  <2>2. Doomed => /\ "user" \notin GlobalHolders \ {"spin", "unlock", "report"}
                  /\ UNCHANGED <<success, global, tpc>>
    BY <1>14, Zenon DEF PrintResults, At, Goto, locks, tracer, outcome, Doomed, GlobalHolders
  <2>3. "user" \in Labels
    BY DEF Labels
  <2> QED
    BY <2>1, <2>2, <2>3, ThreadStep, Zenon
<1> QED
  BY <1>1, <1>2, <1>3, <1>4, <1>5, <1>6, <1>7, <1>8, <1>9, <1>10, <1>11, <1>12, <1>13, <1>14

\* Steps of the tracer, of the kernel and of the heap.
LEMMA TracerGlobal ==
  ASSUME HoldsGlobal, UNCHANGED <<pc, global>>,
         Doomed => success' = success /\ tpc' \in {"none", "resume"}
  PROVE  HoldsGlobal' /\ (Doomed => Doomed')
BY DEF HoldsGlobal, Doomed

\* Threads come and go.
LEMMA BirthAndDeath ==
  ASSUME WInv, HoldsGlobal, UNCHANGED <<global, success, tpc>>,
         \A u \in Threads : pc'[u] = pc[u] \/ pc'[u] \in {"user", "born", "dead"}
  PROVE  HoldsGlobal' /\ (Doomed => Doomed')
BY DEF HoldsGlobal, Doomed, GlobalHolders

\* CloneThread, CloneForeign and Exit are such steps.
LEMMA CloneAndExit ==
  ASSUME WInv, HoldsGlobal,
         \/ \E p \in Threads : CloneThread(p)
         \/ \E p \in Tasks, f \in Foreign : CloneForeign(p, f)
         \/ \E t \in Tasks : Exit(t)
  PROVE  HoldsGlobal' /\ (Doomed => Doomed')
<1>0. pc \in [Tasks -> Labels] /\ making \in [Threads -> Threads \cup {None}]
  BY DEF WInv, WType
<1>1. ASSUME NEW p \in Threads, CloneThread(p)
      PROVE  /\ UNCHANGED <<global, success, tpc>>
             /\ \A u \in Threads : pc'[u] = pc[u] \/ pc'[u] \in {"user", "born", "dead"}
  BY <1>0, <1>1 DEF CloneThread, locks, outcome, tracer, Tasks
<1>2. ASSUME NEW p \in Tasks, NEW f \in Foreign, CloneForeign(p, f)
      PROVE  /\ UNCHANGED <<global, success, tpc>>
             /\ \A u \in Threads : pc'[u] = pc[u] \/ pc'[u] \in {"user", "born", "dead"}
  BY <1>0, <1>2, WorldAssumption DEF CloneForeign, Goto, locks, outcome, tracer, Tasks
<1>3. ASSUME NEW t \in Tasks, Exit(t)
      PROVE  /\ UNCHANGED <<global, success, tpc>>
             /\ \A u \in Threads : pc'[u] = pc[u] \/ pc'[u] \in {"user", "born", "dead"}
  BY <1>0, <1>3 DEF Exit, Goto, locks, outcome, tracer, Tasks
<1> QED
  BY <1>1, <1>2, <1>3, BirthAndDeath, Zenon

\* global_mutex has one holder after every step, and a doomed check stays so.
LEMMA GlobalStep ==
  ASSUME WInv, HoldsGlobal, [Next]_vars
  PROVE  HoldsGlobal' /\ (Doomed => Doomed')
<1>1. CASE WorldStep
  <2>1. ASSUME NEW t \in Tasks, StopForSignal(t)
        PROVE  UNCHANGED <<pc, global, success, tpc>>
    BY <2>1 DEF StopForSignal, locks, outcome, tracer
  <2>2. ASSUME TracerAbort
        PROVE  UNCHANGED <<pc, global, success, tpc>>
    BY <2>2 DEF TracerAbort, locks, tracer
  <2>3. ASSUME UNCHANGED <<pc, global, success, tpc>>
        PROVE  HoldsGlobal' /\ (Doomed => Doomed')
    BY <2>3, TracerGlobal DEF Doomed
  <2> QED
    BY <1>1, <2>1, <2>2, <2>3, OtherLockSteps, GlobalLockSteps, CloneAndExit
    DEF WorldStep
<1>2. CASE Mutate
  <2>1. ASSUME NEW t \in Threads, Operate(t)
        PROVE  HoldsGlobal' /\ (Doomed => Doomed')
    <3>1. UNCHANGED <<pc, global, success, tpc>>
      BY <2>1 DEF Operate, locks, outcome, tracer
    <3> QED
      BY <3>1, TracerGlobal DEF Doomed
  <2>2. ASSUME NEW t \in Threads, NEW c \in Chunks,
               \/ Malloc(t, c) \/ Free(t, c) \/ Load(t, c) \/ StoreGlobal(t, c)
               \/ Forget(t, c) \/ IgnoreObject(t, c)
               \/ \E d \in Chunks : Store(t, c, d)
        PROVE  Operate(t)
    BY <2>2, Zenon DEF Malloc, Free, Load, StoreGlobal, Forget, IgnoreObject, Store
  <2>3. ASSUME NEW p \in Threads, NEW a \in SUBSET Chunks, Create(p, a)
        PROVE  HoldsGlobal' /\ (Doomed => Doomed')
    BY <2>3, CloneAndExit, Zenon DEF Create
  <2>4. ASSUME NEW t \in Threads, Start(t) \/ \E r \in SUBSET Chunks : Finish(t, r)
        PROVE  HoldsGlobal' /\ (Doomed => Doomed')
    BY <2>4, OtherLockSteps, Zenon DEF Start, Finish
  <2>5. ASSUME NEW p \in Threads, NEW t \in Threads, Join(p, t)
        PROVE  HoldsGlobal' /\ (Doomed => Doomed')
    <3>1. UNCHANGED <<pc, global, success, tpc>>
      BY <2>5 DEF Join, world, locks, outcome, tracer
    <3> QED
      BY <3>1, TracerGlobal DEF Doomed
  <2> QED
    BY <1>2, <2>1, <2>2, <2>3, <2>4, <2>5 DEF Mutate
<1>3. CASE Check
  <2>1. ASSUME NEW t \in Threads, CheckFails(t)
        PROVE  HoldsGlobal' /\ (Doomed => Doomed')
    <3>1. UNCHANGED <<pc, global, success, tpc>>
      BY <2>1 DEF CheckFails, locks, tracer
    <3> QED
      BY <3>1, TracerGlobal DEF Doomed
  <2> QED
    BY <1>3, <2>1, GlobalLockSteps DEF Check
<1>4. CASE Trace
  <2>1. UNCHANGED <<pc, global>>
    BY <1>4, Zenon DEF Trace, ListThreads, ListIncomplete, ListError, ListDone, ForwardSignal,
       Suspended, WaitpidFails, SuspendAllThreads, TracerDone, Attach, AttachFails,
       ResumeThread, CollectIgnored, ProcessGlobalRegions, ProcessThreads, ProcessThreadRegistry,
       FloodFillTag, MarkIndirectlyLeaked, CollectLeaks, ResetTags, EndCallback, world,
       locks
  <2>2. Doomed => success' = success /\ tpc' \in {"none", "resume"}
    <3>1. CASE \/ ListThreads \/ ListIncomplete \/ ListError \/ ListDone \/ ForwardSignal
               \/ Suspended \/ WaitpidFails \/ SuspendAllThreads \/ TracerDone
      BY <3>1, Zenon DEF ListThreads, ListIncomplete, List, ListError, ListDone, ForwardSignal,
         Suspended, WaitpidFails, SuspendAllThreads, TracerDone, TracerGoto, outcome, Doomed
    <3>2. CASE \E t \in Tasks : Attach(t) \/ AttachFails(t) \/ ResumeThread(t)
      BY <3>2, Zenon DEF Attach, AttachFails, ResumeThread, outcome, Doomed
    <3>3. CASE \/ CollectIgnored \/ ProcessGlobalRegions \/ ProcessThreads
               \/ ProcessThreadRegistry \/ MarkIndirectlyLeaked \/ CollectLeaks
               \/ ResetTags \/ \E c \in Chunks : FloodFillTag(c)
      BY <3>3, Zenon DEF CollectIgnored, ProcessGlobalRegions, ProcessThreads, InCallback,
         ProcessThreadRegistry, MarkIndirectlyLeaked, CollectLeaks, ResetTags,
         EndCallback, FloodFillTag, Doomed
    <3> QED
      BY <1>4, <3>1, <3>2, <3>3 DEF Trace
  <2> QED
    BY <2>1, <2>2, TracerGlobal
<1>5. CASE CallbackCrashes
  <2>1. UNCHANGED <<pc, global>> /\ ~Doomed
    BY <1>5 DEF CallbackCrashes, TracerSignal, EndCallback, locks, Doomed
  <2> QED
    BY <2>1, TracerGlobal
<1>6. ASSUME NEW t \in Tasks, StopTask(t)
      PROVE  HoldsGlobal' /\ (Doomed => Doomed')
  <2>1. UNCHANGED <<pc, global, success, tpc>>
    BY <1>6 DEF StopTask, Stop, locks, outcome, tracer
  <2> QED
    BY <2>1, TracerGlobal DEF Doomed
<1>7. CASE UNCHANGED vars
  <2>1. UNCHANGED <<pc, global, success, tpc>>
    BY <1>7 DEF vars, world, locks, outcome, tracer
  <2> QED
    BY <2>1, TracerGlobal DEF Doomed
<1> QED
  BY <1>1, <1>2, <1>3, <1>4, <1>5, <1>6, <1>7 DEF Next

-----------------------------------------------------------------------------
(* What may happen during the callback *)

\* Only the callback itself, or its crash, ends the callback.
LEMMA CallbackGoesOn ==
  ASSUME WInv, [Next]_vars, tpc = "callback"
  PROVE  ResetTags \/ CallbackCrashes \/ UNCHANGED <<tpc, troubled>>
<1>1. CASE WorldStep
  <2>1. UNCHANGED tracer
    BY <1>1, Zenon DEF WorldStep, CreateThread, CloneForeign, Exit, Refill, RefillDone, DlOpen,
       DlOpenDone, ForkLockGlobal, ForkLockThreads, ForkLockAllocator, AfterFork,
       CheckForLeaks, StopForSignal, TracerAbort
  <2> QED
    BY <2>1 DEF tracer
<1>2. CASE Mutate
  <2>1. ASSUME NEW t \in Threads, NEW c \in Chunks,
               \/ Malloc(t, c) \/ Free(t, c) \/ Load(t, c) \/ StoreGlobal(t, c)
               \/ Forget(t, c) \/ IgnoreObject(t, c)
               \/ \E d \in Chunks : Store(t, c, d)
        PROVE  UNCHANGED tracer
    BY <2>1, Zenon DEF Malloc, Free, Load, StoreGlobal, Forget, IgnoreObject, Store, Operate
  <2>2. ASSUME NEW p \in Threads, NEW a \in SUBSET Chunks, Create(p, a)
        PROVE  UNCHANGED tracer
    BY <2>2, Zenon DEF Create, CloneThread
  <2>3. ASSUME NEW t \in Threads, Start(t) \/ \E r \in SUBSET Chunks : Finish(t, r)
        PROVE  UNCHANGED tracer
    BY <2>3, Zenon DEF Start, StartThread, Finish, FinishThread
  <2>4. ASSUME NEW p \in Threads, NEW t \in Threads, Join(p, t)
        PROVE  UNCHANGED tracer
    BY <2>4 DEF Join, world
  <2>5. UNCHANGED tracer
    BY <1>2, <2>1, <2>2, <2>3, <2>4 DEF Mutate
  <2> QED
    BY <2>5 DEF tracer
<1>3. CASE Check
  <2>1. ASSUME NEW t \in Threads
        PROVE  ~SpawnTracer(t)
    BY DEF SpawnTracer, At, WInv, HoldsRegistry, Holders, ParentSpins
  <2>2. UNCHANGED tracer
    BY <1>3, <2>1, Zenon DEF Check, DlIterate, LockThreads, LockAllocator, SpawnFails, SpinEnds,
       Unlock, CheckFails, Rerun, PrintResults
  <2> QED
    BY <2>2 DEF tracer
<1>4. CASE Trace
  <2>1. /\ ~ListThreads /\ ~ListIncomplete /\ ~ListError /\ ~ListDone /\ ~ForwardSignal
        /\ ~Suspended /\ ~WaitpidFails /\ ~SuspendAllThreads /\ ~TracerDone
        /\ \A t \in Tasks : ~Attach(t) /\ ~AttachFails(t) /\ ~ResumeThread(t)
    BY Zenon DEF ListThreads, ListIncomplete, List, ListError, ListDone, ForwardSignal,
       Suspended, WaitpidFails, SuspendAllThreads, TracerDone, Attach, AttachFails, ResumeThread
  <2>2. ResetTags \/ UNCHANGED world
    BY <1>4, <2>1, Zenon DEF Trace, CollectIgnored, ProcessGlobalRegions, ProcessThreads,
       ProcessThreadRegistry, FloodFillTag, MarkIndirectlyLeaked, CollectLeaks
  <2> QED
    BY <2>2 DEF world, tracer
<1>5. CASE CallbackCrashes
  BY <1>5
<1>6. CASE \E t \in Tasks : StopTask(t)
  BY <1>6 DEF StopTask, Stop, tracer
<1>7. CASE UNCHANGED vars
  BY <1>7 DEF vars, world, tracer
<1> QED
  BY <1>1, <1>2, <1>3, <1>4, <1>5, <1>6, <1>7 DEF Next

\* A thread that executes during the callback has not started or is about to end.
LEMMA OutsidersExecute ==
  ASSUME WInv, tpc = "callback", ~troubled, NEW t \in Threads, Executes(t)
  PROVE  pc[t] \in Outside /\ ~Running(t)
<1>1. ~Running(t)
  BY NobodyRuns DEF Executes
<1> QED
  BY <1>1 DEF Running, Outside

\* A thread starts and finishes only outside this step, and keeps its id.
ThreadsRest ==
  /\ os_id' = os_id
  /\ \A u \in Threads : /\ Running(u)' <=> Running(u)
                        /\ pc'[u] \in {"exit", "dead"} <=> pc[u] \in {"exit", "dead"}

\* Then the same threads are hidden.
LEMMA SeenRests ==
  ASSUME ThreadsRest
  PROVE  \A u \in Threads : Seen(u)' <=> Seen(u)
<1>1. \A u \in Threads : Hidden(u)' <=> Hidden(u)
  BY DEF ThreadsRest, Hidden
<1> QED
  BY <1>1 DEF ThreadsRest, Seen

\* So it is when the world stands still.
LEMMA WorldRests ==
  ASSUME UNCHANGED <<pc, os_id>>
  PROVE  ThreadsRest /\ \A u \in Threads : Seen(u)' <=> Seen(u)
BY SeenRests DEF ThreadsRest, Running

\* During the callback no thread starts or finishes.
LEMMA RunningRests ==
  ASSUME WInv, [Next]_vars, tpc = "callback", ~troubled
  PROVE  ThreadsRest
<1>0. pc \in [Tasks -> Labels]
  BY DEF WInv, WType
<1>1. CASE WorldStep
  <2>1. ASSUME NEW t \in Threads
        PROVE  /\ ~\E u \in Threads : CreateThread(t, u)
               /\ ~Refill(t) /\ ~RefillDone(t) /\ ~DlOpen(t) /\ ~DlOpenDone(t)
               /\ ~ForkLockGlobal(t) /\ ~ForkLockThreads(t) /\ ~ForkLockAllocator(t)
               /\ ~AfterFork(t) /\ ~CheckForLeaks(t)
    BY OutsidersExecute, Zenon DEF CreateThread, Refill, RefillDone, DlOpen, DlOpenDone,
       ForkLockGlobal, ForkLockThreads, ForkLockAllocator, AfterFork, CheckForLeaks,
       InUserCode, At, Outside
  <2>2. ASSUME NEW p \in Tasks, NEW f \in Foreign, CloneForeign(p, f)
        PROVE  ThreadsRest
    <3>1. os_id' = os_id /\ \A u \in Threads : pc'[u] = pc[u]
      BY <1>0, <2>2, WorldAssumption DEF CloneForeign, Goto, Tasks
    <3> QED
      BY <3>1 DEF ThreadsRest, Running
  <2>3. ASSUME NEW t \in Tasks, Exit(t)
        PROVE  ThreadsRest
    <3>1. /\ pc[t] \in {"exit", "foreign"} /\ os_id' = os_id
          /\ pc' = [pc EXCEPT ![t] = "dead"]
      BY <2>3 DEF Exit, At, Goto
    <3>2. t \in Threads => pc[t] = "exit"
      BY <3>1 DEF WInv, WType
    <3> QED
      BY <1>0, <3>1, <3>2 DEF ThreadsRest, Running, Tasks
  <2>4. ASSUME NEW t \in Tasks, StopForSignal(t)
        PROVE  ThreadsRest
    BY <2>4, WorldRests DEF StopForSignal
  <2>5. ASSUME TracerAbort
        PROVE  ThreadsRest
    BY <2>5, WorldRests DEF TracerAbort
  <2> QED
    BY <1>1, <2>1, <2>2, <2>3, <2>4, <2>5 DEF WorldStep
<1>2. CASE Mutate
  <2>1. ASSUME NEW t \in Threads
        PROVE  /\ ~InUserCode(t)
               /\ ~Operate(t) /\ ~FinishThread(t) /\ ~StartThread(t) /\ ~CloneThread(t)
    BY <2>1, NobodyRuns, Zenon DEF Operate, FinishThread, StartThread, CloneThread
  <2> QED
    BY <1>2, <2>1, Zenon DEF Mutate, Malloc, Free, Load, StoreGlobal, Forget, IgnoreObject,
       Store, Create, Start, Finish, Join
<1>3. CASE Check
  <2>1. ASSUME NEW t \in Threads
        PROVE  /\ ~DlIterate(t) /\ ~LockThreads(t) /\ ~LockAllocator(t)
               /\ ~SpawnTracer(t) /\ ~SpawnFails(t) /\ ~SpinEnds(t) /\ ~Unlock(t)
               /\ ~CheckFails(t) /\ ~Rerun(t) /\ ~PrintResults(t)
    BY OutsidersExecute, Zenon DEF DlIterate, LockThreads, LockAllocator, SpawnTracer,
       SpawnFails, SpinEnds, Unlock, CheckFails, Rerun, PrintResults, At, Outside
  <2> QED
    BY <1>3, <2>1 DEF Check
<1>4. CASE Trace
  <2>1. UNCHANGED <<pc, os_id>>
    BY <1>4, Zenon DEF Trace, ListThreads, ListIncomplete, ListError, ListDone, ForwardSignal,
       Suspended, WaitpidFails, SuspendAllThreads, TracerDone, Attach, AttachFails,
       ResumeThread, CollectIgnored, ProcessGlobalRegions, ProcessThreads, ProcessThreadRegistry,
       FloodFillTag, MarkIndirectlyLeaked, CollectLeaks, ResetTags, EndCallback, world
  <2> QED
    BY <2>1, WorldRests
<1>5. CASE CallbackCrashes
  BY <1>5, WorldRests DEF CallbackCrashes, TracerSignal, EndCallback
<1>6. CASE \E t \in Tasks : StopTask(t)
  BY <1>6, WorldRests DEF StopTask, Stop
<1>7. CASE UNCHANGED vars
  BY <1>7, WorldRests DEF vars, world
<1> QED
  BY <1>1, <1>2, <1>3, <1>4, <1>5, <1>6, <1>7 DEF Next

-----------------------------------------------------------------------------
(* The scan *)

\* The definition of a leak depends on the heap, the chunks to be ignored, the
\* suppressions and the threads that are seen.
LEMMA LeaksRest ==
  ASSUME UNCHANGED <<heap, ignored, lost, suppressed>>,
         \A u \in Threads : Seen(u)' <=> Seen(u)
  PROVE  /\ Roots' = Roots
         /\ Reachable(Roots)' = Reachable(Roots)
         /\ Leaks' = Leaks
<1>1. UNCHANGED <<alive, points, globals, local, argument, ignored, lost, suppressed>>
  BY DEF heap
<1>2. {u \in Threads : Seen(u)}' = {u \in Threads : Seen(u)}
  OBVIOUS
<1>3. Roots' = Roots
  BY <1>1, <1>2, Zenon DEF Roots
<1>4. Reachable(Roots)' = Reachable(Roots)
  BY <1>1, <1>3 DEF Reachable
<1>5. Leaks' = Leaks
  BY <1>1, <1>4, Zenon DEF Leaks, Leaked
<1> QED
  BY <1>3, <1>4, <1>5

\* The roots, one by one.
LEMMA RootsAre ==
  ASSUME NEW x
  PROVE  x \in Roots <=> \/ x \in globals \/ x \in ignored \ lost
                         \/ x \in alive /\ Stack[x] \in suppressed
                         \/ \E t \in Threads : x \in argument[t]
                         \/ \E t \in Threads : Seen(t) /\ x \in local[t]
<1> DEFINE seen == {u \in Threads : Seen(u)}
           stacks == {local[t] : t \in seen}
           arguments == {argument[t] : t \in Threads}
           matched == {c \in alive : Stack[c] \in suppressed}
<1>1. Roots = globals \cup (ignored \ lost) \cup matched \cup (UNION arguments)
                \cup (UNION stacks)
  BY DEF Roots
<1>2. x \in UNION arguments <=> \E t \in Threads : x \in argument[t]
  BY Zenon
<1>3. x \in matched <=> x \in alive /\ Stack[x] \in suppressed
  OBVIOUS
<1> HIDE DEF stacks, arguments, matched
<1>4. x \in UNION stacks <=> \E t \in seen : x \in local[t]
  BY DEF stacks
<1>5. (\E t \in seen : x \in local[t]) <=> \E t \in Threads : Seen(t) /\ x \in local[t]
  OBVIOUS
<1> HIDE DEF seen
<1> QED
  BY <1>1, <1>2, <1>3, <1>4, <1>5

\* Each kind of root is a root.
LEMMA KindsOfRoots ==
  /\ (ignored \ lost) \cap alive \subseteq Reachable(Roots)
  /\ \A c \in alive : Stack[c] \in suppressed => c \in Reachable(Roots)
  /\ globals \cap alive \subseteq Reachable(Roots)
  /\ \A t \in Threads : Seen(t) => local[t] \cap alive \subseteq Reachable(Roots)
  /\ \A t \in Threads : argument[t] \cap alive \subseteq Reachable(Roots)
<1>1. Roots \cap alive \subseteq Reachable(Roots)
  BY ReachableRoots
<1> QED
  BY <1>1, RootsAre

\* Retag marks what is found, and leaves the tags of all others.
LEMMA RetagMarks ==
  ASSUME LType, alive' = alive, NEW found \in SUBSET alive, Retag(found, "reachable")
  PROVE  /\ Marked' = Marked \cup found
         /\ \A c \in alive : c \notin Marked' => tag'[c] = tag[c]
BY DEF LType, Retag, Marked, Untouched

\* A step of the flood: what is found is reachable, and goes to the frontier
\* unless it was found before.
LEMMA FloodGrows ==
  ASSUME LType, Flood, UNCHANGED <<alive, points>>, Reachable(Roots)' = Reachable(Roots),
         NEW found \in SUBSET alive, Retag(found, "reachable"),
         found \subseteq Reachable(Roots),
         frontier' \subseteq Marked \cup found,
         \A d \in found : d \in Marked \/ d \in frontier',
         \A d \in Marked : d \in frontier' \/ points[d] \cap alive \subseteq Marked \cup found
  PROVE  Flood'
<1>1. Marked' = Marked \cup found
  BY RetagMarks, Zenon
<1>2. Marked' \subseteq Reachable(Roots)'
  BY <1>1 DEF Flood
<1>3. \A d \in Marked' : d \in frontier' \/ points'[d] \cap alive' \subseteq Marked'
  BY <1>1
<1> QED
  BY <1>1, <1>2, <1>3 DEF Flood

\* What stays unmarked stays a direct leak.
LEMMA TagsStay ==
  ASSUME LType, LeakTags, stage # "collect", stage' # "collect", alive' = alive,
         NEW found \in SUBSET alive, Retag(found, "reachable")
  PROVE  LeakTags'
<1>1. /\ Marked' = Marked \cup found
      /\ \A c \in alive : c \notin Marked' => tag'[c] = tag[c]
  BY RetagMarks
<1>2. \A c \in alive \ Marked : tag[c] = "direct"
  BY DEF LeakTags
<1>3. \A c \in alive' \ Marked' : tag'[c] = "direct"
  BY <1>1, <1>2
<1> QED
  BY <1>3 DEF LeakTags

\* ScanForPointers over roots.
LEMMA ScanRangeStep ==
  ASSUME LType, Flood, LeakTags, UNCHANGED <<world, heap, ignored, lost, suppressed>>,
         stage # "collect", stage' # "collect",
         NEW P, P \cap alive \subseteq Reachable(Roots), ScanRange(P)
  PROVE  /\ Flood' /\ LeakTags'
         /\ Marked' = Marked \cup (P \cap alive)
<1> DEFINE found == {c \in P \cap alive : Untouched(c)}
<1>1. Retag(found, "reachable") /\ frontier' = frontier \cup found
  BY DEF ScanRange
<1>2. UNCHANGED <<alive, points, tpc>> /\ \A u \in Threads : Seen(u)' <=> Seen(u)
  BY WorldRests DEF heap, world, tracer
<1>3. Reachable(Roots)' = Reachable(Roots)
  BY <1>2, LeaksRest
<1>4. found \in SUBSET alive /\ found \subseteq Reachable(Roots)
  OBVIOUS
<1>5. Marked \cup found = Marked \cup (P \cap alive)
  BY DEF Marked
<1> HIDE DEF found
<1>6. Flood'
  BY <1>1, <1>2, <1>3, <1>4, FloodGrows, Zenon DEF Flood
<1>7. LeakTags'
  BY <1>1, <1>2, <1>4, TagsStay
<1>8. Marked' = Marked \cup (P \cap alive)
  BY <1>1, <1>2, <1>4, <1>5, RetagMarks, Zenon
<1> QED
  BY <1>6, <1>7, <1>8

\* Scanning adds roots; those already found stay found.
LEMMA FoundStaysFound ==
  ASSUME RootsFound, UNCHANGED <<world, heap, ignored, suppressed>>, lost \subseteq lost',
         Marked \subseteq Marked'
  PROVE  /\ (ignored' \ lost') \cap alive' \subseteq Marked'
         /\ \A c \in alive' : Stack[c] \in suppressed' => c \in Marked'
         /\ stage # "globals" => globals' \cap alive' \subseteq Marked'
         /\ stage \notin {"globals", "threads"} =>
              \A t \in Threads : Seen(t)' => local'[t] \cap alive' \subseteq Marked'
         /\ stage \notin {"globals", "threads", "registry"} =>
              \A t \in Threads : argument'[t] \cap alive' \subseteq Marked'
<1>1. UNCHANGED <<alive, globals, local, argument>>
  BY DEF heap
<1>2. \A t \in Threads : Seen(t)' => Seen(t)
  BY WorldRests DEF world
<1> QED
  BY <1>1, <1>2, Zenon DEF RootsFound

\* The first stage: the chunks to be ignored are the frontier.
LEMMA CollectIgnoredStep ==
  ASSUME WInv, LType, TagsBetween, IgnoredTags, CollectIgnored
  PROVE  Scanning'
<1>1. /\ tpc = "callback" /\ stage = "none" /\ stage' = "globals"
      /\ Retag({c \in alive : Stack[c] \in suppressed}, "ignored")
      /\ frontier' = {c \in alive : tag'[c] = "ignored"}
      /\ UNCHANGED <<alive, points, ignored, lost, suppressed>>
  BY DEF CollectIgnored, InCallback, heap, results, ghosts
<1>2. \A c \in alive : tag[c] \in {"direct", "ignored"}
  BY <1>1 DEF TagsBetween, TagsAreReset, Doomed
<1>3. \A c \in alive : tag'[c] = IF Stack[c] \in suppressed THEN "ignored" ELSE tag[c]
  BY <1>1 DEF LType, Retag
<1>4. Marked' = frontier'
  BY <1>1, <1>2, <1>3, Zenon DEF Marked, Untouched
<1>5. \A c \in alive : tag'[c] = "ignored" <=> \/ c \in ignored \ lost
                                              \/ Stack[c] \in suppressed
  BY <1>3 DEF IgnoredTags
<1>6. Marked' \subseteq Reachable(Roots)'
  <2>1. Marked' \subseteq Roots'
    BY <1>1, <1>4, <1>5 DEF Roots
  <2> QED
    BY <1>1, <1>4, <2>1 DEF Reachable
<1>7. Flood'
  BY <1>1, <1>4, <1>6, Zenon DEF Flood
<1>8. RootsFound'
  BY <1>1, <1>4, <1>5, Zenon DEF RootsFound
<1>9. LeakTags'
  BY <1>1, <1>2, <1>3, <1>4 DEF LeakTags
<1> QED
  BY <1>1, <1>7, <1>8, <1>9, Zenon DEF Scanning

\* ProcessGlobalRegions.
LEMMA GlobalsStep ==
  ASSUME LType, Scanning, ProcessGlobalRegions
  PROVE  Scanning'
<1>1. /\ stage = "globals" /\ stage' = "threads" /\ ScanRange(globals)
      /\ UNCHANGED <<world, heap, ignored, lost, suppressed, troubled>>
  BY DEF ProcessGlobalRegions, InCallback, results, ghosts, world, tracer
<1> SUFFICES ASSUME ~troubled
             PROVE  Flood' /\ RootsFound' /\ LeakTags'
  BY <1>1 DEF Scanning
<1>2. Flood /\ RootsFound /\ LeakTags
  BY <1>1 DEF Scanning
<1>3. globals \cap alive \subseteq Reachable(Roots)
  BY KindsOfRoots
<1>4. Flood' /\ LeakTags' /\ Marked' = Marked \cup (globals \cap alive)
  BY <1>1, <1>2, <1>3, ScanRangeStep
<1>5. RootsFound'
  BY <1>1, <1>2, <1>4, FoundStaysFound, Zenon DEF RootsFound, heap
<1> QED
  BY <1>4, <1>5

\* Looking up the kernel id of a thread that is not hidden finds that thread.
LEMMA SeenAreFound ==
  ASSUME OsIds, NEW t \in Threads, Seen(t)
  PROVE  t \in FindThreadContextByOsIDLocked(os_id[t])
<1>1. HasOsId(t, os_id[t])
  BY DEF HasOsId, Seen
<1>2. ASSUME NEW d \in Threads, HasOsId(d, os_id[t])
      PROVE  t <= d
  <2>1. t \in Nat /\ d \in Nat
    BY WorldAssumption
  <2>2. CASE Running(d)
    <3>1. Alive(t) /\ Alive(d) /\ os_id[d] = os_id[t]
      BY <1>2, <2>2 DEF HasOsId, Seen, Running, Alive
    <3> QED
      BY <2>1, <3>1 DEF OsIds
  <2>3. CASE ~Running(d)
    <3>1. ~(d < t)
      BY <1>2, <2>3 DEF HasOsId, Seen, Hidden
    <3> QED
      BY <2>1, <3>1
  <2> QED
    BY <2>2, <2>3
<1> QED
  BY <1>1, <1>2 DEF FindThreadContextByOsIDLocked

\* A running thread that is found by some id is not hidden.
LEMMA FoundAreSeen ==
  ASSUME NEW id, NEW c \in FindThreadContextByOsIDLocked(id), Running(c)
  PROVE  c \in Threads /\ Seen(c)
<1>1. c \in Threads /\ os_id[c] = id /\ \A d \in Threads : HasOsId(d, id) => c <= d
  BY DEF FindThreadContextByOsIDLocked, HasOsId
<1>2. ASSUME NEW d \in Threads \ Detached, d < c, os_id[d] = os_id[c],
             pc[d] \in {"exit", "dead"}
      PROVE  FALSE
  <2>1. HasOsId(d, id)
    BY <1>1, <1>2 DEF HasOsId
  <2>2. c \in Nat /\ d \in Nat
    BY <1>1, WorldAssumption
  <2> QED
    BY <1>1, <1>2, <2>1, <2>2
<1> QED
  BY <1>1, <1>2 DEF Seen, Hidden

\* ProcessThreads: every thread that runs is suspended, and found by its kernel
\* id unless it is hidden.
LEMMA ThreadsStep ==
  ASSUME WInv, OsIds, LType, Scanning, ProcessThreads
  PROVE  Scanning'
<1> DEFINE found == UNION {FindThreadContextByOsIDLocked(os_id[t]) :
                             t \in suspended \cap Threads}
           stacks == UNION {local[c] : c \in {d \in found : Running(d)}}
<1>1. /\ tpc = "callback" /\ stage = "threads" /\ stage' = "registry"
      /\ ScanRange(stacks)
      /\ UNCHANGED <<world, heap, ignored, lost, suppressed, troubled>>
  BY Zenon DEF ProcessThreads, InCallback, results, ghosts, world, tracer
<1> SUFFICES ASSUME ~troubled
             PROVE  Flood' /\ RootsFound' /\ LeakTags'
  BY <1>1, Zenon DEF Scanning
<1>2. Flood /\ RootsFound /\ LeakTags
  BY <1>1, Zenon DEF Scanning
<1>3. \A c \in found : Running(c) => c \in Threads /\ Seen(c)
  BY FoundAreSeen, Zenon
<1>4. \A t \in Threads : Seen(t) => t \in found /\ Running(t)
  <2> SUFFICES ASSUME NEW t \in Threads, Seen(t)
               PROVE  t \in found /\ Running(t)
    OBVIOUS
  <2>1. Running(t) /\ t \in suspended
    BY <1>1, NobodyRuns, Zenon DEF Seen
  <2>2. t \in FindThreadContextByOsIDLocked(os_id[t])
    BY SeenAreFound
  <2> QED
    BY <2>1, <2>2
<1> HIDE DEF found
<1>5. stacks \cap alive \subseteq Reachable(Roots)
  BY <1>3, KindsOfRoots, Zenon
<1>6. \A t \in Threads : Seen(t) => local[t] \subseteq stacks
  BY <1>4
<1> HIDE DEF stacks
<1>7. Flood' /\ LeakTags' /\ Marked' = Marked \cup (stacks \cap alive)
  BY <1>1, <1>2, <1>5, ScanRangeStep
<1>8. UNCHANGED <<local, alive>> /\ \A t \in Threads : Seen(t)' => Seen(t)
  BY <1>1, WorldRests DEF heap, world
<1>9. \A t \in Threads : Seen(t)' => local'[t] \cap alive' \subseteq Marked'
  BY <1>6, <1>7, <1>8, Zenon
<1>10. RootsFound'
  BY <1>1, <1>2, <1>7, <1>9, FoundStaysFound, Zenon DEF RootsFound
<1> QED
  BY <1>7, <1>10

\* ProcessThreadRegistry: the arguments of the threads, ignored ones too.
LEMMA RegistryStep ==
  ASSUME LType, Scanning, ProcessThreadRegistry
  PROVE  Scanning'
<1> DEFINE found == alive \cap UNION {argument[t] : t \in Threads}
<1>1. /\ stage = "registry" /\ stage' = "flood"
      /\ Retag(found, "reachable") /\ frontier' = frontier \cup found
      /\ lost' = lost \cup (found \cap ignored)
      /\ UNCHANGED <<world, heap, ignored, suppressed, troubled>>
  BY Zenon DEF ProcessThreadRegistry, InCallback, results, world, tracer
<1> SUFFICES ASSUME ~troubled
             PROVE  Flood' /\ RootsFound' /\ LeakTags'
  BY <1>1, Zenon DEF Scanning
<1>2. Flood /\ RootsFound /\ LeakTags
  BY <1>1, Zenon DEF Scanning
<1>3. /\ UNCHANGED <<alive, points, globals, local, argument>>
      /\ \A u \in Threads : Seen(u)' <=> Seen(u)
  BY <1>1, WorldRests, Zenon DEF heap, world
<1>4. found \in SUBSET alive /\ found \subseteq Reachable(Roots)
  BY KindsOfRoots, Zenon
<1>5. /\ \A t \in Threads : argument[t] \cap alive \subseteq found
      /\ \A x \in found : \E t \in Threads : x \in argument[t]
  OBVIOUS
<1> HIDE DEF found
<1>6. Reachable(Roots)' = Reachable(Roots)
  <2>1. Roots' \subseteq Roots
    <3> SUFFICES ASSUME NEW x \in Roots'
                 PROVE  x \in Roots
      OBVIOUS
    <3>1. \/ x \in globals' \/ x \in ignored' \ lost'
          \/ x \in alive' /\ Stack[x] \in suppressed'
          \/ \E t \in Threads : x \in argument'[t]
          \/ \E t \in Threads : Seen(t)' /\ x \in local'[t]
      BY Zenon DEF Roots
    <3> QED
      BY <1>1, <1>3, <3>1, RootsAre
  <2>2. Roots \subseteq Roots'
    <3> SUFFICES ASSUME NEW x \in Roots
                 PROVE  x \in Roots'
      OBVIOUS
    <3>1. \/ x \in globals \/ x \in ignored \ lost
          \/ x \in alive /\ Stack[x] \in suppressed
          \/ \E t \in Threads : x \in argument[t]
          \/ \E t \in Threads : Seen(t) /\ x \in local[t]
      BY RootsAre
    <3>2. \/ x \in globals' \/ x \in ignored' \ lost'
          \/ x \in alive' /\ Stack[x] \in suppressed'
          \/ \E t \in Threads : x \in argument'[t]
          \/ \E t \in Threads : Seen(t)' /\ x \in local'[t]
      BY <1>1, <1>3, <1>5, <3>1
    <3> QED
      BY <3>2 DEF Roots
  <2>3. Roots' = Roots
    BY <2>1, <2>2
  <2> QED
    BY <1>3, <2>3 DEF Reachable
<1>7. Flood'
  BY <1>1, <1>2, <1>3, <1>4, <1>6, FloodGrows, Zenon DEF Flood
<1>8. LeakTags'
  BY <1>1, <1>2, <1>3, <1>4, TagsStay
<1>9. Marked' = Marked \cup found
  BY <1>1, <1>3, <1>4, RetagMarks, Zenon
<1>10. \A t \in Threads : argument'[t] \cap alive' \subseteq Marked'
  BY <1>3, <1>5, <1>9, Zenon
<1>11. RootsFound'
  BY <1>1, <1>2, <1>9, <1>10, FoundStaysFound, Zenon DEF RootsFound
<1> QED
  BY <1>7, <1>8, <1>11

\* FloodFillTag takes a chunk from the frontier and marks what it points to.
LEMMA FloodStep ==
  ASSUME LType, Scanning, NEW c \in Chunks, FloodFillTag(c)
  PROVE  Scanning'
<1> DEFINE found == {d \in points[c] \cap alive : Untouched(d)}
<1>1. /\ stage = "flood" /\ stage' = "flood" /\ c \in frontier
      /\ Retag(found, "reachable") /\ frontier' = (frontier \ {c}) \cup found
      /\ UNCHANGED <<world, heap, ignored, lost, suppressed, troubled>>
  BY Zenon DEF FloodFillTag, InCallback, results, ghosts, world, tracer
<1> SUFFICES ASSUME ~troubled
             PROVE  Flood' /\ RootsFound' /\ LeakTags'
  BY <1>1, Zenon DEF Scanning
<1>2. Flood /\ RootsFound /\ LeakTags
  BY <1>1, Zenon DEF Scanning
<1>3. UNCHANGED <<alive, points>> /\ \A u \in Threads : Seen(u)' <=> Seen(u)
  BY <1>1, WorldRests, Zenon DEF heap, world
<1>4. points[c] \cap alive \subseteq Reachable(Roots)
  BY <1>1, <1>2, ReachableClosed, Zenon DEF Flood
<1>5. found \in SUBSET alive /\ found \subseteq Reachable(Roots)
  BY <1>4
<1>6. points[c] \cap alive \subseteq Marked \cup found
  BY DEF Marked
<1> HIDE DEF found
<1>7. Reachable(Roots)' = Reachable(Roots)
  BY <1>1, <1>3, LeaksRest
<1>8. Flood'
  <2>1. \A d \in Marked : d \in frontier' \/ points[d] \cap alive \subseteq Marked \cup found
    BY <1>1, <1>2, <1>6, Zenon DEF Flood
  <2>2. frontier' \subseteq Marked \cup found
    BY <1>1, <1>2 DEF Flood
  <2> QED
    BY <1>1, <1>2, <1>3, <1>5, <1>7, <2>1, <2>2, FloodGrows, Zenon
<1>9. LeakTags'
  BY <1>1, <1>2, <1>3, <1>5, TagsStay
<1>10. Marked' = Marked \cup found
  BY <1>1, <1>3, <1>5, RetagMarks
<1>11. RootsFound'
  BY <1>1, <1>2, <1>10, FoundStaysFound, Zenon DEF RootsFound
<1> QED
  BY <1>8, <1>9, <1>11

\* The flood is over: what is marked is what the roots reach.
LEMMA FloodIsOver ==
  ASSUME Flood, RootsFound, frontier = {}, stage \in {"flood", "collect"}
  PROVE  Marked = Reachable(Roots) /\ Leaked = alive \ Marked
<1>1. \A x \in Roots \cap alive : x \in Marked
  <2> SUFFICES ASSUME NEW x \in Roots \cap alive
               PROVE  x \in Marked
    OBVIOUS
  <2>1. CASE \/ x \in globals \/ x \in ignored \ lost
             \/ x \in alive /\ Stack[x] \in suppressed
    BY <2>1 DEF RootsFound
  <2>2. CASE \E t \in Threads : x \in argument[t]
    BY <2>2 DEF RootsFound
  <2>3. CASE \E t \in Threads : Seen(t) /\ x \in local[t]
    BY <2>3 DEF RootsFound
  <2> QED
    BY <2>1, <2>2, <2>3, RootsAre, Zenon
<1>2. \A d \in Marked : points[d] \cap alive \subseteq Marked
  BY DEF Flood
<1>3. Marked \in SUBSET alive
  BY DEF Marked
<1>4. Reachable(Roots) \subseteq Marked
  BY <1>1, <1>2, <1>3, ReachableLeast
<1>5. Marked = Reachable(Roots)
  BY <1>4 DEF Flood
<1> QED
  BY <1>5 DEF Leaked

\* MarkIndirectlyLeaked: an ignored chunk points to nothing that is left.
LEMMA MarkStep ==
  ASSUME LType, Scanning, MarkIndirectlyLeaked
  PROVE  Scanning'
<1> DEFINE from == {c \in alive : tag[c] # "reachable"}
           led == {d \in alive : Untouched(d) /\ \E c \in from \ {d} : d \in points[c]}
<1>1. /\ stage = "flood" /\ stage' = "collect" /\ frontier = {} /\ frontier' = {}
      /\ Retag(led, "indirect")
      /\ UNCHANGED <<world, heap, ignored, lost, suppressed, troubled>>
  BY Zenon DEF MarkIndirectlyLeaked, InCallback, results, ghosts, world, tracer
<1> SUFFICES ASSUME ~troubled
             PROVE  Flood' /\ RootsFound' /\ LeakTags'
  BY <1>1, Zenon DEF Scanning
<1>2. Flood /\ RootsFound /\ LeakTags
  BY <1>1 DEF Scanning
<1>3. UNCHANGED <<alive, points>> /\ \A u \in Threads : Seen(u)' <=> Seen(u)
  BY <1>1, WorldRests, Zenon DEF heap, world
<1>4. \A c \in alive : tag'[c] = IF c \in led THEN "indirect" ELSE tag[c]
  BY <1>1 DEF LType, Retag
<1>5. Marked' = Marked
  BY <1>3, <1>4, Zenon DEF Marked, Untouched
<1>6. Reachable(Roots)' = Reachable(Roots)
  BY <1>1, <1>3, LeaksRest, Zenon
<1>7. Flood'
  BY <1>1, <1>2, <1>3, <1>5, <1>6, Zenon DEF Flood
<1>8. RootsFound'
  BY <1>1, <1>2, <1>5, FoundStaysFound, Zenon DEF RootsFound
<1>9. \A d \in Marked : points[d] \cap alive \subseteq Marked
  BY <1>1, <1>2, Zenon DEF Flood
<1>10. ASSUME NEW c \in alive \ Marked
       PROVE  c \in led <=> \E d \in alive \ Marked : d # c /\ c \in points[d]
  <2>1. Untouched(c)
    BY DEF Marked
  <2>2. \A d \in from : d \in Marked => c \notin points[d]
    BY <1>9
  <2>3. \A d \in alive \ Marked : d \in from
    BY DEF Marked, Untouched
  <2> QED
    BY <2>1, <2>2, <2>3
<1>11. \A c \in alive \ Marked : tag[c] = "direct"
  BY <1>1, <1>2 DEF LeakTags
<1> HIDE DEF led, from
<1>12. LeakTags'
  BY <1>1, <1>3, <1>4, <1>5, <1>10, <1>11, Zenon DEF LeakTags
<1> QED
  BY <1>7, <1>8, <1>12

\* CollectLeaksCb collects what the definition of a leak says.
LEMMA CollectStep ==
  ASSUME LType, Scanning, CollectLeaks, ~troubled
  PROVE  leaks' = Leaks /\ Leaks' = Leaks
<1>1. /\ stage = "collect"
      /\ leaks' = {<<c, tag[c]>> : c \in {d \in alive : Untouched(d)}}
      /\ UNCHANGED <<world, heap, ignored, lost, suppressed>>
  BY DEF CollectLeaks, InCallback
<1>2. Flood /\ RootsFound /\ LeakTags /\ frontier = {}
  BY <1>1 DEF Scanning
<1>3. Leaked = alive \ Marked
  BY <1>1, <1>2, FloodIsOver
<1>4. {d \in alive : Untouched(d)} = Leaked
  BY <1>3 DEF Marked
<1>5. \A c \in Leaked :
        tag[c] = IF \E d \in Leaked \ {c} : c \in points[d] THEN "indirect" ELSE "direct"
  BY <1>1, <1>2, <1>3, Zenon DEF LeakTags
<1>6. {<<c, tag[c]>> : c \in Leaked} = Leaks
  BY <1>5 DEF Leaks
<1>7. \A u \in Threads : Seen(u)' <=> Seen(u)
  BY <1>1, WorldRests, Zenon DEF world
<1> QED
  BY <1>1, <1>4, <1>6, <1>7, LeaksRest, Zenon

\* A leak that suppressed chunks lead to is led to by one that has leaked too,
\* and is itself an indirect leak.
LEMMA SuppressedLeadToLeaks ==
  ASSUME NEW l \in Leaks, Stack[l[1]] \notin Matching,
         l[1] \in Reachable({c \in alive : Stack[c] \in Matching})
  PROVE  /\ \E k \in Leaks : Stack[k[1]] \in Matching
         /\ l[2] = "indirect"
<1> DEFINE M == {c \in alive : Stack[c] \in Matching}
           x == l[1]
<1>1. /\ x \in Leaked
      /\ l[2] = IF \E d \in Leaked \ {x} : x \in points[d] THEN "indirect" ELSE "direct"
  <2> DEFINE tagged(c) == IF \E d \in Leaked \ {c} : c \in points[d] THEN "indirect" ELSE "direct"
  <2>1. PICK c \in Leaked : l = <<c, tagged(c)>>
    BY DEF Leaks
  <2> HIDE DEF tagged
  <2>2. x = c /\ l[2] = tagged(c)
    BY <2>1
  <2> QED
    BY <2>1, <2>2 DEF tagged
<1>2. x \in alive /\ x \notin Reachable(Roots) /\ x \in Reachable(M) /\ x \notin M
  BY <1>1, Zenon DEF Leaked
<1> HIDE DEF M, x
<1>3. M \subseteq alive
  BY DEF M
<1>4. PICK m \in M : m \notin Reachable(Roots)
  <2>1. ~(Reachable(M) \subseteq Reachable(Roots))
    BY <1>2
  <2> QED
    BY <1>3, <2>1, ReachableFrom
<1>5. \E k \in Leaks : k[1] = m
  <2> DEFINE kind(c) == IF \E d \in Leaked \ {c} : c \in points[d]
                        THEN "indirect" ELSE "direct"
  <2>1. m \in Leaked
    BY <1>3, <1>4 DEF Leaked
  <2>2. <<m, kind(m)>> \in Leaks
    BY <2>1 DEF Leaks
  <2> QED
    BY <2>2
<1>6. Stack[m] \in Matching
  BY DEF M
<1>7. \E d \in Leaked \ {x} : x \in points[d]
  <2> SUFFICES ASSUME \A d \in Leaked \ {x} : x \notin points[d]
               PROVE  FALSE
    OBVIOUS
  <2> DEFINE s == Reachable(M) \ {x}
  <2>1. s \in SUBSET alive /\ M \cap alive \subseteq s
    BY <1>2, ReachableRoots
  <2>2. ASSUME NEW d \in s
        PROVE  points[d] \cap alive \subseteq s
    <3>1. points[d] \cap alive \subseteq Reachable(M)
      BY ReachableClosed, Zenon
    <3>2. d \in Reachable(Roots) => x \notin points[d]
      BY <1>2, ReachableClosed, Zenon
    <3>3. d \notin Reachable(Roots) => d \in Leaked \ {x}
      BY <2>1, Zenon DEF Leaked
    <3> QED
      BY <3>1, <3>2, <3>3
  <2> HIDE DEF s
  <2>3. Reachable(M) \subseteq s
    BY <2>1, <2>2, ReachableLeast, Zenon
  <2> QED
    BY <1>2, <2>3 DEF s
<1> QED
  BY <1>1, <1>5, <1>6, <1>7

-----------------------------------------------------------------------------
(* The induction for the scan *)

\* A step that leaves the heap, the tags and the results alone.
LEMMA LeakFrame ==
  ASSUME WInv, LInv, [Next]_vars, UNCHANGED leakvars
  PROVE  LInv'
<1>1. /\ UNCHANGED <<heap, alive, points, globals, local, argument, tag, stage>>
      /\ UNCHANGED <<frontier, leaks, suppressed, reported, gave_up, ignored, lost, held>>
  BY DEF leakvars, heap, scan, results, ghosts
<1>2. stage # "none" => tpc = "callback" /\ UNCHANGED <<tpc, troubled>>
  BY <1>1, CallbackGoesOn, Zenon DEF LInv, LType, ResetTags, CallbackCrashes
<1>3. LType'
  BY <1>1, <1>2 DEF LInv, LType
<1>4. HoldsGlobal' /\ (Doomed => Doomed')
  BY GlobalStep DEF LInv
<1>5. TagsBetween' /\ IgnoredTags'
  BY <1>1, <1>4, Zenon DEF LInv, TagsBetween, TagsAreReset, IgnoredTags
<1>6. Scanning'
  <2> SUFFICES ASSUME ~troubled', stage # "none"
               PROVE  Scanning'
    BY <1>1 DEF Scanning
  <2>1. ~troubled /\ tpc = "callback"
    BY <1>2
  <2>2. \A u \in Threads : Seen(u)' <=> Seen(u)
    BY <2>1, RunningRests, SeenRests
  <2>3. Reachable(Roots)' = Reachable(Roots) /\ Leaks' = Leaks
    BY <1>1, <2>2, LeaksRest
  <2>4. Marked' = Marked
    BY <1>1 DEF Marked, Untouched
  <2>5. Flood => Flood'
    BY <1>1, <2>3, <2>4, Zenon DEF Flood
  <2>6. RootsFound => RootsFound'
    BY <1>1, <2>2, <2>4, Zenon DEF RootsFound
  <2>7. LeakTags => LeakTags'
    BY <1>1, <2>4, Zenon DEF LeakTags
  <2> QED
    BY <1>1, <2>1, <2>3, <2>5, <2>6, <2>7 DEF LInv, Scanning
<1>7. HeldApart'
  BY <1>1, Zenon DEF LInv, HeldApart, MayHoldLeaks, NewlySuppressed, Unsuppressed
<1> QED
  BY <1>3, <1>4, <1>5, <1>6, <1>7 DEF LInv

\* Under the callback no thread changes the heap.
LEMMA NobodyMutates ==
  ASSUME WInv, tpc = "callback", ~troubled
  PROVE  ~Mutate
<1>1. ASSUME NEW t \in Threads
      PROVE  /\ ~InUserCode(t)
             /\ ~Operate(t) /\ ~FinishThread(t) /\ ~StartThread(t) /\ ~CloneThread(t)
  BY <1>1, NobodyRuns, Zenon DEF Operate, FinishThread, StartThread, CloneThread
<1> QED
  BY <1>1, Zenon DEF Mutate, Malloc, Free, Load, StoreGlobal, Forget, IgnoreObject, Store,
     Create, Start, Finish, Join

\* The tags, as the threads allocate, free and ignore chunks.
LEMMA MutatedTags ==
  ASSUME LType, IgnoredTags, Mutate
  PROVE  (TagsAreReset => TagsAreReset') /\ IgnoredTags'
<1> DEFINE Tagged == (TagsAreReset => TagsAreReset') /\ IgnoredTags'
<1>1. ASSUME NEW t \in Threads, NEW c \in Chunks, Malloc(t, c)
      PROVE  Tagged
  <2>1. PICK k \in {"direct", "ignored"} :
          /\ alive' = alive \cup {c}
          /\ tag' = [tag EXCEPT ![c] = k]
          /\ ignored' = IF k = "ignored" THEN ignored \cup {c} ELSE ignored
    BY <1>1, Zenon DEF Malloc
  <2>2. c \notin alive /\ UNCHANGED <<lost, suppressed>>
    BY <1>1 DEF Malloc, Operate, results
  <2>3. tag'[c] = k /\ \A d \in alive : tag'[d] = tag[d]
    BY <2>1, <2>2 DEF LType
  <2>4. TagsAreReset => TagsAreReset'
    BY <2>1, <2>3 DEF TagsAreReset
  <2>5. IgnoredTags'
    BY <2>1, <2>2, <2>3 DEF IgnoredTags
  <2> QED
    BY <2>4, <2>5
<1>2. ASSUME NEW t \in Threads, NEW c \in Chunks, Free(t, c)
      PROVE  Tagged
  <2>1. /\ alive' = alive \ {c} /\ ignored' = ignored \ {c} /\ lost' = lost \ {c}
        /\ UNCHANGED <<tag, suppressed>>
    BY <1>2, Zenon DEF Free, Operate, results
  <2> QED
    BY <2>1, Zenon DEF TagsAreReset, IgnoredTags
<1>3. ASSUME NEW t \in Threads, NEW c \in Chunks, IgnoreObject(t, c)
      PROVE  Tagged
  <2>1. /\ c \in alive /\ UNCHANGED <<alive, suppressed>>
        /\ tag' = [tag EXCEPT ![c] = "ignored"]
        /\ ignored' = ignored \cup {c} /\ lost' = lost \ {c}
    BY <1>3, Zenon DEF IgnoreObject, Operate, results
  <2>2. tag'[c] = "ignored" /\ \A d \in alive : d # c => tag'[d] = tag[d]
    BY <2>1 DEF LType
  <2>3. TagsAreReset => TagsAreReset'
    BY <2>1, <2>2 DEF TagsAreReset
  <2>4. IgnoredTags'
    BY <2>1, <2>2, Zenon DEF IgnoredTags
  <2> QED
    BY <2>3, <2>4
<1>4. ASSUME UNCHANGED <<alive, tag, ignored, lost, suppressed>>
      PROVE  Tagged
  BY <1>4, Zenon DEF TagsAreReset, IgnoredTags
<1> HIDE DEF Tagged
<1>5. ASSUME NEW t \in Threads, NEW c \in Chunks,
             \/ Load(t, c) \/ StoreGlobal(t, c) \/ Forget(t, c)
             \/ \E d \in Chunks : Store(t, c, d)
      PROVE  UNCHANGED <<alive, tag, ignored, lost, suppressed>>
  BY <1>5, Zenon DEF Load, StoreGlobal, Forget, Store, Operate, results
<1>6. ASSUME NEW p \in Threads, NEW a \in SUBSET Chunks, Create(p, a)
      PROVE  UNCHANGED <<alive, tag, ignored, lost, suppressed>>
  BY <1>6, Zenon DEF Create, ghosts, results
<1>7. ASSUME NEW t \in Threads, Start(t) \/ \E r \in SUBSET Chunks : Finish(t, r)
      PROVE  UNCHANGED <<alive, tag, ignored, lost, suppressed>>
  BY <1>7, Zenon DEF Start, Finish, ghosts, results
<1>8. ASSUME NEW p \in Threads, NEW t \in Threads, Join(p, t)
      PROVE  UNCHANGED <<alive, tag, ignored, lost, suppressed>>
  BY <1>8 DEF Join, ghosts, results
<1>9. Tagged
  BY <1>1, <1>2, <1>3, <1>4, <1>5, <1>6, <1>7, <1>8 DEF Mutate
<1> QED
  BY <1>9 DEF Tagged

\* What the threads do to the heap touches neither the scan nor the report.
LEMMA MutatedType ==
  ASSUME LType, Mutate
  PROVE  /\ alive' \in SUBSET Chunks
         /\ tag' \in [Chunks -> {"direct", "indirect", "reachable", "ignored"}]
         /\ UNCHANGED <<scan, results, held>>
<1>1. ASSUME NEW t \in Threads, NEW c \in Chunks,
             \/ Malloc(t, c) \/ Free(t, c) \/ Load(t, c) \/ StoreGlobal(t, c)
             \/ Forget(t, c) \/ IgnoreObject(t, c)
             \/ \E d \in Chunks : Store(t, c, d)
      PROVE  UNCHANGED <<scan, results, held>>
  BY <1>1, Zenon DEF Malloc, Free, Load, StoreGlobal, Forget, IgnoreObject, Store, Operate
<1>2. ASSUME NEW t \in Threads, NEW c \in Chunks,
             \/ Malloc(t, c) \/ Free(t, c) \/ Load(t, c) \/ StoreGlobal(t, c)
             \/ Forget(t, c) \/ IgnoreObject(t, c)
             \/ \E d \in Chunks : Store(t, c, d)
      PROVE  /\ alive' \in SUBSET Chunks
             /\ tag' \in [Chunks -> {"direct", "indirect", "reachable", "ignored"}]
  BY <1>2, Zenon DEF Malloc, Free, Load, StoreGlobal, Forget, IgnoreObject, Store, LType
<1>3. ASSUME NEW p \in Threads, NEW a \in SUBSET Chunks, Create(p, a)
      PROVE  UNCHANGED <<scan, results, held, alive, tag>>
  BY <1>3, Zenon DEF Create, ghosts
<1>4. ASSUME NEW t \in Threads, Start(t) \/ \E r \in SUBSET Chunks : Finish(t, r)
      PROVE  UNCHANGED <<scan, results, held, alive, tag>>
  BY <1>4, Zenon DEF Start, Finish, ghosts
<1>5. ASSUME NEW p \in Threads, NEW t \in Threads, Join(p, t)
      PROVE  UNCHANGED <<scan, results, held, alive, tag>>
  BY <1>5 DEF Join, ghosts
<1> QED
  BY <1>1, <1>2, <1>3, <1>4, <1>5, Zenon DEF Mutate, LType

\* A step of the application on the heap.
LEMMA MutateKeeps ==
  ASSUME WInv, LInv, Next, Mutate
  PROVE  LInv'
<1>1. /\ alive' \in SUBSET Chunks
      /\ tag' \in [Chunks -> {"direct", "indirect", "reachable", "ignored"}]
      /\ UNCHANGED <<stage, frontier, leaks, reported, gave_up, held>>
  BY MutatedType DEF LInv, scan, results
<1>2. stage # "none" => tpc = "callback" /\ troubled /\ UNCHANGED <<tpc, troubled>>
  BY <1>1, NobodyMutates, CallbackGoesOn, Zenon DEF LInv, LType, ResetTags, CallbackCrashes
<1>3. LType'
  BY <1>1, <1>2 DEF LInv, LType
<1>4. HoldsGlobal' /\ (Doomed => Doomed')
  BY GlobalStep DEF LInv
<1>5. TagsBetween' /\ IgnoredTags'
  BY <1>1, <1>4, MutatedTags DEF LInv, TagsBetween
<1>6. Scanning'
  BY <1>1, <1>2 DEF Scanning
<1>7. HeldApart'
  BY <1>1 DEF LInv, HeldApart, MayHoldLeaks, NewlySuppressed, Unsuppressed
<1> QED
  BY <1>3, <1>4, <1>5, <1>6, <1>7 DEF LInv

\* CheckForLeaksOnce looks at what was collected, and reports.
LEMMA ReportKeeps ==
  ASSUME WInv, LInv, Next, NEW t \in Threads, Rerun(t) \/ PrintResults(t)
  PROVE  LInv'
<1>1. /\ UNCHANGED <<alive, tag, stage, frontier, ignored, lost, held, tpc, troubled>>
      /\ suppressed \subseteq suppressed'
  BY Zenon DEF Rerun, PrintResults, heap, ghosts, tracer
<1>2. stage # "none" => troubled
  BY OutsidersExecute, Zenon DEF LInv, LType, Rerun, PrintResults, At, Outside
<1>3. LType'
  BY <1>1 DEF LInv, LType
<1>4. HoldsGlobal' /\ (Doomed => Doomed')
  BY GlobalStep DEF LInv
<1>5. TagsBetween' /\ IgnoredTags'
  BY <1>1, <1>4, Zenon DEF LInv, TagsBetween, TagsAreReset, IgnoredTags
<1>6. Scanning'
  BY <1>1, <1>2 DEF Scanning
<1>7. leaks' = {} /\ Unsuppressed' = {}
  BY Zenon DEF Rerun, PrintResults, Unsuppressed
<1>8. ~gave_up' => reported' \cap held' = {}
  BY <1>1, Zenon DEF Rerun, PrintResults, LInv, HeldApart
<1>9. HeldApart'
  BY <1>7, <1>8 DEF HeldApart
<1> QED
  BY <1>3, <1>4, <1>5, <1>6, <1>9 DEF LInv

\* The tags have their values, whatever the scan makes of them.
LEMMA ScanType ==
  ASSUME LType, NEW found, NEW to \in {"direct", "indirect", "reachable", "ignored"},
         Retag(found, to)
  PROVE  tag' \in [Chunks -> {"direct", "indirect", "reachable", "ignored"}]
BY DEF LType, Retag

\* A scan overwrites no tag that says to ignore a chunk, but for those that are
\* remembered as lost.
LEMMA ScanTags ==
  ASSUME LType, IgnoredTags, UNCHANGED <<alive, ignored, suppressed>>,
         \/ CollectIgnored \/ ProcessGlobalRegions \/ ProcessThreads
         \/ ProcessThreadRegistry \/ MarkIndirectlyLeaked
         \/ \E c \in Chunks : FloodFillTag(c)
  PROVE  IgnoredTags'
<1>1. CASE CollectIgnored
  <2>1. /\ Retag({c \in alive : Stack[c] \in suppressed}, "ignored")
        /\ lost' = lost
    BY <1>1, Zenon DEF CollectIgnored, ghosts
  <2>2. \A c \in alive : tag'[c] = IF Stack[c] \in suppressed THEN "ignored" ELSE tag[c]
    BY <2>1 DEF LType, Retag
  <2> QED
    BY <2>1, <2>2, Zenon DEF IgnoredTags
<1>2. ASSUME NEW found \in SUBSET alive, NEW to \in {"indirect", "reachable"},
             Retag(found, to), lost' = lost, \A c \in found : Untouched(c)
      PROVE  IgnoredTags'
  <2>1. \A c \in alive : tag'[c] = IF c \in found THEN to ELSE tag[c]
    BY <1>2 DEF LType, Retag
  <2>2. \A c \in alive : tag'[c] = "ignored" <=> tag[c] = "ignored"
    BY <1>2, <2>1, Zenon DEF Untouched
  <2> QED
    BY <1>2, <2>2, Zenon DEF IgnoredTags
<1>3. ASSUME NEW P, ScanRange(P), lost' = lost
      PROVE  IgnoredTags'
  <2> DEFINE found == {c \in P \cap alive : Untouched(c)}
  <2>1. found \in SUBSET alive /\ Retag(found, "reachable") /\ \A c \in found : Untouched(c)
    BY <1>3 DEF ScanRange
  <2> HIDE DEF found
  <2> QED
    BY <1>2, <1>3, <2>1
<1>4. CASE ProcessGlobalRegions \/ ProcessThreads
  <2>1. lost' = lost /\ \E P : ScanRange(P)
    BY <1>4, Zenon DEF ProcessGlobalRegions, ProcessThreads, ghosts
  <2> QED
    BY <1>3, <2>1
<1>5. CASE ProcessThreadRegistry
  <2> DEFINE found == alive \cap UNION {argument[t] : t \in Threads}
  <2>1. Retag(found, "reachable") /\ lost' = lost \cup (found \cap ignored)
    BY <1>5, Zenon DEF ProcessThreadRegistry
  <2> HIDE DEF found
  <2>2. \A c \in alive : tag'[c] = IF c \in found THEN "reachable" ELSE tag[c]
    BY <2>1 DEF LType, Retag
  <2> QED
    BY <2>1, <2>2, Zenon DEF IgnoredTags
<1>6. CASE MarkIndirectlyLeaked
  <2> DEFINE from == {c \in alive : tag[c] # "reachable"}
             led == {d \in alive : Untouched(d) /\ \E c \in from \ {d} : d \in points[c]}
  <2>1. /\ led \in SUBSET alive /\ Retag(led, "indirect") /\ lost' = lost
        /\ \A c \in led : Untouched(c)
    BY <1>6, Zenon DEF MarkIndirectlyLeaked, ghosts
  <2> HIDE DEF from, led
  <2> QED
    BY <1>2, <2>1
<1>7. ASSUME NEW c \in Chunks, FloodFillTag(c)
      PROVE  IgnoredTags'
  <2> DEFINE found == {d \in points[c] \cap alive : Untouched(d)}
  <2>1. /\ found \in SUBSET alive /\ Retag(found, "reachable") /\ lost' = lost
        /\ \A d \in found : Untouched(d)
    BY <1>7, Zenon DEF FloodFillTag, ghosts
  <2> HIDE DEF found
  <2> QED
    BY <1>2, <2>1
<1> QED
  BY <1>1, <1>4, <1>5, <1>6, <1>7

\* A stage of CheckForLeaksCallback before the leaks are collected.
LEMMA StageKeeps ==
  ASSUME WInv, OsIds, LInv, Next,
         \/ CollectIgnored \/ ProcessGlobalRegions \/ ProcessThreads
         \/ ProcessThreadRegistry \/ MarkIndirectlyLeaked
         \/ \E c \in Chunks : FloodFillTag(c)
  PROVE  LInv'
<1>1. /\ UNCHANGED <<alive, tpc, suppressed, reported, gave_up, ignored, held>>
      /\ tpc = "callback"
      /\ stage' \in {"globals", "threads", "registry", "flood", "collect"}
      /\ UNCHANGED leaks \/ leaks' = {}
  BY Zenon DEF CollectIgnored, ProcessGlobalRegions, ProcessThreads, ProcessThreadRegistry,
     MarkIndirectlyLeaked, FloodFillTag, InCallback, world, tracer, heap, results, ghosts
<1>2. tag' \in [Chunks -> {"direct", "indirect", "reachable", "ignored"}]
  BY ScanType, Zenon DEF LInv, CollectIgnored, ProcessGlobalRegions, ProcessThreads, ScanRange,
     ProcessThreadRegistry, MarkIndirectlyLeaked, FloodFillTag
<1>3. LType'
  BY <1>1, <1>2 DEF LInv, LType
<1>4. HoldsGlobal'
  BY GlobalStep DEF LInv
<1>5. TagsBetween' /\ IgnoredTags'
  BY <1>1, ScanTags DEF LInv, TagsBetween
<1>6. Scanning'
  BY CollectIgnoredStep, GlobalsStep, ThreadsStep, RegistryStep, MarkStep, FloodStep
  DEF LInv
<1>7. HeldApart'
  <2>1. CASE UNCHANGED leaks
    BY <1>1, <2>1, Zenon DEF LInv, HeldApart, MayHoldLeaks, NewlySuppressed, Unsuppressed
  <2>2. CASE leaks' = {}
    <3>1. Unsuppressed' = {}
      BY <2>2 DEF Unsuppressed
    <3> QED
      BY <1>1, <3>1 DEF LInv, HeldApart
  <2> QED
    BY <1>1, <2>1, <2>2
<1> QED
  BY <1>3, <1>4, <1>5, <1>6, <1>7 DEF LInv

\* CollectLeaksCb.
LEMMA CollectKeeps ==
  ASSUME WInv, LInv, Next, CollectLeaks
  PROVE  LInv'
<1>1. /\ UNCHANGED <<alive, points, tag, tpc, troubled, ignored, lost, suppressed>>
      /\ tpc = "callback" /\ stage' = "reset" /\ reported' = {}
      /\ held' = IF troubled THEN {} ELSE
                 Reachable({c \in alive : Stack[c] \in Matching})
  BY Zenon DEF CollectLeaks, InCallback, world, tracer, heap
<1>2. LType'
  BY <1>1 DEF LInv, LType
<1>3. HoldsGlobal'
  BY GlobalStep DEF LInv
<1>4. TagsBetween' /\ IgnoredTags'
  BY <1>1, Zenon DEF LInv, TagsBetween, IgnoredTags
<1>5. Scanning'
  BY <1>1, CollectStep DEF LInv, Scanning
<1>6. HeldApart'
  <2>1. CASE troubled
    BY <1>1, <2>1 DEF HeldApart
  <2>2. CASE ~troubled
    <3>1. leaks' = Leaks
      BY <2>2, CollectStep DEF LInv
    <3>2. ASSUME NEW l \in Unsuppressed', l[1] \in held'
          PROVE  MayHoldLeaks'
      <4>1. l \in Leaks /\ Stack[l[1]] \notin Matching
        BY <3>1 DEF Unsuppressed
      <4>2. l[1] \in Reachable({c \in alive : Stack[c] \in Matching})
        BY <1>1, <2>2, <3>2
      <4>3. /\ \E k \in Leaks : Stack[k[1]] \in Matching
            /\ l[2] = "indirect"
        BY <4>1, <4>2, SuppressedLeadToLeaks
      <4> QED
        BY <3>1, <4>3 DEF MayHoldLeaks, NewlySuppressed
    <3> QED
      BY <1>1, <3>2 DEF HeldApart
  <2> QED
    BY <2>1, <2>2
<1> QED
  BY <1>2, <1>3, <1>4, <1>5, <1>6 DEF LInv

\* ResetTagsCb, and the callback returns.
LEMMA ResetKeeps ==
  ASSUME WInv, LInv, Next, ResetTags
  PROVE  LInv'
<1>1. /\ UNCHANGED <<alive, leaks, suppressed, reported, gave_up, ignored, lost, held>>
      /\ stage' = "none"
      /\ Retag({c \in alive : tag[c] # "ignored"}, "direct")
  BY DEF ResetTags, heap, results, ghosts
<1>2. LType'
  BY <1>1, ScanType DEF LInv, LType
<1>3. HoldsGlobal'
  BY GlobalStep DEF LInv
<1>4. TagsAreReset' /\ IgnoredTags'
  <2>1. \A c \in alive : tag'[c] = IF tag[c] # "ignored" THEN "direct" ELSE tag[c]
    BY <1>1 DEF LInv, LType, Retag
  <2> QED
    BY <1>1, <2>1 DEF LInv, TagsAreReset, IgnoredTags
<1>5. TagsBetween' /\ Scanning'
  BY <1>1, <1>4 DEF TagsBetween, Scanning
<1>6. HeldApart'
  BY <1>1, Zenon DEF LInv, HeldApart, MayHoldLeaks, NewlySuppressed, Unsuppressed
<1> QED
  BY <1>2, <1>3, <1>4, <1>5, <1>6 DEF LInv

\* The tracer crashes in the callback: the tags stay as they are, and the
\* check that would find them so is not the next one but none.
LEMMA CrashKeeps ==
  ASSUME WInv, LInv, Next, CallbackCrashes
  PROVE  LInv'
<1>1. /\ UNCHANGED <<alive, tag, leaks, suppressed, reported, gave_up, pc, global>>
      /\ UNCHANGED <<ignored, lost, held>>
      /\ stage' = "none" /\ tpc = "callback" /\ tpc' = "resume" /\ success' = FALSE
  BY DEF CallbackCrashes, TracerSignal, EndCallback, TracerGoto, heap, results, ghosts,
     locks
<1>2. LType'
  BY <1>1 DEF LInv, LType
<1>3. HoldsGlobal'
  BY GlobalStep DEF LInv
<1>4. /\ registry \in Threads /\ pc[registry] = "spin"
      /\ global = registry
  BY <1>1 DEF WInv, ParentSpins, LInv, HoldsGlobal, GlobalHolders
<1>5. Doomed'
  BY <1>1, <1>4, NoneApart DEF LInv, HoldsGlobal, GlobalHolders, Doomed
<1>6. TagsBetween' /\ IgnoredTags' /\ Scanning'
  BY <1>1, <1>5, Zenon DEF LInv, TagsBetween, IgnoredTags, Scanning
<1>7. HeldApart'
  BY <1>1, Zenon DEF LInv, HeldApart, MayHoldLeaks, NewlySuppressed, Unsuppressed
<1> QED
  BY <1>2, <1>3, <1>6, <1>7 DEF LInv

\* The initial states.
LEMMA LeakInitInv == Init => LInv
<1> SUFFICES ASSUME Init
             PROVE  LInv
  OBVIOUS
<1>1. alive \subseteq Chunks
  BY HeapsAssumption DEF Init
<1>2. /\ tag = [c \in Chunks |-> "direct"]
      /\ stage = "none" /\ leaks = {} /\ reported = {} /\ ignored = {} /\ lost = {}
  BY DEF Init
<1>3. LType /\ TagsBetween /\ IgnoredTags /\ Scanning
  BY <1>1, <1>2 DEF LType, TagsBetween, TagsAreReset, IgnoredTags, Scanning
<1>4. HeldApart
  BY <1>2 DEF HeldApart, Unsuppressed
<1>5. \A t \in Threads : pc[t] \in {"user", "dead", "none"}
  BY DEF Init, WorldInit, Tasks
<1>6. HoldsGlobal
  BY <1>5 DEF HoldsGlobal, GlobalHolders
<1> QED
  BY <1>3, <1>4, <1>6 DEF LInv

\* Every step keeps what the scan rests on.
LEMMA LeakNextInv == WInv /\ HInv /\ LInv /\ [Next]_vars => LInv'
<1> SUFFICES ASSUME WInv, HInv, LInv, [Next]_vars
             PROVE  LInv'
  OBVIOUS
<1>1. CASE UNCHANGED leakvars
  BY <1>1, LeakFrame
<1>2. CASE Next /\ Mutate
  BY <1>2, MutateKeeps
<1>3. CASE Next /\ Check
  <2>1. UNCHANGED leakvars \/ \E t \in Threads : Rerun(t) \/ PrintResults(t)
    BY <1>3 DEF Check, CheckFails
  <2> QED
    BY <1>1, <1>3, <2>1, ReportKeeps
<1>4. CASE Next /\ Trace
  <2>1. \/ UNCHANGED leakvars
        \/ CollectIgnored \/ ProcessGlobalRegions \/ ProcessThreads
        \/ ProcessThreadRegistry \/ MarkIndirectlyLeaked
        \/ \E c \in Chunks : FloodFillTag(c)
        \/ CollectLeaks \/ ResetTags
    BY <1>4 DEF Trace
  <2> QED
    BY <1>1, <1>4, <2>1, StageKeeps, CollectKeeps, ResetKeeps DEF HInv
<1>5. CASE Next /\ CallbackCrashes
  BY <1>5, CrashKeeps
<1>6. CASE UNCHANGED vars
  BY <1>1, <1>6 DEF vars
<1>7. CASE WorldStep \/ \E t \in Tasks : StopTask(t)
  BY <1>1, <1>7 DEF WorldStep, StopTask
<1> QED
  BY <1>2, <1>3, <1>4, <1>5, <1>6, <1>7 DEF Next

\* If all threads could be suspended, ClassifyAllChunks and CollectLeaksCb
\* find exactly the chunks that no root leads to, each with its tag, after
\* any number of earlier checks and whatever these left in the tags:
\* ReportIsExact.
THEOREM TheReportIsExact == Spec => []ReportIsExact
<1>1. LInv => ReportIsExact
  BY DEF LInv, Scanning, ReportIsExact
<1> QED
  BY <1>1, WorldInitInv, WorldNextInv, IdsInitInv, IdsNextInv, LeakInitInv, LeakNextInv,
     PTL DEF Spec

\* CheckForLeaksOnce reports no chunk that a suppressed one led to when the
\* leaks were collected, unless it has used up its reruns: looking for
\* indirect leaks beside a new suppression, which is all that it does, is
\* enough.  SuppressedHoldNothing.
THEOREM SuppressedChunksHoldNothing == Spec => []SuppressedHoldNothing
<1>1. LInv => SuppressedHoldNothing
  BY DEF LInv, HeldApart, SuppressedHoldNothing
<1> QED
  BY <1>1, WorldInitInv, WorldNextInv, IdsInitInv, IdsNextInv, LeakInitInv, LeakNextInv,
     PTL DEF Spec
=============================================================================
