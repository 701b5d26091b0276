---------------------------- MODULE StopTheWorld ----------------------------
(***************************************************************************)
(* LockStuffAndStopTheWorld (lsan_common_linux.cpp) and StopTheWorld       *)
(* (sanitizer_stoptheworld_linux_libcdep.cpp): a thread takes the locks    *)
(* the leak checker needs and clones a tracer, which attaches to every     *)
(* thread of the process, runs a callback and detaches.  Meanwhile threads *)
(* create threads, end, fork, refill their caches and load libraries.      *)
(*                                                                         *)
(* The callback is the interval in which tpc is "callback": a module that  *)
(* extends this one fills it and ends it with EndCallback.                 *)
(***************************************************************************)
EXTENDS Integers, FiniteSets

CONSTANTS
  Threads,     \* threads of the application: their tids in the thread registry
  Foreign,     \* threads that ASan knows nothing of, from a raw clone
  Started,     \* the threads that run when the model starts
  Ended,       \* the threads that have ended by then
  Detached,    \* the threads created with the detached attribute, and tid 0
  kMaxTries,   \* 30, how often SuspendAllThreads lists the threads
  MaxFaults,   \* bound on incomplete listings, tasks that resist and signals
  MaxChecks,   \* bound on the number of leak checks
  MaxTurns,    \* bound on what else threads do: raw clones, locks, the heap
  None

ASSUME WorldAssumption ==
  /\ Threads \subseteq Nat
  /\ Started \subseteq Threads /\ Ended \subseteq Threads
  /\ Started \cap Ended = {}
  /\ Threads \cap Foreign = {}
  /\ kMaxTries \in Nat \ {0}
  /\ MaxFaults \in Nat
  /\ MaxChecks \in Nat
  /\ MaxTurns \in Nat
  /\ None \notin Threads \cup Foreign

Tasks == Threads \cup Foreign

VARIABLES
  pc,         \* what a task is doing
  tr,         \* its state under ptrace: "free", "attached", "signalled", "stopped"
  making,     \* the thread that a thread in pthread_create makes
  os_id,      \* its kernel id, named after the first thread that had it
  global,     \* holder of global_mutex
  dl,         \* holder of the lock of the dynamic linker
  registry,   \* holder of what LockThreads locks
  allocator,  \* holder of what LockAllocator locks
  tpc,        \* what the tracer is doing
  todo,       \* the listed tasks that are still to be looked at
  target,     \* the task SuspendThread is at
  retry,
  tries,      \* listings so far
  suspended,  \* suspended_threads_list_
  done,       \* of TracerThreadArgument
  success,    \* of CheckForLeaksParam
  died,       \* the process has ended in Die()
  faults,     \* incomplete listings, tasks that have resisted and signals so far
  checks,     \* leak checks so far
  turns,      \* raw clones and what threads have done to the locks and the heap
  troubled    \* the last listing was incomplete or a living task resisted

locks == <<global, dl, registry, allocator>>
tracer == <<tpc, todo, target, retry, tries, suspended, troubled>>
outcome == <<done, success, died>>
bounds == <<faults, checks, turns>>
world == <<pc, tr, making, os_id, locks, tracer, outcome, bounds>>

WorldInit ==
  /\ pc = [t \in Tasks |-> CASE t \in Started -> "user"
                            [] t \in Ended -> "dead"
                            [] OTHER -> "none"]
  /\ tr = [t \in Tasks |-> "free"]
  /\ making = [t \in Threads |-> None]
  /\ os_id = [t \in Threads |-> t]
  /\ global = None /\ dl = None /\ registry = None /\ allocator = None
  /\ tpc = "none"
  /\ todo = {} /\ target = None
  /\ retry = FALSE /\ tries = 0
  /\ suspended = {}
  /\ done = FALSE /\ success = FALSE /\ died = FALSE
  /\ faults = 0 /\ checks = 0 /\ turns = 0
  /\ troubled = FALSE

Alive(t) == pc[t] \notin {"none", "dead"}
Executes(t) == Alive(t) /\ tr[t] \in {"free", "attached"}
\* ThreadStatusRunning: between StartThread and FinishThread.
Running(t) == t \in Threads /\ pc[t] \notin {"none", "born", "exit", "dead"}
InUserCode(t) == pc[t] = "user" /\ Executes(t)

At(t, label) == pc[t] = label /\ Executes(t)
Goto(t, label) == pc' = [pc EXCEPT ![t] = label]
TracerGoto(label) == tpc' = label
FaultHappens == faults < MaxFaults /\ faults' = faults + 1
TakeTurn == turns < MaxTurns /\ turns' = turns + 1

-----------------------------------------------------------------------------
(* What the threads of the application do *)

\* The thread has a context in the thread registry, which no other one gets.
Registered(t) == pc[t] # "none" \/ \E q \in Threads : making[q] = t

\* pthread_create registers the thread in the thread registry, under the next
\* tid ...
CreateThread(p, t) ==
  /\ InUserCode(p)
  /\ registry = None
  /\ ~Registered(t)
  /\ \A s \in Threads : s < t => Registered(s)
  /\ making' = [making EXCEPT ![p] = t]
  /\ Goto(p, "create")
  /\ UNCHANGED <<tr, os_id, locks, tracer, outcome, bounds>>

\* The ids the kernel may give to a thread: a new one, or that of a thread that
\* has ended.  An id that a foreign task has had is as good as a new one.
KernelIds(t) ==
  {i \in {t} \cup {os_id[d] : d \in {u \in Threads : pc[u] = "dead"}} :
     \A u \in Threads : Alive(u) => os_id[u] # i}

\* ... and calls the real one with asanThreadArgRetval() locked.
CloneThread(p) ==
  /\ At(p, "create")
  /\ registry = None
  /\ pc' = [pc EXCEPT ![p] = "user", ![making[p]] = "born"]
  /\ \E i \in KernelIds(making[p]) : os_id' = [os_id EXCEPT ![making[p]] = i]
  /\ making' = [making EXCEPT ![p] = None]
  /\ UNCHANGED <<tr, locks, tracer, outcome, bounds>>

StartThread(t) ==
  /\ At(t, "born")
  /\ registry = None
  /\ Goto(t, "user")
  /\ UNCHANGED <<tr, making, os_id, locks, tracer, outcome, bounds>>

FinishThread(t) ==
  /\ InUserCode(t)
  /\ registry = None
  /\ Goto(t, "exit")
  /\ UNCHANGED <<tr, making, os_id, locks, tracer, outcome, bounds>>

CloneForeign(p, f) ==
  /\ InUserCode(p) \/ At(p, "foreign")
  /\ pc[f] = "none"
  /\ TakeTurn
  /\ Goto(f, "foreign")
  /\ UNCHANGED <<tr, making, os_id, locks, tracer, outcome, faults, checks>>

Exit(t) ==
  /\ At(t, "exit") \/ At(t, "foreign")
  /\ Goto(t, "dead")
  /\ tr' = [tr EXCEPT ![t] = "free"]
  /\ UNCHANGED <<making, os_id, locks, tracer, outcome, bounds>>

\* malloc takes a lock of the allocator when the cache of the thread is empty.
Refill(t) ==
  /\ InUserCode(t)
  /\ TakeTurn
  /\ allocator = None
  /\ allocator' = t
  /\ Goto(t, "refill")
  /\ UNCHANGED <<tr, making, os_id, global, dl, registry, tracer, outcome, faults,
                 checks>>

RefillDone(t) ==
  /\ At(t, "refill")
  /\ allocator' = None
  /\ Goto(t, "user")
  /\ UNCHANGED <<tr, making, os_id, global, dl, registry, tracer, outcome, bounds>>

\* dlopen and the like.
DlOpen(t) ==
  /\ InUserCode(t)
  /\ TakeTurn
  /\ dl = None
  /\ dl' = t
  /\ Goto(t, "dlopen")
  /\ UNCHANGED <<tr, making, os_id, global, registry, allocator, tracer, outcome,
                 faults, checks>>

DlOpenDone(t) ==
  /\ At(t, "dlopen")
  /\ dl' = None
  /\ Goto(t, "user")
  /\ UNCHANGED <<tr, making, os_id, global, registry, allocator, tracer, outcome,
                 bounds>>

\* BeforeFork, lock by lock, and AfterFork in the parent.
ForkLockGlobal(t) ==
  /\ InUserCode(t)
  /\ TakeTurn
  /\ global = None
  /\ global' = t
  /\ Goto(t, "fork_threads")
  /\ UNCHANGED <<tr, making, os_id, dl, registry, allocator, tracer, outcome,
                 faults, checks>>

ForkLockThreads(t) ==
  /\ At(t, "fork_threads")
  /\ registry = None
  /\ registry' = t
  /\ Goto(t, "fork_allocator")
  /\ UNCHANGED <<tr, making, os_id, global, dl, allocator, tracer, outcome, bounds>>

ForkLockAllocator(t) ==
  /\ At(t, "fork_allocator")
  /\ allocator = None
  /\ allocator' = t
  /\ Goto(t, "fork")
  /\ UNCHANGED <<tr, making, os_id, global, dl, registry, tracer, outcome, bounds>>

AfterFork(t) ==
  /\ At(t, "fork")
  /\ global' = None /\ registry' = None /\ allocator' = None
  /\ Goto(t, "user")
  /\ UNCHANGED <<tr, making, os_id, dl, tracer, outcome, bounds>>

-----------------------------------------------------------------------------
(* The thread that checks for leaks *)

CheckForLeaks(t) ==
  /\ InUserCode(t)
  /\ global = None
  /\ checks < MaxChecks
  /\ checks' = checks + 1
  /\ global' = t
  /\ Goto(t, "iterate")
  /\ UNCHANGED <<tr, making, os_id, dl, registry, allocator, tracer, outcome,
                 faults, turns>>

\* Mutant: StopTheWorld is called outside dl_iterate_phdr.
DlIterateUnlocked(t) ==
  /\ At(t, "iterate")
  /\ success' = FALSE
  /\ Goto(t, "lock_threads")
  /\ UNCHANGED <<tr, making, os_id, locks, tracer, done, died, bounds>>

\* LockStuffAndStopTheWorld runs its callback under the lock of the linker.
DlIterate(t) ==
  /\ At(t, "iterate")
  /\ dl = None
  /\ dl' = t
  /\ success' = FALSE
  /\ Goto(t, "lock_threads")
  /\ UNCHANGED <<tr, making, os_id, global, registry, allocator, tracer, done,
                 died, bounds>>

LockThreads(t) ==
  /\ At(t, "lock_threads")
  /\ registry = None
  /\ registry' = t
  /\ Goto(t, "lock_allocator")
  /\ UNCHANGED <<tr, making, os_id, global, dl, allocator, tracer, outcome, bounds>>

LockAllocator(t) ==
  /\ At(t, "lock_allocator")
  /\ allocator = None
  /\ allocator' = t
  /\ Goto(t, "spawn")
  /\ UNCHANGED <<tr, making, os_id, global, dl, registry, tracer, outcome, bounds>>

\* The tracer does nothing before the mutex of its argument is released, when
\* it may trace its parent.
SpawnTracer(t) ==
  /\ At(t, "spawn")
  /\ done' = FALSE
  /\ TracerGoto("suspend")
  /\ suspended' = {}
  /\ tries' = 0
  /\ retry' = TRUE
  /\ troubled' = FALSE
  /\ Goto(t, "spin")
  /\ UNCHANGED <<tr, making, os_id, locks, todo, target, success, died, bounds>>

SpawnFails(t) ==
  /\ At(t, "spawn")
  /\ Goto(t, "unlock")
  /\ UNCHANGED <<tr, making, os_id, locks, tracer, outcome, bounds>>

SpinEnds(t) ==
  /\ At(t, "spin")
  /\ done
  /\ Goto(t, "unlock")
  /\ UNCHANGED <<tr, making, os_id, locks, tracer, outcome, bounds>>

Unlock(t) ==
  /\ At(t, "unlock")
  /\ dl' = None /\ registry' = None /\ allocator' = None
  /\ Goto(t, "report")
  /\ UNCHANGED <<tr, making, os_id, global, tracer, outcome, bounds>>

-----------------------------------------------------------------------------
(* The tracer: SuspendAllThreads *)

List(l) ==
  /\ tpc = "suspend"
  /\ retry /\ tries < kMaxTries
  /\ tries' = tries + 1
  /\ todo' = l \ suspended
  /\ TracerGoto("attach")

\* ThreadLister::Ok.  Who is born or ends while the directory is read may be
\* listed or not: that is as if it were born later, or ended later.  The kernel
\* is taken to end a listing early only in the ways ThreadLister looks for.
ListThreads ==
  /\ List({t \in Tasks : Alive(t)})
  /\ retry' = FALSE
  /\ troubled' = FALSE
  /\ UNCHANGED <<pc, tr, making, os_id, locks, target, suspended, outcome, bounds>>

\* ThreadLister::Incomplete: tasks that are alive may be missing.
ListIncomplete ==
  /\ FaultHappens
  /\ \E l \in SUBSET {t \in Tasks : Alive(t)} : List(l)
  /\ retry' = TRUE
  /\ troubled' = TRUE
  /\ UNCHANGED <<pc, tr, making, os_id, locks, target, suspended, outcome, checks,
                 turns>>

\* ThreadLister::Error: SuspendAllThreads resumes whom it has suspended.
ListError ==
  /\ tpc = "suspend"
  /\ retry /\ tries < kMaxTries
  /\ TracerGoto("resume")
  /\ UNCHANGED <<pc, tr, making, os_id, locks, todo, target, retry, tries, suspended,
                 troubled, outcome, bounds>>

\* PTRACE_ATTACH; the task runs on until the signal reaches it.
Attach(t) ==
  /\ tpc = "attach"
  /\ t \in todo
  /\ Alive(t) /\ tr[t] = "free"
  /\ todo' = todo \ {t}
  /\ tr' = [tr EXCEPT ![t] = "attached"]
  /\ target' = t
  /\ TracerGoto("waitpid")
  /\ UNCHANGED <<pc, making, os_id, locks, retry, tries, suspended, troubled,
                 outcome, bounds>>

\* The task is dead, or something prevents the tracer from attaching: it is
\* attached already, after WaitpidFails, or the kernel refuses.
AttachFails(t) ==
  /\ tpc = "attach"
  /\ t \in todo
  /\ \/ ~Alive(t) /\ UNCHANGED <<faults, troubled>>
     \/ Alive(t) /\ tr[t] # "free" /\ troubled' = TRUE /\ UNCHANGED faults
     \/ Alive(t) /\ FaultHappens /\ troubled' = TRUE
  /\ todo' = todo \ {t}
  /\ UNCHANGED <<pc, tr, making, os_id, locks, tpc, target, retry, tries,
                 suspended, outcome, checks, turns>>

ListDone ==
  /\ tpc = "attach"
  /\ todo = {}
  /\ TracerGoto("suspend")
  /\ UNCHANGED <<pc, tr, making, os_id, locks, todo, target, retry, tries,
                 suspended, troubled, outcome, bounds>>

\* The kernel stops the task for the tracer, or first for another signal.
Stop(t) ==
  /\ tr[t] = "attached"
  /\ tr' = [tr EXCEPT ![t] = "stopped"]
  /\ UNCHANGED <<pc, making, os_id, locks, tracer, outcome, bounds>>

StopForSignal(t) ==
  /\ tr[t] = "attached"
  /\ FaultHappens
  /\ tr' = [tr EXCEPT ![t] = "signalled"]
  /\ UNCHANGED <<pc, making, os_id, locks, tracer, outcome, checks, turns>>

ForwardSignal ==
  /\ tpc = "waitpid"
  /\ tr[target] = "signalled"
  /\ tr' = [tr EXCEPT ![target] = "attached"]
  /\ UNCHANGED <<pc, making, os_id, locks, tracer, outcome, bounds>>

\* Mutant: SuspendThread does not wait for the task to stop.
SuspendedAtOnce ==
  /\ tpc = "waitpid"
  /\ suspended' = suspended \cup {target}
  /\ retry' = TRUE
  /\ target' = None
  /\ TracerGoto("attach")
  /\ UNCHANGED <<pc, tr, making, os_id, locks, todo, tries, troubled, outcome,
                 bounds>>

\* waitpid has seen the task stop, or end.
Suspended ==
  /\ tpc = "waitpid"
  /\ tr[target] = "stopped" \/ ~Alive(target)
  /\ suspended' = suspended \cup {target}
  /\ retry' = TRUE
  /\ target' = None
  /\ TracerGoto("attach")
  /\ UNCHANGED <<pc, tr, making, os_id, locks, todo, tries, troubled, outcome,
                 bounds>>

\* waitpid fails, and the task is detached, which needs a task that is stopped.
WaitpidFails ==
  /\ tpc = "waitpid"
  /\ FaultHappens
  /\ tr' = IF tr[target] = "attached" THEN tr ELSE [tr EXCEPT ![target] = "free"]
  /\ troubled' = (troubled \/ Alive(target))
  /\ target' = None
  /\ TracerGoto("attach")
  /\ UNCHANGED <<pc, making, os_id, locks, todo, retry, tries, suspended, outcome,
                 checks, turns>>

SuspendAllThreads ==
  /\ tpc = "suspend"
  /\ ~retry \/ tries = kMaxTries
  /\ TracerGoto(IF suspended = {} THEN "resume" ELSE "callback")
  /\ UNCHANGED <<pc, tr, making, os_id, locks, todo, target, retry, tries,
                 suspended, troubled, outcome, bounds>>

-----------------------------------------------------------------------------
(* The tracer: the end *)

EndCallback(ok) ==
  /\ tpc = "callback"
  /\ TracerGoto("resume")
  /\ success' = ok
  /\ UNCHANGED <<pc, tr, making, os_id, locks, todo, target, retry, tries,
                 suspended, troubled, done, died, bounds>>

\* A synchronous signal in the callback: TracerThreadSignalHandler resumes
\* the threads, or kills them after an abort.
TracerSignal == EndCallback(FALSE)

TracerAbort ==
  /\ tpc = "callback"
  /\ died' = TRUE
  /\ UNCHANGED <<pc, tr, making, os_id, locks, tracer, done, success, bounds>>

ResumeThread(t) ==
  /\ tpc = "resume"
  /\ t \in suspended
  /\ suspended' = suspended \ {t}
  /\ tr' = [tr EXCEPT ![t] = "free"]
  /\ UNCHANGED <<pc, making, os_id, locks, tpc, todo, target, retry, tries,
                 troubled, outcome, bounds>>

\* The tracer exits, upon which the kernel detaches what it has left attached.
TracerDone ==
  /\ tpc = "resume"
  /\ suspended = {}
  /\ done' = TRUE
  /\ TracerGoto("none")
  /\ tr' = [t \in Tasks |-> "free"]
  /\ UNCHANGED <<pc, making, os_id, locks, todo, target, retry, tries,
                 suspended, troubled, success, died, bounds>>
=============================================================================
