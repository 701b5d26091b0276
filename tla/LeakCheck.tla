----------------------------- MODULE LeakCheck -----------------------------
(***************************************************************************)
(* The leak checker (lsan_common.cpp) in ASan's runtime, as the callback   *)
(* of StopTheWorld, with the threads that change the heap it examines.     *)
(*                                                                         *)
(* The heap is a set of chunks with pointers between them.  The roots are  *)
(* the globals, what a thread can reach from its stack, registers and TLS, *)
(* and the arguments of threads.  Root regions, fibers and poisoned words  *)
(* are left out; the flags have their default values.                      *)
(***************************************************************************)
EXTENDS StopTheWorld

CONSTANTS
  Chunks,
  Stack,       \* the stack trace a chunk is allocated with
  Matching,    \* the stack traces a suppression rule matches
  Heaps,       \* the heaps the program has when the model starts
  kMaxReruns   \* 8

ASSUME HeapsAssumption == \A h \in Heaps : h.alive \subseteq Chunks

VARIABLES
  alive,       \* chunks in state CHUNK_ALLOCATED
  points,      \* the chunks a chunk points to
  globals,     \* the chunks the globals point to
  local,       \* the chunks the stack, registers and TLS of a thread point to
  argument,    \* the argument or result asanThreadArgRetval() keeps for a thread
  tag,         \* lsan_tag
  stage,       \* what CheckForLeaksCallback is doing
  frontier,
  leaks,       \* param.leaks: chunks with their tags
  suppressed,  \* suppressed_stacks
  reruns,      \* i in CheckForLeaksOnce
  reported,    \* the chunks of the report that followed the last scan
  gave_up,     \* the last report ignores suppressions that were new
  ignored,     \* the chunks the application has asked to ignore
  lost,        \* the chunks among them whose tag a scan has overwritten
  held         \* what suppressed chunks led to when the leaks were collected

heap == <<alive, points, globals, local, argument>>
scan == <<stage, frontier, leaks>>
results == <<suppressed, reruns, reported, gave_up>>
ghosts == <<ignored, lost, held>>
leakvars == <<heap, tag, scan, results, ghosts>>
vars == <<world, leakvars>>

Init ==
  /\ WorldInit
  /\ \E h \in Heaps :
       /\ points = h.points
       /\ globals = h.globals
       /\ local = [t \in Threads |-> IF t \in DOMAIN h.local THEN h.local[t] ELSE {}]
       /\ alive = h.alive
  /\ argument = [t \in Threads |-> {}]
  /\ tag = [c \in Chunks |-> "direct"]
  /\ stage = "none" /\ frontier = {} /\ leaks = {}
  /\ suppressed = {} /\ reruns = 0 /\ reported = {} /\ gave_up = FALSE
  /\ ignored = {} /\ lost = {} /\ held = {}

-----------------------------------------------------------------------------
(* What the threads do to the heap *)

Operate(t) ==
  /\ InUserCode(t)
  /\ TakeTurn
  /\ UNCHANGED <<pc, tr, making, os_id, locks, tracer, outcome, faults, checks, argument,
                 scan, results, held>>

\* A chunk is ignored from the start in the scope of __lsan_disable.
Malloc(t, c) ==
  /\ Operate(t)
  /\ c \notin alive
  /\ alive' = alive \cup {c}
  /\ points' = [points EXCEPT ![c] = {}]
  /\ local' = [local EXCEPT ![t] = @ \cup {c}]
  /\ \E disabled \in BOOLEAN :
       /\ tag' = [tag EXCEPT ![c] = IF disabled THEN "ignored" ELSE "direct"]
       /\ ignored' = IF disabled THEN ignored \cup {c} ELSE ignored
  /\ UNCHANGED <<globals, lost>>

\* Pointers to the chunk remain where they are.
Free(t, c) ==
  /\ Operate(t)
  /\ c \in local[t] \cap alive
  /\ alive' = alive \ {c}
  /\ ignored' = ignored \ {c}
  /\ lost' = lost \ {c}
  /\ UNCHANGED <<points, globals, local, tag>>

Load(t, c) ==
  /\ Operate(t)
  /\ c \in globals \cup UNION {points[d] : d \in local[t] \cap alive}
  /\ local' = [local EXCEPT ![t] = @ \cup {c}]
  /\ UNCHANGED <<alive, points, globals, tag, ignored, lost>>

Store(t, c, d) ==
  /\ Operate(t)
  /\ c \in local[t] \cap alive
  /\ \/ d \in local[t] /\ points' = [points EXCEPT ![c] = @ \cup {d}]
     \/ d \in points[c] /\ points' = [points EXCEPT ![c] = @ \ {d}]
  /\ UNCHANGED <<alive, globals, local, tag, ignored, lost>>

StoreGlobal(t, d) ==
  /\ Operate(t)
  /\ \/ d \in local[t] /\ globals' = globals \cup {d}
     \/ d \in globals /\ globals' = globals \ {d}
  /\ UNCHANGED <<alive, points, local, tag, ignored, lost>>

Forget(t, c) ==
  /\ Operate(t)
  /\ c \in local[t]
  /\ local' = [local EXCEPT ![t] = @ \ {c}]
  /\ UNCHANGED <<alive, points, globals, tag, ignored, lost>>

\* __lsan_ignore_object, under global_mutex.
IgnoreObject(t, c) ==
  /\ Operate(t)
  /\ global = None
  /\ c \in local[t] \cap alive
  /\ tag' = [tag EXCEPT ![c] = "ignored"]
  /\ ignored' = ignored \cup {c}
  /\ lost' = lost \ {c}
  /\ UNCHANGED <<alive, points, globals, local>>

\* The thread is known to asanThreadArgRetval() as soon as it exists.
Create(p, a) ==
  /\ CloneThread(p)
  /\ a \subseteq local[p] /\ Cardinality(a) <= 1
  /\ argument' = [argument EXCEPT ![making[p]] = a]
  /\ UNCHANGED <<alive, points, globals, local, tag, scan, results, ghosts>>

Start(t) ==
  /\ StartThread(t)
  /\ local' = [local EXCEPT ![t] = argument[t]]
  /\ UNCHANGED <<alive, points, globals, argument, tag, scan, results, ghosts>>

\* A thread ends, and what it returns is kept unless it is detached ...
Finish(t, r) ==
  /\ FinishThread(t)
  /\ r \subseteq local[t] /\ Cardinality(r) <= 1
  /\ t \in Detached => r = {}
  /\ local' = [local EXCEPT ![t] = {}]
  /\ argument' = [argument EXCEPT ![t] = r]
  /\ UNCHANGED <<alive, points, globals, tag, scan, results, ghosts>>

\* ... until a thread has joined it: AfterJoin.
Join(p, t) ==
  /\ InUserCode(p)
  /\ pc[t] = "dead" /\ t \notin Detached
  /\ registry = None
  /\ local' = [local EXCEPT ![p] = @ \cup argument[t]]
  /\ argument' = [argument EXCEPT ![t] = {}]
  /\ UNCHANGED <<world, alive, points, globals, tag, scan, results, ghosts>>

-----------------------------------------------------------------------------
(* The definition of a leak *)

\* The chunks that a chain of pointers leads to from the set given.
Reachable(from) ==
  {c \in alive : \A s \in SUBSET alive :
     /\ from \cap alive \subseteq s
     /\ \A d \in s : points[d] \cap alive \subseteq s
     => c \in s}

\* ASan joins no context: that of a thread which was not detached stays in the
\* registry with its kernel id, and hides a later thread with the same id.
Hidden(t) ==
  \E c \in Threads \ Detached :
    c < t /\ os_id[c] = os_id[t] /\ pc[c] \in {"exit", "dead"}

\* The threads whose memory can be found.
Seen(t) == Running(t) /\ ~Hidden(t)

Roots ==
  globals \cup (ignored \ lost) \cup {c \in alive : Stack[c] \in suppressed}
    \cup (UNION {argument[t] : t \in Threads})
    \cup (UNION {local[t] : t \in {u \in Threads : Seen(u)}})

Leaked == alive \ Reachable(Roots)

\* A leak is direct unless another one points to it.
Leaks ==
  {<<c, IF \E d \in Leaked \ {c} : c \in points[d] THEN "indirect" ELSE "direct">> :
     c \in Leaked}

-----------------------------------------------------------------------------
(* CheckForLeaksCallback, in the tracer *)

InCallback(s) == tpc = "callback" /\ stage = s

Retag(found, to) == tag' = [c \in Chunks |-> IF c \in found THEN to ELSE tag[c]]

Untouched(c) == tag[c] \notin {"reachable", "ignored"}

\* ScanForPointers for reachable chunks.
ScanRange(pointers) ==
  LET found == {c \in pointers \cap alive : Untouched(c)}
  IN /\ Retag(found, "reachable")
     /\ frontier' = frontier \cup found

\* ReportUnsuspendedThreads only warns (thread_suspend_fail=1); then
\* IgnoredSuppressedCb and CollectIgnoredCb.
CollectIgnored ==
  /\ InCallback("none")
  /\ Retag({c \in alive : Stack[c] \in suppressed}, "ignored")
  /\ frontier' = {c \in alive : tag'[c] = "ignored"}
  /\ leaks' = {}
  /\ stage' = "globals"
  /\ UNCHANGED <<world, heap, results, ghosts>>

ProcessGlobalRegions ==
  /\ InCallback("globals")
  /\ dl \in {None, global}  \* dl_iterate_phdr: the tracer shares its parent's lock
  /\ ScanRange(globals)
  /\ stage' = "threads"
  /\ UNCHANGED <<world, heap, leaks, results, ghosts>>

\* FindThreadContextByOsIdCallback: the context is in use or finished, not dead.
HasOsId(c, id) ==
  /\ os_id[c] = id
  /\ Running(c) \/ (pc[c] \in {"exit", "dead"} /\ c \notin Detached)

\* The first context with the kernel id, if there is one.
FindThreadContextByOsIDLocked(id) ==
  {c \in Threads : HasOsId(c, id) /\ \A d \in Threads : HasOsId(d, id) => c <= d}

\* A task that is not found in the registry is skipped, and so is one whose
\* context has no AsanThread any more.
ProcessThreads ==
  /\ InCallback("threads")
  /\ LET found == UNION {FindThreadContextByOsIDLocked(os_id[t]) :
                           t \in suspended \cap Threads}
     IN ScanRange(UNION {local[c] : c \in {d \in found : Running(d)}})
  /\ stage' = "registry"
  /\ UNCHANGED <<world, heap, leaks, results, ghosts>>

\* An ignored chunk becomes reachable here, and ResetTags makes it a chunk like
\* any other.
ProcessThreadRegistry ==
  /\ InCallback("registry")
  /\ LET found == alive \cap UNION {argument[t] : t \in Threads}
     IN /\ Retag(found, "reachable")
        /\ frontier' = frontier \cup found
        /\ lost' = lost \cup (found \cap ignored)
  /\ stage' = "flood"
  /\ UNCHANGED <<world, heap, leaks, results, ignored, held>>

FloodFillTag(c) ==
  /\ InCallback("flood")
  /\ c \in frontier
  /\ LET found == {d \in points[c] \cap alive : Untouched(d)}
     IN /\ Retag(found, "reachable")
        /\ frontier' = (frontier \ {c}) \cup found
  /\ UNCHANGED <<world, heap, stage, leaks, results, ghosts>>

MarkIndirectlyLeaked ==
  /\ InCallback("flood")
  /\ frontier = {}
  /\ LET from == {c \in alive : tag[c] # "reachable"}
     IN Retag({d \in alive : Untouched(d) /\ \E c \in from \ {d} : d \in points[c]},
              "indirect")
  /\ stage' = "collect"
  /\ UNCHANGED <<world, heap, frontier, leaks, results, ghosts>>

\* CollectLeaksCb.
CollectLeaks ==
  /\ InCallback("collect")
  /\ leaks' = {<<c, tag[c]>> : c \in {d \in alive : Untouched(d)}}
  /\ held' = IF troubled THEN {} ELSE
             Reachable({c \in alive : Stack[c] \in Matching})
  /\ reported' = {}
  /\ stage' = "reset"
  /\ UNCHANGED <<world, heap, tag, frontier, suppressed, reruns, gave_up, ignored, lost>>

\* Mutant: only the leaks are reset, and reachable chunks keep their tag.
ResetTagsOfLeaks ==
  /\ stage = "reset"
  /\ EndCallback(TRUE)
  /\ Retag({c \in alive : Untouched(c)}, "direct")
  /\ stage' = "none"
  /\ UNCHANGED <<heap, frontier, leaks, results, ghosts>>

\* ResetTagsCb.
ResetTags ==
  /\ stage = "reset"
  /\ EndCallback(TRUE)
  /\ Retag({c \in alive : tag[c] # "ignored"}, "direct")
  /\ stage' = "none"
  /\ UNCHANGED <<heap, frontier, leaks, results, ghosts>>

\* The tracer crashes in the middle of it.
CallbackCrashes ==
  /\ TracerSignal
  /\ stage' = "none"
  /\ frontier' = {}
  /\ UNCHANGED <<heap, tag, leaks, results, ghosts>>

-----------------------------------------------------------------------------
(* CheckForLeaksOnce, after the world has been resumed *)

CheckFails(t) ==
  /\ At(t, "report")
  /\ ~success
  /\ died' = TRUE
  /\ UNCHANGED <<pc, tr, making, os_id, locks, tracer, done, success, bounds, leakvars>>

NewlySuppressed == {Stack[l[1]] : l \in leaks} \cap Matching
Unsuppressed == {l \in leaks : Stack[l[1]] \notin Matching}

\* Mutant: a rerun is thought useless when all leaks left are indirect.
MayHoldLeaksDirect == NewlySuppressed # {} /\ \E l \in Unsuppressed : l[2] = "direct"

\* A new suppression may hold what was reported as an indirect leak.
MayHoldLeaks == NewlySuppressed # {} /\ \E l \in Unsuppressed : l[2] = "indirect"

Rerun(t) ==
  /\ At(t, "report")
  /\ success
  /\ MayHoldLeaks /\ reruns < kMaxReruns
  /\ suppressed' = suppressed \cup NewlySuppressed
  /\ reruns' = reruns + 1
  /\ leaks' = {}
  /\ Goto(t, "iterate")
  /\ UNCHANGED <<tr, making, os_id, locks, tracer, outcome, bounds, heap, tag, stage,
                 frontier, reported, gave_up, ghosts>>

\* The final check of a process ends it when there are leaks.
PrintResults(t) ==
  /\ At(t, "report")
  /\ success
  /\ ~MayHoldLeaks \/ reruns = kMaxReruns
  /\ suppressed' = suppressed \cup NewlySuppressed
  /\ reported' = {l[1] : l \in Unsuppressed}
  /\ gave_up' = MayHoldLeaks
  /\ reruns' = 0
  /\ leaks' = {}
  /\ global' = None
  /\ Goto(t, "user")
  /\ died' \in {FALSE, Unsuppressed # {}}
  /\ UNCHANGED <<tr, making, os_id, dl, registry, allocator, tracer, done, success, bounds,
                 heap, tag, stage, frontier, ghosts>>

-----------------------------------------------------------------------------
\* A step of the world that has no part in the heap.
WorldStep ==
  /\ \/ \E p, t \in Threads : CreateThread(p, t)
     \/ \E p \in Tasks, f \in Foreign : CloneForeign(p, f)
     \/ \E t \in Tasks : Exit(t)
     \/ \E t \in Threads : \/ Refill(t) \/ RefillDone(t) \/ DlOpen(t) \/ DlOpenDone(t)
                           \/ ForkLockGlobal(t) \/ ForkLockThreads(t)
                           \/ ForkLockAllocator(t) \/ AfterFork(t)
     \/ \E t \in Threads : CheckForLeaks(t)
     \/ \E t \in Tasks : StopForSignal(t)
     \/ TracerAbort
  /\ UNCHANGED leakvars

Mutate ==
  \/ \E t \in Threads, c \in Chunks : \/ Malloc(t, c) \/ Free(t, c) \/ Load(t, c)
                                      \/ StoreGlobal(t, c) \/ Forget(t, c)
                                      \/ IgnoreObject(t, c)
                                      \/ \E d \in Chunks : Store(t, c, d)
  \/ \E p \in Threads, a \in SUBSET Chunks : Create(p, a)
  \/ \E t \in Threads : Start(t) \/ \E r \in SUBSET Chunks : Finish(t, r)
  \/ \E p, t \in Threads : Join(p, t)

\* What the checker does under its own power.
Check ==
  \/ /\ \E t \in Threads : \/ DlIterate(t) \/ LockThreads(t) \/ LockAllocator(t)
                           \/ SpawnTracer(t) \/ SpawnFails(t) \/ SpinEnds(t)
                           \/ Unlock(t)
     /\ UNCHANGED leakvars
  \/ \E t \in Threads : CheckFails(t) \/ Rerun(t) \/ PrintResults(t)

Trace ==
  \/ /\ \/ ListThreads \/ ListIncomplete \/ ListError \/ ListDone \/ ForwardSignal
        \/ Suspended \/ WaitpidFails \/ SuspendAllThreads \/ TracerDone
        \/ \E t \in Tasks : Attach(t) \/ AttachFails(t) \/ ResumeThread(t)
     /\ UNCHANGED leakvars
  \/ CollectIgnored \/ ProcessGlobalRegions \/ ProcessThreads \/ ProcessThreadRegistry
  \/ \E c \in Chunks : FloodFillTag(c)
  \/ MarkIndirectlyLeaked \/ CollectLeaks \/ ResetTags

StopTask(t) == Stop(t) /\ UNCHANGED leakvars

Next ==
  /\ ~died
  /\ WorldStep \/ Mutate \/ Check \/ Trace \/ CallbackCrashes
     \/ \E t \in Tasks : StopTask(t)

Spec == Init /\ [][Next]_vars

\* A thread that holds a lock goes on, once it may.
Leave(t) ==
  /\ RefillDone(t) \/ DlOpenDone(t) \/ ForkLockThreads(t) \/ ForkLockAllocator(t)
     \/ AfterFork(t)
  /\ UNCHANGED leakvars

\* Every thread that can run is run, and so is the tracer; it need not crash.
FairSpec ==
  /\ Spec
  /\ WF_vars(~died /\ Check)
  /\ WF_vars(~died /\ Trace)
  /\ \A t \in Threads : WF_vars(~died /\ Leave(t))
  /\ \A t \in Tasks : WF_vars(~died /\ StopTask(t))

-----------------------------------------------------------------------------
(* Properties *)

\* While the callback looks at the heap, every thread that runs code of the
\* application is stopped, and not in the middle of a change to the allocator
\* or to the list of modules: its memory, its stack and the set of threads do
\* not change under the scan.  Listing all threads once is enough because
\* LockThreads keeps threads from starting and ending.
WorldStands ==
  [][tpc = "callback" /\ tpc' = "callback" /\ ~troubled
     => /\ \A t \in Threads : Running(t) => t \in suspended /\ tr[t] = "stopped"
        /\ \A t \in Threads : pc[t] \notin {"refill", "dlopen"}
        /\ UNCHANGED heap]_vars

\* If all threads could be suspended, what the scan collects is exactly what
\* no root leads to, with the right tag: ClassifyAllChunks against the
\* definition of a leak.  Two things are no roots that should be: the memory
\* of a hidden thread, and an ignored chunk whose tag is lost.
ReportIsExact == stage = "reset" /\ ~troubled => leaks = Leaks

\* What lsan_interface.h says of __lsan_ignore_object, "The heap object into
\* which p points will be treated as a non-leak", and CheckForLeaksCallback
\* relies on, "This assumes we did not overwrite any kIgnored tags": no chunk
\* that the application has asked to ignore is collected as a leak.
IgnoredIsNoLeak == stage = "reset" => {l[1] : l \in leaks} \cap ignored = {}

\* What ProcessThread says of a task it does not find: "If a thread can't be
\* found in the thread registry, it's probably in the process of destruction."
NotFoundIsEnding ==
  tpc = "callback" =>
    \A t \in suspended \cap Threads :
      Running(t) => \E c \in FindThreadContextByOsIDLocked(os_id[t]) : Running(c)

\* A reported leak was not held by a chunk that is suppressed: the rerun of
\* CheckForLeaksOnce, unless it gives up.
SuppressedHoldNothing == ~gave_up => reported \cap held = {}

\* A check ends, with a report or with the process, and then no thread is
\* left stopped.  So do the locks that a fork takes.
LeakCheckReturns ==
  global # None ~> (global = None /\ \A t \in Tasks : tr[t] # "stopped") \/ died
=============================================================================
