----------------------------- MODULE AsanThreads -----------------------------
(***************************************************************************)
(* The life of an application thread under ASan: the interceptors of       *)
(* pthread_create, join, detach and exit (asan_interceptors.cpp), the      *)
(* AsanThread object and its context in the thread registry                *)
(* (asan_thread.cpp), and the arguments and return values kept for the     *)
(* leak checker (sanitizer_thread_arg_retval.cpp).                         *)
(*                                                                         *)
(* A thread is named by the tid of its context: ASan's registry never      *)
(* reuses one.  What the operating system does reuse are the pthread_t of  *)
(* a thread, once it is joined or was detached, and its kernel id.  The    *)
(* mutex of ThreadArgRetval is a variable because Create holds it while    *)
(* the new thread already runs; the methods of the registry, and the other *)
(* methods of ThreadArgRetval, are one action each.                        *)
(***************************************************************************)
EXTENDS Integers

CONSTANTS
  MaxTid,      \* bound: the tids are 0 .. MaxTid
  Handles,     \* the values of pthread_t
  OsIds,       \* the kernel's thread ids
  None,        \* no handle, no id, no thread
  kInvalidGen  \* ThreadArgRetval::kInvalidGen

kMainTid == 0
Tids == 0 .. MaxTid

\* The registry has at most UINT32_MAX contexts, and kInvalidGen = UINT32_MAX.
ASSUME ThreadsAssumption ==
  /\ MaxTid \in Nat
  /\ kInvalidGen \in Nat \ {0}
  /\ MaxTid <= kInvalidGen
  /\ None \notin Handles /\ None \notin OsIds /\ None \notin Tids

VARIABLES
  status,  \* ThreadContextBase::status
  detached, \* ThreadContextBase::detached
  thread,  \* AsanThreadContext::thread is set
  osId,    \* ThreadContextBase::os_id
  mapped,  \* the AsanThread is mapped
  pc,      \* where each thread is in its life
  kernel,  \* the kernel id of each thread
  handle,  \* the pthread_t of each thread
  free,    \* the pthread_t's the library may give to a new thread
  gone,    \* pthread detach state: the library frees the pthread_t at exit
  claim,   \* who may still join or detach each thread
  joinGen, \* what BeforeJoin returned to the thread that joins
  data,    \* ThreadArgRetval::data_
  gen,     \* ThreadArgRetval::gen_
  mtx      \* the thread whose Create holds ThreadArgRetval::mtx_

context == <<status, detached, thread, osId>>
os == <<kernel, handle, free, gone>>
args == <<data, gen>>
vars == <<context, mapped, pc, os, claim, joinGen, args, mtx>>

\* data_ has no entry for a handle.
NoEntry == [of |-> None, done |-> FALSE, detached |-> FALSE, gen |-> kInvalidGen]

\* The main thread runs; no interceptor created it.
Init ==
  /\ status = [t \in Tids |-> IF t = kMainTid THEN "Running" ELSE "Invalid"]
  /\ detached = [t \in Tids |-> t = kMainTid]
  /\ thread = [t \in Tids |-> t = kMainTid]
  /\ mapped = [t \in Tids |-> t = kMainTid]
  /\ pc = [t \in Tids |-> IF t = kMainTid THEN "routine" ELSE "none"]
  /\ \E h \in Handles, k \in OsIds :
       /\ kernel = [t \in Tids |-> IF t = kMainTid THEN k ELSE None]
       /\ osId = kernel
       /\ handle = [t \in Tids |-> IF t = kMainTid THEN h ELSE None]
       /\ free = Handles \ {h}
  /\ gone = [t \in Tids |-> FALSE]
  /\ claim = [t \in Tids |-> "closed"]
  /\ joinGen = [t \in Tids |-> kInvalidGen]
  /\ data = [h \in Handles |-> NoEntry]
  /\ gen = 0
  /\ mtx = None

Goto(t, l) == pc' = [pc EXCEPT ![t] = l]

-----------------------------------------------------------------------------
(* pthread_create *)

\* AsanThread::Create maps the object and registers its context, of a thread
\* whose attributes ask for it to be detached (d) or not.
AsanThreadCreate(t, d) ==
  /\ pc[t] = "none"
  /\ \A u \in 0 .. t - 1 : pc[u] # "none"
  /\ mapped' = [mapped EXCEPT ![t] = TRUE]
  /\ status' = [status EXCEPT ![t] = "Created"]
  /\ detached' = [detached EXCEPT ![t] = d]
  /\ thread' = [thread EXCEPT ![t] = TRUE]
  /\ Goto(t, "created")
  /\ UNCHANGED <<osId, os, claim, joinGen, args, mtx>>

\* ThreadArgRetval::Create takes the lock and calls the library's
\* pthread_create, which starts the thread ...
RealCreate(t, h, k) ==
  /\ pc[t] = "created"
  /\ mtx = None
  /\ h \in free
  /\ \A u \in Tids : kernel[u] # k
  /\ mtx' = t
  /\ handle' = [handle EXCEPT ![t] = h]
  /\ free' = free \ {h}
  /\ kernel' = [kernel EXCEPT ![t] = k]
  /\ gone' = [gone EXCEPT ![t] = detached[t]]
  /\ Goto(t, "entry")
  /\ UNCHANGED <<context, mapped, claim, joinGen, args>>

\* ... or fails.
RealCreateFails(t) ==
  /\ pc[t] = "created"
  /\ mtx = None
  /\ Goto(t, "failed")
  /\ UNCHANGED <<context, mapped, os, claim, joinGen, args, mtx>>

\* Mutant: gen_ does not advance.
CreateSameGen(t) ==
  /\ mtx = t
  /\ data' = [data EXCEPT ![handle[t]] =
                [of |-> t, done |-> FALSE, detached |-> detached[t], gen |-> gen]]
  /\ gen' = gen
  /\ mtx' = None
  /\ claim' = [claim EXCEPT ![t] = IF detached[t] THEN "closed" ELSE "open"]
  /\ UNCHANGED <<context, mapped, pc, os, joinGen>>

\* CreateLocked, while the new thread runs, and pthread_create returns.
CreateLocked(t) ==
  /\ mtx = t
  /\ data' = [data EXCEPT ![handle[t]] =
                [of |-> t, done |-> FALSE, detached |-> detached[t], gen |-> gen]]
  /\ gen' = IF gen + 1 = kInvalidGen THEN 0 ELSE gen + 1
  /\ mtx' = None
  /\ claim' = [claim EXCEPT ![t] = IF detached[t] THEN "closed" ELSE "open"]
  /\ UNCHANGED <<context, mapped, pc, os, joinGen>>

-----------------------------------------------------------------------------
(* asan_thread_start, and the end of the thread *)

\* SetCurrentThread and GetArgs.
GetArgs(t) ==
  /\ pc[t] = "entry"
  /\ mtx = None
  /\ Goto(t, "start")
  /\ UNCHANGED <<context, mapped, os, claim, joinGen, args, mtx>>

\* AsanThread::ThreadStart.
ThreadStart(t) ==
  /\ pc[t] = "start"
  /\ status' = [status EXCEPT ![t] = "Running"]
  /\ osId' = [osId EXCEPT ![t] = kernel[t]]
  /\ Goto(t, "routine")
  /\ UNCHANGED <<detached, thread, mapped, os, claim, joinGen, args, mtx>>

\* Mutant: the entry of a detached thread stays.
FinishKeepsDetached(t) ==
  LET h == handle[t]
  IN  /\ pc[t] = "routine"
      /\ mtx = None
      /\ data' = IF data[h] = NoEntry THEN data
                 ELSE [data EXCEPT ![h].done = TRUE]
      /\ Goto(t, "dtor")
      /\ UNCHANGED <<context, mapped, os, claim, joinGen, gen, mtx>>

\* The routine returns, or calls pthread_exit: ThreadArgRetval::Finish.  The
\* main thread has no entry.
Finish(t) ==
  LET h == handle[t]
  IN  /\ pc[t] = "routine"
      /\ mtx = None
      /\ data' = IF data[h] = NoEntry THEN data
                 ELSE IF data[h].detached THEN [data EXCEPT ![h] = NoEntry]
                 ELSE [data EXCEPT ![h].done = TRUE]
      /\ Goto(t, "dtor")
      /\ UNCHANGED <<context, mapped, os, claim, joinGen, gen, mtx>>

\* The thread is cancelled; pthread_cancel is not intercepted.
Cancel(t) ==
  /\ pc[t] = "routine"
  /\ Goto(t, "dtor")
  /\ UNCHANGED <<context, mapped, os, claim, joinGen, args, mtx>>

\* Mutant: the context keeps its pointer.
FinishKeepsThread(t) ==
  /\ pc[t] \in {"dtor", "failed"}
  /\ thread[t]
  /\ status' = [status EXCEPT ![t] =
                  IF detached[t] \/ @ = "Created" THEN "Dead"
                  ELSE "Finished"]
  /\ thread' = thread
  /\ Goto(t, IF pc[t] = "dtor" THEN "unmap" ELSE "unmap_failed")
  /\ UNCHANGED <<detached, osId, mapped, os, claim, joinGen, args, mtx>>

\* AsanThread::Destroy, from TSDDtor if the context still has a thread, or
\* from the creator of a thread that did not start: FinishThread ...
FinishThread(t) ==
  /\ pc[t] \in {"dtor", "failed"}
  /\ thread[t]
  /\ status' = [status EXCEPT ![t] =
                  IF detached[t] \/ @ = "Created" THEN "Dead"
                  ELSE "Finished"]
  /\ thread' = [thread EXCEPT ![t] = FALSE]
  /\ Goto(t, IF pc[t] = "dtor" THEN "unmap" ELSE "unmap_failed")
  /\ UNCHANGED <<detached, osId, mapped, os, claim, joinGen, args, mtx>>

\* ... and, after the thread's caches, stacks and shadow are flushed,
\* UnmapOrDie.
Unmap(t) ==
  /\ pc[t] \in {"unmap", "unmap_failed"}
  /\ mapped' = [mapped EXCEPT ![t] = FALSE]
  /\ Goto(t, IF pc[t] = "unmap" THEN "exit" ELSE "over")
  /\ UNCHANGED <<context, os, claim, joinGen, args, mtx>>

\* The kernel and the library forget the thread.
OsExit(t) ==
  /\ pc[t] = "exit"
  /\ kernel' = [kernel EXCEPT ![t] = None]
  /\ free' = IF gone[t] THEN free \cup {handle[t]} ELSE free
  /\ Goto(t, "over")
  /\ UNCHANGED <<context, mapped, handle, gone, claim, joinGen, args, mtx>>

-----------------------------------------------------------------------------
(* pthread_join, pthread_tryjoin_np, pthread_timedjoin_np, pthread_detach *)

BeforeJoin(t) ==
  LET e == data[handle[t]]
  IN  /\ claim[t] = "open"
      /\ mtx = None
      /\ e # NoEntry /\ ~e.detached  \* otherwise it reports and dies
      /\ joinGen' = [joinGen EXCEPT ![t] = e.gen]
      /\ claim' = [claim EXCEPT ![t] = "joining"]
      /\ UNCHANGED <<context, mapped, pc, os, args, mtx>>

\* The library's join waits for the end of the thread, and frees its handle.
RealJoin(t) ==
  /\ claim[t] = "joining"
  /\ pc[t] = "over"
  /\ free' = free \cup {handle[t]}
  /\ claim' = [claim EXCEPT ![t] = "joined"]
  /\ UNCHANGED <<context, mapped, pc, kernel, handle, gone, joinGen, args, mtx>>

\* The library's join fails: the thread still runs, or time is over.
RealJoinFails(t) ==
  /\ claim[t] = "joining"
  /\ claim' = [claim EXCEPT ![t] = "open"]
  /\ joinGen' = [joinGen EXCEPT ![t] = kInvalidGen]
  /\ UNCHANGED <<context, mapped, pc, os, args, mtx>>

AfterJoin(t) ==
  LET h == handle[t]
  IN  /\ claim[t] = "joined"
      /\ mtx = None
      /\ data' = IF data[h] = NoEntry \/ data[h].gen # joinGen[t] THEN data
                 ELSE [data EXCEPT ![h] = NoEntry]
      /\ claim' = [claim EXCEPT ![t] = "closed"]
      /\ joinGen' = [joinGen EXCEPT ![t] = kInvalidGen]
      /\ UNCHANGED <<context, mapped, pc, os, gen, mtx>>

\* ThreadArgRetval::Detach holds the lock around the library's detach, which
\* frees the handle of a thread that is over, and DetachLocked.
Detach(t) ==
  LET h == handle[t]
  IN  /\ claim[t] = "open"
      /\ mtx = None
      /\ gone' = [gone EXCEPT ![t] = TRUE]
      /\ free' = IF pc[t] = "over" THEN free \cup {h} ELSE free
      /\ data' = IF data[h].done THEN [data EXCEPT ![h] = NoEntry]
                 ELSE [data EXCEPT ![h].detached = TRUE]
      /\ claim' = [claim EXCEPT ![t] = "closed"]
      /\ UNCHANGED <<context, mapped, pc, kernel, handle, joinGen, gen, mtx>>

-----------------------------------------------------------------------------

PthreadCreate(t) ==
  \/ \E d \in BOOLEAN : AsanThreadCreate(t, d)
  \/ \E h \in Handles, k \in OsIds : RealCreate(t, h, k)
  \/ RealCreateFails(t)
  \/ CreateLocked(t)

Run(t) ==
  \/ GetArgs(t)
  \/ ThreadStart(t)
  \/ Finish(t)
  \/ Cancel(t)
  \/ FinishThread(t)
  \/ Unmap(t)
  \/ OsExit(t)

Join(t) ==
  \/ BeforeJoin(t)
  \/ RealJoin(t)
  \/ RealJoinFails(t)
  \/ AfterJoin(t)

Next == \E t \in Tids : PthreadCreate(t) \/ Run(t) \/ Join(t) \/ Detach(t)

Spec == Init /\ [][Next]_vars

-----------------------------------------------------------------------------
(* Properties *)

\* The thread has not come to Finish.
BeforeFinish(t) == pc[t] \in {"entry", "start", "routine"}

\* The entries of ThreadArgRetval are the roots the leak checker needs, and no
\* others, whenever it holds the lock.  It finds the argument of every thread
\* that has not finished, which is also what GetArgs hands the thread even when
\* its pthread_t is a reused one, and the return value of every thread somebody
\* may still join.  No entry outlives its thread's last join or detach, but for
\* the thread that was cancelled, detached and has never called Finish.
RootsExact ==
  mtx = None =>
    /\ \A t \in Tids \ {kMainTid} :
         /\ BeforeFinish(t) => data[handle[t]].of = t /\ ~data[handle[t]].done
         /\ claim[t] \in {"open", "joining"} => data[handle[t]].of = t
    /\ \A h \in Handles, t \in Tids :
         data[h].of = t =>
           /\ handle[t] = h
           /\ \/ BeforeFinish(t)
              \/ claim[t] # "closed"
              \/ data[h].detached /\ ~data[h].done

\* A legal join or detach is never told that its thread is unknown, and the
\* end of a join erases the entry of the thread it joined or none: its
\* pthread_t may belong to another thread by then.
JoinsMeetTheirThread ==
  \A t \in Tids :
    LET e == data[handle[t]]
    IN  /\ mtx = None /\ claim[t] = "open" => e # NoEntry /\ ~e.detached
        /\ mtx = None /\ claim[t] = "joined" /\ e.gen = joinGen[t] =>
             e.of = t /\ ~e.detached

\* Whoever holds the lock of the registry may follow the pointer of a context
\* to the AsanThread; every AsanThread that is mapped has one more Destroy
\* ahead of it.
ThreadIsMapped ==
  \A t \in Tids :
    /\ thread[t] => mapped[t]
    /\ mapped[t] =>
         pc[t] \in {"unmap", "unmap_failed"} \/ (thread[t] /\ pc[t] # "over")

=============================================================================
