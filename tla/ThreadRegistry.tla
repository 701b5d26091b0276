--------------------------- MODULE ThreadRegistry ---------------------------
(***************************************************************************)
(* The registry of thread contexts (sanitizer_thread_registry.cpp): which  *)
(* tids are in use, which are dead but still described in reports, and     *)
(* which may be handed to a new thread.                                    *)
(*                                                                         *)
(* Every method holds mtx_ from its first line to its last, so a method is *)
(* one action.  JoinThread is the exception: it polls thread_destroyed and *)
(* lets go of the lock in between.  The callers are the threads of a       *)
(* process that use the registry as its interceptors do: a thread is named *)
(* by the unique_id its CreateThread drew, it starts and finishes once, or *)
(* finishes without having started, and a joinable thread is joined or     *)
(* detached at most once, by someone.                                      *)
(***************************************************************************)
EXTENDS Integers, Sequences, FiniteSets

CONSTANTS
  MaxThreads,      \* max_threads_
  QuarantineSize,  \* thread_quarantine_size_
  MaxReuse,        \* max_reuse_, 0 for no limit
  UserIds,         \* the values of pthread_t
  NoUser,          \* user_id 0
  MaxTotal         \* bound: how many threads are ever created

ASSUME RegistryAssumption ==
  /\ MaxThreads \in Nat \ {0}
  /\ QuarantineSize \in Nat
  /\ MaxReuse \in Nat
  /\ MaxTotal \in Nat
  /\ NoUser \notin UserIds

VARIABLES
  numThreads,  \* threads_.size()
  status,      \* ThreadContextBase::status
  detached,    \* ThreadContextBase::detached
  destroyed,   \* ThreadContextBase::thread_destroyed
  userId,      \* ThreadContextBase::user_id
  uniqueId,    \* ThreadContextBase::unique_id
  reuseCount,  \* ThreadContextBase::reuse_count
  dead,        \* dead_threads_
  invalid,     \* invalid_threads_
  live,        \* live_, the tid of each user_id
  total,       \* total_threads_
  alive,       \* alive_threads_
  maxAlive,    \* max_alive_threads_
  running,     \* running_threads_
  died,        \* the process has called Die
  tidOf,       \* the tid CreateThread gave each thread
  handle,      \* the pthread_t of each thread
  phase,       \* how far each thread has come
  claim        \* who may still join or detach each thread

context == <<status, detached, destroyed, userId, uniqueId, reuseCount>>
lists == <<numThreads, dead, invalid, live>>
counters == <<total, alive, maxAlive, running>>
callers == <<tidOf, handle, phase, claim>>
vars == <<context, lists, counters, died, callers>>

Tids == 0 .. MaxThreads - 1
kMainTid == 0
kInvalidTid == -1
Uniques == 0 .. MaxTotal - 1
Status == {"Invalid", "Created", "Running", "Finished", "Dead"}

Init ==
  /\ numThreads = 0
  /\ status = [t \in Tids |-> "Invalid"]
  /\ detached = [t \in Tids |-> FALSE]
  /\ destroyed = [t \in Tids |-> FALSE]
  /\ userId = [t \in Tids |-> NoUser]
  /\ uniqueId = [t \in Tids |-> 0]
  /\ reuseCount = [t \in Tids |-> 0]
  /\ dead = <<>>
  /\ invalid = <<>>
  /\ live = [i \in UserIds |-> kInvalidTid]
  /\ total = 0
  /\ alive = 0
  /\ maxAlive = 0
  /\ running = 0
  /\ died = FALSE
  /\ tidOf = [u \in Uniques |-> kInvalidTid]
  /\ handle = [u \in Uniques |-> NoUser]
  /\ phase = [u \in Uniques |-> "none"]
  /\ claim = [u \in Uniques |-> "closed"]

-----------------------------------------------------------------------------
(* Parts of the methods *)

\* The context QuarantinePush(t) takes from the front of the quarantine.
Evicts(t) == t # kMainTid /\ Len(Append(dead, t)) > QuarantineSize
Evicted(t) == Head(Append(dead, t))

\* QuarantinePush, with s the statuses its caller has set.  It resets the
\* context it evicts, and keeps it for reuse unless it was reused often enough.
QuarantinePush(t, s) ==
  LET f == Evicted(t)
  IN  IF Evicts(t)
      THEN /\ dead' = Tail(Append(dead, t))
           /\ status' = [s EXCEPT ![f] = "Invalid"]
           /\ reuseCount' = [reuseCount EXCEPT ![f] = @ + 1]
           /\ invalid' = IF MaxReuse > 0 /\ reuseCount[f] + 1 >= MaxReuse
                         THEN invalid
                         ELSE Append(invalid, f)
      ELSE /\ dead' = IF t = kMainTid THEN dead ELSE Append(dead, t)
           /\ status' = s
           /\ UNCHANGED <<reuseCount, invalid>>

\* Mutant: Reset forgets thread_destroyed.
ResetKeepsDestroyed(t) == destroyed

\* thread_destroyed after QuarantinePush(t): Reset clears it.
DestroyedAfterPush(t) ==
  IF Evicts(t) THEN [destroyed EXCEPT ![Evicted(t)] = FALSE] ELSE destroyed

\* Mutant: the user_id stays in live_.
EraseForgetsLive(t) ==
  /\ UNCHANGED live
  /\ userId' = [userId EXCEPT ![t] = NoUser]

\* The thread lets go of its user_id.
EraseUserId(t) ==
  /\ live' = [i \in UserIds |->
                IF i = userId[t] THEN kInvalidTid ELSE live[i]]
  /\ userId' = [userId EXCEPT ![t] = NoUser]

-----------------------------------------------------------------------------
(* The methods, and the calls the threads make *)

\* A pthread_t may name a new thread once the last thread it named is over:
\* finished, and joined or detached; a join that has consumed the pthread_t
\* may still have JoinThread to call.
Available(i) ==
  \A u \in Uniques :
    handle[u] = i =>
      \/ claim[u] = "closed" /\ phase[u] \in {"finished", "lost"}
      \/ claim[u] = "joining" /\ userId[tidOf[u]] = NoUser

\* CreateThread by a thread that is about to create another one.  The first
\* call registers the main thread, which nobody joins.
CreateThread(i, d) ==
  LET t == IF invalid # <<>> THEN Head(invalid) ELSE numThreads
  IN  /\ total < MaxTotal
      /\ i # NoUser => Available(i)
      /\ numThreads = 0 => d
      /\ invalid # <<>> \/ numThreads < MaxThreads
      /\ IF invalid # <<>>
         THEN invalid' = Tail(invalid) /\ UNCHANGED numThreads
         ELSE numThreads' = numThreads + 1 /\ UNCHANGED invalid
      /\ alive' = alive + 1
      /\ maxAlive' = IF maxAlive < alive + 1 THEN maxAlive + 1 ELSE maxAlive
      /\ live' = [j \in UserIds |-> IF j = i THEN t ELSE live[j]]
      /\ status' = [status EXCEPT ![t] = "Created"]
      /\ userId' = [userId EXCEPT ![t] = i]
      /\ uniqueId' = [uniqueId EXCEPT ![t] = total]
      /\ detached' = [detached EXCEPT ![t] = d]
      /\ total' = total + 1
      /\ tidOf' = [tidOf EXCEPT ![total] = t]
      /\ handle' = [handle EXCEPT ![total] = i]
      /\ phase' = [phase EXCEPT ![total] = "created"]
      /\ claim' = [claim EXCEPT ![total] = IF d THEN "closed" ELSE "open"]
      /\ UNCHANGED <<destroyed, reuseCount, dead, running, died>>

\* CreateThread when no tid is left: "Thread limit exceeded. Dying."
ThreadLimit ==
  /\ total < MaxTotal
  /\ invalid = <<>> /\ numThreads >= MaxThreads
  /\ died' = TRUE
  /\ UNCHANGED <<context, lists, counters, callers>>

StartThread(u) ==
  /\ phase[u] = "created"
  /\ running' = running + 1
  /\ status' = [status EXCEPT ![tidOf[u]] = "Running"]
  /\ phase' = [phase EXCEPT ![u] = "running"]
  /\ UNCHANGED <<detached, destroyed, userId, uniqueId, reuseCount, lists,
                 total, alive, maxAlive, died, tidOf, handle, claim>>

\* Mutant: a joinable thread does not tell that it is destroyed.
FinishForgetsDestroyed(u) ==
  LET t == tidOf[u]
      started == status[t] = "Running"
  IN  /\ \/ phase[u] = "running"
         \/ phase[u] = "created" /\ claim[u] \in {"open", "closed"}
      /\ alive' = alive - 1
      /\ running' = IF started THEN running - 1 ELSE running
      /\ IF detached[t] \/ ~started
         THEN /\ QuarantinePush(t, [status EXCEPT ![t] = "Dead"])
              /\ EraseUserId(t)
              /\ destroyed' = [DestroyedAfterPush(t) EXCEPT ![t] = TRUE]
         ELSE /\ status' = [status EXCEPT ![t] = "Finished"]
              /\ UNCHANGED <<destroyed, reuseCount, userId, dead, invalid, live>>
      /\ phase' = [phase EXCEPT ![u] = "finished"]
      /\ claim' = [claim EXCEPT ![u] =
                     IF phase[u] = "created" THEN "closed" ELSE @]
      /\ UNCHANGED <<detached, uniqueId, numThreads, total, maxAlive, died,
                     tidOf, handle>>

\* FinishThread, by a thread that exits, or by the creator of a thread that
\* could not be started; nobody learns the pthread_t of the latter.
FinishThread(u) ==
  LET t == tidOf[u]
      started == status[t] = "Running"
  IN  /\ \/ phase[u] = "running"
         \/ phase[u] = "created" /\ claim[u] \in {"open", "closed"}
      /\ alive' = alive - 1
      /\ running' = IF started THEN running - 1 ELSE running
      /\ IF detached[t] \/ ~started
         THEN /\ QuarantinePush(t, [status EXCEPT ![t] = "Dead"])
              /\ EraseUserId(t)
              /\ destroyed' = [DestroyedAfterPush(t) EXCEPT ![t] = TRUE]
         ELSE /\ status' = [status EXCEPT ![t] = "Finished"]
              /\ destroyed' = [destroyed EXCEPT ![t] = TRUE]
              /\ UNCHANGED <<reuseCount, userId, dead, invalid, live>>
      /\ phase' = [phase EXCEPT ![u] = "finished"]
      /\ claim' = [claim EXCEPT ![u] =
                     IF phase[u] = "created" THEN "closed" ELSE @]
      /\ UNCHANGED <<detached, uniqueId, numThreads, total, maxAlive, died,
                     tidOf, handle>>

\* ConsumeThreadUserId, as an interceptor of join or detach begins.
ConsumeThreadUserId(u) ==
  /\ claim[u] = "open"
  /\ phase[u] \in {"running", "finished"}
  /\ userId[tidOf[u]] # NoUser
  /\ EraseUserId(tidOf[u])
  /\ claim' = [claim EXCEPT ![u] = "taken"]
  /\ UNCHANGED <<status, detached, destroyed, uniqueId, reuseCount,
                 numThreads, dead, invalid, counters, died, tidOf, handle,
                 phase>>

\* SetThreadUserId, when the join of a thread did not succeed.
SetThreadUserId(u) ==
  /\ claim[u] = "taken"
  /\ userId' = [userId EXCEPT ![tidOf[u]] = handle[u]]
  /\ live' = [live EXCEPT ![handle[u]] = tidOf[u]]
  /\ claim' = [claim EXCEPT ![u] = "open"]
  /\ UNCHANGED <<status, detached, destroyed, uniqueId, reuseCount,
                 numThreads, dead, invalid, counters, died, tidOf, handle,
                 phase>>

\* JoinThread is called, which may be before the thread has called
\* FinishThread.
JoinBegin(u) ==
  /\ claim[u] \in {"open", "taken"}
  /\ phase[u] \in {"running", "finished"}
  /\ claim' = [claim EXCEPT ![u] = "joining"]
  /\ UNCHANGED <<context, lists, counters, died, tidOf, handle, phase>>

\* Mutant: JoinThread does not wait for FinishThread.
JoinDoesNotWait(u) ==
  LET t == tidOf[u]
  IN  /\ claim[u] = "joining"
      /\ IF status[t] = "Invalid"
         THEN UNCHANGED <<context, lists>>
         ELSE /\ QuarantinePush(t, [status EXCEPT ![t] = "Dead"])
              /\ EraseUserId(t)
              /\ destroyed' = DestroyedAfterPush(t)
              /\ UNCHANGED <<detached, uniqueId, numThreads>>
      /\ claim' = [claim EXCEPT ![u] = "closed"]
      /\ UNCHANGED <<counters, died, tidOf, handle, phase>>

\* The round of JoinThread's loop that finds the thread destroyed, or no
\* thread at all; the other rounds yield.
JoinThread(u) ==
  LET t == tidOf[u]
  IN  /\ claim[u] = "joining"
      /\ IF status[t] = "Invalid"
         THEN UNCHANGED <<context, lists>>
         ELSE /\ destroyed[t]
              /\ QuarantinePush(t, [status EXCEPT ![t] = "Dead"])
              /\ EraseUserId(t)
              /\ destroyed' = DestroyedAfterPush(t)
              /\ UNCHANGED <<detached, uniqueId, numThreads>>
      /\ claim' = [claim EXCEPT ![u] = "closed"]
      /\ UNCHANGED <<counters, died, tidOf, handle, phase>>

DetachThread(u) ==
  LET t == tidOf[u]
  IN  /\ claim[u] \in {"open", "taken"}
      /\ phase[u] \in {"running", "finished"}
      /\ CASE status[t] = "Invalid" -> UNCHANGED <<context, lists>>
           [] status[t] = "Finished" ->
                /\ QuarantinePush(t, [status EXCEPT ![t] = "Dead"])
                /\ EraseUserId(t)
                /\ destroyed' = DestroyedAfterPush(t)
                /\ UNCHANGED <<detached, uniqueId, numThreads>>
           [] OTHER ->
                /\ detached' = [detached EXCEPT ![t] = TRUE]
                /\ UNCHANGED <<status, destroyed, userId, uniqueId,
                               reuseCount, lists>>
      /\ claim' = [claim EXCEPT ![u] = "closed"]
      /\ UNCHANGED <<counters, died, tidOf, handle, phase>>

\* OnFork, in the child of a fork by thread u: no other thread exists there.
OnFork(u) ==
  /\ phase[u] = "running"
  /\ userId' = [t \in Tids |->
                  IF t = tidOf[u] \/ t >= numThreads THEN userId[t]
                  ELSE NoUser]
  /\ live' = [i \in UserIds |->
                IF \E t \in 0 .. numThreads - 1 : t # tidOf[u] /\ userId[t] = i
                THEN kInvalidTid ELSE live[i]]
  /\ phase' = [v \in Uniques |->
                 IF v # u /\ phase[v] \in {"created", "running"} THEN "lost"
                 ELSE phase[v]]
  /\ claim' = [v \in Uniques |-> IF v = u THEN claim[v] ELSE "closed"]
  /\ UNCHANGED <<status, detached, destroyed, uniqueId, reuseCount,
                 numThreads, dead, invalid, counters, died, tidOf, handle>>

-----------------------------------------------------------------------------

Step(u) ==
  \/ StartThread(u)
  \/ FinishThread(u)
  \/ ConsumeThreadUserId(u)
  \/ SetThreadUserId(u)
  \/ JoinBegin(u)
  \/ JoinThread(u)
  \/ DetachThread(u)
  \/ OnFork(u)

Next ==
  /\ ~died
  /\ \/ \E i \in UserIds \cup {NoUser}, d \in BOOLEAN : CreateThread(i, d)
     \/ ThreadLimit
     \/ \E u \in Uniques : Step(u)

\* A thread that polls in JoinThread is scheduled again and again.
Fairness == \A u \in Uniques : WF_vars(~died /\ JoinThread(u))

Spec == Init /\ [][Next]_vars
FairSpec == Spec /\ Fairness

-----------------------------------------------------------------------------
(* Properties *)

\* Every field of a context, every list, map and counter has its type.
TypeOK ==
  /\ numThreads \in 0 .. MaxThreads
  /\ status \in [Tids -> Status]
  /\ detached \in [Tids -> BOOLEAN]
  /\ destroyed \in [Tids -> BOOLEAN]
  /\ userId \in [Tids -> UserIds \cup {NoUser}]
  /\ uniqueId \in [Tids -> Nat]
  /\ reuseCount \in [Tids -> Nat]
  /\ dead \in Seq(Tids)
  /\ invalid \in Seq(Tids)
  /\ live \in [UserIds -> Tids \cup {kInvalidTid}]
  /\ total \in 0 .. MaxTotal
  /\ alive \in Nat /\ maxAlive \in Nat /\ running \in Nat
  /\ died \in BOOLEAN
  /\ tidOf \in [Uniques -> Tids \cup {kInvalidTid}]
  /\ handle \in [Uniques -> UserIds \cup {NoUser}]
  /\ phase \in [Uniques -> {"none", "created", "running", "finished", "lost"}]
  /\ claim \in [Uniques -> {"open", "taken", "joining", "closed"}]

\* Somebody may still name thread u to the registry.
InUse(u) == phase[u] \in {"created", "running"} \/ claim[u] # "closed"

\* No tid is given to a new thread while somebody may still use it for the old
\* one, however late FinishThread and JoinThread come.
TidKept ==
  \A u \in Uniques :
    InUse(u) => tidOf[u] # kInvalidTid /\ uniqueId[tidOf[u]] = u

\* The CHECKs of StartThread, FinishThread, SetThreadName, SetJoined, SetDead,
\* SetThreadUserId and ConsumeThreadUserId hold, and neither JoinThread nor
\* DetachThread is told of a thread that does not exist.
ChecksHold ==
  \A u \in Uniques :
    LET t == tidOf[u]
    IN  /\ phase[u] = "created" => status[t] = "Created"
        /\ phase[u] = "running" => status[t] = "Running"
        /\ claim[u] # "closed" =>
             /\ ~detached[t]
             /\ status[t] \in {"Created", "Running", "Finished"}
             /\ destroyed[t] <=> status[t] = "Finished"
        /\ claim[u] = "taken" => userId[t] = NoUser /\ live[handle[u]] = kInvalidTid

\* live_ is the inverse of user_id, so that a pthread_t leads to the thread it
\* names now, and the CHECK that it is not in use holds in CreateThread.
LiveExact ==
  /\ \A i \in UserIds, t \in Tids : live[i] = t <=> userId[t] = i
  /\ \A i \in UserIds : Available(i) => live[i] = kInvalidTid

\* GetNumberOfThreads and GetMaxAliveThreads count exactly.
CountersExact ==
  /\ alive = Cardinality({t \in Tids : status[t] \in {"Created", "Running"}})
  /\ running = Cardinality({t \in Tids : status[t] = "Running"})
  /\ alive <= maxAlive

\* A JoinThread of a thread that has finished returns.
JoinReturns ==
  \A u \in Uniques :
    claim[u] = "joining" /\ phase[u] = "finished" ~> claim[u] = "closed" \/ died
=============================================================================
