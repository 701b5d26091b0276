------------------------ MODULE ThreadRegistryProofs ------------------------
(***************************************************************************)
(* The registry gives no tid away too early, fails no CHECK and keeps its  *)
(* map of user ids exact, for any number of threads and any size of the    *)
(* quarantine but zero.  With a quarantine of size zero QuarantinePush     *)
(* resets the very context FinishThread then marks as destroyed.           *)
(***************************************************************************)
EXTENDS ThreadRegistry, FiniteSetTheorems, TLAPS

-----------------------------------------------------------------------------
(* The inductive invariant *)

\* The two lists hold contexts of the status they stand for, each once.
Lists ==
  /\ Len(dead) <= QuarantineSize
  /\ \A k \in 1 .. Len(dead) :
       dead[k] # kMainTid /\ status[dead[k]] = "Dead"
  /\ \A j, k \in 1 .. Len(dead) : dead[j] = dead[k] => j = k
  /\ \A k \in 1 .. Len(invalid) :
       /\ status[invalid[k]] = "Invalid"
       /\ ~destroyed[invalid[k]]
       /\ invalid[k] < numThreads
  /\ \A j, k \in 1 .. Len(invalid) : invalid[j] = invalid[k] => j = k

\* A context is fresh until it is handed out, destroyed when it has finished,
\* and has a user_id only while the thread it belongs to is in use.
ContextOk(t) ==
  /\ t >= numThreads => status[t] = "Invalid" /\ ~destroyed[t]
  /\ status[t] \in {"Created", "Running"} => ~destroyed[t]
  /\ status[t] = "Finished" => destroyed[t]
  /\ userId[t] # NoUser =>
       /\ uniqueId[t] \in Uniques
       /\ tidOf[uniqueId[t]] = t
       /\ handle[uniqueId[t]] = userId[t]
       /\ InUse(uniqueId[t])
       /\ claim[uniqueId[t]] # "taken"

Contexts == \A t \in Tids : ContextOk(t)

\* What the registry says of a thread that is in use.
UseOk(u) ==
  /\ u >= total => phase[u] = "none" /\ claim[u] = "closed"
  /\ u < total => phase[u] # "none"
  /\ InUse(u) => tidOf[u] \in Tids /\ uniqueId[tidOf[u]] = u
  /\ phase[u] = "created" => status[tidOf[u]] = "Created"
  /\ phase[u] = "running" => status[tidOf[u]] = "Running"
  /\ claim[u] # "closed" =>
       /\ phase[u] \in {"created", "running", "finished"}
       /\ phase[u] = "finished" => status[tidOf[u]] = "Finished"
       /\ ~detached[tidOf[u]]
  /\ phase[u] = "created" => claim[u] \in {"open", "closed"}
  /\ phase[u] \in {"created", "running"} /\ claim[u] = "closed" =>
       detached[tidOf[u]]
  /\ claim[u] = "taken" =>
       handle[u] # NoUser /\ userId[tidOf[u]] = NoUser

Uses == \A u \in Uniques : UseOk(u)

\* The pthread_t of thread u is not free for another thread.
Held(u) == InUse(u) /\ (claim[u] = "joining" => userId[tidOf[u]] # NoUser)

HandlesApart ==
  \A u, v \in Uniques :
    Held(u) /\ Held(v) /\ handle[u] = handle[v] /\ handle[u] # NoUser => u = v

LiveInverse == \A i \in UserIds, t \in Tids : live[i] = t <=> userId[t] = i

IInv ==
  /\ TypeOK
  /\ Lists
  /\ Contexts
  /\ Uses
  /\ HandlesApart
  /\ LiveInverse
  /\ CountersExact

-----------------------------------------------------------------------------
(* QuarantinePush *)

\* What the burial of context t does to the contexts: t is dead, and one of the
\* other dead contexts may have been reset.
Buried(t) ==
  /\ status'[t] = "Dead"
  /\ \A c \in Tids \ {t} :
       \/ status'[c] = status[c] /\ destroyed'[c] = destroyed[c]
       \/ status[c] = "Dead" /\ status'[c] = "Invalid" /\ ~destroyed'[c]

\* destroyed' of the methods that call QuarantinePush(t).
DestroyedBy(t) ==
  \/ destroyed' = DestroyedAfterPush(t)
  \/ destroyed' = [DestroyedAfterPush(t) EXCEPT ![t] = TRUE]

\* The thread ids are naturals below the limit.
LEMMA TidFacts == 0 \in Tids /\ Tids \subseteq Nat /\ kInvalidTid \notin Tids
BY RegistryAssumption DEF Tids, kInvalidTid

\* A sequence that grows at its end, and one that then loses its front.
LEMMA AppendFacts ==
  ASSUME NEW S, NEW q \in Seq(S), NEW e \in S
  PROVE  /\ Len(q) \in Nat
         /\ Append(q, e) \in Seq(S) /\ Len(Append(q, e)) = Len(q) + 1
         /\ \A k \in 1 .. Len(q) : Append(q, e)[k] = q[k]
         /\ Append(q, e)[Len(q) + 1] = e
         /\ q # <<>> => Head(Append(q, e)) = q[1]
OBVIOUS

\* What the tail of a list of contexts holds.
LEMMA TailFacts ==
  ASSUME NEW S, NEW q \in Seq(S), q # <<>>
  PROVE  /\ Len(q) \in Nat \ {0} /\ Head(q) = q[1] /\ q[1] \in S
         /\ Tail(q) \in Seq(S) /\ Len(Tail(q)) = Len(q) - 1
         /\ \A k \in 1 .. Len(q) - 1 : Tail(q)[k] = q[k + 1]
OBVIOUS

\* QuarantinePush of a dead context, with its Reset of the oldest one when the
\* quarantine is full, keeps the lists apart and in step with the statuses.
LEMMA PushStep ==
  ASSUME QuarantineSize > 0, TypeOK, Lists, NEW t \in Tids,
         status[t] \notin {"Dead", "Invalid"}, numThreads' = numThreads,
         \A c \in Tids : c >= numThreads => status[c] = "Invalid",
         QuarantinePush(t, [status EXCEPT ![t] = "Dead"]), DestroyedBy(t)
  PROVE  /\ Lists' /\ Buried(t)
         /\ status' \in [Tids -> Status] /\ destroyed' \in [Tids -> BOOLEAN]
         /\ reuseCount' \in [Tids -> Nat]
         /\ dead' \in Seq(Tids) /\ invalid' \in Seq(Tids)
<1>1. \A k \in 1 .. Len(dead) : dead[k] \in Tids /\ dead[k] # t
  BY DEF TypeOK, Lists
<1>2. \A k \in 1 .. Len(invalid) : invalid[k] \in Tids /\ invalid[k] # t
  BY DEF TypeOK, Lists
<1>3. CASE ~Evicts(t)
  <2>1. /\ status' = [status EXCEPT ![t] = "Dead"]
        /\ invalid' = invalid /\ reuseCount' = reuseCount
        /\ dead' = IF t = kMainTid THEN dead ELSE Append(dead, t)
    BY <1>3 DEF QuarantinePush
  <2>2. /\ destroyed' \in [Tids -> BOOLEAN]
        /\ \A c \in Tids \ {t} : destroyed'[c] = destroyed[c]
    BY <1>3 DEF DestroyedBy, DestroyedAfterPush, TypeOK
  <2>3. CASE t = kMainTid
    <3>1. dead' = dead /\ invalid' = invalid
      BY <2>1, <2>3
    <3>2. Buried(t) /\ status' \in [Tids -> Status]
      BY <2>1, <2>2 DEF TypeOK, Buried, Status
    <3>3. Lists'
      <4>1. \A c \in Tids \ {t} :
              status'[c] = status[c] /\ destroyed'[c] = destroyed[c]
        BY <2>1, <2>2 DEF TypeOK
      <4>2. \A k \in 1 .. Len(invalid) :
              /\ status'[invalid[k]] = status[invalid[k]]
              /\ destroyed'[invalid[k]] = destroyed[invalid[k]]
        BY <1>2, <4>1
      <4>3. \A k \in 1 .. Len(dead) : status'[dead[k]] = status[dead[k]]
        BY <1>1, <4>1
      <4> QED
        BY <3>1, <4>2, <4>3 DEF Lists
    <3> QED
      BY <2>1, <2>2, <3>1, <3>2, <3>3 DEF TypeOK
  <2>4. CASE t # kMainTid
    <3>1. /\ dead' = Append(dead, t) /\ dead' \in Seq(Tids)
          /\ Len(dead') = Len(dead) + 1 /\ Len(dead) + 1 <= QuarantineSize
          /\ \A k \in 1 .. Len(dead) : dead'[k] = dead[k]
          /\ dead'[Len(dead) + 1] = t
      BY <1>3, <2>1, <2>4, RegistryAssumption DEF TypeOK, Evicts
    <3>2. Buried(t) /\ status' \in [Tids -> Status]
      BY <2>1, <2>2 DEF TypeOK, Buried, Status
    <3>3. /\ Len(dead') <= QuarantineSize
          /\ \A k \in 1 .. Len(dead') :
               dead'[k] # kMainTid /\ status'[dead'[k]] = "Dead"
          /\ \A j, k \in 1 .. Len(dead') : dead'[j] = dead'[k] => j = k
      <4>1. \A c \in Tids \ {t} : status'[c] = status[c]
        BY <2>1 DEF TypeOK
      <4>2. Len(dead) \in Nat
        BY DEF TypeOK
      <4> QED
        BY <1>1, <2>4, <3>1, <3>2, <4>1, <4>2 DEF Lists, Buried
    <3>4. \A k \in 1 .. Len(invalid') :
            /\ status'[invalid'[k]] = "Invalid"
            /\ ~destroyed'[invalid'[k]]
            /\ invalid'[k] < numThreads
      BY <1>2, <2>1, <2>2 DEF TypeOK, Lists
    <3>5. Lists'
      BY <2>1, <3>3, <3>4 DEF Lists
    <3> QED
      BY <2>1, <2>2, <3>1, <3>2, <3>5 DEF TypeOK
  <2> QED
    BY <2>3, <2>4
<1>4. CASE Evicts(t)
  <2>1. t # kMainTid /\ Len(dead) = QuarantineSize /\ Len(dead) \in Nat \ {0}
    BY <1>4, RegistryAssumption DEF Evicts, TypeOK, Lists
  <2>2. PICK f \in Tids : f = Evicted(t) /\ f = dead[1]
    BY <2>1, <1>1 DEF Evicted, TypeOK
  <2>3. f # t /\ status[f] = "Dead" /\ f < numThreads
    BY <1>1, <2>1, <2>2, RegistryAssumption DEF Lists, TypeOK, Tids
  <2>4. /\ dead' \in Seq(Tids)
        /\ Len(dead') = Len(dead)
        /\ \A k \in 1 .. Len(dead) - 1 : dead'[k] = dead[k + 1]
        /\ dead'[Len(dead)] = t
    <3>1. dead' = Tail(Append(dead, t)) /\ dead \in Seq(Tids)
      BY <1>4 DEF QuarantinePush, TypeOK
    <3>2. /\ Append(dead, t) \in Seq(Tids)
          /\ Len(Append(dead, t)) = Len(dead) + 1
          /\ \A k \in 1 .. Len(dead) : Append(dead, t)[k] = dead[k]
          /\ Append(dead, t)[Len(dead) + 1] = t
          /\ Append(dead, t) # <<>>
      BY <3>1, AppendFacts
    <3>3. /\ dead' \in Seq(Tids) /\ Len(dead') = Len(dead)
          /\ \A k \in 1 .. Len(dead) : dead'[k] = Append(dead, t)[k + 1]
      BY <2>1, <3>1, <3>2, TailFacts
    <3> QED
      BY <2>1, <3>2, <3>3
  <2>5. /\ status' \in [Tids -> Status]
        /\ status'[t] = "Dead" /\ status'[f] = "Invalid"
        /\ \A c \in Tids \ {t, f} : status'[c] = status[c]
    <3>1. status' = [[status EXCEPT ![t] = "Dead"] EXCEPT ![f] = "Invalid"]
      BY <1>4, <2>2 DEF QuarantinePush
    <3> QED
      BY <2>3, <3>1 DEF TypeOK, Status
  <2>6. /\ destroyed' \in [Tids -> BOOLEAN]
        /\ ~destroyed'[f]
        /\ \A c \in Tids \ {t, f} : destroyed'[c] = destroyed[c]
    <3>1. DestroyedAfterPush(t) = [destroyed EXCEPT ![f] = FALSE]
      BY <1>4, <2>2 DEF DestroyedAfterPush
    <3> QED
      <4>1. CASE destroyed' = [destroyed EXCEPT ![f] = FALSE]
        BY <2>3, <4>1 DEF TypeOK
      <4>2. CASE destroyed' = [[destroyed EXCEPT ![f] = FALSE] EXCEPT ![t] = TRUE]
        BY <2>3, <4>2 DEF TypeOK
      <4> QED
        BY <3>1, <4>1, <4>2 DEF DestroyedBy
  <2>7. reuseCount' \in [Tids -> Nat]
    <3>1. reuseCount' = [reuseCount EXCEPT ![f] = reuseCount[f] + 1]
      BY <1>4, <2>2 DEF QuarantinePush
    <3> QED
      BY <3>1 DEF TypeOK
  <2>8. invalid' = invalid \/ invalid' = Append(invalid, f)
    BY <1>4, <2>2 DEF QuarantinePush
  <2>9. Buried(t)
    BY <2>3, <2>5, <2>6 DEF Buried
  <2>10. \A k \in 1 .. Len(invalid) : invalid[k] # f
    BY <2>3 DEF Lists
  <2>11. /\ Len(dead') <= QuarantineSize
         /\ \A k \in 1 .. Len(dead') :
              dead'[k] # kMainTid /\ status'[dead'[k]] = "Dead"
         /\ \A j, k \in 1 .. Len(dead') : dead'[j] = dead'[k] => j = k
    <3>1. \A k \in 1 .. Len(dead) - 1 :
            /\ k + 1 \in 1 .. Len(dead) /\ dead[k + 1] \in Tids
            /\ dead[k + 1] # t /\ dead[k + 1] # f
            /\ dead[k + 1] # kMainTid /\ status[dead[k + 1]] = "Dead"
      BY <1>1, <2>1, <2>2 DEF Lists
    <3> QED
      BY <2>1, <2>4, <2>5, <3>1 DEF Lists
  <2>12. /\ invalid' \in Seq(Tids)
         /\ \A k \in 1 .. Len(invalid') :
              /\ status'[invalid'[k]] = "Invalid"
              /\ ~destroyed'[invalid'[k]]
              /\ invalid'[k] < numThreads
         /\ \A j, k \in 1 .. Len(invalid') : invalid'[j] = invalid'[k] => j = k
    <3>1. CASE invalid' = invalid
      BY <1>2, <2>5, <2>6, <2>10, <3>1 DEF Lists, TypeOK
    <3>2. CASE invalid' = Append(invalid, f)
      <4>1. /\ invalid' \in Seq(Tids)
            /\ Len(invalid) \in Nat /\ Len(invalid') = Len(invalid) + 1
            /\ \A k \in 1 .. Len(invalid) : invalid'[k] = invalid[k]
            /\ invalid'[Len(invalid) + 1] = f
        BY <3>2 DEF TypeOK
      <4>2. \A k \in 1 .. Len(invalid) :
              /\ status'[invalid'[k]] = "Invalid"
              /\ ~destroyed'[invalid'[k]]
              /\ invalid'[k] < numThreads /\ invalid'[k] # f
        BY <1>2, <2>5, <2>6, <2>10, <4>1 DEF Lists
      <4>3. \A j, k \in 1 .. Len(invalid) : invalid'[j] = invalid'[k] => j = k
        BY <4>1 DEF Lists
      <4> QED
        BY <2>3, <2>5, <2>6, <4>1, <4>2, <4>3
    <3> QED
      BY <2>8, <3>1, <3>2
  <2> QED
    BY <2>4, <2>5, <2>6, <2>7, <2>9, <2>11, <2>12 DEF Lists
<1> QED
  BY <1>3, <1>4

-----------------------------------------------------------------------------
(* The counters *)

AliveTids == {t \in Tids : status[t] \in {"Created", "Running"}}
RunningTids == {t \in Tids : status[t] = "Running"}

\* The sets the counters count are finite.
LEMMA TidsFinite == IsFiniteSet(AliveTids) /\ IsFiniteSet(RunningTids)
<1>1. IsFiniteSet(Tids)
  BY RegistryAssumption, FS_Interval DEF Tids
<1> QED
  BY <1>1, FS_Subset DEF AliveTids, RunningTids

\* The sets the counters count are finite after a step.
LEMMA NextTidsFinite == IsFiniteSet(AliveTids') /\ IsFiniteSet(RunningTids')
<1>1. IsFiniteSet(Tids)
  BY RegistryAssumption, FS_Interval DEF Tids
<1> QED
  BY <1>1, FS_Subset DEF AliveTids, RunningTids

\* Counters that are exact are naturals.
LEMMA CountersAreNat ==
  ASSUME CountersExact'
  PROVE  alive' \in Nat /\ running' \in Nat
BY NextTidsFinite, FS_CardinalityType DEF CountersExact, AliveTids, RunningTids

\* Counters stay exact when no thread comes or goes.
LEMMA CountersStay ==
  ASSUME CountersExact, AliveTids' = AliveTids, RunningTids' = RunningTids,
         alive' = alive, running' = running, maxAlive' = maxAlive
  PROVE  CountersExact'
BY DEF CountersExact, AliveTids, RunningTids

\* CreateThread's increments keep the counters exact.
LEMMA AliveGrows ==
  ASSUME CountersExact, TypeOK, NEW t, t \notin AliveTids,
         AliveTids' = AliveTids \cup {t}, RunningTids' = RunningTids,
         alive' = alive + 1, running' = running,
         maxAlive' = IF maxAlive < alive + 1 THEN maxAlive + 1 ELSE maxAlive
  PROVE  CountersExact'
<1>1. Cardinality(AliveTids') = Cardinality(AliveTids) + 1
  BY TidsFinite, FS_AddElement
<1>2. alive' <= maxAlive'
  BY DEF CountersExact, TypeOK
<1> QED
  BY <1>1, <1>2 DEF CountersExact, AliveTids, RunningTids

\* StartThread's increment keeps the counters exact.
LEMMA RunningGrows ==
  ASSUME CountersExact, NEW t, t \notin RunningTids,
         AliveTids' = AliveTids, RunningTids' = RunningTids \cup {t},
         alive' = alive, running' = running + 1, maxAlive' = maxAlive
  PROVE  CountersExact'
<1>1. Cardinality(RunningTids') = Cardinality(RunningTids) + 1
  BY TidsFinite, FS_AddElement
<1> QED
  BY <1>1 DEF CountersExact, AliveTids, RunningTids

\* FinishThread's decrements keep the counters exact.
LEMMA AliveShrinks ==
  ASSUME CountersExact, TypeOK, NEW t, t \in AliveTids,
         AliveTids' = AliveTids \ {t}, RunningTids' = RunningTids \ {t},
         alive' = alive - 1,
         running' = IF t \in RunningTids THEN running - 1 ELSE running,
         maxAlive' = maxAlive
  PROVE  CountersExact'
<1>1. Cardinality(AliveTids') = Cardinality(AliveTids) - 1
  BY TidsFinite, FS_RemoveElement
<1>2. Cardinality(RunningTids') =
        IF t \in RunningTids THEN Cardinality(RunningTids) - 1
        ELSE Cardinality(RunningTids)
  BY TidsFinite, FS_RemoveElement
<1>3. alive' <= maxAlive'
  BY DEF CountersExact, TypeOK
<1> QED
  BY <1>1, <1>2, <1>3 DEF CountersExact, AliveTids, RunningTids

-----------------------------------------------------------------------------
(* The end of a thread: FinishThread, JoinThread and DetachThread *)

\* Nobody names thread u to the registry any more.
Over(u) ==
  /\ phase'[u] = "finished" /\ claim'[u] = "closed"
  /\ \A v \in Uniques \ {u} : phase'[v] = phase[v] /\ claim'[v] = claim[v]

\* What is true of a thread that is in use.
LEMMA InUseFacts ==
  ASSUME Uses, NEW u \in Uniques, InUse(u)
  PROVE  /\ tidOf[u] \in Tids /\ uniqueId[tidOf[u]] = u
         /\ status[tidOf[u]] \in {"Created", "Running", "Finished"}
         /\ ~(u >= total)
<1>1. tidOf[u] \in Tids /\ uniqueId[tidOf[u]] = u
  BY DEF Uses, UseOk
<1>2. status[tidOf[u]] \in {"Created", "Running", "Finished"}
  BY DEF Uses, UseOk, InUse
<1>3. ~(u >= total)
  BY DEF Uses, UseOk, InUse
<1> QED
  BY <1>1, <1>2, <1>3

\* The thread a user_id belongs to.
LEMMA UserIdFacts ==
  ASSUME Contexts, NEW c \in Tids, userId[c] # NoUser
  PROVE  \E w \in Uniques :
           /\ w = uniqueId[c] /\ handle[w] = userId[c] /\ tidOf[w] = c
           /\ InUse(w) /\ Held(w)
<1>1. ContextOk(c)
  BY DEF Contexts
<1> QED
  BY <1>1 DEF ContextOk, Held

\* A thread none of whose variables moves stays as it is.
Undisturbed(v) ==
  /\ phase'[v] = phase[v] /\ claim'[v] = claim[v]
  /\ tidOf'[v] = tidOf[v] /\ handle'[v] = handle[v]
  /\ InUse(v) =>
       /\ uniqueId'[tidOf[v]] = uniqueId[tidOf[v]]
       /\ status'[tidOf[v]] = status[tidOf[v]]
       /\ detached'[tidOf[v]] = detached[tidOf[v]]
       /\ userId'[tidOf[v]] = userId[tidOf[v]]

\* What is said of a thread stays true when the step does not disturb it.
LEMMA UseStays ==
  ASSUME NEW v \in Uniques, UseOk(v), Undisturbed(v),
         (v >= total)' <=> v >= total, (v < total)' <=> v < total
  PROVE  UseOk(v)' /\ (InUse(v)' <=> InUse(v)) /\ (Held(v)' <=> Held(v))
<1>1. InUse(v)' <=> InUse(v)
  BY DEF InUse, Undisturbed
<1>2. Held(v)' <=> Held(v)
  BY <1>1 DEF Held, Undisturbed
<1>3. /\ v >= total' => phase'[v] = "none" /\ claim'[v] = "closed"
      /\ v < total' => phase'[v] # "none"
  BY DEF UseOk, Undisturbed
<1>4. /\ InUse(v)' => tidOf'[v] \in Tids /\ uniqueId'[tidOf'[v]] = v
      /\ phase'[v] = "created" => status'[tidOf'[v]] = "Created"
      /\ phase'[v] = "running" => status'[tidOf'[v]] = "Running"
  BY <1>1 DEF UseOk, Undisturbed, InUse
<1>5. claim'[v] # "closed" =>
        /\ phase'[v] \in {"created", "running", "finished"}
        /\ phase'[v] = "finished" => status'[tidOf'[v]] = "Finished"
        /\ ~detached'[tidOf'[v]]
  BY DEF UseOk, Undisturbed, InUse
<1>6. /\ phase'[v] = "created" => claim'[v] \in {"open", "closed"}
      /\ phase'[v] \in {"created", "running"} /\ claim'[v] = "closed" =>
           detached'[tidOf'[v]]
      /\ claim'[v] = "taken" =>
           handle'[v] # NoUser /\ userId'[tidOf'[v]] = NoUser
  BY DEF UseOk, Undisturbed, InUse
<1> QED
  BY <1>1, <1>2, <1>3, <1>4, <1>5, <1>6 DEF UseOk

\* Burying the context of a thread whose last claim is over keeps what is said of
\* the contexts, the other threads, their handles and the live map.
LEMMA BurialStep ==
  ASSUME IInv, NEW u \in Uniques, InUse(u), NEW t \in Tids, t = tidOf[u],
         Buried(t), Over(u), EraseUserId(t),
         UNCHANGED <<numThreads, tidOf, handle, uniqueId, detached, total>>
  PROVE  Contexts' /\ Uses' /\ HandlesApart' /\ LiveInverse'
<1>1. /\ uniqueId[t] = u /\ ~(u >= total)
      /\ status[t] \in {"Created", "Running", "Finished"}
  BY InUseFacts DEF IInv
<1>2. /\ userId'[t] = NoUser
      /\ \A c \in Tids \ {t} : userId'[c] = userId[c]
  BY DEF IInv, TypeOK, EraseUserId
<1>3. \A v \in Uniques \ {u} : Undisturbed(v)
  <2> SUFFICES ASSUME NEW v \in Uniques \ {u} PROVE Undisturbed(v)
    OBVIOUS
  <2>1. InUse(v) =>
          /\ tidOf[v] \in Tids \ {t}
          /\ status[tidOf[v]] \in {"Created", "Running", "Finished"}
    BY <1>1, InUseFacts DEF IInv
  <2>2. InUse(v) => status'[tidOf[v]] = status[tidOf[v]]
    BY <2>1 DEF Buried
  <2> QED
    BY <1>2, <2>1, <2>2 DEF Over, Undisturbed
<1>4. \A v \in Uniques \ {u} :
        UseOk(v)' /\ (InUse(v)' <=> InUse(v)) /\ (Held(v)' <=> Held(v))
  BY <1>3, UseStays DEF IInv, Uses
<1>5. ~InUse(u)'
  BY DEF InUse, Over
<1>6. Contexts'
  <2> SUFFICES ASSUME NEW c \in Tids PROVE ContextOk(c)'
    BY DEF Contexts
  <2>1. /\ c >= numThreads' => status'[c] = "Invalid" /\ ~destroyed'[c]
        /\ status'[c] \in {"Created", "Running"} => ~destroyed'[c]
        /\ status'[c] = "Finished" => destroyed'[c]
    BY <1>1 DEF IInv, Contexts, ContextOk, Buried
  <2>2. CASE c = t
    BY <1>2, <2>1, <2>2 DEF ContextOk
  <2>3. CASE c # t
    <3>1. ContextOk(c) /\ userId'[c] = userId[c]
      BY <1>2, <2>3 DEF IInv, Contexts
    <3>2. userId[c] # NoUser => uniqueId[c] # u
      BY <2>3, <3>1 DEF ContextOk
    <3> QED
      BY <1>4, <2>1, <3>1, <3>2 DEF ContextOk, Over
  <2> QED
    BY <2>2, <2>3
<1>7. Uses'
  <2>1. UseOk(u)'
    BY <1>1, <1>5 DEF UseOk, Over
  <2> QED
    BY <1>4, <2>1 DEF Uses
<1>8. HandlesApart'
  <2>1. \A v \in Uniques : Held(v)' => Held(v) /\ v # u
    BY <1>4, <1>5 DEF Held
  <2> QED
    BY <2>1 DEF IInv, HandlesApart
<1>9. LiveInverse'
  <2>1. \A i \in UserIds :
          live'[i] = IF i = userId[t] THEN kInvalidTid ELSE live[i]
    BY DEF EraseUserId
  <2> QED
    BY <1>2, <2>1, TidFacts, RegistryAssumption DEF IInv, LiveInverse
<1> QED
  BY <1>6, <1>7, <1>8, <1>9

-----------------------------------------------------------------------------
(* One lemma per action *)

\* CreateThread keeps the invariant.
LEMMA CreateThreadStep ==
  ASSUME IInv, NEW i \in UserIds \cup {NoUser}, NEW d \in BOOLEAN,
         CreateThread(i, d)
  PROVE  IInv'
<1>1. PICK u \in Uniques : u = total
  BY RegistryAssumption DEF IInv, TypeOK, CreateThread, Uniques
<1>2. PICK t \in Tids :
        /\ t = IF invalid # <<>> THEN Head(invalid) ELSE numThreads
        /\ status[t] = "Invalid" /\ ~destroyed[t]
  <2>1. CASE invalid # <<>>
    <3>1. 1 \in 1 .. Len(invalid) /\ Head(invalid) = invalid[1]
          /\ invalid[1] \in Tids
      BY <2>1, TailFacts DEF IInv, TypeOK
    <3> QED
      BY <2>1, <3>1 DEF IInv, Lists
  <2>2. CASE invalid = <<>>
    <3>1. numThreads \in Tids
      BY <2>2, RegistryAssumption DEF CreateThread, IInv, TypeOK, Tids
    <3>2. ContextOk(numThreads) /\ numThreads \in Nat
      BY <3>1 DEF IInv, Contexts, TypeOK
    <3> QED
      BY <2>2, <3>1, <3>2 DEF ContextOk
  <2> QED
    BY <2>1, <2>2
<1>3. \A v \in Uniques : InUse(v) => tidOf[v] \in Tids /\ tidOf[v] # t /\ v # u
  <2>1. \A v \in Uniques : InUse(v) =>
          /\ tidOf[v] \in Tids /\ ~(v >= total)
          /\ status[tidOf[v]] \in {"Created", "Running", "Finished"}
    BY InUseFacts DEF IInv
  <2>2. u >= total
    BY <1>1 DEF Uniques
  <2> QED
    BY <1>1, <1>2, <2>1, <2>2
<1>4. userId[t] = NoUser
  BY <1>2, <1>3 DEF IInv, Contexts, ContextOk
<1>5. /\ status' = [status EXCEPT ![t] = "Created"]
      /\ userId' = [userId EXCEPT ![t] = i]
      /\ uniqueId' = [uniqueId EXCEPT ![t] = u]
      /\ detached' = [detached EXCEPT ![t] = d]
      /\ live' = [j \in UserIds |-> IF j = i THEN t ELSE live[j]]
      /\ tidOf' = [tidOf EXCEPT ![u] = t]
      /\ total' = total + 1
      /\ UNCHANGED <<destroyed, reuseCount, dead, running, died>>
  BY <1>1, <1>2 DEF CreateThread
<1>6. /\ handle' = [handle EXCEPT ![u] = i]
      /\ phase' = [phase EXCEPT ![u] = "created"]
      /\ claim' = [claim EXCEPT ![u] = IF d THEN "closed" ELSE "open"]
      /\ alive' = alive + 1
      /\ maxAlive' = IF maxAlive < alive + 1 THEN maxAlive + 1 ELSE maxAlive
      /\ i # NoUser => Available(i)
  BY <1>1 DEF CreateThread
<1>7. /\ status'[t] = "Created" /\ userId'[t] = i
      /\ uniqueId'[t] = u /\ detached'[t] = d
      /\ \A c \in Tids \ {t} :
           /\ status'[c] = status[c] /\ userId'[c] = userId[c]
           /\ uniqueId'[c] = uniqueId[c] /\ detached'[c] = detached[c]
  BY <1>2, <1>5 DEF IInv, TypeOK
<1>8. /\ tidOf'[u] = t /\ handle'[u] = i /\ phase'[u] = "created"
      /\ claim'[u] = IF d THEN "closed" ELSE "open"
      /\ \A v \in Uniques \ {u} :
           /\ tidOf'[v] = tidOf[v] /\ handle'[v] = handle[v]
           /\ phase'[v] = phase[v] /\ claim'[v] = claim[v]
  BY <1>1, <1>5, <1>6 DEF IInv, TypeOK
<1>9. /\ status' \in [Tids -> Status] /\ userId' \in [Tids -> UserIds \cup {NoUser}]
      /\ uniqueId' \in [Tids -> Nat] /\ detached' \in [Tids -> BOOLEAN]
      /\ live' \in [UserIds -> Tids \cup {kInvalidTid}]
  BY <1>1, <1>2, <1>5 DEF IInv, TypeOK, Status
<1>10. /\ tidOf' \in [Uniques -> Tids \cup {kInvalidTid}]
       /\ handle' \in [Uniques -> UserIds \cup {NoUser}]
       /\ phase' \in [Uniques -> {"none", "created", "running", "finished", "lost"}]
       /\ claim' \in [Uniques -> {"open", "taken", "joining", "closed"}]
  BY <1>2, <1>5, <1>6 DEF IInv, TypeOK
<1>11. \A v \in Uniques \ {u} : Undisturbed(v)
  BY <1>3, <1>7, <1>8 DEF Undisturbed
<1>12. \A v \in Uniques \ {u} :
         UseOk(v)' /\ (InUse(v)' <=> InUse(v)) /\ (Held(v)' <=> Held(v))
  <2>1. \A v \in Uniques \ {u} :
          ((v >= total)' <=> v >= total) /\ ((v < total)' <=> v < total)
    BY <1>1, <1>5 DEF Uniques, IInv, TypeOK
  <2> QED
    BY <1>11, <2>1, UseStays DEF IInv, Uses
<1>13. InUse(u)'
  BY <1>8 DEF InUse
<1>14. i # NoUser => \A v \in Uniques : handle[v] = i => ~Held(v)
  BY <1>6 DEF Available, Held, InUse
<1>15. Lists' /\ invalid' \in Seq(Tids)
  <2>1. \A k \in 1 .. Len(dead) : status'[dead[k]] = "Dead"
    <3>1. \A k \in 1 .. Len(dead) : dead[k] \in Tids /\ status[dead[k]] = "Dead"
      BY DEF IInv, TypeOK, Lists
    <3> QED
      BY <1>2, <1>7, <3>1
  <2>2. CASE invalid # <<>>
    <3>1. invalid' = Tail(invalid) /\ numThreads' = numThreads
      BY <2>2 DEF CreateThread
    <3>2. t = invalid[1] /\ Len(invalid) \in Nat \ {0}
      BY <1>2, <2>2, TailFacts DEF IInv, TypeOK
    <3>3. /\ invalid' \in Seq(Tids) /\ Len(invalid') = Len(invalid) - 1
          /\ \A k \in 1 .. Len(invalid) - 1 : invalid'[k] = invalid[k + 1]
      BY <2>2, <3>1, TailFacts DEF IInv, TypeOK
    <3>4. \A k \in 1 .. Len(invalid) - 1 :
            /\ k + 1 \in 1 .. Len(invalid) /\ invalid[k + 1] \in Tids
            /\ invalid[k + 1] # t
      BY <3>2 DEF IInv, TypeOK, Lists
    <3>5. \A k \in 1 .. Len(invalid') :
            /\ status'[invalid'[k]] = "Invalid"
            /\ ~destroyed'[invalid'[k]]
            /\ invalid'[k] < numThreads'
      BY <1>5, <1>7, <3>1, <3>2, <3>3, <3>4 DEF IInv, Lists
    <3>6. \A j, k \in 1 .. Len(invalid') : invalid'[j] = invalid'[k] => j = k
      BY <3>2, <3>3, <3>4 DEF IInv, Lists
    <3> QED
      BY <1>5, <2>1, <3>3, <3>5, <3>6 DEF IInv, Lists
  <2>3. CASE invalid = <<>>
    <3>1. invalid' = <<>> /\ Len(invalid') = 0
      BY <2>3 DEF CreateThread
    <3> QED
      BY <1>5, <2>1, <3>1 DEF IInv, Lists
  <2> QED
    BY <2>2, <2>3
<1>16. /\ numThreads' \in 0 .. MaxThreads /\ ~(t >= numThreads')
       /\ \A c \in Tids : c >= numThreads' => c >= numThreads
  <2>1. CASE invalid # <<>>
    <3>1. numThreads' = numThreads
      BY <2>1 DEF CreateThread
    <3>2. t < numThreads
      BY <1>2, <2>1, TailFacts DEF IInv, TypeOK, Lists
    <3> QED
      BY <3>1, <3>2 DEF IInv, TypeOK, Tids
  <2>2. CASE invalid = <<>>
    <3>1. numThreads' = numThreads + 1 /\ t = numThreads
      BY <1>2, <2>2 DEF CreateThread
    <3>2. numThreads \in 0 .. MaxThreads /\ MaxThreads \in Nat
      BY RegistryAssumption DEF IInv, TypeOK
    <3> QED
      BY <3>1, <3>2 DEF Tids
  <2> QED
    BY <2>1, <2>2
<1>17. Contexts'
  <2> SUFFICES ASSUME NEW c \in Tids PROVE ContextOk(c)'
    BY DEF Contexts
  <2>1. CASE c = t
    <3>1. /\ ~(c >= numThreads') /\ status'[c] = "Created" /\ ~destroyed'[c]
          /\ uniqueId'[c] = u /\ userId'[c] = i
      BY <1>2, <1>5, <1>7, <1>16, <2>1
    <3>2. tidOf'[u] = c /\ handle'[u] = i /\ claim'[u] # "taken"
      BY <1>8, <2>1
    <3> QED
      BY <1>13, <3>1, <3>2 DEF ContextOk
  <2>2. CASE c # t
    <3>1. ContextOk(c) /\ destroyed'[c] = destroyed[c]
          /\ (c >= numThreads' => c >= numThreads)
      BY <1>5, <1>16 DEF IInv, Contexts
    <3>2. userId[c] # NoUser => uniqueId[c] \in Uniques \ {u}
      BY <1>3, <3>1 DEF ContextOk
    <3>3. /\ status'[c] = status[c] /\ userId'[c] = userId[c]
          /\ uniqueId'[c] = uniqueId[c]
      BY <1>7, <2>2
    <3>4. ASSUME userId[c] # NoUser, NEW w \in Uniques \ {u}, w = uniqueId[c]
          PROVE  /\ tidOf'[w] = c /\ handle'[w] = userId[c] /\ InUse(w)'
                 /\ claim'[w] # "taken"
      BY <1>8, <1>12, <3>1, <3>4 DEF ContextOk
    <3> QED
      BY <3>1, <3>2, <3>3, <3>4 DEF ContextOk
  <2> QED
    BY <2>1, <2>2
<1>18. Uses'
  <2>1. UseOk(u)'
    <3>1. ~(u >= total') /\ u < total'
      BY <1>1, <1>5 DEF Uniques
    <3> QED
      BY <1>2, <1>7, <1>8, <3>1 DEF UseOk
  <2> QED
    BY <1>12, <2>1 DEF Uses
<1>19. HandlesApart'
  <2>1. \A v \in Uniques \ {u} : Held(v)' => Held(v) /\ handle'[v] = handle[v]
    BY <1>8, <1>12
  <2>2. handle'[u] = i
    BY <1>8
  <2> QED
    BY <1>14, <2>1, <2>2 DEF IInv, HandlesApart
<1>20. LiveInverse'
  <2>1. ASSUME NEW c \in Tids, i # NoUser, userId[c] = i PROVE FALSE
    <3>1. PICK w \in Uniques : handle[w] = i /\ Held(w)
      BY <2>1, UserIdFacts DEF IInv
    <3> QED
      BY <1>14, <2>1, <3>1
  <2>2. \A j \in UserIds : live'[j] = IF j = i THEN t ELSE live[j]
    BY <1>5
  <2>3. LiveInverse
    BY DEF IInv
  <2>4. ASSUME NEW j \in UserIds, NEW c \in Tids
        PROVE  live'[j] = c <=> userId'[c] = j
    <3>1. live[j] = c <=> userId[c] = j
      BY <2>3 DEF LiveInverse
    <3>2. j # NoUser
      BY RegistryAssumption
    <3>3. CASE j = i /\ c = t
      BY <1>4, <1>7, <2>2, <3>3
    <3>4. CASE j = i /\ c # t
      <4>1. live'[j] = t /\ userId'[c] = userId[c]
        BY <1>4, <1>7, <2>2, <3>4
      <4> QED
        BY <2>1, <3>2, <3>4, <4>1
    <3>5. CASE j # i
      <4>1. live'[j] = live[j]
        BY <2>2, <3>5
      <4>2. CASE c = t
        BY <1>4, <1>7, <3>1, <3>2, <3>5, <4>1, <4>2
      <4>3. CASE c # t
        BY <1>4, <1>7, <3>1, <4>1, <4>3
      <4> QED
        BY <4>2, <4>3
    <3> QED
      BY <3>3, <3>4, <3>5
  <2> QED
    BY <2>4 DEF LiveInverse
<1>21. CountersExact'
  <2>1. /\ t \notin AliveTids
        /\ AliveTids' = AliveTids \cup {t}
        /\ RunningTids' = RunningTids
    BY <1>2, <1>7 DEF AliveTids, RunningTids
  <2> QED
    BY <1>5, <1>6, <2>1, AliveGrows DEF IInv
<1>22. TypeOK'
  <2>1. /\ total' \in 0 .. MaxTotal /\ alive' \in Nat /\ maxAlive' \in Nat
    <3>1. /\ total \in 0 .. MaxTotal /\ total < MaxTotal /\ MaxTotal \in Nat
          /\ alive \in Nat /\ maxAlive \in Nat
      BY RegistryAssumption DEF IInv, TypeOK, CreateThread
    <3> QED
      BY <1>5, <1>6, <3>1
  <2> QED
    BY <1>5, <1>9, <1>10, <1>15, <1>16, <2>1 DEF IInv, TypeOK
<1> QED
  BY <1>15, <1>17, <1>18, <1>19, <1>20, <1>21, <1>22 DEF IInv

\* A step that leaves the registry alone keeps the invariant.
LEMMA RegistryRests ==
  ASSUME IInv, died' \in BOOLEAN, UNCHANGED <<context, lists, counters, callers>>
  PROVE  IInv'
<1>1. TypeOK'
  BY DEF IInv, TypeOK, context, lists, counters, callers
<1>2. Lists' /\ LiveInverse' /\ CountersExact'
  <2>1. Lists /\ LiveInverse /\ CountersExact
    BY DEF IInv
  <2>2. Lists'
    BY <2>1 DEF Lists, context, lists, counters
  <2>3. LiveInverse'
    BY <2>1 DEF LiveInverse, context, lists, counters
  <2>4. CountersExact'
    BY <2>1 DEF CountersExact, AliveTids, RunningTids, context, lists, counters
  <2> QED
    BY <2>2, <2>3, <2>4
<1>3. \A u \in Uniques : InUse(u)' <=> InUse(u)
  BY DEF InUse, callers
<1>4. HandlesApart'
  BY <1>3 DEF IInv, HandlesApart, Held, context, callers
<1>5. Uses'
  BY <1>3 DEF IInv, Uses, UseOk, context, counters, callers
<1>6. Contexts'
  BY <1>3 DEF IInv, Contexts, ContextOk, context, lists, callers
<1> QED
  BY <1>1, <1>2, <1>4, <1>5, <1>6 DEF IInv

\* The death of CreateThread at the thread limit keeps the invariant.
LEMMA ThreadLimitStep ==
  ASSUME IInv, ThreadLimit
  PROVE  IInv'
BY RegistryRests DEF ThreadLimit

\* The steps that move thread u alone, and keep its context for it.
LEMMA OthersStay ==
  ASSUME IInv, NEW u \in Uniques, NEW t \in Tids, t = tidOf[u], InUse(u),
         UNCHANGED <<numThreads, tidOf, handle, uniqueId, total>>,
         \A v \in Uniques \ {u} : phase'[v] = phase[v] /\ claim'[v] = claim[v],
         \A c \in Tids \ {t} :
           /\ status'[c] = status[c] /\ detached'[c] = detached[c]
           /\ userId'[c] = userId[c] /\ destroyed'[c] = destroyed[c]
  PROVE  /\ uniqueId[t] = u /\ ~(t >= numThreads)
         /\ \A v \in Uniques \ {u} :
              /\ UseOk(v)' /\ (InUse(v)' <=> InUse(v)) /\ (Held(v)' <=> Held(v))
              /\ InUse(v) => tidOf[v] \in Tids \ {t}
         /\ \A c \in Tids \ {t} : ContextOk(c)'
         /\ UseOk(u)' /\ ContextOk(t)' => Uses' /\ Contexts'
<1>1. uniqueId[t] = u /\ status[t] # "Invalid"
  BY InUseFacts DEF IInv
<1>2. ~(t >= numThreads)
  BY <1>1 DEF IInv, Contexts, ContextOk
<1>3. \A v \in Uniques \ {u} : InUse(v) => tidOf[v] \in Tids \ {t}
  BY <1>1, InUseFacts DEF IInv
<1>4. \A v \in Uniques \ {u} : Undisturbed(v)
  BY <1>3 DEF Undisturbed
<1>5. \A v \in Uniques \ {u} :
        UseOk(v)' /\ (InUse(v)' <=> InUse(v)) /\ (Held(v)' <=> Held(v))
  BY <1>4, UseStays DEF IInv, Uses
<1>6. ASSUME NEW c \in Tids \ {t} PROVE ContextOk(c)'
  <2>1. ContextOk(c)
    BY DEF IInv, Contexts
  <2>2. userId[c] # NoUser => uniqueId[c] \in Uniques \ {u}
    BY <2>1 DEF ContextOk
  <2> QED
    BY <1>5, <2>1, <2>2 DEF ContextOk
<1>7. UseOk(u)' /\ ContextOk(t)' => Uses' /\ Contexts'
  BY <1>5, <1>6 DEF Uses, Contexts
<1> QED
  BY <1>1, <1>2, <1>3, <1>5, <1>6, <1>7

\* The lists know nothing of a context in use.
LEMMA ListsStay ==
  ASSUME IInv, NEW t \in Tids, status[t] \notin {"Dead", "Invalid"},
         UNCHANGED <<dead, invalid, numThreads>>,
         \A c \in Tids \ {t} : status'[c] = status[c] /\ destroyed'[c] = destroyed[c]
  PROVE  Lists'
<1>1. \A k \in 1 .. Len(dead) : dead[k] \in Tids \ {t}
  BY DEF IInv, TypeOK, Lists
<1>2. \A k \in 1 .. Len(invalid) : invalid[k] \in Tids \ {t}
  BY DEF IInv, TypeOK, Lists
<1>3. Lists
  BY DEF IInv
<1>4. \A k \in 1 .. Len(dead) : status'[dead[k]] = status[dead[k]]
  BY <1>1
<1>5. \A k \in 1 .. Len(invalid) :
        /\ status'[invalid[k]] = status[invalid[k]]
        /\ destroyed'[invalid[k]] = destroyed[invalid[k]]
  BY <1>2
<1> QED
  BY <1>3, <1>4, <1>5 DEF Lists

\* StartThread keeps the invariant.
LEMMA StartThreadStep ==
  ASSUME IInv, NEW u \in Uniques, StartThread(u)
  PROVE  IInv'
<1>1. InUse(u) /\ phase[u] = "created" /\ UseOk(u)
  BY DEF StartThread, InUse, IInv, Uses
<1>2. PICK t \in Tids : t = tidOf[u] /\ status[t] = "Created"
  BY <1>1 DEF UseOk
<1>3. /\ status' = [status EXCEPT ![t] = "Running"]
      /\ phase' = [phase EXCEPT ![u] = "running"]
      /\ running' = running + 1
      /\ UNCHANGED <<detached, destroyed, userId, uniqueId, reuseCount>>
      /\ UNCHANGED <<numThreads, dead, invalid, live>>
      /\ UNCHANGED <<total, alive, maxAlive, died, tidOf, handle, claim>>
  BY <1>2 DEF StartThread, lists
<1>4. /\ status'[t] = "Running" /\ phase'[u] = "running"
      /\ \A c \in Tids \ {t} : status'[c] = status[c]
      /\ \A v \in Uniques \ {u} : phase'[v] = phase[v]
      /\ status' \in [Tids -> Status]
      /\ phase' \in [Uniques -> {"none", "created", "running", "finished", "lost"}]
  BY <1>3 DEF IInv, TypeOK, Status
<1>5. /\ uniqueId[t] = u /\ ~(t >= numThreads)
      /\ \A v \in Uniques \ {u} : Held(v)' <=> Held(v)
      /\ UseOk(u)' /\ ContextOk(t)' => Uses' /\ Contexts'
  BY <1>1, <1>2, <1>3, <1>4, OthersStay
<1>6. UseOk(u)'
  BY <1>1, <1>2, <1>3, <1>4 DEF UseOk, InUse
<1>7. ContextOk(t)'
  <2>1. ContextOk(t)
    BY DEF IInv, Contexts
  <2>2. InUse(u)'
    BY <1>4 DEF InUse
  <2> QED
    BY <1>2, <1>3, <1>4, <1>5, <2>1, <2>2 DEF ContextOk
<1>8. Lists'
  BY <1>2, <1>3, <1>4, ListsStay
<1>9. HandlesApart'
  <2>1. \A v \in Uniques : Held(v)' => Held(v)
    BY <1>1, <1>3, <1>5 DEF Held
  <2> QED
    BY <1>3, <2>1 DEF IInv, HandlesApart
<1>10. LiveInverse'
  BY <1>3 DEF IInv, LiveInverse
<1>11. CountersExact'
  <2>1. /\ t \notin RunningTids
        /\ AliveTids' = AliveTids
        /\ RunningTids' = RunningTids \cup {t}
    BY <1>2, <1>4 DEF AliveTids, RunningTids
  <2> QED
    BY <1>3, <2>1, RunningGrows DEF IInv
<1>12. TypeOK'
  <2>1. running' \in Nat
    BY <1>11, CountersAreNat
  <2> QED
    BY <1>3, <1>4, <2>1 DEF IInv, TypeOK
<1> QED
  BY <1>5, <1>6, <1>7, <1>8, <1>9, <1>10, <1>11, <1>12 DEF IInv

\* The user_id of a thread in use is erased.
LEMMA EraseFacts ==
  ASSUME IInv, NEW t \in Tids, EraseUserId(t)
  PROVE  /\ userId' \in [Tids -> UserIds \cup {NoUser}]
         /\ userId'[t] = NoUser
         /\ \A c \in Tids \ {t} : userId'[c] = userId[c]
         /\ live' \in [UserIds -> Tids \cup {kInvalidTid}]
         /\ LiveInverse'
<1>1. /\ userId' \in [Tids -> UserIds \cup {NoUser}]
      /\ userId'[t] = NoUser
      /\ \A c \in Tids \ {t} : userId'[c] = userId[c]
  BY DEF IInv, TypeOK, EraseUserId
<1>2. \A i \in UserIds :
        live'[i] = IF i = userId[t] THEN kInvalidTid ELSE live[i]
  BY DEF EraseUserId
<1>3. live' \in [UserIds -> Tids \cup {kInvalidTid}]
  BY DEF IInv, TypeOK, EraseUserId
<1>4. LiveInverse'
  BY <1>1, <1>2, TidFacts, RegistryAssumption DEF IInv, LiveInverse
<1> QED
  BY <1>1, <1>3, <1>4

\* ConsumeThreadUserId keeps the invariant.
LEMMA ConsumeThreadUserIdStep ==
  ASSUME IInv, NEW u \in Uniques, ConsumeThreadUserId(u)
  PROVE  IInv'
<1>1. InUse(u) /\ claim[u] = "open" /\ UseOk(u)
      /\ phase[u] \in {"running", "finished"}
  BY DEF ConsumeThreadUserId, InUse, IInv, Uses
<1>2. PICK t \in Tids : t = tidOf[u] /\ userId[t] # NoUser
                       /\ status[t] \notin {"Dead", "Invalid"}
  BY <1>1, InUseFacts DEF IInv, ConsumeThreadUserId
<1>3. /\ claim' = [claim EXCEPT ![u] = "taken"]
      /\ EraseUserId(t)
      /\ UNCHANGED <<status, detached, destroyed, uniqueId, reuseCount>>
      /\ UNCHANGED <<numThreads, dead, invalid, died, tidOf, handle, phase>>
      /\ UNCHANGED <<total, alive, maxAlive, running>>
  BY <1>2 DEF ConsumeThreadUserId, counters
<1>4. /\ claim'[u] = "taken"
      /\ \A v \in Uniques \ {u} : claim'[v] = claim[v]
      /\ claim' \in [Uniques -> {"open", "taken", "joining", "closed"}]
  BY <1>3 DEF IInv, TypeOK
<1>5. /\ userId' \in [Tids -> UserIds \cup {NoUser}]
      /\ userId'[t] = NoUser
      /\ \A c \in Tids \ {t} : userId'[c] = userId[c]
      /\ live' \in [UserIds -> Tids \cup {kInvalidTid}]
      /\ LiveInverse'
  BY <1>3, EraseFacts
<1>6. /\ uniqueId[t] = u /\ ~(t >= numThreads)
      /\ \A v \in Uniques \ {u} : Held(v)' <=> Held(v)
      /\ UseOk(u)' /\ ContextOk(t)' => Uses' /\ Contexts'
  BY <1>1, <1>2, <1>3, <1>4, <1>5, OthersStay
<1>7. ContextOk(t)
  BY DEF IInv, Contexts
<1>8. handle[u] # NoUser
  BY <1>2, <1>6, <1>7 DEF ContextOk
<1>9. UseOk(u)'
  BY <1>1, <1>2, <1>3, <1>4, <1>5, <1>8 DEF UseOk, InUse
<1>10. ContextOk(t)'
  BY <1>3, <1>5, <1>7 DEF ContextOk
<1>11. Lists'
  BY <1>2, <1>3, ListsStay
<1>12. HandlesApart'
  <2>1. \A v \in Uniques : Held(v)' => Held(v)
    BY <1>1, <1>6 DEF Held
  <2> QED
    BY <1>3, <2>1 DEF IInv, HandlesApart
<1>13. CountersExact'
  BY <1>3 DEF IInv, CountersExact
<1>14. TypeOK'
  BY <1>3, <1>4, <1>5 DEF IInv, TypeOK
<1> QED
  BY <1>5, <1>6, <1>9, <1>10, <1>11, <1>12, <1>13, <1>14 DEF IInv

\* SetThreadUserId keeps the invariant.
LEMMA SetThreadUserIdStep ==
  ASSUME IInv, NEW u \in Uniques, SetThreadUserId(u)
  PROVE  IInv'
<1>1. InUse(u) /\ claim[u] = "taken" /\ UseOk(u) /\ Held(u)
  BY DEF SetThreadUserId, InUse, IInv, Uses, Held
<1>2. PICK t \in Tids : t = tidOf[u] /\ userId[t] = NoUser
                       /\ status[t] \notin {"Dead", "Invalid"}
  BY <1>1, InUseFacts DEF IInv, UseOk
<1>3. PICK i \in UserIds : i = handle[u] /\ i # NoUser
  BY <1>1 DEF UseOk, IInv, TypeOK
<1>4. /\ claim' = [claim EXCEPT ![u] = "open"]
      /\ userId' = [userId EXCEPT ![t] = i]
      /\ live' = [live EXCEPT ![i] = t]
      /\ UNCHANGED <<status, detached, destroyed, uniqueId, reuseCount>>
      /\ UNCHANGED <<numThreads, dead, invalid, died, tidOf, handle, phase>>
      /\ UNCHANGED <<total, alive, maxAlive, running>>
  BY <1>2, <1>3 DEF SetThreadUserId, counters
<1>5. /\ claim'[u] = "open"
      /\ \A v \in Uniques \ {u} : claim'[v] = claim[v]
      /\ claim' \in [Uniques -> {"open", "taken", "joining", "closed"}]
  BY <1>4 DEF IInv, TypeOK
<1>6. /\ userId' \in [Tids -> UserIds \cup {NoUser}]
      /\ userId'[t] = i
      /\ \A c \in Tids \ {t} : userId'[c] = userId[c]
      /\ live' \in [UserIds -> Tids \cup {kInvalidTid}]
      /\ live'[i] = t
      /\ \A j \in UserIds \ {i} : live'[j] = live[j]
  BY <1>4 DEF IInv, TypeOK
<1>7. /\ uniqueId[t] = u /\ ~(t >= numThreads)
      /\ \A v \in Uniques \ {u} : Held(v)' <=> Held(v)
      /\ UseOk(u)' /\ ContextOk(t)' => Uses' /\ Contexts'
  BY <1>1, <1>2, <1>4, <1>5, <1>6, OthersStay
<1>8. ContextOk(t) /\ InUse(u)'
  BY <1>5 DEF IInv, Contexts, InUse
<1>9. UseOk(u)'
  BY <1>1, <1>2, <1>4, <1>5 DEF UseOk, InUse
<1>10. ContextOk(t)'
  BY <1>2, <1>3, <1>4, <1>5, <1>6, <1>7, <1>8 DEF ContextOk
<1>11. Lists'
  BY <1>2, <1>4, ListsStay
<1>12. HandlesApart'
  <2>1. \A v \in Uniques : Held(v)' => Held(v)
    BY <1>1, <1>7
  <2> QED
    BY <1>4, <2>1 DEF IInv, HandlesApart
<1>13. LiveInverse'
  <2>1. ASSUME NEW c \in Tids, userId[c] = i PROVE FALSE
    <3>1. PICK w \in Uniques : handle[w] = i /\ Held(w) /\ tidOf[w] = c
      BY <1>3, <2>1, UserIdFacts DEF IInv
    <3>2. w = u
      BY <1>1, <1>3, <3>1 DEF IInv, HandlesApart
    <3> QED
      BY <1>2, <1>3, <2>1, <3>1, <3>2
  <2>2. ASSUME NEW j \in UserIds, NEW c \in Tids
        PROVE  live'[j] = c <=> userId'[c] = j
    <3>1. live[j] = c <=> userId[c] = j
      BY DEF IInv, LiveInverse
    <3>2. j # NoUser
      BY RegistryAssumption
    <3> QED
      BY <1>2, <1>6, <2>1, <3>1, <3>2
  <2> QED
    BY <2>2 DEF LiveInverse
<1>14. CountersExact'
  BY <1>4 DEF IInv, CountersExact
<1>15. TypeOK'
  BY <1>4, <1>5, <1>6 DEF IInv, TypeOK
<1> QED
  BY <1>7, <1>9, <1>10, <1>11, <1>12, <1>13, <1>14, <1>15 DEF IInv

\* The start of a join keeps the invariant.
LEMMA JoinBeginStep ==
  ASSUME IInv, NEW u \in Uniques, JoinBegin(u)
  PROVE  IInv'
<1>1. /\ InUse(u) /\ claim[u] \in {"open", "taken"} /\ UseOk(u) /\ Held(u)
      /\ phase[u] \in {"running", "finished"}
  BY DEF JoinBegin, InUse, IInv, Uses, Held
<1>2. PICK t \in Tids : t = tidOf[u] /\ status[t] \notin {"Dead", "Invalid"}
  BY <1>1, InUseFacts DEF IInv
<1>3. /\ claim' = [claim EXCEPT ![u] = "joining"]
      /\ UNCHANGED <<status, detached, destroyed, userId, uniqueId, reuseCount>>
      /\ UNCHANGED <<numThreads, dead, invalid, live>>
      /\ UNCHANGED <<total, alive, maxAlive, running>>
      /\ UNCHANGED <<died, tidOf, handle, phase>>
  BY DEF JoinBegin, context, lists, counters
<1>4. /\ claim'[u] = "joining"
      /\ \A v \in Uniques \ {u} : claim'[v] = claim[v]
      /\ claim' \in [Uniques -> {"open", "taken", "joining", "closed"}]
  BY <1>3 DEF IInv, TypeOK
<1>5. /\ uniqueId[t] = u /\ ~(t >= numThreads)
      /\ \A v \in Uniques \ {u} : Held(v)' <=> Held(v)
      /\ UseOk(u)' /\ ContextOk(t)' => Uses' /\ Contexts'
  BY <1>1, <1>2, <1>3, <1>4, OthersStay
<1>6. ContextOk(t) /\ InUse(u)'
  BY <1>4 DEF IInv, Contexts, InUse
<1>7. UseOk(u)'
  BY <1>1, <1>2, <1>3, <1>4 DEF UseOk, InUse
<1>8. ContextOk(t)'
  BY <1>3, <1>4, <1>5, <1>6 DEF ContextOk
<1>9. Lists'
  BY <1>2, <1>3, ListsStay
<1>10. HandlesApart'
  <2>1. \A v \in Uniques : Held(v)' => Held(v)
    BY <1>1, <1>5
  <2> QED
    BY <1>3, <2>1 DEF IInv, HandlesApart
<1>11. LiveInverse' /\ CountersExact'
  BY <1>3 DEF IInv, LiveInverse, CountersExact
<1>12. TypeOK'
  BY <1>3, <1>4 DEF IInv, TypeOK
<1> QED
  BY <1>5, <1>7, <1>8, <1>9, <1>10, <1>11, <1>12 DEF IInv

\* The last step of a thread whose context goes to the quarantine, the
\* counters aside.
LEMMA LastStep ==
  ASSUME QuarantineSize > 0, IInv, NEW u \in Uniques, InUse(u),
         NEW t \in Tids, t = tidOf[u],
         QuarantinePush(t, [status EXCEPT ![t] = "Dead"]), DestroyedBy(t),
         EraseUserId(t), Over(u),
         UNCHANGED <<numThreads, tidOf, handle, uniqueId, detached, total, died>>,
         phase' \in [Uniques -> {"none", "created", "running", "finished", "lost"}],
         claim' \in [Uniques -> {"open", "taken", "joining", "closed"}],
         maxAlive' = maxAlive, CountersExact'
  PROVE  IInv'
<1>1. status[t] \in {"Created", "Running", "Finished"}
  BY InUseFacts DEF IInv
<1>2. \A c \in Tids : c >= numThreads => status[c] = "Invalid"
  BY DEF IInv, Contexts, ContextOk
<1>3. /\ Lists' /\ Buried(t)
      /\ status' \in [Tids -> Status] /\ destroyed' \in [Tids -> BOOLEAN]
      /\ reuseCount' \in [Tids -> Nat]
      /\ dead' \in Seq(Tids) /\ invalid' \in Seq(Tids)
  BY <1>1, <1>2, PushStep DEF IInv
<1>4. Contexts' /\ Uses' /\ HandlesApart' /\ LiveInverse'
  BY <1>3, BurialStep
<1>5. /\ userId' \in [Tids -> UserIds \cup {NoUser}]
      /\ live' \in [UserIds -> Tids \cup {kInvalidTid}]
  BY EraseFacts
<1>6. alive' \in Nat /\ running' \in Nat
  BY CountersAreNat
<1>7. TypeOK'
  BY <1>3, <1>5, <1>6 DEF IInv, TypeOK
<1> QED
  BY <1>3, <1>4, <1>7 DEF IInv

\* QuarantinePush makes context t dead, and touches no context that is alive.
LEMMA PushedTids ==
  ASSUME QuarantineSize > 0, IInv, NEW t \in Tids,
         status[t] \in {"Created", "Running", "Finished"},
         numThreads' = numThreads,
         QuarantinePush(t, [status EXCEPT ![t] = "Dead"]), DestroyedBy(t)
  PROVE  AliveTids' = AliveTids \ {t} /\ RunningTids' = RunningTids \ {t}
<1>1. \A c \in Tids : c >= numThreads => status[c] = "Invalid"
  BY DEF IInv, Contexts, ContextOk
<1>2. Buried(t)
  BY <1>1, PushStep DEF IInv
<1>3. \A c \in Tids \ {t} :
        \/ status'[c] = status[c]
        \/ status[c] = "Dead" /\ status'[c] = "Invalid"
  BY <1>2 DEF Buried
<1>4. status'[t] = "Dead"
  BY <1>2 DEF Buried
<1> QED
  BY <1>3, <1>4 DEF AliveTids, RunningTids

\* FinishThread keeps the invariant.
LEMMA FinishThreadStep ==
  ASSUME QuarantineSize > 0, IInv, NEW u \in Uniques, FinishThread(u)
  PROVE  IInv'
<1>1. InUse(u) /\ phase[u] \in {"created", "running"} /\ UseOk(u)
  BY DEF FinishThread, InUse, IInv, Uses
<1>2. PICK t \in Tids : t = tidOf[u]
  BY <1>1 DEF UseOk
<1>3. /\ phase[u] = "created" <=> status[t] = "Created"
      /\ phase[u] = "running" <=> status[t] = "Running"
      /\ status[t] \in {"Created", "Running"}
  BY <1>1, <1>2 DEF UseOk
<1>4. /\ alive' = alive - 1
      /\ running' = IF status[t] = "Running" THEN running - 1 ELSE running
      /\ phase' = [phase EXCEPT ![u] = "finished"]
      /\ claim' = [claim EXCEPT ![u] =
                     IF phase[u] = "created" THEN "closed" ELSE claim[u]]
      /\ UNCHANGED <<detached, uniqueId, numThreads, total, maxAlive, died>>
      /\ UNCHANGED <<tidOf, handle>>
  BY <1>2 DEF FinishThread
<1>5. /\ phase'[u] = "finished"
      /\ claim'[u] = IF phase[u] = "created" THEN "closed" ELSE claim[u]
      /\ \A v \in Uniques \ {u} : phase'[v] = phase[v] /\ claim'[v] = claim[v]
      /\ phase' \in [Uniques -> {"none", "created", "running", "finished", "lost"}]
      /\ claim' \in [Uniques -> {"open", "taken", "joining", "closed"}]
  BY <1>4 DEF IInv, TypeOK
<1>6. ASSUME AliveTids' = AliveTids \ {t}, RunningTids' = RunningTids \ {t}
      PROVE  CountersExact'
  <2>1. t \in AliveTids /\ (t \in RunningTids <=> status[t] = "Running")
    BY <1>3 DEF AliveTids, RunningTids
  <2> QED
    BY <1>4, <1>6, <2>1, AliveShrinks DEF IInv
<1>7. CASE detached[t] \/ status[t] # "Running"
  <2>1. /\ QuarantinePush(t, [status EXCEPT ![t] = "Dead"])
        /\ EraseUserId(t)
        /\ destroyed' = [DestroyedAfterPush(t) EXCEPT ![t] = TRUE]
    BY <1>2, <1>7 DEF FinishThread
  <2>2. Over(u)
    <3>1. claim'[u] = "closed"
      BY <1>1, <1>2, <1>3, <1>5, <1>7 DEF UseOk
    <3> QED
      BY <1>5, <3>1 DEF Over
  <2>3. DestroyedBy(t)
    BY <2>1 DEF DestroyedBy
  <2>4. CountersExact'
    BY <1>3, <1>4, <1>6, <2>1, <2>3, PushedTids
  <2> QED
    BY <1>1, <1>2, <1>4, <1>5, <2>1, <2>2, <2>3, <2>4, LastStep
<1>8. CASE ~detached[t] /\ status[t] = "Running"
  <2>1. /\ status' = [status EXCEPT ![t] = "Finished"]
        /\ destroyed' = [destroyed EXCEPT ![t] = TRUE]
        /\ UNCHANGED <<reuseCount, userId, dead, invalid, live>>
    BY <1>2, <1>8 DEF FinishThread
  <2>2. /\ status'[t] = "Finished" /\ destroyed'[t]
        /\ \A c \in Tids \ {t} :
             status'[c] = status[c] /\ destroyed'[c] = destroyed[c]
        /\ status' \in [Tids -> Status] /\ destroyed' \in [Tids -> BOOLEAN]
    BY <2>1 DEF IInv, TypeOK, Status
  <2>3. claim'[u] = claim[u] /\ claim[u] # "closed" /\ phase[u] = "running"
    BY <1>1, <1>2, <1>3, <1>5, <1>8 DEF UseOk
  <2>4. /\ uniqueId[t] = u /\ ~(t >= numThreads)
        /\ \A v \in Uniques \ {u} : Held(v)' <=> Held(v)
        /\ UseOk(u)' /\ ContextOk(t)' => Uses' /\ Contexts'
    BY <1>1, <1>2, <1>4, <1>5, <2>1, <2>2, OthersStay
  <2>5. UseOk(u)'
    BY <1>1, <1>2, <1>4, <1>5, <1>8, <2>1, <2>2, <2>3 DEF UseOk, InUse
  <2>6. ContextOk(t)'
    <3>1. ContextOk(t) /\ InUse(u)'
      BY <2>3 DEF IInv, Contexts, InUse
    <3> QED
      BY <1>4, <2>1, <2>2, <2>3, <2>4, <3>1 DEF ContextOk
  <2>7. Lists'
    BY <1>4, <1>8, <2>1, <2>2, ListsStay
  <2>8. HandlesApart'
    <3>1. \A v \in Uniques : Held(v)' => Held(v)
      BY <1>1, <1>4, <2>1, <2>3, <2>4 DEF Held
    <3> QED
      BY <1>4, <3>1 DEF IInv, HandlesApart
  <2>9. LiveInverse'
    BY <2>1 DEF IInv, LiveInverse
  <2>10. CountersExact'
    <3>1. AliveTids' = AliveTids \ {t} /\ RunningTids' = RunningTids \ {t}
      BY <2>2 DEF AliveTids, RunningTids
    <3> QED
      BY <1>6, <3>1
  <2>11. TypeOK'
    <3>1. alive' \in Nat /\ running' \in Nat
      BY <2>10, CountersAreNat
    <3> QED
      BY <1>4, <1>5, <2>1, <2>2, <3>1 DEF IInv, TypeOK
  <2> QED
    BY <2>4, <2>5, <2>6, <2>7, <2>8, <2>9, <2>10, <2>11 DEF IInv
<1> QED
  BY <1>7, <1>8

\* JoinThread, and DetachThread of a thread that has finished.
LEMMA LetGoStep ==
  ASSUME QuarantineSize > 0, IInv, NEW u \in Uniques, InUse(u),
         NEW t \in Tids, t = tidOf[u], status[t] = "Finished",
         QuarantinePush(t, [status EXCEPT ![t] = "Dead"]), EraseUserId(t),
         destroyed' = DestroyedAfterPush(t),
         UNCHANGED <<detached, uniqueId, numThreads>>,
         claim' = [claim EXCEPT ![u] = "closed"],
         UNCHANGED <<counters, died, tidOf, handle, phase>>
  PROVE  IInv'
<1>1. phase[u] = "finished"
  BY DEF IInv, Uses, UseOk, InUse
<1>2. Over(u) /\ claim' \in [Uniques -> {"open", "taken", "joining", "closed"}]
  BY <1>1 DEF Over, IInv, TypeOK
<1>3. DestroyedBy(t)
  BY DEF DestroyedBy
<1>4. AliveTids' = AliveTids \ {t} /\ RunningTids' = RunningTids \ {t}
  BY <1>3, PushedTids
<1>5. t \notin AliveTids /\ t \notin RunningTids
  BY DEF AliveTids, RunningTids
<1>6. CountersExact'
  BY <1>4, <1>5, CountersStay DEF IInv, counters
<1>7. /\ maxAlive' = maxAlive /\ total' = total
      /\ phase' \in [Uniques -> {"none", "created", "running", "finished", "lost"}]
  BY DEF counters, IInv, TypeOK
<1> QED
  BY <1>2, <1>3, <1>6, <1>7, LastStep

\* JoinThread keeps the invariant.
LEMMA JoinThreadStep ==
  ASSUME QuarantineSize > 0, IInv, NEW u \in Uniques, JoinThread(u)
  PROVE  IInv'
<1>1. InUse(u) /\ claim[u] = "joining" /\ UseOk(u)
  BY DEF JoinThread, InUse, IInv, Uses
<1>2. PICK t \in Tids :
        t = tidOf[u] /\ status[t] \in {"Created", "Running", "Finished"}
  BY <1>1, InUseFacts DEF IInv
<1>3. /\ destroyed[t]
      /\ QuarantinePush(t, [status EXCEPT ![t] = "Dead"])
      /\ EraseUserId(t)
      /\ destroyed' = DestroyedAfterPush(t)
      /\ UNCHANGED <<detached, uniqueId, numThreads>>
      /\ claim' = [claim EXCEPT ![u] = "closed"]
      /\ UNCHANGED <<counters, died, tidOf, handle, phase>>
  BY <1>2 DEF JoinThread
<1>4. status[t] = "Finished"
  BY <1>2, <1>3 DEF IInv, Contexts, ContextOk
<1> QED
  BY <1>1, <1>2, <1>3, <1>4, LetGoStep

\* DetachThread keeps the invariant.
LEMMA DetachThreadStep ==
  ASSUME QuarantineSize > 0, IInv, NEW u \in Uniques, DetachThread(u)
  PROVE  IInv'
<1>1. /\ InUse(u) /\ claim[u] \in {"open", "taken"} /\ UseOk(u) /\ Held(u)
      /\ phase[u] \in {"running", "finished"}
  BY DEF DetachThread, InUse, IInv, Uses, Held
<1>2. PICK t \in Tids :
        t = tidOf[u] /\ status[t] \in {"Created", "Running", "Finished"}
  BY <1>1, InUseFacts DEF IInv
<1>3. /\ claim' = [claim EXCEPT ![u] = "closed"]
      /\ UNCHANGED <<counters, died, tidOf, handle, phase>>
  BY DEF DetachThread
<1>4. CASE status[t] = "Finished"
  <2>1. /\ QuarantinePush(t, [status EXCEPT ![t] = "Dead"])
        /\ EraseUserId(t)
        /\ destroyed' = DestroyedAfterPush(t)
        /\ UNCHANGED <<detached, uniqueId, numThreads>>
    BY <1>2, <1>4 DEF DetachThread
  <2> QED
    BY <1>1, <1>2, <1>3, <1>4, <2>1, LetGoStep
<1>5. CASE status[t] # "Finished"
  <2>1. /\ detached' = [detached EXCEPT ![t] = TRUE]
        /\ UNCHANGED <<status, destroyed, userId, uniqueId, reuseCount>>
        /\ UNCHANGED <<numThreads, dead, invalid, live>>
        /\ UNCHANGED <<total, alive, maxAlive, running>>
    BY <1>2, <1>3, <1>5 DEF DetachThread, lists, counters
  <2>2. /\ detached'[t] /\ detached' \in [Tids -> BOOLEAN]
        /\ \A c \in Tids \ {t} : detached'[c] = detached[c]
        /\ claim'[u] = "closed"
        /\ \A v \in Uniques \ {u} : claim'[v] = claim[v]
        /\ claim' \in [Uniques -> {"open", "taken", "joining", "closed"}]
    BY <1>3, <2>1 DEF IInv, TypeOK
  <2>3. phase[u] = "running" /\ phase'[u] = "running"
    BY <1>1, <1>2, <1>3, <1>5 DEF UseOk
  <2>4. /\ uniqueId[t] = u /\ ~(t >= numThreads)
        /\ \A v \in Uniques \ {u} : Held(v)' <=> Held(v)
        /\ UseOk(u)' /\ ContextOk(t)' => Uses' /\ Contexts'
    BY <1>1, <1>2, <1>3, <2>1, <2>2, OthersStay
  <2>5. UseOk(u)'
    BY <1>1, <1>2, <1>3, <2>1, <2>2, <2>3 DEF UseOk, InUse
  <2>6. ContextOk(t)'
    <3>1. ContextOk(t) /\ InUse(u)'
      BY <2>3 DEF IInv, Contexts, InUse
    <3> QED
      BY <1>3, <2>1, <2>2, <2>4, <3>1 DEF ContextOk
  <2>7. Lists'
    BY <1>2, <2>1, ListsStay
  <2>8. HandlesApart'
    <3>1. \A v \in Uniques : Held(v)' => Held(v)
      BY <1>1, <2>4
    <3> QED
      BY <1>3, <3>1 DEF IInv, HandlesApart
  <2>9. LiveInverse' /\ CountersExact'
    BY <2>1 DEF IInv, LiveInverse, CountersExact
  <2>10. TypeOK'
    BY <1>3, <2>1, <2>2 DEF IInv, TypeOK
  <2> QED
    BY <2>4, <2>5, <2>6, <2>7, <2>8, <2>9, <2>10 DEF IInv
<1> QED
  BY <1>4, <1>5

\* OnFork in the child keeps the invariant.
LEMMA OnForkStep ==
  ASSUME IInv, NEW u \in Uniques, OnFork(u)
  PROVE  IInv'
<1>1. InUse(u) /\ phase[u] = "running" /\ UseOk(u)
  BY DEF OnFork, InUse, IInv, Uses
<1>2. PICK t \in Tids : t = tidOf[u] /\ uniqueId[t] = u
  BY <1>1, InUseFacts DEF IInv
<1>3. UNCHANGED <<status, detached, destroyed, uniqueId, reuseCount,
                  numThreads, dead, invalid, total, alive, maxAlive, running,
                  died, tidOf, handle>>
  BY DEF OnFork, counters
<1>4. \A c \in Tids : c >= numThreads => userId[c] = NoUser
  <2> SUFFICES ASSUME NEW c \in Tids, c >= numThreads, userId[c] # NoUser
               PROVE  FALSE
    OBVIOUS
  <2>1. ContextOk(c)
    BY DEF IInv, Contexts
  <2>2. PICK w \in Uniques : InUse(w) /\ tidOf[w] = c
    BY UserIdFacts DEF IInv
  <2>3. status[c] # "Invalid"
    BY <2>2, InUseFacts DEF IInv
  <2> QED
    BY <2>1, <2>3 DEF ContextOk
<1>4a. \A c \in Tids : c >= numThreads \/ c \in 0 .. numThreads - 1
  BY DEF IInv, TypeOK, Tids
<1>4b. 0 .. numThreads - 1 \subseteq Tids
  BY RegistryAssumption DEF IInv, TypeOK, Tids
<1>5. \A c \in Tids : userId'[c] = IF c = t THEN userId[c] ELSE NoUser
  BY <1>2, <1>4 DEF OnFork
<1>6. userId' \in [Tids -> UserIds \cup {NoUser}]
  BY DEF OnFork, IInv, TypeOK
<1>7. \A v \in Uniques :
        /\ phase'[v] = IF v # u /\ phase[v] \in {"created", "running"} THEN "lost"
                       ELSE phase[v]
        /\ claim'[v] = IF v = u THEN claim[v] ELSE "closed"
  BY DEF OnFork
<1>8. /\ phase' \in [Uniques -> {"none", "created", "running", "finished", "lost"}]
      /\ claim' \in [Uniques -> {"open", "taken", "joining", "closed"}]
  BY DEF OnFork, IInv, TypeOK
<1>9. InUse(u)' /\ \A v \in Uniques \ {u} : ~InUse(v)'
  BY <1>1, <1>7 DEF InUse
<1>10. Contexts'
  <2> SUFFICES ASSUME NEW c \in Tids PROVE ContextOk(c)'
    BY DEF Contexts
  <2>1. ContextOk(c)
    BY DEF IInv, Contexts
  <2>2. CASE c = t
    BY <1>2, <1>3, <1>5, <1>7, <1>9, <2>1, <2>2 DEF ContextOk
  <2>3. CASE c # t
    BY <1>3, <1>5, <2>1, <2>3 DEF ContextOk
  <2> QED
    BY <2>2, <2>3
<1>11. Uses'
  <2>1. UseOk(u)'
    BY <1>1, <1>2, <1>3, <1>5, <1>7 DEF UseOk, InUse
  <2>2. ASSUME NEW v \in Uniques \ {u} PROVE UseOk(v)'
    <3>1. UseOk(v)
      BY DEF IInv, Uses
    <3>2. /\ claim'[v] = "closed" /\ phase'[v] \notin {"created", "running"}
          /\ phase[v] = "none" <=> phase'[v] = "none"
      BY <1>7
    <3> QED
      BY <1>3, <1>9, <3>1, <3>2 DEF UseOk
  <2> QED
    BY <2>1, <2>2 DEF Uses
<1>12. HandlesApart'
  <2>1. \A v \in Uniques : Held(v)' => v = u
    BY <1>9 DEF Held
  <2> QED
    BY <2>1 DEF HandlesApart
<1>13. live' \in [UserIds -> Tids \cup {kInvalidTid}]
  BY DEF OnFork, IInv, TypeOK
<1>14. LiveInverse'
  <2> SUFFICES ASSUME NEW i \in UserIds, NEW c \in Tids
               PROVE  live'[i] = c <=> userId'[c] = i
    BY DEF LiveInverse
  <2>1. /\ live[i] = c <=> userId[c] = i
        /\ live[i] = t <=> userId[t] = i
        /\ i # NoUser /\ kInvalidTid # c
    BY TidFacts, RegistryAssumption DEF IInv, LiveInverse
  <2>2. CASE \E e \in 0 .. numThreads - 1 : e # t /\ userId[e] = i
    <3>1. PICK e \in 0 .. numThreads - 1 : e # t /\ userId[e] = i
      BY <2>2
    <3>2. e \in Tids
      BY <1>4b
    <3>3. live[i] = e
      BY <3>1, <3>2 DEF IInv, LiveInverse
    <3>4. live'[i] = kInvalidTid
      BY <1>2, <2>2 DEF OnFork
    <3> QED
      BY <1>5, <2>1, <3>1, <3>3, <3>4
  <2>3. CASE ~\E e \in 0 .. numThreads - 1 : e # t /\ userId[e] = i
    <3>1. live'[i] = live[i]
      BY <1>2, <2>3 DEF OnFork
    <3>2. userId[c] = i /\ c # t => FALSE
      BY <1>4, <1>4a, <2>1, <2>3
    <3> QED
      BY <1>5, <2>1, <3>1, <3>2
  <2> QED
    BY <2>2, <2>3
<1>15. Lists' /\ CountersExact'
  BY <1>3 DEF IInv, Lists, CountersExact
<1>16. TypeOK'
  BY <1>3, <1>6, <1>8, <1>13 DEF IInv, TypeOK
<1> QED
  BY <1>10, <1>11, <1>12, <1>14, <1>15, <1>16 DEF IInv

-----------------------------------------------------------------------------
(* The theorems *)

\* The invariant holds of an empty registry.
LEMMA InitIInv == Init => IInv
<1> SUFFICES ASSUME Init PROVE IInv
  OBVIOUS
<1>1. TypeOK
  <2>1. /\ numThreads \in 0 .. MaxThreads /\ total \in 0 .. MaxTotal
        /\ alive \in Nat /\ maxAlive \in Nat /\ running \in Nat
    <3>1. numThreads = 0 /\ total = 0 /\ alive = 0 /\ maxAlive = 0 /\ running = 0
      BY DEF Init
    <3> QED
      BY <3>1, RegistryAssumption
  <2>1a. dead \in Seq(Tids) /\ invalid \in Seq(Tids) /\ died \in BOOLEAN
    <3>1. dead = <<>> /\ invalid = <<>>
      BY DEF Init
    <3>2. dead \in Seq(Tids) /\ invalid \in Seq(Tids)
      BY <3>1
    <3>3. died \in BOOLEAN
      BY DEF Init
    <3> QED
      BY <3>2, <3>3
  <2>2. /\ status \in [Tids -> Status] /\ detached \in [Tids -> BOOLEAN]
        /\ destroyed \in [Tids -> BOOLEAN]
        /\ userId \in [Tids -> UserIds \cup {NoUser}]
        /\ uniqueId \in [Tids -> Nat] /\ reuseCount \in [Tids -> Nat]
    BY DEF Init, Status
  <2>3. /\ live \in [UserIds -> Tids \cup {kInvalidTid}]
        /\ tidOf \in [Uniques -> Tids \cup {kInvalidTid}]
        /\ handle \in [Uniques -> UserIds \cup {NoUser}]
        /\ phase \in [Uniques -> {"none", "created", "running", "finished", "lost"}]
        /\ claim \in [Uniques -> {"open", "taken", "joining", "closed"}]
    BY DEF Init
  <2> QED
    BY <2>1, <2>1a, <2>2, <2>3 DEF TypeOK
<1>2. Lists
  BY RegistryAssumption DEF Init, Lists
<1>3. Contexts
  BY DEF Init, Contexts, ContextOk
<1>4. \A u \in Uniques : ~InUse(u)
  BY DEF Init, InUse
<1>5. Uses
  <2>1. /\ total = 0
        /\ \A u \in Uniques : u >= 0 /\ phase[u] = "none" /\ claim[u] = "closed"
    BY DEF Init, Uniques
  <2>2. \A u \in Uniques : ~(u < 0)
    BY DEF Uniques
  <2> QED
    BY <1>4, <2>1, <2>2 DEF Uses, UseOk
<1>6. HandlesApart
  BY <1>4 DEF HandlesApart, Held
<1>7. LiveInverse
  BY TidFacts, RegistryAssumption DEF Init, LiveInverse
<1>8. CountersExact
  <2>1. AliveTids = {} /\ RunningTids = {}
    BY DEF Init, AliveTids, RunningTids
  <2> QED
    <3>1. Cardinality(AliveTids) = 0 /\ Cardinality(RunningTids) = 0
      BY <2>1, FS_EmptySet
    <3>2. alive = 0 /\ running = 0 /\ maxAlive = 0
      BY DEF Init
    <3> QED
      BY <3>1, <3>2 DEF CountersExact, AliveTids, RunningTids
<1> QED
  BY <1>1, <1>2, <1>3, <1>5, <1>6, <1>7, <1>8 DEF IInv

\* Every operation of the registry keeps the invariant.
LEMMA NextIInv ==
  ASSUME QuarantineSize > 0
  PROVE  IInv /\ [Next]_vars => IInv'
<1> SUFFICES ASSUME IInv, [Next]_vars PROVE IInv'
  OBVIOUS
<1>1. ASSUME NEW i \in UserIds \cup {NoUser}, NEW d \in BOOLEAN, CreateThread(i, d)
      PROVE  IInv'
  BY <1>1, CreateThreadStep
<1>2. CASE ThreadLimit
  BY <1>2, ThreadLimitStep
<1>3. ASSUME NEW u \in Uniques, Step(u) PROVE IInv'
  <2>1. CASE StartThread(u)
    BY <2>1, StartThreadStep
  <2>2. CASE FinishThread(u)
    BY <2>2, FinishThreadStep
  <2>3. CASE ConsumeThreadUserId(u)
    BY <2>3, ConsumeThreadUserIdStep
  <2>4. CASE SetThreadUserId(u)
    BY <2>4, SetThreadUserIdStep
  <2>5. CASE JoinBegin(u)
    BY <2>5, JoinBeginStep
  <2>6. CASE JoinThread(u)
    BY <2>6, JoinThreadStep
  <2>7. CASE DetachThread(u)
    BY <2>7, DetachThreadStep
  <2>8. CASE OnFork(u)
    BY <2>8, OnForkStep
  <2> QED
    BY <1>3, <2>1, <2>2, <2>3, <2>4, <2>5, <2>6, <2>7, <2>8 DEF Step
<1>4. CASE UNCHANGED vars
  <2>1. died' \in BOOLEAN
    BY <1>4 DEF vars, IInv, TypeOK
  <2> QED
    BY <1>4, <2>1, RegistryRests DEF vars
<1> QED
  BY <1>1, <1>2, <1>3, <1>4 DEF Next

\* The inductive invariant of the registry: the lists, the contexts and the
\* threads that use them agree at the end of every method.
THEOREM RegistryInvariant ==
  ASSUME QuarantineSize > 0
  PROVE  Spec => []IInv
<1>1. Init => IInv
  BY InitIInv
<1>2. IInv /\ [Next]_vars => IInv'
  BY NextIInv
<1> QED
  BY <1>1, <1>2, PTL DEF Spec

\* The variables of the registry keep their types; its counters, which
\* FinishThread decrements, never become negative.
THEOREM RegistryTypes ==
  ASSUME QuarantineSize > 0
  PROVE  Spec => []TypeOK
<1>1. IInv => TypeOK
  BY DEF IInv
<1> QED
  BY <1>1, RegistryInvariant, PTL

\* CreateThread reuses no tid that a thread, or a join of it, may still use.
THEOREM TidIsKept ==
  ASSUME QuarantineSize > 0
  PROVE  Spec => []TidKept
<1>1. IInv => TidKept
  BY TidFacts, InUseFacts DEF IInv, TidKept
<1> QED
  BY <1>1, RegistryInvariant, PTL

\* The CHECKs of the registry and of the contexts hold, and JoinThread and
\* DetachThread find the thread they are called for.
THEOREM RegistryChecksHold ==
  ASSUME QuarantineSize > 0
  PROVE  Spec => []ChecksHold
<1>1. ASSUME IInv, NEW u \in Uniques
      PROVE  /\ phase[u] = "created" => status[tidOf[u]] = "Created"
             /\ phase[u] = "running" => status[tidOf[u]] = "Running"
             /\ claim[u] # "closed" =>
                  /\ ~detached[tidOf[u]]
                  /\ status[tidOf[u]] \in {"Created", "Running", "Finished"}
                  /\ destroyed[tidOf[u]] <=> status[tidOf[u]] = "Finished"
             /\ claim[u] = "taken" =>
                  userId[tidOf[u]] = NoUser /\ live[handle[u]] = kInvalidTid
  <2>1. UseOk(u)
    BY <1>1 DEF IInv, Uses
  <2>2. ASSUME claim[u] # "closed"
        PROVE  /\ status[tidOf[u]] \in {"Created", "Running", "Finished"}
               /\ destroyed[tidOf[u]] <=> status[tidOf[u]] = "Finished"
    <3>1. InUse(u)
      BY <2>2 DEF InUse
    <3>2. /\ tidOf[u] \in Tids
          /\ status[tidOf[u]] \in {"Created", "Running", "Finished"}
      BY <1>1, <3>1, InUseFacts DEF IInv
    <3> QED
      BY <1>1, <3>2 DEF IInv, Contexts, ContextOk
  <2>3. ASSUME claim[u] = "taken" PROVE live[handle[u]] = kInvalidTid
    <3>1. PICK i \in UserIds : i = handle[u] /\ i # NoUser
      BY <1>1, <2>1, <2>3 DEF UseOk, IInv, TypeOK
    <3>2. Held(u) /\ userId[tidOf[u]] = NoUser
      BY <2>1, <2>3 DEF Held, InUse, UseOk
    <3>3. ASSUME NEW c \in Tids, live[i] = c PROVE FALSE
      <4>1. userId[c] = i
        BY <1>1, <3>3 DEF IInv, LiveInverse
      <4>2. PICK w \in Uniques : handle[w] = i /\ Held(w) /\ tidOf[w] = c
        BY <1>1, <3>1, <4>1, UserIdFacts DEF IInv
      <4>3. HandlesApart
        BY <1>1 DEF IInv
      <4>4. w = u
        BY <3>1, <3>2, <4>2, <4>3 DEF HandlesApart
      <4> QED
        BY <3>1, <3>2, <4>1, <4>2, <4>4
    <3> QED
      BY <1>1, <3>1, <3>3 DEF IInv, TypeOK
  <2> QED
    BY <2>1, <2>2, <2>3 DEF UseOk
<1>2. IInv => ChecksHold
  BY <1>1 DEF ChecksHold
<1> QED
  BY <1>2, RegistryInvariant, PTL

\* live_ is the inverse of user_id, and a pthread_t the system may hand out
\* again is not in live_: the CHECK of CreateThread holds.
THEOREM LiveIsExact ==
  ASSUME QuarantineSize > 0
  PROVE  Spec => []LiveExact
<1>1. ASSUME IInv, NEW i \in UserIds, Available(i) PROVE live[i] = kInvalidTid
  <2>1. ASSUME NEW c \in Tids, live[i] = c PROVE FALSE
    <3>1. userId[c] = i /\ i # NoUser
      BY <1>1, <2>1, RegistryAssumption DEF IInv, LiveInverse
    <3>2. PICK w \in Uniques : handle[w] = i /\ InUse(w) /\ tidOf[w] = c
      BY <1>1, <3>1, UserIdFacts DEF IInv
    <3> QED
      BY <1>1, <3>1, <3>2 DEF Available, InUse
  <2> QED
    BY <1>1, <2>1 DEF IInv, TypeOK
<1>2. IInv => LiveExact
  BY <1>1 DEF IInv, LiveInverse, LiveExact
<1> QED
  BY <1>2, RegistryInvariant, PTL

\* GetNumberOfThreads and GetMaxAliveThreads count the contexts exactly.
THEOREM CountersAreExact ==
  ASSUME QuarantineSize > 0
  PROVE  Spec => []CountersExact
<1>1. IInv => CountersExact
  BY DEF IInv
<1> QED
  BY <1>1, RegistryInvariant, PTL
=============================================================================
