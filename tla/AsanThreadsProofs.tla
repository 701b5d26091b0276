-------------------------- MODULE AsanThreadsProofs --------------------------
(***************************************************************************)
(* RootsExact, JoinsMeetTheirThread and ThreadIsMapped for any number of   *)
(* threads, pthread_t's and kernel ids.                                    *)
(*                                                                         *)
(* The argument rests on who owns a pthread_t.  A thread owns its own from *)
(* RealCreate to the point where the library may hand it out again, and    *)
(* no two threads own the same one, so an entry of ThreadArgRetval is only *)
(* changed for its own thread.  The one exception is AfterJoin, which runs *)
(* when the pthread_t is free already: there the generations tell the      *)
(* entries apart, and no two threads get the same one.                     *)
(***************************************************************************)
EXTENDS AsanThreads, FiniteSetTheorems, TLAPS

-----------------------------------------------------------------------------
(* The inductive invariant *)

\* Where a thread exists for the operating system.
Alive == {"entry", "start", "routine", "dtor", "unmap", "exit"}

\* Where a thread is before, or instead of, its start.
Unstarted == {"none", "created", "failed", "unmap_failed"}

\* What data_ may hold.
Entries ==
  [of : Tids \cup {None}, done : BOOLEAN, detached : BOOLEAN, gen : 0 .. kInvalidGen]

TypeOK ==
  /\ detached \in [Tids -> BOOLEAN] /\ gone \in [Tids -> BOOLEAN]
  /\ pc \in [Tids -> Alive \cup Unstarted \cup {"over"}]
  /\ handle \in [Tids -> Handles \cup {None}]
  /\ free \in SUBSET Handles
  /\ claim \in [Tids -> {"closed", "open", "joining", "joined"}]
  /\ joinGen \in [Tids -> 0 .. kInvalidGen]
  /\ data \in [Handles -> Entries]
  /\ gen \in 0 .. kInvalidGen - 1
  /\ mtx \in Tids \cup {None}

\* The library may not give the thread's pthread_t to another one.
Owns(t) ==
  \/ pc[t] \in Alive
  \/ pc[t] = "over" /\ (t = kMainTid \/ claim[t] \in {"open", "joining"})

HandlesApart ==
  /\ \A t \in Tids : Owns(t) => handle[t] \in Handles /\ handle[t] \notin free
  /\ \A t, u \in Tids : Owns(t) /\ Owns(u) /\ handle[t] = handle[u] => t = u
  /\ \A t \in Tids \ {kMainTid} : handle[t] # handle[kMainTid]

\* Somebody may join or detach a thread unless it is detached, or was joined.
Claims ==
  /\ pc[kMainTid] \in Alive \cup {"over"} /\ claim[kMainTid] = "closed"
  /\ \A t \in Tids :
       /\ mtx = t => pc[t] = "entry" /\ claim[t] = "closed" /\ gone[t] = detached[t]
       /\ pc[t] \in Unstarted => claim[t] = "closed" /\ handle[t] = None
       /\ pc[t] \in Alive /\ t # kMainTid /\ mtx # t =>
            IF gone[t] THEN claim[t] = "closed" ELSE claim[t] \in {"open", "joining"}
       /\ claim[t] # "closed" => ~gone[t] /\ handle[t] \in Handles
       /\ claim[t] = "joined" => pc[t] = "over"
  /\ mtx # kMainTid /\ ~gone[kMainTid]

\* The threads that CreateLocked has made an entry for.
Entered == {t \in Tids : t # kMainTid /\ handle[t] # None /\ mtx # t}

\* What ThreadArgRetval knows of a thread.
Entry(t) ==
  /\ BeforeFinish(t) /\ mtx # t => data[handle[t]].of = t /\ ~data[handle[t]].done
  /\ claim[t] \in {"open", "joining"} => data[handle[t]].of = t
  /\ claim[t] \in {"joining", "joined"} =>
       /\ joinGen[t] # kInvalidGen
       /\ \A h \in Handles : data[h].of # None =>
            (data[h].gen = joinGen[t] <=> data[h].of = t)

\* The thread an entry is about.
EntryOf(h) ==
  /\ data[h].of = None => data[h] = NoEntry
  /\ data[h].of # None =>
       /\ handle[data[h].of] = h
       /\ data[h].of \in Entered
       /\ data[h].gen # kInvalidGen
       /\ data[h].detached = gone[data[h].of]
       /\ \/ BeforeFinish(data[h].of)
          \/ claim[data[h].of] # "closed"
          \/ data[h].detached /\ ~data[h].done

\* No two entries have the same generation, and the next one is a new one.
Generations ==
  /\ \A g, h \in Handles :
       data[g].of # None /\ data[h].of # None /\ data[g].gen = data[h].gen => g = h
  /\ \/ Entered = Tids \ {kMainTid}
     \/ /\ gen = Cardinality(Entered)
        /\ \A h \in Handles : data[h].of # None => data[h].gen < gen
        /\ \A t \in Tids : claim[t] \in {"joining", "joined"} => joinGen[t] < gen

Objects ==
  \A t \in Tids :
    /\ mapped[t] <=> pc[t] \notin {"none", "exit", "over"}
    /\ thread[t] <=> pc[t] \notin {"none", "unmap", "unmap_failed", "exit", "over"}

IInv ==
  /\ TypeOK /\ HandlesApart /\ Claims /\ Generations
  /\ \A t \in Tids \ {kMainTid} : Entry(t)
  /\ \A h \in Handles : EntryOf(h)

-----------------------------------------------------------------------------
(* Steps that only move a thread on *)

argvars == <<detached, gone, handle, free, claim, joinGen, data, gen, mtx>>

\* None names neither a thread nor a pthread_t.
LEMMA NoneApart ==
  /\ None \notin Tids /\ None \notin Handles
  /\ kMainTid \in Tids
BY ThreadsAssumption DEF Tids, kMainTid

\* What the invariant says of the thread an entry is about.
LEMMA EntryFacts ==
  ASSUME IInv, NEW h \in Handles, NEW t \in Tids, data[h].of = t
  PROVE  /\ t \in Entered /\ handle[t] = h /\ t # kMainTid /\ mtx # t
         /\ data[h].gen # kInvalidGen /\ data[h].detached = gone[t]
         /\ BeforeFinish(t) \/ claim[t] # "closed" \/ (data[h].detached /\ ~data[h].done)
         /\ data[h] # NoEntry
<1>1. EntryOf(h) /\ t # None
  BY NoneApart DEF IInv
<1>2. /\ t \in Entered /\ handle[t] = h
      /\ data[h].gen # kInvalidGen /\ data[h].detached = gone[t]
      /\ BeforeFinish(t) \/ claim[t] # "closed" \/ (data[h].detached /\ ~data[h].done)
  BY <1>1 DEF EntryOf
<1>3. data[h] # NoEntry
  BY <1>1 DEF NoEntry
<1> QED
  BY <1>2, <1>3 DEF Entered

\* An entry is as good as it was if its thread is where it was.
LEMMA EntryFrame ==
  ASSUME IInv, NEW h \in Handles, data'[h] = data[h],
         \A u \in Tids : data[h].of = u =>
           /\ handle'[u] = handle[u] /\ u \in Entered'
           /\ gone'[u] = gone[u] /\ claim'[u] = claim[u]
           /\ BeforeFinish(u) => BeforeFinish(u)'
  PROVE  EntryOf(h)'
<1>1. CASE data[h].of = None
  <2>1. data[h] = NoEntry
    BY <1>1 DEF IInv, EntryOf
  <2> QED
    BY <1>1, <2>1 DEF EntryOf, NoEntry
<1>2. CASE data[h].of # None
  <2> DEFINE u == data[h].of
  <2>1. u \in Tids
    BY <1>2 DEF IInv, TypeOK, Entries
  <2>2. /\ handle[u] = h /\ data[h].gen # kInvalidGen /\ data[h].detached = gone[u]
        /\ BeforeFinish(u) \/ claim[u] # "closed" \/ (data[h].detached /\ ~data[h].done)
    BY <2>1, EntryFacts
  <2>3. /\ handle'[u] = handle[u] /\ u \in Entered'
        /\ gone'[u] = gone[u] /\ claim'[u] = claim[u]
        /\ BeforeFinish(u) => BeforeFinish(u)'
    BY <2>1
  <2> QED
    BY <1>2, <2>2, <2>3 DEF EntryOf
<1> QED
  BY <1>1, <1>2

\* An entry that was erased is about nobody.
LEMMA ErasedIsGood ==
  ASSUME NEW h \in Handles, data'[h] = NoEntry
  PROVE  EntryOf(h)'
<1>1. data'[h].of = None
  BY DEF NoEntry
<1> QED
  BY <1>1 DEF EntryOf, NoEntry

\* A thread that has not been started takes a step without being started.
LEMMA UnstartedMoves ==
  ASSUME IInv, NEW t \in Tids, pc[t] \in Unstarted, NEW l \in Unstarted \cup {"over"},
         Goto(t, l), UNCHANGED argvars
  PROVE  IInv'
<1>0. /\ pc' = [pc EXCEPT ![t] = l]
      /\ UNCHANGED <<detached, gone, handle, free, claim, joinGen, data, gen, mtx>>
  BY DEF Goto, argvars
<1>1. /\ t # kMainTid /\ claim[t] = "closed" /\ handle[t] = None /\ mtx # t
  BY DEF IInv, Claims, Unstarted, Alive
<1>2. TypeOK'
  BY <1>0 DEF IInv, TypeOK
<1>3. \A u \in Tids : Owns(u)' <=> Owns(u)
  BY <1>0, <1>1 DEF IInv, TypeOK, Owns, Alive, Unstarted
<1>4. \A u \in Tids : BeforeFinish(u)' <=> BeforeFinish(u)
  BY <1>0, <1>1 DEF IInv, TypeOK, BeforeFinish, Unstarted
<1>5. HandlesApart'
  BY <1>0, <1>3 DEF IInv, HandlesApart
<1>6. Claims'
  BY <1>0, <1>1 DEF IInv, TypeOK, Claims, Alive, Unstarted
<1>7. Entered' = Entered
  BY <1>0 DEF Entered
<1>8. Generations'
  BY <1>0, <1>7 DEF IInv, Generations
<1>9. \A u \in Tids \ {kMainTid} : Entry(u)'
  BY <1>0, <1>4 DEF IInv, Entry
<1>10. ASSUME NEW h \in Handles
       PROVE  EntryOf(h)'
  <2>1. data[h].of \in Tids \cup {None}
    BY DEF IInv, TypeOK, Entries
  <2> QED
    BY <1>0, <1>4, <1>7, <2>1 DEF IInv, EntryOf, NoEntry
<1> QED
  BY <1>2, <1>5, <1>6, <1>8, <1>9, <1>10 DEF IInv

\* A thread takes a step of its life that leaves its entry alone.  If this is
\* the end of its routine, the thread was cancelled.
LEMMA AliveMoves ==
  ASSUME IInv, NEW t \in Tids, pc[t] \in Alive, NEW l \in Alive, mtx # t,
         l \in {"entry", "start", "routine"} => BeforeFinish(t),
         Goto(t, l), UNCHANGED argvars
  PROVE  IInv'
<1>0. /\ pc' = [pc EXCEPT ![t] = l]
      /\ UNCHANGED <<detached, gone, handle, free, claim, joinGen, data, gen, mtx>>
  BY DEF Goto, argvars
<1>2. TypeOK'
  BY <1>0 DEF IInv, TypeOK
<1>3. \A u \in Tids : Owns(u)' <=> Owns(u)
  BY <1>0 DEF IInv, TypeOK, Owns
<1>4. \A u \in Tids : BeforeFinish(u)' => BeforeFinish(u)
  BY <1>0 DEF IInv, TypeOK, BeforeFinish
<1>5. HandlesApart'
  BY <1>0, <1>3 DEF IInv, HandlesApart
<1>6. Claims'
  BY <1>0 DEF IInv, TypeOK, Claims, Alive, Unstarted
<1>7. Entered' = Entered
  BY <1>0 DEF Entered
<1>8. Generations'
  BY <1>0, <1>7 DEF IInv, Generations
<1>9. \A u \in Tids \ {kMainTid} : Entry(u)'
  BY <1>0, <1>4 DEF IInv, Entry
<1>10. ASSUME NEW h \in Handles
       PROVE  EntryOf(h)'
  <2>1. data[h].of \in Tids \cup {None}
    BY DEF IInv, TypeOK, Entries
  <2>2. \A u \in Tids : u # t => (BeforeFinish(u)' <=> BeforeFinish(u))
    BY <1>0 DEF IInv, TypeOK, BeforeFinish
  <2>3. CASE data[h].of = t
    <3>1. /\ t \in Entered /\ handle[t] = h /\ t # kMainTid /\ data[h].gen # kInvalidGen
          /\ data[h].detached = gone[t]
          /\ BeforeFinish(t) \/ claim[t] # "closed" \/ (data[h].detached /\ ~data[h].done)
      BY <2>3, EntryFacts
    <3>2. BeforeFinish(t) => ~data[h].done
      BY <3>1 DEF IInv, Entry
    <3>3. claim[t] = "closed" => gone[t]
      BY <3>1 DEF IInv, Claims
    <3> QED
      BY <1>0, <1>7, <2>3, <3>1, <3>2, <3>3, NoneApart DEF EntryOf
  <2> QED
    BY <1>0, <1>7, <2>1, <2>2, <2>3 DEF IInv, EntryOf, NoEntry
<1> QED
  BY <1>2, <1>5, <1>6, <1>8, <1>9, <1>10 DEF IInv

-----------------------------------------------------------------------------
(* pthread_create *)

\* The library starts a thread, with a pthread_t that nobody owns.
LEMMA RealCreateKeeps ==
  ASSUME IInv, NEW t \in Tids, NEW h \in Handles, NEW k \in OsIds, RealCreate(t, h, k)
  PROVE  IInv'
<1>0. /\ pc[t] = "created" /\ mtx = None /\ h \in free
      /\ mtx' = t
      /\ handle' = [handle EXCEPT ![t] = h]
      /\ free' = free \ {h}
      /\ gone' = [gone EXCEPT ![t] = detached[t]]
      /\ pc' = [pc EXCEPT ![t] = "entry"]
      /\ UNCHANGED <<detached, claim, joinGen, data, gen>>
  BY DEF RealCreate, Goto, context, args
<1>1. t # kMainTid /\ claim[t] = "closed" /\ handle[t] = None
  BY <1>0 DEF IInv, Claims, Unstarted, Alive
<1>2. TypeOK'
  BY <1>0 DEF IInv, TypeOK, Alive
<1>3. \A u \in Tids : u # t => (Owns(u)' <=> Owns(u)) /\ handle'[u] = handle[u]
  BY <1>0 DEF IInv, TypeOK, Owns
<1>4. handle'[t] = h /\ \A u \in Tids : Owns(u) => handle[u] # h
  BY <1>0 DEF IInv, TypeOK, HandlesApart
<1>5. handle[kMainTid] # h
  BY <1>4, NoneApart DEF IInv, Claims, Owns
<1>6. HandlesApart'
  <2>1. \A u \in Tids : Owns(u)' => handle'[u] \in Handles /\ handle'[u] \notin free'
    BY <1>0, <1>3, <1>4 DEF IInv, HandlesApart
  <2>2. \A u, v \in Tids : Owns(u)' /\ Owns(v)' /\ handle'[u] = handle'[v] => u = v
    BY <1>3, <1>4 DEF IInv, HandlesApart
  <2>3. \A u \in Tids \ {kMainTid} : handle'[u] # handle'[kMainTid]
    BY <1>1, <1>3, <1>4, <1>5, NoneApart DEF IInv, HandlesApart
  <2> QED
    BY <2>1, <2>2, <2>3 DEF HandlesApart
<1>7. Claims'
  BY <1>0, <1>1, NoneApart DEF IInv, TypeOK, Claims, Alive, Unstarted
<1>8. Entered' = Entered
  BY <1>0, <1>1, NoneApart DEF IInv, TypeOK, Entered
<1>9. Generations'
  BY <1>0, <1>8 DEF IInv, Generations
<1>10. \A u \in Tids \ {kMainTid} : Entry(u)'
  BY <1>0, <1>1, <1>3, NoneApart DEF IInv, TypeOK, Entry, BeforeFinish
<1>11. ASSUME NEW g \in Handles
       PROVE  EntryOf(g)'
  <2>1. data[g].of \in Tids \cup {None} /\ data[g].of # t
    BY <1>1, EntryFacts, NoneApart DEF IInv, TypeOK, Entries
  <2>2. \A u \in Tids : u # t => /\ BeforeFinish(u)' <=> BeforeFinish(u)
                                 /\ gone'[u] = gone[u]
    BY <1>0 DEF IInv, TypeOK, BeforeFinish
  <2> QED
    BY <1>0, <1>3, <1>8, <2>1, <2>2, EntryFacts, EntryFrame
<1> QED
  BY <1>2, <1>6, <1>7, <1>9, <1>10, <1>11 DEF IInv

\* As long as a thread has no entry, gen_ has not come round.
LEMMA GenIsNew ==
  ASSUME IInv, NEW t \in Tids \ {kMainTid}, t \notin Entered
  PROVE  /\ gen = Cardinality(Entered) /\ IsFiniteSet(Entered)
         /\ \A h \in Handles : data[h].of # None => data[h].gen < gen
         /\ \A u \in Tids : claim[u] \in {"joining", "joined"} => joinGen[u] < gen
         /\ Entered \cup {t} # Tids \ {kMainTid} => gen + 1 < kInvalidGen
<1> DEFINE all == Tids \ {kMainTid}
<1>1. Entered # all
  OBVIOUS
<1>2. all = 1 .. MaxTid
  BY ThreadsAssumption DEF Tids, kMainTid
<1>3. IsFiniteSet(all) /\ Cardinality(all) = MaxTid
  <2>1. /\ IsFiniteSet(1 .. MaxTid)
        /\ Cardinality(1 .. MaxTid) = IF 1 > MaxTid THEN 0 ELSE MaxTid - 1 + 1
    BY ThreadsAssumption, FS_Interval
  <2>2. MaxTid = IF 1 > MaxTid THEN 0 ELSE MaxTid - 1 + 1
    BY ThreadsAssumption
  <2> HIDE DEF all
  <2> QED
    BY <1>2, <2>1, <2>2
<1>4. Entered \subseteq all /\ Entered \cup {t} \subseteq all
  BY DEF Entered
<1>5. IsFiniteSet(Entered) /\ IsFiniteSet(Entered \cup {t})
  BY <1>3, <1>4, FS_Subset
<1>6. Cardinality(Entered \cup {t}) = Cardinality(Entered) + 1
  BY <1>5, FS_AddElement
<1>7. Entered \cup {t} # all => Cardinality(Entered \cup {t}) < MaxTid
  <2>1. /\ Cardinality(Entered \cup {t}) \in Nat
        /\ Cardinality(Entered \cup {t}) <= MaxTid
        /\ Cardinality(Entered \cup {t}) = MaxTid => Entered \cup {t} = all
    BY <1>3, <1>4, <1>5, FS_Subset, FS_CardinalityType
  <2> QED
    BY <2>1, ThreadsAssumption
<1>8. /\ gen = Cardinality(Entered)
      /\ \A h \in Handles : data[h].of # None => data[h].gen < gen
      /\ \A u \in Tids : claim[u] \in {"joining", "joined"} => joinGen[u] < gen
  BY <1>1 DEF IInv, Generations
<1>9. Entered \cup {t} # all => gen + 1 < kInvalidGen
  BY <1>6, <1>7, <1>8, ThreadsAssumption DEF IInv, TypeOK
<1> QED
  BY <1>5, <1>8, <1>9

\* CreateLocked makes the entry of the new thread, with a new generation.
LEMMA CreateLockedKeeps ==
  ASSUME IInv, NEW t \in Tids, CreateLocked(t)
  PROVE  IInv'
<1> DEFINE h == handle[t]
           e == [of |-> t, done |-> FALSE, detached |-> detached[t], gen |-> gen]
<1>0. /\ mtx = t /\ mtx' = None
      /\ data' = [data EXCEPT ![h] = e]
      /\ gen' = IF gen + 1 = kInvalidGen THEN 0 ELSE gen + 1
      /\ claim' = [claim EXCEPT ![t] = IF detached[t] THEN "closed" ELSE "open"]
      /\ UNCHANGED <<detached, gone, handle, free, pc, joinGen>>
  BY DEF CreateLocked, context, os
<1>1. /\ t # kMainTid /\ t # None /\ pc[t] = "entry" /\ claim[t] = "closed"
      /\ gone[t] = detached[t]
  BY <1>0, NoneApart DEF IInv, Claims
<1>2. h \in Handles /\ \A u \in Tids : Owns(u) /\ handle[u] = h => u = t
  BY <1>1 DEF IInv, HandlesApart, Owns, Alive
<1>3. t \notin Entered /\ Entered' = Entered \cup {t}
  BY <1>0, <1>1, <1>2, NoneApart DEF IInv, TypeOK, Entered
<1>4. /\ gen = Cardinality(Entered) /\ IsFiniteSet(Entered)
      /\ \A g \in Handles : data[g].of # None => data[g].gen < gen
      /\ \A u \in Tids : claim[u] \in {"joining", "joined"} => joinGen[u] < gen
      /\ Entered' # Tids \ {kMainTid} => gen + 1 < kInvalidGen
  BY <1>1, <1>3, GenIsNew
<1>5. gen \in 0 .. kInvalidGen - 1 /\ gen # kInvalidGen
  BY ThreadsAssumption DEF IInv, TypeOK
<1>6. /\ data'[h] = e
      /\ \A g \in Handles : g # h => data'[g] = data[g]
      /\ claim'[t] = IF detached[t] THEN "closed" ELSE "open"
      /\ \A u \in Tids : u # t => claim'[u] = claim[u]
  BY <1>0, <1>2 DEF IInv, TypeOK
<1>7. TypeOK'
  <2>1. e \in Entries
    BY <1>5, ThreadsAssumption DEF IInv, TypeOK, Entries
  <2>2. gen' \in 0 .. kInvalidGen - 1
    BY <1>0, <1>5, ThreadsAssumption
  <2>3. data' \in [Handles -> Entries]
    BY <1>0, <2>1 DEF IInv, TypeOK
  <2>4. claim' \in [Tids -> {"closed", "open", "joining", "joined"}]
    BY <1>0 DEF IInv, TypeOK
  <2> QED
    BY <1>0, <2>2, <2>3, <2>4 DEF IInv, TypeOK
<1>8. \A u \in Tids : Owns(u)' <=> Owns(u)
  BY <1>0, <1>1, <1>6 DEF Owns, Alive
<1>9. HandlesApart'
  BY <1>0, <1>8 DEF IInv, HandlesApart
<1>10. Claims'
  BY <1>0, <1>1, <1>2, <1>6, NoneApart DEF IInv, TypeOK, Claims, Alive, Unstarted
<1>11. Generations'
  <2>1. \A g \in Handles : data'[g].of # None =>
          (data'[g].gen = gen /\ g = h) \/ (data'[g].gen < gen /\ g # h)
    <3>1. data'[h].gen = gen
      BY <1>6
    <3>2. ASSUME NEW g \in Handles, g # h, data'[g].of # None PROVE data'[g].gen < gen
      <4>1. data'[g] = data[g]
        BY <1>6, <3>2
      <4> QED
        BY <1>4, <3>2, <4>1
    <3> QED
      BY <3>1, <3>2
  <2>2. \A g \in Handles : data'[g].gen \in Nat
    BY <1>7, ThreadsAssumption DEF TypeOK, Entries
  <2>3. ASSUME NEW g \in Handles, NEW i \in Handles,
               data'[g].of # None, data'[i].of # None, data'[g].gen = data'[i].gen
        PROVE  g = i
    <3>1. CASE g = h \/ i = h
      BY <1>5, <2>1, <2>2, <2>3, <3>1
    <3>2. CASE g # h /\ i # h
      BY <1>6, <2>3, <3>2 DEF IInv, Generations
    <3> QED
      BY <3>1, <3>2
  <2>4. ASSUME Entered' # Tids \ {kMainTid}
        PROVE  /\ gen' = Cardinality(Entered')
               /\ \A g \in Handles : data'[g].of # None => data'[g].gen < gen'
               /\ \A u \in Tids : claim'[u] \in {"joining", "joined"} => joinGen'[u] < gen'
    <3>1. gen' = gen + 1
      BY <1>0, <1>4, <1>5, <2>4
    <3>2. Cardinality(Entered') = gen + 1
      BY <1>3, <1>4, FS_AddElement
    <3>3. \A g \in Handles : data'[g].of # None => data'[g].gen < gen'
      BY <1>5, <2>1, <2>2, <3>1
    <3>4. \A u \in Tids : claim'[u] \in {"joining", "joined"} => joinGen'[u] < gen'
      <4> SUFFICES ASSUME NEW u \in Tids, claim'[u] \in {"joining", "joined"}
                   PROVE  joinGen[u] < gen'
        BY <1>0
      <4>1. joinGen[u] < gen
        BY <1>4, <1>6
      <4>2. joinGen[u] \in Nat
        BY DEF IInv, TypeOK
      <4> QED
        BY <1>5, <3>1, <4>1, <4>2
    <3> QED
      BY <3>1, <3>2, <3>3, <3>4
  <2> QED
    BY <2>3, <2>4 DEF Generations
<1>12. ASSUME NEW u \in Tids \ {kMainTid}
       PROVE  Entry(u)'
  <2>1. CASE u = t
    BY <1>0, <1>1, <1>2, <1>6, <2>1 DEF Entry
  <2>2. CASE u # t
    <3>1. /\ BeforeFinish(u) => data[handle[u]].of = u /\ ~data[handle[u]].done
          /\ claim[u] \in {"open", "joining"} => data[handle[u]].of = u
          /\ claim[u] \in {"joining", "joined"} =>
               /\ joinGen[u] # kInvalidGen
               /\ \A g \in Handles : data[g].of # None =>
                    (data[g].gen = joinGen[u] <=> data[g].of = u)
      BY <1>0, <2>2 DEF IInv, Entry
    <3>2. BeforeFinish(u) \/ claim[u] \in {"open", "joining"} => Owns(u)
      BY <2>2 DEF IInv, BeforeFinish, Owns, Alive, Claims, TypeOK, Unstarted
    <3>3. Owns(u) => handle[u] \in Handles /\ handle[u] # h
      BY <1>2, <2>2 DEF IInv, HandlesApart
    <3>4. claim[u] \in {"joining", "joined"} => gen # joinGen[u]
      BY <1>4, <1>5 DEF IInv, TypeOK
    <3>5. \A g \in Handles : data'[g] = data[g] \/ (data'[g].of = t /\ data'[g].gen = gen)
      BY <1>6
    <3>6. BeforeFinish(u)' <=> BeforeFinish(u)
      BY <1>0 DEF BeforeFinish
    <3>7. /\ BeforeFinish(u) => data'[handle[u]] = data[handle[u]]
          /\ claim[u] \in {"open", "joining"} => data'[handle[u]] = data[handle[u]]
      BY <1>6, <3>2, <3>3
    <3>8. claim[u] \in {"joining", "joined"} =>
            \A g \in Handles : data'[g].of # None =>
              (data'[g].gen = joinGen[u] <=> data'[g].of = u)
      BY <2>2, <3>1, <3>4, <3>5
    <3> QED
      BY <1>0, <1>6, <2>2, <3>1, <3>6, <3>7, <3>8 DEF Entry
  <2> QED
    BY <2>1, <2>2
<1>13. ASSUME NEW g \in Handles
       PROVE  EntryOf(g)'
  <2>1. CASE g = h
    <3>1. BeforeFinish(t)'
      BY <1>0, <1>1 DEF BeforeFinish
    <3> QED
      BY <1>0, <1>1, <1>3, <1>5, <1>6, <2>1, <3>1 DEF EntryOf
  <2>2. CASE g # h
    <3>1. data[g].of \in Tids \cup {None} /\ data[g].of # t
      BY <2>2, EntryFacts DEF IInv, TypeOK, Entries
    <3>2. \A u \in Tids : BeforeFinish(u)' <=> BeforeFinish(u)
      BY <1>0 DEF BeforeFinish
    <3> QED
      BY <1>0, <1>3, <1>6, <2>2, <3>1, <3>2, EntryFacts, EntryFrame
  <2> QED
    BY <2>1, <2>2
<1> QED
  BY <1>7, <1>9, <1>10, <1>11, <1>12, <1>13 DEF IInv

-----------------------------------------------------------------------------
(* The end of a thread *)

\* A thread with a root, or with a claim on it, owns its pthread_t alone.
LEMMA RootsOwn ==
  ASSUME IInv, NEW u \in Tids, BeforeFinish(u) \/ claim[u] \in {"open", "joining"}
  PROVE  /\ Owns(u) /\ handle[u] \in Handles /\ handle[u] \notin free
         /\ \A t \in Tids : Owns(t) /\ handle[t] = handle[u] => t = u
<1>1. Owns(u)
  BY DEF IInv, BeforeFinish, Owns, Alive, Claims, TypeOK, Unstarted
<1> QED
  BY <1>1 DEF IInv, HandlesApart

\* No step of another kind makes a generation, or an entry that has one.
LEMMA GenerationsStay ==
  ASSUME IInv, gen' = gen, Entered' = Entered,
         \A g \in Handles : data'[g].of # None =>
            data'[g].of = data[g].of /\ data'[g].gen = data[g].gen,
         \A u \in Tids : claim'[u] \in {"joining", "joined"} =>
            claim[u] \in {"joining", "joined"} /\ joinGen'[u] = joinGen[u]
  PROVE  /\ Generations'
         /\ \A u \in Tids \ {kMainTid} : claim'[u] \in {"joining", "joined"} =>
              /\ joinGen'[u] # kInvalidGen
              /\ \A g \in Handles : data'[g].of # None =>
                   (data'[g].gen = joinGen'[u] <=> data'[g].of = u)
<1>1. \A g, h \in Handles :
        data'[g].of # None /\ data'[h].of # None /\ data'[g].gen = data'[h].gen => g = h
  BY DEF IInv, Generations
<1>2. \/ Entered' = Tids \ {kMainTid}
      \/ /\ gen' = Cardinality(Entered')
         /\ \A h \in Handles : data'[h].of # None => data'[h].gen < gen'
         /\ \A t \in Tids : claim'[t] \in {"joining", "joined"} => joinGen'[t] < gen'
  BY DEF IInv, Generations
<1>3. \A u \in Tids \ {kMainTid} : claim'[u] \in {"joining", "joined"} =>
        /\ joinGen'[u] # kInvalidGen
        /\ \A g \in Handles : data'[g].of # None =>
             (data'[g].gen = joinGen'[u] <=> data'[g].of = u)
  BY DEF IInv, Entry
<1> QED
  BY <1>1, <1>2, <1>3 DEF Generations

\* There is no entry for the main thread.
LEMMA MainHasNoEntry ==
  ASSUME IInv
  PROVE  handle[kMainTid] \in Handles /\ data[handle[kMainTid]] = NoEntry
<1> DEFINE h == handle[kMainTid]
<1>1. h \in Handles
  BY NoneApart DEF IInv, Claims, Owns, HandlesApart
<1>2. data[h].of \in Tids \cup {None}
  BY <1>1 DEF IInv, TypeOK, Entries
<1>3. data[h].of = None
  BY <1>1, <1>2, EntryFacts DEF IInv, HandlesApart
<1> QED
  BY <1>1, <1>3 DEF IInv, EntryOf

\* ThreadArgRetval::Finish erases the entry of a detached thread, and marks
\* that of one that may be joined.
LEMMA FinishKeeps ==
  ASSUME IInv, NEW t \in Tids, Finish(t)
  PROVE  IInv'
<1> DEFINE h == handle[t]
<1>0. /\ pc[t] = "routine" /\ mtx = None
      /\ data' = IF data[h] = NoEntry THEN data
                 ELSE IF data[h].detached THEN [data EXCEPT ![h] = NoEntry]
                 ELSE [data EXCEPT ![h].done = TRUE]
      /\ pc' = [pc EXCEPT ![t] = "dtor"] /\ Goto(t, "dtor")
      /\ UNCHANGED <<detached, gone, handle, free, claim, joinGen, gen, mtx>>
  BY DEF Finish, Goto, context, os
<1>1. CASE t = kMainTid
  <2>1. UNCHANGED argvars
    BY <1>0, <1>1, MainHasNoEntry DEF argvars
  <2> QED
    BY <1>0, <2>1, AliveMoves, NoneApart DEF Alive, BeforeFinish
<1>2. CASE t # kMainTid
  <2>1. mtx # t /\ BeforeFinish(t)
    BY <1>0, NoneApart DEF BeforeFinish
  <2>2. h \in Handles /\ data[h] \in Entries /\ data[h].of = t /\ data[h].done = FALSE
    BY <1>2, <2>1, RootsOwn DEF IInv, Entry, TypeOK, Entries
  <2>3. /\ data[h] # NoEntry /\ data[h].gen # kInvalidGen /\ data[h].detached = gone[t]
        /\ t \in Entered
    BY <2>2, EntryFacts
  <2>4. IF gone[t] THEN claim[t] = "closed" ELSE claim[t] \in {"open", "joining"}
    BY <1>0, <1>2, <2>1 DEF IInv, Claims, Alive
  <2>5. /\ \A g \in Handles : g # h => data'[g] = data[g]
        /\ gone[t] => data'[h] = NoEntry
        /\ ~gone[t] => /\ data'[h].of = t /\ data'[h].gen = data[h].gen
                       /\ data'[h].detached = data[h].detached
        /\ data' \in [Handles -> Entries]
    <3>1. NoEntry \in Entries
      BY ThreadsAssumption DEF NoEntry, Entries
    <3>2. CASE gone[t]
      BY <1>0, <2>2, <2>3, <3>1, <3>2 DEF IInv, TypeOK
    <3>3. CASE ~gone[t]
      <4>1. data' = [data EXCEPT ![h].done = TRUE]
        BY <1>0, <2>3, <3>3
      <4> QED
        BY <2>2, <3>3, <4>1 DEF IInv, TypeOK, Entries
    <3> QED
      BY <3>2, <3>3
  <2>6. TypeOK'
    BY <1>0, <2>5 DEF IInv, TypeOK, Alive
  <2>7. HandlesApart'
    <3>1. \A u \in Tids : Owns(u)' <=> Owns(u)
      BY <1>0 DEF IInv, TypeOK, Owns, Alive
    <3> QED
      BY <1>0, <3>1 DEF IInv, HandlesApart
  <2>8. Claims'
    BY <1>0 DEF IInv, TypeOK, Claims, Alive, Unstarted
  <2>9. Entered' = Entered
    BY <1>0 DEF Entered
  <2>10. \A g \in Handles : data'[g].of # None =>
           data'[g].of = data[g].of /\ data'[g].gen = data[g].gen
    BY <2>2, <2>5 DEF NoEntry
  <2>11. /\ Generations'
         /\ \A u \in Tids \ {kMainTid} : claim'[u] \in {"joining", "joined"} =>
              /\ joinGen'[u] # kInvalidGen
              /\ \A g \in Handles : data'[g].of # None =>
                   (data'[g].gen = joinGen'[u] <=> data'[g].of = u)
    BY <1>0, <2>9, <2>10, GenerationsStay
  <2>12. ASSUME NEW u \in Tids \ {kMainTid}
         PROVE  Entry(u)'
    <3>1. CASE u = t
      BY <1>0, <2>4, <2>5, <2>11, <3>1 DEF Entry, BeforeFinish, IInv, TypeOK
    <3>2. CASE u # t
      <4>1. BeforeFinish(u)' <=> BeforeFinish(u)
        BY <1>0, <3>2 DEF IInv, TypeOK, BeforeFinish
      <4>2. BeforeFinish(u) \/ claim[u] \in {"open", "joining"} =>
              handle[u] \in Handles /\ handle[u] # h
        BY <1>0, <3>2, RootsOwn DEF Owns, Alive
      <4>3. Entry(u)
        BY DEF IInv
      <4>4. BeforeFinish(u) \/ claim[u] \in {"open", "joining"} =>
              data'[handle[u]] = data[handle[u]]
        BY <2>5, <4>2
      <4> QED
        BY <1>0, <2>11, <4>1, <4>3, <4>4 DEF Entry
    <3> QED
      BY <3>1, <3>2
  <2>13. ASSUME NEW g \in Handles
         PROVE  EntryOf(g)'
    <3>1. CASE g = h
      <4>1. CASE gone[t]
        BY <2>5, <3>1, <4>1, ErasedIsGood
      <4>2. CASE ~gone[t]
        <5>1. data'[h].of = t /\ data'[h].gen # kInvalidGen /\ data'[h].detached = gone'[t]
          BY <1>0, <2>3, <2>5, <4>2
        <5>2. claim'[t] # "closed" /\ handle'[t] = h /\ t # None /\ t \in Entered'
          BY <1>0, <2>3, <2>4, <2>9, <4>2, NoneApart
        <5> QED
          BY <3>1, <5>1, <5>2 DEF EntryOf
      <4> QED
        BY <4>1, <4>2
    <3>2. CASE g # h
      <4>1. data[g].of # t
        BY <3>2, EntryFacts
      <4>2. \A u \in Tids : u # t => (BeforeFinish(u)' <=> BeforeFinish(u))
        BY <1>0 DEF IInv, TypeOK, BeforeFinish
      <4> QED
        BY <1>0, <2>5, <2>9, <3>2, <4>1, <4>2, EntryFacts, EntryFrame
    <3> QED
      BY <3>1, <3>2
  <2> QED
    BY <2>6, <2>7, <2>8, <2>11, <2>12, <2>13 DEF IInv
<1> QED
  BY <1>1, <1>2

\* The kernel forgets the thread, and the library its pthread_t if it is
\* detached.
LEMMA OsExitKeeps ==
  ASSUME IInv, NEW t \in Tids, OsExit(t)
  PROVE  IInv'
<1> DEFINE h == handle[t]
<1>0. /\ pc[t] = "exit"
      /\ free' = IF gone[t] THEN free \cup {h} ELSE free
      /\ pc' = [pc EXCEPT ![t] = "over"]
      /\ UNCHANGED <<detached, gone, handle, claim, joinGen, data, gen, mtx>>
  BY DEF OsExit, Goto, context, args
<1>1. h \in Handles /\ \A u \in Tids : Owns(u) /\ handle[u] = h => u = t
  BY <1>0 DEF IInv, HandlesApart, Owns, Alive
<1>2. t # kMainTid =>
        IF gone[t] THEN claim[t] = "closed" ELSE claim[t] \in {"open", "joining"}
  BY <1>0 DEF IInv, Claims, Alive
<1>3. TypeOK'
  BY <1>0, <1>1 DEF IInv, TypeOK
<1>4. /\ \A u \in Tids : Owns(u)' => Owns(u)
      /\ Owns(t)' => ~gone[t]
  BY <1>0, <1>2 DEF IInv, TypeOK, Owns, Alive, Claims
<1>5. HandlesApart'
  <2>1. \A u \in Tids : Owns(u)' => handle[u] \in Handles /\ handle[u] \notin free'
    BY <1>0, <1>1, <1>4 DEF IInv, HandlesApart
  <2>2. \A u, v \in Tids : Owns(u)' /\ Owns(v)' /\ handle[u] = handle[v] => u = v
    BY <1>4 DEF IInv, HandlesApart
  <2> QED
    BY <1>0, <2>1, <2>2 DEF IInv, HandlesApart
<1>6. Claims'
  BY <1>0, <1>1, <1>2 DEF IInv, TypeOK, Claims, Alive, Unstarted
<1>7. Entered' = Entered
  BY <1>0 DEF Entered
<1>8. Generations'
  BY <1>0, <1>7, GenerationsStay
<1>9. \A u \in Tids : BeforeFinish(u)' <=> BeforeFinish(u)
  BY <1>0 DEF IInv, TypeOK, BeforeFinish
<1>10. \A u \in Tids \ {kMainTid} : Entry(u)'
  BY <1>0, <1>9 DEF IInv, Entry
<1>11. \A g \in Handles : EntryOf(g)'
  BY <1>0, <1>7, <1>9, EntryFacts, EntryFrame
<1> QED
  BY <1>3, <1>5, <1>6, <1>8, <1>10, <1>11 DEF IInv

-----------------------------------------------------------------------------
(* pthread_join and pthread_detach *)

\* BeforeJoin remembers the generation of the entry.
LEMMA BeforeJoinKeeps ==
  ASSUME IInv, NEW t \in Tids, BeforeJoin(t)
  PROVE  IInv'
<1> DEFINE h == handle[t]
<1>0. /\ claim[t] = "open" /\ mtx = None
      /\ joinGen' = [joinGen EXCEPT ![t] = data[h].gen]
      /\ claim' = [claim EXCEPT ![t] = "joining"]
      /\ UNCHANGED <<detached, gone, handle, free, pc, data, gen, mtx>>
  BY DEF BeforeJoin, context, os, args
<1>1. t # kMainTid /\ h \in Handles /\ data[h] \in Entries /\ data[h].of = t
  BY <1>0, RootsOwn DEF IInv, Claims, Entry, TypeOK
<1>2. data[h].gen # kInvalidGen /\ t \in Entered
  BY <1>1, EntryFacts
<1>3. /\ claim'[t] = "joining" /\ joinGen'[t] = data[h].gen
      /\ \A u \in Tids : u # t => claim'[u] = claim[u] /\ joinGen'[u] = joinGen[u]
  BY <1>0 DEF IInv, TypeOK
<1>4. TypeOK'
  BY <1>0, <1>1 DEF IInv, TypeOK, Entries
<1>5. HandlesApart'
  <2>1. \A u \in Tids : Owns(u)' <=> Owns(u)
    BY <1>0, <1>3 DEF Owns
  <2> QED
    BY <1>0, <2>1 DEF IInv, HandlesApart
<1>6. Claims'
  <2>1. Claims
    BY DEF IInv
  <2>2. ~gone[t] /\ pc[t] \notin Unstarted
    BY <1>0, <2>1 DEF Claims
  <2>3. ASSUME NEW u \in Tids
        PROVE  /\ mtx' # u
               /\ pc'[u] \in Unstarted => claim'[u] = "closed" /\ handle'[u] = None
               /\ pc'[u] \in Alive /\ u # kMainTid =>
                    IF gone'[u] THEN claim'[u] = "closed"
                                ELSE claim'[u] \in {"open", "joining"}
               /\ claim'[u] # "closed" => ~gone'[u] /\ handle'[u] \in Handles
               /\ claim'[u] = "joined" => pc'[u] = "over"
    <3>1. CASE u = t
      BY <1>0, <1>1, <1>3, <2>2, <3>1, NoneApart
    <3>2. CASE u # t
      BY <1>0, <1>3, <2>1, <3>2, NoneApart DEF Claims
    <3> QED
      BY <3>1, <3>2
  <2> QED
    BY <1>0, <1>1, <1>3, <2>1, <2>3, NoneApart DEF Claims
<1>7. Entered' = Entered
  BY <1>0 DEF Entered
<1>8. Generations'
  <2>1. CASE Entered = Tids \ {kMainTid}
    BY <1>0, <1>7, <2>1 DEF IInv, Generations
  <2>2. CASE Entered # Tids \ {kMainTid}
    <3>1. /\ gen = Cardinality(Entered)
          /\ \A g \in Handles : data[g].of # None => data[g].gen < gen
          /\ \A u \in Tids : claim[u] \in {"joining", "joined"} => joinGen[u] < gen
      BY <2>2 DEF IInv, Generations
    <3>2. \A u \in Tids : claim'[u] \in {"joining", "joined"} => joinGen'[u] < gen
      BY <1>1, <1>3, <3>1, NoneApart
    <3> QED
      BY <1>0, <1>7, <3>1, <3>2 DEF IInv, Generations
  <2> QED
    BY <2>1, <2>2
<1>9. \A u \in Tids : BeforeFinish(u)' <=> BeforeFinish(u)
  BY <1>0 DEF BeforeFinish
<1>10. ASSUME NEW u \in Tids \ {kMainTid}
       PROVE  Entry(u)'
  <2>0. Entry(u)
    BY DEF IInv
  <2>1. CASE u # t
    BY <1>0, <1>3, <1>9, <2>0, <2>1 DEF Entry
  <2>2. CASE u = t
    <3>1. ASSUME NEW g \in Handles, data[g].of # None
          PROVE  data[g].gen = data[h].gen <=> data[g].of = t
      <4>1. data[g].of = t => g = h
        BY EntryFacts
      <4>2. data[g].gen = data[h].gen => g = h
        BY <1>1, <3>1, NoneApart DEF IInv, Generations
      <4> QED
        BY <1>1, <4>1, <4>2
    <3> QED
      BY <1>0, <1>1, <1>2, <1>3, <1>9, <2>0, <2>2, <3>1 DEF Entry
  <2> QED
    BY <2>1, <2>2
<1>11. ASSUME NEW g \in Handles
       PROVE  EntryOf(g)'
  <2>1. CASE data[g].of = t
    <3>1. /\ t \in Entered /\ handle[t] = g /\ data[g].gen # kInvalidGen
          /\ data[g].detached = gone[t] /\ t # None
      BY <2>1, EntryFacts, NoneApart
    <3> QED
      BY <1>0, <1>3, <1>7, <2>1, <3>1 DEF EntryOf
  <2>2. CASE data[g].of # t
    BY <1>0, <1>3, <1>7, <1>9, <2>2, EntryFacts, EntryFrame
  <2> QED
    BY <2>1, <2>2
<1> QED
  BY <1>4, <1>5, <1>6, <1>8, <1>10, <1>11 DEF IInv

\* The library's join ends, and frees the pthread_t.
LEMMA RealJoinKeeps ==
  ASSUME IInv, NEW t \in Tids, RealJoin(t)
  PROVE  IInv'
<1> DEFINE h == handle[t]
<1>0. /\ claim[t] = "joining" /\ pc[t] = "over"
      /\ free' = free \cup {h}
      /\ claim' = [claim EXCEPT ![t] = "joined"]
      /\ UNCHANGED <<detached, gone, handle, pc, joinGen, data, gen, mtx>>
  BY DEF RealJoin, context, args
<1>1. /\ t # kMainTid /\ h \in Handles
      /\ \A u \in Tids : Owns(u) /\ handle[u] = h => u = t
  BY <1>0, RootsOwn DEF IInv, Claims
<1>2. /\ claim'[t] = "joined"
      /\ \A u \in Tids : u # t => claim'[u] = claim[u]
  BY <1>0 DEF IInv, TypeOK
<1>3. TypeOK'
  BY <1>0, <1>1 DEF IInv, TypeOK
<1>4. \A u \in Tids : Owns(u)' => Owns(u) /\ u # t
  BY <1>0, <1>1, <1>2 DEF Owns, Alive
<1>5. HandlesApart'
  BY <1>0, <1>1, <1>4 DEF IInv, HandlesApart
<1>6. Claims'
  BY <1>0, <1>1, <1>2 DEF IInv, TypeOK, Claims, Alive, Unstarted
<1>7. Entered' = Entered
  BY <1>0 DEF Entered
<1>8. Generations'
  BY <1>0, <1>2, <1>7, GenerationsStay
<1>9. \A u \in Tids : BeforeFinish(u)' <=> BeforeFinish(u)
  BY <1>0 DEF BeforeFinish
<1>10. ASSUME NEW u \in Tids \ {kMainTid}
       PROVE  Entry(u)'
  <2>1. Entry(u)
    BY DEF IInv
  <2>2. CASE u = t
    BY <1>0, <1>2, <1>9, <2>1, <2>2 DEF Entry
  <2>3. CASE u # t
    BY <1>0, <1>2, <1>9, <2>1, <2>3 DEF Entry
  <2> QED
    BY <2>2, <2>3
<1>11. ASSUME NEW g \in Handles
       PROVE  EntryOf(g)'
  <2>1. CASE data[g].of = t
    <3>1. /\ t \in Entered /\ handle[t] = g /\ data[g].gen # kInvalidGen
          /\ data[g].detached = gone[t] /\ t # None
      BY <2>1, EntryFacts, NoneApart
    <3> QED
      BY <1>0, <1>2, <1>7, <2>1, <3>1 DEF EntryOf
  <2>2. CASE data[g].of # t
    BY <1>0, <1>2, <1>7, <1>9, <2>2, EntryFacts, EntryFrame
  <2> QED
    BY <2>1, <2>2
<1> QED
  BY <1>3, <1>5, <1>6, <1>8, <1>10, <1>11 DEF IInv

\* A join that fails may be tried again.
LEMMA RealJoinFailsKeeps ==
  ASSUME IInv, NEW t \in Tids, RealJoinFails(t)
  PROVE  IInv'
<1>0. /\ claim[t] = "joining"
      /\ claim' = [claim EXCEPT ![t] = "open"]
      /\ joinGen' = [joinGen EXCEPT ![t] = kInvalidGen]
      /\ UNCHANGED <<detached, gone, handle, free, pc, data, gen, mtx>>
  BY DEF RealJoinFails, context, os, args
<1>1. t # kMainTid
  BY <1>0 DEF IInv, Claims
<1>2. /\ claim'[t] = "open"
      /\ \A u \in Tids : u # t => claim'[u] = claim[u] /\ joinGen'[u] = joinGen[u]
  BY <1>0 DEF IInv, TypeOK
<1>3. TypeOK'
  BY <1>0, ThreadsAssumption DEF IInv, TypeOK
<1>4. \A u \in Tids : Owns(u)' <=> Owns(u)
  BY <1>0, <1>2 DEF Owns
<1>5. HandlesApart'
  BY <1>0, <1>4 DEF IInv, HandlesApart
<1>6. Claims'
  BY <1>0, <1>1, <1>2 DEF IInv, TypeOK, Claims, Alive, Unstarted
<1>7. Entered' = Entered
  BY <1>0 DEF Entered
<1>8. Generations'
  BY <1>0, <1>2, <1>7, GenerationsStay
<1>9. \A u \in Tids : BeforeFinish(u)' <=> BeforeFinish(u)
  BY <1>0 DEF BeforeFinish
<1>10. ASSUME NEW u \in Tids \ {kMainTid}
       PROVE  Entry(u)'
  <2>1. Entry(u)
    BY DEF IInv
  <2>2. CASE u = t
    BY <1>0, <1>2, <1>9, <2>1, <2>2 DEF Entry
  <2>3. CASE u # t
    BY <1>0, <1>2, <1>9, <2>1, <2>3 DEF Entry
  <2> QED
    BY <2>2, <2>3
<1>11. ASSUME NEW g \in Handles
       PROVE  EntryOf(g)'
  <2>1. CASE data[g].of = t
    <3>1. /\ t \in Entered /\ handle[t] = g /\ data[g].gen # kInvalidGen
          /\ data[g].detached = gone[t] /\ t # None
      BY <2>1, EntryFacts, NoneApart
    <3> QED
      BY <1>0, <1>2, <1>7, <2>1, <3>1 DEF EntryOf
  <2>2. CASE data[g].of # t
    BY <1>0, <1>2, <1>7, <1>9, <2>2, EntryFacts, EntryFrame
  <2> QED
    BY <2>1, <2>2
<1> QED
  BY <1>3, <1>5, <1>6, <1>8, <1>10, <1>11 DEF IInv

\* AfterJoin erases the entry of the thread that was joined, if the pthread_t
\* has not been given to another thread since.
LEMMA AfterJoinKeeps ==
  ASSUME IInv, NEW t \in Tids, AfterJoin(t)
  PROVE  IInv'
<1> DEFINE h == handle[t]
<1>0. /\ claim[t] = "joined"
      /\ data' = IF data[h] = NoEntry \/ data[h].gen # joinGen[t] THEN data
                 ELSE [data EXCEPT ![h] = NoEntry]
      /\ claim' = [claim EXCEPT ![t] = "closed"]
      /\ joinGen' = [joinGen EXCEPT ![t] = kInvalidGen]
      /\ UNCHANGED <<detached, gone, handle, free, pc, gen, mtx>>
  BY DEF AfterJoin, context, os
<1>1. t # kMainTid /\ h \in Handles /\ pc[t] = "over"
  BY <1>0 DEF IInv, Claims
<1>2. /\ claim'[t] = "closed"
      /\ \A u \in Tids : u # t => claim'[u] = claim[u] /\ joinGen'[u] = joinGen[u]
  BY <1>0 DEF IInv, TypeOK
<1>3. data[h].of # None => (data[h].gen = joinGen[t] <=> data[h].of = t)
  BY <1>0, <1>1 DEF IInv, Entry
<1>4. data[h].of = None => data[h] = NoEntry
  BY <1>1 DEF IInv, EntryOf
<1>5. /\ \A g \in Handles : g # h => data'[g] = data[g]
      /\ data'[h] = IF data[h].of = t THEN NoEntry ELSE data[h]
  <2>1. data[h].of = t => data[h] # NoEntry
    BY <1>1, EntryFacts
  <2>2. data \in [Handles -> Entries]
    BY DEF IInv, TypeOK
  <2>3. CASE data[h].of = t
    <3>1. data' = [data EXCEPT ![h] = NoEntry]
      BY <1>0, <1>3, <2>1, <2>3, NoneApart
    <3> QED
      BY <1>1, <2>2, <2>3, <3>1
  <2>4. CASE data[h].of # t
    <3>1. data' = data
      BY <1>0, <1>3, <1>4, <2>4
    <3> QED
      BY <2>4, <3>1
  <2> QED
    BY <2>3, <2>4
<1>6. TypeOK'
  <2>1. NoEntry \in Entries
    BY ThreadsAssumption DEF NoEntry, Entries
  <2>2. data' \in [Handles -> Entries]
    BY <1>0, <1>1, <2>1 DEF IInv, TypeOK
  <2> QED
    BY <1>0, <2>2, ThreadsAssumption DEF IInv, TypeOK
<1>7. \A u \in Tids : Owns(u)' <=> Owns(u)
  BY <1>0, <1>1, <1>2 DEF Owns, Alive
<1>8. HandlesApart'
  BY <1>0, <1>7 DEF IInv, HandlesApart
<1>9. Claims'
  BY <1>0, <1>1, <1>2 DEF IInv, TypeOK, Claims, Alive, Unstarted
<1>10. Entered' = Entered
  BY <1>0 DEF Entered
<1>11. \A g \in Handles : data'[g].of # None => data'[g] = data[g] /\ data'[g].of # t
  <2>1. ASSUME NEW g \in Handles, g # h
        PROVE  data[g].of # t
    BY <2>1, EntryFacts
  <2> QED
    BY <1>5, <2>1 DEF NoEntry
<1>12. /\ Generations'
       /\ \A u \in Tids \ {kMainTid} : claim'[u] \in {"joining", "joined"} =>
            /\ joinGen'[u] # kInvalidGen
            /\ \A g \in Handles : data'[g].of # None =>
                 (data'[g].gen = joinGen'[u] <=> data'[g].of = u)
  BY <1>0, <1>2, <1>10, <1>11, GenerationsStay
<1>13. \A u \in Tids : BeforeFinish(u)' <=> BeforeFinish(u)
  BY <1>0 DEF BeforeFinish
<1>14. ASSUME NEW u \in Tids \ {kMainTid}
       PROVE  Entry(u)'
  <2>1. CASE u = t
    BY <1>1, <1>2, <1>13, <2>1 DEF Entry, BeforeFinish
  <2>2. CASE u # t
    <3>1. ASSUME NEW g \in Handles, data[g].of = u
          PROVE  data'[g] = data[g]
      BY <1>5, <2>2, <3>1
    <3>2. BeforeFinish(u) \/ claim[u] \in {"open", "joining"} => handle[u] \in Handles
      BY RootsOwn
    <3>3. /\ BeforeFinish(u) /\ mtx # u => data'[handle[u]] = data[handle[u]]
          /\ claim[u] \in {"open", "joining"} => data'[handle[u]] = data[handle[u]]
      BY <3>1, <3>2 DEF IInv, Entry
    <3>4. Entry(u) /\ claim'[u] = claim[u] /\ joinGen'[u] = joinGen[u]
      BY <1>2, <2>2 DEF IInv
    <3>5. handle' = handle /\ mtx' = mtx
      BY <1>0
    <3> QED
      BY <1>12, <1>13, <3>3, <3>4, <3>5 DEF Entry
  <2> QED
    BY <2>1, <2>2
<1>15. ASSUME NEW g \in Handles
       PROVE  EntryOf(g)'
  <2>1. CASE data[g].of = t
    <3>1. g = h
      BY <2>1, EntryFacts
    <3> QED
      BY <1>5, <2>1, <3>1, ErasedIsGood
  <2>2. CASE data[g].of # t
    BY <1>0, <1>2, <1>5, <1>10, <1>13, <2>2, EntryFacts, EntryFrame
  <2> QED
    BY <2>1, <2>2
<1> QED
  BY <1>6, <1>8, <1>9, <1>12, <1>14, <1>15 DEF IInv

\* Detach erases the entry of a thread that has finished, and marks that of
\* one that has not.
LEMMA DetachKeeps ==
  ASSUME IInv, NEW t \in Tids, Detach(t)
  PROVE  IInv'
<1> DEFINE h == handle[t]
<1>0. /\ claim[t] = "open" /\ mtx = None
      /\ gone' = [gone EXCEPT ![t] = TRUE]
      /\ free' = IF pc[t] = "over" THEN free \cup {h} ELSE free
      /\ data' = IF data[h].done THEN [data EXCEPT ![h] = NoEntry]
                 ELSE [data EXCEPT ![h].detached = TRUE]
      /\ claim' = [claim EXCEPT ![t] = "closed"]
      /\ UNCHANGED <<detached, handle, pc, joinGen, gen, mtx>>
  BY DEF Detach, context
<1>1. /\ t # kMainTid /\ h \in Handles /\ data[h] \in Entries /\ data[h].of = t
      /\ \A u \in Tids : Owns(u) /\ handle[u] = h => u = t
  BY <1>0, RootsOwn DEF IInv, Claims, Entry, TypeOK
<1>2. /\ claim'[t] = "closed" /\ gone'[t] = TRUE
      /\ \A u \in Tids : u # t => claim'[u] = claim[u] /\ gone'[u] = gone[u]
  BY <1>0 DEF IInv, TypeOK
<1>3. data[h].gen # kInvalidGen /\ t \in Entered
  BY <1>1, EntryFacts
<1>4. /\ \A g \in Handles : g # h => data'[g] = data[g]
      /\ data[h].done => data'[h] = NoEntry
      /\ ~data[h].done => /\ data'[h].of = t /\ data'[h].gen = data[h].gen
                          /\ data'[h].detached = TRUE /\ data'[h].done = FALSE
      /\ data' \in [Handles -> Entries]
  <2>1. NoEntry \in Entries
    BY ThreadsAssumption DEF NoEntry, Entries
  <2>2. CASE data[h].done
    BY <1>0, <1>1, <2>1, <2>2 DEF IInv, TypeOK
  <2>3. CASE ~data[h].done
    <3>1. data' = [data EXCEPT ![h].detached = TRUE]
      BY <1>0, <2>3
    <3> QED
      BY <1>1, <2>3, <3>1 DEF IInv, TypeOK, Entries
  <2> QED
    BY <2>2, <2>3
<1>5. TypeOK'
  BY <1>0, <1>1, <1>4 DEF IInv, TypeOK
<1>6. /\ \A u \in Tids : Owns(u)' => Owns(u)
      /\ Owns(t)' => pc[t] # "over"
  BY <1>0, <1>1, <1>2 DEF Owns, Alive
<1>7. HandlesApart'
  BY <1>0, <1>1, <1>6 DEF IInv, HandlesApart
<1>8. Claims'
  <2>1. /\ pc'[kMainTid] \in Alive \cup {"over"} /\ claim'[kMainTid] = "closed"
        /\ mtx' # kMainTid /\ ~gone'[kMainTid]
    BY <1>0, <1>1, <1>2, NoneApart DEF IInv, Claims
  <2>2. mtx' \notin Tids
    BY <1>0, NoneApart
  <2>3. ASSUME NEW u \in Tids
        PROVE  /\ pc'[u] \in Unstarted => claim'[u] = "closed" /\ handle'[u] = None
               /\ pc'[u] \in Alive /\ u # kMainTid =>
                    IF gone'[u] THEN claim'[u] = "closed"
                                ELSE claim'[u] \in {"open", "joining"}
               /\ claim'[u] # "closed" => ~gone'[u] /\ handle'[u] \in Handles
               /\ claim'[u] = "joined" => pc'[u] = "over"
    <3>1. CASE u = t
      BY <1>0, <1>2, <3>1 DEF IInv, Claims
    <3>2. CASE u # t
      BY <1>0, <1>2, <3>2, NoneApart DEF IInv, Claims
    <3> QED
      BY <3>1, <3>2
  <2> QED
    BY <2>1, <2>2, <2>3 DEF Claims
<1>9. Entered' = Entered
  BY <1>0 DEF Entered
<1>10. \A g \in Handles : data'[g].of # None =>
         data'[g].of = data[g].of /\ data'[g].gen = data[g].gen
  <2>1. NoEntry.of = None
    BY DEF NoEntry
  <2>2. ASSUME NEW g \in Handles, g # h, data'[g].of # None
        PROVE  data'[g] = data[g]
    BY <1>4, <2>2
  <2> QED
    BY <1>1, <1>4, <2>1, <2>2
<1>11. /\ Generations'
       /\ \A u \in Tids \ {kMainTid} : claim'[u] \in {"joining", "joined"} =>
            /\ joinGen'[u] # kInvalidGen
            /\ \A g \in Handles : data'[g].of # None =>
                 (data'[g].gen = joinGen'[u] <=> data'[g].of = u)
  BY <1>0, <1>2, <1>9, <1>10, GenerationsStay
<1>12. \A u \in Tids : BeforeFinish(u)' <=> BeforeFinish(u)
  BY <1>0 DEF BeforeFinish
<1>13. ASSUME NEW u \in Tids \ {kMainTid}
       PROVE  Entry(u)'
  <2>1. CASE u = t
    <3>1. BeforeFinish(t) => ~data[h].done
      BY <1>0, <1>1, NoneApart DEF IInv, Entry
    <3> QED
      BY <1>0, <1>2, <1>4, <1>12, <2>1, <3>1 DEF Entry
  <2>2. CASE u # t
    <3>1. BeforeFinish(u) \/ claim[u] \in {"open", "joining"} =>
            handle[u] \in Handles /\ handle[u] # h
      BY <1>0, <2>2, RootsOwn
    <3> QED
      BY <1>0, <1>2, <1>4, <1>11, <1>12, <2>2, <3>1 DEF IInv, Entry
  <2> QED
    BY <2>1, <2>2
<1>14. ASSUME NEW g \in Handles
       PROVE  EntryOf(g)'
  <2>1. CASE g = h /\ data[h].done
    BY <1>4, <2>1, ErasedIsGood
  <2>2. CASE g = h /\ ~data[h].done
    <3>1. /\ data'[h].of = t /\ data'[h].gen # kInvalidGen
          /\ data'[h].detached = gone'[t] /\ data'[h].detached /\ ~data'[h].done
      BY <1>2, <1>3, <1>4, <2>2
    <3>2. handle'[t] = h /\ t # None /\ t \in Entered'
      BY <1>0, <1>3, <1>9, NoneApart
    <3> QED
      BY <2>2, <3>1, <3>2 DEF EntryOf
  <2>3. CASE g # h
    <3>1. data[g].of # t
      BY <2>3, EntryFacts
    <3> QED
      BY <1>0, <1>2, <1>4, <1>9, <1>12, <2>3, <3>1, EntryFacts, EntryFrame
  <2> QED
    BY <2>1, <2>2, <2>3
<1> QED
  BY <1>5, <1>7, <1>8, <1>11, <1>13, <1>14 DEF IInv

-----------------------------------------------------------------------------
(* The invariant and what follows from it *)

\* The main thread alone.
LEMMA InitIInv == Init => IInv
<1> SUFFICES ASSUME Init
             PROVE  IInv
  OBVIOUS
<1>0. PICK m \in Handles :
        /\ handle = [t \in Tids |-> IF t = kMainTid THEN m ELSE None]
        /\ free = Handles \ {m}
  BY DEF Init
<1>1. /\ detached = [t \in Tids |-> t = kMainTid] /\ gone = [t \in Tids |-> FALSE]
      /\ pc = [t \in Tids |-> IF t = kMainTid THEN "routine" ELSE "none"]
      /\ claim = [t \in Tids |-> "closed"]
      /\ joinGen = [t \in Tids |-> kInvalidGen]
      /\ data = [h \in Handles |-> NoEntry] /\ gen = 0 /\ mtx = None
  BY DEF Init
<1>2. NoEntry \in Entries /\ NoEntry.of = None
  BY ThreadsAssumption DEF NoEntry, Entries
<1>3. TypeOK
  BY <1>0, <1>1, <1>2, ThreadsAssumption DEF TypeOK, Alive, Unstarted
<1>4. HandlesApart
  BY <1>0, <1>1, NoneApart DEF HandlesApart, Owns, Alive
<1>5. Claims
  BY <1>0, <1>1, NoneApart DEF Claims, Alive, Unstarted
<1>6. Entered = {}
  BY <1>0 DEF Entered
<1>7. Cardinality(Entered) = 0
  BY <1>6, FS_EmptySet
<1>8. Generations
  BY <1>1, <1>2, <1>7 DEF Generations
<1>9. \A t \in Tids \ {kMainTid} : Entry(t)
  BY <1>1 DEF Entry, BeforeFinish
<1>10. \A h \in Handles : EntryOf(h)
  BY <1>1, <1>2 DEF EntryOf
<1> QED
  BY <1>3, <1>4, <1>5, <1>8, <1>9, <1>10 DEF IInv

\* Every step of every thread keeps the invariant.
LEMMA NextIInv == IInv /\ [Next]_vars => IInv'
<1> SUFFICES ASSUME IInv, [Next]_vars
             PROVE  IInv'
  OBVIOUS
<1>1. ASSUME NEW t \in Tids, NEW d \in BOOLEAN, AsanThreadCreate(t, d)
      PROVE  IInv'
  <2>0. /\ pc[t] = "none" /\ detached' = [detached EXCEPT ![t] = d]
        /\ pc' = [pc EXCEPT ![t] = "created"]
        /\ UNCHANGED <<gone, handle, free, claim, joinGen, data, gen, mtx>>
    BY <1>1 DEF AsanThreadCreate, Goto, os, args
  <2>1. t # kMainTid /\ claim[t] = "closed" /\ mtx # t
    BY <2>0 DEF IInv, Claims, Alive, Unstarted
  <2>2. TypeOK'
    BY <2>0 DEF IInv, TypeOK, Unstarted
  <2>3. \A u \in Tids : /\ Owns(u)' <=> Owns(u)
                        /\ BeforeFinish(u)' <=> BeforeFinish(u)
    BY <2>0, <2>1 DEF IInv, TypeOK, Owns, Alive, BeforeFinish
  <2>4. HandlesApart'
    BY <2>0, <2>3 DEF IInv, HandlesApart
  <2>5. Claims'
    BY <2>0, <2>1 DEF IInv, TypeOK, Claims, Alive, Unstarted
  <2>6. Entered' = Entered
    BY <2>0 DEF Entered
  <2>7. Generations'
    BY <2>0, <2>6, GenerationsStay
  <2>8. \A u \in Tids \ {kMainTid} : Entry(u)'
    BY <2>0, <2>3 DEF IInv, Entry
  <2>9. \A g \in Handles : EntryOf(g)'
    BY <2>0, <2>3, <2>6, EntryFacts, EntryFrame
  <2> QED
    BY <2>2, <2>4, <2>5, <2>7, <2>8, <2>9 DEF IInv
<1>2. ASSUME NEW t \in Tids, RealCreateFails(t)
      PROVE  IInv'
  <2>1. pc[t] = "created" /\ Goto(t, "failed") /\ UNCHANGED argvars
    BY <1>2 DEF RealCreateFails, context, os, args, argvars
  <2> QED
    BY <2>1, UnstartedMoves DEF Unstarted
<1>3. ASSUME NEW t \in Tids, GetArgs(t) \/ ThreadStart(t) \/ Cancel(t)
      PROVE  IInv'
  <2>1. PICK l \in {"start", "routine", "dtor"} :
          /\ pc[t] \in {"entry", "start", "routine"} /\ Goto(t, l)
          /\ UNCHANGED argvars /\ mtx # t
    BY <1>3, NoneApart DEF GetArgs, ThreadStart, Cancel, context, os, args, argvars,
       IInv, Claims
  <2> QED
    BY <2>1, AliveMoves DEF Alive, BeforeFinish
<1>4. ASSUME NEW t \in Tids, FinishThread(t) \/ Unmap(t)
      PROVE  IInv'
  <2>1. UNCHANGED argvars
    BY <1>4 DEF FinishThread, Unmap, context, os, args, argvars
  <2>2. \/ pc[t] = "dtor" /\ Goto(t, "unmap")
        \/ pc[t] = "unmap" /\ Goto(t, "exit")
        \/ pc[t] = "failed" /\ Goto(t, "unmap_failed")
        \/ pc[t] = "unmap_failed" /\ Goto(t, "over")
    BY <1>4 DEF FinishThread, Unmap
  <2>3. pc[t] \in {"dtor", "unmap"} => mtx # t
    BY DEF IInv, Claims
  <2> QED
    BY <2>1, <2>2, <2>3, AliveMoves, UnstartedMoves DEF Alive, Unstarted
<1>5. CASE UNCHANGED vars
  <2>1. UNCHANGED <<pc, detached, gone, handle, free, claim, joinGen, data, gen, mtx>>
    BY <1>5 DEF vars, context, os, args
  <2>2. TypeOK' /\ HandlesApart'
    BY <2>1 DEF IInv, TypeOK, HandlesApart, Owns
  <2>3. Claims'
    BY <2>1 DEF IInv, Claims
  <2>4. Generations'
    BY <2>1 DEF IInv, Generations, Entered
  <2>5. ASSUME NEW t \in Tids \ {kMainTid} PROVE Entry(t)'
    <3>1. Entry(t)
      BY DEF IInv
    <3> QED
      BY <2>1, <3>1 DEF Entry, BeforeFinish
  <2>6. ASSUME NEW h \in Handles PROVE EntryOf(h)'
    <3>1. EntryOf(h)
      BY DEF IInv
    <3> QED
      BY <2>1, <3>1 DEF EntryOf, BeforeFinish, Entered
  <2> QED
    BY <2>2, <2>3, <2>4, <2>5, <2>6 DEF IInv
<1> QED
  BY <1>1, <1>2, <1>3, <1>4, <1>5, RealCreateKeeps, CreateLockedKeeps, FinishKeeps,
     OsExitKeeps, BeforeJoinKeeps, RealJoinKeeps, RealJoinFailsKeeps, AfterJoinKeeps,
     DetachKeeps DEF Next, PthreadCreate, Run, Join

\* The inductive invariant.
THEOREM ThreadsInvariant == Spec => []IInv
BY InitIInv, NextIInv, PTL DEF Spec

\* Whenever nobody is in CreateLocked, the entries of ThreadArgRetval are the
\* arguments of the threads that have not finished and the return values of
\* those that may be joined, and no others: RootsExact.
THEOREM RootsAreExact == Spec => []RootsExact
<1>1. IInv => RootsExact
  <2> SUFFICES ASSUME IInv, mtx = None
               PROVE  /\ \A t \in Tids \ {kMainTid} :
                           /\ BeforeFinish(t) => data[handle[t]].of = t /\ ~data[handle[t]].done
                           /\ claim[t] \in {"open", "joining"} => data[handle[t]].of = t
                      /\ \A h \in Handles, t \in Tids :
                           data[h].of = t =>
                             /\ handle[t] = h
                             /\ \/ BeforeFinish(t)
                                \/ claim[t] # "closed"
                                \/ data[h].detached /\ ~data[h].done
    BY DEF RootsExact
  <2>1. \A t \in Tids \ {kMainTid} :
          /\ BeforeFinish(t) => data[handle[t]].of = t /\ ~data[handle[t]].done
          /\ claim[t] \in {"open", "joining"} => data[handle[t]].of = t
    BY NoneApart DEF IInv, Entry
  <2> QED
    BY <2>1, EntryFacts
<1> QED
  BY <1>1, ThreadsInvariant, PTL

\* BeforeJoin and Detach find the entry of their thread, and AfterJoin erases
\* that one or none, although its pthread_t may have been given to another
\* thread: JoinsMeetTheirThread.
THEOREM JoinsMeetTheirThreads == Spec => []JoinsMeetTheirThread
<1>1. IInv => JoinsMeetTheirThread
  <2> SUFFICES ASSUME IInv, mtx = None, NEW t \in Tids
               PROVE  /\ claim[t] = "open" =>
                           data[handle[t]] # NoEntry /\ ~data[handle[t]].detached
                      /\ claim[t] = "joined" /\ data[handle[t]].gen = joinGen[t] =>
                           data[handle[t]].of = t /\ ~data[handle[t]].detached
    BY DEF JoinsMeetTheirThread
  <2>1. claim[t] # "closed" => t # kMainTid /\ ~gone[t] /\ handle[t] \in Handles
    BY DEF IInv, Claims
  <2>2. claim[t] = "open" => data[handle[t]].of = t
    BY <2>1 DEF IInv, Entry
  <2>3. ASSUME claim[t] = "joined", data[handle[t]].gen = joinGen[t]
        PROVE  data[handle[t]].of = t
    <3>1. joinGen[t] # kInvalidGen
      BY <2>1, <2>3 DEF IInv, Entry
    <3>2. data[handle[t]] # NoEntry
      BY <2>3, <3>1 DEF NoEntry
    <3>3. data[handle[t]].of # None
      BY <2>1, <2>3, <3>2 DEF IInv, EntryOf
    <3> QED
      BY <2>1, <2>3, <3>3 DEF IInv, Entry
  <2>4. claim[t] # "closed" /\ data[handle[t]].of = t =>
          data[handle[t]] # NoEntry /\ ~data[handle[t]].detached
    BY <2>1, EntryFacts
  <2> QED
    BY <2>2, <2>3, <2>4
<1> QED
  BY <1>1, ThreadsInvariant, PTL

-----------------------------------------------------------------------------
(* The AsanThread object *)

ObjectsInv ==
  /\ pc \in [Tids -> Alive \cup Unstarted \cup {"over"}]
  /\ mapped \in [Tids -> BOOLEAN] /\ thread \in [Tids -> BOOLEAN]
  /\ Objects

\* A step of thread t that changes neither its object nor its context.
LEMMA ObjectsStay ==
  ASSUME ObjectsInv, NEW t \in Tids, NEW l \in Alive \cup Unstarted \cup {"over"},
         Goto(t, l), UNCHANGED <<mapped, thread>>,
         mapped[t] <=> l \notin {"none", "exit", "over"},
         thread[t] <=> l \notin {"none", "unmap", "unmap_failed", "exit", "over"}
  PROVE  ObjectsInv'
BY DEF ObjectsInv, Objects, Goto

\* Every step keeps the objects in order.
LEMMA ObjectsNext == ObjectsInv /\ [Next]_vars => ObjectsInv'
<1> SUFFICES ASSUME ObjectsInv, [Next]_vars
             PROVE  ObjectsInv'
  OBVIOUS
<1>0. \A t \in Tids :
        /\ mapped[t] <=> pc[t] \notin {"none", "exit", "over"}
        /\ thread[t] <=> pc[t] \notin {"none", "unmap", "unmap_failed", "exit", "over"}
  BY DEF ObjectsInv, Objects
<1>1. ASSUME NEW t \in Tids, NEW d \in BOOLEAN, AsanThreadCreate(t, d)
      PROVE  ObjectsInv'
  BY <1>1 DEF AsanThreadCreate, Goto, ObjectsInv, Objects, Unstarted
<1>2. ASSUME NEW t \in Tids,
             \/ \E h \in Handles, k \in OsIds : RealCreate(t, h, k)
             \/ RealCreateFails(t) \/ GetArgs(t) \/ ThreadStart(t) \/ Finish(t)
             \/ Cancel(t) \/ OsExit(t)
      PROVE  ObjectsInv'
  <2>1. UNCHANGED <<mapped, thread>>
    BY <1>2 DEF RealCreate, RealCreateFails, GetArgs, ThreadStart, Finish, Cancel, OsExit,
       context
  <2>2. \/ /\ pc[t] \in {"created", "entry", "start", "routine"}
           /\ \E l \in {"entry", "failed", "start", "routine", "dtor"} : Goto(t, l)
        \/ pc[t] = "exit" /\ Goto(t, "over")
    BY <1>2 DEF RealCreate, RealCreateFails, GetArgs, ThreadStart, Finish, Cancel, OsExit
  <2> QED
    BY <1>0, <2>1, <2>2, ObjectsStay DEF Alive, Unstarted
<1>3. ASSUME NEW t \in Tids, FinishThread(t)
      PROVE  ObjectsInv'
  BY <1>0, <1>3 DEF FinishThread, Goto, ObjectsInv, Objects, Alive, Unstarted
<1>4. ASSUME NEW t \in Tids, Unmap(t)
      PROVE  ObjectsInv'
  BY <1>0, <1>4 DEF Unmap, Goto, context, ObjectsInv, Objects, Alive, Unstarted
<1>5. ASSUME UNCHANGED <<pc, mapped, thread>>
      PROVE  ObjectsInv'
  BY <1>5 DEF ObjectsInv, Objects
<1>6. ASSUME NEW t \in Tids, CreateLocked(t) \/ Join(t) \/ Detach(t)
      PROVE  UNCHANGED <<pc, mapped, thread>>
  BY <1>6 DEF CreateLocked, Join, BeforeJoin, RealJoin, RealJoinFails, AfterJoin, Detach,
     context
<1>7. CASE UNCHANGED vars
  BY <1>5, <1>7 DEF vars, context
<1> QED
  BY <1>1, <1>2, <1>3, <1>4, <1>5, <1>6, <1>7 DEF Next, PthreadCreate, Run

\* The pointer of a context is gone before its AsanThread is unmapped, and
\* every AsanThread that is mapped will be destroyed once: ThreadIsMapped.
THEOREM ContextsPointToThreads == Spec => []ThreadIsMapped
<1>1. Init => ObjectsInv
  <2>1. Init => /\ pc = [t \in Tids |-> IF t = kMainTid THEN "routine" ELSE "none"]
                /\ mapped = [t \in Tids |-> t = kMainTid]
                /\ thread = [t \in Tids |-> t = kMainTid]
    BY DEF Init
  <2> QED
    BY <2>1 DEF ObjectsInv, Objects, Alive, Unstarted
<1>2. ObjectsInv => ThreadIsMapped
  BY DEF ObjectsInv, Objects, ThreadIsMapped
<1> QED
  BY <1>1, <1>2, ObjectsNext, PTL DEF Spec
=============================================================================
