--------------------------- MODULE QuarantineSets ---------------------------
(***************************************************************************)
(* What the quarantine promises to the allocator: a chunk that is put      *)
(* stays in the quarantine until it is handed to exactly one thread, which *)
(* recycles it.                                                            *)
(***************************************************************************)
CONSTANTS
  Threads,  \* the owners of a local cache
  Chunks    \* the chunks that are freed

VARIABLES
  arriving,  \* the chunk each thread is putting
  cached,    \* the chunks in the local cache of each thread
  global,    \* the chunks in the global cache
  leaving    \* the chunks each thread has extracted and must recycle

qsvars == <<arriving, cached, global, leaving>>

Init ==
  /\ arriving = [t \in Threads |-> {}]
  /\ cached = [t \in Threads |-> {}]
  /\ global = {}
  /\ leaving = [t \in Threads |-> {}]

Inside == global \cup UNION {arriving[t] \cup cached[t] \cup leaving[t] :
                               t \in Threads}

Arrive(t, c) ==
  /\ c \notin Inside
  /\ arriving[t] = {}
  /\ arriving' = [arriving EXCEPT ![t] = {c}]
  /\ UNCHANGED <<cached, global, leaving>>

\* The quarantine is off, or the chunk is too large: recycled at once.
PassThrough(t) ==
  /\ arriving[t] # {}
  /\ arriving' = [arriving EXCEPT ![t] = {}]
  /\ UNCHANGED <<cached, global, leaving>>

Enqueue(t) ==
  /\ arriving[t] # {}
  /\ arriving' = [arriving EXCEPT ![t] = {}]
  /\ cached' = [cached EXCEPT ![t] = @ \cup arriving[t]]
  /\ UNCHANGED <<global, leaving>>

Transfer(t) ==
  /\ global' = global \cup cached[t]
  /\ cached' = [cached EXCEPT ![t] = {}]
  /\ UNCHANGED <<arriving, leaving>>

Extract(t, out) ==
  /\ leaving[t] = {}
  /\ global' = global \ out
  /\ leaving' = [leaving EXCEPT ![t] = out]
  /\ UNCHANGED <<arriving, cached>>

Recycle(t, c) ==
  /\ c \in leaving[t]
  /\ leaving' = [leaving EXCEPT ![t] = @ \ {c}]
  /\ UNCHANGED <<arriving, cached, global>>

Next ==
  \E t \in Threads :
    \/ PassThrough(t) \/ Enqueue(t) \/ Transfer(t)
    \/ \E c \in Chunks : Arrive(t, c) \/ Recycle(t, c)
    \/ \E out \in SUBSET global : Extract(t, out)

Spec == Init /\ [][Next]_qsvars
=============================================================================
