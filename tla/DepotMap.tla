------------------------------ MODULE DepotMap ------------------------------
(***************************************************************************)
(* What the stack depot promises: a map from the hash of a stack trace to  *)
(* an id that is made up once, is never taken back and belongs to no other *)
(* hash.                                                                   *)
(***************************************************************************)
CONSTANTS
  Traces,  \* stack traces
  Hashes,  \* their hashes
  Hash,    \* the hash of a trace
  Ids      \* ids; there is no id 0

VARIABLES
  known,   \* the id of a hash, or 0
  issued   \* pairs of a trace and the id Put has returned for it

vars == <<known, issued>>

Init ==
  /\ known = [h \in Hashes |-> 0]
  /\ issued = {}

\* Put of a trace whose hash has an id.
PutOld(a) ==
  /\ known[Hash[a]] # 0
  /\ issued' = issued \cup {<<a, known[Hash[a]]>>}
  /\ UNCHANGED known

\* Put of a trace whose hash is new.
PutNew(a, id) ==
  /\ known[Hash[a]] = 0
  /\ \A h \in Hashes : known[h] # id
  /\ known' = [known EXCEPT ![Hash[a]] = id]
  /\ issued' = issued \cup {<<a, id>>}

Next == \E a \in Traces : PutOld(a) \/ \E id \in Ids : PutNew(a, id)

Spec == Init /\ [][Next]_vars
=============================================================================
