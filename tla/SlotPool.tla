------------------------------ MODULE SlotPool ------------------------------
(***************************************************************************)
(* What queue.Manager promises to the rest of Lunefetch, without saying    *)
(* how: a pool of download slots, at most one per download, that never     *)
(* hands out a slot beyond the limit in force at that moment.  Lowering    *)
(* the limit takes no slot away; the end of the process takes them all.    *)
(***************************************************************************)
EXTENDS Naturals, FiniteSets

CONSTANT Ids

VARIABLES
  held,     \* downloads that hold a slot
  limit     \* MaxConcurrent setting

Init == held = {} /\ limit \in Nat \ {0}

Acquire(id) ==
  /\ id \notin held
  /\ Cardinality(held) < limit
  /\ held' = held \cup {id}
  /\ UNCHANGED limit

Release(id) ==
  /\ id \in held
  /\ held' = held \ {id}
  /\ UNCHANGED limit

SetLimit ==
  /\ limit' \in Nat \ {0}
  /\ UNCHANGED held

ProcessEnds ==
  /\ held' = {}
  /\ UNCHANGED limit

Next ==
  \/ \E id \in Ids : Acquire(id) \/ Release(id)
  \/ SetLimit
  \/ ProcessEnds

Spec == Init /\ [][Next]_<<held, limit>>
=============================================================================
