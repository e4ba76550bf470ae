---------------------------- MODULE MCQueueMoves ----------------------------
(***************************************************************************)
(* QueueManager with the moves of the user, on a small instance.           *)
(***************************************************************************)
EXTENDS QueueMoves, TLC

CONSTANTS g1, g2

QueuedAt(p) == [NoRow EXCEPT !.life = "live", !.status = "queued", !.pos = p]

\* A first start, or a queue left behind out of id order.
StartTables ==
  {[id \in Ids |-> NoRow],
   [id \in Ids |-> QueuedAt(Cardinality(Ids) + 1 - id)]}

Symmetry == Permutations(Goroutines)
=============================================================================
