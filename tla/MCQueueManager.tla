--------------------------- MODULE MCQueueManager ---------------------------
(***************************************************************************)
(* QueueManager on small instances.                                        *)
(***************************************************************************)
EXTENDS QueueManager

CONSTANTS g1, g2

PausedTable == {[id \in Ids |-> [NoRow EXCEPT !.life = "live", !.status = "paused"]]}
=============================================================================
