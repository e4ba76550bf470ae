----------------------------- MODULE MCLunefetch -----------------------------
(***************************************************************************)
(* The application on small instances.                                     *)
(***************************************************************************)
EXTENDS Lunefetch, TLC

CONSTANTS g1, g2, g3

Paused == [NoRow EXCEPT !.life = "live", !.status = "paused"]
QueuedAt(p) == [Paused EXCEPT !.status = "queued", !.pos = p]
Completed == [Paused EXCEPT !.status = "completed"]

EmptyTable == {[id \in Ids |-> NoRow]}
PausedTable == {[id \in Ids |-> Paused]}
CompletedTable == {[id \in Ids |-> Completed]}
QueueTable == {[id \in Ids |-> QueuedAt(Cardinality(Ids) + 1 - id)]}

EveryExternal == {"create", "schedule", "delete", "restore", "purge", "reset", "exit"}
EveryStatus == Status \ {"queued"}

Symmetry == Permutations(Goroutines)
=============================================================================
