------------------------------- MODULE Storage -------------------------------
(***************************************************************************)
(* The "downloads" table of internal/storage/state.go, as far as the life  *)
(* of a download needs it.  One operator stands for one SQL statement: it  *)
(* maps the table before the statement to the table after it.  The pool    *)
(* holds a single connection, so every statement is atomic and whatever    *)
(* lies between two statements is visible to the other goroutines.         *)
(*                                                                         *)
(* An id is the AUTOINCREMENT key, so the order of the ids is the order of *)
(* created_at.  `life' folds the existence of the row and its deleted_at.  *)
(* A position of 0 is a NULL queue_position.                               *)
(***************************************************************************)
EXTENDS Naturals, FiniteSets

CONSTANTS
  Ids,      \* ids the table may hand out
  MaxPos    \* bound: largest queue_position a run may hand out

ASSUME StorageAssumption ==
  /\ Ids \subseteq Nat
  /\ IsFiniteSet(Ids)
  /\ MaxPos \in Nat \ {0}

Status == {"pending", "scheduled", "queued", "downloading", "paused",
           "completed", "cancelled", "failed"}

\* none: id not handed out yet; deleted: deleted_at set; purged: row gone.
Life == {"none", "live", "deleted", "purged"}

Row == [status : Status, pos : Nat, sched : BOOLEAN, life : Life]

NoRow == [status |-> "pending", pos |-> 0, sched |-> FALSE, life |-> "none"]

Exists(t, id) == t[id].life \in {"live", "deleted"}
Live(t, id)   == t[id].life = "live"

-----------------------------------------------------------------------------
(* Creation, status and schedule.                                          *)

CreateDownloadWithChunks(t, id) == [t EXCEPT ![id] = [NoRow EXCEPT !.life = "live"]]

UpdateDownloadStatus(t, id, s) ==
  IF Exists(t, id) THEN [t EXCEPT ![id].status = s] ELSE t

SetScheduledAt(t, id, set) ==
  IF Exists(t, id) THEN [t EXCEPT ![id].sched = set] ELSE t

\* The rows whose scheduled_at has come; the comparison with the wall clock is
\* the caller's: a due time is any time.
ScheduledDue(t) ==
  {id \in Ids : Live(t, id) /\ t[id].status = "scheduled" /\ t[id].sched}

ReconcileInterrupted(t) ==
  [id \in Ids |-> IF Live(t, id) /\ t[id].status = "downloading"
                    THEN [t[id] EXCEPT !.status = "paused"] ELSE t[id]]

-----------------------------------------------------------------------------
(* The persistent queue.                                                   *)

Queued(t) == {id \in Ids : Live(t, id) /\ t[id].status = "queued"}

SetQueuePosition(t, id, p) ==
  IF Exists(t, id) THEN [t EXCEPT ![id].pos = p] ELSE t

\* Mutant: one more than the number of queued rows, gaps forgotten.
CountedEndPosition(t, p) == p = Cardinality(Queued(t)) + 1

\* COALESCE(MAX(queue_position), 0) + 1 over the live queued rows.
IsEndPosition(t, p) ==
  /\ \A id \in Queued(t) : t[id].pos < p
  /\ p = 1 \/ \E id \in Queued(t) : t[id].pos = p - 1

EnqueueDownload(t, id, p) ==
  IF Live(t, id) THEN [t EXCEPT ![id].status = "queued", ![id].pos = p] ELSE t

MarkDownloading(t, id) ==
  IF Exists(t, id) THEN [t EXCEPT ![id].status = "downloading", ![id].pos = 0] ELSE t

\* ORDER BY queue_position ASC NULLS LAST, created_at ASC.
Before(t, a, b) ==
  \/ t[a].pos # 0 /\ t[b].pos = 0
  \/ t[a].pos # 0 /\ t[b].pos # 0 /\ t[a].pos < t[b].pos
  \/ t[a].pos = t[b].pos /\ a < b

\* n is the row NextInQueue returns.
IsNextInQueue(t, n) ==
  /\ n \in Queued(t)
  /\ \A m \in Queued(t) \ {n} : Before(t, n, m)

-----------------------------------------------------------------------------
(* Deletion and history.                                                   *)

DeleteDownload(t, id) ==
  IF Live(t, id) THEN [t EXCEPT ![id].life = "deleted"] ELSE t

RestoreDownload(t, id) ==
  IF t[id].life = "deleted"
    THEN [t EXCEPT ![id] = [NoRow EXCEPT !.life = "live", !.status = "paused"]]
    ELSE t

PurgeDownload(t, id) ==
  IF t[id].life = "deleted" THEN [t EXCEPT ![id] = [NoRow EXCEPT !.life = "purged"]] ELSE t

\* The chunk rows reset in the same transaction belong to ChunkDownload.
ResetProgress(t, id, s) ==
  IF Live(t, id) THEN [t EXCEPT ![id].status = s, ![id].pos = 0] ELSE t
=============================================================================
