---------------------------- MODULE QueueManager ----------------------------
(***************************************************************************)
(* internal/queue/manager.go: queue.Manager, which limits how many         *)
(* downloads run and keeps the persistent queue moving.                    *)
(*                                                                         *)
(* Every method runs under m.mu, but m.mu protects only the manager's own  *)
(* fields: the table is written by the pages, the scheduler and the        *)
(* workers without it.  A method is therefore split at its SQL statements: *)
(* `op' is the method holding m.mu and the statement it is about to run,   *)
(* and anything outside the manager may happen before that statement.      *)
(*                                                                         *)
(* `go m.startFn(id)' hands id to a new goroutine; task[g] is the download *)
(* goroutine g answers for until it calls OnDone.  Here a goroutine only   *)
(* ends; DownloadsPage says what it does in between.                       *)
(***************************************************************************)
EXTENDS Storage

CONSTANTS
  Goroutines,   \* names for the goroutines startFn may run in at one time
  NoId,         \* not a download
  MaxLimit,     \* bound: largest concurrency limit the user sets
  WriteFaults,  \* may a statement of the manager fail (disk full, I/O error)?
  InitTables,   \* tables a previous process may have left behind
  Externals,    \* bound: kinds of statements the environment runs
  SetStatuses   \* bound: statuses the environment writes

ASSUME QueueAssumption ==
  /\ NoId \notin Ids
  /\ MaxLimit \in Nat \ {0}
  /\ WriteFaults \in BOOLEAN
  /\ InitTables \subseteq [Ids -> Row]
  /\ SetStatuses \subseteq Status \ {"queued"}

VARIABLES
  db,             \* the downloads table
  boot,           \* "down", then "reconciled", then "up"
  active,         \* Manager.active
  maxConcurrent,  \* Manager.maxConcurrent
  op,             \* the Manager method that holds m.mu
  task            \* the download each startFn goroutine answers for

queueVars == <<boot, active, maxConcurrent, op, task>>
vars == <<db, boot, active, maxConcurrent, op, task>>

\* at: the next statement; id: its download; by: the caller, blocked until the
\* method returns; seen: drainQueue's set, non-empty iff the method is draining
\* and has already started a row.
Callers == {"none", "ui", "scheduler", "add", "worker", "starter", "main"}
OpAt == {"idle", "mark", "enqueue", "put", "drain"}
Op == [at : OpAt, id : Ids \cup {NoId}, by : Callers, seen : SUBSET Ids]
Idle == [at |-> "idle", id |-> NoId, by |-> "none", seen |-> {}]

MutexFree == op.at = "idle"
\* Mutant: the comparison lets one download too many in.
HasSlotOffByOne == Cardinality(active) <= maxConcurrent
HasSlot == Cardinality(active) < maxConcurrent

QueueInit ==
  /\ db \in InitTables
  /\ boot = "down"
  /\ active = {}
  /\ maxConcurrent \in 1..MaxLimit
  /\ op = Idle
  /\ task = [g \in Goroutines |-> NoId]

-----------------------------------------------------------------------------
(* The methods, from the call to the first statement.                      *)

\* A slot is free: take it, mark the row next.  Otherwise: enqueue it.  The
\* existence of an end position below MaxPos is the bound.
Place(id, c) ==
  \/ /\ HasSlot
     /\ active' = active \cup {id}
     /\ op' = [at |-> "mark", id |-> id, by |-> c, seen |-> {}]
  \/ /\ ~HasSlot
     /\ \E p \in 1..MaxPos : IsEndPosition(db, p)
     /\ op' = [at |-> "enqueue", id |-> id, by |-> c, seen |-> {}]
     /\ UNCHANGED active

\* Mutant: the look into m.active is missing.
TryStartTwice(id, c) ==
  /\ MutexFree
  /\ IF ~Live(db, id) THEN UNCHANGED <<active, op>> ELSE Place(id, c)
  /\ UNCHANGED <<db, boot, maxConcurrent, task>>

TryStart(id, c) ==
  /\ MutexFree
  /\ IF id \in active \/ ~Live(db, id)
       THEN UNCHANGED <<active, op>>
       ELSE Place(id, c)
  /\ UNCHANGED <<db, boot, maxConcurrent, task>>

EnqueueScheduled(id, c) ==
  /\ MutexFree
  /\ db' = SetScheduledAt(db, id, FALSE)
  /\ IF id \in active THEN UNCHANGED <<active, op>> ELSE Place(id, c)
  /\ UNCHANGED <<boot, maxConcurrent, task>>

\* Mutant: the slot is given back, the queue is not drained.
OnDoneWithoutDrain(id, c, tasks) ==
  /\ MutexFree
  /\ active' = active \ {id}
  /\ db' = IF id \in active THEN SetQueuePosition(db, id, 0) ELSE db
  /\ task' = tasks
  /\ UNCHANGED <<boot, maxConcurrent, op>>

\* OnDone on behalf of a goroutine: tasks is what is left of task.
OnDone(id, c, tasks) ==
  /\ MutexFree
  /\ IF id \in active
       THEN /\ active' = active \ {id}
            /\ db' = SetQueuePosition(db, id, 0)
            /\ op' = [at |-> "drain", id |-> NoId, by |-> c, seen |-> {}]
       ELSE UNCHANGED <<active, db, op>>
  /\ task' = tasks
  /\ UNCHANGED <<boot, maxConcurrent>>

Remove(id) ==
  /\ MutexFree
  /\ db' = IF id \in active THEN db ELSE SetQueuePosition(db, id, 0)
  /\ UNCHANGED queueVars

\* Mutant: the limit is not kept above zero.
SetMaxConcurrentUnclamped(n, c) ==
  /\ MutexFree
  /\ maxConcurrent' = n
  /\ op' = [at |-> "drain", id |-> NoId, by |-> c, seen |-> {}]
  /\ UNCHANGED <<db, boot, active, task>>

SetMaxConcurrent(n, c) ==
  /\ MutexFree
  /\ maxConcurrent' = IF n < 1 THEN 1 ELSE n
  /\ op' = [at |-> "drain", id |-> NoId, by |-> c, seen |-> {}]
  /\ UNCHANGED <<db, boot, active, task>>

-----------------------------------------------------------------------------
(* The statements of a method in progress.                                 *)

\* MarkDownloading, its error ignored, then go m.startFn(id).
Mark ==
  /\ op.at = "mark"
  /\ \/ db' = MarkDownloading(db, op.id)
     \/ WriteFaults /\ UNCHANGED db
  /\ \E g \in Goroutines :
       /\ task[g] = NoId
       /\ task' = [task EXCEPT ![g] = op.id]
  /\ op' = IF op.seen = {} THEN Idle ELSE [op EXCEPT !.at = "drain", !.id = NoId]
  /\ UNCHANGED <<boot, active, maxConcurrent>>

\* enqueue: a missing, deleted or already queued row is left alone.
Enqueue ==
  /\ op.at = "enqueue"
  /\ op' = IF \/ ~Live(db, op.id)
              \/ db[op.id].status = "queued" /\ db[op.id].pos # 0
             THEN Idle ELSE [op EXCEPT !.at = "put"]
  /\ UNCHANGED <<db, boot, active, maxConcurrent, task>>

Put ==
  /\ op.at = "put"
  /\ \/ \E p \in 1..MaxPos :
          IsEndPosition(db, p) /\ db' = EnqueueDownload(db, op.id, p)
     \/ WriteFaults /\ UNCHANGED db
  /\ op' = Idle
  /\ UNCHANGED <<boot, active, maxConcurrent, task>>

\* One turn of drainQueue's loop: the row to start, a row that runs already, or
\* the return (no slot, empty queue, a row seen before).
DrainStart ==
  /\ op.at = "drain"
  /\ HasSlot
  /\ \E n \in Ids \ (op.seen \cup active) :
       /\ IsNextInQueue(db, n)
       /\ active' = active \cup {n}
       /\ op' = [op EXCEPT !.at = "mark", !.id = n, !.seen = @ \cup {n}]
  /\ UNCHANGED <<db, boot, maxConcurrent, task>>

\* Mutant: the row is not remembered.
DrainSkipForgotten ==
  /\ op.at = "drain"
  /\ HasSlot
  /\ \E n \in active : IsNextInQueue(db, n) /\ db' = SetQueuePosition(db, n, 0)
  /\ UNCHANGED queueVars

DrainSkip ==
  /\ op.at = "drain"
  /\ HasSlot
  /\ \E n \in active \ op.seen :
       /\ IsNextInQueue(db, n)
       /\ db' = SetQueuePosition(db, n, 0)
       /\ op' = [op EXCEPT !.seen = @ \cup {n}]
  /\ UNCHANGED <<boot, active, maxConcurrent, task>>

\* Mutant: a row seen before does not end the loop.
DrainUntilEmpty ==
  /\ op.at = "drain"
  /\ HasSlot => Queued(db) = {}
  /\ op' = Idle
  /\ UNCHANGED <<db, boot, active, maxConcurrent, task>>

DrainReturn ==
  /\ op.at = "drain"
  /\ HasSlot => \A n \in Ids \ op.seen : ~IsNextInQueue(db, n)
  /\ op' = Idle
  /\ UNCHANGED <<db, boot, active, maxConcurrent, task>>

ManagerStep == Mark \/ Enqueue \/ Put \/ DrainStart \/ DrainSkip \/ DrainReturn

-----------------------------------------------------------------------------
(* The life of the process.                                                *)

\* Mutant: the rows of a crashed process are not looked at.
RecoverNothing ==
  /\ boot = "down"
  /\ boot' = "reconciled"
  /\ UNCHANGED <<db, active, maxConcurrent, op, task>>

\* RecoverDownloads: ReconcileInterrupted, then Drain.
Reconcile ==
  /\ boot = "down"
  /\ boot' = "reconciled"
  /\ db' = ReconcileInterrupted(db)
  /\ UNCHANGED <<active, maxConcurrent, op, task>>

Drain ==
  /\ boot = "reconciled"
  /\ MutexFree
  /\ boot' = "up"
  /\ op' = [at |-> "drain", id |-> NoId, by |-> "main", seen |-> {}]
  /\ UNCHANGED <<db, active, maxConcurrent, task>>

\* The process ends, at any point of any method: only the table survives.
ProcessEnds ==
  /\ boot' = "down"
  /\ active' = {}
  /\ op' = Idle
  /\ task' = [g \in Goroutines |-> NoId]
  /\ UNCHANGED <<db, maxConcurrent>>

-----------------------------------------------------------------------------
(* The environment: the callers, and the statements run without m.mu.      *)

CallManager ==
  /\ boot = "up" /\ op.by # "main"
  /\ \/ \E id \in Ids, c \in {"ui", "add"} : TryStart(id, c)
     \/ \E id \in Ids : "delete" \in Externals /\ Remove(id)
     \/ \E id \in Ids : "schedule" \in Externals /\ EnqueueScheduled(id, "scheduler")
     \/ \E n \in 0..MaxLimit : SetMaxConcurrent(n, "ui")

GoroutineEnds(g) ==
  /\ task[g] # NoId
  /\ \E c \in {"worker", "starter", "ui"} : OnDone(task[g], c, [task EXCEPT ![g] = NoId])

ExternalStatement(id) ==
  \/ "create" \in Externals /\ db[id].life = "none" /\ db' = CreateDownloadWithChunks(db, id)
  \/ \E s \in SetStatuses : db' = UpdateDownloadStatus(db, id, s)
  \/ "schedule" \in Externals /\ \E set \in BOOLEAN : db' = SetScheduledAt(db, id, set)
  \/ "delete" \in Externals /\ db' = DeleteDownload(db, id)
  \/ "restore" \in Externals /\ db' = RestoreDownload(db, id)
  \/ "purge" \in Externals /\ db' = PurgeDownload(db, id)
  \/ "reset" \in Externals /\ db' = ResetProgress(db, id, "pending")

External ==
  /\ boot = "up"
  /\ \E id \in Ids : ExternalStatement(id)
  /\ UNCHANGED queueVars

QueueNext ==
  \/ Reconcile \/ Drain
  \/ CallManager
  \/ ManagerStep
  \/ \E g \in Goroutines : GoroutineEnds(g)
  \/ External
  \/ "exit" \in Externals /\ ProcessEnds

\* A statement returns, main recovers on startup, and a worker ends.
QueueFairness ==
  /\ WF_vars(ManagerStep)
  /\ WF_vars(Reconcile \/ Drain)
  /\ \A g \in Goroutines : SF_vars(GoroutineEnds(g))

QueueSpec == QueueInit /\ [][QueueNext]_vars
FairQueueSpec == QueueSpec /\ QueueFairness

-----------------------------------------------------------------------------
(* Properties.                                                             *)

\* Table, slots and the method in progress have the shapes the Go types give.
TypeOK ==
  /\ db \in [Ids -> Row]
  /\ boot \in {"down", "reconciled", "up"}
  /\ active \subseteq Ids
  /\ maxConcurrent \in Nat \ {0}
  /\ op \in Op
  /\ op.at \in {"mark", "enqueue", "put"} => op.id \in Ids
  /\ task \in [Goroutines -> Ids \cup {NoId}]

TaskIds == {task[g] : g \in Goroutines} \ {NoId}
Starting == IF op.at = "mark" THEN {op.id} ELSE {}

\* Two goroutines never answer for one download, so one .part file never has two
\* writers; and a slot is held exactly by the downloads some goroutine answers
\* for, or that Mark is about to hand to one: no slot leaks, none is free while
\* its worker still runs (TryStart, OnDone, drainQueue).
SlotHasOneOwner ==
  /\ active = TaskIds \cup Starting
  /\ TaskIds \cap Starting = {}
  /\ \A g, h \in Goroutines : task[g] = task[h] /\ task[g] # NoId => g = h

\* Whenever no method is in progress, a queued download waits only because every
\* slot is taken: no method returns with a free slot and a non-empty queue.
WorkConserving ==
  boot = "up" /\ MutexFree => ~HasSlot \/ Queued(db) = {}

\* The manager implements the pool of slots: no start beyond the limit in force,
\* no second slot for one download, no slot that changes hands unreleased.
Pool == INSTANCE SlotPool WITH held <- active, limit <- maxConcurrent
ImplementsSlotPool == Pool!Spec

\* "The loop is bounded" (drainQueue's comment): every statement of a method either
\* ends it or leaves less to do, so no method runs more than 2 * |Ids| + 1 of them,
\* even when NextInQueue returns a row again because a failed MarkDownloading has
\* left it queued.
StatementsLeft(o) ==
  2 * Cardinality(Ids \ o.seen) + IF o.at \in {"mark", "enqueue"} THEN 1 ELSE 0
LoopIsBounded ==
  [][ManagerStep => op' = Idle \/ StatementsLeft(op') < StatementsLeft(op)]_vars

\* m.mu is released again and again: drainQueue's loop ends even when a failed
\* MarkDownloading makes NextInQueue return the same row for ever.
MutexReleased == []<>MutexFree
=============================================================================
