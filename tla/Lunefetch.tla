------------------------------ MODULE Lunefetch ------------------------------
(***************************************************************************)
(* The running application: the queue manager and its workers together     *)
(* with the other actors that touch a download.                            *)
(*   - the UI thread: the row menu, the shortcuts and the bulk actions of  *)
(*     the downloads page, the history page, the answers to a conflict,    *)
(*     and Shutdown (internal/ui/pages, internal/ui/layout/desktop.go);    *)
(*   - the scheduler goroutine of main.go;                                 *)
(*   - the addURLLoop goroutine, which runs HandleAdd;                     *)
(*   - the end of the process, and its next start.                         *)
(* Each handler is split where another actor may come between: at every    *)
(* statement and every lock.                                               *)
(***************************************************************************)
EXTENDS Workers

CONSTANT Ops   \* bound: what the user and the outside world do in a run

\* The manager's own specification bounds none of what the application does to it.
ASSUME LunefetchAssumption ==
  /\ {"create", "schedule", "delete", "restore", "purge", "reset", "exit"} \subseteq Externals
  /\ Status \ {"queued"} \subseteq SetStatuses

VARIABLES
  ui,     \* the handler the UI thread is in
  sched,  \* the scheduler's iteration
  add     \* the HandleAdd in progress

appVars == <<ui, sched, add>>
allVars == <<vars, workerVars, appVars>>

\* do: the handler; at: its next step; id: its download; ctx: the entries it
\* holds a reference to; todo: the ids it still has to visit, out of a snapshot
\* of dp.active; late: the ids it writes or releases once the visit is over.
Handlers == {"none", "pause", "cancel", "delete", "again", "answer", "shutdown"}
Steps == {"none", "visit", "stop", "write", "remove", "delete", "reset", "clean",
          "start", "release", "closed"}
UI == [do : Handlers, at : Steps, id : Ids \cup {NoId}, ctx : SUBSET Goroutines,
       todo : SUBSET Ids, late : SUBSET Ids]
NoUI == [do |-> "none", at |-> "none", id |-> NoId, ctx |-> {}, todo |-> {}, late |-> {}]

SchedAt == {"none", "next", "unset", "call"}
NoSched == [at |-> "none", id |-> NoId, todo |-> {}]
AddAt == {"none", "start", "schedule", "setTime"}
NoAdd == [at |-> "none", id |-> NoId]

Init ==
  /\ QueueInit
  /\ WorkersInit
  /\ published = {id \in Ids : db[id].status = "completed"}
  /\ ui = NoUI /\ sched = NoSched /\ add = NoAdd

\* main runs RecoverDownloads to its end before it starts anything else.
AppUp == boot = "up" /\ op.by # "main"
UIFree == AppUp /\ ui.do = "none" /\ op.by # "ui"
UIAt(do, at) == ui.do = do /\ ui.at = at

\* The UI thread writes a status, and does nothing else to the table.
UIWrites(id, s) ==
  /\ db' = UpdateDownloadStatus(db, id, s)
  /\ UNCHANGED <<queueVars, workerVars, sched, add>>

\* Mutant: the cancel function is not called.
CancelNothing(gs) == UNCHANGED <<vars, workerVars, sched, add>>

\* The UI thread cancels the contexts it holds; one whose worker has ended in
\* the meantime is left out of ctx by End.
CancelContexts(gs) ==
  /\ cancelled' = [g \in Goroutines |-> cancelled[g] \/ g \in gs]
  /\ UNCHANGED <<vars, phase, entries, pending, shuttingDown, published, sched, add>>

UILooks == UNCHANGED <<vars, workerVars, sched, add>>

-----------------------------------------------------------------------------
(* Pause one download, or all of them: cancel every worker, then write.     *)

Pause(ids) ==
  /\ UIFree
  /\ ids # {}
  /\ ui' = [NoUI EXCEPT !.do = "pause", !.at = "visit", !.todo = ids]
  /\ UILooks

PauseVisit(id) ==
  /\ UIAt("pause", "visit") /\ id \in ui.todo
  /\ ui' = [ui EXCEPT !.todo = @ \ {id}, !.ctx = Entry(id),
                      !.id = id, !.at = IF Entry(id) = {} THEN "visit" ELSE "stop"]
  /\ UILooks

PauseStop ==
  /\ UIAt("pause", "stop")
  /\ CancelContexts(ui.ctx)
  /\ ui' = [ui EXCEPT !.at = "visit", !.ctx = {}, !.late = @ \cup {ui.id}]

PauseWrite(id) ==
  /\ UIAt("pause", "visit") /\ ui.todo = {} /\ id \in ui.late
  /\ ui' = [ui EXCEPT !.late = @ \ {id}]
  /\ UIWrites(id, "paused")

PauseReturn ==
  /\ UIAt("pause", "visit") /\ ui.todo = {} /\ ui.late = {}
  /\ ui' = NoUI
  /\ UILooks

-----------------------------------------------------------------------------
(* Cancel, delete and Download Again start by stopping the worker, if any. *)

Stop(do, id) ==
  /\ UIFree
  /\ Live(db, id)
  /\ do = "again" => db[id].status \in {"completed", "cancelled"}
  /\ ui' = [NoUI EXCEPT !.do = do, !.at = "stop", !.id = id, !.ctx = Entry(id)]
  /\ UILooks

StopContexts ==
  /\ ui.do \in {"cancel", "delete", "again"} /\ ui.at = "stop"
  /\ CancelContexts(ui.ctx)
  /\ ui' = [ui EXCEPT !.ctx = {}, !.at = IF ui.do = "again" THEN "reset" ELSE "write"]

CancelWrite ==
  /\ ui.do \in {"cancel", "delete"} /\ ui.at = "write"
  /\ ui' = IF ui.do = "cancel" THEN NoUI ELSE [ui EXCEPT !.at = "remove"]
  /\ UIWrites(ui.id, "cancelled")

DeleteRemove ==
  /\ UIAt("delete", "remove")
  /\ Remove(ui.id)
  /\ ui' = [ui EXCEPT !.at = "delete"]
  /\ UNCHANGED <<workerVars, sched, add>>

DeleteRow ==
  /\ UIAt("delete", "delete")
  /\ db' = DeleteDownload(db, ui.id)
  /\ ui' = NoUI
  /\ UNCHANGED <<queueVars, workerVars, sched, add>>

\* ResetProgress fails on a row deleted or purged since the click.
AgainReset ==
  /\ UIAt("again", "reset")
  /\ db' = ResetProgress(db, ui.id, "pending")
  /\ ui' = IF Live(db, ui.id) THEN [ui EXCEPT !.at = "clean"] ELSE NoUI
  /\ UNCHANGED <<queueVars, workerVars, sched, add>>

\* CleanupFile of the destination and of the .part file; a destination that
\* cannot be removed ends the handler.
AgainClean ==
  /\ UIAt("again", "clean")
  /\ \/ published' = published \ {ui.id} /\ ui' = [ui EXCEPT !.at = "start"]
     \/ ui.id \in published /\ UNCHANGED published /\ ui' = NoUI
  /\ UNCHANGED <<vars, phase, cancelled, entries, pending, shuttingDown, sched, add>>

AgainStart ==
  /\ UIAt("again", "start")
  /\ TryStart(ui.id, "ui")
  /\ ui' = NoUI
  /\ UNCHANGED <<workerVars, sched, add>>

-----------------------------------------------------------------------------
(* Resume, the concurrency setting, and the history page.                  *)

Resume(id) ==
  /\ UIFree
  /\ Live(db, id)
  /\ TryStart(id, "ui")
  /\ UNCHANGED <<workerVars, appVars>>

SetLimit(n) ==
  /\ UIFree
  /\ SetMaxConcurrent(n, "ui")
  /\ UNCHANGED <<workerVars, appVars>>

History(id) ==
  /\ UIFree
  /\ db[id].life = "deleted"
  /\ db' = RestoreDownload(db, id) \/ db' = PurgeDownload(db, id)
  /\ UNCHANGED <<queueVars, workerVars, appVars>>

-----------------------------------------------------------------------------
(* The conflict dialog.  The first button claims the download from pending *)
(* and releases its slot; the UI thread is busy until then.                *)

Answer(g, to) ==
  /\ UIFree /\ ~shuttingDown
  /\ At(g, "prompting") /\ task[g] \in pending
  /\ pending' = pending \ {task[g]}
  /\ Goto(g, to)
  /\ ui' = [NoUI EXCEPT !.do = "answer", !.ctx = {g}]
  /\ UNCHANGED <<vars, cancelled, entries, shuttingDown, published, sched, add>>

\* Keep Both moves to a unique name, Replace replaces; either may fail.
Settle(g) ==
  /\ At(g, "placing")
  /\ \/ Goto(g, "completing") /\ published' = published \cup {task[g]}
     \/ Goto(g, "failing") /\ UNCHANGED published
  /\ UNCHANGED <<vars, cancelled, entries, pending, shuttingDown, appVars>>

Discard(g) == WriteStatus(g, "discarding", "cancelled", "ending") /\ UNCHANGED appVars

AnswerReturn(g) ==
  /\ At(g, "ending") /\ ui.do = "answer" /\ ui.ctx = {g}
  /\ Release(g, "ui")
  /\ ui' = NoUI
  /\ UNCHANGED <<entries, pending, shuttingDown, published, sched, add>>

-----------------------------------------------------------------------------
(* Shutdown.                                                               *)

\* Mutant: a conflict Shutdown answers for stays in dp.pending.
ShutdownKeepsPending ==
  /\ UIFree
  /\ shuttingDown' = TRUE
  /\ ui' = [NoUI EXCEPT !.do = "shutdown", !.at = "visit", !.ctx = entries,
                        !.todo = {task[g] : g \in entries}, !.late = pending]
  /\ UNCHANGED <<vars, phase, cancelled, entries, pending, published, sched, add>>

Shutdown ==
  /\ UIFree
  /\ shuttingDown' = TRUE
  /\ pending' = {}
  /\ ui' = [NoUI EXCEPT !.do = "shutdown", !.at = "visit", !.ctx = entries,
                        !.todo = {task[g] : g \in entries}, !.late = pending]
  /\ UNCHANGED <<vars, phase, cancelled, entries, published, sched, add>>

ShutdownStop(id) ==
  /\ UIAt("shutdown", "visit") /\ id \in ui.todo
  /\ CancelContexts({g \in ui.ctx : task[g] = id})
  /\ ui' = [ui EXCEPT !.at = "write", !.id = id, !.todo = @ \ {id}]

ShutdownWrite ==
  /\ UIAt("shutdown", "write")
  /\ ui' = [ui EXCEPT !.at = "visit"]
  /\ UIWrites(ui.id, "paused")

ShutdownPending(id) ==
  /\ UIAt("shutdown", "visit") /\ ui.todo = {} /\ id \in ui.late
  /\ ui' = [ui EXCEPT !.at = "release", !.id = id, !.late = @ \ {id}]
  /\ UIWrites(id, "paused")

ShutdownRelease(g) ==
  /\ UIAt("shutdown", "release")
  /\ At(g, "prompting") /\ task[g] = ui.id
  /\ Release(g, "ui")
  /\ ui' = [ui EXCEPT !.at = "visit"]
  /\ UNCHANGED <<entries, pending, shuttingDown, published, sched, add>>

\* dp.workers.Wait returns.
ShutdownReturn ==
  /\ UIAt("shutdown", "visit") /\ ui.todo = {} /\ ui.late = {}
  /\ op.by \notin {"ui", "worker"}
  /\ \A g \in Goroutines : ~OnWaitGroup(g)
  /\ ui' = [NoUI EXCEPT !.do = "shutdown", !.at = "closed"]
  /\ UILooks

\* The process is gone, with every goroutine; the table and the files stay.
Exit ==
  /\ ProcessEnds
  /\ phase' = [g \in Goroutines |-> "spawned"]
  /\ cancelled' = [g \in Goroutines |-> FALSE]
  /\ entries' = {} /\ pending' = {} /\ shuttingDown' = FALSE
  /\ ui' = NoUI /\ sched' = NoSched /\ add' = NoAdd
  /\ UNCHANGED published

Quit == UIAt("shutdown", "closed") /\ Exit
Crash == boot # "down" /\ "crash" \in Ops /\ Exit

-----------------------------------------------------------------------------
(* The scheduler: the rows due, then for each: pending, no time, enqueue.  *)

SchedList ==
  /\ AppUp /\ sched.at = "none" /\ op.by # "scheduler"
  /\ \E due \in SUBSET ScheduledDue(db) \ {{}} :
       sched' = [NoSched EXCEPT !.at = "next", !.todo = due]
  /\ UNCHANGED <<vars, workerVars, ui, add>>

SchedPending(id) ==
  /\ sched.at = "next" /\ op.by # "scheduler" /\ id \in sched.todo
  /\ db' = UpdateDownloadStatus(db, id, "pending")
  /\ sched' = [at |-> "unset", id |-> id, todo |-> sched.todo \ {id}]
  /\ UNCHANGED <<queueVars, workerVars, ui, add>>

SchedUnset ==
  /\ sched.at = "unset"
  /\ db' = SetScheduledAt(db, sched.id, FALSE)
  /\ sched' = [sched EXCEPT !.at = "call"]
  /\ UNCHANGED <<queueVars, workerVars, ui, add>>

SchedCall ==
  /\ sched.at = "call"
  /\ EnqueueScheduled(sched.id, "scheduler")
  /\ sched' = IF sched.todo = {} THEN NoSched ELSE [sched EXCEPT !.at = "next", !.id = NoId]
  /\ UNCHANGED <<workerVars, ui, add>>

SchedStep == SchedUnset \/ SchedCall \/ \E id \in Ids : SchedPending(id)

-----------------------------------------------------------------------------
(* HandleAdd, once the server has described the file.                      *)

AddCreate(id, to) ==
  /\ AppUp /\ add.at = "none" /\ op.by # "add"
  /\ \A other \in Ids : db[other].life = "none" <=> other >= id
  /\ db' = CreateDownloadWithChunks(db, id)
  /\ add' = [at |-> to, id |-> id]
  /\ UNCHANGED <<queueVars, workerVars, ui, sched>>

AddStart ==
  /\ add.at = "start"
  /\ TryStart(add.id, "add")
  /\ add' = NoAdd
  /\ UNCHANGED <<workerVars, ui, sched>>

AddSchedule ==
  /\ add.at = "schedule"
  /\ db' = UpdateDownloadStatus(db, add.id, "scheduled")
  /\ add' = [add EXCEPT !.at = "setTime"]
  /\ UNCHANGED <<queueVars, workerVars, ui, sched>>

AddSetTime ==
  /\ add.at = "setTime"
  /\ db' = SetScheduledAt(db, add.id, TRUE)
  /\ add' = NoAdd
  /\ UNCHANGED <<queueVars, workerVars, ui, sched>>

AddStep == AddStart \/ AddSchedule \/ AddSetTime

-----------------------------------------------------------------------------
(* The next-state relation.                                                *)

Manager ==
  /\ Reconcile \/ Drain \/ ManagerStep
  /\ UNCHANGED <<workerVars, appVars>>

Worker(g) == WorkerStep(g) /\ UNCHANGED appVars

\* A worker's context dies with it; the UI thread ends what it resolved itself.
WorkerEnd(g) ==
  /\ ~(ui.do = "answer" /\ g \in ui.ctx)
  /\ End(g)
  /\ ui' = [ui EXCEPT !.ctx = @ \ {g}]
  /\ UNCHANGED <<sched, add>>

\* What the user may ask for at any moment the UI thread is free, and what the
\* outside world sends.
UserAction ==
  \/ \E id \in Ids :
       \/ "pause" \in Ops /\ Pause({id})
       \/ \E do \in {"cancel", "delete", "again"} \cap Ops : Stop(do, id)
       \/ "resume" \in Ops /\ Resume(id)
       \/ "history" \in Ops /\ History(id)
  \/ "pauseAll" \in Ops /\ Pause({task[g] : g \in entries})
  \/ "limit" \in Ops /\ \E n \in 0..MaxLimit : SetLimit(n)
  \/ \E g \in Goroutines, to \in {"placing", "discarding"} : Answer(g, to)
  \/ "shutdown" \in Ops /\ Shutdown
  \/ \E id \in Ids, to \in {"start", "schedule"} \cap Ops : AddCreate(id, to)
  \/ Crash

\* The handler the UI thread is in.
UIStep ==
  \/ \E id \in Ids : PauseVisit(id) \/ PauseWrite(id)
  \/ PauseStop \/ PauseReturn
  \/ StopContexts \/ CancelWrite \/ DeleteRemove \/ DeleteRow
  \/ AgainReset \/ AgainClean \/ AgainStart
  \/ \E g \in Goroutines : Settle(g) \/ Discard(g) \/ AnswerReturn(g) \/ ShutdownRelease(g)
  \/ \E id \in Ids : ShutdownStop(id) \/ ShutdownPending(id)
  \/ ShutdownWrite \/ ShutdownReturn \/ Quit

Next ==
  \/ Manager
  \/ \E g \in Goroutines : Worker(g) \/ WorkerEnd(g)
  \/ UserAction
  \/ UIStep
  \/ SchedList \/ SchedStep
  \/ AddStep

\* Goroutines and handlers that are not blocked go on; one that waits for m.mu
\* gets it (sync.Mutex hands over to a waiter that starves).  Nothing says that
\* a server ever finishes a response: a worker whose context is not cancelled
\* may run for ever.
Fairness ==
  /\ WF_allVars(Manager)
  /\ SF_allVars(UIStep) /\ SF_allVars(SchedStep) /\ SF_allVars(AddStep)
  /\ \A g \in Goroutines :
       /\ WF_allVars(Worker(g) /\ (phase[g] = "running" => cancelled[g]))
       /\ SF_allVars(WorkerEnd(g))

Spec == Init /\ [][Next]_allVars
FairSpec == Spec /\ Fairness

-----------------------------------------------------------------------------
(* Properties.                                                             *)

AppTypeOK ==
  /\ TypeOK
  /\ WorkersTypeOK
  /\ ui \in UI
  /\ sched \in [at : SchedAt, id : Ids \cup {NoId}, todo : SUBSET Ids]
  /\ add \in [at : AddAt, id : Ids \cup {NoId}]

\* Whatever the pages, the scheduler and the workers do around it, the manager
\* sees only the calls and the statements its own specification allows; so all
\* that is proved of QueueManager holds in the application.
ImplementsQueueManager == QueueSpec

\* A conflict has one owner: the downloads whose worker ended in one are those in
\* dp.pending, for a button to claim, and those Shutdown has claimed and not yet
\* released, never both; so its slot is released once, and not by a button that
\* comes after the slot has been given to somebody else.
TakenByShutdown ==
  IF ui.do = "shutdown" THEN ui.late \cup (IF ui.at = "release" THEN {ui.id} ELSE {}) ELSE {}
ConflictHasOneOwner ==
  /\ pending \cap TakenByShutdown = {}
  /\ pending \cup TakenByShutdown = {task[g] : g \in {h \in Goroutines : At(h, "prompting")}}

\* When Shutdown has returned, no worker that counts on the wait group is left,
\* not even inside OnDone, and no conflict waits for an answer: the process
\* exits with nobody writing a .part file or moving a finished one.
ShutdownQuiesces ==
  UIAt("shutdown", "closed") =>
    /\ \A g \in Goroutines : ~OnWaitGroup(g)
    /\ entries = {} /\ pending = {}
    /\ op.by # "worker"

\* Shutdown always returns: its wait for the workers cannot be blocked by a
\* worker that waits for the queue, nor by one that registers late.
ShutdownReturns == ui.do = "shutdown" ~> boot = "down"

\* A worker whose context is cancelled gives its slot back, unless its bytes were
\* complete before that and it now waits in a conflict dialog.
CancelReleasesSlot ==
  \A g \in Goroutines : cancelled[g] ~> ~cancelled[g] \/ At(g, "prompting")

\* A completed download has its file at the destination: no path of the worker,
\* of the conflict dialog or of a restart writes "completed" before the move, and
\* none takes the file away afterwards (finalize, promptConflict, MoveFile).
CompletedHasFile ==
  \A id \in Ids : Live(db, id) /\ db[id].status = "completed" => id \in published

\* A row says "downloading" only while its download holds a slot, once a crash has
\* been recovered from and the UI thread is done: no row shows a progress bar that
\* nobody moves (RecoverDownloads, MarkDownloading, the statuses a worker leaves).
DownloadingHasWorker ==
  AppUp /\ ui.do = "none" =>
    \A id \in Ids : Live(db, id) /\ db[id].status = "downloading" => id \in active

-----------------------------------------------------------------------------
(* Statements of the repository that the code does not keep.               *)

\* "Persisted queued items remain queued and can be drained separately"
\* (ReconcileInterrupted): a clean shutdown takes no download off the queue.
QueueSurvivesShutdown == [][shuttingDown => Queued(db) \subseteq Queued(db')]_allVars

\* "CancelDownload cancels a download and sets status to cancelled": no worker
\* starts to fetch a row that is cancelled, its context still alive.
CancelledNeverRuns ==
  [][\A g \in Goroutines :
       At(g, "registered") /\ ~cancelled[g] /\ db[task[g]].status = "cancelled"
         => phase'[g] # "running"]_allVars
=============================================================================
