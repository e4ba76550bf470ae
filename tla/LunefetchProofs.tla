---------------------------- MODULE LunefetchProofs ----------------------------
(***************************************************************************)
(* What the running application guarantees for every number of downloads   *)
(* and goroutines, and everything the user may do.                         *)
(***************************************************************************)
EXTENDS Lunefetch, QueueManagerProofs

-----------------------------------------------------------------------------
(* The application is an environment the manager knows.                    *)

\* A handler that works on a download has one.
HandlerIds ==
  /\ ui.at \in {"stop", "write", "remove", "delete", "reset", "clean", "start", "release"}
       => ui.id \in Ids
  /\ sched.at \in {"unset", "call"} => sched.id \in Ids
  /\ add.at # "none" => add.id \in Ids

AppShape ==
  /\ WorkersTypeOK
  /\ ui \in UI
  /\ sched \in [at : SchedAt, id : Ids \cup {NoId}, todo : SUBSET Ids]
  /\ add \in [at : AddAt, id : Ids \cup {NoId}]
  /\ HandlerIds

\* Before main has recovered, nobody runs.
Booted ==
  /\ MutexFree => op = Idle
  /\ boot # "up" => /\ active = {} /\ op = Idle
                    /\ ui.do = "none" /\ sched.at = "none" /\ add.at = "none"

ManagerInv == TypeOK /\ SlotHasOneOwner /\ Booted

\* A worker runs in an application that is up.
LEMMA WorkersAreUp ==
  ASSUME ManagerInv, NEW g \in Goroutines, task[g] # NoId
  PROVE  boot = "up" /\ task[g] \in Ids
BY DEF ManagerInv, TypeOK, SlotHasOneOwner, TaskIds, Booted

\* A status written by anybody is one of the statements the manager expects.
LEMMA StatusIsExternal ==
  ASSUME boot = "up", UNCHANGED queueVars, NEW id \in Ids, NEW s \in Status \ {"queued"},
         db' = UpdateDownloadStatus(db, id, s)
  PROVE  QueueNext
BY LunefetchAssumption DEF QueueNext, External, ExternalStatement

\* The same for a start time that is set or cleared.
LEMMA TimeIsExternal ==
  ASSUME boot = "up", UNCHANGED queueVars, NEW id \in Ids, NEW b \in BOOLEAN,
         db' = SetScheduledAt(db, id, b)
  PROVE  QueueNext
BY LunefetchAssumption DEF QueueNext, External, ExternalStatement

\* The same for rows that are created, deleted, restored and purged.
LEMMA RowIsExternal ==
  ASSUME boot = "up", UNCHANGED queueVars, NEW id \in Ids,
         \/ db[id].life = "none" /\ db' = CreateDownloadWithChunks(db, id)
         \/ db' = DeleteDownload(db, id)
         \/ db' = RestoreDownload(db, id)
         \/ db' = PurgeDownload(db, id)
         \/ db' = ResetProgress(db, id, "pending")
  PROVE  QueueNext
BY LunefetchAssumption DEF QueueNext, External, ExternalStatement

\* A call of the manager from a handler that runs.
LEMMA CallIsExpected ==
  ASSUME ManagerInv, boot = "up", MutexFree, NEW id \in Ids,
         \/ \E c \in {"ui", "add"} : TryStart(id, c)
         \/ Remove(id)
         \/ EnqueueScheduled(id, "scheduler")
  PROVE  QueueNext
<1>1. op.by # "main"
  BY DEF ManagerInv, Booted, Idle
<1>2. CallManager
  BY <1>1, LunefetchAssumption DEF CallManager
<1>3. QED
  BY <1>2 DEF QueueNext

\* A slot given back on behalf of a goroutine.
LEMMA ReleaseIsExpected ==
  ASSUME NEW g \in Goroutines, task[g] # NoId, NEW c \in {"worker", "starter", "ui"},
         Release(g, c)
  PROVE  QueueNext
BY DEF Release, GoroutineEnds, QueueNext

\* What a worker does is a step of the manager's environment, or none.
LEMMA WorkerIsExpected ==
  ASSUME ManagerInv, NEW g \in Goroutines,
         Worker(g) \/ WorkerEnd(g) \/ Discard(g) \/ Settle(g)
  PROVE  QueueNext \/ UNCHANGED vars
<1>1. ASSUME NEW from, NEW s \in Status \ {"queued"}, NEW to, WriteStatus(g, from, s, to)
      PROVE  QueueNext
  BY <1>1, WorkersAreUp, StatusIsExternal DEF WriteStatus, At
<1>2. CASE Worker(g)
  <2>1. CASE EarlyFail(g) \/ Announce(g) \/ Complete(g) \/ Fail(g) \/ LeaveResumable(g)
    BY <1>1, <2>1 DEF EarlyFail, Announce, Complete, Fail, LeaveResumable, Status
  <2>2. CASE \/ Load(g) \/ Register(g) \/ Fetch(g) \/ Return(g) \/ Unregister(g)
             \/ MoveFile(g) \/ Conflict(g)
    BY <2>2 DEF Load, Register, Fetch, Return, Unregister, MoveFile, Conflict
  <2>3. QED
    BY <1>2, <2>1, <2>2 DEF Worker, WorkerStep
<1>3. CASE WorkerEnd(g)
  BY <1>3, ReleaseIsExpected DEF WorkerEnd, End, At
<1>4. CASE Discard(g)
  BY <1>1, <1>4 DEF Discard, Status
<1>5. CASE Settle(g)
  BY <1>5 DEF Settle
<1>6. QED
  BY <1>2, <1>3, <1>4, <1>5

\* So is what the user begins,
LEMMA UserIsExpected ==
  ASSUME ManagerInv, AppShape, UserAction
  PROVE  QueueNext \/ UNCHANGED vars
<1>1. ASSUME NEW ids, Pause(ids) PROVE UNCHANGED vars
  BY <1>1 DEF Pause, UILooks
<1>2. ASSUME NEW do, NEW id, Stop(do, id) PROVE UNCHANGED vars
  BY <1>2 DEF Stop, UILooks
<1>3. ASSUME NEW id \in Ids, Resume(id) PROVE QueueNext
  BY <1>3, CallIsExpected DEF Resume, UIFree, AppUp, TryStart
<1>4. ASSUME NEW id \in Ids, History(id) PROVE QueueNext
  BY <1>4, RowIsExternal DEF History, UIFree, AppUp
<1>5. ASSUME NEW n \in 0..MaxLimit, SetLimit(n) PROVE QueueNext
  <2>1. CallManager
    BY <1>5 DEF SetLimit, UIFree, AppUp, CallManager
  <2>2. QED
    BY <2>1 DEF QueueNext
<1>6. ASSUME NEW g, NEW to, Answer(g, to) PROVE UNCHANGED vars
  BY <1>6 DEF Answer
<1>7. CASE Shutdown
  BY <1>7 DEF Shutdown
<1>8. ASSUME NEW id \in Ids, NEW to, AddCreate(id, to) PROVE QueueNext
  <2>1. db[id].life = "none"
    BY <1>8, StorageAssumption DEF AddCreate
  <2>2. QED
    BY <1>8, <2>1, RowIsExternal DEF AddCreate, AppUp
<1>9. CASE Crash
  BY <1>9, LunefetchAssumption DEF Crash, Exit, QueueNext
<1>10. QED
  BY <1>1, <1>2, <1>3, <1>4, <1>5, <1>6, <1>7, <1>8, <1>9 DEF UserAction

\* and every later step of the UI thread,
LEMMA UIIsExpected ==
  ASSUME ManagerInv, AppShape, UIStep
  PROVE  QueueNext \/ UNCHANGED vars
<1>0. ui.do # "none" => boot = "up"
  BY DEF ManagerInv, Booted
<1>1. ASSUME boot = "up", NEW id \in Ids, NEW s \in {"paused", "cancelled"}, UIWrites(id, s)
      PROVE  QueueNext
  BY <1>1, StatusIsExternal DEF UIWrites, Status
<1>2. CASE \E id \in Ids : PauseVisit(id) \/ PauseWrite(id)
  BY <1>0, <1>1, <1>2 DEF PauseVisit, PauseWrite, UIAt, UILooks
<1>3. CASE PauseStop \/ PauseReturn \/ StopContexts \/ AgainClean \/ ShutdownReturn
  BY <1>3 DEF PauseStop, PauseReturn, StopContexts, AgainClean, ShutdownReturn,
              CancelContexts, UILooks
<1>4. CASE CancelWrite \/ ShutdownWrite
  BY <1>0, <1>1, <1>4 DEF CancelWrite, ShutdownWrite, AppShape, HandlerIds, UIAt
<1>5. CASE DeleteRemove \/ AgainStart
  BY <1>0, <1>5, CallIsExpected
  DEF DeleteRemove, AgainStart, Remove, TryStart, AppShape, HandlerIds, UIAt
<1>6. CASE DeleteRow \/ AgainReset
  BY <1>0, <1>6, RowIsExternal DEF DeleteRow, AgainReset, AppShape, HandlerIds, UIAt
<1>7. ASSUME NEW g \in Goroutines,
             Settle(g) \/ Discard(g) \/ AnswerReturn(g) \/ ShutdownRelease(g)
      PROVE  QueueNext \/ UNCHANGED vars
  BY <1>7, WorkerIsExpected, ReleaseIsExpected DEF AnswerReturn, ShutdownRelease, At
<1>8. CASE \E id \in Ids : ShutdownStop(id) \/ ShutdownPending(id)
  BY <1>0, <1>1, <1>8 DEF ShutdownStop, ShutdownPending, UIAt, CancelContexts
<1>9. CASE Quit
  BY <1>9, LunefetchAssumption DEF Quit, Exit, QueueNext
<1>10. QED
  BY <1>2, <1>3, <1>4, <1>5, <1>6, <1>7, <1>8, <1>9 DEF UIStep

\* the scheduler and HandleAdd.
LEMMA OthersAreExpected ==
  ASSUME ManagerInv, AppShape, SchedList \/ SchedStep \/ AddStep
  PROVE  QueueNext \/ UNCHANGED vars
<1>0. sched.at # "none" \/ add.at # "none" => boot = "up"
  BY DEF ManagerInv, Booted
<1>1. CASE SchedList
  BY <1>1 DEF SchedList
<1>2. ASSUME NEW id \in Ids, SchedPending(id) PROVE QueueNext
  BY <1>0, <1>2, StatusIsExternal DEF SchedPending, Status
<1>3. CASE SchedUnset
  BY <1>0, <1>3, TimeIsExternal DEF SchedUnset, AppShape, HandlerIds
<1>4. CASE SchedCall
  BY <1>0, <1>4, CallIsExpected DEF SchedCall, EnqueueScheduled, AppShape, HandlerIds
<1>5. CASE AddStart
  BY <1>0, <1>5, CallIsExpected DEF AddStart, TryStart, AppShape, HandlerIds
<1>6. CASE AddSchedule
  BY <1>0, <1>6, StatusIsExternal DEF AddSchedule, AppShape, HandlerIds, Status
<1>7. CASE AddSetTime
  BY <1>0, <1>7, TimeIsExternal DEF AddSetTime, AppShape, HandlerIds
<1>8. QED
  BY <1>1, <1>2, <1>3, <1>4, <1>5, <1>6, <1>7 DEF SchedStep, AddStep

\* Every step of the application is one the manager expects of its callers.
LEMMA StepIsExpected ==
  ASSUME ManagerInv, AppShape, [Next]_allVars
  PROVE  [QueueNext]_vars
<1>1. CASE Manager
  BY <1>1 DEF Manager, QueueNext
<1>2. CASE UNCHANGED allVars
  BY <1>2 DEF allVars
<1>3. QED
  BY <1>1, <1>2, WorkerIsExpected, UserIsExpected, UIIsExpected, OthersAreExpected DEF Next

-----------------------------------------------------------------------------
(* Type correctness, and the registry of the workers.                      *)

\* A goroutine that answers for nothing is a new one, and dp.active holds exactly
\* the workers between registration and the return of Start.
WorkerInv ==
  /\ \A g \in Goroutines : task[g] = NoId => phase[g] = "spawned"
  /\ EntriesAreWorkers

AppInv == ManagerInv /\ AppShape /\ WorkerInv

\* A method ends idle, and the manager runs nothing before it is up.
LEMMA QueueBooted ==
  ASSUME TypeOK, SlotHasOneOwner, [QueueNext]_vars,
         MutexFree => op = Idle, boot # "up" => active = {} /\ op = Idle
  PROVE  /\ MutexFree' => op' = Idle
         /\ boot' # "up" => active' = {} /\ op' = Idle
<1> USE DEF MutexFree
<1>1. CASE Reconcile
  BY <1>1 DEF Reconcile
<1>2. CASE Drain
  BY <1>2 DEF Drain
<1>3. ASSUME NEW id \in Ids, NEW c, boot = "up", TryStart(id, c) \/ EnqueueScheduled(id, c)
      PROVE  boot' = "up" /\ (op'.at = "idle" => op' = Idle)
  <2>1. Place(id, c) => op'.at \in {"mark", "enqueue"}
    BY DEF Place
  <2>2. UNCHANGED boot /\ (Place(id, c) \/ UNCHANGED op)
    BY <1>3 DEF TryStart, EnqueueScheduled
  <2>3. QED
    BY <1>3, <2>1, <2>2
<1>4. CASE CallManager
  BY <1>3, <1>4 DEF CallManager, Remove, SetMaxConcurrent, queueVars
<1>5. CASE Mark
  <2>1. boot' = "up"
    BY <1>5 DEF Mark, Idle
  <2>2. op' = Idle \/ op'.at = "drain"
    BY <1>5 DEF Mark, TypeOK, Op
  <2>3. QED
    BY <2>1, <2>2
<1>6. CASE Enqueue \/ Put
  <2>1. boot' = "up"
    BY <1>6 DEF Enqueue, Put, Idle
  <2>2. op' = Idle \/ op'.at = "put"
    BY <1>6 DEF Enqueue, Put, TypeOK, Op
  <2>3. QED
    BY <2>1, <2>2
<1>7. CASE DrainStart \/ DrainSkip \/ DrainReturn
  <2>1. op.at = "drain" /\ boot' = boot
    BY <1>7 DEF DrainStart, DrainSkip, DrainReturn
  <2>2. op' = Idle \/ op'.at \in {"mark", "drain"}
    BY <1>7 DEF DrainStart, DrainSkip, DrainReturn, TypeOK, Op
  <2>3. QED
    BY <2>1, <2>2 DEF Idle
<1>8. ASSUME NEW g \in Goroutines, GoroutineEnds(g)
      PROVE  boot' = "up" /\ (op'.at = "idle" => op' = Idle)
  <2>1. task[g] \in active
    BY <1>8 DEF GoroutineEnds, SlotHasOneOwner, TaskIds
  <2>2. QED
    BY <1>8, <2>1 DEF GoroutineEnds, OnDone
<1>9. CASE External \/ UNCHANGED vars
  BY <1>9 DEF External, vars, queueVars
<1>10. CASE ProcessEnds
  BY <1>10 DEF ProcessEnds
<1>11. QED
  BY <1>1, <1>2, <1>4, <1>5, <1>6, <1>7, <1>8, <1>9, <1>10 DEF QueueNext, ManagerStep

\* The workers keep their shapes, and touch no handler but its list of contexts.
LEMMA WorkerShape ==
  ASSUME AppInv, NEW g \in Goroutines,
         \/ Worker(g) \/ WorkerEnd(g) \/ Settle(g) \/ Discard(g)
         \/ AnswerReturn(g) \/ ShutdownRelease(g)
  PROVE  WorkersTypeOK'
<1> USE DEF AppInv, AppShape, WorkersTypeOK
<1>0. task[g] \in Ids
  BY WorkersAreUp DEF Worker, WorkerEnd, WorkerStep, Load, EarlyFail, Register, Announce, Fetch,
     Return, Unregister, MoveFile, Complete, Fail, Conflict, LeaveResumable, End, WriteStatus,
     Settle, Discard, AnswerReturn, ShutdownRelease, At
<1>1. \A to \in Phases : Goto(g, to) => phase' \in [Goroutines -> Phases]
  BY DEF Goto
<1>2. ASSUME NEW from, NEW s, NEW to \in Phases, WriteStatus(g, from, s, to)
      PROVE  WorkersTypeOK'
  BY <1>1, <1>2 DEF WriteStatus
<1>3. CASE EarlyFail(g) \/ Announce(g) \/ Complete(g) \/ Fail(g) \/ LeaveResumable(g) \/ Discard(g)
  BY <1>2, <1>3 DEF EarlyFail, Announce, Complete, Fail, LeaveResumable, Discard,
                    Phases, Starters, Registered, Finalizing
<1>4. CASE Load(g) \/ Register(g) \/ Fetch(g) \/ Return(g) \/ Unregister(g)
  BY <1>1, <1>4 DEF Load, Register, Fetch, Return, Unregister,
                    Phases, Starters, Registered, Finalizing
<1>5. CASE MoveFile(g) \/ Conflict(g) \/ Settle(g)
  BY <1>0, <1>1, <1>5 DEF MoveFile, Conflict, Settle, Phases, Finalizing, Prompts
<1>6. ASSUME NEW c, Release(g, c), UNCHANGED <<entries, pending, shuttingDown, published>>
      PROVE  WorkersTypeOK'
  BY <1>1, <1>6 DEF Release, Phases, Starters
<1>7. CASE WorkerEnd(g) \/ AnswerReturn(g) \/ ShutdownRelease(g)
  BY <1>6, <1>7 DEF WorkerEnd, End, AnswerReturn, ShutdownRelease
<1>8. QED
  BY <1>3, <1>4, <1>5, <1>7 DEF Worker, WorkerStep

\* The handlers keep theirs.
HandlersOK ==
  /\ ui \in UI
  /\ sched \in [at : SchedAt, id : Ids \cup {NoId}, todo : SUBSET Ids]
  /\ add \in [at : AddAt, id : Ids \cup {NoId}]
  /\ HandlerIds

\* The resting handlers have the shape of handlers.
LEMMA NoHandlerOK ==
  /\ NoUI \in UI
  /\ NoUI.at = "none"
  /\ NoSched \in [at : SchedAt, id : Ids \cup {NoId}, todo : SUBSET Ids]
  /\ NoAdd \in [at : AddAt, id : Ids \cup {NoId}]
BY DEF NoUI, UI, Handlers, Steps, NoSched, SchedAt, NoAdd, AddAt

\* A step of the UI thread alone.
LEMMA UIMoves ==
  ASSUME HandlersOK, UNCHANGED <<sched, add>>, ui' \in UI,
         ui'.at \in {"none", "visit", "closed"} \/ ui'.id \in Ids
  PROVE  HandlersOK'
BY DEF HandlersOK, HandlerIds

\* The end of the process leaves no handler and no worker behind.
LEMMA ExitShape ==
  ASSUME WorkersTypeOK, Exit
  PROVE  HandlersOK' /\ WorkersTypeOK'
<1>1. HandlersOK'
  BY NoHandlerOK DEF Exit, HandlersOK, HandlerIds, NoSched, NoAdd
<1>2. WorkersTypeOK'
  BY DEF Exit, WorkersTypeOK, Phases, Starters
<1>3. QED
  BY <1>1, <1>2

\* The downloads of registered workers.
LEMMA EntriesHaveTasks ==
  ASSUME AppInv, NEW g \in entries
  PROVE  g \in Goroutines /\ task[g] \in Ids
BY WorkersAreUp DEF AppInv, AppShape, WorkersTypeOK, WorkerInv, EntriesAreWorkers

\* What the user begins keeps the shape of handlers and workers.
LEMMA UserShape ==
  ASSUME AppInv, UserAction
  PROVE  HandlersOK' /\ WorkersTypeOK'
<1>0. /\ HandlersOK /\ WorkersTypeOK
      /\ entries \subseteq Goroutines /\ {task[g] : g \in entries} \subseteq Ids /\ pending \subseteq Ids
  BY EntriesHaveTasks DEF AppInv, AppShape, HandlersOK, WorkersTypeOK
<1>1. ASSUME NEW ids \in SUBSET Ids, Pause(ids) PROVE HandlersOK' /\ WorkersTypeOK'
  <2>1. ui' \in UI /\ ui'.at = "visit"
    BY <1>1 DEF Pause, NoUI, UI, Handlers, Steps
  <2>2. UNCHANGED workerVars /\ UNCHANGED <<sched, add>>
    BY <1>1 DEF Pause, UILooks
  <2>3. QED
    BY <1>0, <2>1, <2>2, UIMoves DEF workerVars, WorkersTypeOK
<1>2. ASSUME NEW do \in {"cancel", "delete", "again"}, NEW id \in Ids, Stop(do, id)
      PROVE  HandlersOK' /\ WorkersTypeOK'
  <2>1. Entry(id) \in SUBSET Goroutines
    BY <1>0 DEF Entry
  <2>2. ui' \in UI /\ ui'.id = id
    BY <1>2, <2>1 DEF Stop, NoUI, UI, Handlers, Steps
  <2>3. UNCHANGED workerVars /\ UNCHANGED <<sched, add>>
    BY <1>2 DEF Stop, UILooks
  <2>4. QED
    BY <1>0, <2>2, <2>3, UIMoves DEF workerVars, WorkersTypeOK
<1>3. ASSUME \/ \E id \in Ids : Resume(id) \/ History(id)
             \/ \E n \in 0..MaxLimit : SetLimit(n)
      PROVE  HandlersOK' /\ WorkersTypeOK'
  <2>1. UNCHANGED <<workerVars, appVars>>
    BY <1>3 DEF Resume, History, SetLimit
  <2>2. QED
    BY <1>0, <2>1 DEF appVars, workerVars, WorkersTypeOK, HandlersOK, HandlerIds
<1>4. ASSUME NEW g \in Goroutines, NEW to \in {"placing", "discarding"}, Answer(g, to)
      PROVE  HandlersOK' /\ WorkersTypeOK'
  <2>1. ui' \in UI /\ ui'.at = "none" /\ UNCHANGED <<sched, add>>
    BY <1>4 DEF Answer, NoUI, UI, Handlers, Steps
  <2>2. phase' \in [Goroutines -> Phases]
    BY <1>0, <1>4 DEF Answer, Goto, WorkersTypeOK, Phases, Prompts
  <2>3. UNCHANGED <<cancelled, entries, shuttingDown, published>> /\ pending' \subseteq pending
    BY <1>4 DEF Answer
  <2>4. QED
    BY <1>0, <2>1, <2>2, <2>3, UIMoves DEF WorkersTypeOK
<1>5. CASE Shutdown
  <2>1. ui' \in UI /\ ui'.at = "visit"
    BY <1>0, <1>5 DEF Shutdown, NoUI, UI, Handlers, Steps
  <2>2. UNCHANGED <<sched, add>> /\ WorkersTypeOK'
    BY <1>0, <1>5 DEF Shutdown, WorkersTypeOK
  <2>3. QED
    BY <1>0, <2>1, <2>2, UIMoves
<1>6. ASSUME NEW id \in Ids, NEW to \in {"start", "schedule"}, AddCreate(id, to)
      PROVE  HandlersOK' /\ WorkersTypeOK'
  <2>1. UNCHANGED <<workerVars, ui, sched>> /\ add' = [at |-> to, id |-> id]
    BY <1>6 DEF AddCreate
  <2>2. QED
    BY <1>0, <2>1 DEF AddAt, workerVars, WorkersTypeOK, HandlersOK, HandlerIds
<1>7. QED
  <2>1. ASSUME NEW id \in Ids, Pause({id}) PROVE HandlersOK' /\ WorkersTypeOK'
    BY <1>1, <2>1
  <2>2. CASE Pause({task[g] : g \in entries})
    BY <1>0, <1>1, <2>2
  <2>3. CASE Crash
    BY <1>0, <2>3, ExitShape DEF Crash
  <2>4. QED
    BY <1>2, <1>3, <1>4, <1>5, <1>6, <2>1, <2>2, <2>3 DEF UserAction

\* So does each step of the handler the UI thread is in.
LEMMA UIShape ==
  ASSUME AppInv, UIStep
  PROVE  HandlersOK' /\ WorkersTypeOK'
<1> DEFINE Fine == ui' \in UI /\ (ui'.at \in {"none", "visit", "closed"} \/ ui'.id \in Ids)
<1>0. /\ HandlersOK /\ WorkersTypeOK /\ ui \in UI
      /\ ui.at \in {"stop", "write", "remove", "delete", "reset", "clean", "start", "release"}
           => ui.id \in Ids
      /\ \A id \in Ids : Entry(id) \in SUBSET Goroutines
  BY DEF AppInv, AppShape, HandlersOK, HandlerIds, WorkersTypeOK, Entry
<1>1. ASSUME NEW gs, CancelContexts(gs), Fine PROVE HandlersOK' /\ WorkersTypeOK'
  <2>1. WorkersTypeOK' /\ UNCHANGED <<sched, add>>
    BY <1>0, <1>1 DEF CancelContexts, WorkersTypeOK
  <2>2. QED
    BY <1>0, <1>1, <2>1, UIMoves
<1>2. ASSUME UNCHANGED workerVars, UNCHANGED <<sched, add>>, Fine PROVE HandlersOK' /\ WorkersTypeOK'
  BY <1>0, <1>2, UIMoves DEF workerVars, WorkersTypeOK
<1>3. ASSUME NEW id \in Ids, PauseVisit(id) PROVE HandlersOK' /\ WorkersTypeOK'
  <2>1. Fine
    BY <1>0, <1>3 DEF PauseVisit, UI, Steps
  <2>2. QED
    BY <1>2, <1>3, <2>1 DEF PauseVisit, UILooks
<1>4. ASSUME NEW id \in Ids, PauseWrite(id) PROVE HandlersOK' /\ WorkersTypeOK'
  <2>1. Fine
    BY <1>0, <1>4 DEF PauseWrite, UIAt, UI
  <2>2. QED
    BY <1>2, <1>4, <2>1 DEF PauseWrite, UIWrites
<1>5. CASE PauseStop
  <2>1. Fine
    BY <1>0, <1>5 DEF PauseStop, UIAt, UI, Steps
  <2>2. QED
    BY <1>1, <1>5, <2>1 DEF PauseStop
<1>6. CASE StopContexts
  <2>1. Fine
    BY <1>0, <1>6 DEF StopContexts, UI, Steps
  <2>2. QED
    BY <1>1, <1>6, <2>1 DEF StopContexts
<1>7. CASE CancelWrite
  <2>1. Fine
    BY <1>0, <1>7, NoHandlerOK DEF CancelWrite, UI, Steps
  <2>2. QED
    BY <1>2, <1>7, <2>1 DEF CancelWrite, UIWrites
<1>8. CASE DeleteRemove \/ AgainReset
  <2>1. Fine
    BY <1>0, <1>8, NoHandlerOK DEF DeleteRemove, AgainReset, UIAt, UI, Steps
  <2>2. QED
    BY <1>2, <1>8, <2>1 DEF DeleteRemove, AgainReset
<1>9. CASE PauseReturn \/ DeleteRow \/ AgainStart
  <2>1. Fine
    BY <1>9, NoHandlerOK DEF PauseReturn, DeleteRow, AgainStart
  <2>2. QED
    BY <1>2, <1>9, <2>1 DEF PauseReturn, DeleteRow, AgainStart, UILooks
<1>10. CASE AgainClean
  <2>1. Fine
    BY <1>0, <1>10, NoHandlerOK DEF AgainClean, UIAt, UI, Steps
  <2>2. UNCHANGED <<sched, add, phase, cancelled, entries, pending, shuttingDown>>
    BY <1>10 DEF AgainClean
  <2>3. published' \subseteq published
    BY <1>10 DEF AgainClean
  <2>4. QED
    BY <1>0, <2>1, <2>2, <2>3, UIMoves DEF WorkersTypeOK
<1>11. ASSUME NEW g \in Goroutines, Settle(g) \/ Discard(g) PROVE HandlersOK' /\ WorkersTypeOK'
  <2>1. UNCHANGED <<ui, sched, add>>
    BY <1>11 DEF Settle, Discard, appVars
  <2>2. QED
    BY <1>0, <1>11, <2>1, WorkerShape DEF HandlersOK, HandlerIds
<1>12. ASSUME NEW g \in Goroutines, AnswerReturn(g) PROVE HandlersOK' /\ WorkersTypeOK'
  <2>1. Fine /\ UNCHANGED <<sched, add>>
    BY <1>12, NoHandlerOK DEF AnswerReturn
  <2>2. QED
    BY <1>0, <1>12, <2>1, UIMoves, WorkerShape
<1>13. ASSUME NEW g \in Goroutines, ShutdownRelease(g) PROVE HandlersOK' /\ WorkersTypeOK'
  <2>1. Fine /\ UNCHANGED <<sched, add>>
    BY <1>0, <1>13 DEF ShutdownRelease, UI, Steps
  <2>2. QED
    BY <1>0, <1>13, <2>1, UIMoves, WorkerShape
<1>14. ASSUME NEW id \in Ids, ShutdownStop(id) PROVE HandlersOK' /\ WorkersTypeOK'
  <2>1. Fine
    BY <1>0, <1>14 DEF ShutdownStop, UI, Steps
  <2>2. QED
    BY <1>1, <1>14, <2>1 DEF ShutdownStop
<1>15. ASSUME NEW id \in Ids, ShutdownPending(id) PROVE HandlersOK' /\ WorkersTypeOK'
  <2>1. Fine
    BY <1>0, <1>15 DEF ShutdownPending, UI, Steps
  <2>2. QED
    BY <1>2, <1>15, <2>1 DEF ShutdownPending, UIWrites
<1>16. CASE ShutdownWrite
  <2>1. Fine
    BY <1>0, <1>16 DEF ShutdownWrite, UI, Steps
  <2>2. QED
    BY <1>2, <1>16, <2>1 DEF ShutdownWrite, UIWrites
<1>17. CASE ShutdownReturn
  <2>1. Fine
    BY <1>17 DEF ShutdownReturn, NoUI, UI, Handlers, Steps
  <2>2. QED
    BY <1>2, <1>17, <2>1 DEF ShutdownReturn, UILooks
<1>18. QED
  BY <1>3, <1>4, <1>5, <1>6, <1>7, <1>8, <1>9, <1>10, <1>11, <1>12, <1>13, <1>14, <1>15, <1>16,
     <1>17, <1>0, ExitShape DEF UIStep, Quit

\* The scheduler and HandleAdd.
LEMMA OthersShape ==
  ASSUME AppInv, SchedList \/ SchedStep \/ AddStep
  PROVE  HandlersOK' /\ WorkersTypeOK'
<1>0. HandlersOK /\ WorkersTypeOK
  BY DEF AppInv, AppShape, HandlersOK
<1>1. UNCHANGED <<workerVars, ui>>
  BY DEF SchedList, SchedStep, SchedPending, SchedUnset, SchedCall, AddStep, AddStart,
         AddSchedule, AddSetTime
<1>2. CASE SchedList \/ SchedStep
  <2> DEFINE Fine == /\ sched' \in [at : SchedAt, id : Ids \cup {NoId}, todo : SUBSET Ids]
                     /\ sched'.at \in {"unset", "call"} => sched'.id \in Ids
  <2>1. UNCHANGED add
    BY <1>2 DEF SchedList, SchedStep, SchedPending, SchedUnset, SchedCall
  <2>2. ASSUME SchedList PROVE Fine
    <3>1. PICK due \in SUBSET ScheduledDue(db) : sched' = [NoSched EXCEPT !.at = "next", !.todo = due]
      BY <2>2 DEF SchedList
    <3>2. due \in SUBSET Ids
      BY DEF ScheduledDue
    <3>3. QED
      BY <3>1, <3>2 DEF NoSched, SchedAt
  <2>3. ASSUME SchedStep PROVE Fine
    <3>1. /\ sched \in [at : SchedAt, id : Ids \cup {NoId}, todo : SUBSET Ids]
          /\ sched.at \in {"unset", "call"} => sched.id \in Ids
      BY <1>0 DEF HandlersOK, HandlerIds
    <3>2. ASSUME NEW id \in Ids, SchedPending(id) PROVE Fine
      <4>1. sched' = [at |-> "unset", id |-> id, todo |-> sched.todo \ {id}]
        BY <3>2 DEF SchedPending
      <4>2. sched.todo \ {id} \in SUBSET Ids
        BY <3>1
      <4>3. QED
        BY <4>1, <4>2 DEF SchedAt
    <3>3. CASE SchedUnset
      <4>1. sched' = [sched EXCEPT !.at = "call"] /\ sched.id \in Ids
        BY <3>1, <3>3 DEF SchedUnset
      <4>2. QED
        BY <3>1, <4>1 DEF SchedAt
    <3>4. CASE SchedCall
      <4>1. sched' = NoSched \/ sched' = [sched EXCEPT !.at = "next", !.id = NoId]
        BY <3>4 DEF SchedCall
      <4>2. NoSched.at = "none"
        BY DEF NoSched
      <4>3. ASSUME sched' = [sched EXCEPT !.at = "next", !.id = NoId] PROVE Fine
        BY <3>1, <4>3 DEF SchedAt
      <4>4. QED
        BY <4>1, <4>2, <4>3, NoHandlerOK
    <3>5. QED
      BY <2>3, <3>2, <3>3, <3>4 DEF SchedStep
  <2>4. Fine
    BY <1>2, <2>2, <2>3
  <2>5. QED
    BY <1>0, <1>1, <2>1, <2>4 DEF workerVars, WorkersTypeOK, HandlersOK, HandlerIds
<1>3. CASE AddStep
  <2>1. UNCHANGED sched
    BY <1>3 DEF AddStep, AddStart, AddSchedule, AddSetTime
  <2>2. /\ add' \in [at : AddAt, id : Ids \cup {NoId}]
        /\ add'.at # "none" => add'.id \in Ids
    <3>1. /\ add \in [at : AddAt, id : Ids \cup {NoId}]
          /\ add.at # "none" => add.id \in Ids
      BY <1>0 DEF HandlersOK, HandlerIds
    <3>2. CASE AddSchedule
      BY <3>1, <3>2 DEF AddSchedule, AddAt
    <3>3. CASE AddStart \/ AddSetTime
      <4>1. add' = NoAdd
        BY <3>3 DEF AddStart, AddSetTime
      <4>2. QED
        BY <4>1 DEF NoAdd, AddAt
    <3>4. QED
      BY <1>3, <3>2, <3>3 DEF AddStep
  <2>3. QED
    BY <1>0, <1>1, <2>1, <2>2 DEF workerVars, WorkersTypeOK, HandlersOK, HandlerIds
<1>4. QED
  BY <1>2, <1>3

\* Every step keeps the shape of handlers and workers.
LEMMA ShapePreserved == AppInv /\ [Next]_allVars => AppShape'
<1> SUFFICES ASSUME AppInv, [Next]_allVars PROVE HandlersOK' /\ WorkersTypeOK'
  BY DEF AppShape, HandlersOK
<1>0. HandlersOK /\ WorkersTypeOK
  BY DEF AppInv, AppShape, HandlersOK
<1>1. CASE UNCHANGED <<workerVars, appVars>>
  BY <1>0, <1>1 DEF workerVars, appVars, WorkersTypeOK, HandlersOK, HandlerIds
<1>2. ASSUME NEW g \in Goroutines, Worker(g) PROVE HandlersOK' /\ WorkersTypeOK'
  <2>1. UNCHANGED <<ui, sched, add>>
    BY <1>2 DEF Worker, appVars
  <2>2. QED
    BY <1>0, <1>2, <2>1, WorkerShape DEF HandlersOK, HandlerIds
<1>3. ASSUME NEW g \in Goroutines, WorkerEnd(g) PROVE HandlersOK' /\ WorkersTypeOK'
  <2>1. ui' \in UI /\ ui'.at = ui.at /\ ui'.id = ui.id /\ UNCHANGED <<sched, add>>
    BY <1>0, <1>3 DEF WorkerEnd, HandlersOK, UI
  <2>2. QED
    BY <1>0, <1>3, <2>1, WorkerShape DEF HandlersOK, HandlerIds
<1>4. QED
  BY <1>1, <1>2, <1>3, UserShape, UIShape, OthersShape DEF Next, Manager, allVars

\* Only main acts in an application that is not up; the others leave it up, or end it.
LEMMA OnlyMainBoots ==
  ASSUME AppInv, Next
  PROVE  Manager \/ Exit \/ (boot = "up" /\ boot' = "up")
<1>1. ASSUME NEW g \in Goroutines, \/ Worker(g) \/ WorkerEnd(g) \/ Settle(g) \/ Discard(g)
                                  \/ AnswerReturn(g) \/ ShutdownRelease(g)
      PROVE  boot = "up" /\ boot' = "up"
  <2>1. boot' = boot
    BY <1>1 DEF Worker, WorkerEnd, WorkerStep, Load, EarlyFail, Register, Announce, Fetch, Return,
       Unregister, MoveFile, Complete, Fail, Conflict, LeaveResumable, End, WriteStatus, Settle,
       Discard, AnswerReturn, ShutdownRelease, Release, OnDone, vars, queueVars
  <2>2. task[g] # NoId
    BY <1>1 DEF Worker, WorkerEnd, WorkerStep, Load, EarlyFail, Register, Announce, Fetch, Return,
       Unregister, MoveFile, Complete, Fail, Conflict, LeaveResumable, End, WriteStatus, Settle,
       Discard, AnswerReturn, ShutdownRelease, At
  <2>3. QED
    BY <2>1, <2>2, WorkersAreUp DEF AppInv
<1>2. CASE UserAction
  BY <1>2 DEF UserAction, Pause, Stop, Resume, History, SetLimit, Answer, Shutdown, AddCreate, Crash,
     UIFree, AppUp, UILooks, TryStart, SetMaxConcurrent, vars, queueVars
<1>3. CASE UIStep
  <2>1. ui.do # "none" => boot = "up"
    BY DEF AppInv, ManagerInv, Booted
  <2>2. CASE \/ \E id \in Ids : PauseVisit(id) \/ PauseWrite(id)
             \/ PauseStop \/ PauseReturn \/ StopContexts \/ CancelWrite
    BY <2>1, <2>2 DEF PauseVisit, PauseWrite, PauseStop, PauseReturn, StopContexts, CancelWrite,
       UIAt, UILooks, UIWrites, CancelContexts, vars, queueVars
  <2>3. CASE DeleteRemove \/ DeleteRow \/ AgainReset \/ AgainClean \/ AgainStart
    BY <2>1, <2>3 DEF DeleteRemove, DeleteRow, AgainReset, AgainClean, AgainStart, UIAt, Remove,
       TryStart, vars, queueVars
  <2>4. CASE \/ \E id \in Ids : ShutdownStop(id) \/ ShutdownPending(id)
             \/ ShutdownWrite \/ ShutdownReturn
    BY <2>1, <2>4 DEF ShutdownStop, ShutdownPending, ShutdownWrite, ShutdownReturn,
       UIAt, UILooks, UIWrites, CancelContexts, vars, queueVars
  <2>5. QED
    BY <1>1, <1>3, <2>2, <2>3, <2>4 DEF UIStep, Quit
<1>4. CASE SchedList \/ SchedStep \/ AddStep
  <2>1. sched.at # "none" \/ add.at # "none" => boot = "up"
    BY DEF AppInv, ManagerInv, Booted
  <2>2. QED
    BY <1>4, <2>1 DEF SchedList, SchedStep, SchedPending, SchedUnset, SchedCall, AddStep, AddStart,
       AddSchedule, AddSetTime, AppUp, EnqueueScheduled, TryStart, vars, queueVars
<1>5. QED
  BY <1>1, <1>2, <1>3, <1>4 DEF Next

\* No step finds a method or a slot in a process that has not recovered.
LEMMA BootedPreserved == AppInv /\ [Next]_allVars => Booted'
<1> SUFFICES ASSUME AppInv, [Next]_allVars PROVE Booted'
  OBVIOUS
<1>1. [QueueNext]_vars
  BY StepIsExpected DEF AppInv
<1>2. MutexFree' => op' = Idle
  BY <1>1, QueueBooted DEF AppInv, ManagerInv, Booted
<1>3. boot' # "up" => active' = {} /\ op' = Idle
  BY <1>1, QueueBooted DEF AppInv, ManagerInv, Booted
<1>4. ASSUME boot' # "up" PROVE ui'.do = "none" /\ sched'.at = "none" /\ add'.at = "none"
  <2>1. CASE Exit
    BY <2>1 DEF Exit, NoUI, NoSched, NoAdd
  <2>2. CASE Manager \/ UNCHANGED allVars
    <3>1. UNCHANGED appVars /\ boot # "up"
      BY <1>4, <2>2 DEF Manager, Reconcile, Drain, ManagerStep, Mark, Enqueue, Put, DrainStart,
         DrainSkip, DrainReturn, allVars, vars
    <3>2. QED
      BY <3>1 DEF appVars, AppInv, ManagerInv, Booted
  <2>3. QED
    BY <1>4, <2>1, <2>2, OnlyMainBoots
<1>5. QED
  BY <1>2, <1>3, <1>4 DEF Booted

\* What a step may do to the goroutines: the manager hands a download to one that
\* is free, one gives its slot back, or each answers for what it did.
Hands(g) == task[g] = NoId /\ task'[g] = op.id /\ \A h \in Goroutines \ {g} : task'[h] = task[h]
LEMMA ManagerTasks ==
  ASSUME AppInv, \/ Manager
                 \/ \E id \in Ids, c \in Callers : TryStart(id, c) \/ EnqueueScheduled(id, c)
  PROVE  \/ UNCHANGED task
         \/ op.at = "mark" /\ Mark /\ \E g \in Goroutines : Hands(g)
<1>1. task \in [Goroutines -> Ids \cup {NoId}]
  BY DEF AppInv, ManagerInv, TypeOK
<1>2. CASE Mark
  BY <1>1, <1>2 DEF Mark, Hands
<1>3. QED
  BY <1>2 DEF Manager, Reconcile, Drain, ManagerStep, Enqueue, Put, DrainStart, DrainSkip,
     DrainReturn, TryStart, EnqueueScheduled

\* A slot given back leaves the goroutine as new.
LEMMA Released ==
  ASSUME AppInv, NEW g \in Goroutines, NEW c, Release(g, c)
  PROVE  /\ task' = [task EXCEPT ![g] = NoId]
         /\ phase' = [phase EXCEPT ![g] = "spawned"]
         /\ cancelled' = [cancelled EXCEPT ![g] = FALSE]
         /\ \A h \in Goroutines \ {g} :
              task'[h] = task[h] /\ phase'[h] = phase[h] /\ cancelled'[h] = cancelled[h]
         /\ task'[g] = NoId /\ phase'[g] = "spawned" /\ ~cancelled'[g]
<1>1. task \in [Goroutines -> Ids \cup {NoId}]
  BY DEF AppInv, ManagerInv, TypeOK
<1>2. phase \in [Goroutines -> Phases] /\ cancelled \in [Goroutines -> BOOLEAN]
  BY DEF AppInv, AppShape, WorkersTypeOK
<1>3. task' = [task EXCEPT ![g] = NoId] /\ phase' = [phase EXCEPT ![g] = "spawned"]
  BY DEF Release, OnDone, Goto
<1>4. cancelled' = [cancelled EXCEPT ![g] = FALSE]
  BY DEF Release
<1>5. QED
  BY <1>1, <1>2, <1>3, <1>4

\* The handlers leave the workers to themselves, except where a conflict is resolved.
Resolves(g) == \/ \E to \in {"placing", "discarding"} : Answer(g, to)
               \/ Settle(g) \/ Discard(g) \/ AnswerReturn(g) \/ ShutdownRelease(g)
LEMMA HandlersLeaveWorkers ==
  ASSUME UserAction \/ UIStep \/ SchedList \/ SchedStep \/ AddStep
  PROVE  UNCHANGED <<task, phase, entries>> \/ Exit \/ \E g \in Goroutines : Resolves(g)
<1>1. CASE UserAction
  BY <1>1 DEF UserAction, Pause, Stop, Resume, History, SetLimit, Shutdown, AddCreate, Crash,
     UILooks, TryStart, SetMaxConcurrent, vars, queueVars, workerVars, Resolves
<1>2. CASE UIStep
  <2>1. CASE \/ \E id \in Ids : PauseVisit(id) \/ PauseWrite(id)
             \/ PauseStop \/ PauseReturn \/ StopContexts \/ CancelWrite
    BY <2>1 DEF PauseVisit, PauseWrite, PauseStop, PauseReturn, StopContexts, CancelWrite,
       UILooks, UIWrites, CancelContexts, vars, queueVars, workerVars
  <2>2. CASE DeleteRemove \/ DeleteRow \/ AgainReset \/ AgainClean \/ AgainStart
    BY <2>2 DEF DeleteRemove, DeleteRow, AgainReset, AgainClean, AgainStart, Remove, TryStart,
       vars, queueVars, workerVars
  <2>3. CASE \/ \E id \in Ids : ShutdownStop(id) \/ ShutdownPending(id)
             \/ ShutdownWrite \/ ShutdownReturn
    BY <2>3 DEF ShutdownStop, ShutdownPending, ShutdownWrite, ShutdownReturn,
       UILooks, UIWrites, CancelContexts, vars, queueVars, workerVars
  <2>4. QED
    BY <1>2, <2>1, <2>2, <2>3 DEF UIStep, Quit, Resolves
<1>3. CASE SchedList \/ SchedStep \/ AddStep
  BY <1>3 DEF SchedList, SchedStep, SchedPending, SchedUnset, SchedCall, AddStep, AddStart,
     AddSchedule, AddSetTime, EnqueueScheduled, TryStart, vars, queueVars, workerVars
<1>4. QED
  BY <1>1, <1>2, <1>3

\* Every step keeps the registry equal to the workers that are past it.
LEMMA WorkerPreserved == AppInv /\ [Next]_allVars => WorkerInv'
<1> SUFFICES ASSUME AppInv, [Next]_allVars PROVE WorkerInv'
  OBVIOUS
<1>0. /\ task \in [Goroutines -> Ids \cup {NoId}]
      /\ phase \in [Goroutines -> Phases]
      /\ WorkerInv
      /\ op.at = "mark" => op.id \in Ids
      /\ NoId \notin Ids
  BY QueueAssumption DEF AppInv, ManagerInv, TypeOK, AppShape, WorkersTypeOK
<1>1. ASSUME UNCHANGED <<task, phase, entries>> PROVE WorkerInv'
  BY <1>0, <1>1 DEF WorkerInv, EntriesAreWorkers
<1>2. CASE Manager
  <2>1. UNCHANGED <<phase, entries>>
    BY <1>2 DEF Manager, workerVars
  <2>2. ASSUME NEW g \in Goroutines, Hands(g) PROVE WorkerInv'
    <3>1. phase[g] = "spawned" /\ g \notin entries
      BY <1>0, <2>2 DEF WorkerInv, EntriesAreWorkers, Hands
    <3>2. \A h \in Goroutines \ {g} : task'[h] = task[h]
      BY <2>2 DEF Hands
    <3>3. QED
      BY <1>0, <2>1, <3>1, <3>2 DEF WorkerInv, EntriesAreWorkers, Registered
  <2>3. QED
    BY <1>1, <1>2, <2>1, <2>2, ManagerTasks
<1>3. ASSUME NEW g \in Goroutines, NEW c, Release(g, c), UNCHANGED entries,
             phase[g] \notin Registered
      PROVE  WorkerInv'
  <2>1. /\ \A h \in Goroutines \ {g} : task'[h] = task[h] /\ phase'[h] = phase[h]
        /\ task'[g] = NoId /\ phase'[g] = "spawned"
    BY <1>3, Released
  <2>2. QED
    BY <1>0, <1>3, <2>1 DEF WorkerInv, EntriesAreWorkers
\* g goes on, and enters or leaves dp.active with its registration.
<1>4. ASSUME NEW g \in Goroutines, UNCHANGED task, task[g] # NoId, NEW to, Goto(g, to),
             \/ UNCHANGED entries /\ (phase[g] \in Registered <=> to \in Registered)
             \/ entries' = entries \cup {g} /\ to \in Registered
             \/ entries' = entries \ {g} /\ to \notin Registered
      PROVE  WorkerInv'
  <2>1. phase'[g] = to /\ \A h \in Goroutines \ {g} : phase'[h] = phase[h]
    BY <1>0, <1>4 DEF Goto
  <2>2. QED
    BY <1>0, <1>4, <2>1 DEF WorkerInv, EntriesAreWorkers
<1>5. ASSUME NEW g \in Goroutines, Worker(g) PROVE WorkerInv'
  <2>1. CASE EarlyFail(g) \/ Announce(g) \/ Complete(g) \/ Fail(g) \/ LeaveResumable(g)
    BY <1>4, <2>1 DEF EarlyFail, Announce, Complete, Fail, LeaveResumable, WriteStatus, queueVars,
       At, Registered
  <2>2. CASE Load(g) \/ Fetch(g) \/ Return(g) \/ MoveFile(g) \/ Conflict(g)
    BY <1>4, <2>2 DEF Load, Fetch, Return, MoveFile, Conflict, vars, At, Registered
  <2>3. CASE Register(g)
    BY <1>4, <2>3 DEF Register, vars, At, Registered
  <2>4. CASE Unregister(g)
    BY <1>4, <2>4 DEF Unregister, vars, At, Registered
  <2>5. QED
    BY <1>5, <2>1, <2>2, <2>3, <2>4 DEF Worker, WorkerStep
<1>6. ASSUME NEW g \in Goroutines, WorkerEnd(g) PROVE WorkerInv'
  BY <1>3, <1>6 DEF WorkerEnd, End, At, Registered
<1>7. ASSUME NEW g \in Goroutines, Resolves(g) PROVE WorkerInv'
  <2>1. CASE AnswerReturn(g) \/ ShutdownRelease(g)
    BY <1>3, <2>1 DEF AnswerReturn, ShutdownRelease, At, Registered
  <2>2. CASE \E to \in {"placing", "discarding"} : Answer(g, to)
    BY <1>4, <2>2 DEF Answer, vars, At, Registered
  <2>3. CASE Settle(g) \/ Discard(g)
    BY <1>4, <2>3 DEF Settle, Discard, WriteStatus, vars, queueVars, At, Registered
  <2>4. QED
    BY <1>7, <2>1, <2>2, <2>3 DEF Resolves
<1>8. CASE Exit
  BY <1>8 DEF Exit, ProcessEnds, WorkerInv, EntriesAreWorkers, Registered
<1>9. QED
  BY <1>1, <1>2, <1>5, <1>6, <1>7, <1>8, HandlersLeaveWorkers DEF Next, allVars, vars, workerVars

-----------------------------------------------------------------------------
(* The theorems they give.                                                 *)

\* A fresh process satisfies AppInv.
LEMMA AppInit == Init => AppInv
<1> SUFFICES ASSUME Init PROVE AppInv
  OBVIOUS
<1>0. QueueInit /\ WorkersInit /\ ui = NoUI /\ sched = NoSched /\ add = NoAdd
  BY DEF Init
<1>1. TypeOK /\ SlotHasOneOwner
  BY <1>0, TypeInit, OwnerInit
<1>2. Booted
  BY <1>0 DEF Booted, QueueInit, NoUI, NoSched, NoAdd
<1>3. WorkersTypeOK
  BY DEF Init, WorkersInit, WorkersTypeOK, Phases, Starters
<1>4. AppShape
  BY <1>0, <1>3, NoHandlerOK DEF AppShape, HandlerIds, NoSched, NoAdd
<1>5. WorkerInv
  BY <1>0 DEF WorkerInv, EntriesAreWorkers, QueueInit, WorkersInit
<1>6. QED
  BY <1>1, <1>2, <1>4, <1>5 DEF AppInv, ManagerInv

\* AppInv is inductive.
LEMMA AppPreserved == AppInv /\ [Next]_allVars => AppInv'
<1> SUFFICES ASSUME AppInv, [Next]_allVars PROVE AppInv'
  OBVIOUS
<1>1. [QueueNext]_vars
  BY StepIsExpected DEF AppInv
<1>2. TypeOK' /\ SlotHasOneOwner'
  BY <1>1, TypePreserved, OwnerPreserved DEF AppInv, ManagerInv
<1>3. QED
  BY <1>2, BootedPreserved, ShapePreserved, WorkerPreserved DEF AppInv, ManagerInv

\* AppInv in every reachable state.
LEMMA AppCorrect == Spec => []AppInv
BY AppInit, AppPreserved, PTL DEF Spec

\* Every handler, worker and row keeps its shape, whatever the user does.
THEOREM AppTypeCorrect == Spec => []AppTypeOK
<1>1. AppInv => AppTypeOK
  BY DEF AppInv, ManagerInv, AppShape, AppTypeOK
<1>2. QED
  BY <1>1, AppCorrect, PTL

\* dp.active holds exactly the workers between registration and the return of
\* Start, in every order of clicks, releases and a Shutdown.
THEOREM EntriesCorrect == Spec => []EntriesAreWorkers
<1>1. AppInv => EntriesAreWorkers
  BY DEF AppInv, WorkerInv
<1>2. QED
  BY <1>1, AppCorrect, PTL

\* The application never calls the manager, nor writes to the table, in a way that
\* QueueManager's own specification leaves out.
THEOREM QueueManagerImplemented == Spec => ImplementsQueueManager
<1>1. Init => QueueInit
  BY DEF Init
<1>2. AppInv /\ [Next]_allVars => [QueueNext]_vars
  BY StepIsExpected DEF AppInv
<1>3. QED
  BY <1>1, <1>2, AppCorrect, PTL DEF Spec, ImplementsQueueManager, QueueSpec

\* So in the application as a whole two goroutines never write one .part file, and
\* no slot leaks.
THEOREM OneOwnerInApplication == Spec => []SlotHasOneOwner
<1>1. AppInv => SlotHasOneOwner
  BY DEF AppInv, ManagerInv
<1>2. QED
  BY <1>1, AppCorrect, PTL

-----------------------------------------------------------------------------
(* The steps, by what they may do to the workers and to a conflict.        *)

\* Handlers that are not those of a conflict, nor of Shutdown.
Plain ==
  \/ \E id \in Ids : "pause" \in Ops /\ Pause({id})
  \/ \E id \in Ids : "history" \in Ops /\ History(id)
  \/ \E id \in Ids : Resume(id)
  \/ \E do \in {"cancel", "delete", "again"} \cap Ops, id \in Ids : Stop(do, id)
  \/ "pauseAll" \in Ops /\ Pause({task[g] : g \in entries})
  \/ \E n \in 0..MaxLimit : SetLimit(n)
  \/ \E id \in Ids, to \in {"start", "schedule"} : AddCreate(id, to)
  \/ \E id \in Ids : PauseVisit(id) \/ PauseWrite(id)
  \/ PauseStop \/ PauseReturn \/ StopContexts \/ CancelWrite \/ DeleteRemove \/ DeleteRow
  \/ AgainReset \/ AgainClean \/ AgainStart
  \/ SchedList \/ SchedStep \/ AddStep
ShutdownVisits == \E id \in Ids : ShutdownStop(id) \/ ShutdownPending(id)

\* The actions of Next, grouped by what they may do to a worker.
LEMMA NextCases ==
  ASSUME Next
  PROVE  \/ Manager \/ Exit \/ Plain
         \/ Shutdown \/ ShutdownVisits \/ ShutdownWrite \/ ShutdownReturn
         \/ \E g \in Goroutines : Worker(g) \/ WorkerEnd(g) \/ Resolves(g)
<1>1. CASE UserAction
  BY <1>1 DEF UserAction, Plain, Crash, Resolves
<1>2. CASE UIStep
  BY <1>2 DEF UIStep, Plain, Quit, Resolves, ShutdownVisits
<1>3. QED
  BY <1>1, <1>2 DEF Next, Plain

\* They leave the goroutines alone, and the UI thread out of those two.
LEMMA PlainLeaves ==
  ASSUME AppInv, Plain
  PROVE  /\ UNCHANGED <<task, phase, entries, pending, shuttingDown>>
         /\ \/ ui' = ui
            \/ /\ ui.do \notin {"answer", "shutdown"} /\ ui'.do \notin {"answer", "shutdown"}
               /\ ui.at # "closed" => ui'.at # "closed"
         /\ op'.by \in {op.by, "ui", "scheduler", "add"}
<1> DEFINE Leaves == UNCHANGED <<task, phase, entries, pending, shuttingDown>>
           Stays == \/ ui' = ui
                    \/ /\ ui.do \notin {"answer", "shutdown"} /\ ui'.do \notin {"answer", "shutdown"}
                       /\ ui.at # "closed" => ui'.at # "closed"
           By == op'.by \in {op.by, "ui", "scheduler", "add"}
<1>1. ASSUME NEW id, NEW c \in {"ui", "scheduler", "add"},
             TryStart(id, c) \/ EnqueueScheduled(id, c)
      PROVE  By /\ UNCHANGED task
  <2>1. Place(id, c) => op'.by = c
    BY DEF Place
  <2>2. UNCHANGED task /\ (Place(id, c) \/ UNCHANGED op)
    BY <1>1 DEF TryStart, EnqueueScheduled
  <2>3. QED
    BY <2>1, <2>2
<1>2. ASSUME NEW n, SetMaxConcurrent(n, "ui") PROVE By /\ UNCHANGED task
  BY <1>2 DEF SetMaxConcurrent
<1>3. ASSUME NEW ids, Pause(ids) PROVE Leaves /\ Stays /\ By
  BY <1>3 DEF Pause, NoUI, UIFree, UILooks, vars, workerVars
<1>4. ASSUME NEW do \in {"cancel", "delete", "again"}, NEW id, Stop(do, id)
      PROVE  Leaves /\ Stays /\ By
  BY <1>4 DEF Stop, NoUI, UIFree, UILooks, vars, workerVars
<1>5. ASSUME NEW id, Resume(id) \/ History(id) PROVE Leaves /\ Stays /\ By
  BY <1>1, <1>5 DEF Resume, History, queueVars, workerVars, appVars
<1>6. ASSUME NEW n, SetLimit(n) PROVE Leaves /\ Stays /\ By
  BY <1>2, <1>6 DEF SetLimit, workerVars, appVars
<1>7. ASSUME NEW id, NEW to, AddCreate(id, to) PROVE Leaves /\ Stays /\ By
  BY <1>7 DEF AddCreate, queueVars, workerVars
<1>8. ASSUME NEW id, PauseVisit(id) \/ PauseWrite(id) PROVE Leaves /\ Stays /\ By
  <2>1. Leaves /\ UNCHANGED op /\ ui.do = "pause"
    BY <1>8 DEF PauseVisit, PauseWrite, UIAt, UILooks, UIWrites, vars, queueVars, workerVars
  <2>2. CASE PauseVisit(id)
    <3>1. ui' = [ui EXCEPT !.todo = @ \ {id}, !.ctx = Entry(id),
                           !.id = id, !.at = IF Entry(id) = {} THEN "visit" ELSE "stop"]
      BY <2>2 DEF PauseVisit
    <3>2. ui'.do = ui.do /\ (ui'.at # "closed" \/ ui'.at = ui.at)
      BY <3>1
    <3>3. QED
      BY <2>1, <3>2
  <2>3. CASE PauseWrite(id)
    BY <2>1, <2>3 DEF PauseWrite
  <2>4. QED
    BY <1>8, <2>2, <2>3
<1>9. CASE PauseStop \/ PauseReturn \/ StopContexts \/ CancelWrite \/ DeleteRow \/ AgainReset
           \/ AgainClean
  <2>1. Leaves /\ UNCHANGED op /\ ui.do \in {"pause", "cancel", "delete", "again"}
    BY <1>9 DEF PauseStop, PauseReturn, StopContexts, CancelWrite, DeleteRow, AgainReset, AgainClean,
       UIAt, UILooks, UIWrites, CancelContexts, vars, queueVars, workerVars
  <2>2. NoUI.do = "none" /\ NoUI.at = "none"
    BY DEF NoUI
  <2>3. \/ ui' = NoUI
        \/ ui' = [ui EXCEPT !.at = "visit", !.ctx = {}, !.late = @ \cup {ui.id}]
        \/ \E at \in {"reset", "write"} : ui' = [ui EXCEPT !.ctx = {}, !.at = at]
        \/ \E at \in {"remove", "clean", "start"} : ui' = [ui EXCEPT !.at = at]
    BY <1>9
       DEF PauseStop, PauseReturn, StopContexts, CancelWrite, DeleteRow, AgainReset, AgainClean
  <2>4. Stays
    <3>1. ui \in UI
      BY DEF AppInv, AppShape
    <3>2. CASE ui' = [ui EXCEPT !.at = "visit", !.ctx = {}, !.late = @ \cup {ui.id}]
      BY <2>1, <3>1, <3>2 DEF UI
    <3>3. ASSUME NEW at \in {"reset", "write"}, ui' = [ui EXCEPT !.ctx = {}, !.at = at] PROVE Stays
      BY <2>1, <3>1, <3>3 DEF UI
    <3>4. ASSUME NEW at \in {"remove", "clean", "start"}, ui' = [ui EXCEPT !.at = at] PROVE Stays
      BY <2>1, <3>1, <3>4 DEF UI
    <3>5. QED
      BY <2>1, <2>2, <2>3, <3>2, <3>3, <3>4
  <2>5. QED
    BY <2>1, <2>4
<1>10. CASE DeleteRemove \/ AgainStart
  <2>1. UNCHANGED <<phase, entries, pending, shuttingDown>> /\ ui.do \in {"delete", "again"}
    BY <1>10 DEF DeleteRemove, AgainStart, UIAt, workerVars
  <2>2. By /\ UNCHANGED task
    BY <1>1, <1>10 DEF DeleteRemove, AgainStart, Remove, queueVars
  <2>3. Stays
    <3>1. ui' = NoUI \/ ui' = [ui EXCEPT !.at = "delete"]
      BY <1>10 DEF DeleteRemove, AgainStart
    <3>2. ui \in UI
      BY DEF AppInv, AppShape
    <3>3. QED
      BY <2>1, <3>1, <3>2 DEF NoUI, UI
  <2>4. QED
    BY <2>1, <2>2, <2>3
<1>11. CASE SchedList \/ SchedStep \/ AddStep
  BY <1>1, <1>11 DEF SchedList, SchedStep, SchedPending, SchedUnset, SchedCall, AddStep, AddStart,
     AddSchedule, AddSetTime, vars, queueVars, workerVars
<1>12. QED
  BY <1>3, <1>4, <1>5, <1>6, <1>7, <1>8, <1>9, <1>10, <1>11 DEF Plain

-----------------------------------------------------------------------------
(* A conflict has one owner.                                               *)

PromptIds == {task[g] : g \in {h \in Goroutines : At(h, "prompting")}}

ConflictInv ==
  /\ ConflictHasOneOwner
  /\ UIAt("shutdown", "release") => ui.id \notin ui.late
  /\ ui.do = "shutdown" => shuttingDown

\* A step of one goroutine that is in no dialog before nor after it.
LEMMA PromptsKept ==
  ASSUME NEW g \in Goroutines, task[g] = NoId \/ phase[g] # "prompting",
         task'[g] = NoId \/ phase'[g] # "prompting",
         \A h \in Goroutines \ {g} : task'[h] = task[h] /\ phase'[h] = phase[h]
  PROVE  PromptIds' = PromptIds
<1>1. \A h \in Goroutines : At(h, "prompting") => h # g
  BY DEF At
<1>2. \A h \in Goroutines : At(h, "prompting")' => h # g
  BY DEF At
<1>3. \A h \in Goroutines : At(h, "prompting")' <=> At(h, "prompting")
  BY <1>1, <1>2 DEF At
<1>4. \A h \in Goroutines : At(h, "prompting") => task'[h] = task[h]
  BY <1>1
<1>5. QED
  BY <1>3, <1>4 DEF PromptIds

\* A step that moves neither prompts nor Shutdown keeps ConflictInv.
LEMMA ConflictKept ==
  ASSUME ConflictInv, UNCHANGED <<pending, shuttingDown>>, PromptIds' = PromptIds,
         \/ ui'.do = ui.do /\ ui'.at = ui.at /\ ui'.id = ui.id /\ ui'.late = ui.late
         \/ ui.do # "shutdown" /\ ui'.do # "shutdown"
  PROVE  ConflictInv'
<1>1. TakenByShutdown' = TakenByShutdown
  BY DEF TakenByShutdown
<1>2. QED
  BY <1>1 DEF ConflictInv, ConflictHasOneOwner, PromptIds, UIAt

\* g goes on, in no dialog before nor after.
LEMMA ConflictGoes ==
  ASSUME AppInv, ConflictInv, NEW g \in Goroutines, UNCHANGED <<task, pending, shuttingDown>>,
         NEW to, to # "prompting", Goto(g, to), phase[g] # "prompting",
         \/ ui'.do = ui.do /\ ui'.at = ui.at /\ ui'.id = ui.id /\ ui'.late = ui.late
         \/ ui.do # "shutdown" /\ ui'.do # "shutdown"
  PROVE  ConflictInv'
<1>1. phase'[g] = to /\ \A h \in Goroutines \ {g} : phase'[h] = phase[h]
  BY DEF Goto, AppInv, AppShape, WorkersTypeOK
<1>2. PromptIds' = PromptIds
  BY <1>1, PromptsKept
<1>3. QED
  BY <1>2, ConflictKept

\* ConflictInv is inductive, given AppInv.
LEMMA ConflictPreserved == AppInv /\ ConflictInv /\ [Next]_allVars => ConflictInv'
<1> SUFFICES ASSUME AppInv, ConflictInv, [Next]_allVars PROVE ConflictInv'
  OBVIOUS
<1>0. /\ \A g \in Goroutines : task[g] = NoId => phase[g] = "spawned"
      /\ \A g, h \in Goroutines : task[g] = task[h] /\ task[g] # NoId => g = h
      /\ phase \in [Goroutines -> Phases] /\ ui \in UI
  BY DEF AppInv, WorkerInv, ManagerInv, SlotHasOneOwner, AppShape, WorkersTypeOK
<1>1. ASSUME UNCHANGED <<task, phase, pending, shuttingDown>>,
             \/ ui' = ui
             \/ ui.do # "shutdown" /\ ui'.do # "shutdown"
      PROVE  ConflictInv'
  BY <1>1, ConflictKept DEF PromptIds, At
<1>2. CASE Manager
  <2>1. UNCHANGED <<phase, pending, shuttingDown, ui>>
    BY <1>2 DEF Manager, workerVars, appVars
  <2>2. ASSUME NEW g \in Goroutines, Hands(g) PROVE ConflictInv'
    BY <1>0, <2>1, <2>2, PromptsKept, ConflictKept DEF Hands
  <2>3. QED
    BY <1>1, <1>2, <2>1, <2>2, ManagerTasks
<1>3. CASE Plain
  BY <1>1, <1>3, PlainLeaves
<1>4. ASSUME NEW g \in Goroutines, Worker(g) PROVE ConflictInv'
  <2>0. UNCHANGED ui
    BY <1>4 DEF Worker, appVars
  <2>1. CASE EarlyFail(g) \/ Announce(g) \/ Complete(g) \/ Fail(g) \/ LeaveResumable(g)
    BY <2>0, <2>1, ConflictGoes DEF EarlyFail, Announce, Complete, Fail, LeaveResumable, WriteStatus,
       queueVars, At
  <2>2. CASE Load(g) \/ Register(g) \/ Fetch(g) \/ Return(g) \/ Unregister(g) \/ MoveFile(g)
    BY <2>0, <2>2, ConflictGoes DEF Load, Register, Fetch, Return, Unregister, MoveFile, vars, At
  <2>3. CASE Conflict(g)
    <3>1. CASE shuttingDown
      BY <2>0, <2>3, <3>1, ConflictGoes DEF Conflict, vars, At
    <3>2. CASE ~shuttingDown
      <4>1. /\ phase'[g] = "prompting" /\ task[g] # NoId /\ UNCHANGED <<task, shuttingDown>>
            /\ \A h \in Goroutines \ {g} : phase'[h] = phase[h]
            /\ pending' = pending \cup {task[g]}
        BY <1>0, <2>3, <3>2 DEF Conflict, Goto, At, vars
      <4>2. PromptIds' = PromptIds \cup {task[g]}
        BY <4>1 DEF PromptIds, At
      <4>3. ui.do # "shutdown" /\ ui'.do # "shutdown"
        BY <2>0, <3>2 DEF ConflictInv
      <4>4. QED
        BY <4>1, <4>2, <4>3 DEF ConflictInv, ConflictHasOneOwner, PromptIds, TakenByShutdown, UIAt
    <3>3. QED
      BY <3>1, <3>2
  <2>4. QED
    BY <1>4, <2>1, <2>2, <2>3 DEF Worker, WorkerStep
<1>5. ASSUME NEW g \in Goroutines, NEW c, Release(g, c), phase[g] # "prompting",
             UNCHANGED <<pending, shuttingDown>>,
             \/ ui'.do = ui.do /\ ui'.at = ui.at /\ ui'.id = ui.id /\ ui'.late = ui.late
             \/ ui.do # "shutdown" /\ ui'.do # "shutdown"
      PROVE  ConflictInv'
  <2>1. PromptIds' = PromptIds
    BY <1>5, Released, PromptsKept
  <2>2. QED
    BY <1>5, <2>1, ConflictKept
<1>6. ASSUME NEW g \in Goroutines, WorkerEnd(g) PROVE ConflictInv'
  <2>1. ui'.do = ui.do /\ ui'.at = ui.at /\ ui'.id = ui.id /\ ui'.late = ui.late
    BY <1>0, <1>6 DEF WorkerEnd, UI
  <2>2. QED
    BY <1>5, <1>6, <2>1 DEF WorkerEnd, End, At
<1>7. ASSUME NEW g \in Goroutines, NEW to \in {"placing", "discarding"}, Answer(g, to)
      PROVE  ConflictInv'
  <2>1. /\ phase'[g] = to /\ task[g] # NoId /\ UNCHANGED <<task, shuttingDown>>
        /\ \A h \in Goroutines \ {g} : phase'[h] = phase[h]
        /\ pending' = pending \ {task[g]}
    BY <1>0, <1>7 DEF Answer, Goto, At, vars
  <2>2. PromptIds' = PromptIds \ {task[g]}
    BY <1>0, <2>1 DEF PromptIds, At
  <2>3. ui.do # "shutdown" /\ ui'.do # "shutdown"
    BY <1>7 DEF Answer, UIFree, NoUI
  <2>4. QED
    BY <2>1, <2>2, <2>3 DEF ConflictInv, ConflictHasOneOwner, PromptIds, TakenByShutdown, UIAt
<1>8. ASSUME NEW g \in Goroutines, Settle(g) \/ Discard(g) PROVE ConflictInv'
  BY <1>8, ConflictGoes DEF Settle, Discard, WriteStatus, vars, queueVars, appVars, At
<1>9. ASSUME NEW g \in Goroutines, AnswerReturn(g) PROVE ConflictInv'
  BY <1>5, <1>9 DEF AnswerReturn, At, NoUI
<1>10. ASSUME NEW g \in Goroutines, ShutdownRelease(g) PROVE ConflictInv'
  <2>1. /\ task'[g] = NoId /\ \A h \in Goroutines \ {g} : task'[h] = task[h] /\ phase'[h] = phase[h]
    BY <1>10, Released DEF ShutdownRelease
  <2>2. At(g, "prompting") /\ task[g] = ui.id /\ UIAt("shutdown", "release")
    BY <1>10 DEF ShutdownRelease
  <2>3. PromptIds' = PromptIds \ {task[g]}
    BY <1>0, <2>1, <2>2 DEF PromptIds, At
  <2>4. ui'.do = "shutdown" /\ ui'.at = "visit" /\ ui'.late = ui.late
        /\ UNCHANGED <<pending, shuttingDown>>
    BY <1>0, <1>10 DEF ShutdownRelease, UIAt, UI
  <2>5. QED
    BY <2>2, <2>3, <2>4 DEF ConflictInv, ConflictHasOneOwner, PromptIds, TakenByShutdown, UIAt
<1>11. CASE Shutdown
  <2>1. /\ ui.do = "none" /\ ui'.do = "shutdown" /\ ui'.at = "visit" /\ ui'.late = pending
        /\ shuttingDown' /\ pending' = {} /\ UNCHANGED <<task, phase>>
    BY <1>11 DEF Shutdown, UIFree, NoUI, vars
  <2>2. PromptIds' = PromptIds
    BY <2>1 DEF PromptIds, At
  <2>3. QED
    BY <2>1, <2>2 DEF ConflictInv, ConflictHasOneOwner, PromptIds, TakenByShutdown, UIAt
<1>12. ASSUME NEW id \in Ids, ShutdownStop(id) PROVE ConflictInv'
  <2>1. /\ ui.do = "shutdown" /\ ui.at = "visit"
        /\ ui'.do = "shutdown" /\ ui'.at = "write" /\ ui'.late = ui.late
        /\ UNCHANGED <<task, phase, pending, shuttingDown>>
    BY <1>0, <1>12 DEF ShutdownStop, UIAt, UI, CancelContexts, vars
  <2>2. PromptIds' = PromptIds
    BY <2>1 DEF PromptIds, At
  <2>3. QED
    BY <2>1, <2>2 DEF ConflictInv, ConflictHasOneOwner, PromptIds, TakenByShutdown, UIAt
<1>13. ASSUME NEW id \in Ids, ShutdownPending(id) PROVE ConflictInv'
  <2>1. /\ ui.do = "shutdown" /\ ui.at = "visit" /\ id \in ui.late
        /\ ui'.do = "shutdown" /\ ui'.at = "release" /\ ui'.id = id /\ ui'.late = ui.late \ {id}
        /\ UNCHANGED <<task, phase, pending, shuttingDown>>
    BY <1>0, <1>13 DEF ShutdownPending, UIAt, UI, UIWrites, queueVars, workerVars
  <2>2. PromptIds' = PromptIds
    BY <2>1 DEF PromptIds, At
  <2>3. QED
    BY <2>1, <2>2 DEF ConflictInv, ConflictHasOneOwner, PromptIds, TakenByShutdown, UIAt
<1>14. CASE ShutdownWrite
  <2>1. /\ ui.do = "shutdown" /\ ui.at = "write"
        /\ ui'.do = "shutdown" /\ ui'.at = "visit" /\ ui'.late = ui.late
        /\ UNCHANGED <<task, phase, pending, shuttingDown>>
    BY <1>0, <1>14 DEF ShutdownWrite, UIAt, UI, UIWrites, queueVars, workerVars
  <2>2. PromptIds' = PromptIds
    BY <2>1 DEF PromptIds, At
  <2>3. QED
    BY <2>1, <2>2 DEF ConflictInv, ConflictHasOneOwner, PromptIds, TakenByShutdown, UIAt
<1>15. CASE ShutdownReturn
  <2>1. /\ ui.do = "shutdown" /\ ui.at = "visit" /\ ui.late = {}
        /\ ui'.do = "shutdown" /\ ui'.at = "closed" /\ ui'.late = {}
        /\ UNCHANGED <<task, phase, pending, shuttingDown>>
    BY <1>15 DEF ShutdownReturn, UIAt, NoUI, UILooks, vars, workerVars
  <2>2. PromptIds' = PromptIds
    BY <2>1 DEF PromptIds, At
  <2>3. QED
    BY <2>1, <2>2 DEF ConflictInv, ConflictHasOneOwner, PromptIds, TakenByShutdown, UIAt
<1>16. CASE Exit
  <2>1. /\ ui'.do = "none" /\ pending' = {} /\ \A g \in Goroutines : task'[g] = NoId
    BY <1>16 DEF Exit, ProcessEnds, NoUI
  <2>2. PromptIds' = {}
    BY <2>1 DEF PromptIds, At
  <2>3. QED
    BY <2>1, <2>2 DEF ConflictInv, ConflictHasOneOwner, PromptIds, TakenByShutdown, UIAt
<1>17. QED
  BY <1>1, <1>2, <1>3, <1>4, <1>6, <1>7, <1>8, <1>9, <1>10, <1>11, <1>12, <1>13, <1>14, <1>15, <1>16,
     NextCases DEF Resolves, ShutdownVisits, allVars, vars, workerVars, appVars

\* No conflict is open in a fresh process.
LEMMA ConflictInit == Init => ConflictInv
BY DEF Init, QueueInit, WorkersInit, NoUI, ConflictInv, ConflictHasOneOwner, TakenByShutdown, At, UIAt

\* A worker's conflict is answered for by a button or by Shutdown, never by both,
\* and never forgotten: its slot is given back once.
THEOREM ConflictOwned == Spec => []ConflictHasOneOwner
<1>1. AppInv /\ ConflictInv /\ [Next]_allVars => (AppInv /\ ConflictInv)'
  BY AppPreserved, ConflictPreserved
<1>2. ConflictInv => ConflictHasOneOwner
  BY DEF ConflictInv
<1>3. QED
  BY <1>1, <1>2, AppInit, ConflictInit, PTL DEF Spec

-----------------------------------------------------------------------------
(* Shutdown returns to a quiet application.                                *)

\* The UI thread is busy with the conflict whose answer it carries out.
Settling(g) == At(g, "placing") \/ At(g, "discarding")
QuietInv ==
  /\ shuttingDown => pending = {}
  /\ ui.at = "closed" => ui.do = "shutdown" /\ ui.late = {}
  /\ \A g \in Goroutines : Settling(g) => ui.do = "answer" /\ ui.ctx = {g}
  /\ ShutdownQuiesces

Closed == UIAt("shutdown", "closed")
QuietAll == AppInv /\ ConflictInv /\ QuietInv

\* Once Shutdown has returned, the only workers are those that have not registered.
LEMMA ClosedWorkers ==
  ASSUME QuietAll, Closed, NEW g \in Goroutines, task[g] # NoId
  PROVE  phase[g] \in Starters /\ shuttingDown
<1>1. phase[g] \in Phases
  BY DEF QuietAll, AppInv, AppShape, WorkersTypeOK
<1>2. phase[g] \notin Registered \cup Finalizing
  BY DEF QuietAll, QuietInv, ShutdownQuiesces, Closed, OnWaitGroup
<1>3. phase[g] \notin {"placing", "discarding"}
  BY DEF QuietAll, QuietInv, Settling, At, Closed, UIAt
<1>4. phase[g] # "prompting"
  <2>1. pending \cup TakenByShutdown = {}
    BY DEF QuietAll, QuietInv, ShutdownQuiesces, Closed, UIAt, TakenByShutdown
  <2>2. ASSUME At(g, "prompting") PROVE FALSE
    <3>1. task[g] \in pending \cup TakenByShutdown
      BY <2>2 DEF QuietAll, ConflictInv, ConflictHasOneOwner
    <3>2. QED
      BY <2>1, <3>1
  <2>3. QED
    BY <2>2 DEF At
<1>5. QED
  BY <1>1, <1>2, <1>3, <1>4 DEF Phases, Prompts, QuietAll, ConflictInv, Closed, UIAt

\* A step of one goroutine, which resolves no conflict before nor after it.
LEMMA QuietGoes ==
  ASSUME QuietAll, NEW g \in Goroutines,
         \A h \in Goroutines \ {g} : task'[h] = task[h] /\ phase'[h] = phase[h],
         task'[g] = NoId \/ phase'[g] \notin {"placing", "discarding"},
         UNCHANGED shuttingDown, shuttingDown => pending' \subseteq pending,
         \/ /\ ui'.do = ui.do /\ ui'.at = ui.at /\ ui'.late = ui.late
            /\ ui.do = "answer" => ui'.ctx = ui.ctx
         \/ /\ \A h \in Goroutines \ {g} : ~Settling(h)
            /\ ui'.at # "closed",
         Closed => /\ task'[g] # NoId => phase'[g] \in Starters
                   /\ entries' \subseteq entries
                   /\ op'.by # "worker"
  PROVE  QuietInv'
<1>1. shuttingDown' => pending' = {}
  BY DEF QuietAll, QuietInv
<1>2. ui'.at = "closed" => ui'.do = "shutdown" /\ ui'.late = {}
  BY DEF QuietAll, QuietInv
<1>3. \A h \in Goroutines : Settling(h)' => h # g /\ Settling(h)
  BY DEF Settling, At
<1>4. \A h \in Goroutines : Settling(h)' => ui'.do = "answer" /\ ui'.ctx = {h}
  BY <1>3 DEF QuietAll, QuietInv
<1>5. ShutdownQuiesces'
  <2>1. SUFFICES ASSUME ui'.do = "shutdown", ui'.at = "closed" PROVE ShutdownQuiesces'
    BY DEF ShutdownQuiesces, UIAt
  <2>2. Closed
    BY <2>1 DEF Closed, UIAt
  <2>3. entries' = {} /\ pending' = {} /\ op'.by # "worker"
    <3>1. entries = {}
      BY <2>2 DEF QuietAll, QuietInv, ShutdownQuiesces, Closed
    <3>2. shuttingDown
      BY <2>2 DEF QuietAll, ConflictInv, Closed, UIAt
    <3>3. QED
      BY <1>1, <2>2, <3>1, <3>2
  <2>4. \A h \in Goroutines : task'[h] # NoId => phase'[h] \in Starters
    BY <2>2, ClosedWorkers
  <2>5. \A h \in Goroutines : ~OnWaitGroup(h)'
    BY <2>4 DEF OnWaitGroup, Starters, Registered, Finalizing
  <2>6. QED
    BY <2>3, <2>5 DEF ShutdownQuiesces
<1>6. QED
  BY <1>1, <1>2, <1>4, <1>5 DEF QuietInv

\* A step that leaves every goroutine where it is.
LEMMA QuietStays ==
  ASSUME QuietAll, UNCHANGED <<task, phase, entries, pending, shuttingDown>>,
         \/ /\ ui'.do = ui.do /\ ui'.at = ui.at /\ ui'.late = ui.late
            /\ ui.do = "answer" => ui'.ctx = ui.ctx
         \/ ui.do # "answer" /\ ui'.at # "closed",
         Closed => op'.by # "worker"
  PROVE  QuietInv'
BY DEF QuietAll, QuietInv, ShutdownQuiesces, Settling, At, UIAt, OnWaitGroup, Closed

\* QuietInv is inductive, given the invariants before it.
LEMMA QuietPreserved == QuietAll /\ [Next]_allVars => QuietInv'
<1> SUFFICES ASSUME QuietAll, [Next]_allVars PROVE QuietInv'
  OBVIOUS
<1>0. /\ \A g \in Goroutines : task[g] = NoId => phase[g] = "spawned"
      /\ AppInv /\ phase \in [Goroutines -> Phases] /\ ui \in UI
      /\ Closed => op.by # "worker"
  BY DEF QuietAll, AppInv, WorkerInv, AppShape, WorkersTypeOK, QuietInv, ShutdownQuiesces, Closed
\* No worker is anywhere but before its registration, once Shutdown has returned.
<1>a. ASSUME NEW g \in Goroutines, NEW from \in Registered \cup Finalizing \cup Prompts, At(g, from)
      PROVE  ~Closed
  <2>1. from \notin Starters
    BY DEF Starters, Registered, Finalizing, Prompts
  <2>2. QED
    BY <1>a, <2>1, ClosedWorkers DEF At
<1>1. CASE Manager
  <2>1. UNCHANGED <<phase, entries, pending, shuttingDown, ui>>
    BY <1>1 DEF Manager, workerVars, appVars
  <2>2. op'.by \in {op.by, "none", "main"}
    <3>1. op \in Op
      BY <1>0 DEF AppInv, ManagerInv, TypeOK
    <3>2. CASE Mark
      BY <3>1, <3>2 DEF Mark, Idle, Op
    <3>3. CASE DrainStart
      <4>1. PICK n : op' = [op EXCEPT !.at = "mark", !.id = n, !.seen = @ \cup {n}]
        BY <3>3 DEF DrainStart
      <4>2. QED
        BY <3>1, <4>1 DEF Op
    <3>4. CASE Reconcile \/ Drain \/ Enqueue \/ Put \/ DrainSkip \/ DrainReturn
      BY <3>1, <3>4 DEF Reconcile, Drain, Enqueue, Put, DrainSkip, DrainReturn, Idle, Op
    <3>5. QED
      BY <1>1, <3>2, <3>3, <3>4 DEF Manager, ManagerStep
  <2>3. ASSUME NEW g \in Goroutines, Hands(g) PROVE QuietInv'
    <3>1. phase'[g] = "spawned"
      BY <1>0, <2>1, <2>3 DEF Hands
    <3>2. phase'[g] \in Starters /\ phase'[g] \notin {"placing", "discarding"}
      BY <3>1 DEF Starters
    <3>3. QED
      BY <1>0, <2>1, <2>2, <2>3, <3>2, QuietGoes DEF Hands
  <2>4. QED
    BY <1>0, <1>1, <2>1, <2>2, <2>3, ManagerTasks, QuietStays
<1>2. CASE Plain
  <2>1. /\ UNCHANGED <<task, phase, entries, pending, shuttingDown>>
        /\ \/ ui' = ui
           \/ /\ ui.do \notin {"answer", "shutdown"} /\ ui'.do \notin {"answer", "shutdown"}
              /\ ui.at # "closed" => ui'.at # "closed"
        /\ op'.by \in {op.by, "ui", "scheduler", "add"}
    BY <1>0, <1>2, PlainLeaves
  <2>2. CASE ui' = ui
    BY <1>0, <2>1, <2>2, QuietStays
  <2>3. CASE ui.do \notin {"answer", "shutdown"} /\ ui'.do \notin {"answer", "shutdown"}
    <3>1. ui.at # "closed"
      BY <2>3 DEF QuietAll, QuietInv
    <3>2. QED
      BY <2>1, <2>3, <3>1, QuietStays DEF Closed, UIAt
  <2>4. QED
    BY <2>1, <2>2, <2>3
<1>3. ASSUME NEW g \in Goroutines, Worker(g) PROVE QuietInv'
  <2>0. UNCHANGED ui
    BY <1>3 DEF Worker, appVars
  \* g goes on; only the first steps are still possible once Shutdown has returned.
  <2>1. ASSUME UNCHANGED <<task, op, shuttingDown>>, pending' \subseteq pending,
               NEW to \in Phases, Goto(g, to), to \notin {"placing", "discarding"},
               Closed => to \in Starters /\ entries' \subseteq entries
        PROVE  QuietInv'
    <3>1. phase'[g] = to /\ \A h \in Goroutines \ {g} : phase'[h] = phase[h]
      BY <1>0, <2>1 DEF Goto
    <3>2. QED
      BY <1>0, <2>0, <2>1, <3>1, QuietGoes
  <2>2. CASE Announce(g) \/ Complete(g) \/ Fail(g) \/ LeaveResumable(g)
    <3>1. ~Closed
      BY <1>a, <2>2 DEF Announce, Complete, Fail, LeaveResumable, WriteStatus, Registered, Finalizing
    <3>2. QED
      BY <2>1, <2>2, <3>1 DEF Announce, Complete, Fail, LeaveResumable, WriteStatus, queueVars, Phases,
         Registered, Finalizing
  <2>3. CASE Fetch(g) \/ Return(g) \/ Unregister(g) \/ MoveFile(g)
    <3>1. ~Closed
      BY <1>a, <2>3 DEF Fetch, Return, Unregister, MoveFile, Registered, Finalizing
    <3>2. QED
      BY <2>1, <2>3, <3>1 DEF Fetch, Return, Unregister, MoveFile, vars, Phases, Registered, Finalizing
  <2>4. CASE Conflict(g)
    <3>1. ~Closed
      BY <1>a, <2>4 DEF Conflict, Finalizing
    <3>2. CASE shuttingDown
      BY <2>1, <2>4, <3>1, <3>2 DEF Conflict, vars, Phases, Finalizing
    <3>3. CASE ~shuttingDown
      <4>1. /\ phase'[g] = "prompting" /\ \A h \in Goroutines \ {g} : phase'[h] = phase[h]
            /\ UNCHANGED <<task, shuttingDown>>
        BY <1>0, <2>4, <3>3 DEF Conflict, Goto, vars
      <4>2. QED
        BY <2>0, <3>1, <3>3, <4>1, QuietGoes
    <3>4. QED
      BY <3>2, <3>3
  <2>5. CASE Load(g) \/ EarlyFail(g)
    BY <2>1, <2>5 DEF Load, EarlyFail, WriteStatus, vars, queueVars, Phases, Starters
  <2>6. CASE Register(g)
    <3>1. task[g] # NoId
      BY <2>6 DEF Register, At
    <3>2. Closed => shuttingDown
      BY <3>1, ClosedWorkers
    <3>3. QED
      BY <2>1, <2>6, <3>2 DEF Register, vars, Phases, Starters, Registered
  <2>7. QED
    BY <1>3, <2>2, <2>3, <2>4, <2>5, <2>6 DEF Worker, WorkerStep
<1>4. ASSUME NEW g \in Goroutines, NEW c, Release(g, c), UNCHANGED <<entries, pending, shuttingDown>>,
             Closed => c # "worker",
             \/ /\ ui'.do = ui.do /\ ui'.at = ui.at /\ ui'.late = ui.late
                /\ ui.do = "answer" => ui'.ctx = ui.ctx
             \/ /\ \A h \in Goroutines \ {g} : ~Settling(h)
                /\ ui'.at # "closed"
      PROVE  QuietInv'
  <2>1. /\ task'[g] = NoId /\ \A h \in Goroutines \ {g} : task'[h] = task[h] /\ phase'[h] = phase[h]
    BY <1>0, <1>4, Released
  <2>2. op' = op \/ op'.by = c
    BY <1>4 DEF Release, OnDone
  <2>3. QED
    BY <1>0, <1>4, <2>1, <2>2, QuietGoes
<1>5. ASSUME NEW g \in Goroutines, WorkerEnd(g) PROVE QuietInv'
  <2>1. /\ ui'.do = ui.do /\ ui'.at = ui.at /\ ui'.late = ui.late /\ ui'.ctx = ui.ctx \ {g}
        /\ ui.do = "answer" => g \notin ui.ctx
    BY <1>0, <1>5 DEF WorkerEnd, UI
  <2>2. At(g, "ending") => ~Closed
    BY <1>a DEF Finalizing
  <2>3. \E c \in {"worker", "starter"} : Release(g, c) /\ (Closed => c # "worker")
    BY <1>5, <2>2 DEF WorkerEnd, End
  <2>4. UNCHANGED <<entries, pending, shuttingDown>>
    BY <1>5 DEF WorkerEnd, End
  <2>5. QED
    BY <1>4, <2>1, <2>3, <2>4
<1>6. ASSUME NEW g \in Goroutines, NEW to \in {"placing", "discarding"}, Answer(g, to)
      PROVE  QuietInv'
  <2>1. /\ phase'[g] = to /\ task[g] # NoId /\ UNCHANGED <<task, shuttingDown, entries>>
        /\ \A h \in Goroutines \ {g} : phase'[h] = phase[h]
        /\ pending' = pending \ {task[g]}
    BY <1>0, <1>6 DEF Answer, Goto, At, vars
  <2>2. ui.do = "none" /\ ui'.do = "answer" /\ ui'.at = "none" /\ ui'.ctx = {g}
    BY <1>6 DEF Answer, UIFree, NoUI
  <2>3. \A h \in Goroutines : ~Settling(h)
    BY <2>2 DEF QuietAll, QuietInv
  <2>4. \A h \in Goroutines : Settling(h)' => h = g
    BY <2>1, <2>3 DEF Settling, At
  <2>5. QED
    BY <2>1, <2>2, <2>4 DEF QuietAll, QuietInv, ShutdownQuiesces, UIAt
<1>7. ASSUME NEW g \in Goroutines, Settle(g) \/ Discard(g) PROVE QuietInv'
  <2>1. ~Closed
    BY <1>a, <1>7 DEF Settle, Discard, WriteStatus, Prompts
  <2>2. /\ UNCHANGED <<task, shuttingDown, entries, pending, ui>>
        /\ \E to \in {"completing", "failing", "ending"} : Goto(g, to)
    BY <1>7 DEF Settle, Discard, WriteStatus, vars, queueVars, appVars
  <2>3. /\ phase'[g] \notin {"placing", "discarding"}
        /\ \A h \in Goroutines \ {g} : phase'[h] = phase[h]
    BY <1>0, <2>2 DEF Goto
  <2>4. QED
    BY <2>1, <2>2, <2>3, QuietGoes
<1>8. ASSUME NEW g \in Goroutines, AnswerReturn(g) PROVE QuietInv'
  <2>1. ui.do = "answer" /\ ui.ctx = {g} /\ ui' = NoUI /\ Release(g, "ui")
        /\ UNCHANGED <<entries, pending, shuttingDown>>
    BY <1>8 DEF AnswerReturn
  <2>2. \A h \in Goroutines \ {g} : ~Settling(h)
    BY <2>1 DEF QuietAll, QuietInv
  <2>3. ui'.at # "closed"
    BY <2>1 DEF NoUI
  <2>4. QED
    BY <1>4, <2>1, <2>2, <2>3
<1>9. ASSUME NEW g \in Goroutines, ShutdownRelease(g) PROVE QuietInv'
  <2>1. /\ ui.do = "shutdown" /\ ui'.at = "visit" /\ Release(g, "ui")
        /\ UNCHANGED <<entries, pending, shuttingDown>>
    BY <1>0, <1>9 DEF ShutdownRelease, UIAt, UI
  <2>2. \A h \in Goroutines \ {g} : ~Settling(h)
    BY <2>1 DEF QuietAll, QuietInv
  <2>3. QED
    BY <1>4, <2>1, <2>2
<1>10. CASE Shutdown
  <2>1. /\ ui.do = "none" /\ ui'.at = "visit"
        /\ pending' = {} /\ UNCHANGED <<task, phase>>
    BY <1>10 DEF Shutdown, UIFree, NoUI, vars
  <2>2. \A h \in Goroutines : ~Settling(h)'
    BY <2>1 DEF QuietAll, QuietInv, Settling, At
  <2>3. QED
    BY <2>1, <2>2 DEF QuietInv, ShutdownQuiesces, UIAt
<1>11. CASE ShutdownVisits \/ ShutdownWrite
  <2>1. /\ ui.do = "shutdown" /\ ui.at # "closed"
        /\ UNCHANGED <<task, phase, entries, pending, shuttingDown>>
    BY <1>11 DEF ShutdownVisits, ShutdownStop, ShutdownPending, ShutdownWrite, UIAt, UIWrites,
       CancelContexts, vars, queueVars, workerVars
  <2>2. ui'.at # "closed"
    <3>1. ASSUME NEW id, ShutdownStop(id) PROVE ui'.at = "write"
      BY <1>0, <3>1 DEF ShutdownStop, UI
    <3>2. ASSUME NEW id, ShutdownPending(id) PROVE ui'.at = "release"
      BY <1>0, <3>2 DEF ShutdownPending, UI
    <3>3. ASSUME ShutdownWrite PROVE ui'.at = "visit"
      BY <1>0, <3>3 DEF ShutdownWrite, UI
    <3>4. QED
      BY <1>11, <3>1, <3>2, <3>3 DEF ShutdownVisits
  <2>3. QED
    BY <2>1, <2>2, QuietStays DEF Closed, UIAt
\* dp.workers.Wait has seen every worker off; the registry is empty with them.
<1>12. CASE ShutdownReturn
  <2>1. /\ ui.do = "shutdown" /\ ui'.do = "shutdown" /\ ui'.at = "closed" /\ ui'.late = {}
        /\ op.by # "worker" /\ \A g \in Goroutines : ~OnWaitGroup(g)
        /\ UNCHANGED <<task, phase, entries, pending, shuttingDown, op>>
    BY <1>12 DEF ShutdownReturn, UIAt, NoUI, UILooks, vars, workerVars
  <2>2. \A h \in Goroutines : ~Settling(h)'
    BY <2>1 DEF QuietAll, QuietInv, Settling, At
  <2>3. entries = {}
    BY <1>0, <2>1 DEF AppInv, AppShape, WorkersTypeOK, WorkerInv, EntriesAreWorkers, OnWaitGroup
  <2>4. pending = {}
    BY <2>1 DEF QuietAll, QuietInv, ConflictInv
  <2>5. \A g \in Goroutines : ~OnWaitGroup(g)'
    BY <2>1 DEF OnWaitGroup
  <2>6. QED
    BY <2>1, <2>2, <2>3, <2>4, <2>5 DEF QuietInv, ShutdownQuiesces
<1>13. CASE Exit
  <2>1. /\ ui'.at = "none" /\ pending' = {} /\ \A g \in Goroutines : task'[g] = NoId
    BY <1>13 DEF Exit, ProcessEnds, NoUI
  <2>2. QED
    BY <2>1 DEF QuietInv, ShutdownQuiesces, Settling, At, UIAt
<1>14. CASE UNCHANGED allVars
  BY <1>0, <1>14, QuietStays DEF allVars, vars, workerVars, appVars
<1>15. QED
  BY <1>1, <1>2, <1>3, <1>5, <1>6, <1>7, <1>8, <1>9, <1>10, <1>11, <1>12, <1>13, <1>14, NextCases
     DEF Resolves

\* Nothing has shut down in a fresh process.
LEMMA QuietInit == Init => QuietInv
BY DEF Init, QueueInit, WorkersInit, NoUI, QuietInv, ShutdownQuiesces, Settling, At, UIAt

\* When Shutdown has returned nobody is left who writes a .part file, moves a
\* finished one or waits for an answer, whatever ran when it was called.
THEOREM ShutdownIsQuiet == Spec => []ShutdownQuiesces
<1>1. Init => QuietAll
  BY AppInit, ConflictInit, QuietInit DEF QuietAll
<1>2. QuietAll /\ [Next]_allVars => QuietAll'
  BY AppPreserved, ConflictPreserved, QuietPreserved DEF QuietAll
<1>3. QuietAll => ShutdownQuiesces
  BY DEF QuietAll, QuietInv
<1>4. QED
  BY <1>1, <1>2, <1>3, PTL DEF Spec

-----------------------------------------------------------------------------
(* What the statements may write into the status column.                   *)

Has(t, s) == {id \in Ids : Live(t, id) /\ t[id].status = s}
Kept(t, s) == Has(t, s) \subseteq Has(db, s)

\* A statement makes no row live with a status other than the one it writes.
LEMMA StatementsKeep ==
  ASSUME db \in Table, NEW id \in Ids, NEW x \in {"completed", "downloading"}
  PROVE  /\ Kept(CreateDownloadWithChunks(db, id), x)
         /\ \A s \in Status \ {x} : Kept(UpdateDownloadStatus(db, id, s), x)
         /\ Has(UpdateDownloadStatus(db, id, x), x) \subseteq Has(db, x) \cup {id}
         /\ \A b \in BOOLEAN : Kept(SetScheduledAt(db, id, b), x)
         /\ \A p \in Nat : Kept(SetQueuePosition(db, id, p), x)
         /\ \A p \in Nat : Kept(EnqueueDownload(db, id, p), x)
         /\ x = "completed" => Kept(MarkDownloading(db, id), x)
         /\ Has(MarkDownloading(db, id), x) \subseteq Has(db, x) \cup {id}
         /\ Kept(DeleteDownload(db, id), x)
         /\ Kept(RestoreDownload(db, id), x)
         /\ Kept(PurgeDownload(db, id), x)
         /\ Kept(ResetProgress(db, id, "pending"), x)
         /\ Kept(ReconcileInterrupted(db), x)
<1> USE DEF Has, Kept, Live, Exists
<1>0. \A j \in Ids : db[j] \in Row
  BY DEF Table
\* A row that a statement replaces is another one, or keeps its status.
<1>1. ASSUME NEW t, NEW r,
             t = [db EXCEPT ![id] = r],
             r.life = "live" /\ r.status = x => db[id].life = "live" /\ db[id].status = x
      PROVE  Kept(t, x)
  <2>1. t[id] = r /\ \A j \in Ids \ {id} : t[j] = db[j]
    BY <1>1 DEF Table
  <2>2. QED
    BY <1>1, <2>1
<1>2. Kept(CreateDownloadWithChunks(db, id), x)
  BY <1>1 DEF CreateDownloadWithChunks, NoRow
<1>3. ASSUME NEW s \in Status \ {x} PROVE Kept(UpdateDownloadStatus(db, id, s), x)
  <2>1. [db[id] EXCEPT !.status = s].status = s
    BY <1>0 DEF Row
  <2>2. QED
    BY <1>1, <2>1 DEF UpdateDownloadStatus
<1>4. Has(UpdateDownloadStatus(db, id, x), x) \subseteq Has(db, x) \cup {id}
  BY DEF UpdateDownloadStatus, Table
<1>5. ASSUME NEW b \in BOOLEAN PROVE Kept(SetScheduledAt(db, id, b), x)
  BY <1>0, <1>1 DEF SetScheduledAt, Row
<1>6. ASSUME NEW p \in Nat PROVE Kept(SetQueuePosition(db, id, p), x)
  BY <1>0, <1>1 DEF SetQueuePosition, Row
<1>7. ASSUME NEW p \in Nat PROVE Kept(EnqueueDownload(db, id, p), x)
  <2>1. [[db[id] EXCEPT !.status = "queued"] EXCEPT !.pos = p].status = "queued"
    BY <1>0 DEF Row
  <2>2. EnqueueDownload(db, id, p) =
          IF Live(db, id) THEN [db EXCEPT ![id] = [[@ EXCEPT !.status = "queued"] EXCEPT !.pos = p]]
          ELSE db
    BY DEF EnqueueDownload, Table
  <2>3. QED
    BY <1>1, <2>1, <2>2
<1>8. /\ x = "completed" => Kept(MarkDownloading(db, id), x)
      /\ Has(MarkDownloading(db, id), x) \subseteq Has(db, x) \cup {id}
  <2>1. [[db[id] EXCEPT !.status = "downloading"] EXCEPT !.pos = 0].status = "downloading"
    BY <1>0 DEF Row
  <2>2. MarkDownloading(db, id) =
          IF Exists(db, id)
            THEN [db EXCEPT ![id] = [[@ EXCEPT !.status = "downloading"] EXCEPT !.pos = 0]] ELSE db
    BY DEF MarkDownloading, Table
  <2>3. \A j \in Ids \ {id} : MarkDownloading(db, id)[j] = db[j]
    BY <2>2 DEF Table
  <2>4. QED
    BY <1>1, <2>1, <2>2, <2>3
<1>9. Kept(DeleteDownload(db, id), x)
  BY <1>0, <1>1 DEF DeleteDownload, Row
<1>10. Kept(RestoreDownload(db, id), x)
  <2>1. [[NoRow EXCEPT !.life = "live"] EXCEPT !.status = "paused"].status = "paused"
    BY DEF NoRow
  <2>2. QED
    BY <1>1, <2>1 DEF RestoreDownload
<1>11. Kept(PurgeDownload(db, id), x)
  BY <1>1 DEF PurgeDownload, NoRow
<1>12. Kept(ResetProgress(db, id, "pending"), x)
  <2>1. [[db[id] EXCEPT !.status = "pending"] EXCEPT !.pos = 0].status = "pending"
    BY <1>0 DEF Row
  <2>2. ResetProgress(db, id, "pending") =
          IF Live(db, id)
            THEN [db EXCEPT ![id] = [[@ EXCEPT !.status = "pending"] EXCEPT !.pos = 0]] ELSE db
    BY DEF ResetProgress, Table
  <2>3. QED
    BY <1>1, <2>1, <2>2
<1>13. Kept(ReconcileInterrupted(db), x)
  <2>1. ASSUME NEW j \in Ids PROVE [db[j] EXCEPT !.status = "paused"].status = "paused"
    BY <1>0 DEF Row
  <2>2. QED
    BY <2>1 DEF ReconcileInterrupted
<1>14. QED
  BY <1>2, <1>3, <1>4, <1>5, <1>6, <1>7, <1>8, <1>9, <1>10, <1>11, <1>12, <1>13

\* A row once created exists for ever, and one that is gone comes back by the
\* history page only.
Gone(t, id) == t[id].life \in {"deleted", "purged"}
LivesOn == \A id \in Ids : /\ db[id].life # "none" => db'[id].life # "none"
                           /\ "history" \notin Ops /\ Gone(db, id) => Gone(db', id)
LEMMA StatementsLive ==
  ASSUME db \in Table, NEW id \in Ids,
         \/ UNCHANGED db
         \/ db[id].life = "none" /\ db' = CreateDownloadWithChunks(db, id)
         \/ \E s \in Status : db' = UpdateDownloadStatus(db, id, s)
         \/ \E b \in BOOLEAN : db' = SetScheduledAt(db, id, b)
         \/ \E p \in Nat : db' = SetQueuePosition(db, id, p)
         \/ \E p \in Nat : db' = EnqueueDownload(db, id, p)
         \/ db' = MarkDownloading(db, id)
         \/ db' = DeleteDownload(db, id)
         \/ "history" \in Ops /\ db' = RestoreDownload(db, id)
         \/ db' = PurgeDownload(db, id)
         \/ db' = ResetProgress(db, id, "pending")
         \/ db' = ReconcileInterrupted(db)
  PROVE  LivesOn
<1>0. \A j \in Ids : db[j] \in Row
  BY DEF Table
<1>1. ASSUME \A j \in Ids : db'[j].life = db[j].life PROVE LivesOn
  BY <1>1 DEF LivesOn, Gone
<1>2. CASE \E s \in Status : db' = UpdateDownloadStatus(db, id, s)
  BY <1>0, <1>1, <1>2 DEF UpdateDownloadStatus, Table, Row
<1>3. CASE \E b \in BOOLEAN : db' = SetScheduledAt(db, id, b)
  BY <1>0, <1>1, <1>3 DEF SetScheduledAt, Table, Row
<1>4. CASE \E p \in Nat : db' = SetQueuePosition(db, id, p)
  BY <1>0, <1>1, <1>4 DEF SetQueuePosition, Table, Row
\* Two columns at once.
<1>5. ASSUME NEW s, NEW p, db' = [db EXCEPT ![id] = [[@ EXCEPT !.status = s] EXCEPT !.pos = p]]
      PROVE  LivesOn
  <2>1. /\ db'[id] = [[db[id] EXCEPT !.status = s] EXCEPT !.pos = p]
        /\ \A j \in Ids \ {id} : db'[j] = db[j]
    BY <1>5 DEF Table
  <2>2. [db[id] EXCEPT !.status = s].life = db[id].life
    BY <1>0 DEF Row
  <2>3. db'[id].life = db[id].life
    BY <1>0, <2>1, <2>2 DEF Row
  <2>4. QED
    BY <1>1, <2>1, <2>3
<1>6. CASE \E p \in Nat : db' = EnqueueDownload(db, id, p)
  <2>1. PICK p \in Nat : db' = EnqueueDownload(db, id, p)
    BY <1>6
  <2>2. \/ UNCHANGED db
        \/ db' = [db EXCEPT ![id] = [[@ EXCEPT !.status = "queued"] EXCEPT !.pos = p]]
    BY <2>1 DEF EnqueueDownload, Table
  <2>3. QED
    BY <1>1, <1>5, <2>2
<1>7. CASE db' = MarkDownloading(db, id)
  <2>1. \/ UNCHANGED db
        \/ db' = [db EXCEPT ![id] = [[@ EXCEPT !.status = "downloading"] EXCEPT !.pos = 0]]
    BY <1>7 DEF MarkDownloading, Table
  <2>2. QED
    BY <1>1, <1>5, <2>1
<1>8. CASE db' = ResetProgress(db, id, "pending")
  <2>1. \/ UNCHANGED db
        \/ db' = [db EXCEPT ![id] = [[@ EXCEPT !.status = "pending"] EXCEPT !.pos = 0]]
    BY <1>8 DEF ResetProgress, Table
  <2>2. QED
    BY <1>1, <1>5, <2>1
<1>9. CASE db' = ReconcileInterrupted(db)
  <2>1. ASSUME NEW j \in Ids PROVE [db[j] EXCEPT !.status = "paused"].life = db[j].life
    BY <1>0 DEF Row
  <2>2. QED
    BY <1>1, <1>9, <2>1 DEF ReconcileInterrupted
\* The life of one row.
<1>10. ASSUME NEW r, db' = [db EXCEPT ![id] = r],
              \/ db[id].life = "none" /\ r.life # "none"
              \/ db[id].life \in {"live", "deleted"} /\ r.life \in {"deleted", "purged"}
              \/ "history" \in Ops /\ r.life # "none"
       PROVE  LivesOn
  <2>1. db'[id] = r /\ \A j \in Ids \ {id} : db'[j] = db[j]
    BY <1>10 DEF Table
  <2>2. QED
    BY <1>10, <2>1 DEF LivesOn, Gone
<1>11. CASE db[id].life = "none" /\ db' = CreateDownloadWithChunks(db, id)
  BY <1>10, <1>11 DEF CreateDownloadWithChunks, NoRow
<1>12. CASE db' = DeleteDownload(db, id)
  <2>1. [db[id] EXCEPT !.life = "deleted"].life = "deleted"
    BY <1>0 DEF Row
  <2>2. \/ UNCHANGED db
        \/ db[id].life = "live" /\ db' = [db EXCEPT ![id] = [@ EXCEPT !.life = "deleted"]]
    BY <1>12 DEF DeleteDownload, Live, Table
  <2>3. QED
    BY <1>1, <1>10, <2>1, <2>2
<1>13. CASE "history" \in Ops /\ db' = RestoreDownload(db, id)
  <2>1. [[NoRow EXCEPT !.life = "live"] EXCEPT !.status = "paused"].life = "live"
    BY DEF NoRow
  <2>2. QED
    BY <1>1, <1>10, <1>13, <2>1 DEF RestoreDownload
<1>14. CASE db' = PurgeDownload(db, id)
  <2>1. [NoRow EXCEPT !.life = "purged"].life = "purged"
    BY DEF NoRow
  <2>2. QED
    BY <1>1, <1>10, <1>14, <2>1 DEF PurgeDownload
<1>15. CASE UNCHANGED db
  BY <1>1, <1>15
<1>16. QED
  BY <1>2, <1>3, <1>4, <1>6, <1>7, <1>8, <1>9, <1>11, <1>12, <1>13, <1>14, <1>15

\* Nothing becomes completed or downloading, and nothing comes back.
AllKept == Kept(db', "completed") /\ Kept(db', "downloading") /\ LivesOn
LEMMA KeptBy ==
  ASSUME db \in Table, NEW id \in Ids,
         \/ UNCHANGED db
         \/ db[id].life = "none" /\ db' = CreateDownloadWithChunks(db, id)
         \/ \E s \in Status \ {"completed", "downloading"} : db' = UpdateDownloadStatus(db, id, s)
         \/ \E b \in BOOLEAN : db' = SetScheduledAt(db, id, b)
         \/ \E p \in Nat : db' = SetQueuePosition(db, id, p)
         \/ \E p \in Nat : db' = EnqueueDownload(db, id, p)
         \/ db' = DeleteDownload(db, id)
         \/ "history" \in Ops /\ db' = RestoreDownload(db, id)
         \/ db' = PurgeDownload(db, id)
         \/ db' = ResetProgress(db, id, "pending")
  PROVE  AllKept
<1>1. ASSUME NEW x \in {"completed", "downloading"} PROVE Kept(db', x)
  <2>1. CASE UNCHANGED db
    BY <2>1 DEF Kept
  <2>2. CASE \E s \in Status \ {"completed", "downloading"} : db' = UpdateDownloadStatus(db, id, s)
    BY <2>2, StatementsKeep
  <2>3. CASE \/ \E b \in BOOLEAN : db' = SetScheduledAt(db, id, b)
             \/ \E p \in Nat : db' = SetQueuePosition(db, id, p)
             \/ \E p \in Nat : db' = EnqueueDownload(db, id, p)
    BY <2>3, StatementsKeep
  <2>4. QED
    BY <2>1, <2>2, <2>3, StatementsKeep
<1>2. LivesOn
  BY StatementsLive
<1>3. QED
  BY <1>1, <1>2 DEF AllKept

\* A row becomes completed or downloading by three statements only.
LEMMA CompletedBy ==
  ASSUME AppInv, NEW g \in Goroutines, Complete(g)
  PROVE  Has(db', "completed") \subseteq Has(db, "completed") \cup {task[g]} /\ Kept(db', "downloading")
         /\ LivesOn
<1>1. task[g] \in Ids /\ db \in Table
  BY WorkersAreUp DEF Complete, WriteStatus, At, AppInv, ManagerInv, TypeOK, Table
<1>2. db' = UpdateDownloadStatus(db, task[g], "completed")
  BY DEF Complete, WriteStatus
<1>3. "completed" \in Status \ {"downloading"}
  BY DEF Status
<1>4. LivesOn
  BY <1>1, <1>2, <1>3, StatementsLive
<1>5. QED
  BY <1>1, <1>2, <1>3, <1>4, StatementsKeep

\* A row becomes downloading by its own status write or mark only.
LEMMA DownloadingBy ==
  ASSUME AppInv, NEW id \in Ids,
         \/ db' = UpdateDownloadStatus(db, id, "downloading")
         \/ db' = MarkDownloading(db, id)
  PROVE  Has(db', "downloading") \subseteq Has(db, "downloading") \cup {id} /\ Kept(db', "completed")
         /\ LivesOn
<1>1. db \in Table
  BY DEF AppInv, ManagerInv, TypeOK, Table
<1>2. "downloading" \in Status \ {"completed"}
  BY DEF Status
<1>3. LivesOn
  BY <1>1, <1>2, StatementsLive
<1>4. CASE db' = UpdateDownloadStatus(db, id, "downloading")
  BY <1>1, <1>2, <1>3, <1>4, StatementsKeep
<1>5. CASE db' = MarkDownloading(db, id)
  BY <1>1, <1>3, <1>5, StatementsKeep
<1>6. QED
  BY <1>4, <1>5

\* The other steps of a goroutine, or for it.
LEMMA WorkersKeep ==
  ASSUME AppInv, NEW g \in Goroutines, Worker(g) \/ WorkerEnd(g) \/ Resolves(g),
         ~Complete(g), ~Announce(g)
  PROVE  AllKept
<1>0. db \in Table /\ (task[g] # NoId => task[g] \in Ids)
  BY WorkersAreUp DEF AppInv, ManagerInv, TypeOK, Table
<1>1. ASSUME UNCHANGED db PROVE AllKept
  BY <1>1 DEF AllKept, Kept, LivesOn
<1>2. ASSUME NEW from, NEW s \in Status \ {"completed", "downloading"}, NEW to, WriteStatus(g, from, s, to)
      PROVE  AllKept
  <2>1. db' = UpdateDownloadStatus(db, task[g], s) /\ task[g] \in Ids
    BY <1>0, <1>2 DEF WriteStatus, At
  <2>2. QED
    BY <1>0, <2>1, KeptBy
<1>3. ASSUME NEW c, task[g] # NoId, Release(g, c) PROVE AllKept
  <2>1. UNCHANGED db \/ \E p \in Nat : db' = SetQueuePosition(db, task[g], p)
    BY <1>3 DEF Release, OnDone
  <2>2. QED
    BY <1>0, <1>1, <1>3, <2>1, KeptBy
<1>4. CASE Worker(g)
  <2>1. CASE EarlyFail(g) \/ Fail(g) \/ LeaveResumable(g)
    BY <1>2, <2>1 DEF EarlyFail, Fail, LeaveResumable, Status
  <2>2. CASE \/ Load(g) \/ Register(g) \/ Fetch(g) \/ Return(g) \/ Unregister(g)
             \/ MoveFile(g) \/ Conflict(g)
    BY <1>1, <2>2 DEF Load, Register, Fetch, Return, Unregister, MoveFile, Conflict, vars
  <2>3. QED
    BY <1>4, <2>1, <2>2 DEF Worker, WorkerStep
<1>5. CASE WorkerEnd(g)
  BY <1>3, <1>5 DEF WorkerEnd, End, At
<1>6. CASE Resolves(g)
  <2>1. CASE Discard(g)
    BY <1>2, <2>1 DEF Discard, Status
  <2>2. CASE (\E to \in {"placing", "discarding"} : Answer(g, to)) \/ Settle(g)
    BY <1>1, <2>2 DEF Answer, Settle, vars
  <2>3. CASE AnswerReturn(g) \/ ShutdownRelease(g)
    BY <1>3, <2>3 DEF AnswerReturn, ShutdownRelease, At
  <2>4. QED
    BY <1>6, <2>1, <2>2, <2>3 DEF Resolves
<1>7. QED
  BY <1>4, <1>5, <1>6

\* The manager's methods, but for MarkDownloading.
LEMMA ManagerKeeps ==
  ASSUME AppInv, Manager, ~Mark
  PROVE  AllKept
<1>0. db \in Table
  BY DEF AppInv, ManagerInv, TypeOK, Table
<1>1. CASE UNCHANGED db
  BY <1>1 DEF AllKept, Kept, LivesOn
<1>2. CASE Reconcile
  <2>1. CASE Ids = {}
    BY <2>1 DEF AllKept, Kept, Has, LivesOn
  <2>2. ASSUME NEW id \in Ids PROVE AllKept
    BY <1>0, <1>2, StatementsKeep, StatementsLive DEF Reconcile, AllKept
  <2>3. QED
    BY <2>1, <2>2
<1>3. CASE Put
  <2>1. op.id \in Ids
    BY <1>3 DEF Put, AppInv, ManagerInv, TypeOK
  <2>2. UNCHANGED db \/ \E p \in Nat : db' = EnqueueDownload(db, op.id, p)
    BY <1>3, StorageAssumption DEF Put
  <2>3. QED
    BY <1>0, <2>1, <2>2, KeptBy
<1>4. CASE DrainSkip
  <2>1. PICK n \in active : db' = SetQueuePosition(db, n, 0)
    BY <1>4 DEF DrainSkip
  <2>2. n \in Ids
    BY DEF AppInv, ManagerInv, TypeOK
  <2>3. QED
    BY <1>0, <2>1, <2>2, KeptBy
<1>5. QED
  BY <1>1, <1>2, <1>3, <1>4 DEF Manager, ManagerStep, Drain, Enqueue, DrainStart, DrainReturn

\* The handlers.
LEMMA PlainKeeps ==
  ASSUME AppInv, Plain
  PROVE  AllKept
<1>0. db \in Table
  BY DEF AppInv, ManagerInv, TypeOK, Table
<1>1. ASSUME UNCHANGED db PROVE AllKept
  BY <1>1 DEF AllKept, Kept, LivesOn
<1>2. ASSUME NEW id \in Ids, NEW s \in {"paused", "cancelled", "pending", "scheduled"},
             db' = UpdateDownloadStatus(db, id, s)
      PROVE  AllKept
  <2>1. s \in Status \ {"completed", "downloading"}
    BY DEF Status
  <2>2. QED
    BY <1>0, <1>2, <2>1, KeptBy
<1>3. HandlerIds
  BY DEF AppInv, AppShape
<1>4. CASE \/ \E id \in Ids : Pause({id}) \/ Resume(id)
           \/ \E id \in Ids : "history" \in Ops /\ History(id)
           \/ \E do \in {"cancel", "delete", "again"}, id \in Ids : Stop(do, id)
           \/ Pause({task[g] : g \in entries})
           \/ \E n \in 0..MaxLimit : SetLimit(n)
           \/ \E id \in Ids, to \in {"start", "schedule"} : AddCreate(id, to)
  <2>1. CASE \E id \in Ids : "history" \in Ops /\ History(id)
    BY <1>0, <2>1, KeptBy DEF History
  <2>2. CASE \E id \in Ids, to \in {"start", "schedule"} : AddCreate(id, to)
    <3>1. PICK id \in Ids : db[id].life = "none" /\ db' = CreateDownloadWithChunks(db, id)
      BY <2>2, StorageAssumption DEF AddCreate
    <3>2. QED
      BY <1>0, <3>1, KeptBy
  <2>3. QED
    BY <1>1, <1>4, <2>1, <2>2
       DEF Pause, Resume, Stop, SetLimit, TryStart, SetMaxConcurrent, UILooks, vars
<1>5. CASE \E id \in Ids : PauseVisit(id) \/ PauseWrite(id)
  BY <1>1, <1>2, <1>5 DEF PauseVisit, PauseWrite, UILooks, UIWrites, vars
<1>6. CASE PauseStop \/ PauseReturn \/ StopContexts \/ AgainClean \/ AgainStart
  BY <1>1, <1>6 DEF PauseStop, PauseReturn, StopContexts, AgainClean, AgainStart, TryStart,
     CancelContexts, UILooks, vars
<1>7. CASE CancelWrite \/ DeleteRemove \/ DeleteRow \/ AgainReset
  <2>1. ui.id \in Ids
    BY <1>3, <1>7 DEF HandlerIds, CancelWrite, DeleteRemove, DeleteRow, AgainReset, UIAt
  <2>2. CASE CancelWrite
    BY <1>2, <2>1, <2>2 DEF CancelWrite, UIWrites
  <2>3. CASE DeleteRemove
    <3>1. UNCHANGED db \/ \E p \in Nat : db' = SetQueuePosition(db, ui.id, p)
      BY <2>3 DEF DeleteRemove, Remove
    <3>2. QED
      BY <1>0, <1>1, <2>1, <3>1, KeptBy
  <2>4. CASE DeleteRow \/ AgainReset
    BY <1>0, <2>1, <2>4, KeptBy DEF DeleteRow, AgainReset
  <2>5. QED
    BY <1>7, <2>2, <2>3, <2>4
<1>8. CASE SchedList \/ SchedStep
  <2>1. CASE SchedUnset \/ SchedCall
    <3>1. sched.id \in Ids /\ \E b \in BOOLEAN : db' = SetScheduledAt(db, sched.id, b)
      BY <1>3, <2>1 DEF HandlerIds, SchedUnset, SchedCall, EnqueueScheduled
    <3>2. QED
      BY <1>0, <3>1, KeptBy
  <2>2. QED
    BY <1>1, <1>2, <1>8, <2>1 DEF SchedList, SchedStep, SchedPending, vars
<1>9. CASE AddStep
  <2>1. add.at # "none" /\ add.id \in Ids
    BY <1>3, <1>9 DEF HandlerIds, AddStep, AddStart, AddSchedule, AddSetTime
  <2>2. CASE AddSetTime
    <3>1. \E b \in BOOLEAN : db' = SetScheduledAt(db, add.id, b)
      BY <2>2 DEF AddSetTime
    <3>2. QED
      BY <1>0, <2>1, <3>1, KeptBy
  <2>3. QED
    BY <1>1, <1>2, <1>9, <2>1, <2>2 DEF AddStep, AddStart, AddSchedule, TryStart
<1>10. QED
  BY <1>4, <1>5, <1>6, <1>7, <1>8, <1>9 DEF Plain

\* Shutdown and the end of the process make no row completed or downloading.
LEMMA ShutdownKeeps ==
  ASSUME AppInv, Shutdown \/ ShutdownVisits \/ ShutdownWrite \/ ShutdownReturn \/ Exit
  PROVE  AllKept
<1>0. db \in Table
  BY DEF AppInv, ManagerInv, TypeOK, Table
<1>1. \/ UNCHANGED db
      \/ \E id \in Ids : db' = UpdateDownloadStatus(db, id, "paused")
  BY DEF Shutdown, ShutdownVisits, ShutdownStop, ShutdownPending, ShutdownWrite, ShutdownReturn, Exit,
     ProcessEnds, CancelContexts, UIWrites, UILooks, UIAt, vars, AppInv, AppShape, HandlerIds
<1>2. "paused" \in Status \ {"completed", "downloading"}
  BY DEF Status
<1>3. CASE UNCHANGED db
  BY <1>3 DEF AllKept, Kept, LivesOn
<1>4. QED
  BY <1>0, <1>1, <1>2, <1>3, KeptBy

-----------------------------------------------------------------------------
(* A completed download has its file.  Download Again takes the file away   *)
(* and cannot know that a worker it has just cancelled is past the last     *)
(* look at its context, hence the assumption.                               *)

CompletedInv ==
  /\ CompletedHasFile
  /\ \A g \in Goroutines : At(g, "completing") => task[g] \in published
  /\ ui.do # "again"

CompletedAll == AppInv /\ CompletedInv

\* Nothing but Download Again takes a file away, or begins it.
LEMMA PlainPublished ==
  ASSUME AppInv, "again" \notin Ops, ui.do # "again", Plain
  PROVE  UNCHANGED published /\ ui'.do # "again"
<1>0. ui \in UI
  BY DEF AppInv, AppShape
<1>1. ~AgainReset /\ ~AgainClean /\ ~AgainStart
  BY DEF AgainReset, AgainClean, AgainStart, UIAt
<1>2. ASSUME NEW ids, Pause(ids) PROVE UNCHANGED published /\ ui'.do # "again"
  BY <1>2 DEF Pause, NoUI, UILooks, workerVars
<1>3. ASSUME NEW do, do # "again", NEW id, Stop(do, id) PROVE UNCHANGED published /\ ui'.do # "again"
  BY <1>3 DEF Stop, NoUI, UILooks, workerVars
<1>4. CASE \/ \E id \in Ids : Resume(id) \/ History(id)
           \/ \E n \in 0..MaxLimit : SetLimit(n)
           \/ \E id \in Ids, to \in {"start", "schedule"} : AddCreate(id, to)
  BY <1>4 DEF Resume, History, SetLimit, AddCreate, workerVars, appVars
<1>5. CASE \E id \in Ids : PauseVisit(id) \/ PauseWrite(id)
  <2>1. PICK id \in Ids : PauseVisit(id) \/ PauseWrite(id)
    BY <1>5
  <2>2. UNCHANGED published
    BY <2>1 DEF PauseVisit, PauseWrite, UILooks, UIWrites, workerVars
  <2>3. CASE PauseVisit(id)
    BY <1>0, <2>2, <2>3 DEF PauseVisit, UI
  <2>4. CASE PauseWrite(id)
    BY <1>0, <2>2, <2>4 DEF PauseWrite, UI
  <2>5. QED
    BY <2>1, <2>2, <2>3, <2>4
<1>6. CASE PauseStop \/ StopContexts
  <2>1. UNCHANGED published
    BY <1>6 DEF PauseStop, StopContexts, CancelContexts
  <2>2. CASE PauseStop
    BY <1>0, <2>1, <2>2 DEF PauseStop, UI
  <2>3. CASE StopContexts
    BY <1>0, <2>1, <2>3 DEF StopContexts, UI
  <2>4. QED
    BY <1>6, <2>2, <2>3
<1>7. CASE PauseReturn \/ CancelWrite \/ DeleteRemove \/ DeleteRow
  <2>1. UNCHANGED published
    BY <1>7 DEF PauseReturn, CancelWrite, DeleteRemove, DeleteRow, UILooks, UIWrites, workerVars
  <2>2. ui' = NoUI \/ \E at \in {"remove", "delete"} : ui' = [ui EXCEPT !.at = at]
    BY <1>7 DEF PauseReturn, CancelWrite, DeleteRemove, DeleteRow
  <2>3. QED
    BY <1>0, <2>1, <2>2 DEF NoUI, UI
<1>8. CASE SchedList \/ SchedStep \/ AddStep
  BY <1>8 DEF SchedList, SchedStep, SchedPending, SchedUnset, SchedCall, AddStep, AddStart,
     AddSchedule, AddSetTime, workerVars
<1>9. QED
  BY <1>1, <1>2, <1>3, <1>4, <1>5, <1>6, <1>7, <1>8 DEF Plain

\* A worker stands before the write of "completed" only once its file is there.
LEMMA CompletingHasFile ==
  ASSUME CompletedAll, NEW g \in Goroutines,
         \A h \in Goroutines \ {g} : task'[h] = task[h] /\ phase'[h] = phase[h],
         task'[g] = NoId \/ phase'[g] # "completing" \/ task'[g] \in published',
         published \subseteq published'
  PROVE  \A h \in Goroutines : At(h, "completing")' => task'[h] \in published'
BY DEF CompletedAll, CompletedInv, At

\* CompletedInv is inductive as long as nobody asks for a download again.
LEMMA CompletedPreserved ==
  ASSUME "again" \notin Ops
  PROVE  CompletedAll /\ [Next]_allVars => CompletedInv'
<1> SUFFICES ASSUME CompletedAll, [Next]_allVars PROVE CompletedInv'
  OBVIOUS
<1>0. /\ AppInv /\ phase \in [Goroutines -> Phases] /\ ui \in UI
      /\ task \in [Goroutines -> Ids \cup {NoId}] /\ published \subseteq Ids
      /\ Has(db, "completed") \subseteq published /\ ui.do # "again"
      /\ \A g \in Goroutines : At(g, "completing") => task[g] \in published
  BY DEF CompletedAll, AppInv, ManagerInv, TypeOK, AppShape, WorkersTypeOK, CompletedInv,
         CompletedHasFile, Has
\* What each step owes the invariant.
<1> DEFINE Done == /\ published \subseteq published'
                   /\ Has(db', "completed") \subseteq published'
                   /\ \A h \in Goroutines : At(h, "completing")' => task'[h] \in published'
                   /\ ui'.do # "again"
<1>a. Done => CompletedInv'
  BY DEF CompletedInv, CompletedHasFile, Has, Live
<1>b. AllKept /\ published \subseteq published' => Has(db', "completed") \subseteq published'
  BY <1>0 DEF AllKept, Kept
<1> HIDE DEF Done
<1>1. CASE Manager
  <2>1. UNCHANGED <<phase, published, ui>>
    BY <1>1 DEF Manager, workerVars, appVars
  <2>2. Has(db', "completed") \subseteq published'
    <3>1. CASE Mark
      <4>1. op.id \in Ids /\ (UNCHANGED db \/ db' = MarkDownloading(db, op.id))
        BY <1>0, <3>1 DEF Mark, AppInv, ManagerInv, TypeOK
      <4>2. QED
        BY <1>0, <2>1, <4>1, DownloadingBy DEF Kept
    <3>2. QED
      BY <1>0, <1>1, <1>b, <2>1, <3>1, ManagerKeeps
  <2>3. \A h \in Goroutines : At(h, "completing")' => task'[h] \in published'
    <3>1. ASSUME NEW g \in Goroutines, Hands(g)
          PROVE  \A h \in Goroutines : At(h, "completing")' => task'[h] \in published'
      <4>1. phase'[g] # "completing"
        BY <1>0, <2>1, <3>1 DEF Hands, AppInv, WorkerInv
      <4>2. QED
        BY <2>1, <3>1, <4>1, CompletingHasFile DEF Hands
    <3>2. QED
      BY <1>0, <1>1, <2>1, <3>1, ManagerTasks DEF At
  <2>4. QED
    BY <1>0, <1>a, <2>1, <2>2, <2>3 DEF Done
<1>2. CASE Plain
  <2>1. UNCHANGED <<task, phase, published>> /\ ui'.do # "again" /\ AllKept
    BY <1>0, <1>2, PlainLeaves, PlainPublished, PlainKeeps
  <2>2. QED
    BY <1>0, <1>a, <1>b, <2>1 DEF Done, At
<1>3. CASE Shutdown \/ ShutdownVisits \/ ShutdownWrite \/ ShutdownReturn
  <2>1. UNCHANGED <<task, phase, published>>
    BY <1>3 DEF Shutdown, ShutdownVisits, ShutdownStop, ShutdownPending, ShutdownWrite,
       ShutdownReturn, CancelContexts, UIWrites, UILooks, vars, queueVars, workerVars
  <2>2. ui'.do # "again"
    <3>1. CASE Shutdown \/ ShutdownReturn
      BY <3>1 DEF Shutdown, ShutdownReturn, NoUI
    <3>2. ASSUME NEW id, ShutdownStop(id) PROVE ui'.do = ui.do
      BY <1>0, <3>2 DEF ShutdownStop, UI
    <3>3. ASSUME NEW id, ShutdownPending(id) PROVE ui'.do = ui.do
      BY <1>0, <3>3 DEF ShutdownPending, UI
    <3>4. ASSUME ShutdownWrite PROVE ui'.do = ui.do
      BY <1>0, <3>4 DEF ShutdownWrite, UI
    <3>5. QED
      BY <1>0, <1>3, <3>1, <3>2, <3>3, <3>4 DEF ShutdownVisits
  <2>3. AllKept
    BY <1>0, <1>3, ShutdownKeeps
  <2>4. QED
    BY <1>0, <1>a, <1>b, <2>1, <2>2, <2>3 DEF Done, At
<1>4. CASE Exit
  <2>1. UNCHANGED published /\ ui'.do # "again" /\ \A g \in Goroutines : task'[g] = NoId
    BY <1>4 DEF Exit, ProcessEnds, NoUI
  <2>2. QED
    BY <1>0, <1>4, <1>a, <1>b, <2>1, ShutdownKeeps DEF Done, At
\* g goes on to where it may write "completed" only with its file there.
<1>5. ASSUME NEW g \in Goroutines, UNCHANGED task, NEW to, Goto(g, to), published \subseteq published',
             to = "completing" => task[g] \in published', ui'.do # "again",
             AllKept \/ Complete(g) \/ Announce(g)
      PROVE  CompletedInv'
  <2>1. phase'[g] = to /\ \A h \in Goroutines \ {g} : phase'[h] = phase[h]
    BY <1>0, <1>5 DEF Goto
  <2>2. \A h \in Goroutines : At(h, "completing")' => task'[h] \in published'
    BY <1>5, <2>1, CompletingHasFile
  <2>3. Has(db', "completed") \subseteq published'
    <3>1. CASE Complete(g)
      <4>1. task[g] \in published
        BY <1>0, <3>1 DEF Complete, WriteStatus, At
      <4>2. QED
        BY <1>0, <1>5, <3>1, <4>1, CompletedBy
    <3>2. CASE Announce(g)
      <4>1. db' = UpdateDownloadStatus(db, task[g], "downloading") /\ task[g] \in Ids
        BY <1>0, <3>2, WorkersAreUp DEF Announce, WriteStatus, At, AppInv
      <4>2. QED
        BY <1>0, <1>5, <4>1, DownloadingBy DEF Kept
    <3>3. QED
      BY <1>5, <1>b, <3>1, <3>2
  <2>4. QED
    BY <1>5, <1>a, <2>2, <2>3 DEF Done
<1>6. ASSUME NEW g \in Goroutines, Worker(g) PROVE CompletedInv'
  <2>0. UNCHANGED ui
    BY <1>6 DEF Worker, appVars
  <2>1. CASE Complete(g) \/ Announce(g)
    BY <1>0, <1>5, <2>0, <2>1 DEF Complete, Announce, WriteStatus, queueVars
  <2>2. CASE ~Complete(g) /\ ~Announce(g)
    <3>1. AllKept
      BY <1>0, <1>6, <2>2, WorkersKeep
    <3>2. UNCHANGED task
      BY <1>6 DEF Worker, WorkerStep, Load, EarlyFail, Register, Announce, Fetch, Return, Unregister,
         MoveFile, Complete, Fail, Conflict, LeaveResumable, WriteStatus, vars, queueVars
    <3>3. CASE MoveFile(g)
      BY <1>0, <1>5, <2>0, <3>1, <3>2, <3>3 DEF MoveFile
    <3>4. CASE EarlyFail(g) \/ Fail(g) \/ LeaveResumable(g)
      BY <1>0, <1>5, <2>0, <3>1, <3>2, <3>4 DEF EarlyFail, Fail, LeaveResumable, WriteStatus
    <3>5. CASE Load(g) \/ Register(g) \/ Fetch(g) \/ Return(g)
      BY <1>0, <1>5, <2>0, <3>1, <3>2, <3>5 DEF Load, Register, Fetch, Return
    <3>6. CASE Unregister(g) \/ Conflict(g)
      BY <1>0, <1>5, <2>0, <3>1, <3>2, <3>6 DEF Unregister, Conflict
    <3>7. QED
      BY <1>6, <2>2, <3>3, <3>4, <3>5, <3>6 DEF Worker, WorkerStep
  <2>3. QED
    BY <2>1, <2>2
<1>7. ASSUME NEW g \in Goroutines, NEW c, Release(g, c), UNCHANGED published, ui'.do # "again", AllKept
      PROVE  CompletedInv'
  <2>1. /\ task'[g] = NoId /\ \A h \in Goroutines \ {g} : task'[h] = task[h] /\ phase'[h] = phase[h]
    BY <1>0, <1>7, Released
  <2>2. \A h \in Goroutines : At(h, "completing")' => task'[h] \in published'
    BY <1>7, <2>1, CompletingHasFile
  <2>3. QED
    BY <1>7, <1>a, <1>b, <2>2 DEF Done
<1>8. ASSUME NEW g \in Goroutines, WorkerEnd(g) PROVE CompletedInv'
  <2>1. ui'.do = ui.do /\ UNCHANGED published /\ \E c : Release(g, c)
    BY <1>0, <1>8 DEF WorkerEnd, End, UI
  <2>2. AllKept
    BY <1>0, <1>8, WorkersKeep DEF WorkerEnd, End, Complete, Announce, WriteStatus, At
  <2>3. QED
    BY <1>0, <1>7, <2>1, <2>2
<1>9. ASSUME NEW g \in Goroutines, Resolves(g) PROVE CompletedInv'
  <2>1. ~Complete(g) /\ ~Announce(g)
    BY <1>9 DEF Resolves, Answer, Settle, Discard, AnswerReturn, ShutdownRelease, Complete, Announce,
       WriteStatus, At
  <2>2. AllKept
    BY <1>0, <1>9, <2>1, WorkersKeep
  <2>3. CASE \E to \in {"placing", "discarding"} : Answer(g, to)
    BY <1>5, <2>2, <2>3 DEF Answer, NoUI, vars
  <2>4. CASE Settle(g)
    BY <1>0, <1>5, <2>2, <2>4 DEF Settle, appVars, vars
  <2>5. CASE Discard(g)
    BY <1>0, <1>5, <2>2, <2>5 DEF Discard, WriteStatus, queueVars, appVars
  <2>6. CASE AnswerReturn(g)
    BY <1>7, <2>2, <2>6 DEF AnswerReturn, NoUI
  <2>7. CASE ShutdownRelease(g)
    <3>1. ui'.do = ui.do
      BY <1>0, <2>7 DEF ShutdownRelease, UI
    <3>2. QED
      BY <1>0, <1>7, <2>2, <2>7, <3>1 DEF ShutdownRelease
  <2>8. QED
    BY <1>9, <2>3, <2>4, <2>5, <2>6, <2>7 DEF Resolves
<1>10. CASE UNCHANGED allVars
  BY <1>10 DEF allVars, vars, workerVars, appVars, CompletedAll, CompletedInv, CompletedHasFile, At
<1>11. QED
  BY <1>1, <1>2, <1>3, <1>4, <1>6, <1>8, <1>9, <1>10, NextCases

\* In a fresh process every completed row has its file, and nothing is under way.
LEMMA CompletedInit == Init => CompletedInv
BY DEF Init, QueueInit, WorkersInit, NoUI, CompletedInv, CompletedHasFile, At

\* As long as the user does not ask for a download again, no row says "completed"
\* without the file: not after a conflict, a shutdown or a crash at any point.
THEOREM CompletedIsPublished ==
  ASSUME "again" \notin Ops
  PROVE  Spec => []CompletedHasFile
<1>1. Init => CompletedAll
  BY AppInit, CompletedInit DEF CompletedAll
<1>2. CompletedAll /\ [Next]_allVars => CompletedAll'
  BY AppPreserved, CompletedPreserved DEF CompletedAll
<1>3. CompletedAll => CompletedHasFile
  BY DEF CompletedAll, CompletedInv
<1>4. QED
  BY <1>1, <1>2, <1>3, PTL DEF Spec

-----------------------------------------------------------------------------
(* A row that says "downloading" has its worker.  The status a pause or a   *)
(* cancel writes can be overwritten by the worker it stops, which leaves    *)
(* the row behind; hence the assumption.                                    *)

\* The UI thread will delete the row before it does anything else.
Deleting(u, id) == u.do = "delete" /\ u.id = id /\ u.at # "stop"

Running ==
  /\ ~shuttingDown
  /\ boot = "up" => \A id \in Has(db, "downloading") : id \in active \/ Deleting(ui, id)
  /\ \A g \in Goroutines : task[g] = NoId => ~cancelled[g] /\ g \notin ui.ctx
  /\ ui.at = "stop" => \A g \in ui.ctx : task[g] = ui.id
  /\ \A g \in Goroutines :
       task[g] # NoId /\ cancelled[g] => Gone(db, task[g]) \/ Deleting(ui, task[g])
  /\ \A g \in Goroutines :
       (At(g, "earlyEnd") \/ At(g, "ending")) /\ task[g] \in Has(db, "downloading")
         => Deleting(ui, task[g])
  /\ ui.do = "delete" => ui.id \in Ids /\ db[ui.id].life # "none"

DownloadInv ==
  /\ ui.do \in {"none", "delete", "answer", "shutdown"}
  /\ boot = "reconciled" => Has(db, "downloading") = {}
  /\ ui.do # "shutdown" => Running

DownloadAll == AppInv /\ DownloadInv
Harmless == Ops \cap {"pause", "pauseAll", "cancel", "again", "history"} = {}

\* What follows from the invariants in every step below.
LEMMA DownloadFacts ==
  ASSUME DownloadAll, ui.do # "shutdown"
  PROVE  /\ Running /\ AppInv /\ ui \in UI
         /\ task \in [Goroutines -> Ids \cup {NoId}]
         /\ phase \in [Goroutines -> Phases]
         /\ cancelled \in [Goroutines -> BOOLEAN]
         /\ \A g \in Goroutines : task[g] = NoId => phase[g] = "spawned"
         /\ \A g \in Goroutines : task[g] # NoId => task[g] \in active /\ task[g] \in Ids /\ boot = "up"
         /\ \A g, h \in Goroutines : task[g] = task[h] /\ task[g] # NoId => g = h
         /\ NoId \notin Ids
BY WorkersAreUp, QueueAssumption
DEF DownloadAll, DownloadInv, AppInv, ManagerInv, TypeOK, AppShape, WorkersTypeOK, WorkerInv,
    SlotHasOneOwner, TaskIds

\* Nobody moves, and the table loses nothing.
LEMMA RunningStays ==
  ASSUME DownloadAll, Harmless, ui.do # "shutdown",
         UNCHANGED <<ui, task, phase, cancelled, shuttingDown>>,
         active \subseteq active', AllKept,
         boot' \in {boot, "reconciled"} \/ Has(db, "downloading") = {}
  PROVE  Running'
<1>1. Has(db', "downloading") \subseteq Has(db, "downloading")
  BY DEF AllKept, Kept
<1>2. /\ \A id \in Ids : Gone(db, id) => Gone(db', id)
      /\ \A id \in Ids : db[id].life # "none" => db'[id].life # "none"
  BY DEF AllKept, LivesOn, Harmless
<1>3. \A id : Deleting(ui', id) <=> Deleting(ui, id)
  BY DEF Deleting
<1>4. ui.do = "delete" => ui.id \in Ids
  BY DownloadFacts DEF Running
<1>5. QED
  BY <1>1, <1>2, <1>3, <1>4, DownloadFacts DEF Running, At

\* One goroutine goes on; at its end the row no longer says "downloading", unless
\* the UI thread is about to delete it.
LEMMA RunningGoes ==
  ASSUME DownloadAll, Harmless, ui.do # "shutdown", NEW g \in Goroutines, task[g] # NoId,
         UNCHANGED <<ui, task, cancelled, shuttingDown, boot, active>>,
         NEW to, Goto(g, to), LivesOn,
         Has(db', "downloading") \subseteq Has(db, "downloading") \cup {task[g]},
         to \in {"earlyEnd", "ending"} /\ task[g] \in Has(db', "downloading") => Deleting(ui, task[g])
  PROVE  Running'
<1>0. phase'[g] = to /\ \A h \in Goroutines \ {g} : phase'[h] = phase[h]
  BY DownloadFacts DEF Goto
<1>1. \A id : Deleting(ui', id) <=> Deleting(ui, id)
  BY DEF Deleting
<1>2. /\ \A id \in Ids : Gone(db, id) => Gone(db', id)
      /\ \A id \in Ids : db[id].life # "none" => db'[id].life # "none"
  BY DEF LivesOn, Harmless
<1>3. boot' = "up" => \A id \in Has(db', "downloading") : id \in active' \/ Deleting(ui', id)
  BY <1>1, DownloadFacts DEF Running
<1>4. ASSUME NEW h \in Goroutines, At(h, "earlyEnd")' \/ At(h, "ending")',
             task'[h] \in Has(db', "downloading")
      PROVE  Deleting(ui', task'[h])
  <2>1. CASE h = g
    BY <1>0, <1>1, <1>4, <2>1 DEF At
  <2>2. CASE h # g
    <3>1. task[h] # task[g] /\ phase'[h] = phase[h] /\ task'[h] = task[h]
      BY <1>0, <2>2, DownloadFacts
    <3>2. (At(h, "earlyEnd") \/ At(h, "ending")) /\ task[h] \in Has(db, "downloading")
      BY <1>4, <3>1 DEF At
    <3>3. QED
      BY <1>1, <3>1, <3>2, DownloadFacts DEF Running
  <2>3. QED
    BY <2>1, <2>2
<1>5. \A h \in Goroutines :
        task'[h] # NoId /\ cancelled'[h] => Gone(db', task'[h]) \/ Deleting(ui', task'[h])
  BY <1>1, <1>2, DownloadFacts DEF Running
<1>6. QED
  BY <1>2, <1>3, <1>4, <1>5, DownloadFacts DEF Running

\* A goroutine gives its slot back.
LEMMA RunningEnds ==
  ASSUME DownloadAll, Harmless, ui.do # "shutdown", NEW g \in Goroutines,
         At(g, "earlyEnd") \/ At(g, "ending"), NEW c, Release(g, c),
         UNCHANGED <<shuttingDown, boot>>, AllKept,
         \/ ui'.do = ui.do /\ ui'.at = ui.at /\ ui'.id = ui.id /\ ui'.ctx = ui.ctx \ {g}
         \/ ui.do = "answer" /\ ui' = NoUI
  PROVE  Running'
<1>0. /\ \A h \in Goroutines \ {g} :
           task'[h] = task[h] /\ phase'[h] = phase[h] /\ cancelled'[h] = cancelled[h]
      /\ task'[g] = NoId /\ phase'[g] = "spawned" /\ ~cancelled'[g]
  BY DownloadFacts, Released
<1>1. task[g] # NoId /\ active' = active \ {task[g]}
  BY DownloadFacts DEF At, Release, OnDone
<1>2. Has(db', "downloading") \subseteq Has(db, "downloading")
  BY DEF AllKept, Kept
<1>3. /\ \A id \in Ids : Gone(db, id) => Gone(db', id)
      /\ \A id \in Ids : db[id].life # "none" => db'[id].life # "none"
  BY DEF AllKept, LivesOn, Harmless
<1>4. task[g] \in Has(db, "downloading") => Deleting(ui, task[g])
  BY <1>1, DownloadFacts DEF Running
<1>5. \A id : Deleting(ui', id) <=> Deleting(ui, id)
  BY DEF Deleting, NoUI
<1>6. /\ ui'.ctx \subseteq ui.ctx \ {g}
      /\ ui'.at = "stop" => ui.at = "stop" /\ ui'.id = ui.id
      /\ ui'.do = "delete" => ui.do = "delete" /\ ui'.id = ui.id
  BY DEF NoUI
<1>7. boot' = "up" => \A id \in Has(db', "downloading") : id \in active' \/ Deleting(ui', id)
  BY <1>1, <1>2, <1>4, <1>5, DownloadFacts DEF Running
<1>8. \A h \in Goroutines :
        task'[h] # NoId /\ cancelled'[h] => Gone(db', task'[h]) \/ Deleting(ui', task'[h])
  BY <1>0, <1>3, <1>5, DownloadFacts DEF Running
<1>9. \A h \in Goroutines :
        (At(h, "earlyEnd")' \/ At(h, "ending")') /\ task'[h] \in Has(db', "downloading")
          => Deleting(ui', task'[h])
  BY <1>0, <1>2, <1>5, DownloadFacts DEF Running, At
<1>10. \A h \in Goroutines : task'[h] = NoId => ~cancelled'[h] /\ h \notin ui'.ctx
  BY <1>0, <1>6, DownloadFacts DEF Running
<1>11. ui'.at = "stop" => \A h \in ui'.ctx : task'[h] = ui'.id
  <2>1. ui.ctx \subseteq Goroutines
    BY DownloadFacts DEF UI
  <2>2. QED
    BY <1>0, <1>6, <2>1, DownloadFacts DEF Running
<1>12. ui'.do = "delete" => ui'.id \in Ids /\ db'[ui'.id].life # "none"
  BY <1>3, <1>6, DownloadFacts DEF Running
<1>13. ~shuttingDown'
  BY DownloadFacts DEF Running
<1>14. QED
  BY <1>7, <1>8, <1>9, <1>10, <1>11, <1>12, <1>13 DEF Running

\* The manager hands a row that it marks downloading to a new goroutine.
LEMMA RunningMark ==
  ASSUME DownloadAll, Harmless, ui.do # "shutdown", Mark, UNCHANGED <<workerVars, ui>>
  PROVE  Running'
<1>0. op.at = "mark" /\ op.id \in Ids /\ op.id \in active /\ UNCHANGED <<active, boot>>
  BY DEF Mark, DownloadAll, AppInv, ManagerInv, TypeOK, SlotHasOneOwner, Starting
<1>1. PICK g \in Goroutines : task[g] = NoId /\ task' = [task EXCEPT ![g] = op.id]
  BY DEF Mark
<1>2. task'[g] = op.id /\ \A h \in Goroutines \ {g} : task'[h] = task[h]
  BY <1>1, DownloadFacts
<1>3. \A h \in Goroutines : task[h] # op.id
  BY <1>0, DownloadFacts DEF DownloadAll, AppInv, ManagerInv, SlotHasOneOwner, TaskIds, Starting
<1>4. Has(db', "downloading") \subseteq Has(db, "downloading") \cup {op.id} /\ LivesOn
  <2>1. UNCHANGED db \/ db' = MarkDownloading(db, op.id)
    BY DEF Mark
  <2>2. QED
    BY <1>0, <2>1, DownloadFacts, DownloadingBy DEF LivesOn
<1>5. \A id : Deleting(ui', id) <=> Deleting(ui, id)
  BY DEF Deleting
<1>6. /\ \A id \in Ids : Gone(db, id) => Gone(db', id)
      /\ \A id \in Ids : db[id].life # "none" => db'[id].life # "none"
  BY <1>4 DEF LivesOn, Harmless
<1>7. UNCHANGED <<phase, cancelled, shuttingDown>> /\ phase[g] = "spawned" /\ ~cancelled[g]
  BY <1>1, DownloadFacts DEF workerVars, Running
<1>8. boot' = "up" => \A id \in Has(db', "downloading") : id \in active' \/ Deleting(ui', id)
  BY <1>0, <1>4, <1>5, DownloadFacts DEF Running
<1>9. \A h \in Goroutines :
        task'[h] # NoId /\ cancelled'[h] => Gone(db', task'[h]) \/ Deleting(ui', task'[h])
  BY <1>2, <1>5, <1>6, <1>7, DownloadFacts DEF Running
<1>10. \A h \in Goroutines :
         (At(h, "earlyEnd")' \/ At(h, "ending")') /\ task'[h] \in Has(db', "downloading")
           => Deleting(ui', task'[h])
  BY <1>2, <1>3, <1>4, <1>5, <1>7, DownloadFacts DEF Running, At
<1>11. \A h \in Goroutines : task'[h] = NoId => ~cancelled'[h] /\ h \notin ui'.ctx
  BY <1>0, <1>2, <1>7, DownloadFacts DEF Running
<1>12. ui'.at = "stop" => \A h \in ui'.ctx : task'[h] = ui'.id
  <2>1. ui.ctx \subseteq Goroutines \ {g}
    BY <1>1, DownloadFacts DEF UI, Running
  <2>2. QED
    BY <1>2, <2>1, DownloadFacts DEF Running
<1>13. ui'.do = "delete" => ui'.id \in Ids /\ db'[ui'.id].life # "none"
  BY <1>6, DownloadFacts DEF Running
<1>14. ~shuttingDown'
  BY <1>7, DownloadFacts DEF Running
<1>15. QED
  BY <1>8, <1>9, <1>10, <1>11, <1>12, <1>13, <1>14 DEF Running

\* The user deletes a download: its worker is cancelled, its row is going.
LEMMA RunningStop ==
  ASSUME DownloadAll, Harmless, ui.do # "shutdown", NEW id \in Ids, Stop("delete", id)
  PROVE  Running'
<1>1. /\ ui.do = "none" /\ Live(db, id)
      /\ ui'.do = "delete" /\ ui'.at = "stop" /\ ui'.id = id /\ ui'.ctx = Entry(id)
      /\ UNCHANGED <<db, boot, active, task, phase, cancelled, entries, shuttingDown>>
  BY DEF Stop, UIFree, NoUI, UILooks, vars, workerVars
<1>2. /\ \A i : ~Deleting(ui, i)
      /\ \A g \in Entry(id) : task[g] = id
      /\ id # NoId /\ db[id].life # "none"
  BY <1>1, DownloadFacts DEF Deleting, Entry, Live
<1>3. \A h \in Goroutines : task'[h] = NoId => ~cancelled'[h] /\ h \notin ui'.ctx
  BY <1>1, <1>2, DownloadFacts DEF Running
<1>4. QED
  BY <1>1, <1>2, <1>3, DownloadFacts DEF Running, At

\* A delete that cancels the worker of its row leaves the others running.
LEMMA RunningContexts ==
  ASSUME DownloadAll, Harmless, ui.do = "delete", StopContexts
  PROVE  Running'
<1>0. ui.do # "shutdown"
  OBVIOUS
<1>1. /\ ui.at = "stop" /\ UNCHANGED <<db, boot, active, task, phase, shuttingDown>>
      /\ cancelled' = [g \in Goroutines |-> cancelled[g] \/ g \in ui.ctx]
  BY DEF StopContexts, CancelContexts, vars
<1>2. ui' = [ui EXCEPT !.ctx = {}, !.at = "write"]
  BY DEF StopContexts
<1>3. ui'.do = "delete" /\ ui'.at = "write" /\ ui'.id = ui.id /\ ui'.ctx = {}
  BY <1>0, <1>2, DownloadFacts DEF UI
<1>4. (\A i : ~Deleting(ui, i)) /\ Deleting(ui', ui.id)
  BY <1>1, <1>3 DEF Deleting
<1>5. ASSUME NEW h \in Goroutines, task'[h] # NoId, cancelled'[h]
      PROVE  Gone(db', task'[h]) \/ Deleting(ui', task'[h])
  <2>1. CASE h \in ui.ctx
    BY <1>0, <1>1, <1>4, <2>1, DownloadFacts DEF Running
  <2>2. CASE cancelled[h]
    BY <1>0, <1>1, <1>4, <1>5, <2>2, DownloadFacts DEF Running
  <2>3. QED
    BY <1>1, <1>5, <2>1, <2>2
<1>6. \A h \in Goroutines : task'[h] = NoId => ~cancelled'[h] /\ h \notin ui'.ctx
  BY <1>0, <1>1, <1>3, DownloadFacts DEF Running
<1>7. QED
  BY <1>0, <1>1, <1>3, <1>4, <1>5, <1>6, DownloadFacts DEF Running, At

\* The next statements of a delete.
LEMMA RunningDeletes ==
  ASSUME DownloadAll, Harmless, ui.do = "delete", CancelWrite \/ DeleteRemove, AllKept
  PROVE  Running'
<1>0. ui.do # "shutdown"
  OBVIOUS
<1>1. /\ ui.at # "stop" /\ UNCHANGED <<boot, active, task, phase, cancelled, shuttingDown>>
      /\ \E at \in {"remove", "delete"} : ui' = [ui EXCEPT !.at = at]
  BY DEF CancelWrite, DeleteRemove, UIAt, UIWrites, Remove, queueVars, workerVars
<1>2. ui'.do = ui.do /\ ui'.at # "stop" /\ ui'.id = ui.id /\ ui'.ctx = ui.ctx
  BY <1>0, <1>1, DownloadFacts DEF UI
<1>3. \A id : Deleting(ui', id) <=> Deleting(ui, id)
  BY <1>1, <1>2 DEF Deleting
<1>4. Has(db', "downloading") \subseteq Has(db, "downloading")
  BY DEF AllKept, Kept
<1>5. /\ \A id \in Ids : Gone(db, id) => Gone(db', id)
      /\ \A id \in Ids : db[id].life # "none" => db'[id].life # "none"
  BY DEF AllKept, LivesOn, Harmless
<1>6. QED
  BY <1>0, <1>1, <1>2, <1>3, <1>4, <1>5, DownloadFacts DEF Running, At

\* A delete that removes its row takes the one row that had lost its worker.
LEMMA RunningDeleted ==
  ASSUME DownloadAll, Harmless, DeleteRow, AllKept
  PROVE  Running'
<1>0. ui.do = "delete" /\ ui.do # "shutdown" /\ ui.at = "delete"
  BY DEF DeleteRow, UIAt
<1>1. /\ UNCHANGED <<boot, active, task, phase, cancelled, shuttingDown>>
      /\ db' = DeleteDownload(db, ui.id)
      /\ ui'.do = "none" /\ ui'.at = "none" /\ ui'.ctx = {}
  BY DEF DeleteRow, NoUI, queueVars, workerVars
<1>2. (\A id : ~Deleting(ui', id)) /\ (\A id : Deleting(ui, id) => id = ui.id)
  BY <1>1 DEF Deleting
<1>3. Has(db', "downloading") \subseteq Has(db, "downloading")
  BY DEF AllKept, Kept
<1>4. \A id \in Ids : Gone(db, id) => Gone(db', id)
  BY DEF AllKept, LivesOn, Harmless
\* Live, it is deleted now; it was deleted before, or it has never been.
<1>5. Gone(db', ui.id) /\ ui.id \notin Has(db', "downloading")
  <2>1. ui.id \in Ids /\ db \in Table /\ db[ui.id].life # "none"
    BY <1>0, DownloadFacts DEF Running, AppInv, ManagerInv, TypeOK, Table
  <2>2. db[ui.id] \in Row
    BY <2>1 DEF Table
  <2>3. CASE Live(db, ui.id)
    <3>1. db'[ui.id] = [db[ui.id] EXCEPT !.life = "deleted"]
      BY <1>1, <2>1, <2>3 DEF DeleteDownload, Table
    <3>2. db'[ui.id].life = "deleted"
      BY <2>2, <3>1 DEF Row
    <3>3. QED
      BY <3>2 DEF Gone, Has, Live
  <2>4. CASE ~Live(db, ui.id)
    BY <1>1, <2>1, <2>2, <2>4 DEF DeleteDownload, Live, Gone, Has, Row, Life
  <2>5. QED
    BY <2>3, <2>4
<1>6. boot' = "up" => \A id \in Has(db', "downloading") : id \in active' \/ Deleting(ui', id)
  BY <1>0, <1>1, <1>2, <1>3, <1>5, DownloadFacts DEF Running
<1>7. \A h \in Goroutines :
        task'[h] # NoId /\ cancelled'[h] => Gone(db', task'[h]) \/ Deleting(ui', task'[h])
  BY <1>0, <1>1, <1>2, <1>4, <1>5, DownloadFacts DEF Running
<1>8. \A h \in Goroutines :
        (At(h, "earlyEnd")' \/ At(h, "ending")') /\ task'[h] \in Has(db', "downloading")
          => Deleting(ui', task'[h])
  BY <1>0, <1>1, <1>2, <1>3, <1>5, DownloadFacts DEF Running, At
<1>9. QED
  BY <1>0, <1>1, <1>6, <1>7, <1>8, DownloadFacts DEF Running

\* The handlers other than Shutdown.
LEMMA PlainRuns ==
  ASSUME DownloadAll, Harmless, ui.do # "shutdown", Plain
  PROVE  Running' /\ ui'.do \in {"none", "delete", "answer"}
<1>0. /\ ui.do \in {"none", "delete", "answer"} /\ ui \in UI /\ AllKept
      /\ "pause" \notin Ops /\ "pauseAll" \notin Ops /\ "cancel" \notin Ops /\ "again" \notin Ops
      /\ "history" \notin Ops
  BY DownloadFacts, PlainKeeps DEF DownloadAll, DownloadInv, Harmless
<1>1. CASE \/ \E id \in Ids : Resume(id)
           \/ \E n \in 0..MaxLimit : SetLimit(n)
           \/ \E id \in Ids, to \in {"start", "schedule"} : AddCreate(id, to)
  <2>1. UNCHANGED <<ui, task, phase, cancelled, shuttingDown, boot>> /\ active \subseteq active'
    BY <1>1 DEF Resume, SetLimit, AddCreate, TryStart, SetMaxConcurrent, Place, queueVars, workerVars,
       appVars
  <2>2. QED
    BY <1>0, <2>1, RunningStays
<1>2. CASE SchedList \/ SchedStep \/ AddStep
  <2>1. UNCHANGED <<ui, task, phase, cancelled, shuttingDown, boot>> /\ active \subseteq active'
    BY <1>2 DEF SchedList, SchedStep, SchedPending, SchedUnset, SchedCall, EnqueueScheduled, AddStep,
       AddStart, AddSchedule, AddSetTime, TryStart, Place, vars, queueVars, workerVars
  <2>2. QED
    BY <1>0, <2>1, RunningStays
<1>3. ASSUME NEW do \in {"cancel", "delete", "again"} \cap Ops, NEW id \in Ids, Stop(do, id)
      PROVE  Running' /\ ui'.do \in {"none", "delete", "answer"}
  <2>1. do = "delete"
    BY <1>0, <1>3
  <2>2. ui'.do = "delete"
    BY <1>3, <2>1 DEF Stop, NoUI
  <2>3. QED
    BY <1>3, <2>1, <2>2, RunningStop
<1>4. CASE \/ \E id \in Ids : PauseVisit(id) \/ PauseWrite(id)
           \/ PauseStop \/ PauseReturn \/ AgainReset \/ AgainClean \/ AgainStart
  BY <1>0, <1>4 DEF PauseVisit, PauseWrite, PauseStop, PauseReturn, AgainReset, AgainClean,
     AgainStart, UIAt
<1>5. CASE StopContexts
  <2>1. ui.do = "delete" /\ ui' = [ui EXCEPT !.ctx = {}, !.at = "write"]
    BY <1>0, <1>5 DEF StopContexts
  <2>2. ui'.do = "delete"
    BY <1>0, <2>1 DEF UI
  <2>3. QED
    BY <1>5, <2>1, <2>2, RunningContexts
<1>6. CASE CancelWrite \/ DeleteRemove
  <2>1. ui.do = "delete" /\ \E at \in {"remove", "delete"} : ui' = [ui EXCEPT !.at = at]
    BY <1>0, <1>6 DEF CancelWrite, DeleteRemove, UIAt
  <2>2. ui'.do = "delete"
    BY <1>0, <2>1 DEF UI
  <2>3. QED
    BY <1>0, <1>6, <2>1, <2>2, RunningDeletes
<1>7. CASE DeleteRow
  BY <1>0, <1>7, RunningDeleted DEF DeleteRow, NoUI
<1>8. QED
  BY <1>0, <1>1, <1>2, <1>3, <1>4, <1>5, <1>6, <1>7 DEF Plain

\* A status other than "downloading" is not "downloading".
LEMMA WrittenStatus ==
  ASSUME db \in Table, NEW id \in Ids, NEW s, s # "downloading", db' = UpdateDownloadStatus(db, id, s)
  PROVE  id \notin Has(db', "downloading")
<1>1. db[id] \in Row
  BY DEF Table
<1>2. CASE Exists(db, id)
  <2>1. db'[id] = [db[id] EXCEPT !.status = s]
    BY <1>2 DEF UpdateDownloadStatus, Table
  <2>2. db'[id].status = s
    BY <1>1, <2>1 DEF Row
  <2>3. QED
    BY <2>2 DEF Has
<1>3. CASE ~Exists(db, id)
  BY <1>3 DEF UpdateDownloadStatus, Has, Live, Exists
<1>4. QED
  BY <1>2, <1>3

\* The steps of a worker.
LEMMA WorkerRuns ==
  ASSUME DownloadAll, Harmless, ui.do # "shutdown", NEW g \in Goroutines, Worker(g) \/ Settle(g) \/ Discard(g)
  PROVE  Running'
<1>0. /\ task[g] \in Ids /\ db \in Table /\ AppInv
      /\ task[g] # NoId
      /\ UNCHANGED <<ui, task, cancelled, shuttingDown, boot, active>>
  <2>1. task[g] # NoId
    BY DEF Worker, WorkerStep, Load, EarlyFail, Register, Announce, Fetch, Return, Unregister,
       MoveFile, Complete, Fail, Conflict, LeaveResumable, WriteStatus, Settle, Discard, At
  <2>2. UNCHANGED <<ui, task, cancelled, shuttingDown, boot, active>>
    BY DEF Worker, WorkerStep, Load, EarlyFail, Register, Announce, Fetch, Return, Unregister,
       MoveFile, Complete, Fail, Conflict, LeaveResumable, WriteStatus, Settle, Discard,
       vars, queueVars, appVars
  <2>3. QED
    BY <2>1, <2>2, DownloadFacts DEF AppInv, ManagerInv, TypeOK, Table
\* One that leaves the table alone.
<1>1. ASSUME UNCHANGED db, NEW to, Goto(g, to),
             to \in {"earlyEnd", "ending"} /\ task[g] \in Has(db, "downloading")
               => Deleting(ui, task[g])
      PROVE  Running'
  <2>1. LivesOn /\ Has(db', "downloading") = Has(db, "downloading")
    BY <1>1 DEF LivesOn
  <2>2. QED
    BY <1>0, <1>1, <2>1, RunningGoes
<1>2. ASSUME NEW from, NEW s \in Status \ {"downloading"}, NEW to, WriteStatus(g, from, s, to)
      PROVE  Running'
  <2>1. db' = UpdateDownloadStatus(db, task[g], s) /\ Goto(g, to)
    BY <1>2 DEF WriteStatus
  <2>2. LivesOn
    BY <1>0, <2>1, StatementsLive
  <2>3. Kept(db', "downloading")
    BY <1>0, <2>1, StatementsKeep
  <2>4. task[g] \notin Has(db', "downloading")
    BY <1>0, <2>1, WrittenStatus
  <2>5. QED
    BY <1>0, <2>1, <2>2, <2>3, <2>4, RunningGoes DEF Kept
<1>3. CASE EarlyFail(g) \/ Complete(g) \/ Fail(g) \/ LeaveResumable(g) \/ Discard(g)
  BY <1>2, <1>3 DEF EarlyFail, Complete, Fail, LeaveResumable, Discard, Status
<1>4. CASE Announce(g)
  <2>1. db' = UpdateDownloadStatus(db, task[g], "downloading") /\ Goto(g, "running")
    BY <1>4 DEF Announce, WriteStatus
  <2>2. QED
    BY <1>0, <2>1, DownloadingBy, RunningGoes
<1>5. CASE Load(g)
  <2>1. ~Exists(db, task[g]) => task[g] \notin Has(db, "downloading")
    BY DEF Exists, Has, Live
  <2>2. QED
    BY <1>1, <1>5, <2>1 DEF Load, vars
\* No other goroutine is registered for the same download.
<1>6. CASE Register(g)
  <2>1. Entry(task[g]) = {}
    <3>1. ASSUME NEW h \in Entry(task[g]) PROVE FALSE
      <4>1. h \in entries /\ task[h] = task[g]
        BY DEF Entry
      <4>2. h \in Goroutines /\ phase[h] \in Registered
        BY <4>1 DEF DownloadAll, AppInv, AppShape, WorkersTypeOK, WorkerInv, EntriesAreWorkers
      <4>3. h = g
        BY <1>0, <4>1, <4>2, DownloadFacts
      <4>4. QED
        BY <1>6, <4>2, <4>3 DEF Register, At, Registered
    <3>2. QED
      BY <3>1
  <2>2. ~shuttingDown
    BY DownloadFacts DEF Running
  <2>3. QED
    BY <1>1, <1>6, <2>1, <2>2 DEF Register, vars
<1>7. CASE Unregister(g)
  <2>1. cancelled[g] /\ task[g] \in Has(db, "downloading") => Deleting(ui, task[g])
    BY <1>0, DownloadFacts DEF Running, Gone, Has, Live
  <2>2. QED
    BY <1>1, <1>7, <2>1 DEF Unregister, vars
<1>8. CASE Fetch(g) \/ Return(g) \/ MoveFile(g) \/ Conflict(g) \/ Settle(g)
  BY <1>1, <1>8 DEF Fetch, Return, MoveFile, Conflict, Settle, vars
<1>9. QED
  BY <1>3, <1>4, <1>5, <1>6, <1>7, <1>8 DEF Worker, WorkerStep

\* DownloadInv is inductive without the handlers that write over a worker.
LEMMA DownloadPreserved ==
  ASSUME Harmless
  PROVE  DownloadAll /\ [Next]_allVars => DownloadInv'
<1> SUFFICES ASSUME DownloadAll, [Next]_allVars PROVE DownloadInv'
  OBVIOUS
<1>0. /\ AppInv /\ ui \in UI
      /\ ui.do \in {"none", "delete", "answer", "shutdown"}
      /\ boot = "reconciled" => Has(db, "downloading") = {}
      /\ boot # "up" => op = Idle
  BY DEF DownloadAll, DownloadInv, AppInv, ManagerInv, Booted, AppShape
\* An application that is up has nothing left to recover.
<1>a. ASSUME boot' = "up", ui'.do \in {"none", "delete", "answer", "shutdown"},
             ui'.do # "shutdown" => Running'
      PROVE  DownloadInv'
  BY <1>a DEF DownloadInv
<1>1. CASE Manager
  <2>1. UNCHANGED <<ui, phase, cancelled, shuttingDown>> /\ UNCHANGED workerVars
    BY <1>1 DEF Manager, workerVars, appVars
  <2>2. CASE Mark
    <3>1. boot = "up" /\ boot' = "up"
      BY <1>0, <2>2 DEF Mark, Idle, DownloadAll, AppInv, ManagerInv, TypeOK
    <3>2. QED
      BY <1>0, <1>a, <2>1, <2>2, <3>1, RunningMark
  <2>3. CASE ~Mark
    <3>1. AllKept /\ Has(db', "downloading") \subseteq Has(db, "downloading")
      BY <1>0, <1>1, <2>3, ManagerKeeps DEF AllKept, Kept
    <3>2. UNCHANGED task /\ active \subseteq active'
      BY <1>1, <2>3 DEF Manager, ManagerStep, Reconcile, Drain, Enqueue, Put, DrainStart, DrainSkip,
         DrainReturn
    <3>3. CASE Reconcile
      <4>1. boot' = "reconciled" /\ db' = ReconcileInterrupted(db)
        BY <3>3 DEF Reconcile
      <4>2. Has(db', "downloading") = {}
        <5>1. ASSUME NEW id \in Ids, id \in Has(db', "downloading") PROVE FALSE
          <6>1. db[id] \in Row
            BY <1>0 DEF AppInv, ManagerInv, TypeOK
          <6>2. [db[id] EXCEPT !.status = "paused"].status = "paused"
            BY <6>1 DEF Row
          <6>3. QED
            BY <4>1, <5>1, <6>2 DEF Has, Live, ReconcileInterrupted
        <5>2. QED
          BY <5>1 DEF Has
      <4>3. ui.do # "shutdown" => Running'
        BY <2>1, <3>1, <3>2, <4>1, RunningStays
      <4>4. QED
        BY <1>0, <2>1, <4>1, <4>2, <4>3 DEF DownloadInv
    <3>4. CASE ~Reconcile
      <4>1. boot' = boot \/ (boot = "reconciled" /\ boot' = "up")
        BY <1>1, <2>3, <3>4 DEF Manager, ManagerStep, Drain, Enqueue, Put, DrainStart, DrainSkip,
           DrainReturn
      <4>2. ui.do # "shutdown" => Running'
        BY <1>0, <2>1, <3>1, <3>2, <4>1, RunningStays
      <4>3. QED
        BY <1>0, <2>1, <3>1, <4>1, <4>2 DEF DownloadInv
    <3>5. QED
      BY <3>3, <3>4
  <2>4. QED
    BY <2>2, <2>3
<1>2. CASE UNCHANGED allVars
  <2>1. UNCHANGED <<ui, task, phase, cancelled, shuttingDown, boot, active, db>>
    BY <1>2 DEF allVars, vars, workerVars, appVars
  <2>2. AllKept
    BY <2>1 DEF AllKept, Kept, LivesOn
  <2>3. ui.do # "shutdown" => Running'
    BY <2>1, <2>2, RunningStays
  <2>4. QED
    BY <1>0, <2>1, <2>3 DEF DownloadInv
<1>3. CASE Exit
  <2>1. /\ ui' = NoUI /\ boot' = "down" /\ ~shuttingDown'
        /\ \A g \in Goroutines : task'[g] = NoId /\ ~cancelled'[g]
    BY <1>3 DEF Exit, ProcessEnds
  <2>2. QED
    BY <2>1 DEF DownloadInv, Running, NoUI, At
<1>4. ASSUME Next, ~Manager, ~Exit PROVE DownloadInv'
  <2>0. boot = "up" /\ boot' = "up"
    BY <1>0, <1>4, OnlyMainBoots
  <2>1. CASE Plain
    <3>1. CASE ui.do = "shutdown"
      BY <1>0, <1>a, <2>0, <2>1, <3>1, PlainLeaves
    <3>2. CASE ui.do # "shutdown"
      BY <1>a, <2>0, <2>1, <3>2, PlainRuns
    <3>3. QED
      BY <3>1, <3>2
  <2>2. CASE Shutdown \/ ShutdownReturn
    BY <1>a, <2>0, <2>2 DEF Shutdown, ShutdownReturn, NoUI
  <2>3. CASE ShutdownVisits \/ ShutdownWrite
    <3>1. ui.do = "shutdown"
      BY <2>3 DEF ShutdownVisits, ShutdownStop, ShutdownPending, ShutdownWrite, UIAt
    <3>2. ASSUME NEW id, ShutdownStop(id) PROVE ui'.do = ui.do
      BY <1>0, <3>2 DEF ShutdownStop, UI
    <3>3. ASSUME NEW id, ShutdownPending(id) PROVE ui'.do = ui.do
      BY <1>0, <3>3 DEF ShutdownPending, UI
    <3>4. ASSUME ShutdownWrite PROVE ui'.do = ui.do
      BY <1>0, <3>4 DEF ShutdownWrite, UI
    <3>5. QED
      BY <1>a, <2>0, <2>3, <3>1, <3>2, <3>3, <3>4 DEF ShutdownVisits
  <2>4. ASSUME NEW g \in Goroutines, Worker(g) \/ Settle(g) \/ Discard(g) PROVE DownloadInv'
    <3>1. UNCHANGED ui
      BY <2>4 DEF Worker, Settle, Discard, appVars
    <3>2. QED
      BY <1>0, <1>a, <2>0, <2>4, <3>1, WorkerRuns
  <2>5. ASSUME NEW g \in Goroutines, WorkerEnd(g) PROVE DownloadInv'
    <3>1. ui'.do = ui.do /\ ui'.at = ui.at /\ ui'.id = ui.id /\ ui'.ctx = ui.ctx \ {g}
      BY <1>0, <2>5 DEF WorkerEnd, UI
    <3>2. /\ At(g, "earlyEnd") \/ At(g, "ending")
          /\ \E c : Release(g, c)
          /\ UNCHANGED shuttingDown /\ ~Complete(g) /\ ~Announce(g)
      BY <2>5 DEF WorkerEnd, End, Complete, Announce, WriteStatus, At
    <3>3. AllKept
      BY <1>0, <2>5, <3>2, WorkersKeep
    <3>4. QED
      BY <1>0, <1>a, <2>0, <3>1, <3>2, <3>3, RunningEnds
  <2>6. ASSUME NEW g \in Goroutines, AnswerReturn(g) PROVE DownloadInv'
    <3>1. /\ At(g, "ending") /\ ui.do = "answer" /\ ui' = NoUI /\ Release(g, "ui")
          /\ UNCHANGED shuttingDown /\ ~Complete(g) /\ ~Announce(g)
      BY <2>6 DEF AnswerReturn, Complete, Announce, WriteStatus, At
    <3>2. AllKept
      BY <1>0, <2>6, <3>1, WorkersKeep DEF Resolves
    <3>3. Running'
      BY <2>0, <3>1, <3>2, RunningEnds
    <3>4. QED
      BY <1>a, <2>0, <3>1, <3>3 DEF NoUI
  <2>7. ASSUME NEW g \in Goroutines, ShutdownRelease(g) PROVE DownloadInv'
    <3>1. ui.do = "shutdown" /\ ui'.do = ui.do
      BY <1>0, <2>7 DEF ShutdownRelease, UIAt, UI
    <3>2. QED
      BY <1>a, <2>0, <3>1
  <2>8. ASSUME NEW g \in Goroutines, NEW to \in {"placing", "discarding"}, Answer(g, to)
        PROVE  DownloadInv'
    <3>1. /\ ui.do = "none" /\ ui'.do = "answer" /\ ui'.at = "none" /\ ui'.ctx = {g}
          /\ UNCHANGED <<db, boot, active, task, cancelled, shuttingDown>>
          /\ task[g] # NoId /\ Goto(g, to)
      BY <2>8 DEF Answer, UIFree, NoUI, At, vars
    <3>2. /\ phase'[g] = to /\ \A h \in Goroutines \ {g} : phase'[h] = phase[h]
          /\ \A id : ~Deleting(ui, id)
      BY <3>1, DownloadFacts DEF Goto, Deleting
    <3>3. Running'
      BY <3>1, <3>2, DownloadFacts DEF Running, At
    <3>4. QED
      BY <1>a, <2>0, <3>1, <3>3
  <2>9. QED
    BY <1>4, <2>1, <2>2, <2>3, <2>4, <2>5, <2>6, <2>7, <2>8, NextCases DEF Resolves
<1>5. QED
  BY <1>1, <1>2, <1>3, <1>4

\* In a fresh process nothing runs, and recovery is yet to come.
LEMMA DownloadInit == Init => DownloadInv
BY DEF Init, QueueInit, WorkersInit, NoUI, DownloadInv, Running, At

\* A row that says "downloading" has a worker that moves it, after any sequence of
\* adds, schedules, resumes, deletes, changes of the limit, crashes and restarts.
THEOREM DownloadingIsRunning ==
  ASSUME Ops \cap {"pause", "pauseAll", "cancel", "again", "history"} = {}
  PROVE  Spec => []DownloadingHasWorker
<1>0. Harmless
  BY DEF Harmless
<1>1. Init => DownloadAll
  BY AppInit, DownloadInit DEF DownloadAll
<1>2. DownloadAll /\ [Next]_allVars => DownloadAll'
  BY <1>0, AppPreserved, DownloadPreserved DEF DownloadAll
<1>3. DownloadAll => DownloadingHasWorker
  BY DEF DownloadAll, DownloadInv, Running, DownloadingHasWorker, AppUp, Has, Deleting
<1>4. QED
  BY <1>1, <1>2, <1>3, PTL DEF Spec
=============================================================================
