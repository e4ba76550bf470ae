-------------------------- MODULE QueueMovesProofs --------------------------
(***************************************************************************)
(* What the user's moves leave true of the queue, for every number of      *)
(* downloads, goroutines and slots.  What the manager guarantees by itself *)
(* holds under the moves as well, for they write positions only.  The      *)
(* positions of the queue stay distinct, and two downloads change places   *)
(* only in a swap: the ranks a move has listed agree with the positions of *)
(* the rows it has listed, and lie below those of the rows added since.    *)
(***************************************************************************)
EXTENDS QueueMoves, QueueManagerProofs, FiniteSetTheorems

-----------------------------------------------------------------------------
(* The steps of a move.                                                    *)

MoveTyped ==
  /\ move.at \in {"none", "compact", "read", "count", "swap"}
  /\ move = [at |-> move.at, id |-> move.id, way |-> move.way, to |-> move.to,
             rank |-> move.rank, pos |-> move.pos]
  /\ move.rank \in [Ids -> Nat]
  /\ move.to \in Nat /\ move.pos \in Nat
  /\ Moving => move.id \in Ids

\* The table after a step has the rows of the table before, but for positions.
OnlyPositions == \A id \in Ids : \E p \in Nat : db'[id] = [db[id] EXCEPT !.pos = p]

\* Cardinalities of sets of rows are numbers.
LEMMA RowsFinite ==
  ASSUME NEW S \in SUBSET Ids
  PROVE  IsFiniteSet(S) /\ Cardinality(S) \in Nat
  BY StorageAssumption, FS_Subset, FS_CardinalityType

\* A table that only changes positions has the same queue.
LEMMA QueueStands ==
  ASSUME db \in Table, db' \in [Ids -> Row], OnlyPositions
  PROVE  Queued(db') = Queued(db)
<1>1. \A id \in Ids : db'[id].status = db[id].status /\ db'[id].life = db[id].life
  BY DEF OnlyPositions, Table, Row
<1>2. QED
  BY <1>1 DEF Queued, Live

\* Resting is a move.
LEMMA RestingTyped ==
  ASSUME move' = Resting
  PROVE  MoveTyped' /\ ~Moving'
  BY DEF MoveTyped, Resting, Moving

\* The statements of a move that write.
LEMMA WritersShape ==
  ASSUME TypeOK, MoveTyped, Shift \/ Swap
  PROVE  /\ UNCHANGED queueVars
         /\ db' \in Table
         /\ OnlyPositions
<1> USE DEF TypeOK, Table
<1>0. \A id \in Ids : db[id].pos \in Nat /\ db[id] = [db[id] EXCEPT !.pos = db[id].pos]
  BY DEF Row
<1>1. CASE Shift
  <2>1. \A id \in Ids : db'[id] = IF move.rank[id] # 0 /\ Exists(db, id)
                                    THEN [db[id] EXCEPT !.pos = move.rank[id]] ELSE db[id]
    BY <1>1 DEF Shift
  <2>2. \A id \in Ids : \E p \in Nat : db'[id] = [db[id] EXCEPT !.pos = p]
    BY <1>0, <2>1 DEF MoveTyped
  <2>3. db' \in [Ids -> Row]
    BY <1>1, <2>1 DEF Shift, MoveTyped, Row
  <2>4. QED
    BY <1>1, <2>2, <2>3 DEF Shift, OnlyPositions
<1>2. CASE Swap
  <2>1. \A id \in Ids : db'[id] =
          IF id = move.id THEN [db[id] EXCEPT !.pos = move.to]
          ELSE IF id \in Queued(db) /\ db[id].pos = move.to
                 THEN [db[id] EXCEPT !.pos = move.pos] ELSE db[id]
    BY <1>2 DEF Swap
  <2>2. \A id \in Ids : \E p \in Nat : db'[id] = [db[id] EXCEPT !.pos = p]
    <3>1. \A id \in Ids : \E p \in {move.to, move.pos, db[id].pos} : db'[id] = [db[id] EXCEPT !.pos = p]
      BY <1>0, <2>1
    <3>2. \A id \in Ids : {move.to, move.pos, db[id].pos} \subseteq Nat
      BY <1>0 DEF MoveTyped
    <3>3. QED
      BY <3>1, <3>2
  <2>3. db' \in [Ids -> Row]
    <3>1. \A id \in Ids, p \in Nat : [db[id] EXCEPT !.pos = p] \in Row
      BY DEF Row
    <3>2. ASSUME NEW id \in Ids PROVE db'[id] \in Row
      <4>1. PICK p \in Nat : db'[id] = [db[id] EXCEPT !.pos = p]
        BY <2>2
      <4>2. QED
        BY <3>1, <4>1, Zenon
    <3>3. QED
      BY <1>2, <3>2 DEF Swap
  <2>4. QED
    BY <1>2, <2>2, <2>3 DEF Swap, OnlyPositions
<1>3. QED
  BY <1>1, <1>2

\* The steps of a move that read change nothing but what is read.
ReadStep ==
  /\ UNCHANGED vars
  /\ \/ \E id \in Ids, way \in {"up", "down"} : ShiftList(id, way)
     \/ ReadPosition \/ CountQueue

\* What goes on meanwhile the manager knows from its own specification.
LEMMA BackgroundIsQueueNext == Background => QueueNext
<1>1. ManagerStep => QueueNext
  BY DEF QueueNext
<1>2. ASSUME boot = "up" /\ op.by # "main", NEW id \in Ids, TryStart(id, "add")
      PROVE  QueueNext
  BY <1>2 DEF QueueNext, CallManager
<1>3. ASSUME boot = "up" /\ "create" \in Externals, UNCHANGED queueVars,
             NEW id \in Ids, db[id].life = "none", db' = CreateDownloadWithChunks(db, id)
      PROVE  QueueNext
  BY <1>3 DEF QueueNext, External, ExternalStatement
<1>4. ASSUME NEW g \in Goroutines, task[g] # NoId,
             OnDone(task[g], "worker", [task EXCEPT ![g] = NoId])
      PROVE  QueueNext
  BY <1>4 DEF QueueNext, GoroutineEnds
<1>5. QED
  BY <1>1, <1>2, <1>3, <1>4 DEF Background

\* Every step is one of the manager's, a read or a write of a move.
LEMMA StepKinds ==
  ASSUME [MovesNext]_moveVars
  PROVE  \/ [QueueNext]_vars
         \/ UNCHANGED vars
         \/ Shift \/ Swap
<1>1. CASE UNCHANGED moveVars
  BY <1>1 DEF moveVars, vars
<1>2. CASE MoveStep
  BY <1>2 DEF MoveStep, ReadPosition, CountQueue
<1>3. CASE \E id \in Ids, way \in {"up", "down"} : ShiftList(id, way)
  BY <1>3 DEF ShiftList
<1>4. CASE Moving /\ "exit" \in Externals /\ ProcessEnds /\ move' = Resting
  BY <1>4 DEF QueueNext
<1>5. QED
  BY <1>1, <1>2, <1>3, <1>4, BackgroundIsQueueNext DEF MovesNext

\* What a move holds keeps its shape.
LEMMA MoveTypedStep ==
  ASSUME TypeOK, MoveTyped, [MovesNext]_moveVars
  PROVE  MoveTyped'
<1>1. CASE UNCHANGED move
  BY <1>1 DEF MoveTyped, Moving
<1>2. CASE move' = Resting
  BY <1>2, RestingTyped
<1>3. ASSUME NEW id \in Ids, NEW way \in {"up", "down"}, ShiftList(id, way)
      PROVE  MoveTyped'
  <2>1. Listed \in [Ids -> Nat]
    <3>1. \A a \in Ids : Cardinality({m \in Queued(db) : ListedBefore(m, a)}) \in Nat
      <4>1. \A a \in Ids : {m \in Queued(db) : ListedBefore(m, a)} \in SUBSET Ids
        BY DEF Queued
      <4>2. QED
        BY <4>1, RowsFinite
    <3>2. QED
      BY <3>1 DEF Listed
  <2>2. QED
    BY <1>3, <2>1 DEF ShiftList, MoveTyped, Resting, Moving
<1>4. CASE Shift
  BY <1>4 DEF Shift, MoveTyped, Resting, Moving
<1>5. CASE ReadPosition
  <2>1. CASE move' = Resting
    BY <2>1, RestingTyped
  <2>2. CASE move.id \in Queued(db) /\ move' = [move EXCEPT !.at = "count", !.pos = db[move.id].pos]
    BY <1>5, <2>2 DEF ReadPosition, MoveTyped, Moving, TypeOK, Row, Queued
  <2>3. QED
    BY <1>5, <2>1, <2>2 DEF ReadPosition
<1>6. CASE CountQueue
  <2>1. Cardinality(Queued(db)) \in Nat
    BY RowsFinite DEF Queued
  <2>2. Target \in Nat
    BY <2>1 DEF Target, MoveTyped
  <2>3. CASE move' = Resting
    BY <2>3, RestingTyped
  <2>4. CASE move' = [move EXCEPT !.at = "swap", !.to = Target]
    BY <1>6, <2>2, <2>4 DEF CountQueue, MoveTyped, Moving
  <2>5. QED
    BY <1>6, <2>3, <2>4 DEF CountQueue
<1>7. CASE Swap
  BY <1>7, RestingTyped DEF Swap
<1>8. QED
  BY <1>1, <1>2, <1>3, <1>4, <1>5, <1>6, <1>7 DEF MovesNext, MoveStep, moveVars

\* A move starts at rest.
LEMMA MovesStart == MovesInit => QueueInit /\ MoveTyped /\ move = Resting
  BY DEF MovesInit, MoveTyped, Resting, Moving

-----------------------------------------------------------------------------
(* What the manager guarantees, under the moves.                           *)

MovesOwnerInv == TypeOK /\ SlotHasOneOwner /\ MoveTyped

\* The moves write positions only, which neither types nor owners depend on.
LEMMA MovesOwnerStep ==
  ASSUME MovesOwnerInv, [MovesNext]_moveVars
  PROVE  MovesOwnerInv'
<1> USE DEF MovesOwnerInv
<1>1. CASE [QueueNext]_vars
  BY <1>1, TypePreserved, OwnerPreserved, MoveTypedStep
<1>2. CASE UNCHANGED vars
  BY <1>2, TypePreserved, OwnerPreserved, MoveTypedStep
<1>3. CASE Shift \/ Swap
  <2>1. UNCHANGED queueVars /\ db' \in Table
    BY <1>3, WritersShape
  <2>2. TypeOK'
    BY <2>1 DEF TypeOK, Table, queueVars
  <2>3. SlotHasOneOwner'
    BY <2>1 DEF queueVars, SlotHasOneOwner, TaskIds, Starting
  <2>4. QED
    BY <2>2, <2>3, MoveTypedStep
<1>4. QED
  BY <1>1, <1>2, <1>3, StepKinds

\* The manager starts well, and no move with it.
LEMMA MovesOwnerStart == MovesInit => MovesOwnerInv
  BY MovesStart, TypeInit, OwnerInit DEF MovesOwnerInv

\* While the user reorders the queue, outside m.mu, table and manager keep their
\* types and no download is run by two goroutines.
THEOREM MovesKeepOwners == MovesSpec => [](TypeOK /\ SlotHasOneOwner)
<1>1. MovesOwnerInv => TypeOK /\ SlotHasOneOwner
  BY DEF MovesOwnerInv
<1>2. QED
  BY <1>1, MovesOwnerStart, MovesOwnerStep, PTL DEF MovesSpec

\* With the moves too the manager is a pool of slots: they neither take nor free one.
THEOREM MovesImplementSlotPool == MovesSpec => ImplementsSlotPool
<1>1. MovesInit => Pool!Init
  BY QueueAssumption DEF MovesInit, QueueInit, Pool!Init
<1>2. MovesOwnerInv /\ [MovesNext]_moveVars => [Pool!Next]_<<active, maxConcurrent>>
  <2> SUFFICES ASSUME MovesOwnerInv, [MovesNext]_moveVars
               PROVE  [Pool!Next]_<<active, maxConcurrent>>
    OBVIOUS
  <2>1. CASE [QueueNext]_vars
    BY <2>1, PoolStep DEF MovesOwnerInv
  <2>2. CASE UNCHANGED vars
    BY <2>2 DEF vars
  <2>3. CASE Shift \/ Swap
    BY <2>3 DEF Shift, Swap, queueVars
  <2>4. QED
    BY <2>1, <2>2, <2>3, StepKinds
<1>3. QED
  BY <1>1, <1>2, MovesOwnerStart, MovesOwnerStep, PTL
  DEF MovesSpec, ImplementsSlotPool, Pool!Spec

MovesConservingInv == ConservingIInv /\ MoveTyped

\* Nor does it depend on positions who is queued and who has a slot.
LEMMA MovesConservingStep ==
  ASSUME WriteFaults = FALSE, MovesConservingInv, [MovesNext]_moveVars
  PROVE  MovesConservingInv'
<1> USE DEF MovesConservingInv, ConservingIInv
<1>1. TypeOK' /\ SlotHasOneOwner' /\ MoveTyped'
  BY MovesOwnerStep DEF MovesOwnerInv
<1>2. CASE [QueueNext]_vars
  BY <1>1, <1>2, ConservingPreserved
<1>3. CASE UNCHANGED vars
  BY <1>1, <1>3, ConservingPreserved
<1>4. CASE Shift \/ Swap
  <2>1. UNCHANGED queueVars /\ Queued(db') = Queued(db)
    BY <1>4, WritersShape, QueueStands DEF TypeOK, Table
  <2>2. QED
    BY <1>1, <2>1, ConservingQuiet DEF queueVars
<1>5. QED
  BY <1>2, <1>3, <1>4, StepKinds

\* At the start nothing runs and nothing is drained yet.
LEMMA MovesConservingStart == MovesInit => MovesConservingInv
  BY MovesStart, TypeInit, OwnerInit, ConservingInit DEF MovesConservingInv, ConservingIInv

\* Reordering the queue leaves no slot free while a download is queued.
THEOREM MovesConserveWork ==
  ASSUME WriteFaults = FALSE
  PROVE  MovesSpec => []WorkConserving
<1>1. MovesConservingInv => WorkConserving
  BY DEF MovesConservingInv, ConservingIInv, ConservingInv
<1>2. QED
  BY <1>1, MovesConservingStart, MovesConservingStep, PTL DEF MovesSpec

-----------------------------------------------------------------------------
(* The order of the queue.                                                 *)

\* Queued rows have positions of their own; the row about to be put in the queue is
\* not in it.
PlacedInv ==
  /\ \A a \in Queued(db) : db[a].pos # 0
  /\ \A a, b \in Queued(db) : a # b => db[a].pos # db[b].pos
  /\ op.at = "put" => op.id \notin Queued(db)

\* The tables a previous process may leave behind, when its statements succeeded.
TablesPlaced ==
  \A t \in InitTables : \A a \in Queued(t) :
    t[a].pos # 0 /\ \A b \in Queued(t) : a # b => t[a].pos # t[b].pos

\* A step takes rows out of the queue, or puts the row in hand at its end.
Stays(id) == id \in Queued(db) /\ db'[id].pos = db[id].pos
Keeps == \A id \in Queued(db') : Stays(id)
Adds ==
  /\ op.at = "put" /\ op' = Idle
  /\ \A id \in Queued(db') \ {op.id} : Stays(id)
  /\ op.id \in Queued(db') =>
       db'[op.id].pos # 0 /\ \A q \in Queued(db) \ {op.id} : db[q].pos < db'[op.id].pos

\* Put adds at the end, the other statements of the manager only take out.
LEMMA ManagerShape ==
  ASSUME WriteFaults = FALSE, ConservingIInv, ManagerStep
  PROVE  Keeps \/ Adds
<1> USE DEF ConservingIInv
<1>0. db \in Table
  BY DEF TypeOK, Table
<1>1. CASE Put
  <2>1. op.at = "put" /\ op.id \in Ids /\ op' = Idle
    BY <1>1 DEF Put, TypeOK
  <2>2. PICK p \in 1..MaxPos : IsEndPosition(db, p) /\ db' = EnqueueDownload(db, op.id, p)
    BY <1>1 DEF Put
  <2>3. \A id \in Ids \ {op.id} : db'[id] = db[id]
    BY <1>0, <2>1, <2>2 DEF EnqueueDownload, Table
  <2>4. \A id \in Queued(db') \ {op.id} : Stays(id)
    BY <2>3 DEF Queued, Live, Stays
  <2>5. op.id \in Queued(db') => db'[op.id].pos = p \/ Stays(op.id)
    BY <1>0, <2>1, <2>2 DEF EnqueueDownload, Table, Row, Queued, Live, Stays
  <2>6. CASE Stays(op.id)
    <3>1. Keeps
      BY <2>4, <2>6 DEF Keeps
    <3>2. QED
      BY <3>1
  <2>7. CASE op.id \in Queued(db') => db'[op.id].pos = p
    BY <2>1, <2>2, <2>4, <2>7, StorageAssumption DEF Adds, IsEndPosition
  <2>8. QED
    BY <2>5, <2>6, <2>7
<1>2. CASE Mark
  <2>1. op.id \in Ids /\ db' = MarkDownloading(db, op.id)
    BY <1>2 DEF Mark, TypeOK
  <2>2. \A id \in Ids \ {op.id} : db'[id] = db[id]
    BY <1>0, <2>1 DEF MarkDownloading, Table
  <2>3. op.id \notin Queued(db')
    BY <1>0, <2>1, QueuedShrinks
  <2>4. QED
    BY <2>2, <2>3 DEF Keeps, Stays, Queued, Live
<1>3. CASE UNCHANGED db
  BY <1>3 DEF Keeps, Stays
<1>4. CASE DrainSkip
  <2>1. PICK n \in active : n \in Queued(db)
    BY <1>4 DEF DrainSkip, IsNextInQueue
  <2>2. Starting = {}
    BY <1>4 DEF DrainSkip, Starting
  <2>3. QED
    BY <2>1, <2>2 DEF ConservingInv
<1>5. QED
  BY <1>1, <1>2, <1>3, <1>4 DEF ManagerStep, Enqueue, DrainStart, DrainReturn

\* A worker that ends clears the position of a row that is not queued.
LEMMA EndsShape ==
  ASSUME ConservingIInv, NEW g \in Goroutines, GoroutineEnds(g)
  PROVE  Keeps
<1> USE DEF ConservingIInv
<1>1. PICK c : OnDone(task[g], c, [task EXCEPT ![g] = NoId])
  BY DEF GoroutineEnds
<1>2. task[g] \in Ids
  BY DEF GoroutineEnds, TypeOK
<1>3. CASE task[g] \notin active
  BY <1>1, <1>3 DEF OnDone, Keeps, Stays
<1>4. CASE task[g] \in active
  <2>1. Starting = {}
    BY <1>1 DEF OnDone, MutexFree, Starting
  <2>2. task[g] \notin Queued(db)
    BY <1>4, <2>1 DEF ConservingInv
  <2>3. db' = SetQueuePosition(db, task[g], 0)
    BY <1>1, <1>4 DEF OnDone
  <2>4. /\ \A id \in Ids \ {task[g]} : db'[id] = db[id]
        /\ Queued(db') = Queued(db)
    <3>1. db \in Table
      BY DEF TypeOK, Table
    <3>2. \A id \in Ids \ {task[g]} : db'[id] = db[id]
      BY <1>2, <2>3, <3>1 DEF SetQueuePosition, Table
    <3>3. Queued(db') = Queued(db)
      BY <1>2, <2>3, <3>1, QueuedShrinks
    <3>4. QED
      BY <3>2, <3>3
  <2>5. QED
    BY <2>2, <2>4 DEF Keeps, Stays, Queued
<1>5. QED
  BY <1>3, <1>4

\* No statement of the pages and the scheduler queues a row or moves a queued one.
LEMMA ExternalShape ==
  ASSUME TypeOK, NEW id \in Ids, ExternalStatement(id)
  PROVE  Keeps
<1>0. db \in Table
  BY DEF TypeOK, Table
<1>1. \A m \in Ids \ {id} : db'[m] = db[m]
  BY <1>0 DEF ExternalStatement, CreateDownloadWithChunks, UpdateDownloadStatus, SetScheduledAt,
     DeleteDownload, RestoreDownload, PurgeDownload, ResetProgress, Table
<1>2. id \in Queued(db') => Stays(id)
  <2> USE DEF Table, Row, NoRow, Queued, Live, Exists, Stays
  <2>1. CASE db' = CreateDownloadWithChunks(db, id)
    BY <1>0, <2>1 DEF CreateDownloadWithChunks
  <2>2. ASSUME NEW s \in SetStatuses, db' = UpdateDownloadStatus(db, id, s)
        PROVE  id \in Queued(db') => Stays(id)
    BY <1>0, <2>2, QueueAssumption DEF UpdateDownloadStatus
  <2>3. ASSUME NEW b \in BOOLEAN, db' = SetScheduledAt(db, id, b)
        PROVE  id \in Queued(db') => Stays(id)
    BY <1>0, <2>3 DEF SetScheduledAt
  <2>4. CASE db' = DeleteDownload(db, id)
    BY <1>0, <2>4 DEF DeleteDownload
  <2>5. CASE db' = RestoreDownload(db, id)
    BY <1>0, <2>5 DEF RestoreDownload
  <2>6. CASE db' = PurgeDownload(db, id)
    BY <1>0, <2>6 DEF PurgeDownload
  <2>7. CASE db' = ResetProgress(db, id, "pending")
    BY <1>0, <2>7 DEF ResetProgress
  <2>8. QED
    BY <2>1, <2>2, <2>3, <2>4, <2>5, <2>6, <2>7 DEF ExternalStatement
<1>3. QED
  BY <1>1, <1>2 DEF Keeps, Stays, Queued, Live

\* What the manager, its callers and its environment do to the queue when a removal
\* of a queued row has written its status first.
LEMMA QueueShape ==
  ASSUME WriteFaults = FALSE, ConservingIInv, PlacedInv, [QueueNext]_vars, Orderly
  PROVE  Keeps \/ Adds
<1>0. TypeOK /\ db \in Table
  BY DEF ConservingIInv, TypeOK, Table
<1>1. CASE Reconcile
  BY <1>0, <1>1 DEF Reconcile, ReconcileInterrupted, Table, Row, Queued, Live, Keeps, Stays
<1>2. CASE UNCHANGED db
  BY <1>2 DEF Keeps, Stays
<1>3. CASE CallManager
  <2>1. ASSUME NEW id \in Ids, Remove(id), ~UNCHANGED db PROVE Keeps
    <3>1. db' = SetQueuePosition(db, id, 0)
      BY <2>1 DEF Remove
    <3>2. /\ \A m \in Ids \ {id} : db'[m] = db[m]
          /\ Queued(db') = Queued(db)
      <4>1. \A m \in Ids \ {id} : db'[m] = db[m]
        BY <1>0, <3>1 DEF SetQueuePosition, Table
      <4>2. Queued(db') = Queued(db)
        BY <1>0, <3>1, QueuedShrinks
      <4>3. QED
        BY <4>1, <4>2
    <3>3. id \notin Queued(db')
      <4>1. ~(db'[id].pos # 0) \/ UNCHANGED db
        BY <1>0, <3>1 DEF SetQueuePosition, Table, Row
      <4>2. QED
        BY <2>1, <3>2, <4>1 DEF Orderly, Waiting, PlacedInv
    <3>4. QED
      BY <3>2, <3>3 DEF Keeps, Stays, Queued
  <2>2. ASSUME NEW id \in Ids, EnqueueScheduled(id, "scheduler") PROVE Keeps
    <3>1. db' = SetScheduledAt(db, id, FALSE)
      BY <2>2 DEF EnqueueScheduled
    <3>2. \A m \in Ids : db'[m].pos = db[m].pos
      BY <1>0, <3>1 DEF SetScheduledAt, Table, Row
    <3>3. Queued(db') = Queued(db)
      BY <1>0, <3>1, QueuedShrinks
    <3>4. QED
      BY <3>2, <3>3 DEF Keeps, Stays, Queued
  <2>3. QED
    BY <1>2, <1>3, <2>1, <2>2 DEF CallManager, TryStart, SetMaxConcurrent
<1>4. QED
  BY <1>0, <1>1, <1>2, <1>3, ManagerShape, EndsShape, ExternalShape
  DEF QueueNext, Drain, External, ProcessEnds, vars

\* The same of what goes on while the user moves a row.
LEMMA BackgroundShape ==
  ASSUME WriteFaults = FALSE, ConservingIInv, Background
  PROVE  Keeps \/ Adds
<1>0. TypeOK
  BY DEF ConservingIInv
<1>1. CASE UNCHANGED db
  BY <1>1 DEF Keeps, Stays
<1>2. ASSUME NEW g \in Goroutines, task[g] # NoId,
             OnDone(task[g], "worker", [task EXCEPT ![g] = NoId])
      PROVE  Keeps
  BY <1>2, EndsShape DEF GoroutineEnds
<1>3. ASSUME "create" \in Externals, NEW id \in Ids, db[id].life = "none",
             db' = CreateDownloadWithChunks(db, id)
      PROVE  Keeps
  BY <1>0, <1>3, ExternalShape DEF ExternalStatement
<1>4. QED
  BY <1>1, <1>2, <1>3, ManagerShape DEF Background, TryStart

\* A method is about to put a row in the queue because it was, or because it has
\* just found it outside.
LEMMA PutComesFromEnqueue ==
  ASSUME TypeOK, [QueueNext]_vars, op'.at = "put"
  PROVE  op' = op \/ (Enqueue /\ op.at = "enqueue" /\ op' = [op EXCEPT !.at = "put"])
<1>1. CASE Mark
  BY <1>1 DEF Mark, Idle, TypeOK, Op
<1>2. CASE Enqueue
  BY <1>2 DEF Enqueue, Idle
<1>3. CASE Put \/ DrainReturn \/ ProcessEnds \/ Drain
  BY <1>3 DEF Put, DrainReturn, ProcessEnds, Drain, Idle
<1>4. CASE DrainStart \/ DrainSkip
  BY <1>4 DEF DrainStart, DrainSkip, TypeOK, Op
<1>5. CASE CallManager
  <2>1. ASSUME NEW id \in Ids, NEW c, TryStart(id, c) \/ EnqueueScheduled(id, c)
        PROVE  op' = op
    <3>1. ~Place(id, c)
      BY DEF Place
    <3>2. QED
      BY <2>1, <3>1 DEF TryStart, EnqueueScheduled
  <2>2. ASSUME NEW n, SetMaxConcurrent(n, "ui") PROVE FALSE
    BY <2>2 DEF SetMaxConcurrent
  <2>3. ASSUME NEW id, Remove(id) PROVE op' = op
    BY <2>3 DEF Remove, queueVars
  <2>4. QED
    BY <1>5, <2>1, <2>2, <2>3 DEF CallManager
<1>6. ASSUME NEW g \in Goroutines, GoroutineEnds(g) PROVE op' = op
  BY <1>6 DEF GoroutineEnds, OnDone
<1>7. CASE Reconcile \/ External \/ UNCHANGED vars
  BY <1>7 DEF Reconcile, External, queueVars, vars
<1>8. QED
  BY <1>1, <1>2, <1>3, <1>4, <1>5, <1>6, <1>7 DEF QueueNext, ManagerStep

\* Such steps leave the positions distinct and the order alone.
LEMMA ShapeKeepsPlaces ==
  ASSUME TypeOK, PlacedInv, [QueueNext]_vars, Keeps \/ Adds
  PROVE  /\ PlacedInv'
         /\ \A a, b \in Waiting(db) \cap Waiting(db') : Before(db, a, b) => Before(db', a, b)
<1>1. \A id \in Queued(db') : Stays(id) \/ (Adds /\ id = op.id)
  BY DEF Keeps, Adds
<1>2. \A id \in Queued(db) \cap Queued(db') : Stays(id)
  BY <1>1 DEF Adds, PlacedInv
<1>3. \A a \in Queued(db') : db'[a].pos # 0
  BY <1>1 DEF Adds, PlacedInv, Stays
<1>4. \A id \in Ids : db[id].pos \in Nat
  BY DEF TypeOK, Row
<1>5. ASSUME NEW a \in Queued(db'), NEW b \in Queued(db'), a # b
      PROVE  db'[a].pos # db'[b].pos
  <2>1. CASE Stays(a) /\ Stays(b)
    BY <1>5, <2>1 DEF PlacedInv, Stays
  <2>2. CASE Adds /\ a = op.id
    <3>1. Stays(b) /\ b \in Queued(db) \ {op.id} /\ b \in Ids
      BY <1>1, <1>5, <2>2 DEF Stays, Queued
    <3>2. db[b].pos < db'[a].pos /\ db'[b].pos = db[b].pos
      BY <1>5, <2>2, <3>1 DEF Adds, Stays
    <3>3. QED
      BY <1>4, <3>1, <3>2
  <2>3. CASE Adds /\ b = op.id
    <3>1. Stays(a) /\ a \in Queued(db) \ {op.id} /\ a \in Ids
      BY <1>1, <1>5, <2>3 DEF Stays, Queued
    <3>2. db[a].pos < db'[b].pos /\ db'[a].pos = db[a].pos
      BY <1>5, <2>3, <3>1 DEF Adds, Stays
    <3>3. QED
      BY <1>4, <3>1, <3>2
  <2>4. QED
    BY <1>1, <2>1, <2>2, <2>3
<1>6. op'.at = "put" => op'.id \notin Queued(db')
  <2> SUFFICES ASSUME op'.at = "put" PROVE op'.id \notin Queued(db')
    OBVIOUS
  <2>1. CASE Enqueue /\ op.at = "enqueue" /\ op' = [op EXCEPT !.at = "put"]
    <3>1. op'.id = op.id /\ op.id \in Ids /\ UNCHANGED db /\ op' # Idle
      BY <2>1 DEF Enqueue, TypeOK, Op, Idle
    <3>2. ~(db[op.id].status = "queued" /\ db[op.id].pos # 0)
      BY <2>1, <3>1 DEF Enqueue
    <3>3. QED
      BY <3>1, <3>2 DEF PlacedInv, Queued
  <2>2. CASE op' = op /\ op'.at = "put"
    <3>1. op.id \notin Queued(db)
      BY <2>2 DEF PlacedInv
    <3>2. Keeps
      BY <2>2 DEF Adds, Idle
    <3>3. QED
      BY <2>2, <3>1, <3>2 DEF Keeps, Stays
  <2>3. QED
    BY <2>1, <2>2, PutComesFromEnqueue
<1>7. ASSUME NEW a \in Waiting(db) \cap Waiting(db'), NEW b \in Waiting(db) \cap Waiting(db'),
             Before(db, a, b)
      PROVE  Before(db', a, b)
  BY <1>2, <1>7 DEF Waiting, Before, Stays
<1>8. QED
  BY <1>3, <1>5, <1>6, <1>7 DEF PlacedInv

-----------------------------------------------------------------------------
(* The ranks of a listing.                                                 *)

\* The rank of a row grows with its position and never exceeds it: as many rows
\* come before it as there are positions taken below its own.
LEMMA RanksFollowPositions ==
  ASSUME db \in Table, PlacedInv
  PROVE  /\ \A a \in Ids : Listed[a] # 0 <=> a \in Queued(db)
         /\ \A a, b \in Queued(db) : db[a].pos < db[b].pos => Listed[a] < Listed[b]
         /\ \A a \in Queued(db) : Listed[a] <= db[a].pos
<1> DEFINE Earlier(a) == {m \in Queued(db) : ListedBefore(m, a)}
<1>1. \A a \in Queued(db) : a \in Ids /\ db[a].pos \in Nat
  BY DEF Table, Row, Queued
<1>2. \A a \in Ids : IsFiniteSet(Earlier(a)) /\ Cardinality(Earlier(a)) \in Nat
  <2>1. \A a \in Ids : Earlier(a) \in SUBSET Ids
    BY <1>1
  <2> HIDE DEF Earlier
  <2>2. QED
    BY <2>1, RowsFinite
<1>3. \A a \in Ids : Listed[a] = IF a \notin Queued(db) THEN 0 ELSE 1 + Cardinality(Earlier(a))
  BY DEF Listed
<1>4. \A a \in Ids : Listed[a] # 0 <=> a \in Queued(db)
  <2> HIDE DEF Earlier
  <2>1. QED
    BY <1>2, <1>3
<1>5. ASSUME NEW a \in Queued(db), NEW b \in Queued(db), db[a].pos < db[b].pos
      PROVE  Listed[a] < Listed[b]
  <2>1. a \notin Earlier(a) /\ Earlier(a) \cup {a} \in SUBSET Earlier(b)
    <3>1. \A m \in Earlier(a) : m \in Queued(db) /\ (m = a \/ db[m].pos < db[a].pos)
      BY DEF ListedBefore, PlacedInv
    <3>2. \A m \in Earlier(a) : ListedBefore(m, b)
      BY <1>1, <1>5, <3>1 DEF ListedBefore
    <3>3. ListedBefore(a, b)
      BY <1>5 DEF ListedBefore
    <3>4. ~ListedBefore(a, a)
      <4>1. a \in Nat /\ db[a].pos \in Nat
        BY <1>1, StorageAssumption
      <4>2. QED
        BY <4>1 DEF ListedBefore
    <3>5. QED
      BY <3>2, <3>3, <3>4
  <2> HIDE DEF Earlier
  <2>2. Cardinality(Earlier(a) \cup {a}) = Cardinality(Earlier(a)) + 1
    BY <1>1, <1>2, <2>1, FS_AddElement
  <2>3. Cardinality(Earlier(a) \cup {a}) <= Cardinality(Earlier(b))
    BY <1>1, <1>2, <2>1, FS_Subset
  <2>4. QED
    BY <1>1, <1>2, <1>3, <2>2, <2>3
<1>6. ASSUME NEW a \in Queued(db) PROVE Listed[a] <= db[a].pos
  <2> DEFINE below == 1..(db[a].pos - 1)
             place == [m \in Earlier(a) |-> db[m].pos]
  <2>1. db[a].pos \in Nat /\ db[a].pos >= 1
    BY <1>1 DEF PlacedInv
  <2>2. \A m \in Earlier(a) : m \in Queued(db) /\ db[m].pos \in below
    <3> SUFFICES ASSUME NEW m \in Earlier(a) PROVE m \in Queued(db) /\ db[m].pos \in below
      OBVIOUS
    <3>1. m \in Queued(db) /\ ListedBefore(m, a)
      OBVIOUS
    <3>2. db[m].pos \in Nat /\ db[m].pos # 0 /\ m \in Nat /\ a \in Nat
      BY <1>1, <3>1, StorageAssumption DEF PlacedInv
    <3>3. m # a
      BY <2>1, <3>1, <3>2 DEF ListedBefore
    <3>4. db[m].pos < db[a].pos
      BY <3>1, <3>3 DEF ListedBefore, PlacedInv
    <3>5. QED
      BY <2>1, <3>1, <3>2, <3>4
  <2>3. IsFiniteSet(below) /\ Cardinality(below) = db[a].pos - 1
    <3>1. /\ 1 \in Int /\ db[a].pos - 1 \in Int
          /\ (IF 1 > db[a].pos - 1 THEN 0 ELSE db[a].pos - 1 - 1 + 1) = db[a].pos - 1
      BY <2>1
    <3>2. QED
      BY <3>1, FS_Interval
  <2>4. place \in [Earlier(a) -> below]
    BY <2>2
  <2>5. \A x, y \in Earlier(a) : x # y => place[x] # place[y]
    BY <2>2 DEF PlacedInv
  <2>6. a \in Ids
    BY <1>1
  <2> HIDE DEF Earlier, below, place
  <2>7. ~(Cardinality(below) < Cardinality(Earlier(a)))
    BY <1>2, <2>3, <2>4, <2>5, <2>6, FS_PigeonHole
  <2>8. QED
    BY <1>2, <1>3, <2>1, <2>3, <2>6, <2>7
<1>7. QED
  BY <1>4, <1>5, <1>6

-----------------------------------------------------------------------------
(* The invariant of a move.                                                *)

\* A row that was queued when the move looked at it: it may be drained, but while
\* the UI thread is busy nobody puts it back.
Pinned(a) ==
  /\ Live(db, a) /\ db[a].status \in {"queued", "downloading"}
  /\ op.at = "enqueue" /\ op.id = a => a \in Queued(db)
  /\ op.at = "put" => op.id # a

Ranked == {a \in Ids : move.rank[a] # 0}

\* Between the listing and its transaction the ranks agree with the positions of the
\* rows they are for, and rows added since are behind them.
CompactInv ==
  move.at = "compact" =>
    /\ \A a \in Ranked : Pinned(a)
    /\ \A a, b \in Ranked \cap Queued(db) :
         db[a].pos < db[b].pos => move.rank[a] < move.rank[b]
    /\ \A a \in Ranked \cap Queued(db) : move.rank[a] <= db[a].pos
    /\ \A a \in Ranked \cap Queued(db) : \A c \in Queued(db) \ Ranked : db[a].pos < db[c].pos

\* From the read to the swap the row keeps its position as long as it is queued.
SwapInv ==
  move.at \in {"count", "swap"} =>
    /\ Pinned(move.id)
    /\ move.pos # 0
    /\ move.id \in Queued(db) =>
         db[move.id].pos = move.pos /\ (move.at = "swap" => move.to # 0)

\* The rows a move has looked at.
LEMMA PinnedStays ==
  ASSUME WriteFaults = FALSE, ConservingIInv, PlacedInv, Background, NEW a \in Ids, Pinned(a)
  PROVE  Pinned(a)' /\ (a \in Queued(db') => Stays(a))
<1>0. TypeOK /\ db \in Table
  BY DEF ConservingIInv, TypeOK, Table
<1>1. a \in Queued(db') => Stays(a)
  BY BackgroundShape DEF Keeps, Adds, Pinned
<1>2. /\ db'[a].life = db[a].life
      /\ db'[a].status = db[a].status \/ db'[a].status = "downloading"
      /\ op' = op => db'[a].status = db[a].status
  <2> USE DEF Table, Row, Pinned
  <2>1. CASE Put
    BY <1>0, <2>1 DEF Put, EnqueueDownload
  <2>2. CASE Mark
    <3>1. op.at = "mark" /\ op'.at # "mark"
      BY <1>0, <2>2 DEF Mark, Idle, TypeOK, Op
    <3>2. db' = MarkDownloading(db, op.id)
      BY <2>2 DEF Mark
    <3>3. QED
      BY <1>0, <3>1, <3>2 DEF MarkDownloading
  <2>3. CASE UNCHANGED db
    BY <2>3
  <2>4. ASSUME NEW n, db' = SetQueuePosition(db, n, 0)
        PROVE  db'[a].life = db[a].life /\ db'[a].status = db[a].status
    BY <1>0, <2>4 DEF SetQueuePosition
  <2>5. ASSUME NEW id \in Ids, db[id].life = "none", db' = CreateDownloadWithChunks(db, id)
        PROVE  db'[a] = db[a]
    BY <1>0, <2>5 DEF CreateDownloadWithChunks, Live
  <2>6. QED
    BY <2>1, <2>2, <2>3, <2>4, <2>5
    DEF Background, ManagerStep, Enqueue, DrainStart, DrainSkip, DrainReturn, TryStart, OnDone
<1>3. Live(db, a)' /\ db'[a].status \in {"queued", "downloading"}
  BY <1>2 DEF Live, Pinned
<1>4. /\ op'.at = "enqueue" /\ op'.id = a => a \in Queued(db')
      /\ op'.at = "put" => op'.id # a
  <2>1. CASE op' = op
    <3>1. a \in Queued(db) <=> a \in Queued(db')
      BY <1>2, <2>1 DEF Queued, Live
    <3>2. QED
      BY <2>1, <3>1 DEF Pinned
  <2>2. CASE op'.at \notin {"enqueue", "put"}
    BY <2>2
  <2>3. CASE Enqueue
    <3>1. CASE op.id = a
      <4>1. a \in Queued(db) /\ db[a].pos # 0
        BY <2>3, <3>1 DEF Enqueue, Pinned, PlacedInv
      <4>2. op' = Idle
        BY <2>3, <3>1, <4>1 DEF Enqueue, Queued
      <4>3. QED
        BY <4>2 DEF Idle
    <3>2. CASE op.id # a
      BY <1>0, <2>3, <3>2 DEF Enqueue, Idle, TypeOK, Op
    <3>3. QED
      BY <3>1, <3>2
  <2>4. ASSUME NEW id \in Ids, db[id].status = "pending", TryStart(id, "add")
        PROVE  /\ op'.at = "enqueue" /\ op'.id = a => a \in Queued(db')
               /\ op'.at = "put" => op'.id # a
    <3>1. id # a
      BY <2>4 DEF Pinned
    <3>2. op' = op \/ op'.at = "mark" \/ (op'.at = "enqueue" /\ op'.id = id)
      BY <2>4 DEF TryStart, Place
    <3>3. QED
      BY <2>1, <3>1, <3>2
  <2>5. CASE ManagerStep
    <3>1. CASE Put \/ DrainReturn
      BY <2>2, <3>1 DEF Put, DrainReturn, Idle
    <3>2. CASE Mark \/ DrainStart \/ DrainSkip
      <4>1. CASE Mark
        BY <1>0, <2>2, <4>1 DEF Mark, Idle, TypeOK, Op
      <4>2. CASE DrainStart
        BY <1>0, <2>2, <4>2 DEF DrainStart, TypeOK, Op
      <4>3. CASE DrainSkip
        BY <1>0, <2>2, <4>3 DEF DrainSkip, TypeOK, Op
      <4>4. QED
        BY <3>2, <4>1, <4>2, <4>3
    <3>3. QED
      BY <2>3, <2>5, <3>1, <3>2 DEF ManagerStep
  <2>6. ASSUME NEW g, OnDone(task[g], "worker", [task EXCEPT ![g] = NoId])
        PROVE  op' = op \/ op'.at = "drain"
    BY <2>6 DEF OnDone
  <2>7. QED
    BY <2>1, <2>2, <2>4, <2>5, <2>6 DEF Background, queueVars
<1>5. QED
  BY <1>1, <1>3, <1>4 DEF Pinned

PlacesInv == PlacedInv /\ CompactInv /\ SwapInv

\* Two rows that wait change places in a swap that concerns one of them.
OrderStep ==
  \A a, b \in Waiting(db) \cap Waiting(db') :
    Before(db, a, b) /\ ~Before(db', a, b)
      => move.at = "swap" /\ \E r \in {a, b} : r = move.id \/ db[r].pos = move.to

\* Nothing is known of a move that rests.
LEMMA RestingPlaces ==
  ASSUME PlacedInv', move' = Resting
  PROVE  PlacesInv'
  BY DEF PlacesInv, CompactInv, SwapInv, Resting

\* A step that leaves the table and the manager alone.
LEMMA SameTable ==
  ASSUME UNCHANGED <<db, op>>
  PROVE  /\ OrderStep
         /\ PlacedInv => PlacedInv'
  BY DEF OrderStep, PlacedInv

\* What is listed is ranked as it is placed.
LEMMA ShiftListPlaces ==
  ASSUME TypeOK, PlacesInv, NEW id \in Ids, NEW way, ShiftList(id, way)
  PROVE  PlacesInv' /\ OrderStep
<1>1. UNCHANGED <<db, op>> /\ move'.at = "compact" /\ move'.rank = Listed
  BY DEF ShiftList, vars, Resting
<1>2. Ranked' = Queued(db)
  BY <1>1, RanksFollowPositions DEF Ranked, Queued, TypeOK, Table, PlacesInv
<1>3. \A a \in Queued(db) : Pinned(a)
  BY DEF Pinned, Queued, PlacesInv, PlacedInv
<1>4. CompactInv'
  <2>1. \A a \in Ranked' : Pinned(a)'
    BY <1>1, <1>2, <1>3 DEF Pinned
  <2>2. \A a, b \in Queued(db) : db[a].pos < db[b].pos => Listed[a] < Listed[b]
    BY RanksFollowPositions DEF TypeOK, Table, PlacesInv
  <2>3. \A a \in Queued(db) : Listed[a] <= db[a].pos
    BY RanksFollowPositions DEF TypeOK, Table, PlacesInv
  <2>4. QED
    BY <1>1, <1>2, <2>1, <2>2, <2>3 DEF CompactInv
<1>5. SwapInv'
  BY <1>1 DEF SwapInv
<1>6. QED
  BY <1>1, <1>4, <1>5, SameTable DEF PlacesInv

\* The transaction that compacts the queue writes ranks that are below the positions
\* of the rows it does not know of.
LEMMA ShiftPlaces ==
  ASSUME TypeOK, MoveTyped, PlacesInv, Shift
  PROVE  PlacesInv' /\ OrderStep
<1> USE DEF PlacesInv
<1>1. /\ move.at = "compact" /\ move'.at = "read" /\ UNCHANGED op
      /\ \A id \in Ids : db'[id].pos = IF id \in Ranked /\ Exists(db, id)
                                         THEN move.rank[id] ELSE db[id].pos
  BY DEF Shift, MoveTyped, queueVars, Ranked, TypeOK, Row
<1>2. Queued(db') = Queued(db)
  BY WritersShape, QueueStands DEF TypeOK, Table
<1>3. \A a \in Queued(db) : a \in Ids /\ Exists(db, a) /\ db[a].pos \in Nat /\ move.rank[a] \in Nat
  BY DEF Queued, Live, Exists, TypeOK, Row, MoveTyped
<1>4. \A a \in Queued(db) : db'[a].pos = IF a \in Ranked THEN move.rank[a] ELSE db[a].pos
  BY <1>1, <1>3
<1>5. \A a, b \in Queued(db) : db[a].pos < db[b].pos => db'[a].pos < db'[b].pos
  <2> SUFFICES ASSUME NEW a \in Queued(db), NEW b \in Queued(db), db[a].pos < db[b].pos
               PROVE  db'[a].pos < db'[b].pos
    OBVIOUS
  <2>1. CASE a \in Ranked /\ b \in Ranked
    BY <1>1, <1>4, <2>1 DEF CompactInv
  <2>2. CASE a \in Ranked /\ b \notin Ranked
    <3>1. move.rank[a] <= db[a].pos
      BY <1>1, <2>2 DEF CompactInv
    <3>2. QED
      BY <1>3, <1>4, <2>2, <3>1
  <2>3. CASE a \notin Ranked /\ b \in Ranked
    <3>1. db[b].pos < db[a].pos
      BY <1>1, <2>3 DEF CompactInv
    <3>2. QED
      BY <1>3, <3>1
  <2>4. CASE a \notin Ranked /\ b \notin Ranked
    BY <1>4, <2>4
  <2>5. QED
    BY <2>1, <2>2, <2>3, <2>4
<1>6. \A a \in Queued(db) : db'[a].pos # 0 /\ db'[a].pos \in Nat
  BY <1>3, <1>4 DEF Ranked, PlacedInv
<1>7. \A a, b \in Queued(db) : a # b => db'[a].pos # db'[b].pos
  <2> SUFFICES ASSUME NEW a \in Queued(db), NEW b \in Queued(db), a # b
               PROVE  db'[a].pos # db'[b].pos
    OBVIOUS
  <2>1. db[a].pos < db[b].pos \/ db[b].pos < db[a].pos
    BY <1>3 DEF PlacedInv
  <2>2. db'[a].pos < db'[b].pos \/ db'[b].pos < db'[a].pos
    BY <1>5, <2>1
  <2>3. QED
    BY <1>6, <2>2
<1>8. PlacedInv'
  BY <1>1, <1>2, <1>6, <1>7 DEF PlacedInv
<1>9. OrderStep
  <2>1. ASSUME NEW a \in Queued(db), NEW b \in Queued(db), Before(db, a, b)
        PROVE  Before(db', a, b)
    <3>1. db[a].pos < db[b].pos
      <4>1. a # b
        BY <1>3, <2>1, StorageAssumption DEF Before
      <4>2. QED
        BY <2>1, <4>1 DEF Before, PlacedInv
    <3>2. QED
      BY <1>5, <1>6, <3>1 DEF Before
  <2>2. QED
    BY <2>1 DEF OrderStep, Waiting
<1>10. QED
  BY <1>1, <1>8, <1>9 DEF CompactInv, SwapInv

\* The reads: the row to be moved is queued, and the queue it is in is not empty.
LEMMA ReadPlaces ==
  ASSUME TypeOK, MoveTyped, PlacesInv, ReadPosition \/ CountQueue
  PROVE  PlacesInv' /\ OrderStep
<1> USE DEF PlacesInv
<1>1. UNCHANGED <<db, op>>
  BY DEF ReadPosition, CountQueue, vars
<1>2. PlacedInv' /\ OrderStep
  BY <1>1, SameTable
<1>3. CASE move' = Resting
  BY <1>2, <1>3, RestingPlaces DEF PlacesInv
<1>4. CASE move.id \in Queued(db) /\ move' = [move EXCEPT !.at = "count", !.pos = db[move.id].pos]
  <2>1. move'.at = "count" /\ move'.id = move.id /\ move'.pos = db[move.id].pos
    BY <1>4 DEF MoveTyped
  <2>2. Pinned(move.id)
    BY <1>4 DEF Pinned, Queued, PlacedInv
  <2>3. Pinned(move.id)'
    BY <1>1, <2>1, <2>2 DEF Pinned
  <2>4. SwapInv'
    BY <1>1, <1>4, <2>1, <2>3 DEF SwapInv, PlacedInv
  <2>5. QED
    BY <1>2, <2>1, <2>4 DEF CompactInv
<1>5. CASE CountQueue /\ move' = [move EXCEPT !.at = "swap", !.to = Target]
  <2>1. move.at = "count" /\ move'.at = "swap" /\ move'.id = move.id /\ move'.pos = move.pos
        /\ move'.to = Target
    BY <1>5 DEF CountQueue, MoveTyped
  <2>2. move.id \in Queued(db) => Target # 0
    <3> SUFFICES ASSUME move.id \in Queued(db) PROVE Target # 0
      OBVIOUS
    <3>1. IsFiniteSet(Queued(db)) /\ Cardinality(Queued(db)) \in Nat
      BY RowsFinite DEF Queued
    <3>2. Cardinality(Queued(db)) # 0
      BY <3>1, FS_EmptySet
    <3>3. QED
      BY <3>1, <3>2 DEF Target, MoveTyped
  <2>3. Pinned(move.id)
    BY <2>1 DEF SwapInv
  <2>4. Pinned(move.id)'
    BY <1>1, <2>1, <2>3 DEF Pinned
  <2>5. SwapInv'
    BY <1>1, <2>1, <2>2, <2>4 DEF SwapInv
  <2>6. QED
    BY <1>2, <2>1, <2>5 DEF CompactInv
<1>6. QED
  BY <1>3, <1>4, <1>5 DEF ReadPosition, CountQueue

\* What the swap writes.
LEMMA SwapShape ==
  ASSUME TypeOK, MoveTyped, Swap
  PROVE  /\ move.at = "swap" /\ move' = Resting /\ UNCHANGED op
         /\ Queued(db') = Queued(db)
         /\ \A a \in Queued(db) : db'[a].pos =
              IF a = move.id THEN move.to
              ELSE IF db[a].pos = move.to THEN move.pos ELSE db[a].pos
<1>1. Queued(db') = Queued(db)
  BY WritersShape, QueueStands DEF TypeOK, Table
<1>2. \A a \in Queued(db) : db'[a] =
        IF a = move.id THEN [db[a] EXCEPT !.pos = move.to]
        ELSE IF db[a].pos = move.to THEN [db[a] EXCEPT !.pos = move.pos] ELSE db[a]
  BY DEF Swap, Queued
<1>3. \A a \in Queued(db) : db'[a].pos =
        IF a = move.id THEN move.to
        ELSE IF db[a].pos = move.to THEN move.pos ELSE db[a].pos
  BY <1>2 DEF Queued, TypeOK, Row
<1>4. QED
  BY <1>1, <1>3 DEF Swap, queueVars

\* A swap in time exchanges two positions, or takes one that nobody has.
LEMMA SwapPlaces ==
  ASSUME TypeOK, MoveTyped, PlacesInv, Swap, move.id \in Queued(db)
  PROVE  PlacesInv'
<1> USE DEF PlacesInv
<1>1. /\ move.pos # 0 /\ move.to # 0
      /\ db[move.id].pos = move.pos
  BY SwapShape DEF SwapInv
<1>2. \A a \in Queued(db) : db'[a].pos # 0
  BY <1>1, SwapShape DEF PlacedInv
<1>3. \A a, b \in Queued(db) : a # b => db'[a].pos # db'[b].pos
  BY <1>1, SwapShape DEF PlacedInv
<1>4. PlacedInv'
  BY <1>2, <1>3, SwapShape DEF PlacedInv
<1>5. QED
  BY <1>4, SwapShape, RestingPlaces

\* Late or in time it moves the row itself and those at the place it goes to.
LEMMA SwapOrder ==
  ASSUME TypeOK, MoveTyped, Swap
  PROVE  OrderStep
<1> SUFFICES ASSUME NEW a \in Waiting(db), NEW b \in Waiting(db), Before(db, a, b),
                    ~ \E r \in {a, b} : r = move.id \/ db[r].pos = move.to
             PROVE  Before(db', a, b)
  BY SwapShape DEF OrderStep
<1>1. db'[a].pos = db[a].pos /\ db'[b].pos = db[b].pos
  BY SwapShape DEF Waiting
<1>2. QED
  BY <1>1 DEF Before

\* What goes on meanwhile takes rows out, or adds one behind all the others, and
\* none of those the move has looked at comes back.
LEMMA BackgroundPlaces ==
  ASSUME WriteFaults = FALSE, ConservingIInv, MoveTyped, PlacesInv, Moving, Background,
         UNCHANGED move
  PROVE  PlacesInv' /\ OrderStep
<1> USE DEF PlacesInv
<1>0. TypeOK /\ [QueueNext]_vars
  BY BackgroundIsQueueNext DEF ConservingIInv
<1>1. Keeps \/ Adds
  BY BackgroundShape
<1>2. PlacedInv' /\ OrderStep
  BY <1>0, <1>1, ShapeKeepsPlaces DEF OrderStep
<1>3. \A a \in Ids : Pinned(a) => Pinned(a)' /\ (a \in Queued(db') => Stays(a))
  BY PinnedStays
<1>4. CompactInv'
  <2> SUFFICES ASSUME move.at = "compact" PROVE CompactInv'
    BY DEF CompactInv
  <2>1. Ranked' = Ranked /\ Ranked \subseteq Ids /\ \A a \in Ranked : Pinned(a)
    BY DEF Ranked, CompactInv
  <2>2. \A a \in Ranked \cap Queued(db') : Stays(a)
    BY <1>3, <2>1
  <2>3. \A a \in Ranked \cap Queued(db') : a \in Ranked \cap Queued(db) /\ db'[a].pos = db[a].pos
    BY <2>2 DEF Stays
  <2>4. ASSUME NEW a \in Ranked \cap Queued(db'), NEW c \in Queued(db') \ Ranked
        PROVE  db'[a].pos < db'[c].pos
    <3>1. CASE Stays(c)
      BY <2>3, <2>4, <3>1 DEF CompactInv, Stays
    <3>2. CASE Adds /\ c = op.id
      <4>1. a # op.id
        BY <2>1, <3>2 DEF Adds, Pinned
      <4>2. QED
        BY <2>3, <2>4, <3>2, <4>1 DEF Adds
    <3>3. QED
      BY <1>1, <2>4, <3>1, <3>2 DEF Keeps, Adds
  <2>5. \A a \in Ranked' : Pinned(a)'
    BY <1>3, <2>1
  <2>6. \A a, b \in Ranked \cap Queued(db') :
          db'[a].pos < db'[b].pos => move.rank[a] < move.rank[b]
    BY <2>3 DEF CompactInv
  <2>7. \A a \in Ranked \cap Queued(db') : move.rank[a] <= db'[a].pos
    BY <2>3 DEF CompactInv
  <2>8. QED
    BY <2>1, <2>4, <2>5, <2>6, <2>7 DEF CompactInv
<1>5. SwapInv'
  <2>1. PICK m \in Ids : m = move.id
    BY DEF MoveTyped
  <2>2. CASE move.at \notin {"count", "swap"}
    BY <2>2 DEF SwapInv
  <2>3. CASE move.at \in {"count", "swap"}
    <3>1. Pinned(m) /\ move.pos # 0
      BY <2>1, <2>3 DEF SwapInv
    <3>2. Pinned(m)' /\ (m \in Queued(db') => Stays(m))
      BY <1>3, <3>1
    <3>3. Pinned(move.id)'
      BY <2>1, <3>2 DEF Pinned
    <3>4. QED
      BY <2>1, <2>3, <3>1, <3>2, <3>3 DEF SwapInv, Stays
  <2>4. QED
    BY <2>2, <2>3
<1>6. QED
  BY <1>2, <1>4, <1>5

-----------------------------------------------------------------------------
(* The order of the queue, as long as no swap came too late.               *)

MovesOrderInv == MovesConservingInv /\ (late \/ PlacesInv)

\* The init state: the tables the environment allows.
LEMMA MovesOrderStart ==
  ASSUME TablesPlaced
  PROVE  MovesInit => MovesOrderInv
<1> SUFFICES ASSUME MovesInit PROVE MovesOrderInv
  OBVIOUS
<1>1. db \in InitTables /\ op = Idle /\ move = Resting
  BY DEF MovesInit, QueueInit
<1>2. PlacedInv
  BY <1>1 DEF PlacedInv, TablesPlaced, Idle
<1>3. QED
  BY <1>1, <1>2, MovesConservingStart
  DEF MovesOrderInv, PlacesInv, CompactInv, SwapInv, Resting

\* One step: the invariant holds after it, and the order of the queue stands.
LEMMA MovesOrderStep ==
  ASSUME WriteFaults = FALSE, MovesOrderInv, [MovesNext]_moveVars
  PROVE  /\ MovesOrderInv'
         /\ ~late => OrderStep
<1>0. MovesConservingInv' /\ ConservingIInv /\ TypeOK /\ MoveTyped
  BY MovesConservingStep DEF MovesOrderInv, MovesConservingInv, ConservingIInv
<1>1. CASE late
  <2>1. late'
    BY <1>1 DEF MovesNext, MoveStep, ShiftList, Shift, ReadPosition, CountQueue, Swap, moveVars
  <2>2. QED
    BY <1>0, <1>1, <2>1 DEF MovesOrderInv
<1>2. CASE ~late
  <2>0. PlacesInv
    BY <1>2 DEF MovesOrderInv
  <2> SUFFICES (late \/ PlacesInv)' /\ OrderStep
    BY <1>0 DEF MovesOrderInv
  <2>1. ASSUME ~Moving, QueueNext, Orderly, UNCHANGED <<move, late>>
        PROVE  PlacesInv' /\ OrderStep
    <3>1. Keeps \/ Adds
      BY <1>0, <2>0, <2>1, QueueShape DEF PlacesInv
    <3>2. PlacedInv' /\ OrderStep
      BY <1>0, <2>0, <2>1, <3>1, ShapeKeepsPlaces DEF PlacesInv, OrderStep
    <3>3. CompactInv' /\ SwapInv'
      BY <2>1 DEF CompactInv, SwapInv, Moving
    <3>4. QED
      BY <3>2, <3>3 DEF PlacesInv
  <2>2. ASSUME NEW id \in Ids, NEW way \in {"up", "down"}, ShiftList(id, way)
        PROVE  PlacesInv' /\ OrderStep
    BY <1>0, <2>0, <2>2, ShiftListPlaces
  <2>3. CASE Shift
    BY <1>0, <2>0, <2>3, ShiftPlaces
  <2>4. CASE ReadPosition \/ CountQueue
    BY <1>0, <2>0, <2>4, ReadPlaces
  <2>5. CASE Swap
    <3>1. late' \/ move.id \in Queued(db)
      BY <2>5 DEF Swap
    <3>2. OrderStep
      BY <1>0, <2>5, SwapOrder
    <3>3. QED
      BY <1>0, <2>0, <2>5, <3>1, <3>2, SwapPlaces
  <2>6. CASE Moving /\ Background /\ UNCHANGED <<move, late>>
    BY <1>0, <2>0, <2>6, BackgroundPlaces
  <2>7. CASE ProcessEnds /\ move' = Resting
    <3>1. UNCHANGED db /\ op' = Idle
      BY <2>7 DEF ProcessEnds
    <3>2. PlacedInv' /\ OrderStep
      BY <2>0, <3>1 DEF PlacesInv, PlacedInv, OrderStep, Idle
    <3>3. QED
      BY <2>7, <3>2, RestingPlaces
  <2>8. CASE UNCHANGED moveVars
    <3>1. UNCHANGED <<db, op, move>>
      BY <2>8 DEF moveVars, vars
    <3>2. PlacedInv' /\ OrderStep
      BY <2>0, <3>1, SameTable DEF PlacesInv
    <3>3. CompactInv' /\ SwapInv'
      BY <2>0, <3>1 DEF PlacesInv, CompactInv, SwapInv, Pinned, Ranked
    <3>4. QED
      BY <3>2, <3>3 DEF PlacesInv
  <2>9. QED
    BY <2>1, <2>2, <2>3, <2>4, <2>5, <2>6, <2>7, <2>8 DEF MovesNext, MoveStep
<1>3. QED
  BY <1>1, <1>2

\* Whatever is drained, added and compacted in the middle of a move, two queued
\* downloads never have one position, until a swap comes for a row that has left the
\* queue.
THEOREM MovesKeepPositionsDistinct ==
  ASSUME WriteFaults = FALSE, TablesPlaced
  PROVE  MovesSpec => []DistinctPositions
<1>1. MovesOrderInv => DistinctPositions
  BY DEF MovesOrderInv, PlacesInv, PlacedInv, DistinctPositions
<1>2. QED
  BY <1>1, MovesOrderStart, MovesOrderStep, PTL DEF MovesSpec

\* And until then two downloads that wait change places only in the swap of a move,
\* and only with the download that is moved or those at the place it goes to.
THEOREM MovesKeepOrder ==
  ASSUME WriteFaults = FALSE, TablesPlaced
  PROVE  MovesSpec => OrderIsKept
<1>1. MovesOrderInv /\ [MovesNext]_moveVars => [~late => OrderStep]_moveVars
  BY MovesOrderStep
<1>2. (~late => OrderStep) =>
        (~late => \A a, b \in Waiting(db) \cap Waiting(db') :
           Before(db, a, b) /\ ~Before(db', a, b)
             => move.at = "swap" /\ \E r \in {a, b} : r = move.id \/ db[r].pos = move.to)
  BY DEF OrderStep
<1>3. QED
  BY <1>1, <1>2, MovesOrderStart, MovesOrderStep, PTL DEF MovesSpec, OrderIsKept
=============================================================================
