-------------------------- MODULE QueueManagerProofs --------------------------
(***************************************************************************)
(* What QueueManager guarantees for every number of downloads, goroutines  *)
(* and slots, every table a previous process left, and every statement the *)
(* rest of the program may run meanwhile.                                  *)
(***************************************************************************)
EXTENDS QueueManager, WellFoundedInduction, FiniteSetTheorems, TLAPS

-----------------------------------------------------------------------------
(* The statements keep the table a table, and none but EnqueueDownload     *)
(* makes a row queued.                                                     *)

Table == [Ids -> Row]

\* Every statement maps a table to a table.
LEMMA StatementsTyped ==
  ASSUME NEW t \in Table, NEW id \in Ids
  PROVE  /\ CreateDownloadWithChunks(t, id) \in Table
         /\ \A s \in Status : UpdateDownloadStatus(t, id, s) \in Table
         /\ \A b \in BOOLEAN : SetScheduledAt(t, id, b) \in Table
         /\ \A p \in Nat : SetQueuePosition(t, id, p) \in Table
         /\ \A p \in Nat : EnqueueDownload(t, id, p) \in Table
         /\ MarkDownloading(t, id) \in Table
         /\ DeleteDownload(t, id) \in Table
         /\ RestoreDownload(t, id) \in Table
         /\ PurgeDownload(t, id) \in Table
         /\ \A s \in Status : ResetProgress(t, id, s) \in Table
<1> USE DEF Table
<1>1. CreateDownloadWithChunks(t, id) \in Table
  BY DEF CreateDownloadWithChunks, NoRow, Row, Status, Life
<1>2. \A s \in Status : UpdateDownloadStatus(t, id, s) \in Table
  BY DEF UpdateDownloadStatus, Row
<1>3. \A b \in BOOLEAN : SetScheduledAt(t, id, b) \in Table
  BY DEF SetScheduledAt, Row
<1>4. \A p \in Nat : SetQueuePosition(t, id, p) \in Table
  BY DEF SetQueuePosition, Row
<1>5. \A p \in Nat : EnqueueDownload(t, id, p) \in Table
  BY DEF EnqueueDownload, Row, Status
<1>6. MarkDownloading(t, id) \in Table
  BY DEF MarkDownloading, Row, Status
<1>7. DeleteDownload(t, id) \in Table
  BY DEF DeleteDownload, Row, Life
<1>8. RestoreDownload(t, id) \in Table
  BY DEF RestoreDownload, NoRow, Row, Status, Life
<1>9. PurgeDownload(t, id) \in Table
  BY DEF PurgeDownload, NoRow, Row, Status, Life
<1>10. \A s \in Status : ResetProgress(t, id, s) \in Table
  BY DEF ResetProgress, Row
<1> QED BY <1>1, <1>2, <1>3, <1>4, <1>5, <1>6, <1>7, <1>8, <1>9, <1>10

LEMMA ReconcileTyped ==
  ASSUME NEW t \in Table
  PROVE  ReconcileInterrupted(t) \in Table
BY DEF ReconcileInterrupted, Table, Row, Status

\* What the environment writes keeps the table a table.
LEMMA ExternalTyped ==
  ASSUME NEW id \in Ids, db \in Table, ExternalStatement(id)
  PROVE  db' \in Table
<1>1. SetStatuses \subseteq Status BY QueueAssumption
<1>3. "pending" \in Status BY DEF Status
<1> QED BY <1>1, <1>3, StatementsTyped DEF ExternalStatement

-----------------------------------------------------------------------------
(* Type correctness and ownership of the slots.                            *)

\* The inductive invariant: SlotHasOneOwner needs no more than the types.
OwnerInv == TypeOK /\ SlotHasOneOwner

LEMMA PlaceTyped ==
  ASSUME TypeOK, NEW id \in Ids, NEW c \in Callers, Place(id, c)
  PROVE  /\ active' \subseteq Ids
         /\ op' \in Op
         /\ op'.at \in {"mark", "enqueue", "put"} => op'.id \in Ids
BY DEF Place, TypeOK, Op, OpAt

\* Every step keeps the types.
LEMMA TypePreserved == TypeOK /\ [QueueNext]_vars => TypeOK'
<1> SUFFICES ASSUME TypeOK, [QueueNext]_vars PROVE TypeOK'
  OBVIOUS
<1>0. /\ db \in Table
      /\ Idle \in Op
      /\ Idle.at \notin {"mark", "enqueue", "put"}
      /\ \A c \in Callers :
           LET o == [at |-> "drain", id |-> NoId, by |-> c, seen |-> {}]
           IN  o \in Op /\ o.at \notin {"mark", "enqueue", "put"}
  BY DEF TypeOK, Table, Idle, Op, OpAt, Callers
<1>t. ASSUME NEW id \in Ids
      PROVE  /\ SetScheduledAt(db, id, FALSE) \in Table
             /\ \A p \in Nat : SetQueuePosition(db, id, p) \in Table
             /\ \A p \in Nat : EnqueueDownload(db, id, p) \in Table
             /\ MarkDownloading(db, id) \in Table
  BY <1>0, StatementsTyped
<1> USE DEF TypeOK
<1>1. CASE Reconcile
  <2>1. db' \in Table BY <1>0, <1>1, ReconcileTyped DEF Reconcile
  <2> QED BY <1>1, <2>1 DEF Reconcile, Table
<1>2. CASE Drain
  BY <1>0, <1>2 DEF Drain, Callers
<1>3. CASE CallManager
  <2>1. CASE \E id \in Ids, c \in {"ui", "add"} : TryStart(id, c)
    BY <2>1, PlaceTyped DEF TryStart, Callers
  <2>2. ASSUME NEW id \in Ids, Remove(id) PROVE TypeOK'
    <3>1. db' \in Table BY <1>0, <1>t, <2>2 DEF Remove
    <3> QED BY <2>2, <3>1 DEF Remove, Table, queueVars
  <2>3. ASSUME NEW id \in Ids, EnqueueScheduled(id, "scheduler") PROVE TypeOK'
    <3>1. db' \in Table BY <1>t, <2>3 DEF EnqueueScheduled
    <3>2. CASE id \in active
      BY <2>3, <3>1, <3>2 DEF EnqueueScheduled, Table
    <3>3. CASE Place(id, "scheduler")
      <4>1. "scheduler" \in Callers BY DEF Callers
      <4> QED BY <2>3, <3>1, <3>3, <4>1, PlaceTyped DEF EnqueueScheduled, Table
    <3> QED BY <2>3, <3>2, <3>3 DEF EnqueueScheduled
  <2>4. CASE \E n \in 0..MaxLimit : SetMaxConcurrent(n, "ui")
    BY <1>0, <2>4, QueueAssumption DEF SetMaxConcurrent, Callers
  <2> QED BY <1>3, <2>1, <2>2, <2>3, <2>4 DEF CallManager
<1>4. CASE Mark
  <2>1. op.id \in Ids BY <1>4 DEF Mark
  <2>2. db' \in Table BY <1>0, <1>t, <1>4, <2>1 DEF Mark
  <2>3. task' \in [Goroutines -> Ids \cup {NoId}] BY <1>4, <2>1 DEF Mark
  <2>4. op' \in Op /\ op'.at \notin {"mark", "enqueue", "put"}
    BY <1>0, <1>4 DEF Mark, Op, OpAt
  <2> QED BY <1>4, <2>2, <2>3, <2>4 DEF Mark, Table
<1>5. CASE Enqueue
  BY <1>0, <1>5 DEF Enqueue, Op, OpAt
<1>6. CASE Put
  <2>1. op.id \in Ids /\ 1..MaxPos \subseteq Nat BY <1>6, StorageAssumption DEF Put
  <2>2. db' \in Table BY <1>0, <1>t, <1>6, <2>1 DEF Put
  <2> QED BY <1>0, <1>6, <2>2 DEF Put, Table
<1>7. CASE DrainStart
  BY <1>7 DEF DrainStart, Op, OpAt
<1>8. CASE DrainSkip
  <2>1. PICK n \in active \ op.seen :
          /\ db' = SetQueuePosition(db, n, 0)
          /\ op' = [op EXCEPT !.seen = @ \cup {n}]
    BY <1>8 DEF DrainSkip
  <2>2. db' \in Table BY <1>t, <2>1
  <2>3. op' \in Op /\ op'.at = op.at BY <2>1 DEF Op
  <2> QED BY <1>8, <2>2, <2>3 DEF DrainSkip, Table
<1>9. CASE DrainReturn
  BY <1>0, <1>9 DEF DrainReturn
<1>10. ASSUME NEW g \in Goroutines, GoroutineEnds(g) PROVE TypeOK'
  <2>1. PICK c \in Callers : OnDone(task[g], c, [task EXCEPT ![g] = NoId])
    BY <1>10 DEF GoroutineEnds, Callers
  <2>2. task[g] \in Ids BY <1>10 DEF GoroutineEnds
  <2>3. db' \in Table BY <1>0, <1>t, <2>1, <2>2 DEF OnDone
  <2> QED BY <1>0, <2>1, <2>3 DEF OnDone, Table
<1>11. CASE External
  BY <1>0, <1>11, ExternalTyped DEF External, queueVars, Table
<1>12. CASE ProcessEnds
  BY <1>0, <1>12 DEF ProcessEnds
<1>13. CASE UNCHANGED vars
  BY <1>13 DEF vars
<1> QED BY <1>1, <1>2, <1>3, <1>4, <1>5, <1>6, <1>7, <1>8, <1>9, <1>10, <1>11, <1>12, <1>13
        DEF QueueNext, ManagerStep

LEMMA TypeInit == QueueInit => TypeOK
BY QueueAssumption DEF QueueInit, TypeOK, Idle, Op, OpAt, Callers

\* The table, the slots and the method in progress keep the shapes the Go types
\* give them, whatever is called and written in whatever order.
THEOREM TypeCorrect == QueueSpec => []TypeOK
<1> QED BY TypeInit, TypePreserved, PTL DEF QueueSpec

-----------------------------------------------------------------------------
(* Ownership of the slots.                                                 *)

\* Taking a slot for a download that holds none.
LEMMA PlaceOwner ==
  ASSUME SlotHasOneOwner, MutexFree, UNCHANGED task,
         NEW id \in Ids, id \notin active, NEW c, Place(id, c)
  PROVE  SlotHasOneOwner'
<1>1. Starting = {} BY DEF Starting, MutexFree
<1>2. CASE HasSlot
  <2>1. active' = active \cup {id} /\ Starting' = {id} BY <1>2 DEF Place, Starting
  <2> QED BY <1>1, <2>1 DEF SlotHasOneOwner, TaskIds
<1>3. CASE ~HasSlot
  BY <1>1, <1>3 DEF Place, SlotHasOneOwner, Starting, TaskIds
<1> QED BY <1>2, <1>3

\* Every step keeps the owners.
LEMMA OwnerPreserved == TypeOK /\ SlotHasOneOwner /\ [QueueNext]_vars => SlotHasOneOwner'
<1> SUFFICES ASSUME TypeOK, SlotHasOneOwner, [QueueNext]_vars PROVE SlotHasOneOwner'
  OBVIOUS
<1>0. ASSUME UNCHANGED <<active, task>>, op'.at # "mark", op.at # "mark"
      PROVE  SlotHasOneOwner'
  BY <1>0 DEF SlotHasOneOwner, TaskIds, Starting
<1>1. CASE Reconcile
  BY <1>1 DEF Reconcile, SlotHasOneOwner, TaskIds, Starting
<1>2. CASE Drain
  BY <1>0, <1>2 DEF Drain, MutexFree
<1>3. CASE CallManager
  <2>1. ASSUME NEW id \in Ids, NEW c, TryStart(id, c) PROVE SlotHasOneOwner'
    <3>1. CASE id \in active \/ ~Live(db, id)
      BY <2>1, <3>1 DEF TryStart, SlotHasOneOwner, TaskIds, Starting
    <3> QED BY <2>1, <3>1, PlaceOwner DEF TryStart
  <2>2. CASE \E id \in Ids : Remove(id)
    BY <2>2 DEF Remove, queueVars, SlotHasOneOwner, TaskIds, Starting
  <2>3. ASSUME NEW id \in Ids, EnqueueScheduled(id, "scheduler") PROVE SlotHasOneOwner'
    <3>1. CASE id \in active
      BY <2>3, <3>1 DEF EnqueueScheduled, SlotHasOneOwner, TaskIds, Starting
    <3> QED BY <2>3, <3>1, PlaceOwner DEF EnqueueScheduled
  <2>4. CASE \E n \in 0..MaxLimit : SetMaxConcurrent(n, "ui")
    BY <1>0, <2>4 DEF SetMaxConcurrent, MutexFree
  <2> QED BY <1>3, <2>1, <2>2, <2>3, <2>4 DEF CallManager
<1>4. CASE Mark
  <2>1. PICK g \in Goroutines : task[g] = NoId /\ task' = [task EXCEPT ![g] = op.id]
    BY <1>4 DEF Mark
  <2>2. op.id \in Ids /\ op.id # NoId /\ Starting = {op.id}
    BY <1>4, QueueAssumption DEF Mark, TypeOK, Starting
  <2>3. op'.at # "mark" /\ active' = active
    BY <1>4 DEF Mark, Idle, TypeOK, Op
  <2>4. task'[g] = op.id /\ \A h \in Goroutines \ {g} : task'[h] = task[h]
    BY <2>1 DEF TypeOK
  <2>5. TaskIds' = TaskIds \cup {op.id} BY <2>1, <2>2, <2>4 DEF TaskIds
  <2> QED BY <2>2, <2>3, <2>4, <2>5 DEF SlotHasOneOwner, Starting, TaskIds
<1>5. CASE Enqueue
  <2>1. op'.at # "mark" BY <1>5 DEF Enqueue, Idle, TypeOK, Op
  <2> QED BY <1>0, <1>5, <2>1 DEF Enqueue
<1>6. CASE Put
  BY <1>0, <1>6 DEF Put, Idle
<1>7. CASE DrainStart
  <2>1. PICK n \in Ids \ (op.seen \cup active) :
          /\ active' = active \cup {n}
          /\ op' = [op EXCEPT !.at = "mark", !.id = n, !.seen = @ \cup {n}]
    BY <1>7 DEF DrainStart
  <2>2. Starting = {} /\ Starting' = {n} BY <1>7, <2>1 DEF DrainStart, Starting, TypeOK, Op
  <2> QED BY <1>7, <2>1, <2>2 DEF DrainStart, SlotHasOneOwner, TaskIds
<1>8. CASE DrainSkip
  <2>1. op'.at = op.at BY <1>8 DEF DrainSkip, TypeOK, Op
  <2> QED BY <1>0, <1>8, <2>1 DEF DrainSkip
<1>9. CASE DrainReturn
  BY <1>0, <1>9 DEF DrainReturn, Idle
<1>10. ASSUME NEW g \in Goroutines, GoroutineEnds(g) PROVE SlotHasOneOwner'
  <2>1. PICK c : OnDone(task[g], c, [task EXCEPT ![g] = NoId])
    BY <1>10 DEF GoroutineEnds
  <2>2. task[g] \in active /\ task[g] # NoId
    BY <1>10 DEF GoroutineEnds, SlotHasOneOwner, TaskIds
  <2>3. active' = active \ {task[g]} /\ Starting = {} /\ Starting' = {}
    BY <2>1, <2>2 DEF OnDone, MutexFree, Starting
  <2>4. task'[g] = NoId /\ \A h \in Goroutines \ {g} : task'[h] = task[h]
    BY <2>1 DEF OnDone, TypeOK
  <2>5. \A h \in Goroutines \ {g} : task[h] # task[g]
    BY <2>2 DEF SlotHasOneOwner
  <2>6. TaskIds' = TaskIds \ {task[g]} BY <2>4, <2>5 DEF TaskIds
  <2> QED BY <2>3, <2>4, <2>6 DEF SlotHasOneOwner
<1>11. CASE External
  BY <1>11 DEF External, queueVars, SlotHasOneOwner, TaskIds, Starting
<1>12. CASE ProcessEnds
  BY <1>12 DEF ProcessEnds, SlotHasOneOwner, TaskIds, Starting, Idle
<1>13. CASE UNCHANGED vars
  BY <1>13 DEF vars, SlotHasOneOwner, TaskIds, Starting
<1> QED BY <1>1, <1>2, <1>3, <1>4, <1>5, <1>6, <1>7, <1>8, <1>9, <1>10, <1>11, <1>12, <1>13
        DEF QueueNext, ManagerStep

LEMMA OwnerInit == QueueInit => SlotHasOneOwner
BY DEF QueueInit, SlotHasOneOwner, TaskIds, Starting, Idle

\* Whatever is called, written or crashed in whatever order, no download is run by
\* two goroutines, and the slots held are those of the goroutines that run.
THEOREM OneOwner == QueueSpec => []SlotHasOneOwner
<1>1. QueueInit => TypeOK /\ SlotHasOneOwner BY TypeInit, OwnerInit
<1>2. TypeOK /\ SlotHasOneOwner /\ [QueueNext]_vars => (TypeOK /\ SlotHasOneOwner)'
  BY TypePreserved, OwnerPreserved
<1> QED BY <1>1, <1>2, PTL DEF QueueSpec

-----------------------------------------------------------------------------
(* The manager implements the pool of slots.                               *)

\* The two copies of FiniteSets count alike.
LEMMA SameCardinality == ASSUME NEW S PROVE Pool!Cardinality(S) = Cardinality(S)
BY DEF Cardinality, Pool!Cardinality

\* Every step is a step of the pool, or leaves held and limit alone.
LEMMA PoolStep ==
  TypeOK /\ SlotHasOneOwner /\ [QueueNext]_vars => [Pool!Next]_<<active, maxConcurrent>>
<1> SUFFICES ASSUME TypeOK, SlotHasOneOwner, [QueueNext]_vars
             PROVE  [Pool!Next]_<<active, maxConcurrent>>
  OBVIOUS
<1> USE DEF Pool!Next
<1>0. ASSUME NEW id \in Ids, id \notin active, NEW c, Place(id, c), UNCHANGED maxConcurrent
      PROVE  Pool!Acquire(id) \/ UNCHANGED <<active, maxConcurrent>>
  <2>1. CASE HasSlot
    <3>1. active' = active \cup {id} /\ maxConcurrent' = maxConcurrent BY <1>0, <2>1 DEF Place
    <3> QED BY <1>0, <2>1, <3>1, SameCardinality DEF HasSlot, Pool!Acquire
  <2>2. CASE ~HasSlot BY <1>0, <2>2 DEF Place
  <2> QED BY <2>1, <2>2
<1>1. CASE Reconcile BY <1>1 DEF Reconcile
<1>2. CASE Drain BY <1>2 DEF Drain
<1>3. CASE CallManager
  <2>1. ASSUME NEW id \in Ids, NEW c, TryStart(id, c)
        PROVE  [Pool!Next]_<<active, maxConcurrent>>
    BY <1>0, <2>1 DEF TryStart
  <2>2. CASE \E id \in Ids : Remove(id) BY <2>2 DEF Remove, queueVars
  <2>3. ASSUME NEW id \in Ids, EnqueueScheduled(id, "scheduler")
        PROVE  [Pool!Next]_<<active, maxConcurrent>>
    BY <1>0, <2>3 DEF EnqueueScheduled
  <2>4. ASSUME NEW n \in 0..MaxLimit, SetMaxConcurrent(n, "ui")
        PROVE  Pool!SetLimit
    BY <2>4, QueueAssumption DEF SetMaxConcurrent, Pool!SetLimit
  <2> QED BY <1>3, <2>1, <2>2, <2>3, <2>4 DEF CallManager
<1>4. CASE Mark \/ Enqueue \/ Put \/ DrainSkip \/ DrainReturn
  BY <1>4 DEF Mark, Enqueue, Put, DrainSkip, DrainReturn
<1>5. CASE DrainStart
  <2>1. PICK n \in Ids \ active : active' = active \cup {n}
    BY <1>5 DEF DrainStart
  <2>2. HasSlot /\ UNCHANGED maxConcurrent BY <1>5 DEF DrainStart
  <2>3. Pool!Acquire(n) BY <2>1, <2>2, SameCardinality DEF HasSlot, Pool!Acquire
  <2> QED BY <2>3
<1>6. ASSUME NEW g \in Goroutines, GoroutineEnds(g)
      PROVE  \E id \in Ids : Pool!Release(id)
  <2>1. PICK c : OnDone(task[g], c, [task EXCEPT ![g] = NoId])
    BY <1>6 DEF GoroutineEnds
  <2>2. task[g] \in active
    BY <1>6 DEF GoroutineEnds, SlotHasOneOwner, TaskIds
  <2>3. Pool!Release(task[g]) BY <2>1, <2>2 DEF OnDone, Pool!Release
  <2> QED BY <2>2, <2>3 DEF TypeOK
<1>7. CASE External BY <1>7 DEF External, queueVars
<1>8. CASE ProcessEnds BY <1>8 DEF ProcessEnds, Pool!ProcessEnds
<1>9. CASE UNCHANGED vars BY <1>9 DEF vars
<1> QED BY <1>1, <1>2, <1>3, <1>4, <1>5, <1>6, <1>7, <1>8, <1>9 DEF QueueNext, ManagerStep

\* The manager is a pool of slots that never hands out a slot beyond the limit in
\* force, nor a second one to the same download.
THEOREM SlotPoolImplemented == QueueSpec => ImplementsSlotPool
<1>1. QueueInit => Pool!Init BY QueueAssumption DEF QueueInit, Pool!Init
<1> QED BY <1>1, TypeCorrect, OneOwner, PoolStep, PTL
        DEF QueueSpec, ImplementsSlotPool, Pool!Spec

-----------------------------------------------------------------------------
(* No slot is left free while a download is queued.  A statement that      *)
(* fails breaks it (the row stays queued and active), hence WriteFaults.   *)

\* The least element of a set of naturals; the library's well-founded minimum is
\* the only one whose premises are not operators.
Less == {ss \in Nat \X Nat : ss[1] < ss[2]}

LEMMA LeastNatural ==
  ASSUME NEW S \in SUBSET Nat, S # {}
  PROVE  \E n \in S : \A m \in S : n <= m
<1>1. IsWellFoundedOn(Less, Nat) BY NatLessThanWellFounded DEF OpToRel, Less
<1>2. PICK n \in S : \A m \in S : <<m, n>> \notin Less BY <1>1, WFMin
<1>3. ASSUME NEW m \in S PROVE n <= m
  <2>1. ~(m < n) BY <1>2 DEF Less
  <2> QED BY <2>1
<1> QED BY <1>3

\* A queue that is not empty has a next row: the order of NextInQueue is total.
LEMMA NextExists ==
  ASSUME NEW t \in Table, Queued(t) # {}
  PROVE  \E n \in Queued(t) : IsNextInQueue(t, n)
<1> DEFINE Placed == {q \in Queued(t) : t[q].pos # 0}
<1>0. Queued(t) \subseteq Nat /\ \A q \in Queued(t) : t[q].pos \in Nat
  BY StorageAssumption DEF Queued, Table, Row
<1>1. CASE Placed = {}
  <2>1. PICK n \in Queued(t) : \A m \in Queued(t) : n <= m BY <1>0, LeastNatural
  <2>2. \A m \in Queued(t) \ {n} : Before(t, n, m) BY <1>0, <1>1, <2>1 DEF Before
  <2> QED BY <2>1, <2>2 DEF IsNextInQueue
<1>2. CASE Placed # {}
  <2> DEFINE Positions == {t[q].pos : q \in Placed}
  <2>1. Positions \in SUBSET Nat /\ Positions # {} BY <1>0, <1>2
  <2>2. PICK p \in Positions : \A r \in Positions : p <= r BY <2>1, LeastNatural
  <2> DEFINE First == {q \in Placed : t[q].pos = p}
  <2>3. First \in SUBSET Nat /\ First # {} BY <1>0, <2>2
  <2>4. PICK n \in First : \A m \in First : n <= m BY <2>3, LeastNatural
  <2>5. ASSUME NEW m \in Queued(t) \ {n} PROVE Before(t, n, m)
    <3>1. CASE t[m].pos = 0 BY <2>4, <3>1 DEF Before
    <3>2. CASE t[m].pos # 0
      <4>1. m \in Placed /\ p <= t[m].pos BY <2>2, <3>2
      <4>2. CASE t[m].pos = p
        <5>1. m \in Nat /\ n \in Nat /\ n <= m /\ n # m BY <1>0, <2>4, <4>1, <4>2
        <5> QED BY <2>4, <4>2, <5>1 DEF Before
      <4>3. CASE t[m].pos # p
        <5>1. p \in Nat /\ t[m].pos \in Nat /\ t[n].pos = p BY <1>0, <2>1, <2>4
        <5> QED BY <2>4, <3>2, <4>1, <4>3, <5>1 DEF Before
      <4> QED BY <4>2, <4>3
    <3> QED BY <3>1, <3>2
  <2> QED BY <2>4, <2>5 DEF IsNextInQueue
<1> QED BY <1>1, <1>2

\* None of these statements makes a row queued.
LEMMA QueuedShrinks ==
  ASSUME NEW t \in Table, NEW id \in Ids
  PROVE  /\ Queued(CreateDownloadWithChunks(t, id)) \subseteq Queued(t)
         /\ \A s \in Status \ {"queued"} :
              Queued(UpdateDownloadStatus(t, id, s)) \subseteq Queued(t)
         /\ \A b \in BOOLEAN : Queued(SetScheduledAt(t, id, b)) = Queued(t)
         /\ \A p \in Nat : Queued(SetQueuePosition(t, id, p)) = Queued(t)
         /\ Queued(MarkDownloading(t, id)) \subseteq Queued(t) \ {id}
         /\ Queued(DeleteDownload(t, id)) \subseteq Queued(t)
         /\ Queued(RestoreDownload(t, id)) \subseteq Queued(t)
         /\ Queued(PurgeDownload(t, id)) \subseteq Queued(t)
         /\ Queued(ResetProgress(t, id, "pending")) \subseteq Queued(t)
<1> USE DEF Table, Queued, Live, Exists, Row, NoRow
<1>1. Queued(CreateDownloadWithChunks(t, id)) \subseteq Queued(t)
  BY DEF CreateDownloadWithChunks
<1>2. \A s \in Status \ {"queued"} :
        Queued(UpdateDownloadStatus(t, id, s)) \subseteq Queued(t)
  BY DEF UpdateDownloadStatus
<1>3. \A b \in BOOLEAN : Queued(SetScheduledAt(t, id, b)) = Queued(t)
  BY DEF SetScheduledAt
<1>4. \A p \in Nat : Queued(SetQueuePosition(t, id, p)) = Queued(t)
  BY DEF SetQueuePosition
<1>5. Queued(MarkDownloading(t, id)) \subseteq Queued(t) \ {id}
  BY DEF MarkDownloading
<1>6. Queued(DeleteDownload(t, id)) \subseteq Queued(t)
  BY DEF DeleteDownload
<1>7. Queued(RestoreDownload(t, id)) \subseteq Queued(t)
  BY DEF RestoreDownload
<1>8. Queued(PurgeDownload(t, id)) \subseteq Queued(t)
  BY DEF PurgeDownload
<1>9. Queued(ResetProgress(t, id, "pending")) \subseteq Queued(t)
  BY DEF ResetProgress
<1> QED BY <1>1, <1>2, <1>3, <1>4, <1>5, <1>6, <1>7, <1>8, <1>9

\* The inductive invariant behind WorkConserving: a method that enqueues has found
\* no slot, one that takes a slot outside drainQueue has found an empty queue, the
\* rows drainQueue has seen are no longer queued, and no active row is queued but
\* the one about to be marked.
ConservingInv ==
  /\ boot # "up" => op = Idle /\ active = {}
  /\ op.at \in {"enqueue", "put"} => ~HasSlot /\ op.id \notin active
  /\ op.at = "mark" /\ op.seen = {} => Queued(db) = {}
  /\ op.at \in {"mark", "drain"} => Queued(db) \cap op.seen \subseteq Starting
  /\ Queued(db) \cap active \subseteq Starting
  /\ WorkConserving

ConservingIInv == TypeOK /\ SlotHasOneOwner /\ ConservingInv

\* Steps that leave the manager alone and make no row queued.
LEMMA ConservingQuiet ==
  ASSUME ConservingInv, UNCHANGED <<boot, active, maxConcurrent, op>>,
         Queued(db') \subseteq Queued(db)
  PROVE  ConservingInv'
BY DEF ConservingInv, WorkConserving, HasSlot, MutexFree, Starting, Idle

\* Taking or not taking a slot for a download that holds none.
LEMMA ConservingPlace ==
  ASSUME TypeOK, ConservingInv, MutexFree, boot = "up", UNCHANGED <<boot, maxConcurrent>>,
         Queued(db') = Queued(db), NEW id \in Ids, id \notin active, NEW c, Place(id, c)
  PROVE  ConservingInv'
<1>1. op.at = "idle" /\ Starting = {} BY DEF MutexFree, Starting
<1>2. CASE HasSlot
  <2>1. Queued(db) = {} BY <1>2 DEF ConservingInv, WorkConserving
  <2>2. op' = [at |-> "mark", id |-> id, by |-> c, seen |-> {}] BY <1>2 DEF Place
  <2> QED BY <2>1, <2>2 DEF ConservingInv, WorkConserving, MutexFree, Starting
<1>3. CASE ~HasSlot
  <2>1. op' = [at |-> "enqueue", id |-> id, by |-> c, seen |-> {}] /\ UNCHANGED active
    BY <1>3 DEF Place
  <2> QED BY <1>1, <1>3, <2>1 DEF ConservingInv, WorkConserving, HasSlot, MutexFree, Starting
<1> QED BY <1>2, <1>3

\* A method that begins to drain.
LEMMA ConservingDrain ==
  ASSUME ConservingInv, op.at = "idle", boot' = "up", active' \subseteq active,
         Queued(db') = Queued(db), NEW c,
         op' = [at |-> "drain", id |-> NoId, by |-> c, seen |-> {}]
  PROVE  ConservingInv'
BY DEF ConservingInv, WorkConserving, MutexFree, Starting

\* Every step keeps the queue moving.
LEMMA ConservingPreserved ==
  ASSUME WriteFaults = FALSE
  PROVE  ConservingIInv /\ [QueueNext]_vars => ConservingInv'
<1> SUFFICES ASSUME TypeOK, SlotHasOneOwner, ConservingInv, [QueueNext]_vars
             PROVE  ConservingInv'
  BY DEF ConservingIInv
<1>0. db \in Table BY DEF TypeOK, Table
<1>1. CASE Reconcile
  <2>1. Queued(db') \subseteq Queued(db)
    BY <1>0, <1>1 DEF Reconcile, ReconcileInterrupted, Queued, Live, Table, Row
  <2> QED BY <1>1, <2>1 DEF Reconcile, ConservingInv, WorkConserving, Starting, Idle
<1>2. CASE Drain
  BY <1>2, ConservingDrain DEF Drain, MutexFree
<1>3. CASE CallManager
  <2>1. ASSUME NEW id \in Ids, NEW c, TryStart(id, c) PROVE ConservingInv'
    <3>1. CASE id \in active \/ ~Live(db, id)
      BY <2>1, <3>1, ConservingQuiet DEF TryStart
    <3> QED BY <1>3, <2>1, <3>1, ConservingPlace DEF TryStart, CallManager
  <2>2. ASSUME NEW id \in Ids, Remove(id) PROVE ConservingInv'
    <3>1. Queued(db') = Queued(db) BY <1>0, <2>2, QueuedShrinks DEF Remove
    <3> QED BY <2>2, <3>1, ConservingQuiet DEF Remove, queueVars
  <2>3. ASSUME NEW id \in Ids, EnqueueScheduled(id, "scheduler") PROVE ConservingInv'
    <3>1. Queued(db') = Queued(db) BY <1>0, <2>3, QueuedShrinks DEF EnqueueScheduled
    <3>2. CASE id \in active
      BY <2>3, <3>1, <3>2, ConservingQuiet DEF EnqueueScheduled
    <3> QED BY <1>3, <2>3, <3>1, <3>2, ConservingPlace DEF EnqueueScheduled, CallManager
  <2>4. ASSUME NEW n \in 0..MaxLimit, SetMaxConcurrent(n, "ui") PROVE ConservingInv'
    BY <1>3, <2>4, ConservingDrain DEF SetMaxConcurrent, CallManager, MutexFree
  <2> QED BY <1>3, <2>1, <2>2, <2>3, <2>4 DEF CallManager
<1>4. CASE Mark
  <2>1. op.id \in Ids /\ Starting = {op.id} BY <1>4 DEF Mark, TypeOK, Starting
  <2>2. Queued(db') \subseteq Queued(db) \ {op.id}
    BY <1>0, <1>4, <2>1, QueuedShrinks DEF Mark
  <2>3. boot = "up" BY <1>4 DEF Mark, ConservingInv, Idle
  <2>4. CASE op.seen = {}
    <3>1. op' = Idle /\ Queued(db') = {} BY <1>4, <2>2, <2>4 DEF Mark, ConservingInv
    <3> QED BY <1>4, <2>3, <3>1 DEF Mark, ConservingInv, WorkConserving, Starting, Idle
  <2>5. CASE op.seen # {}
    <3>1. op'.at = "drain" /\ op'.seen = op.seen BY <1>4, <2>5 DEF Mark, TypeOK, Op
    <3>2. Queued(db') \cap op.seen = {} /\ Queued(db') \cap active = {}
      BY <1>4, <2>1, <2>2 DEF Mark, ConservingInv
    <3> QED BY <1>4, <2>3, <3>1, <3>2 DEF Mark, ConservingInv, WorkConserving, MutexFree, Starting
  <2> QED BY <2>4, <2>5
<1>5. CASE Enqueue
  <2>1. CASE op' = Idle
    BY <1>5, <2>1 DEF Enqueue, ConservingInv, WorkConserving, HasSlot, Starting, Idle
  <2>2. CASE op' = [op EXCEPT !.at = "put"]
    <3>1. op'.at = "put" /\ op'.id = op.id BY <2>2 DEF TypeOK, Op
    <3> QED BY <1>5, <3>1
            DEF Enqueue, ConservingInv, WorkConserving, HasSlot, MutexFree, Starting, Idle
  <2> QED BY <1>5, <2>1, <2>2 DEF Enqueue
<1>6. CASE Put
  <2>1. op.id \notin active /\ ~HasSlot /\ boot = "up"
    BY <1>6 DEF Put, ConservingInv, Idle
  <2>2. Queued(db') \subseteq Queued(db) \cup {op.id}
    BY <1>0, <1>6 DEF Put, EnqueueDownload, Queued, Live, Table, Row
  <2> QED BY <1>6, <2>1, <2>2
          DEF Put, ConservingInv, WorkConserving, HasSlot, Starting, Idle
<1>7. CASE DrainStart
  <2>1. PICK n \in Ids :
          /\ active' = active \cup {n}
          /\ op' = [op EXCEPT !.at = "mark", !.id = n, !.seen = @ \cup {n}]
    BY <1>7 DEF DrainStart
  <2>2. /\ Starting = {} /\ Starting' = {n} /\ UNCHANGED <<db, boot>>
        /\ op.at = "drain" /\ op'.at = "mark" /\ op'.seen = op.seen \cup {n}
    BY <1>7, <2>1 DEF DrainStart, Starting, TypeOK, Op
  <2>3. boot = "up" BY <2>2 DEF ConservingInv, Idle
  <2> QED BY <2>1, <2>2, <2>3 DEF ConservingInv, WorkConserving, MutexFree
<1>8. CASE DrainSkip
  BY <1>8 DEF DrainSkip, IsNextInQueue, ConservingInv, Starting
<1>9. CASE DrainReturn
  <2>1. HasSlot => Queued(db) = {}
    <3> SUFFICES ASSUME HasSlot, Queued(db) # {} PROVE FALSE OBVIOUS
    <3>1. PICK n \in Queued(db) : IsNextInQueue(db, n) BY <1>0, NextExists
    <3>2. n \notin op.seen BY <1>9, <3>1 DEF DrainReturn, ConservingInv, Starting
    <3> QED BY <1>9, <3>1, <3>2 DEF DrainReturn, Queued
  <2> QED BY <1>9, <2>1
          DEF DrainReturn, ConservingInv, WorkConserving, HasSlot, Starting, Idle
<1>10. ASSUME NEW g \in Goroutines, GoroutineEnds(g) PROVE ConservingInv'
  <2>1. PICK c : OnDone(task[g], c, [task EXCEPT ![g] = NoId])
    BY <1>10 DEF GoroutineEnds
  <2>2. task[g] \in active /\ task[g] \in Ids
    BY <1>10 DEF GoroutineEnds, SlotHasOneOwner, TaskIds, TypeOK
  <2>3. boot = "up" BY <2>2 DEF ConservingInv
  <2>4. Queued(db') = Queued(db) BY <1>0, <2>1, <2>2, QueuedShrinks DEF OnDone
  <2> QED BY <2>1, <2>2, <2>3, <2>4, ConservingDrain DEF OnDone, MutexFree
<1>11. CASE External
  <2>1. PICK id \in Ids : ExternalStatement(id) BY <1>11 DEF External
  <2>2. SetStatuses \subseteq Status \ {"queued"} BY QueueAssumption
  <2>3. Queued(db') \subseteq Queued(db)
    BY <1>0, <2>1, <2>2, QueuedShrinks DEF ExternalStatement
  <2> QED BY <1>11, <2>3, ConservingQuiet DEF External, queueVars
<1>12. CASE ProcessEnds
  BY <1>12 DEF ProcessEnds, ConservingInv, WorkConserving, Starting, Idle
<1>13. CASE UNCHANGED vars
  BY <1>13, ConservingQuiet DEF vars
<1> QED BY <1>1, <1>2, <1>3, <1>4, <1>5, <1>6, <1>7, <1>8, <1>9, <1>10, <1>11, <1>12, <1>13
        DEF QueueNext, ManagerStep

LEMMA ConservingInit == QueueInit => ConservingInv
BY DEF QueueInit, ConservingInv, WorkConserving, Starting, Idle

\* As long as the manager's own statements succeed, no method returns with a free
\* slot and a non-empty queue, whatever the pages, the scheduler and the workers
\* write to the table while it runs.
THEOREM QueueIsWorkConserving ==
  ASSUME WriteFaults = FALSE
  PROVE  QueueSpec => []WorkConserving
<1>1. QueueInit => ConservingIInv BY TypeInit, OwnerInit, ConservingInit DEF ConservingIInv
<1>2. ConservingIInv /\ [QueueNext]_vars => ConservingIInv'
  BY TypePreserved, OwnerPreserved, ConservingPreserved DEF ConservingIInv
<1>3. ConservingIInv => WorkConserving BY DEF ConservingIInv, ConservingInv
<1> QED BY <1>1, <1>2, <1>3, PTL DEF QueueSpec

-----------------------------------------------------------------------------
(* drainQueue's loop is bounded.                                           *)

\* A method has a number of statements left.
LEMMA StatementsCounted ==
  ASSUME NEW o \in Op
  PROVE  Cardinality(Ids \ o.seen) \in Nat /\ StatementsLeft(o) \in Nat
<1>1. Cardinality(Ids \ o.seen) \in Nat
  <2>1. Ids \ o.seen \in SUBSET Ids
    OBVIOUS
  <2>2. QED
    BY <2>1, StorageAssumption, FS_Subset, FS_CardinalityType
<1>2. QED
  BY <1>1 DEF StatementsLeft

\* A row remembered is one row less to come.
LEMMA OneLessToSee ==
  ASSUME NEW seen \in SUBSET Ids, NEW n \in Ids \ seen
  PROVE  Cardinality(Ids \ (seen \cup {n})) = Cardinality(Ids \ seen) - 1
<1>1. IsFiniteSet(Ids \ seen) /\ Cardinality(Ids \ seen) \in Nat
  BY StorageAssumption, FS_Subset, FS_CardinalityType
<1>2. Ids \ (seen \cup {n}) = (Ids \ seen) \ {n} /\ n \in Ids \ seen
  OBVIOUS
<1>3. Cardinality((Ids \ seen) \ {n}) = Cardinality(Ids \ seen) - 1
  BY <1>1, <1>2, FS_RemoveElement
<1>4. QED
  BY <1>2, <1>3

\* Each statement of a method leaves less to do, or is the last.
LEMMA StatementsDecrease ==
  ASSUME TypeOK, ManagerStep
  PROVE  op' = Idle \/ StatementsLeft(op') < StatementsLeft(op)
<1>0. op \in Op /\ Cardinality(Ids \ op.seen) \in Nat
  BY StatementsCounted DEF TypeOK
<1>1. CASE Mark
  <2>1. CASE op' = Idle
    BY <2>1
  <2>2. CASE op' = [op EXCEPT !.at = "drain", !.id = NoId]
    <3>1. op.at = "mark" /\ op'.at = "drain" /\ op'.seen = op.seen
      BY <1>0, <1>1, <2>2 DEF Mark, Op
    <3>2. QED
      BY <1>0, <3>1 DEF StatementsLeft
  <2>3. QED
    BY <1>1, <2>1, <2>2 DEF Mark
<1>2. CASE Enqueue
  <2>1. CASE op' = Idle
    BY <2>1
  <2>2. CASE op' = [op EXCEPT !.at = "put"]
    <3>1. op.at = "enqueue" /\ op'.at = "put" /\ op'.seen = op.seen
      BY <1>0, <1>2, <2>2 DEF Enqueue, Op
    <3>2. QED
      BY <1>0, <3>1 DEF StatementsLeft
  <2>3. QED
    BY <1>2, <2>1, <2>2 DEF Enqueue
<1>3. CASE Put \/ DrainReturn
  BY <1>3 DEF Put, DrainReturn
<1>4. CASE DrainStart
  <2>1. PICK n \in Ids \ op.seen : op' = [op EXCEPT !.at = "mark", !.id = n, !.seen = @ \cup {n}]
    BY <1>4 DEF DrainStart
  <2>2. op.at = "drain" /\ op'.at = "mark" /\ op'.seen = op.seen \cup {n} /\ op.seen \in SUBSET Ids
    BY <1>0, <1>4, <2>1 DEF DrainStart, Op
  <2>3. Cardinality(Ids \ op'.seen) = Cardinality(Ids \ op.seen) - 1
    BY <2>2, OneLessToSee
  <2>4. QED
    BY <1>0, <2>2, <2>3 DEF StatementsLeft
<1>5. CASE DrainSkip
  <2>1. PICK n \in active \ op.seen : op' = [op EXCEPT !.seen = @ \cup {n}]
    BY <1>5 DEF DrainSkip
  <2>2. /\ op.at = "drain" /\ op'.at = "drain" /\ op'.seen = op.seen \cup {n}
        /\ op.seen \in SUBSET Ids /\ n \in Ids \ op.seen
    BY <1>0, <1>5, <2>1 DEF DrainSkip, Op, TypeOK
  <2>3. Cardinality(Ids \ op'.seen) = Cardinality(Ids \ op.seen) - 1
    BY <2>2, OneLessToSee
  <2>4. QED
    BY <1>0, <2>2, <2>3 DEF StatementsLeft
<1>6. QED
  BY <1>1, <1>2, <1>3, <1>4, <1>5 DEF ManagerStep

\* Whether its statements succeed or not, a method of the manager that holds m.mu comes
\* to its end after a number of statements that the number of downloads bounds.
THEOREM LoopsAreBounded == QueueSpec => LoopIsBounded
<1>1. TypeOK /\ [QueueNext]_vars
        => [ManagerStep => op' = Idle \/ StatementsLeft(op') < StatementsLeft(op)]_vars
  BY StatementsDecrease
<1>2. QueueInit => TypeOK
  BY TypeInit
<1>3. TypeOK /\ [QueueNext]_vars => TypeOK'
  BY TypePreserved
<1>4. QED
  BY <1>1, <1>2, <1>3, PTL DEF QueueSpec, LoopIsBounded
=============================================================================
