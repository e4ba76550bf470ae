------------------------------ MODULE QueueMoves ------------------------------
(***************************************************************************)
(* The user reorders the queue: MoveInQueue of the downloads page, which   *)
(* runs MoveQueuePosition and ShiftQueuePositions of                       *)
(* internal/storage/state.go on the UI thread, without m.mu.  Two          *)
(* transactions and three reads, and between any two of them workers end,  *)
(* drainQueue takes rows out, and HandleAdd puts new ones in.  While it    *)
(* lasts the UI calls nothing else.                                        *)
(***************************************************************************)
EXTENDS QueueManager

VARIABLES
  move,   \* the statement MoveQueuePosition is about to run
  late    \* history: has a swap ever been made for a row that had left the queue?

moveVars == <<vars, move, late>>

Resting == [at |-> "none", id |-> NoId, way |-> "none", to |-> 0, rank |-> [id \in Ids |-> 0], pos |-> 0]
Moving == move.at # "none"

MovesInit == QueueInit /\ move = Resting /\ late = FALSE

\* The rows as ShiftQueuePositions lists them: NULL comes first here.
ListedBefore(a, b) ==
  \/ db[a].pos < db[b].pos
  \/ db[a].pos = db[b].pos /\ a < b
Listed == [id \in Ids |-> IF id \notin Queued(db) THEN 0
                          ELSE 1 + Cardinality({m \in Queued(db) : ListedBefore(m, id)})]

\* Mutant: the rows are listed as they come, without ORDER BY.
ShiftListUnordered(id, way) ==
  /\ boot = "up" /\ ~Moving /\ op.by \notin {"ui", "main"}
  /\ move' = [Resting EXCEPT !.at = "compact", !.id = id, !.way = way,
       !.rank = [m \in Ids |-> IF m \notin Queued(db) THEN 0
                               ELSE Cardinality({n \in Queued(db) : n <= m})]]
  /\ UNCHANGED <<vars, late>>

\* ShiftQueuePositions reads the queue, whoever is to be moved.
ShiftList(id, way) ==
  /\ boot = "up" /\ ~Moving /\ op.by \notin {"ui", "main"}
  /\ move' = [Resting EXCEPT !.at = "compact", !.id = id, !.way = way, !.rank = Listed]
  /\ UNCHANGED <<vars, late>>

\* It gives the rows it has listed their new positions, in the queue still or not.
Shift ==
  /\ move.at = "compact"
  /\ db' = [id \in Ids |-> IF move.rank[id] # 0 /\ Exists(db, id)
                             THEN [db[id] EXCEPT !.pos = move.rank[id]] ELSE db[id]]
  /\ move' = [move EXCEPT !.at = "read", !.rank = Resting.rank]
  /\ UNCHANGED <<queueVars, late>>

\* A row that has left the queue is not moved.
ReadPosition ==
  /\ move.at = "read"
  /\ move' = IF move.id \in Queued(db) /\ db[move.id].pos # 0
               THEN [move EXCEPT !.at = "count", !.pos = db[move.id].pos] ELSE Resting
  /\ UNCHANGED <<vars, late>>

\* The new position, clamped to the queue, its length last.
Target ==
  LET wanted == IF move.way = "down" THEN move.pos + 1 ELSE move.pos - 1
      first == IF wanted < 1 THEN 1 ELSE wanted
      length == Cardinality(Queued(db))
  IN  IF first > length THEN length ELSE first

CountQueue ==
  /\ move.at = "count"
  /\ move' = IF Target = move.pos THEN Resting
             ELSE [move EXCEPT !.at = "swap", !.to = Target]
  /\ UNCHANGED <<vars, late>>

\* One transaction: whoever is queued there takes the old position, the row itself
\* takes the new one, and neither statement asks whether it is queued still.
Swap ==
  /\ move.at = "swap"
  /\ db' = [id \in Ids |->
       IF id = move.id THEN [db[id] EXCEPT !.pos = move.to]
       ELSE IF id \in Queued(db) /\ db[id].pos = move.to
              THEN [db[id] EXCEPT !.pos = move.pos] ELSE db[id]]
  /\ move' = Resting
  /\ late' = (late \/ move.id \notin Queued(db))
  /\ UNCHANGED queueVars

MoveStep == Shift \/ ReadPosition \/ CountQueue \/ Swap

\* What goes on while the UI thread moves a row: a download is added and started,
\* a worker ends, a method of the manager goes on.
Background ==
  \/ ManagerStep
  \/ /\ boot = "up" /\ op.by # "main"
     /\ \E id \in Ids : db[id].status = "pending" /\ TryStart(id, "add")
  \/ /\ boot = "up" /\ "create" \in Externals
     /\ \E id \in Ids : db[id].life = "none" /\ db' = CreateDownloadWithChunks(db, id)
     /\ UNCHANGED queueVars
  \/ \E g \in Goroutines : /\ task[g] # NoId
                          /\ OnDone(task[g], "worker", [task EXCEPT ![g] = NoId])

Waiting(t) == {id \in Queued(t) : t[id].pos # 0}

\* DeleteDownload writes "cancelled" before it calls Remove, so no row that stays
\* in the queue is left without a position: of the calls of QueueNext, these.
Orderly == Waiting(db) \cap Queued(db') \subseteq Waiting(db')

MovesNext ==
  \/ ~Moving /\ QueueNext /\ Orderly /\ UNCHANGED <<move, late>>
  \/ \E id \in Ids, way \in {"up", "down"} : ShiftList(id, way)
  \/ MoveStep
  \/ Moving /\ Background /\ UNCHANGED <<move, late>>
  \/ Moving /\ "exit" \in Externals /\ ProcessEnds /\ move' = Resting /\ UNCHANGED late

MovesSpec == MovesInit /\ [][MovesNext]_moveVars

-----------------------------------------------------------------------------
\* As long as no swap came too late, two live queued rows never share a
\* queue_position, so the order of the queue is never left to chance, whatever is
\* drained, added and compacted in the middle of a move (EnqueueDownload's comment:
\* "two concurrent callers always get distinct positions").  A swap for a row that
\* is queued no more can give its neighbour the position of another.
DistinctPositions == late \/ \A a, b \in Queued(db) : a # b => db[a].pos # db[b].pos \/ db[a].pos = 0

\* And two downloads that wait never change places, except in the swap of a move, and
\* then one of them is the download the user moves or the one that has the place it
\* goes to: not when positions are compacted, not when rows enter and leave the queue
\* in the middle of a move, not in a restart.
OrderIsKept ==
  [][~late => \A a, b \in Waiting(db) \cap Waiting(db') :
       Before(db, a, b) /\ ~Before(db', a, b)
         => move.at = "swap" /\ \E r \in {a, b} : r = move.id \/ db[r].pos = move.to]_moveVars
=============================================================================
