---------------------------- MODULE ChunkDownload ----------------------------
(***************************************************************************)
(* internal/core/downloader.go: one download's Downloader.Start, again and *)
(* again, with its chunk goroutines, the goroutine that records progress   *)
(* once a second, and the part file and chunk rows that outlive them.      *)
(*                                                                         *)
(* Files are small: a byte is "hole" until it is written, then names the   *)
(* representation it was fetched from.  A read of several bytes is that    *)
(* many reads of one.  A file of unknown size has one chunk and a path of  *)
(* its own (startUnknownSize), which starts from nothing every time.       *)
(***************************************************************************)
EXTENDS Integers, FiniteSets, Functions

CONSTANT Plans   \* the downloads to look at

\* size: of the file; known: has the server told it?  chunks: asked for; retries:
\* of a chunk; validated: did the server name an ETag or a Last-Modified?
\* fault: bound, what may go wrong.
Faults == {"crash", "remove", "change", "server", "start"}
ASSUME PlansAssumption ==
  /\ Plans \subseteq [size : Nat \ {0}, known : BOOLEAN, chunks : Nat, retries : Nat,
                     validated : BOOLEAN, fault : SUBSET Faults]
  /\ \A p \in Plans : p.known \/ p.chunks = 1

VARIABLES
  plan,       \* one of Plans, for the whole behaviour
  served,     \* the representation the server has now
  disk,       \* the part file: its size and its bytes
  claim,      \* chunks.downloaded_size, per chunk
  phase,      \* where Start is
  cancelled,  \* has its context been cancelled?
  next,       \* the chunk the loop of Start has reached
  chunk,      \* Downloader.progress.Chunks and the goroutine of each
  ticks,      \* what trackSpeed has read and not yet recorded
  result      \* what the last Start returned

runVars == <<phase, cancelled, next, result>>
vars == <<plan, served, disk, claim, runVars, chunk, ticks>>

-----------------------------------------------------------------------------
(* CalculateChunks: sizes differ by one at most, the larger ones first.    *)

Count == IF plan.chunks <= 1 THEN 1
         ELSE IF plan.chunks > plan.size THEN plan.size ELSE plan.chunks
Chunk == 0..Count - 1

\* start, after c turns of the loop: the first `remainder' chunks are one longer.
Start(c) ==
  LET remainder == plan.size % Count
  IN  c * (plan.size \div Count) + (IF c < remainder THEN c ELSE remainder)

\* Mutant: the end is where the next chunk starts.
EndExclusive(c) == IF c = Count - 1 THEN plan.size - 1 ELSE Start(c + 1)

End(c) == IF c = Count - 1 THEN plan.size - 1 ELSE Start(c + 1) - 1
Length(c) == End(c) - Start(c) + 1

Byte == 0..plan.size - 1
Got(c, n) == {b \in Byte : Start(c) <= b /\ b < Start(c) + n}

-----------------------------------------------------------------------------
Versions == {"old", "new"}
Statuses == {"pending", "downloading", "retrying", "completed", "failed"}
\* none: not spawned; try: about to send a request; body: between two reads;
\* count: bytes written, not yet counted; emit: about to record its progress.
Places == {"none", "try", "body", "count", "emit", "backoff", "gone"}

Fresh(c) ==
  [at |-> "none", got |-> claim[c], attempt |-> 0, body |-> "old",
   status |-> IF claim[c] >= Length(c) THEN "completed" ELSE "pending"]

Init ==
  /\ plan \in Plans
  /\ served = "old"
  /\ disk = [size |-> 0, byte |-> [b \in Byte |-> "hole"]]
  /\ claim = [c \in Chunk |-> 0]
  /\ phase = "stopped" /\ cancelled = FALSE /\ next = 0 /\ result = "none"
  /\ chunk = [c \in Chunk |-> Fresh(c)]
  /\ ticks = {}

-----------------------------------------------------------------------------
(* Start.                                                                  *)

\* StartDownload reads the chunk rows, NewDownloader takes them for progress,
\* Start opens the part file and creates it if it is not there.
Open ==
  /\ phase = "stopped"
  /\ phase' = "opened"
  /\ cancelled' = FALSE /\ next' = 0 /\ result' = "none"
  /\ chunk' = [c \in Chunk |-> Fresh(c)]
  /\ UNCHANGED <<plan, served, disk, claim, ticks>>

\* No space, no file, no Truncate: Start returns and records nothing.
OpenFails ==
  /\ "start" \in plan.fault
  /\ phase \in {"opened", "reconciled"}
  /\ phase' = "stopped" /\ result' = "failed"
  /\ UNCHANGED <<plan, served, disk, claim, cancelled, next, chunk, ticks>>

\* Mutant: the rows are believed.
ReconcileNothing ==
  /\ phase = "opened" /\ plan.known
  /\ phase' = "reconciled"
  /\ UNCHANGED <<plan, served, disk, claim, cancelled, next, result, chunk, ticks>>

\* Mutant: the bytes the file has for a chunk are not kept above zero.
ReconcileBelowZero ==
  /\ phase = "opened" /\ plan.known
  /\ phase' = "reconciled"
  /\ chunk' = [c \in Chunk |->
       LET available == disk.size - Start(c)
       IN  IF chunk[c].got <= 0 \/ chunk[c].got <= available THEN chunk[c]
           ELSE [chunk[c] EXCEPT !.got = available, !.status = "pending"]]
  /\ UNCHANGED <<plan, served, disk, claim, cancelled, next, result, ticks>>

\* reconcileDiskProgress, in memory only.
Reconcile ==
  /\ phase = "opened" /\ plan.known
  /\ phase' = "reconciled"
  /\ chunk' = [c \in Chunk |->
       LET available == IF disk.size < Start(c) THEN 0 ELSE disk.size - Start(c)
       IN  IF chunk[c].got <= available THEN chunk[c]
           ELSE [chunk[c] EXCEPT !.got = available, !.status = "pending"]]
  /\ UNCHANGED <<plan, served, disk, claim, cancelled, next, result, ticks>>

\* A longer file reads as zeros where nothing was written.
Truncate ==
  /\ phase = "reconciled"
  /\ phase' = "running"
  /\ disk' = [disk EXCEPT !.size = plan.size]
  /\ UNCHANGED <<plan, served, claim, cancelled, next, result, chunk, ticks>>

\* There are as many places in the semaphore as chunks, so only the context can
\* stop the loop; select may still spawn when both are ready.
Spawn ==
  /\ phase = "running" /\ next < Count
  /\ chunk' = [chunk EXCEPT ![next].at = "try"]
  /\ next' = next + 1
  /\ UNCHANGED <<plan, served, disk, claim, phase, cancelled, result, ticks>>

\* wg.Wait returns.
Wait ==
  /\ phase = "running"
  /\ next = Count \/ cancelled
  /\ \A c \in Chunk : chunk[c].at \in {"none", "gone"}
  /\ phase' = "flushing" /\ next' = 0
  /\ UNCHANGED <<plan, served, disk, claim, cancelled, result, chunk, ticks>>

\* flushProgress, one row at a time.
Flush ==
  /\ phase = "flushing" /\ next < Count
  /\ claim' = [claim EXCEPT ![next] = chunk[next].got]
  /\ next' = next + 1
  /\ UNCHANGED <<plan, served, disk, phase, cancelled, result, chunk, ticks>>

\* verifyOnDisk: every byte accounted for, and the size of the file is right.
Verified ==
  /\ SumFunction([c \in Chunk |-> chunk[c].got]) = plan.size
  /\ disk.size = plan.size

\* Mutant: a chunk that failed does not fail the download.
ReturnRegardless ==
  /\ phase = "flushing" /\ next = Count
  /\ phase' = "stopped"
  /\ result' = IF cancelled THEN "cancelled" ELSE "complete"
  /\ UNCHANGED <<plan, served, disk, claim, cancelled, next, chunk, ticks>>

\* Start returns: the context's error first, then a chunk that is not completed,
\* then what is on disk.  syncFile may fail too.
Return ==
  /\ phase = "flushing" /\ next = Count
  /\ phase' = "stopped"
  /\ \/ cancelled /\ result' = "cancelled"
     \/ /\ ~cancelled
        /\ result' = IF (plan.known => Verified) /\ \A c \in Chunk : chunk[c].status = "completed"
                       THEN "complete" ELSE "failed"
     \/ ~cancelled /\ "start" \in plan.fault /\ result' = "failed"
  /\ UNCHANGED <<plan, served, disk, claim, cancelled, next, chunk, ticks>>

-----------------------------------------------------------------------------
(* startUnknownSize: one request, no resume, no retry, no tick.  `next' is *)
(* its total.                                                              *)

\* What the part file holds goes once there is an answer, not before.
StreamResponds ==
  /\ phase = "opened" /\ ~plan.known /\ ~cancelled
  /\ phase' = "streaming"
  /\ disk' = [size |-> 0, byte |-> [b \in Byte |-> "hole"]]
  /\ chunk' = [chunk EXCEPT ![0].body = served]
  /\ UNCHANGED <<plan, served, claim, cancelled, next, result, ticks>>

\* WriteAt extends the file; the progress follows.
StreamWrites ==
  /\ phase = "streaming" /\ ~cancelled /\ next < plan.size
  /\ disk' = [size |-> next + 1, byte |-> [disk.byte EXCEPT ![next] = chunk[0].body]]
  /\ chunk' = [chunk EXCEPT ![0].got = next + 1, ![0].status = "downloading"]
  /\ next' = next + 1
  /\ UNCHANGED <<plan, served, claim, phase, cancelled, result, ticks>>

\* The body ends: completed, and recorded at once.
StreamEnds ==
  /\ phase = "streaming" /\ next = plan.size
  /\ phase' = "flushing" /\ next' = 0
  /\ claim' = [claim EXCEPT ![0] = plan.size]
  /\ chunk' = [chunk EXCEPT ![0].status = "completed"]
  /\ UNCHANGED <<plan, served, disk, cancelled, result, ticks>>

\* The request, or a read of its body, fails or is cancelled: the error goes up,
\* and what there is of progress is flushed.
StreamFails ==
  /\ phase = "streaming" \/ (phase = "opened" /\ ~plan.known)
  /\ cancelled \/ "server" \in plan.fault
  /\ phase' = "flushing" /\ next' = 0
  /\ chunk' = [chunk EXCEPT ![0].status = "failed"]
  /\ UNCHANGED <<plan, served, disk, claim, cancelled, result, ticks>>

StreamStep == StreamResponds \/ StreamWrites \/ StreamEnds \/ StreamFails

StartStep ==
  OpenFails \/ Reconcile \/ Truncate \/ Spawn \/ Wait \/ Flush \/ Return

-----------------------------------------------------------------------------
(* downloadChunkWithRetry and downloadChunk.                               *)

Moves(c, at) == chunk' = [chunk EXCEPT ![c].at = at]
ChunkOnly == UNCHANGED <<plan, served, disk, claim, runVars, ticks>>

GiveUp(c) ==
  /\ chunk[c].at \in {"try", "backoff"}
  /\ cancelled
  /\ Moves(c, "gone")
  /\ ChunkOnly

Completed(c) ==
  /\ \/ chunk[c].at = "try" /\ ~cancelled
     \/ chunk[c].at = "body"
  /\ chunk[c].got >= Length(c)
  /\ chunk' = [chunk EXCEPT ![c].at = "emit", ![c].status = "completed"]
  /\ ChunkOnly

\* Mutant: a resumed request does not send If-Range.
AcceptsAnyVersion(c) == TRUE

\* If-Range goes with a resumed request only; when it no longer matches, the
\* server answers 200 with the whole file, which a resumed request refuses.
Accepts(c) == chunk[c].got > 0 /\ plan.validated => served = "old"

Respond(c) ==
  /\ chunk[c].at = "try" /\ ~cancelled
  /\ chunk[c].got < Length(c)
  /\ Accepts(c)
  /\ chunk' = [chunk EXCEPT ![c].at = "body", ![c].body = served]
  /\ ChunkOnly

\* One byte is read, let through by the limiters, and written at its place.
Write(c) ==
  /\ chunk[c].at = "body" /\ ~cancelled
  /\ chunk[c].got < Length(c)
  /\ disk' = [disk EXCEPT !.byte[Start(c) + chunk[c].got] = chunk[c].body]
  /\ Moves(c, "count")
  /\ UNCHANGED <<plan, served, claim, runVars, ticks>>

CountWritten(c) ==
  /\ chunk[c].at = "count"
  /\ chunk' = [chunk EXCEPT ![c].at = "body", ![c].got = @ + 1, ![c].status = "downloading"]
  /\ ChunkOnly

\* A request may get no answer or a wrong one; an answer may break off, or hold
\* more bytes than were asked for.
MayFail(c) ==
  \/ chunk[c].at = "try" /\ chunk[c].got < Length(c) /\ ("server" \in plan.fault \/ ~Accepts(c))
  \/ chunk[c].at = "body" /\ "server" \in plan.fault

\* Mutant: the request does not carry the context.
FailWithoutContext(c) ==
  /\ ~cancelled /\ MayFail(c)
  /\ chunk' = [chunk EXCEPT ![c].at = "emit",
       ![c].status = IF chunk[c].attempt < plan.retries THEN "retrying" ELSE "failed"]
  /\ ChunkOnly

\* An error of a request whose context is done ends the goroutine as it is;
\* otherwise it retries, or has failed.
Fail(c) ==
  /\ \/ cancelled /\ chunk[c].at \in {"try", "body"} /\ Moves(c, "gone")
     \/ /\ ~cancelled /\ MayFail(c)
        /\ chunk' = [chunk EXCEPT ![c].at = "emit",
             ![c].status = IF chunk[c].attempt < plan.retries THEN "retrying" ELSE "failed"]
  /\ ChunkOnly

\* emitProgress of the goroutine itself: nobody else counts for its chunk.
Emit(c) ==
  /\ chunk[c].at = "emit"
  /\ claim' = [claim EXCEPT ![c] = chunk[c].got]
  /\ Moves(c, IF chunk[c].status = "retrying" THEN "backoff" ELSE "gone")
  /\ UNCHANGED <<plan, served, disk, runVars, ticks>>

Retry(c) ==
  /\ chunk[c].at = "backoff"
  /\ chunk' = [chunk EXCEPT ![c].at = "try", ![c].attempt = @ + 1]
  /\ ChunkOnly

ChunkStep(c) ==
  \/ GiveUp(c) \/ Completed(c) \/ Respond(c) \/ Write(c)
  \/ CountWritten(c) \/ Fail(c) \/ Emit(c) \/ Retry(c)

-----------------------------------------------------------------------------
(* trackSpeed: a snapshot under the lock, recorded without it.  Nobody     *)
(* waits for this goroutine.                                               *)

Tick ==
  /\ phase \in {"running", "flushing"} /\ ~cancelled
  /\ ticks = {}
  /\ ticks' = {[chunk |-> c, got |-> chunk[c].got] :
                 c \in {d \in Chunk : chunk[d].status = "downloading"}}
  /\ UNCHANGED <<plan, served, disk, claim, runVars, chunk>>

RecordTick(t) ==
  /\ t \in ticks
  /\ claim' = [claim EXCEPT ![t.chunk] = t.got]
  /\ ticks' = ticks \ {t}
  /\ UNCHANGED <<plan, served, disk, runVars, chunk>>

-----------------------------------------------------------------------------
(* The user, the process, the file system and the server.                  *)

Cancel ==
  /\ phase # "stopped" /\ ~cancelled
  /\ cancelled' = TRUE
  /\ UNCHANGED <<plan, served, disk, claim, phase, next, result, chunk, ticks>>

\* The process is killed: the rows and what was written stay.
Crash ==
  /\ "crash" \in plan.fault /\ phase # "stopped"
  /\ phase' = "stopped" /\ cancelled' = FALSE /\ next' = 0 /\ result' = "none"
  /\ chunk' = [c \in Chunk |-> Fresh(c)]
  /\ ticks' = {}
  /\ UNCHANGED <<plan, served, disk, claim>>

\* While nothing runs, not even a tick of the last Start, the part file is cut or
\* removed by somebody else.
Remove(size) ==
  /\ "remove" \in plan.fault /\ phase = "stopped" /\ ticks = {} /\ result # "complete"
  /\ size < disk.size
  /\ disk' = [size |-> size,
              byte |-> [b \in Byte |-> IF b < size THEN disk.byte[b] ELSE "hole"]]
  /\ UNCHANGED <<plan, served, claim, runVars, chunk, ticks>>

\* Another file of the same size takes the place of the one described.
Change ==
  /\ "change" \in plan.fault
  /\ served = "old" /\ served' = "new"
  /\ UNCHANGED <<plan, disk, claim, runVars, chunk, ticks>>

Next ==
  \/ Open \/ StartStep \/ StreamStep
  \/ \E c \in Chunk : ChunkStep(c)
  \/ Tick \/ \E t \in ticks : RecordTick(t)
  \/ Cancel \/ Crash \/ Change
  \/ \E size \in 0..plan.size : Remove(size)

\* The goroutines run.  A server need not answer, but a request whose context is
\* cancelled returns.
Fairness ==
  /\ WF_vars(StartStep)
  /\ WF_vars(cancelled /\ StreamStep)
  /\ WF_vars(cancelled /\ \E c \in Chunk : ChunkStep(c))

Spec == Init /\ [][Next]_vars
FairSpec == Spec /\ Fairness

-----------------------------------------------------------------------------
(* Properties.                                                             *)

\* The part file, the rows and the progress in memory stay within the file; the
\* chunks themselves cut it without gap or overlap, as evenly as they can.
TypeOK ==
  /\ disk.size \in 0..plan.size /\ disk.byte \in [Byte -> Versions \cup {"hole"}]
  /\ \A c \in Chunk : claim[c] \in 0..Length(c)
  /\ phase \in {"stopped", "opened", "reconciled", "running", "streaming", "flushing"}
  /\ cancelled \in BOOLEAN
  /\ next \in 0..(IF plan.known THEN Count ELSE plan.size)
  /\ result \in {"none", "cancelled", "failed", "complete"}
  /\ \A c \in Chunk :
       /\ chunk[c].at \in Places /\ chunk[c].status \in Statuses
       /\ chunk[c].got \in 0..Length(c) /\ chunk[c].attempt \in 0..plan.retries
  /\ \A t \in ticks : t.chunk \in Chunk /\ t.got \in 0..Length(t.chunk)

\* CalculateChunks cuts the file without gap or overlap, and as evenly as it can.
ChunksTile ==
  /\ \A b \in Byte : Cardinality({c \in Chunk : Start(c) <= b /\ b <= End(c)}) = 1
  /\ \A c, d \in Chunk : Length(c) \in 1..plan.size /\ Length(c) - Length(d) <= 1

\* Once Start has looked at the part file, what it counts as progress is on disk:
\* a file that was removed or cut is fetched again, not published with holes in
\* it (reconcileDiskProgress), and no byte counts before it is written.
ProgressIsOnDisk ==
  \/ plan.known /\ phase \in {"reconciled", "running", "flushing"}
  \/ result = "complete"
  =>
    \A c \in Chunk : \A b \in Got(c, chunk[c].got) : disk.byte[b] # "hole"

\* Within a chunk, the bytes that count come from one representation of the file
\* when the server names one: a resumed or retried request never goes on with the
\* bytes of another file (If-Range).
ChunkIsOneVersion ==
  \/ plan.known /\ plan.validated /\ phase \in {"reconciled", "running", "flushing"}
  \/ ~plan.known /\ result = "complete"
  =>
    \A c \in Chunk : \A a, b \in Got(c, chunk[c].got) : disk.byte[a] = disk.byte[b]

\* With crashes, or with a part file that others touch, but not with both: the
\* rows never newly claim what the disk does not have, and Start returns nil for
\* a whole file only.
Promised == INSTANCE ResumableFile WITH
  want <- Byte,
  have <- {b \in Byte : disk.byte[b] # "hole"},
  recorded <- UNION {Got(c, claim[c]) : c \in Chunk},
  delivered <- result = "complete"
ImplementsResumableFile == Promised!Spec

\* A cancelled Start returns, wherever its goroutines are: a request, a read, a
\* backoff (what Workers takes for granted of Return).
CancelStops == cancelled ~> phase = "stopped"

\* "a deleted or truncated one is re-downloaded rather than published as if it were
\* complete" (README): when Start returns nil, the file has no hole.
PublishedIsWhole ==
  result = "complete" => \A b \in Byte : disk.byte[b] # "hole"

\* "resume validated against ETag and Last-Modified so a changed file is never
\* stitched together" (README): when Start returns nil, the bytes of the file all
\* come from one representation.
PublishedIsOneVersion ==
  plan.validated /\ result = "complete" =>
    \A a, b \in Byte : disk.byte[a] = disk.byte[b]
=============================================================================
