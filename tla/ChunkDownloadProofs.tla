------------------------- MODULE ChunkDownloadProofs -------------------------
(***************************************************************************)
(* What the chunk downloader guarantees for files of every size, cut into  *)
(* any number of chunks, after every sequence of starts, stops, retries,   *)
(* failures of the server and crashes.                                     *)
(***************************************************************************)
EXTENDS ChunkDownload, WellFoundedInduction, FiniteSetTheorems, TLAPS

Before == {ss \in Nat \X Nat : ss[1] < ss[2]}

\* A set of natural numbers has a first one, unless it is empty.
LEMMA LeastNumber ==
  ASSUME NEW S \in SUBSET Nat, S # {}
  PROVE  \E n \in S : \A m \in S : n <= m
<1>1. IsWellFoundedOn(Before, Nat)
  BY NatLessThanWellFounded DEF OpToRel, Before
<1>2. PICK n \in S : \A m \in S : <<m, n>> \notin Before
  BY <1>1, WFMin
<1>3. \A m \in S : ~(m < n) /\ m \in Nat /\ n \in Nat
  BY <1>2 DEF Before
<1>4. QED
  BY <1>3

-----------------------------------------------------------------------------
(* CalculateChunks cuts every file without gap or overlap.                 *)

\* There is always a chunk, and never one without a byte.
LEMMA CountOK ==
  ASSUME plan \in Plans
  PROVE  Count \in 1..plan.size /\ plan.size \in Nat \ {0} /\ (~plan.known => Count = 1)
BY PlansAssumption DEF Count

\* One turn of the loop adds the quotient, and one byte while the remainder lasts.
LEMMA StartSteps ==
  ASSUME plan \in Plans
  PROVE  /\ plan.size \div Count \in Nat \ {0} /\ plan.size % Count \in 0..Count - 1
         /\ \A c \in Nat : Start(c) \in Nat
         /\ \A c \in Nat : Start(c + 1) = Start(c) + (plan.size \div Count)
                                          + (IF c < plan.size % Count THEN 1 ELSE 0)
         /\ Start(0) = 0 /\ Start(Count) = plan.size
<1> DEFINE n == Count
           q == plan.size \div n
           r == plan.size % n
           s == plan.size
<1>1. n \in 1..s /\ n \in Nat \ {0} /\ s \in Nat \ {0}
  BY CountOK
<1> HIDE DEF n
<1>2. q \in Nat /\ r \in 0..n - 1 /\ s = n * q + r
  BY <1>1
<1>4. \A c \in Nat : Start(c) = c * q + (IF c < r THEN c ELSE r)
  BY DEF Start, n
<1> HIDE DEF q, r, s
<1>3. q # 0
  <2>1. q = 0 => n * q = 0
    BY <1>1
  <2>2. QED
    BY <1>1, <1>2, <2>1
<1>5. \A c \in Nat : c * q \in Nat /\ (c + 1) * q = c * q + q
  BY <1>2
<1>6. \A c \in Nat : /\ Start(c) \in Nat
                     /\ Start(c + 1) = Start(c) + q + (IF c < r THEN 1 ELSE 0)
  BY <1>1, <1>2, <1>4, <1>5
<1>7. 0 * q = 0 /\ n * q + r = s
  BY <1>1, <1>2
<1>8. Start(0) = 0 /\ Start(n) = s
  BY <1>1, <1>2, <1>4, <1>7
<1>9. QED
  BY <1>1, <1>2, <1>3, <1>6, <1>8 DEF n, q, r, s

\* The starts of the chunks are in order, each at least a quotient after the last.
LEMMA StartGrows ==
  ASSUME plan \in Plans, NEW c \in Nat, NEW d \in Nat, c < d
  PROVE  Start(c + 1) <= Start(d)
<1> DEFINE q == plan.size \div Count
           r == plan.size % Count
<1>1. q \in Nat \ {0} /\ r \in Nat
  BY StartSteps, CountOK
<1>2. \A k \in Nat : Start(k) = k * q + (IF k < r THEN k ELSE r)
  BY DEF Start
<1> HIDE DEF q, r
<1>3. (c + 1) * q <= d * q /\ (c + 1) * q \in Nat /\ d * q \in Nat
  <2>1. PICK k \in Nat : d = c + 1 + k
    <3>1. d - (c + 1) \in Nat /\ d = c + 1 + (d - (c + 1))
      OBVIOUS
    <3>2. QED
      BY <3>1
  <2>2. d * q = (c + 1) * q + k * q /\ k * q \in Nat /\ (c + 1) * q \in Nat
    BY <1>1, <2>1
  <2>3. QED
    BY <2>2
<1>4. QED
  BY <1>1, <1>2, <1>3

\* The bounds of a chunk, without the exception for the last.
LEMMA EndIs ==
  ASSUME plan \in Plans, NEW c \in Chunk
  PROVE  /\ c \in Nat /\ End(c) = Start(c + 1) - 1 /\ Length(c) = Start(c + 1) - Start(c)
         /\ Start(c) \in Nat /\ Start(c + 1) \in Nat /\ Start(c + 1) <= plan.size
         /\ Length(c) \in 1..plan.size
<1>1. Count \in 1..plan.size /\ c \in 0..Count - 1 /\ plan.size \in Nat
  BY CountOK DEF Chunk
<1>2. c = Count - 1 => c + 1 = Count
  BY <1>1
<1>3. End(c) = Start(c + 1) - 1
  BY <1>1, <1>2, StartSteps DEF End
<1>4. /\ Start(c) \in Nat /\ Start(c + 1) \in Nat
      /\ Start(c + 1) = Start(c) + (plan.size \div Count) + (IF c < plan.size % Count THEN 1 ELSE 0)
      /\ plan.size \div Count \in Nat \ {0}
  BY <1>1, StartSteps
<1>5. Length(c) = Start(c + 1) - Start(c)
  BY <1>3, <1>4 DEF Length
<1>6. Start(c + 1) <= plan.size
  <2>1. CASE c + 1 = Count
    BY <1>1, <2>1, StartSteps
  <2>2. CASE c + 1 < Count
    <3>1. c + 1 \in Nat /\ Count \in Nat /\ Start(Count) = plan.size /\ Start(c + 1 + 1) \in Nat
      BY <1>1, StartSteps
    <3>2. Start(c + 1 + 1) <= plan.size
      BY <2>2, <3>1, StartGrows
    <3>3. Start(c + 1) <= Start(c + 1 + 1)
      BY <1>1, <3>1, <1>4, StartGrows, c + 1 < c + 1 + 1, StartSteps
    <3>4. QED
      BY <1>1, <1>4, <3>1, <3>2, <3>3
  <2>3. QED
    BY <1>1, <2>1, <2>2
<1>7. Length(c) \in 1..plan.size
  BY <1>1, <1>4, <1>5, <1>6
<1>8. QED
  BY <1>1, <1>3, <1>4, <1>5, <1>6, <1>7

\* Every byte is in one chunk: the last that starts no later than the byte.
LEMMA EveryByteHasAChunk ==
  ASSUME plan \in Plans, NEW b \in Byte
  PROVE  \E c \in Chunk : Start(c) <= b /\ b <= End(c)
<1>1. Count \in 1..plan.size /\ plan.size \in Nat /\ b \in 0..plan.size - 1
  BY CountOK DEF Byte
<1> DEFINE Later == {c \in 1..Count : b < Start(c)}
<1>2. Later \in SUBSET Nat /\ Count \in Later
  BY <1>1, StartSteps
<1>3. PICK d \in Later : \A c \in Later : d <= c
  BY <1>2, LeastNumber
<1>4. d \in 1..Count /\ b < Start(d) /\ d - 1 \in Chunk /\ d - 1 + 1 = d
  BY <1>1, <1>3 DEF Chunk
<1>5. Start(d - 1) <= b
  <2>1. CASE d = 1
    BY <1>1, <2>1, StartSteps
  <2>2. CASE d # 1
    <3>1. d - 1 \in 1..Count /\ ~(d <= d - 1)
      BY <1>1, <1>4, <2>2
    <3>2. ~(b < Start(d - 1)) /\ Start(d - 1) \in Nat
      BY <1>3, <1>4, <3>1, StartSteps
    <3>3. QED
      BY <1>1, <3>2
  <2>3. QED
    BY <2>1, <2>2
<1>6. b <= End(d - 1)
  BY <1>1, <1>4, EndIs
<1>7. QED
  BY <1>4, <1>5, <1>6

\* No byte is in two chunks.
LEMMA ChunksAreDisjoint ==
  ASSUME plan \in Plans, NEW c \in Chunk, NEW d \in Chunk, c # d, NEW b \in Int,
         Start(c) <= b, b <= End(c)
  PROVE  ~(Start(d) <= b /\ b <= End(d))
<1>1. /\ c \in Nat /\ d \in Nat /\ End(c) = Start(c + 1) - 1 /\ End(d) = Start(d + 1) - 1
      /\ Start(c) \in Nat /\ Start(d) \in Nat /\ Start(c + 1) \in Nat /\ Start(d + 1) \in Nat
  BY EndIs
<1>2. CASE c < d
  BY <1>1, <1>2, StartGrows
<1>3. CASE d < c
  BY <1>1, <1>3, StartGrows
<1>4. QED
  BY <1>1, <1>2, <1>3

\* The chunks cut the file, and their lengths differ by one at most.
LEMMA Tiles == plan \in Plans => ChunksTile
<1> SUFFICES ASSUME plan \in Plans PROVE ChunksTile
  OBVIOUS
<1>1. ASSUME NEW b \in Byte
      PROVE  Cardinality({c \in Chunk : Start(c) <= b /\ b <= End(c)}) = 1
  <2>1. PICK c \in Chunk : Start(c) <= b /\ b <= End(c)
    BY EveryByteHasAChunk
  <2>2. b \in Int
    BY CountOK DEF Byte
  <2>3. {d \in Chunk : Start(d) <= b /\ b <= End(d)} = {c}
    BY <2>1, <2>2, ChunksAreDisjoint
  <2>4. QED
    BY <2>3, FS_Singleton
<1>2. ASSUME NEW c \in Chunk, NEW d \in Chunk
      PROVE  Length(c) \in 1..plan.size /\ Length(c) - Length(d) <= 1
  <2>1. /\ Length(c) \in 1..plan.size /\ Length(c) = Start(c + 1) - Start(c) /\ c \in Nat
        /\ Length(d) = Start(d + 1) - Start(d) /\ d \in Nat
        /\ Start(c) \in Nat /\ Start(d) \in Nat
    BY EndIs
  <2>2. /\ Start(c + 1) = Start(c) + (plan.size \div Count) + (IF c < plan.size % Count THEN 1 ELSE 0)
        /\ Start(d + 1) = Start(d) + (plan.size \div Count) + (IF d < plan.size % Count THEN 1 ELSE 0)
        /\ plan.size \div Count \in Nat
    BY <2>1, StartSteps
  <2>3. QED
    BY <2>1, <2>2
<1>3. QED
  BY <1>1, <1>2 DEF ChunksTile
-----------------------------------------------------------------------------
(* The inductive invariant, in parts.                                      *)

\* What the part file, the rows, the goroutines and the ticks may be.
Disks == [size : 0..plan.size, byte : [Byte -> Versions \cup {"hole"}]]
Claims == {f \in [Chunk -> Nat] : \A c \in Chunk : f[c] <= Length(c)}
Cell == [at : Places, got : Nat, attempt : Nat, body : Versions, status : Statuses]
Cells == {f \in [Chunk -> Cell] :
            \A c \in Chunk : f[c].got <= Length(c) /\ f[c].attempt <= plan.retries}
Snapshots == {t \in [chunk : Chunk, got : Nat] : t.got <= Length(t.chunk)}

\* TypeOK, and what functions and records it speaks of.
Shape ==
  /\ plan \in Plans /\ served \in Versions
  /\ disk \in Disks /\ claim \in Claims /\ chunk \in Cells /\ ticks \subseteq Snapshots
  /\ phase \in {"stopped", "opened", "reconciled", "running", "streaming", "flushing"}
  /\ cancelled \in BOOLEAN
  /\ next \in 0..(IF plan.known THEN Count ELSE plan.size)
  /\ result \in {"none", "cancelled", "failed", "complete"}

\* Which phase follows which, for a known and for an unknown size.
Phases ==
  /\ phase = "streaming" => ~plan.known
  /\ phase \in {"reconciled", "running"} => plan.known
  /\ phase # "streaming" => next <= Count
  /\ phase \in {"opened", "reconciled"} => next = 0
  /\ phase # "stopped" => result = "none"
  /\ ~plan.known => ticks = {}

\* What the place and the status of a goroutine say.
Placed(c) ==
  /\ phase # "running" => chunk[c].at \in {"none", "gone"}
  /\ phase \in {"opened", "reconciled"} \/ (phase = "running" /\ next <= c) => chunk[c].at = "none"
  /\ ~plan.known /\ phase \in {"opened", "streaming"} /\ next = 0 => chunk[c].got = claim[c]
  /\ phase = "streaming" /\ next > 0 => chunk[c].got = next
  /\ chunk[c].at = "count" => chunk[c].got < Length(c)
  /\ chunk[c].at = "backoff" \/ (chunk[c].at = "emit" /\ chunk[c].status = "retrying")
       => chunk[c].attempt < plan.retries
  /\ chunk[c].status = "completed" => chunk[c].got = Length(c)
  /\ plan.known /\ chunk[c].status = "downloading" => chunk[c].at \in {"body", "count"} \/ cancelled
  /\ phase = "flushing" /\ chunk[c].status = "downloading" => cancelled

Control == Phases /\ \A c \in Chunk : Placed(c)

\* The file holds nothing behind its end, and nothing newer than the server has.
DiskInv ==
  /\ phase = "running" => disk.size = plan.size
  /\ phase = "streaming" => disk.size = next
  /\ \A b \in Byte : disk.byte[b] # "hole" => b < disk.size
  /\ served = "old" => /\ \A b \in Byte : disk.byte[b] \in {"old", "hole"}
                       /\ \A c \in Chunk : chunk[c].body = "old"

\* A file of unknown size is written from its first byte on.
StreamInv ==
  ~plan.known =>
    /\ phase = "streaming" => \A b \in Byte : b < next => disk.byte[b] = chunk[0].body
    /\ phase = "flushing" =>
         \/ chunk[0].got = claim[0]
         \/ \A b \in Got(0, chunk[0].got) : disk.byte[b] # "hole"
    /\ result = "complete" \/ (phase = "flushing" /\ chunk[0].status = "completed") =>
         \A b \in Byte : disk.byte[b] = chunk[0].body

\* The first n bytes of a chunk may be counted once the file is cut to its length
\* (Usable), or as they are (Sound).
Usable(c, n) ==
  /\ \A b \in Got(c, n) : b < disk.size => disk.byte[b] # "hole"
  /\ plan.validated => \A a, b \in Got(c, n) :
       disk.byte[a] # "hole" /\ disk.byte[b] # "hole" => disk.byte[a] = disk.byte[b]
Sound(c, n) == Usable(c, n) /\ \A b \in Got(c, n) : disk.byte[b] # "hole"

\* What each record of progress is worth: a tick, what is in memory, the rows.
ProgressInv ==
  /\ \A t \in ticks : Sound(t.chunk, t.got)
  /\ phase = "opened" => \A c \in Chunk : Usable(c, chunk[c].got)
  /\ phase \in {"reconciled", "running", "flushing"} => \A c \in Chunk : Sound(c, chunk[c].got)
  /\ phase \in {"stopped", "opened", "reconciled"} => \A c \in Chunk : Usable(c, claim[c])
  /\ phase = "flushing" => \A c \in Chunk : c < next => Sound(c, claim[c])
  /\ "remove" \notin plan.fault =>
       \A c \in Chunk : Sound(c, claim[c]) /\ (phase = "opened" => Sound(c, chunk[c].got))

\* None is ahead of the one it was taken from, and a chunk has one tick at most.
OrderInv ==
  /\ \A t, u \in ticks : t.chunk = u.chunk => t = u
  /\ \A t \in ticks :
       /\ phase # "stopped" => t.got <= chunk[t.chunk].got
       /\ phase \in {"stopped", "opened", "reconciled"} => t.got <= claim[t.chunk]
       /\ phase = "flushing" /\ t.chunk < next => t.got <= claim[t.chunk]
  /\ phase = "opened" \/ ("remove" \notin plan.fault /\ phase # "stopped") =>
       \A c \in Chunk : claim[c] <= chunk[c].got

\* A request goes on with the representation the chunk already has.
VersionInv ==
  \A c \in Chunk :
    /\ chunk[c].at \in {"body", "count"} /\ plan.validated =>
         \A b \in Got(c, chunk[c].got) : disk.byte[b] = chunk[c].body
    /\ chunk[c].at = "count" => disk.byte[Start(c) + chunk[c].got] = chunk[c].body

\* What Start has reported as complete is.
CompleteInv ==
  result = "complete" =>
    \A c \in Chunk : /\ chunk[c].got = Length(c)
                     /\ \A b \in Got(c, chunk[c].got) : disk.byte[b] # "hole"

KnownInv == plan.known => ProgressInv /\ OrderInv /\ VersionInv

-----------------------------------------------------------------------------
(* The shape of the state.                                                 *)

\* The plan stays, and with it the chunks.
LEMMA PlanStays == Next => plan' = plan
BY DEF Next, Open, StartStep, OpenFails, Reconcile, Truncate, Spawn, Wait, Flush, Return, StreamStep,
   StreamResponds, StreamWrites, StreamEnds, StreamFails, ChunkStep, GiveUp, Completed, Respond, Write,
   CountWritten, Fail, Emit, Retry, ChunkOnly, Tick, RecordTick, Cancel, Crash, Change, Remove

\* What is made of the plan alone stays with it.
LEMMA ChunksStay ==
  ASSUME plan' = plan
  PROVE  /\ Count' = Count /\ Chunk' = Chunk /\ Byte' = Byte
         /\ \A c : Length(c)' = Length(c) /\ Start(c)' = Start(c)
         /\ \A c, n : Got(c, n)' = Got(c, n)
         /\ Disks' = Disks /\ Claims' = Claims /\ Cells' = Cells /\ Snapshots' = Snapshots
<1>1. Count' = Count
  BY DEF Count
<1>2. Chunk' = Chunk /\ Byte' = Byte
  BY <1>1 DEF Chunk, Byte
<1>3. \A c : Start(c)' = Start(c)
  BY <1>1 DEF Start
<1>4. \A c : Length(c)' = Length(c)
  BY <1>1, <1>3 DEF Length, End
<1>5. \A c, n : Got(c, n)' = Got(c, n)
  BY <1>2, <1>3 DEF Got
<1>6. Disks' = Disks /\ Claims' = Claims /\ Cells' = Cells /\ Snapshots' = Snapshots
  BY <1>2, <1>4 DEF Disks, Claims, Cells, Snapshots
<1>7. QED
  BY <1>1, <1>2, <1>3, <1>4, <1>5, <1>6

\* The shape is TypeOK and more.
LEMMA ShapeIsType == Shape => TypeOK
<1> SUFFICES ASSUME Shape PROVE TypeOK
  OBVIOUS
<1>1. \A c \in Chunk : Length(c) \in Nat /\ plan.retries \in Nat
  BY EndIs, PlansAssumption DEF Shape
<1>2. /\ disk.size \in 0..plan.size /\ disk.byte \in [Byte -> Versions \cup {"hole"}]
      /\ \A c \in Chunk : claim[c] \in 0..Length(c)
      /\ \A t \in ticks : t.chunk \in Chunk /\ t.got \in 0..Length(t.chunk)
  BY <1>1 DEF Shape, Disks, Claims, Snapshots
<1>3. \A c \in Chunk :
        /\ chunk[c].at \in Places /\ chunk[c].status \in Statuses
        /\ chunk[c].got \in 0..Length(c) /\ chunk[c].attempt \in 0..plan.retries
  BY <1>1 DEF Shape, Cells, Cell
<1>4. QED
  BY <1>2, <1>3 DEF Shape, TypeOK

\* What the rows say makes a goroutine that has not begun.
LEMMA FreshCells ==
  ASSUME Shape
  PROVE  [c \in Chunk |-> Fresh(c)] \in Cells
<1>1. plan.retries \in Nat /\ claim \in Claims
  BY PlansAssumption DEF Shape
<1>2. \A c \in Chunk : /\ Fresh(c) \in Cell /\ Fresh(c).got = claim[c] /\ Fresh(c).attempt = 0
  BY <1>1 DEF Fresh, Cell, Places, Versions, Statuses, Claims
<1>3. QED
  BY <1>1, <1>2 DEF Cells, Claims

\* A step of one goroutine.
LEMMA CellMoves ==
  ASSUME Shape, NEW c \in Chunk, NEW cell \in Cell, cell.got <= Length(c), cell.attempt <= plan.retries
  PROVE  [chunk EXCEPT ![c] = cell] \in Cells
BY DEF Shape, Cells

\* The facts the steps below need of a state that has its shape.
LEMMA Facts ==
  ASSUME Shape
  PROVE  /\ plan.size \in Nat /\ Count \in 1..plan.size /\ plan.retries \in Nat /\ next \in Nat
         /\ disk.size \in 0..plan.size /\ disk = [size |-> disk.size, byte |-> disk.byte]
         /\ \A b \in Byte : b \in Nat /\ b < plan.size /\ disk.byte[b] \in Versions \cup {"hole"}
         /\ \A b \in Nat : b < plan.size => b \in Byte
         /\ \A c \in Chunk : /\ c \in Nat /\ c < Count /\ claim[c] \in Nat /\ claim[c] <= Length(c)
                             /\ Length(c) \in 1..plan.size /\ Start(c) \in Nat
                             /\ Start(c) + Length(c) <= plan.size
                             /\ chunk[c] \in Cell /\ chunk[c].got \in Nat
                             /\ chunk[c].attempt \in Nat /\ chunk[c].got <= Length(c)
         /\ \A c \in Nat : c < Count => c \in Chunk
         /\ \A t \in ticks : t.chunk \in Chunk /\ t.got \in Nat /\ t.got <= Length(t.chunk)
         /\ ~plan.known => Count = 1 /\ Chunk = {0} /\ Start(0) = 0 /\ Length(0) = plan.size
<1>1. /\ plan \in Plans /\ plan.size \in Nat /\ Count \in 1..plan.size /\ plan.retries \in Nat
      /\ ~plan.known => Count = 1
  BY CountOK, PlansAssumption DEF Shape
<1>2. next \in Nat
  BY <1>1 DEF Shape
<1>3. /\ disk.size \in 0..plan.size /\ disk = [size |-> disk.size, byte |-> disk.byte]
      /\ \A b \in Byte : disk.byte[b] \in Versions \cup {"hole"}
  BY DEF Shape, Disks
<1>4. /\ \A b \in Byte : b \in Nat /\ b < plan.size
      /\ \A b \in Nat : b < plan.size => b \in Byte
      /\ \A c \in Nat : c < Count => c \in Chunk
      /\ \A c \in Chunk : c \in Nat /\ c < Count
  BY <1>1 DEF Byte, Chunk
<1>5. ASSUME NEW c \in Chunk
      PROVE  /\ claim[c] \in Nat /\ claim[c] <= Length(c)
             /\ Length(c) \in 1..plan.size /\ Start(c) \in Nat
             /\ Start(c) + Length(c) <= plan.size
             /\ chunk[c] \in Cell /\ chunk[c].got \in Nat
             /\ chunk[c].attempt \in Nat /\ chunk[c].got <= Length(c)
  <2>1. claim[c] \in Nat /\ claim[c] <= Length(c)
    BY DEF Shape, Claims
  <2>2. chunk[c] \in Cell /\ chunk[c].got <= Length(c)
    BY DEF Shape, Cells
  <2>3. /\ Length(c) = Start(c + 1) - Start(c) /\ Start(c) \in Nat /\ Start(c + 1) \in Nat
        /\ Start(c + 1) <= plan.size /\ Length(c) \in 1..plan.size
    BY <1>1, EndIs
  <2>4. QED
    BY <1>1, <2>1, <2>2, <2>3 DEF Cell
<1>6. \A t \in ticks : t.chunk \in Chunk /\ t.got \in Nat /\ t.got <= Length(t.chunk)
  BY DEF Shape, Snapshots
<1>7. ASSUME ~plan.known PROVE Count = 1 /\ Chunk = {0} /\ Start(0) = 0 /\ Length(0) = plan.size
  <2>1. Count = 1 /\ Chunk = {0} /\ Count = 0 + 1
    BY <1>1, <1>7 DEF Chunk
  <2>2. Length(0) = Start(0 + 1) - Start(0) /\ Start(0) = 0 /\ Start(0 + 1) = plan.size
    BY <1>1, <2>1, EndIs, StartSteps
  <2>3. QED
    BY <1>1, <2>1, <2>2
<1>8. QED
  BY <1>1, <1>2, <1>3, <1>4, <1>5, <1>6, <1>7

\* Every step keeps the shape.
LEMMA ShapePreserved == Shape /\ Control /\ Next => Shape'
<1> SUFFICES ASSUME Shape, Control, Next PROVE Shape'
  OBVIOUS
<1>1. plan' = plan
  BY PlanStays
<1> DEFINE Controls == /\ phase' \in {"stopped", "opened", "reconciled", "running", "streaming", "flushing"}
                       /\ cancelled' \in BOOLEAN
                       /\ next' \in 0..(IF plan.known THEN Count ELSE plan.size)
                       /\ result' \in {"none", "cancelled", "failed", "complete"}
           Kept == UNCHANGED runVars \/ Controls
<1>2. SUFFICES /\ served' \in Versions /\ disk' \in Disks /\ claim' \in Claims
               /\ chunk' \in Cells /\ ticks' \subseteq Snapshots /\ Kept
  <2>1. UNCHANGED runVars => Controls
    BY DEF runVars, Shape
  <2>2. QED
    BY <1>1, <1>2, <2>1, ChunksStay DEF Shape
<1>3. /\ plan.size \in Nat /\ Count \in 1..plan.size /\ plan.retries \in Nat
      /\ ~plan.known => Count = 1
      /\ \A c \in Chunk : c \in 0..Count - 1 /\ Length(c) \in 1..plan.size
  BY CountOK, EndIs, PlansAssumption DEF Shape, Chunk
<1> DEFINE Goal == /\ served' \in Versions /\ disk' \in Disks /\ claim' \in Claims
                   /\ chunk' \in Cells /\ ticks' \subseteq Snapshots /\ Kept
<1>4. CASE Open \/ OpenFails \/ Reconcile \/ Truncate \/ Spawn \/ Wait \/ Flush \/ Return
  <2>1. served' \in Versions /\ ticks' \subseteq Snapshots
    BY <1>4 DEF Open, OpenFails, Reconcile, Truncate, Spawn, Wait, Flush, Return, Shape
  <2>2. disk' \in Disks
    <3>1. CASE Truncate
      BY <1>3, <3>1 DEF Truncate, Shape, Disks
    <3>2. QED
      BY <1>4, <3>1 DEF Open, OpenFails, Reconcile, Spawn, Wait, Flush, Return, Shape
  <2>3. claim' \in Claims
    <3>1. CASE Flush
      BY <1>3, <3>1 DEF Flush, Shape, Claims, Cells, Cell, Chunk
    <3>2. QED
      BY <1>4, <3>1 DEF Open, OpenFails, Reconcile, Truncate, Spawn, Wait, Return, Shape
  <2>4. chunk' \in Cells
    <3>1. CASE Open
      BY <3>1, FreshCells DEF Open
    <3>2. CASE Reconcile
      <4>1. disk.size \in Nat /\ \A c \in Chunk : Start(c) \in Nat
        BY <1>3, EndIs DEF Shape, Disks
      <4>2. ASSUME NEW c \in Chunk
            PROVE  chunk'[c] \in Cell /\ chunk'[c].got <= chunk[c].got /\ chunk'[c].attempt = chunk[c].attempt
        <5> DEFINE available == IF disk.size < Start(c) THEN 0 ELSE disk.size - Start(c)
        <5>1. available \in Nat
          BY <4>1
        <5>2. chunk'[c] = IF chunk[c].got <= available THEN chunk[c]
                          ELSE [chunk[c] EXCEPT !.got = available, !.status = "pending"]
          BY <3>2 DEF Reconcile
        <5> HIDE DEF available
        <5>3. chunk[c] \in Cell
          BY DEF Shape, Cells
        <5>4. CASE chunk[c].got <= available
          BY <5>2, <5>3, <5>4 DEF Cell
        <5>5. CASE ~(chunk[c].got <= available)
          <6>1. \A r \in Cell :
                  /\ [r EXCEPT !.got = available, !.status = "pending"] \in Cell
                  /\ [r EXCEPT !.got = available, !.status = "pending"].got = available
                  /\ [r EXCEPT !.got = available, !.status = "pending"].attempt = r.attempt
            BY <5>1 DEF Cell, Statuses
          <6>2. chunk[c].got \in Nat
            BY <5>3 DEF Cell
          <6>3. chunk'[c] = [chunk[c] EXCEPT !.got = available, !.status = "pending"]
            BY <5>2, <5>5
          <6>4. /\ chunk'[c] \in Cell /\ chunk'[c].got = available
                /\ chunk'[c].attempt = chunk[c].attempt
            BY <5>3, <6>1, <6>3
          <6>5. QED
            BY <5>1, <5>5, <6>2, <6>4
        <5>6. QED
          BY <5>4, <5>5
      <4>3. \A c \in Chunk : chunk[c] \in Cell /\ chunk[c].got <= Length(c) /\ chunk[c].attempt <= plan.retries
        BY DEF Shape, Cells
      <4>4. \A c \in Chunk : chunk'[c].got <= Length(c) /\ chunk'[c].attempt <= plan.retries
        BY <1>3, <4>2, <4>3 DEF Cell
      <4>5. chunk' = [c \in Chunk |-> chunk'[c]]
        BY <3>2 DEF Reconcile
      <4>6. QED
        BY <4>2, <4>4, <4>5 DEF Cells
    <3>3. CASE Spawn
      <4>1. next \in Chunk
        BY <3>3, Facts DEF Spawn
      <4>2. chunk' = [chunk EXCEPT ![next].at = "try"]
        BY <3>3 DEF Spawn
      <4>3. QED
        BY <4>1, <4>2 DEF Shape, Cells, Cell, Places
    <3>4. QED
      BY <1>4, <3>1, <3>2, <3>3 DEF OpenFails, Truncate, Wait, Flush, Return, Shape
  <2>5. Kept
    <3>1. CASE Open \/ Wait
      <4>1. next' \in 0..(IF plan.known THEN Count ELSE plan.size)
        BY <1>3, <3>1 DEF Open, Wait
      <4>2. /\ phase' \in {"opened", "flushing"} /\ cancelled' \in BOOLEAN
            /\ result' \in {"none", "cancelled", "failed", "complete"}
        BY <3>1 DEF Open, Wait, Shape
      <4>3. QED
        BY <4>1, <4>2
    <3>2. CASE OpenFails \/ Reconcile \/ Truncate \/ Return
      BY <1>3, <3>2 DEF OpenFails, Reconcile, Truncate, Return, Shape
    <3>3. CASE Spawn \/ Flush
      BY <1>3, <3>3 DEF Spawn, Flush, Shape
    <3>4. QED
      BY <1>4, <3>1, <3>2, <3>3
  <2>6. QED
    BY <2>1, <2>2, <2>3, <2>4, <2>5
<1>5. CASE StreamStep
  <2>1. served' \in Versions /\ ticks' \subseteq Snapshots /\ Kept
    BY <1>3, <1>5 DEF StreamStep, StreamResponds, StreamWrites, StreamEnds, StreamFails, Shape, Control, Phases
  <2>2. disk' \in Disks
    <3>1. CASE StreamWrites
      <4>1. 0 \in Chunk /\ next + 1 \in 0..plan.size
        BY <1>3, <3>1 DEF StreamWrites, Shape, Chunk
      <4>2. chunk[0].body \in Versions
        BY <4>1 DEF Shape, Cells, Cell
      <4>3. [disk.byte EXCEPT ![next] = chunk[0].body] \in [Byte -> Versions \cup {"hole"}]
        BY <4>2 DEF Shape, Disks
      <4>4. QED
        BY <3>1, <4>1, <4>3 DEF StreamWrites, Disks
    <3>2. QED
      BY <1>3, <1>5, <3>1 DEF StreamStep, StreamResponds, StreamEnds, StreamFails, Shape, Disks
  <2>3. ~plan.known /\ 0 \in Chunk /\ Length(0) = plan.size
    <3>1. ~plan.known
      BY <1>5 DEF StreamStep, StreamResponds, StreamWrites, StreamEnds, StreamFails, Control, Phases
    <3>2. 0 \in Chunk /\ Count = 0 + 1
      BY <1>3, <3>1 DEF Chunk
    <3>3. QED
      BY <3>1, <3>2, <1>3, StartSteps, EndIs DEF Shape
  <2>4. claim' \in Claims
    <3>1. CASE StreamEnds
      BY <1>3, <2>3, <3>1 DEF StreamEnds, Shape, Claims
    <3>2. QED
      BY <1>5, <3>1 DEF StreamStep, StreamResponds, StreamWrites, StreamFails, Shape
  <2>5. chunk' \in Cells
    <3>1. CASE StreamResponds
      BY <2>3, <3>1 DEF StreamResponds, Shape, Cells, Cell
    <3>2. CASE StreamWrites
      BY <1>3, <2>3, <3>2 DEF StreamWrites, Shape, Cells, Cell, Statuses
    <3>3. CASE StreamEnds
      BY <2>3, <3>3 DEF StreamEnds, Shape, Cells, Cell, Statuses
    <3>4. CASE StreamFails
      BY <2>3, <3>4 DEF StreamFails, Shape, Cells, Cell, Statuses
    <3>5. QED
      BY <1>5, <3>1, <3>2, <3>3, <3>4 DEF StreamStep
  <2>6. QED
    BY <2>1, <2>2, <2>4, <2>5
<1>6. ASSUME NEW c \in Chunk, ChunkStep(c) PROVE Goal
  <2>1. served' \in Versions /\ ticks' \subseteq Snapshots /\ Kept
    BY <1>6 DEF ChunkStep, GiveUp, Completed, Respond, Write, CountWritten, Fail, Emit, Retry, ChunkOnly, Shape
  <2>2. disk' \in Disks
    <3>1. CASE Write(c)
      BY <3>1 DEF Write, Shape, Disks, Cells, Cell
    <3>2. QED
      BY <1>6, <3>1 DEF ChunkStep, GiveUp, Completed, Respond, CountWritten, Fail, Emit, Retry, ChunkOnly, Shape
  <2>3. claim' \in Claims
    <3>1. CASE Emit(c)
      BY <3>1 DEF Emit, Shape, Claims, Cells, Cell
    <3>2. QED
      BY <1>6, <3>1 DEF ChunkStep, GiveUp, Completed, Respond, CountWritten, Fail, Write, Retry, ChunkOnly, Shape
  <2>4. chunk' \in Cells
    <3>1. CASE GiveUp(c) \/ Write(c) \/ Emit(c)
      BY <3>1 DEF GiveUp, Write, Emit, Moves, Shape, Cells, Cell, Places
    <3>2. CASE Completed(c)
      BY <3>2 DEF Completed, Shape, Cells, Cell, Places, Statuses
    <3>3. CASE Respond(c)
      BY <3>3 DEF Respond, Shape, Cells, Cell, Places
    <3>4. CASE CountWritten(c)
      BY <1>3, <3>4 DEF CountWritten, Shape, Cells, Cell, Places, Statuses, Control, Placed
    <3>5. CASE Fail(c)
      BY <3>5 DEF Fail, Moves, Shape, Cells, Cell, Places, Statuses
    <3>6. CASE Retry(c)
      BY <1>3, <3>6 DEF Retry, Shape, Cells, Cell, Places, Control, Placed
    <3>7. QED
      BY <1>6, <3>1, <3>2, <3>3, <3>4, <3>5, <3>6 DEF ChunkStep
  <2>5. QED
    BY <2>1, <2>2, <2>3, <2>4
<1>7. CASE Tick
  BY <1>7 DEF Tick, Shape, Snapshots, Cells, Cell
<1>8. ASSUME NEW t \in ticks, RecordTick(t) PROVE Goal
  BY <1>8 DEF RecordTick, Shape, Snapshots, Claims
<1>9. CASE Cancel \/ Change
  BY <1>9 DEF Cancel, Change, Shape, Versions
<1>10. CASE Crash
  <2>1. chunk' \in Cells
    BY <1>10, FreshCells DEF Crash
  <2>2. next' \in 0..(IF plan.known THEN Count ELSE plan.size)
    BY <1>3, <1>10 DEF Crash
  <2>3. Controls
    BY <1>10, <2>2 DEF Crash
  <2>4. QED
    BY <1>10, <2>1, <2>3 DEF Crash, Shape
<1>11. ASSUME NEW size \in 0..plan.size, Remove(size) PROVE Goal
  BY <1>11 DEF Remove, Shape, Disks
<1>12. QED
  BY <1>4, <1>5, <1>6, <1>7, <1>8, <1>9, <1>10, <1>11 DEF Next, StartStep

-----------------------------------------------------------------------------
(* The phases and the places.                                              *)

\* Every step keeps the order of the phases.
LEMMA PhasesPreserved == Shape /\ Control /\ Next => Phases'
<1> SUFFICES ASSUME Shape, Control, Next PROVE Phases'
  OBVIOUS
<1>0. plan' = plan /\ Count' = Count /\ Phases /\ Count \in Nat /\ next \in Nat /\ 0 <= Count
  BY PlanStays, ChunksStay, Facts DEF Control
<1>1. CASE Open \/ OpenFails \/ Reconcile \/ Truncate
  BY <1>0, <1>1 DEF Phases, Open, OpenFails, Reconcile, Truncate
<1>2. CASE Spawn \/ Wait \/ Flush \/ Return
  BY <1>0, <1>2 DEF Phases, Spawn, Wait, Flush, Return
<1>3. CASE StreamStep
  BY <1>0, <1>3 DEF Phases, StreamStep, StreamResponds, StreamWrites, StreamEnds, StreamFails
<1>4. ASSUME NEW c \in Chunk, ChunkStep(c) PROVE Phases'
  BY <1>0, <1>4 DEF Phases, ChunkStep, GiveUp, Completed, Respond, Write, CountWritten, Fail, Emit, Retry,
     ChunkOnly, runVars
<1>5. CASE Tick
  <2>1. ASSUME ~plan.known PROVE ticks' = {}
    <3>1. phase = "flushing" /\ ~cancelled
      BY <1>0, <1>5, <2>1 DEF Tick, Phases
    <3>2. \A c \in Chunk : chunk[c].status # "downloading"
      BY <3>1 DEF Control, Placed
    <3>3. QED
      BY <1>5, <3>2 DEF Tick
  <2>2. QED
    BY <1>0, <1>5, <2>1 DEF Phases, Tick, runVars
<1>6. ASSUME NEW t \in ticks, RecordTick(t) PROVE Phases'
  BY <1>0, <1>6 DEF Phases, RecordTick, runVars
<1>7. CASE Cancel \/ Crash \/ Change
  BY <1>0, <1>7 DEF Phases, Cancel, Crash, Change, runVars
<1>8. ASSUME NEW size \in 0..plan.size, Remove(size) PROVE Phases'
  BY <1>0, <1>8 DEF Phases, Remove, runVars
<1>9. QED
  BY <1>1, <1>2, <1>3, <1>4, <1>5, <1>6, <1>7, <1>8 DEF Next, StartStep

\* Every step keeps what a goroutine's place and status say of its progress.
LEMMA PlacedPreserved ==
  ASSUME Shape, Control, Next, NEW c \in Chunk
  PROVE  Placed(c)'
<1>0. /\ plan' = plan /\ Length(c)' = Length(c) /\ Phases /\ Placed(c) /\ next \in Nat /\ c \in Nat
      /\ Length(c) \in 1..plan.size /\ claim[c] \in Nat /\ claim[c] <= Length(c)
      /\ chunk[c] \in Cell /\ chunk[c].got <= Length(c) /\ plan.size \in Nat /\ plan.retries \in Nat
  BY PlanStays, ChunksStay, Facts DEF Control
<1>1. Fresh(c).at = "none" /\ Fresh(c).got = claim[c] /\ Fresh(c).status \in {"pending", "completed"}
      /\ (Fresh(c).status = "completed" => claim[c] = Length(c))
  BY <1>0 DEF Fresh
<1>3. CASE Open \/ Crash
  <2>1. chunk'[c] = Fresh(c) /\ phase' \in {"stopped", "opened"} /\ claim' = claim
    BY <1>3 DEF Open, Crash
  <2>2. QED
    BY <1>0, <1>1, <2>1 DEF Placed
<1>4. CASE OpenFails \/ Return
  BY <1>0, <1>4 DEF Placed, OpenFails, Return
<1>5. CASE Reconcile
  BY <1>0, <1>5, EndIs DEF Placed, Reconcile, Cell
<1>6. CASE Truncate \/ Wait \/ Flush
  BY <1>0, <1>6 DEF Placed, Truncate, Wait, Flush, Phases
<1>7. CASE Spawn
  BY <1>0, <1>7 DEF Placed, Spawn, Shape, Cells, Cell
<1>8. CASE StreamStep
  <2>1. CASE StreamResponds
    BY <1>0, <2>1 DEF Placed, Phases, StreamResponds, Shape, Cells, Cell
  <2>2. CASE StreamWrites
    <3>1. c = 0 /\ chunk \in [Chunk -> Cell] /\ ~plan.known /\ Length(0) = plan.size
      BY <1>0, <2>2, Facts DEF StreamWrites, Shape, Cells, Phases
    <3>2. /\ chunk'[c].at = chunk[c].at /\ chunk'[c].got = next + 1 /\ chunk'[c].status = "downloading"
          /\ next' = next + 1 /\ phase' = "streaming" /\ phase = "streaming"
      BY <2>2, <3>1 DEF StreamWrites, Cell
    <3>3. QED
      BY <1>0, <3>1, <3>2 DEF Placed
  <2>3. CASE StreamEnds
    BY <1>0, <2>3, Facts DEF Placed, StreamEnds, Shape, Cells, Cell
  <2>4. CASE StreamFails
    BY <1>0, <2>4, Facts DEF Placed, StreamFails, Shape, Cells, Cell
  <2>5. QED
    BY <1>8, <2>1, <2>2, <2>3, <2>4 DEF StreamStep
<1>9. ASSUME NEW d \in Chunk, ChunkStep(d) PROVE Placed(c)'
  <2>1. UNCHANGED <<plan, phase, cancelled, next>> /\ (claim' = claim \/ Emit(d))
    BY <1>9 DEF ChunkStep, GiveUp, Completed, Respond, Write, CountWritten, Fail, Emit, Retry, ChunkOnly, runVars
  <2>2. CASE c # d
    <3>1. chunk'[c] = chunk[c]
      BY <1>9, <2>2 DEF ChunkStep, GiveUp, Completed, Respond, Write, CountWritten, Fail, Emit, Retry, Moves,
         Shape, Cells
    <3>2. claim'[c] = claim[c]
      BY <2>1, <2>2 DEF Emit, Shape, Claims
    <3>3. QED
      BY <1>0, <2>1, <3>1, <3>2 DEF Placed
  <2>3. CASE c = d
    <3>1. chunk \in [Chunk -> Cell] /\ (phase # "running" => chunk[c].at \in {"none", "gone"})
      BY <1>0 DEF Shape, Cells, Placed
    <3>2. CASE GiveUp(c)
      BY <1>0, <2>1, <3>1, <3>2 DEF Placed, GiveUp, Moves, Cell
    <3>3. CASE Completed(c)
      BY <1>0, <2>1, <3>1, <3>3 DEF Placed, Completed, Cell
    <3>4. CASE Respond(c)
      BY <1>0, <2>1, <3>1, <3>4 DEF Placed, Respond, Cell
    <3>5. CASE Write(c)
      BY <1>0, <2>1, <3>1, <3>5 DEF Placed, Write, Moves, Cell
    <3>6. CASE CountWritten(c)
      BY <1>0, <2>1, <3>1, <3>6 DEF Placed, CountWritten, Cell
    <3>7. CASE Fail(c)
      BY <1>0, <2>1, <3>1, <3>7 DEF Placed, Fail, MayFail, Moves, Cell
    <3>8. CASE Emit(c)
      BY <1>0, <2>1, <3>1, <3>8 DEF Placed, Emit, Moves, Cell
    <3>9. CASE Retry(c)
      BY <1>0, <2>1, <3>1, <3>9 DEF Placed, Retry, Cell
    <3>10. QED
      BY <1>9, <2>3, <3>2, <3>3, <3>4, <3>5, <3>6, <3>7, <3>8, <3>9 DEF ChunkStep
  <2>4. QED
    BY <2>2, <2>3
<1>10. CASE Tick \/ Cancel \/ Change
  BY <1>0, <1>10 DEF Placed, Tick, Cancel, Change, runVars
<1>11. ASSUME NEW t \in ticks, RecordTick(t) PROVE Placed(c)'
  BY <1>0, <1>11 DEF Placed, Phases, RecordTick, runVars
<1>12. ASSUME NEW size \in 0..plan.size, Remove(size) PROVE Placed(c)'
  BY <1>0, <1>12 DEF Placed, Remove, runVars
<1>13. QED
  BY <1>3, <1>4, <1>5, <1>6, <1>7, <1>8, <1>9, <1>10, <1>11, <1>12 DEF Next, StartStep

\* The control is kept.
LEMMA ControlPreserved == Shape /\ Control /\ Next => Control'
<1> SUFFICES ASSUME Shape, Control, Next PROVE Control'
  OBVIOUS
<1>1. Chunk' = Chunk
  BY PlanStays, ChunksStay
<1>2. QED
  BY <1>1, PhasesPreserved, PlacedPreserved DEF Control

-----------------------------------------------------------------------------
(* The part file.                                                          *)

\* A goroutine writes one byte, at a place that is in no other chunk.
LEMMA Written ==
  ASSUME Shape, Control, NEW c \in Chunk, Write(c)
  PROVE  /\ phase = "running" /\ plan.known /\ Start(c) + chunk[c].got \in Byte
         /\ disk'.size = disk.size
         /\ \A b \in Byte : disk'.byte[b] = IF b = Start(c) + chunk[c].got THEN chunk[c].body
                                            ELSE disk.byte[b]
         /\ \A d \in Chunk : d # c => Start(c) + chunk[c].got \notin Got(d, Length(d))
<1>1. phase = "running" /\ plan.known
  BY DEF Write, Control, Phases, Placed
<1>2. /\ Start(c) \in Nat /\ chunk[c].got \in Nat /\ chunk[c].got < Length(c)
      /\ Start(c) + Length(c) <= plan.size /\ Length(c) \in Nat /\ plan.size \in Nat
  BY Facts DEF Write
<1>3. Start(c) + chunk[c].got \in Byte
  BY <1>2 DEF Byte
<1>4. /\ disk'.size = disk.size
      /\ \A b \in Byte : disk'.byte[b] = IF b = Start(c) + chunk[c].got THEN chunk[c].body
                                         ELSE disk.byte[b]
  BY <1>3 DEF Write, Shape, Disks
<1>5. ASSUME NEW d \in Chunk, d # c PROVE Start(c) + chunk[c].got \notin Got(d, Length(d))
  <2>1. End(c) = Start(c) + Length(c) - 1 /\ End(d) = Start(d) + Length(d) - 1
        /\ Start(d) \in Nat /\ Length(d) \in Nat
    BY EndIs DEF Shape, Length
  <2>2. Start(c) <= Start(c) + chunk[c].got /\ Start(c) + chunk[c].got <= End(c)
        /\ Start(c) + chunk[c].got \in Int
    BY <1>2, <2>1
  <2>3. ~(Start(d) <= Start(c) + chunk[c].got /\ Start(c) + chunk[c].got <= End(d))
    BY <1>5, <2>2, ChunksAreDisjoint DEF Shape
  <2>4. QED
    BY <1>2, <2>1, <2>3 DEF Got
<1>6. QED
  BY <1>1, <1>3, <1>4, <1>5

\* Who touches the bytes.
LEMMA BytesStay ==
  ASSUME Shape, Next
  PROVE  \/ disk'.byte = disk.byte
         \/ \E c \in Chunk : Write(c)
         \/ StreamResponds \/ StreamWrites
         \/ \E size \in 0..plan.size : Remove(size)
<1>1. CASE Truncate
  BY <1>1 DEF Truncate, Shape, Disks
<1>2. QED
  BY <1>1 DEF Next, StartStep, StreamStep, ChunkStep, Open, OpenFails, Reconcile, Spawn, Wait, Flush, Return,
     StreamEnds, StreamFails, GiveUp, Completed, Respond, CountWritten, Fail, Emit, Retry, ChunkOnly,
     Tick, RecordTick, Cancel, Crash, Change

\* What a goroutine fetches is what the server had when it answered.
LEMMA BodiesOld ==
  ASSUME Shape, Next, served = "old", \A c \in Chunk : chunk[c].body = "old"
  PROVE  \A c \in Chunk : chunk'[c].body = "old"
<1>1. served = "old"
  OBVIOUS
<1>2. chunk \in [Chunk -> Cell] /\ \A c \in Chunk : Fresh(c).body = "old"
  BY DEF Shape, Cells, Fresh
<1>3. CASE Open \/ Crash
  BY <1>1, <1>2, <1>3 DEF Open, Crash
<1>4. CASE Reconcile
  BY <1>1, <1>2, <1>4 DEF Reconcile, Cell
<1>5. CASE Spawn
  BY <1>1, <1>2, <1>5 DEF Spawn, Cell
<1>6. CASE StreamStep
  <2>1. CASE StreamResponds
    BY <1>1, <1>2, <2>1 DEF StreamResponds, Cell
  <2>2. CASE StreamWrites
    BY <1>1, <1>2, <2>2 DEF StreamWrites, Cell
  <2>3. CASE StreamEnds \/ StreamFails
    BY <1>1, <1>2, <2>3 DEF StreamEnds, StreamFails, Cell
  <2>4. QED
    BY <1>6, <2>1, <2>2, <2>3 DEF StreamStep
<1>7. ASSUME NEW c \in Chunk, ChunkStep(c) PROVE \A d \in Chunk : chunk'[d].body = "old"
  <2>1. CASE GiveUp(c) \/ Write(c) \/ Emit(c)
    BY <1>2, <2>1 DEF GiveUp, Write, Emit, Moves, Cell
  <2>2. CASE Completed(c) \/ Respond(c)
    BY <1>1, <1>2, <2>2 DEF Completed, Respond, Cell
  <2>3. CASE CountWritten(c) \/ Retry(c)
    BY <1>2, <2>3 DEF CountWritten, Retry, Cell
  <2>4. CASE Fail(c)
    BY <1>2, <2>4 DEF Fail, Moves, Cell
  <2>5. QED
    BY <1>7, <2>1, <2>2, <2>3, <2>4 DEF ChunkStep
<1>8. QED
  BY <1>1, <1>3, <1>4, <1>5, <1>6, <1>7 DEF Next, StartStep, OpenFails, Truncate, Wait, Flush, Return, Tick,
     RecordTick, Cancel, Change, Remove

\* DiskInv is inductive.
LEMMA DiskPreserved == Shape /\ Control /\ DiskInv /\ Next => DiskInv'
<1> SUFFICES ASSUME Shape, Control, DiskInv, Next PROVE DiskInv'
  OBVIOUS
<1>0. plan' = plan /\ Byte' = Byte /\ Chunk' = Chunk
  BY PlanStays, ChunksStay
<1>1. /\ disk.size \in 0..plan.size /\ plan.size \in Nat /\ next \in Nat
      /\ \A b \in Byte : b \in Nat /\ b < plan.size
  BY Facts
<1>2. /\ phase' = "running" => disk'.size = plan.size
      /\ phase' = "streaming" => disk'.size = next'
  <2>1. CASE Truncate
    BY <2>1 DEF Truncate, Shape, Disks
  <2>2. CASE StreamStep
    BY <2>2 DEF StreamStep, StreamResponds, StreamWrites, StreamEnds, StreamFails, DiskInv, Control, Phases
  <2>3. ASSUME NEW c \in Chunk, ChunkStep(c) PROVE disk'.size = disk.size /\ UNCHANGED runVars
    BY <2>3, Written DEF ChunkStep, GiveUp, Completed, Respond, Write, CountWritten, Fail, Emit, Retry, ChunkOnly
  <2>4. CASE Open \/ OpenFails \/ Reconcile \/ Wait \/ Return \/ Crash
    BY <2>4 DEF Open, OpenFails, Reconcile, Wait, Return, Crash
  <2>5. CASE Spawn \/ Flush \/ Tick \/ Cancel \/ Change
    BY <2>5 DEF Spawn, Flush, Tick, Cancel, Change, DiskInv, runVars
  <2>6. ASSUME NEW t \in ticks, RecordTick(t) PROVE UNCHANGED <<disk, runVars>>
    BY <2>6 DEF RecordTick
  <2>7. ASSUME NEW size \in 0..plan.size, Remove(size) PROVE phase' = "stopped"
    BY <2>7 DEF Remove, runVars
  <2>8. QED
    BY <2>1, <2>2, <2>3, <2>4, <2>5, <2>6, <2>7 DEF Next, StartStep, DiskInv, runVars
<1>3. /\ \A b \in Byte : disk'.byte[b] # "hole" => b < disk'.size
      /\ served = "old" => \A b \in Byte : disk'.byte[b] \in {"old", "hole"}
  <2>1. ASSUME NEW c \in Chunk, Write(c)
        PROVE  /\ \A b \in Byte : disk'.byte[b] # "hole" => b < disk'.size
               /\ served = "old" => \A b \in Byte : disk'.byte[b] \in {"old", "hole"}
    BY <1>1, <2>1, Written DEF DiskInv
  <2>2. CASE StreamResponds
    BY <2>2 DEF StreamResponds
  <2>3. CASE StreamWrites
    <3>1. disk.size = next /\ 0 \in Chunk
      BY <2>3, Facts DEF StreamWrites, DiskInv, Control, Phases
    <3>2. /\ disk'.size = next + 1
          /\ \A b \in Byte : disk'.byte[b] = IF b = next THEN chunk[0].body ELSE disk.byte[b]
      BY <2>3 DEF StreamWrites, Shape, Disks
    <3>3. QED
      BY <1>1, <3>1, <3>2 DEF DiskInv
  <2>4. ASSUME NEW size \in 0..plan.size, Remove(size)
        PROVE  /\ \A b \in Byte : disk'.byte[b] # "hole" => b < disk'.size
               /\ served = "old" => \A b \in Byte : disk'.byte[b] \in {"old", "hole"}
    BY <2>4 DEF Remove, DiskInv
  <2>5. disk'.size >= disk.size \/ StreamResponds \/ \E size \in 0..plan.size : Remove(size)
    <3>1. CASE Truncate
      BY <1>1, <3>1 DEF Truncate, Shape, Disks
    <3>2. CASE StreamWrites
      BY <1>1, <3>2 DEF StreamWrites, DiskInv
    <3>3. ASSUME NEW c \in Chunk, Write(c) PROVE disk'.size >= disk.size
      BY <1>1, <3>3, Written
    <3>4. disk' = disk => disk'.size >= disk.size
      BY <1>1
    <3>5. QED
      BY <3>1, <3>2, <3>3, <3>4 DEF Next, StartStep, StreamStep, ChunkStep, Open, OpenFails, Reconcile, Spawn,
         Wait, Flush, Return, StreamEnds, StreamFails, GiveUp, Completed, Respond, CountWritten, Fail, Emit,
         Retry, ChunkOnly, Tick, RecordTick, Cancel, Crash, Change
  <2>6. CASE disk'.byte = disk.byte /\ disk'.size >= disk.size
    <3>1. disk'.size \in Nat
      BY <1>0, ShapePreserved DEF Shape, Disks
    <3>2. QED
      BY <1>1, <2>6, <3>1 DEF DiskInv
  <2>7. QED
    BY <2>1, <2>2, <2>3, <2>4, <2>5, <2>6, BytesStay
<1>4. ASSUME served' = "old" PROVE served = "old" /\ \A c \in Chunk : chunk'[c].body = "old"
  <2>1. served = "old"
    BY <1>4 DEF Next, StartStep, StreamStep, ChunkStep, Open, OpenFails, Reconcile, Truncate, Spawn, Wait,
       Flush, Return, StreamResponds, StreamWrites, StreamEnds, StreamFails, GiveUp, Completed, Respond, Write,
       CountWritten, Fail, Emit, Retry, ChunkOnly, Tick, RecordTick, Cancel, Crash, Remove, Change
  <2>2. QED
    BY <1>4, <2>1, BodiesOld DEF DiskInv
<1>5. QED
  BY <1>0, <1>2, <1>3, <1>4 DEF DiskInv

\* What may happen while Start does not run.
LEMMA WhileStopped ==
  ASSUME Shape, Control, Next, phase = "stopped"
  PROVE  \/ Open \/ Change
         \/ \E t \in ticks : RecordTick(t)
         \/ \E size \in 0..plan.size : Remove(size)
<1>1. ASSUME NEW c \in Chunk PROVE ~ChunkStep(c)
  BY DEF Control, Placed, ChunkStep, GiveUp, Completed, Respond, Write, CountWritten, Fail, MayFail, Emit, Retry
<1>2. QED
  BY <1>1 DEF Next, StartStep, StreamStep, OpenFails, Reconcile, Truncate, Spawn, Wait, Flush, Return,
     StreamResponds, StreamWrites, StreamEnds, StreamFails, Tick, Cancel, Crash

\* What may happen to a download of unknown size.
LEMMA WhileUnknown ==
  ASSUME Shape, Control, Next, ~plan.known
  PROVE  Open \/ OpenFails \/ Flush \/ Return \/ StreamStep \/ Cancel \/ Crash \/ Change
         \/ (Tick /\ UNCHANGED <<disk, claim, chunk, runVars>>)
         \/ \E size \in 0..plan.size : Remove(size)
<1>1. ASSUME NEW c \in Chunk PROVE ~ChunkStep(c)
  BY DEF Control, Phases, Placed, ChunkStep, GiveUp, Completed, Respond, Write, CountWritten, Fail, MayFail,
     Emit, Retry
<1>2. QED
  BY <1>1 DEF Next, StartStep, Reconcile, Truncate, Spawn, Wait, Control, Phases, Tick, RecordTick

\* StreamInv is inductive.
LEMMA StreamPreserved == Shape /\ Control /\ DiskInv /\ StreamInv /\ Next => StreamInv'
<1> SUFFICES ASSUME Shape, Control, DiskInv, StreamInv, Next, ~plan.known PROVE StreamInv'
  BY PlanStays DEF StreamInv
<1>0. /\ plan' = plan /\ Byte' = Byte /\ \A c, n : Got(c, n)' = Got(c, n)
      /\ 0 \in Chunk /\ Phases /\ Placed(0) /\ plan.size \in Nat \ {0} /\ next \in Nat
      /\ Length(0) = plan.size /\ Start(0) = 0 /\ \A n \in Nat : Got(0, n) = {b \in Byte : b < n}
      /\ \A b \in Byte : b \in Nat /\ b < plan.size
      /\ chunk[0] \in Cell /\ chunk[0].got \in Nat /\ chunk \in [Chunk -> Cell] /\ claim \in [Chunk -> Nat]
      /\ Count = 1
  <2>1. 0 \in Chunk /\ Start(0) = 0 /\ Length(0) = plan.size /\ plan.size \in Nat \ {0} /\ Count = 1
    BY Facts, CountOK DEF Shape
  <2>2. \A b \in Byte : b \in Nat /\ b < plan.size
    BY Facts
  <2>3. \A n \in Nat : Got(0, n) = {b \in Byte : b < n}
    BY <2>1, <2>2 DEF Got
  <2>4. /\ chunk[0] \in Cell /\ chunk[0].got \in Nat
    BY <2>1, Facts
  <2>5. chunk \in [Chunk -> Cell] /\ claim \in [Chunk -> Nat] /\ next \in Nat
    BY Facts DEF Shape, Cells, Claims
  <2>6. QED
    BY <2>1, <2>2, <2>3, <2>4, <2>5, PlanStays, ChunksStay DEF Control
<1> DEFINE Whole == \A b \in Byte : disk.byte[b] = chunk[0].body
           Written0 == \A b \in Byte : b < chunk[0].got => disk.byte[b] # "hole"
<1>1. SUFFICES /\ phase' = "streaming" => \A b \in Byte : b < next' => disk'.byte[b] = chunk'[0].body
               /\ phase' = "flushing" => chunk'[0].got = claim'[0] \/ Written0'
               /\ result' = "complete" \/ (phase' = "flushing" /\ chunk'[0].status = "completed") => Whole'
  <2>1. chunk'[0].got \in Nat
    <3>1. chunk' \in Cells
      BY <1>0, ShapePreserved, ChunksStay DEF Shape
    <3>2. QED
      BY <1>0, <3>1 DEF Cells, Cell
  <2>2. Got(0, chunk[0].got)' = {b \in Byte : b < chunk'[0].got}
    BY <1>0, <2>1 DEF Got
  <2>3. QED
    BY <1>0, <1>1, <2>2 DEF StreamInv
<1>2. /\ phase = "streaming" => \A b \in Byte : b < next => disk.byte[b] = chunk[0].body
      /\ phase = "flushing" => chunk[0].got = claim[0] \/ Written0
      /\ result = "complete" \/ (phase = "flushing" /\ chunk[0].status = "completed") => Whole
  BY <1>0 DEF StreamInv
<1>3. CASE Open \/ OpenFails \/ Crash
  BY <1>3 DEF Open, OpenFails, Crash
<1>4. CASE Flush
  <2>1. claim'[0] = chunk[0].got /\ chunk' = chunk
    BY <1>0, <1>4 DEF Flush
  <2>2. QED
    BY <1>0, <1>2, <1>4, <2>1 DEF Flush
<1>5. CASE Return
  <2>1. result' = "complete" => \A c \in Chunk : chunk[c].status = "completed"
    BY <1>5 DEF Return
  <2>2. QED
    BY <1>0, <1>2, <1>5, <2>1 DEF Return
<1>6. CASE StreamResponds
  BY <1>0, <1>2, <1>6 DEF StreamResponds, Phases
<1>7. CASE StreamWrites
  <2>1. /\ chunk'[0].body = chunk[0].body /\ next' = next + 1 /\ phase' = "streaming" /\ result' = "none"
        /\ \A b \in Byte : disk'.byte[b] = IF b = next THEN chunk[0].body ELSE disk.byte[b]
    BY <1>0, <1>7 DEF StreamWrites, Cell, Shape, Disks, Phases
  <2>2. phase = "streaming"
    BY <1>7 DEF StreamWrites
  <2>3. QED
    BY <1>0, <1>2, <2>1, <2>2
<1>8. CASE StreamEnds
  <2>1. /\ chunk'[0].body = chunk[0].body /\ chunk'[0].got = plan.size /\ claim'[0] = plan.size
        /\ phase' = "flushing" /\ UNCHANGED disk
    BY <1>0, <1>8 DEF StreamEnds, Cell, Placed
  <2>2. Whole
    BY <1>0, <1>2, <1>8 DEF StreamEnds
  <2>3. QED
    BY <1>0, <2>1, <2>2
<1>9. CASE StreamFails
  <2>1. /\ chunk'[0].body = chunk[0].body /\ chunk'[0].got = chunk[0].got /\ chunk'[0].status = "failed"
        /\ phase' = "flushing" /\ UNCHANGED <<disk, claim>> /\ result' = "none"
    BY <1>0, <1>9 DEF StreamFails, Cell, Phases
  <2>2. chunk[0].got = claim[0] \/ Written0
    <3>1. CASE next = 0
      BY <1>0, <1>9, <3>1 DEF StreamFails, Placed
    <3>2. CASE next # 0
      <4>1. phase = "streaming" /\ chunk[0].got = next /\ chunk[0].body \in Versions
        BY <1>0, <1>9, <3>2 DEF StreamFails, Placed, Phases, Cell
      <4>2. QED
        BY <1>2, <4>1 DEF Versions
    <3>3. QED
      BY <3>1, <3>2
  <2>3. QED
    BY <1>0, <2>1, <2>2
<1>10. CASE Cancel \/ Change
  BY <1>0, <1>2, <1>10 DEF Cancel, Change, runVars
<1>11. CASE Tick /\ UNCHANGED <<disk, claim, chunk, runVars>>
  BY <1>0, <1>2, <1>11 DEF runVars
<1>12. ASSUME NEW size \in 0..plan.size, Remove(size)
       PROVE  phase' = "stopped" /\ result' # "complete"
  BY <1>12 DEF Remove, runVars
<1>13. QED
  BY <1>3, <1>4, <1>5, <1>6, <1>7, <1>8, <1>9, <1>10, <1>11, <1>12, WhileUnknown DEF StreamStep

-----------------------------------------------------------------------------
(* Progress, when the size is known.                                       *)

\* A chunk is as sound as before when its bytes are the same.
LEMMA SoundStays ==
  ASSUME plan' = plan, NEW c \in Chunk, NEW n \in Nat,
         \A b \in Got(c, n) : disk'.byte[b] = disk.byte[b]
  PROVE  /\ Sound(c, n) => Sound(c, n)'
         /\ disk'.size = disk.size /\ Usable(c, n) => Usable(c, n)'
<1>1. Got(c, n)' = Got(c, n)
  BY ChunksStay
<1>2. QED
  BY <1>1 DEF Sound, Usable

\* The first bytes of a sound chunk are sound.
LEMMA SoundBelow ==
  ASSUME Shape, NEW c \in Chunk, NEW m \in Nat, NEW n \in Nat, m <= n
  PROVE  (Sound(c, n) => Sound(c, m)) /\ (Usable(c, n) => Usable(c, m)) /\ Got(c, m) \subseteq Got(c, n)
<1>1. Start(c) \in Nat /\ \A b \in Byte : b \in Nat
  BY Facts
<1>2. Got(c, m) \subseteq Got(c, n)
  BY <1>1 DEF Got
<1>3. QED
  BY <1>2 DEF Sound, Usable

\* The part file is long enough for what is sound.
LEMMA SoundFits ==
  ASSUME Shape, DiskInv, NEW c \in Chunk, NEW n \in Nat, n <= Length(c), Sound(c, n)
  PROVE  n <= (IF disk.size < Start(c) THEN 0 ELSE disk.size - Start(c))
<1>1. Start(c) \in Nat /\ disk.size \in Nat /\ Start(c) + Length(c) <= plan.size /\ plan.size \in Nat
      /\ Length(c) \in Nat /\ \A b \in Nat : b < plan.size => b \in Byte
  BY Facts
<1>2. CASE n = 0
  BY <1>1, <1>2
<1>3. CASE n # 0
  <2> DEFINE b == Start(c) + n - 1
  <2>1. b \in Nat /\ b < plan.size /\ Start(c) <= b /\ b < Start(c) + n
    BY <1>1, <1>3
  <2>2. b \in Got(c, n)
    BY <1>1, <2>1 DEF Got
  <2>3. b < disk.size
    BY <1>1, <2>1, <2>2 DEF Sound, DiskInv
  <2>4. QED
    BY <1>1, <2>1, <2>3
<1>4. QED
  BY <1>2, <1>3

\* What is left of a usable chunk once it is cut to the length of the part file.
LEMMA UsableWithin ==
  ASSUME Shape, NEW c \in Chunk, NEW n \in Nat, Usable(c, n),
         n <= (IF disk.size < Start(c) THEN 0 ELSE disk.size - Start(c))
  PROVE  Sound(c, n)
<1>1. Start(c) \in Nat /\ disk.size \in Nat /\ \A b \in Byte : b \in Nat
  BY Facts
<1>2. ASSUME NEW b \in Got(c, n) PROVE b < disk.size
  BY <1>1, <1>2 DEF Got
<1>3. QED
  BY <1>2 DEF Sound, Usable

\* A step that leaves the part file alone leaves what is sound sound.
LEMMA FileStays ==
  ASSUME plan' = plan, disk' = disk
  PROVE  \A c \in Chunk, n \in Nat : (Sound(c, n) => Sound(c, n)') /\ (Usable(c, n) => Usable(c, n)')
BY SoundStays

\* A step that moves a goroutine and neither progress, nor rows, nor bytes.
LEMMA ProgressKept ==
  ASSUME Shape, ProgressInv, OrderInv, UNCHANGED <<plan, disk, claim, ticks, phase>>,
         next' = next \/ phase = "running", \A c \in Chunk : chunk'[c].got = chunk[c].got
  PROVE  ProgressInv' /\ OrderInv'
<1>1. /\ \A c \in Chunk, n \in Nat : (Sound(c, n) => Sound(c, n)') /\ (Usable(c, n) => Usable(c, n)')
      /\ Chunk' = Chunk
  BY FileStays, ChunksStay
<1>2. /\ \A c \in Chunk : chunk[c].got \in Nat /\ claim[c] \in Nat
      /\ \A t \in ticks : t.chunk \in Chunk /\ t.got \in Nat
  BY Facts
<1>3. ProgressInv'
  BY <1>1, <1>2 DEF ProgressInv
<1>4. OrderInv'
  BY <1>1, <1>2 DEF OrderInv
<1>5. QED
  BY <1>3, <1>4

\* Start begins with the rows.
LEMMA OpenProgress ==
  ASSUME Shape, ProgressInv, OrderInv, Open
  PROVE  ProgressInv' /\ OrderInv'
<1>1. /\ \A c \in Chunk, n \in Nat : (Sound(c, n) => Sound(c, n)') /\ (Usable(c, n) => Usable(c, n)')
      /\ Chunk' = Chunk
  BY FileStays, ChunksStay DEF Open
<1>2. /\ \A c \in Chunk : claim[c] \in Nat
      /\ \A t \in ticks : t.chunk \in Chunk /\ t.got \in Nat
  BY Facts
<1>3. /\ phase = "stopped" /\ phase' = "opened" /\ UNCHANGED <<plan, disk, claim, ticks>>
      /\ \A c \in Chunk : chunk'[c].got = claim[c]
  BY DEF Open, Fresh
<1>4. ProgressInv'
  BY <1>1, <1>2, <1>3 DEF ProgressInv
<1>5. OrderInv'
  BY <1>1, <1>2, <1>3 DEF OrderInv
<1>6. QED
  BY <1>4, <1>5

\* Start, or the process, ends.
LEMMA EndProgress ==
  ASSUME Shape, ProgressInv, OrderInv, OpenFails \/ Return \/ Crash,
         ~({"crash", "remove"} \subseteq plan.fault)
  PROVE  ProgressInv' /\ OrderInv'
<1>1. /\ \A c \in Chunk, n \in Nat : (Sound(c, n) => Sound(c, n)') /\ (Usable(c, n) => Usable(c, n)')
      /\ Chunk' = Chunk
  BY FileStays, ChunksStay DEF OpenFails, Return, Crash
<1>2. /\ \A c \in Chunk : claim[c] \in Nat /\ c \in Nat /\ c < Count
      /\ \A t \in ticks : t.chunk \in Chunk /\ t.got \in Nat
  BY Facts
<1>3. /\ phase' = "stopped" /\ UNCHANGED <<plan, disk, claim>> /\ (ticks' = ticks \/ ticks' = {})
      /\ OpenFails \/ Return => ticks' = ticks
      /\ Crash => ticks' = {}
  BY DEF OpenFails, Return, Crash
<1>4. \A c \in Chunk : Usable(c, claim[c])
  <2>1. CASE OpenFails
    BY <2>1 DEF OpenFails, ProgressInv
  <2>2. CASE Return
    BY <1>2, <2>2 DEF Return, ProgressInv, Sound
  <2>3. CASE Crash
    BY <2>3 DEF Crash, ProgressInv, Sound
  <2>4. QED
    BY <2>1, <2>2, <2>3
<1>5. \A t \in ticks' : t.got <= claim[t.chunk]
  <2>1. CASE OpenFails
    BY <1>3, <2>1 DEF OpenFails, OrderInv
  <2>2. CASE Return
    BY <1>2, <1>3, <2>2 DEF Return, OrderInv
  <2>3. CASE Crash
    BY <1>3, <2>3
  <2>4. QED
    BY <2>1, <2>2, <2>3
<1>6. ProgressInv'
  BY <1>1, <1>2, <1>3, <1>4 DEF ProgressInv
<1>7. OrderInv'
  BY <1>1, <1>2, <1>3, <1>5 DEF OrderInv
<1>8. QED
  BY <1>6, <1>7

\* reconcileDiskProgress makes usable progress sound, and leaves sound progress as it is.
LEMMA ReconcileProgress ==
  ASSUME Shape, DiskInv, ProgressInv, OrderInv, Reconcile
  PROVE  ProgressInv' /\ OrderInv'
<1> DEFINE Available(c) == IF disk.size < Start(c) THEN 0 ELSE disk.size - Start(c)
<1>1. /\ \A c \in Chunk, n \in Nat : (Sound(c, n) => Sound(c, n)') /\ (Usable(c, n) => Usable(c, n)')
      /\ Chunk' = Chunk
  BY FileStays, ChunksStay DEF Reconcile
<1>2. /\ \A c \in Chunk : claim[c] \in Nat /\ chunk[c].got \in Nat /\ chunk[c] \in Cell /\ Start(c) \in Nat
                          /\ claim[c] <= Length(c) /\ chunk[c].got <= Length(c)
      /\ \A t \in ticks : t.chunk \in Chunk /\ t.got \in Nat /\ t.got <= Length(t.chunk)
      /\ disk.size \in Nat
  BY Facts
<1>3. /\ phase = "opened" /\ phase' = "reconciled" /\ UNCHANGED <<plan, disk, claim, ticks>>
  BY DEF Reconcile
<1>4. ASSUME NEW c \in Chunk
      PROVE  /\ chunk'[c].got \in Nat /\ chunk'[c].got <= chunk[c].got /\ chunk'[c].got <= Available(c)
             /\ chunk[c].got <= Available(c) => chunk'[c].got = chunk[c].got
             /\ chunk'[c].got \in {chunk[c].got, Available(c)}
  <2>1. CASE chunk[c].got <= Available(c)
    <3>1. chunk'[c] = chunk[c]
      BY <2>1 DEF Reconcile
    <3>2. QED
      BY <1>2, <2>1, <3>1
  <2>2. CASE ~(chunk[c].got <= Available(c))
    <3>1. chunk'[c] = [chunk[c] EXCEPT !.got = Available(c), !.status = "pending"]
      BY <2>2 DEF Reconcile
    <3>2. chunk'[c].got = Available(c) /\ Available(c) \in Nat
      BY <1>2, <3>1 DEF Cell
    <3>3. QED
      BY <1>2, <2>2, <3>2
  <2>3. QED
    BY <2>1, <2>2
<1>5. \A c \in Chunk : Sound(c, chunk'[c].got)
  BY <1>2, <1>3, <1>4, SoundBelow, UsableWithin DEF ProgressInv
<1>6. ASSUME NEW t \in ticks PROVE t.got <= chunk'[t.chunk].got
  <2>1. t.got <= Available(t.chunk)
    BY <1>2, SoundFits DEF ProgressInv
  <2>2. t.got <= chunk[t.chunk].got
    BY <1>3 DEF OrderInv
  <2>3. QED
    BY <1>2, <1>4, <2>1, <2>2
<1>7. "remove" \notin plan.fault => \A c \in Chunk : claim[c] <= chunk'[c].got
  <2>1. ASSUME "remove" \notin plan.fault, NEW c \in Chunk PROVE claim[c] <= chunk'[c].got
    <3>1. claim[c] <= chunk[c].got /\ Sound(c, chunk[c].got)
      BY <1>3, <2>1 DEF ProgressInv, OrderInv
    <3>2. chunk[c].got <= Available(c)
      BY <1>2, <3>1, SoundFits
    <3>3. QED
      BY <1>4, <3>1, <3>2
  <2>2. QED
    BY <2>1
<1>8. ProgressInv'
  BY <1>1, <1>2, <1>3, <1>4, <1>5 DEF ProgressInv
<1>9. OrderInv'
  BY <1>1, <1>2, <1>3, <1>6, <1>7 DEF OrderInv
<1>10. QED
  BY <1>8, <1>9

\* The file grows to its full length, and Start begins to fetch.
LEMMA TruncateProgress ==
  ASSUME Shape, ProgressInv, OrderInv, Truncate
  PROVE  ProgressInv' /\ OrderInv'
<1>1. /\ phase = "reconciled" /\ phase' = "running" /\ UNCHANGED <<plan, claim, chunk, ticks>>
      /\ disk'.byte = disk.byte
  BY DEF Truncate, Shape, Disks
<1>2. Chunk' = Chunk /\ \A c \in Chunk, n \in Nat : Sound(c, n) => Sound(c, n)'
  BY <1>1, ChunksStay, SoundStays
<1>3. /\ \A c \in Chunk : chunk[c].got \in Nat /\ claim[c] \in Nat
      /\ \A t \in ticks : t.chunk \in Chunk /\ t.got \in Nat
  BY Facts
<1>4. ProgressInv'
  BY <1>1, <1>2, <1>3 DEF ProgressInv
<1>5. OrderInv'
  BY <1>1, <1>2, <1>3 DEF OrderInv
<1>6. QED
  BY <1>4, <1>5

\* The goroutines are gone; the flush has not begun.
LEMMA WaitProgress ==
  ASSUME Shape, ProgressInv, OrderInv, Wait
  PROVE  ProgressInv' /\ OrderInv'
<1>1. /\ phase = "running" /\ phase' = "flushing" /\ next' = 0 /\ UNCHANGED <<plan, disk, claim, chunk, ticks>>
  BY DEF Wait
<1>2. /\ \A c \in Chunk, n \in Nat : (Sound(c, n) => Sound(c, n)') /\ (Usable(c, n) => Usable(c, n)')
      /\ Chunk' = Chunk
  BY <1>1, FileStays, ChunksStay
<1>3. /\ \A c \in Chunk : chunk[c].got \in Nat /\ claim[c] \in Nat /\ c \in Nat
      /\ \A t \in ticks : t.chunk \in Chunk /\ t.got \in Nat
  BY Facts
<1>4. ProgressInv'
  BY <1>1, <1>2, <1>3 DEF ProgressInv
<1>5. OrderInv'
  BY <1>1, <1>2, <1>3 DEF OrderInv
<1>6. QED
  BY <1>4, <1>5

\* A row is written with the progress of its chunk: by the flush, or by the goroutine.
LEMMA RecordProgress ==
  ASSUME Shape, ProgressInv, OrderInv, UNCHANGED <<plan, disk, ticks, phase>>,
         NEW c \in Chunk, claim' = [claim EXCEPT ![c] = chunk[c].got],
         \A d \in Chunk : chunk'[d].got = chunk[d].got,
         \/ phase = "running" /\ next' = next
         \/ phase = "flushing" /\ c = next /\ next' = next + 1
  PROVE  ProgressInv' /\ OrderInv'
<1>1. /\ \A d \in Chunk, n \in Nat : (Sound(d, n) => Sound(d, n)') /\ (Usable(d, n) => Usable(d, n)')
      /\ Chunk' = Chunk
  BY FileStays, ChunksStay
<1>2. /\ \A d \in Chunk : /\ chunk[d].got \in Nat /\ claim[d] \in Nat /\ d \in Nat
                          /\ claim'[d] = IF d = c THEN chunk[d].got ELSE claim[d]
      /\ \A t \in ticks : t.chunk \in Chunk /\ t.got \in Nat
      /\ next \in Nat
  BY Facts DEF Shape, Claims
<1>3. \A d \in Chunk : claim'[d] \in Nat /\ (Sound(d, claim[d]) => Sound(d, claim'[d]))
                       /\ Sound(c, claim'[c])
  BY <1>2 DEF ProgressInv
<1>4. ProgressInv'
  BY <1>1, <1>2, <1>3 DEF ProgressInv
<1>5. OrderInv'
  BY <1>1, <1>2 DEF OrderInv
<1>6. QED
  BY <1>4, <1>5

\* One byte more counts: it has been written, from the representation of the others.
LEMMA CountProgress ==
  ASSUME Shape, ProgressInv, OrderInv, VersionInv, phase = "running", NEW c \in Chunk, CountWritten(c)
  PROVE  ProgressInv' /\ OrderInv'
<1>1. /\ UNCHANGED <<plan, disk, claim, ticks, phase, next>>
      /\ \A d \in Chunk : chunk'[d].got = IF d = c THEN chunk[d].got + 1 ELSE chunk[d].got
  BY DEF CountWritten, ChunkOnly, runVars, Shape, Cells, Cell
<1>2. /\ \A d \in Chunk, n \in Nat : (Sound(d, n) => Sound(d, n)') /\ (Usable(d, n) => Usable(d, n)')
      /\ Chunk' = Chunk
  BY <1>1, FileStays, ChunksStay
<1>3. /\ \A d \in Chunk : chunk[d].got \in Nat /\ claim[d] \in Nat /\ Start(d) \in Nat /\ chunk[d] \in Cell
      /\ \A t \in ticks : t.chunk \in Chunk /\ t.got \in Nat
      /\ \A b \in Byte : b \in Nat
  BY Facts
<1>4. Sound(c, chunk[c].got + 1)
  <2> DEFINE p == Start(c) + chunk[c].got
  <2>1. \A b \in Got(c, chunk[c].got + 1) : b = p \/ b \in Got(c, chunk[c].got)
    BY <1>3 DEF Got
  <2>2. /\ disk.byte[p] = chunk[c].body /\ chunk[c].body # "hole"
        /\ plan.validated => \A b \in Got(c, chunk[c].got) : disk.byte[b] = chunk[c].body
    BY <1>3 DEF VersionInv, CountWritten, Cell, Versions
  <2>3. Sound(c, chunk[c].got)
    BY DEF ProgressInv
  <2>4. \A b \in Got(c, chunk[c].got + 1) : disk.byte[b] # "hole"
    BY <2>1, <2>2, <2>3 DEF Sound
  <2>5. plan.validated => \A b \in Got(c, chunk[c].got + 1) : disk.byte[b] = chunk[c].body
    BY <2>1, <2>2
  <2>6. QED
    BY <2>4, <2>5 DEF Sound, Usable
<1>5. \A d \in Chunk : chunk'[d].got \in Nat /\ Sound(d, chunk'[d].got)
  BY <1>1, <1>3, <1>4 DEF ProgressInv
<1>6. ProgressInv'
  BY <1>1, <1>2, <1>3, <1>5 DEF ProgressInv
<1>7. OrderInv'
  BY <1>1, <1>2, <1>3 DEF OrderInv
<1>8. QED
  BY <1>6, <1>7

\* A byte is written behind all that counts for its chunk.
LEMMA WriteProgress ==
  ASSUME Shape, Control, ProgressInv, OrderInv, NEW c \in Chunk, Write(c)
  PROVE  ProgressInv' /\ OrderInv'
<1>1. /\ UNCHANGED <<plan, claim, ticks, phase, next>> /\ phase = "running"
      /\ \A d \in Chunk : chunk'[d].got = chunk[d].got
  BY Written DEF Write, Moves, runVars, Shape, Cells, Cell
<1>2. /\ \A d \in Chunk : /\ chunk[d].got \in Nat /\ claim[d] \in Nat /\ Start(d) \in Nat /\ chunk[d] \in Cell
                          /\ claim[d] <= Length(d) /\ chunk[d].got <= Length(d) /\ Length(d) \in Nat
      /\ \A t \in ticks : t.chunk \in Chunk /\ t.got \in Nat
      /\ \A b \in Byte : b \in Nat
  BY Facts
<1>3. ASSUME NEW d \in Chunk, NEW n \in Nat, n <= chunk[d].got PROVE Sound(d, n) => Sound(d, n)'
  <2>1. Start(c) + chunk[c].got \notin Got(d, n)
    <3>1. CASE d = c
      BY <1>2, <1>3, <3>1 DEF Got
    <3>2. CASE d # c
      <4>1. Got(d, n) \subseteq Got(d, Length(d))
        BY <1>2, <1>3, SoundBelow
      <4>2. QED
        BY <3>2, <4>1, Written
    <3>3. QED
      BY <3>1, <3>2
  <2>2. \A b \in Got(d, n) : disk'.byte[b] = disk.byte[b]
    BY <2>1, Written DEF Got
  <2>3. QED
    BY <1>1, <2>2, SoundStays
<1>4. Chunk' = Chunk
  BY <1>1, ChunksStay
<1>5. ProgressInv'
  BY <1>1, <1>2, <1>3, <1>4 DEF ProgressInv, OrderInv
<1>6. OrderInv'
  BY <1>1, <1>2, <1>4 DEF OrderInv
<1>7. QED
  BY <1>5, <1>6

\* trackSpeed looks at what is sound.
LEMMA TickProgress ==
  ASSUME Shape, Control, ProgressInv, OrderInv, Tick
  PROVE  ProgressInv' /\ OrderInv'
<1>1. /\ UNCHANGED <<plan, disk, claim, chunk, phase, next, cancelled>>
      /\ phase \in {"running", "flushing"} /\ ~cancelled
      /\ ticks' = {[chunk |-> c, got |-> chunk[c].got] : c \in {d \in Chunk : chunk[d].status = "downloading"}}
  BY DEF Tick, runVars
<1>2. /\ \A c \in Chunk, n \in Nat : (Sound(c, n) => Sound(c, n)') /\ (Usable(c, n) => Usable(c, n)')
      /\ Chunk' = Chunk
  BY <1>1, FileStays, ChunksStay
<1>3. \A c \in Chunk : chunk[c].got \in Nat /\ claim[c] \in Nat
  BY Facts
<1>4. \A t \in ticks' : t.chunk \in Chunk /\ t.got = chunk[t.chunk].got /\ t = [chunk |-> t.chunk, got |-> t.got]
  BY <1>1
<1>5. phase = "flushing" => ticks' = {}
  <2>1. phase = "flushing" => \A c \in Chunk : chunk[c].status # "downloading"
    BY <1>1 DEF Control, Placed
  <2>2. QED
    BY <1>1, <2>1
<1>6. ProgressInv'
  BY <1>1, <1>2, <1>3, <1>4 DEF ProgressInv
<1>7. OrderInv'
  BY <1>1, <1>2, <1>3, <1>4, <1>5 DEF OrderInv
<1>8. QED
  BY <1>6, <1>7

\* A tick is recorded, perhaps long after it was taken.
LEMMA RecordTickProgress ==
  ASSUME Shape, ProgressInv, OrderInv, NEW t \in ticks, RecordTick(t)
  PROVE  ProgressInv' /\ OrderInv'
<1>1. /\ UNCHANGED <<plan, disk, chunk, phase, next>> /\ ticks' = ticks \ {t}
      /\ t.chunk \in Chunk /\ t.got \in Nat
      /\ \A c \in Chunk : claim'[c] = IF c = t.chunk THEN t.got ELSE claim[c]
  BY Facts DEF RecordTick, runVars, Shape, Claims
<1>2. /\ \A c \in Chunk, n \in Nat : (Sound(c, n) => Sound(c, n)') /\ (Usable(c, n) => Usable(c, n)')
      /\ Chunk' = Chunk
  BY <1>1, FileStays, ChunksStay
<1>3. /\ \A c \in Chunk : chunk[c].got \in Nat /\ claim[c] \in Nat
      /\ \A u \in ticks : u.chunk \in Chunk /\ u.got \in Nat
  BY Facts
<1>4. Sound(t.chunk, t.got) /\ Usable(t.chunk, t.got)
  BY DEF ProgressInv, Sound
<1>5. \A c \in Chunk : /\ claim'[c] \in Nat
                       /\ Sound(c, claim[c]) => Sound(c, claim'[c])
                       /\ Usable(c, claim[c]) => Usable(c, claim'[c])
  BY <1>1, <1>3, <1>4
<1>6. ProgressInv'
  BY <1>1, <1>2, <1>3, <1>5 DEF ProgressInv
<1>7. OrderInv'
  <2>1. \A u \in ticks' : u \in ticks /\ u.chunk # t.chunk
    BY <1>1 DEF OrderInv
  <2>2. phase # "stopped" => t.got <= chunk[t.chunk].got
    BY DEF OrderInv
  <2>3. QED
    BY <1>1, <1>2, <1>3, <2>1, <2>2 DEF OrderInv
<1>8. QED
  BY <1>6, <1>7

\* What somebody else cuts off is not counted by the next Start.
LEMMA RemoveProgress ==
  ASSUME Shape, ProgressInv, OrderInv, NEW size \in 0..plan.size, Remove(size)
  PROVE  ProgressInv' /\ OrderInv'
<1>1. /\ UNCHANGED <<plan, claim, chunk, phase, next, ticks>> /\ phase = "stopped" /\ ticks = {}
      /\ "remove" \in plan.fault /\ disk'.size = size /\ size < disk.size
      /\ \A b \in Byte : disk'.byte[b] = IF b < size THEN disk.byte[b] ELSE "hole"
  BY DEF Remove, runVars
<1>2. Chunk' = Chunk /\ \A c, n : Got(c, n)' = Got(c, n)
  BY <1>1, ChunksStay
<1>3. /\ \A b \in Byte : b \in Nat
      /\ disk.size \in Nat
      /\ \A c \in Chunk : claim[c] \in Nat
  BY Facts
<1>4. ASSUME NEW c \in Chunk, NEW n \in Nat PROVE Usable(c, n) => Usable(c, n)'
  <2>1. Got(c, n) \subseteq Byte
    BY DEF Got
  <2>2. \A b \in Got(c, n) : b < size => b < disk.size
    BY <1>1, <1>3, <2>1
  <2>3. QED
    BY <1>1, <1>2, <2>1, <2>2 DEF Usable
<1>5. ProgressInv'
  BY <1>1, <1>2, <1>3, <1>4 DEF ProgressInv
<1>6. OrderInv'
  BY <1>1 DEF OrderInv
<1>7. QED
  BY <1>5, <1>6

\* What one goroutine has of its representation.
OneVersion(c) ==
  /\ chunk[c].at \in {"body", "count"} /\ plan.validated =>
       \A b \in Got(c, chunk[c].got) : disk.byte[b] = chunk[c].body
  /\ chunk[c].at = "count" => disk.byte[Start(c) + chunk[c].got] = chunk[c].body

\* The goroutine's own step.
LEMMA VersionOfOwn ==
  ASSUME Shape, Control, DiskInv, ProgressInv, NEW c \in Chunk, OneVersion(c), ChunkStep(c), plan' = plan
  PROVE  OneVersion(c)'
<1>0. /\ \A n : Got(c, n)' = Got(c, n)
      /\ Start(c)' = Start(c)
      /\ chunk \in [Chunk -> Cell] /\ chunk[c] \in Cell /\ chunk[c].got \in Nat /\ Start(c) \in Nat
      /\ \A b \in Byte : b \in Nat
  BY ChunksStay, Facts DEF Shape, Cells
<1>1. CASE GiveUp(c) \/ Emit(c)
  BY <1>0, <1>1 DEF GiveUp, Emit, Moves, OneVersion, Cell
<1>2. CASE Completed(c) \/ Retry(c)
  BY <1>0, <1>2 DEF Completed, Retry, OneVersion, Cell
<1>3. CASE Fail(c)
  BY <1>0, <1>3 DEF Fail, Moves, OneVersion, Cell
<1>4. CASE Respond(c)
  <2>1. chunk'[c].at = "body" /\ chunk'[c].body = served /\ chunk'[c].got = chunk[c].got /\ disk' = disk
    BY <1>0, <1>4 DEF Respond, ChunkOnly, Cell
  <2>2. CASE chunk[c].got = 0
    <3>1. Got(c, chunk[c].got) = {}
      BY <1>0, <2>2 DEF Got
    <3>2. QED
      BY <1>0, <2>1, <3>1 DEF OneVersion
  <2>3. CASE chunk[c].got > 0
    <3>1. plan.validated => served = "old"
      BY <1>4, <2>3 DEF Respond, Accepts
    <3>2. phase = "running"
      BY <1>4 DEF Respond, Control, Placed
    <3>3. \A b \in Got(c, chunk[c].got) : b \in Byte /\ disk.byte[b] # "hole"
      BY <3>2 DEF ProgressInv, Sound, Got
    <3>4. plan.validated => \A b \in Got(c, chunk[c].got) : disk.byte[b] = served
      BY <3>1, <3>3 DEF DiskInv
    <3>5. QED
      BY <1>0, <2>1, <3>4 DEF OneVersion
  <2>4. QED
    BY <1>0, <2>2, <2>3
<1>5. CASE Write(c)
  <2> DEFINE p == Start(c) + chunk[c].got
  <2>1. /\ chunk'[c].at = "count" /\ chunk'[c].body = chunk[c].body /\ chunk'[c].got = chunk[c].got
        /\ chunk[c].at = "body"
    BY <1>0, <1>5 DEF Write, Moves, Cell
  <2>2. p \in Byte /\ \A b \in Byte : disk'.byte[b] = IF b = p THEN chunk[c].body ELSE disk.byte[b]
    BY <1>5, Written
  <2>3. \A b \in Got(c, chunk[c].got) : b \in Byte /\ b # p
    BY <1>0 DEF Got
  <2>4. disk'.byte[p] = chunk[c].body
    BY <2>2
  <2>5. QED
    BY <1>0, <2>1, <2>2, <2>3, <2>4 DEF OneVersion
<1>6. CASE CountWritten(c)
  <2>1. /\ chunk'[c].at = "body" /\ chunk'[c].body = chunk[c].body /\ chunk'[c].got = chunk[c].got + 1
        /\ disk' = disk /\ chunk[c].at = "count"
    BY <1>0, <1>6 DEF CountWritten, ChunkOnly, Cell
  <2>2. \A b \in Got(c, chunk[c].got + 1) : b = Start(c) + chunk[c].got \/ b \in Got(c, chunk[c].got)
    BY <1>0 DEF Got
  <2>3. QED
    BY <1>0, <2>1, <2>2 DEF OneVersion
<1>7. QED
  BY <1>1, <1>2, <1>3, <1>4, <1>5, <1>6 DEF ChunkStep

\* A step that leaves the goroutine and the bytes of its chunk alone.
LEMMA VersionOfOther ==
  ASSUME Shape, Control, NEW c \in Chunk, OneVersion(c), plan' = plan, chunk'[c] = chunk[c],
         disk'.byte = disk.byte \/ \E d \in Chunk : d # c /\ Write(d)
  PROVE  OneVersion(c)'
<1>0. /\ \A n : Got(c, n)' = Got(c, n)
      /\ Start(c)' = Start(c) /\ Start(c) \in Nat /\ Length(c) \in Nat /\ chunk[c].got \in Nat
      /\ chunk[c].got <= Length(c) /\ Start(c) + Length(c) <= plan.size /\ plan.size \in Nat
      /\ \A b \in Byte : b \in Nat
      /\ \A b \in Nat : b < plan.size => b \in Byte
  BY ChunksStay, Facts
<1>1. CASE disk'.byte = disk.byte
  BY <1>0, <1>1 DEF OneVersion
<1>2. ASSUME NEW d \in Chunk, d # c, Write(d) PROVE OneVersion(c)'
  <2>1. Got(c, chunk[c].got) \subseteq Got(c, Length(c))
    BY <1>0, SoundBelow
  <2>2. chunk[c].at = "count" => Start(c) + chunk[c].got \in Got(c, Length(c))
    <3>1. chunk[c].at = "count" => chunk[c].got < Length(c)
      BY DEF Control, Placed
    <3>2. QED
      BY <1>0, <3>1 DEF Got
  <2>3. \A b \in Got(c, Length(c)) : disk'.byte[b] = disk.byte[b]
    BY <1>2, Written DEF Got
  <2>4. QED
    BY <1>0, <2>1, <2>2, <2>3 DEF OneVersion
<1>3. QED
  BY <1>1, <1>2

\* Every goroutine keeps to one representation.
LEMMA VersionPreserved ==
  ASSUME Shape, Control, DiskInv, plan.known, ProgressInv, VersionInv, Next
  PROVE  VersionInv'
<1>0. plan' = plan /\ Chunk' = Chunk /\ Control' /\ chunk \in [Chunk -> Cell]
  BY PlanStays, ChunksStay, ControlPreserved DEF Shape, Cells
<1>1. SUFFICES ASSUME NEW c \in Chunk PROVE OneVersion(c)'
  BY <1>0 DEF VersionInv, OneVersion
<1>2. OneVersion(c)
  BY DEF VersionInv, OneVersion
<1>3. CASE phase' # "running"
  BY <1>0, <1>3 DEF Control, Placed, OneVersion
<1>4. CASE chunk'[c].at \notin {"body", "count"}
  BY <1>4 DEF OneVersion
<1>5. CASE phase' = "running"
  <2>1. CASE Truncate
    BY <1>4, <2>1 DEF Truncate, Control, Placed
  <2>2. CASE Spawn
    <3>1. disk' = disk /\ (chunk'[c] = chunk[c] \/ chunk'[c].at = "try")
      BY <1>0, <2>2 DEF Spawn, Cell
    <3>2. QED
      BY <1>0, <1>2, <1>4, <3>1, VersionOfOther
  <2>3. ASSUME NEW d \in Chunk, ChunkStep(d) PROVE OneVersion(c)'
    <3>1. CASE d = c
      BY <1>0, <1>2, <2>3, <3>1, VersionOfOwn
    <3>2. CASE d # c
      <4>1. chunk'[c] = chunk[c]
        BY <1>0, <2>3, <3>2 DEF ChunkStep, GiveUp, Completed, Respond, Write, CountWritten, Fail, Emit, Retry,
           Moves
      <4>2. disk' = disk \/ Write(d)
        BY <2>3 DEF ChunkStep, GiveUp, Completed, Respond, CountWritten, Fail, Emit, Retry, ChunkOnly
      <4>3. QED
        BY <1>0, <1>2, <3>2, <4>1, <4>2, VersionOfOther
    <3>3. QED
      BY <3>1, <3>2
  <2>4. CASE UNCHANGED <<disk, chunk>>
    BY <1>0, <1>2, <2>4, VersionOfOther
  <2>5. Tick \/ Cancel \/ Change \/ (\E t \in ticks : RecordTick(t)) => UNCHANGED <<disk, chunk>>
    BY DEF Tick, Cancel, Change, RecordTick
  <2>6. ~(Open \/ OpenFails \/ Reconcile \/ Wait \/ Flush \/ Return \/ StreamStep \/ Crash
          \/ \E size \in 0..plan.size : Remove(size))
    BY <1>5 DEF Open, OpenFails, Reconcile, Wait, Flush, Return, StreamStep, StreamResponds, StreamWrites,
       StreamEnds, StreamFails, Crash, Remove, runVars
  <2>7. QED
    BY <2>1, <2>2, <2>3, <2>4, <2>5, <2>6 DEF Next, StartStep
<1>6. QED
  BY <1>3, <1>5

\* With a known size, as long as crashes and lost files do not meet.
Apart == \A p \in Plans : ~({"crash", "remove"} \subseteq p.fault)

\* KnownInv is inductive, and only here Apart matters.
LEMMA KnownPreserved ==
  ASSUME Apart
  PROVE  Shape /\ Control /\ DiskInv /\ KnownInv /\ Next => KnownInv'
<1> SUFFICES ASSUME Shape, Control, DiskInv, Next, plan.known, ProgressInv, OrderInv, VersionInv
             PROVE  (ProgressInv /\ OrderInv /\ VersionInv)'
  BY PlanStays DEF KnownInv
<1>0. /\ plan' = plan /\ chunk \in [Chunk -> Cell]
      /\ ~({"crash", "remove"} \subseteq plan.fault)
  BY PlanStays DEF Shape, Cells, Apart
<1>1. VersionInv'
  BY VersionPreserved
<1> DEFINE Goal == ProgressInv' /\ OrderInv'
<1>a. SUFFICES Goal
  BY <1>1
<1>2. CASE Open \/ OpenFails \/ Return \/ Crash
  BY <1>0, <1>2, OpenProgress, EndProgress
<1>3. CASE Reconcile \/ Truncate \/ Wait
  BY <1>3, ReconcileProgress, TruncateProgress, WaitProgress
<1>4. CASE Spawn
  <2>1. \A c \in Chunk : chunk'[c].got = chunk[c].got
    BY <1>0, <1>4 DEF Spawn, Cell
  <2>2. QED
    BY <1>4, <2>1, ProgressKept DEF Spawn
<1>5. CASE Flush
  <2>1. next \in Chunk
    BY <1>5, Facts DEF Flush
  <2>2. QED
    BY <1>5, <2>1, RecordProgress DEF Flush
<1>6. ASSUME NEW c \in Chunk, ChunkStep(c) PROVE Goal
  <2>1. phase = "running"
    BY <1>6 DEF Control, Placed, ChunkStep, GiveUp, Completed, Respond, Write, CountWritten, Fail, MayFail,
       Emit, Retry
  <2>2. CASE GiveUp(c) \/ Completed(c) \/ Respond(c)
    <3>1. \A d \in Chunk : chunk'[d].got = chunk[d].got
      BY <1>0, <2>2 DEF GiveUp, Completed, Respond, Moves, Cell
    <3>2. QED
      BY <2>1, <2>2, <3>1, ProgressKept DEF GiveUp, Completed, Respond, ChunkOnly, runVars
  <2>3. CASE Fail(c) \/ Retry(c)
    <3>1. \A d \in Chunk : chunk'[d].got = chunk[d].got
      BY <1>0, <2>3 DEF Fail, Retry, Moves, Cell
    <3>2. QED
      BY <2>1, <2>3, <3>1, ProgressKept DEF Fail, Retry, ChunkOnly, runVars
  <2>4. CASE Write(c)
    BY <2>4, WriteProgress
  <2>5. CASE CountWritten(c)
    BY <2>1, <2>5, CountProgress
  <2>6. CASE Emit(c)
    <3>1. \A d \in Chunk : chunk'[d].got = chunk[d].got
      BY <1>0, <2>6 DEF Emit, Moves, Cell
    <3>2. QED
      BY <2>1, <2>6, <3>1, RecordProgress DEF Emit, runVars
  <2>7. QED
    BY <1>6, <2>2, <2>3, <2>4, <2>5, <2>6 DEF ChunkStep
<1>7. CASE Tick \/ \E t \in ticks : RecordTick(t)
  BY <1>7, TickProgress, RecordTickProgress
<1>8. CASE Cancel \/ Change
  BY <1>8, ProgressKept DEF Cancel, Change, runVars
<1>9. CASE \E size \in 0..plan.size : Remove(size)
  BY <1>9, RemoveProgress
<1>10. CASE StreamStep
  BY <1>10 DEF StreamStep, StreamResponds, StreamWrites, StreamEnds, StreamFails, Control, Phases
<1>11. QED
  BY <1>1, <1>2, <1>3, <1>4, <1>5, <1>6, <1>7, <1>8, <1>9, <1>10 DEF Next, StartStep

\* What Start has reported stays as it reported it.
LEMMA CompletePreserved ==
  Shape /\ Control /\ DiskInv /\ StreamInv /\ KnownInv /\ CompleteInv /\ Next => CompleteInv'
<1> SUFFICES ASSUME Shape, Control, StreamInv, KnownInv, CompleteInv, Next PROVE CompleteInv'
  OBVIOUS
<1>0. SUFFICES ASSUME result' = "complete"
               PROVE  \A c \in Chunk : /\ chunk'[c].got = Length(c)
                                       /\ \A b \in Got(c, chunk'[c].got) : disk'.byte[b] # "hole"
  <2>1. /\ Chunk' = Chunk /\ \A c : Length(c)' = Length(c)
        /\ \A c, n : Got(c, n)' = Got(c, n)
    BY PlanStays, ChunksStay
  <2>2. \A c : Got(c, chunk[c].got)' = Got(c, chunk'[c].got)
    BY <2>1
  <2>3. QED
    BY <2>1, <2>2 DEF CompleteInv
<1>1. CASE phase = "stopped"
  <2>1. Change \/ \E t \in ticks : RecordTick(t)
    BY <1>0, <1>1, WhileStopped DEF Open, Remove, runVars
  <2>2. UNCHANGED <<disk, chunk, result>>
    BY <2>1 DEF Change, RecordTick, runVars
  <2>3. QED
    BY <1>0, <2>2 DEF CompleteInv
<1>2. CASE phase # "stopped"
  <2>1. result = "none"
    BY <1>2 DEF Control, Phases
  <2>2. Return
    BY <1>0, <1>2, <2>1 DEF Next, StartStep, StreamStep, ChunkStep, Open, OpenFails, Reconcile, Truncate, Spawn, Wait,
       Flush, StreamResponds, StreamWrites, StreamEnds, StreamFails, GiveUp, Completed, Respond, Write,
       CountWritten, Fail, Emit, Retry, ChunkOnly, Tick, RecordTick, Cancel, Crash, Change, Remove, runVars
  <2>3. UNCHANGED <<disk, chunk>> /\ phase = "flushing" /\ \A c \in Chunk : chunk[c].status = "completed"
    BY <1>0, <2>2 DEF Return
  <2>4. \A c \in Chunk : chunk[c].got = Length(c)
    BY <2>3 DEF Control, Placed
  <2>5. CASE plan.known
    BY <2>3, <2>4, <2>5 DEF KnownInv, ProgressInv, Sound
  <2>6. CASE ~plan.known
    <3>1. 0 \in Chunk /\ chunk[0].body \in Versions
      BY <2>6, Facts DEF Cell
    <3>2. \A b \in Byte : disk.byte[b] # "hole"
      BY <2>3, <2>6, <3>1 DEF StreamInv, Versions
    <3>3. QED
      BY <2>3, <2>4, <3>2 DEF Got
  <2>7. QED
    BY <2>5, <2>6
<1>3. QED
  BY <1>1, <1>2

-----------------------------------------------------------------------------
(* The theorems.                                                           *)

\* A first start, of a download nobody has begun.
LEMMA AllInit == Init => Shape /\ Control /\ DiskInv /\ StreamInv /\ KnownInv /\ CompleteInv
<1> SUFFICES ASSUME Init PROVE Shape /\ Control /\ DiskInv /\ StreamInv /\ KnownInv /\ CompleteInv
  OBVIOUS
<1>1. /\ plan \in Plans /\ plan.size \in Nat \ {0} /\ Count \in 1..plan.size /\ plan.retries \in Nat
      /\ \A c \in Chunk : Length(c) \in 1..plan.size /\ Start(c) \in Nat
      /\ \A b \in Byte : b \in Nat
  BY CountOK, EndIs, PlansAssumption DEF Init, Byte
<1>2. \A c \in Chunk : Fresh(c) = [at |-> "none", got |-> 0, attempt |-> 0, body |-> "old", status |-> "pending"]
  BY <1>1 DEF Init, Fresh
<1>3. chunk = [c \in Chunk |-> [at |-> "none", got |-> 0, attempt |-> 0, body |-> "old", status |-> "pending"]]
  BY <1>2 DEF Init
<1>4. chunk \in Cells /\ claim \in Claims /\ disk \in Disks
  <2>1. chunk \in [Chunk -> Cell]
    BY <1>3 DEF Cell, Places, Statuses, Versions
  <2>2. chunk \in Cells
    BY <1>1, <1>3, <2>1 DEF Cells
  <2>3. claim \in Claims
    BY <1>1 DEF Init, Claims
  <2>4. disk \in Disks
    BY <1>1 DEF Init, Disks
  <2>5. QED
    BY <2>2, <2>3, <2>4
<1>5. Shape
  <2>1. next \in 0..(IF plan.known THEN Count ELSE plan.size)
    BY <1>1 DEF Init
  <2>2. QED
    BY <1>4, <2>1 DEF Init, Shape, Versions
<1>6. Control
  BY <1>1, <1>3 DEF Init, Control, Phases, Placed
<1>7. DiskInv
  BY <1>3 DEF Init, DiskInv
<1>8. StreamInv /\ CompleteInv
  BY DEF Init, StreamInv, CompleteInv
<1>9. \A c \in Chunk : Sound(c, 0)
  BY <1>1 DEF Sound, Usable, Got
<1>10. KnownInv
  BY <1>3, <1>9 DEF Init, KnownInv, ProgressInv, OrderInv, VersionInv, Sound
<1>11. QED
  BY <1>5, <1>6, <1>7, <1>8, <1>10

\* The part file, the rows, the ticks and the goroutines keep their shape, and no
\* progress ever exceeds its chunk.
THEOREM DownloadTyped == Spec => []TypeOK
<1>1. Init => Shape /\ Control
  BY AllInit
<1>2. Shape /\ Control /\ [Next]_vars => (Shape /\ Control)'
  <2>1. Shape /\ Control /\ UNCHANGED vars => (Shape /\ Control)'
    <3> SUFFICES ASSUME Shape, Control, UNCHANGED vars PROVE (Shape /\ Control)'
      OBVIOUS
    <3>1. /\ Chunk' = Chunk /\ Count' = Count /\ \A c : Length(c)' = Length(c)
          /\ Disks' = Disks /\ Claims' = Claims /\ Cells' = Cells /\ Snapshots' = Snapshots
      BY ChunksStay DEF vars
    <3>2. QED
      BY <3>1 DEF vars, runVars, Shape, Control, Phases, Placed
  <2>2. QED
    BY <2>1, ShapePreserved, ControlPreserved
<1>3. QED
  BY <1>1, <1>2, ShapeIsType, PTL DEF Spec

\* CalculateChunks leaves no gap and no overlap in any file, for any number of
\* connections, and no chunk is longer than another by more than a byte.
THEOREM ChunksTileEveryFile == Spec => []ChunksTile
<1>1. Init => plan \in Plans
  BY DEF Init
<1>2. plan \in Plans /\ [Next]_vars => (plan \in Plans)'
  BY PlanStays DEF vars
<1>3. QED
  BY <1>1, <1>2, Tiles, PTL DEF Spec

\* The inductive invariant.
AllInv == Shape /\ Control /\ DiskInv /\ StreamInv /\ KnownInv /\ CompleteInv

\* The parts together are inductive.
LEMMA AllPreserved ==
  ASSUME Apart
  PROVE  AllInv /\ [Next]_vars => AllInv'
<1>1. AllInv /\ Next => AllInv'
  BY ShapePreserved, ControlPreserved, DiskPreserved, StreamPreserved, KnownPreserved, CompletePreserved
     DEF AllInv
<1>2. ASSUME AllInv, UNCHANGED vars PROVE AllInv'
  <2>1. /\ Chunk' = Chunk /\ Byte' = Byte /\ Count' = Count
        /\ \A c : Length(c)' = Length(c) /\ Start(c)' = Start(c)
        /\ \A c, n : Got(c, n)' = Got(c, n)
        /\ Disks' = Disks /\ Claims' = Claims /\ Cells' = Cells /\ Snapshots' = Snapshots
    BY <1>2, ChunksStay DEF vars
  <2>2. (Shape /\ Control /\ DiskInv)'
    BY <1>2, <2>1 DEF AllInv, vars, runVars, Shape, Control, Phases, Placed, DiskInv
  <2>3. StreamInv' /\ CompleteInv'
    BY <1>2, <2>1 DEF AllInv, vars, runVars, StreamInv, CompleteInv
  <2>4. \A c, n : Sound(c, n)' = Sound(c, n) /\ Usable(c, n)' = Usable(c, n)
    BY <1>2, <2>1 DEF vars, Sound, Usable
  <2>5. KnownInv'
    <3>1. VersionInv => VersionInv'
      BY <1>2, <2>1 DEF vars, VersionInv
    <3>2. OrderInv => OrderInv'
      BY <1>2, <2>1 DEF vars, runVars, OrderInv
    <3>3. ProgressInv => ProgressInv'
      BY <1>2, <2>1, <2>4 DEF vars, runVars, ProgressInv
    <3>4. QED
      BY <1>2, <3>1, <3>2, <3>3 DEF AllInv, KnownInv, vars
  <2>6. QED
    BY <2>2, <2>3, <2>5 DEF AllInv
<1>3. QED
  BY <1>1, <1>2

\* The parts in every reachable state.
LEMMA AllCorrect ==
  ASSUME Apart
  PROVE  Spec => []AllInv
<1>1. Init => AllInv
  BY AllInit DEF AllInv
<1>2. AllInv /\ [Next]_vars => AllInv'
  BY AllPreserved
<1>3. QED
  BY <1>1, <1>2, PTL DEF Spec

\* What Start counts as progress is on disk, after every sequence of stops, retries,
\* late ticks and either crashes or a part file that others cut.
THEOREM ProgressIsReal ==
  ASSUME Apart
  PROVE  Spec => []ProgressIsOnDisk
<1>1. AllInv => ProgressIsOnDisk
  BY DEF AllInv, KnownInv, ProgressInv, CompleteInv, Sound, ProgressIsOnDisk
<1>2. QED
  BY <1>1, AllCorrect, PTL

\* A chunk is never stitched together from two representations of the file when the
\* server tells them apart, however often its request is resumed or retried.
THEOREM ChunksAreOneVersion ==
  ASSUME Apart
  PROVE  Spec => []ChunkIsOneVersion
<1>1. ASSUME AllInv PROVE ChunkIsOneVersion
  <2>1. ASSUME plan.known, plan.validated, phase \in {"reconciled", "running", "flushing"}, NEW c \in Chunk
        PROVE  \A a, b \in Got(c, chunk[c].got) : disk.byte[a] = disk.byte[b]
    <3>1. Sound(c, chunk[c].got)
      BY <1>1, <2>1 DEF AllInv, KnownInv, ProgressInv
    <3>2. QED
      BY <2>1, <3>1 DEF Sound, Usable
  <2>2. ASSUME ~plan.known, result = "complete", NEW c \in Chunk
        PROVE  \A a, b \in Got(c, chunk[c].got) : disk.byte[a] = disk.byte[b]
    BY <1>1, <2>2 DEF AllInv, StreamInv, Got
  <2>3. QED
    BY <2>1, <2>2 DEF ChunkIsOneVersion
<1>2. QED
  BY <1>1, AllCorrect, PTL

\* When Start returns nil no byte of the file is missing (README, "re-downloaded
\* rather than published as if it were complete"), as long as crashes and lost
\* files do not meet.
THEOREM PublishedWhole ==
  ASSUME Apart
  PROVE  Spec => []PublishedIsWhole
<1>1. ASSUME AllInv, result = "complete" PROVE \A b \in Byte : disk.byte[b] # "hole"
  <2>1. ASSUME NEW b \in Byte PROVE disk.byte[b] # "hole"
    <3>1. PICK c \in Chunk : Start(c) <= b /\ b <= End(c)
      BY <1>1, EveryByteHasAChunk DEF AllInv, Shape
    <3>2. /\ End(c) = Start(c) + Length(c) - 1 /\ Start(c) \in Nat /\ Length(c) \in Nat /\ b \in Nat
      BY <1>1, EndIs, Facts DEF AllInv, Shape
    <3>3. b \in Got(c, Length(c))
      BY <3>1, <3>2 DEF Got
    <3>4. QED
      BY <1>1, <3>3 DEF AllInv, CompleteInv
  <2>2. QED
    BY <2>1
<1>2. AllInv => PublishedIsWhole
  BY <1>1 DEF PublishedIsWhole
<1>3. QED
  BY <1>2, AllCorrect, PTL

-----------------------------------------------------------------------------
(* ResumableFile: every step stores a byte, records, delivers, begins       *)
(* anew, loses bytes, or is none of its business.                           *)

Have == {b \in Byte : disk.byte[b] # "hole"}
Recorded == UNION {Got(c, claim[c]) : c \in Chunk}

\* A row that is written claims no byte the part file lacks, unless it already did.
LEMMA RecordsHave ==
  ASSUME Shape, NEW c \in Chunk, NEW n \in Nat, claim' = [claim EXCEPT ![c] = n], plan' = plan, disk' = disk,
         n = claim[c] \/ \A b \in Got(c, n) : disk.byte[b] # "hole"
  PROVE  Recorded' \in SUBSET Byte /\ Recorded' \ Recorded \subseteq Have /\ Have' = Have
<1>1. Chunk' = Chunk /\ Byte' = Byte /\ \A d, m : Got(d, m)' = Got(d, m)
  BY ChunksStay
<1>2. \A d \in Chunk : claim'[d] = IF d = c THEN n ELSE claim[d]
  BY DEF Shape, Claims
<1>3. \A d \in Chunk : Got(d, claim[d])' = Got(d, claim'[d])
  BY <1>1
<1>4. Recorded' = UNION {Got(d, claim'[d]) : d \in Chunk}
  BY <1>1, <1>3 DEF Recorded
<1>5. \A d, m : Got(d, m) \subseteq Byte
  BY DEF Got
<1>6. ASSUME NEW b \in Recorded', b \notin Recorded PROVE b \in Have
  <2>1. PICK d \in Chunk : b \in Got(d, claim'[d])
    BY <1>4
  <2>2. d = c /\ b \in Got(c, n)
    BY <1>2, <1>6, <2>1 DEF Recorded
  <2>3. QED
    BY <1>5, <1>6, <2>1, <2>2 DEF Recorded, Have
<1>7. Recorded' \in SUBSET Byte
  BY <1>4, <1>5
<1>8. QED
  BY <1>1, <1>6, <1>7 DEF Have

\* A step that touches neither rows nor bytes.
LEMMA SetsStay ==
  ASSUME plan' = plan
  PROVE  /\ disk'.byte = disk.byte => Have' = Have
         /\ claim' = claim => Recorded' = Recorded
<1>1. Chunk' = Chunk /\ Byte' = Byte /\ \A d, m : Got(d, m)' = Got(d, m)
  BY ChunksStay
<1>2. ASSUME claim' = claim PROVE Recorded' = Recorded
  <2>1. \A d \in Chunk : Got(d, claim[d])' = Got(d, claim[d])
    BY <1>1, <1>2
  <2>2. QED
    BY <1>1, <2>1 DEF Recorded
<1>3. QED
  BY <1>1, <1>2 DEF Have

\* The six things a step may do, in the words of ResumableFile.
Stores == \E b \in Byte : Have' = Have \cup {b} /\ Recorded' = Recorded /\ result' = result
Records == Recorded' \in SUBSET Byte /\ Recorded' \ Recorded \subseteq Have /\ Have' = Have /\ result' = result
Delivers == Have = Byte /\ result' = "complete" /\ Have' = Have /\ Recorded' = Recorded
Reopens == result' # "complete" /\ Have' = Have /\ Recorded' = Recorded
Loses == result # "complete" /\ Have' \in SUBSET Have /\ Recorded' = Recorded /\ result' = result
Idles == Have' = Have /\ Recorded' = Recorded /\ result' = result

\* Start itself delivers, records, begins anew, or does none of it.
LEMMA StepsOfStart ==
  ASSUME AllInv, StartStep \/ Open \/ Crash, plan' = plan
  PROVE  Records \/ Delivers \/ Reopens \/ Idles
<1>0. Shape /\ Control
  BY DEF AllInv
<1>1. CASE Open \/ OpenFails \/ Crash
  BY <1>1, SetsStay DEF Open, OpenFails, Crash, Reopens
<1>2. CASE Reconcile \/ Spawn \/ Wait
  BY <1>2, SetsStay DEF Reconcile, Spawn, Wait, Idles
<1>3. CASE Truncate
  <2>1. disk'.byte = disk.byte
    BY <1>0, <1>3 DEF Truncate, Shape, Disks
  <2>2. QED
    BY <1>3, <2>1, SetsStay DEF Truncate, Idles
<1>4. CASE Flush
  <2>1. next \in Chunk /\ chunk[next].got \in Nat
    BY <1>0, <1>4, Facts DEF Flush
  <2>2. chunk[next].got = claim[next] \/ \A b \in Got(next, chunk[next].got) : disk.byte[b] # "hole"
    <3>1. CASE plan.known
      BY <1>4, <2>1, <3>1 DEF Flush, AllInv, KnownInv, ProgressInv, Sound
    <3>2. CASE ~plan.known
      <4>1. next = 0
        BY <1>0, <2>1, <3>2, Facts
      <4>2. QED
        BY <1>4, <3>2, <4>1 DEF Flush, AllInv, StreamInv
    <3>3. QED
      BY <3>1, <3>2
  <2>3. QED
    BY <1>0, <1>4, <2>1, <2>2, RecordsHave DEF Flush, Records
<1>5. CASE Return
  <2>1. Have' = Have /\ Recorded' = Recorded
    BY <1>5, SetsStay DEF Return
  <2>2. CASE result' = "complete"
    <3>1. \A c \in Chunk : chunk[c].status = "completed" /\ phase = "flushing"
      BY <1>5, <2>2 DEF Return
    <3>2. \A c \in Chunk : chunk[c].got = Length(c) /\ \A b \in Got(c, Length(c)) : disk.byte[b] # "hole"
      <4>1. \A c \in Chunk : chunk[c].got = Length(c)
        BY <1>0, <3>1 DEF Control, Placed
      <4>2. CASE plan.known
        BY <3>1, <4>1, <4>2 DEF AllInv, KnownInv, ProgressInv, Sound
      <4>3. CASE ~plan.known
        <5>1. 0 \in Chunk /\ chunk[0].body \in Versions
          BY <1>0, <4>3, Facts DEF Cell
        <5>2. QED
          BY <3>1, <4>1, <4>3, <5>1 DEF AllInv, StreamInv, Versions, Got
      <4>4. QED
        BY <4>2, <4>3
    <3>3. ASSUME NEW b \in Byte PROVE b \in Have
      <4>1. PICK c \in Chunk : Start(c) <= b /\ b <= End(c)
        BY <1>0, EveryByteHasAChunk DEF Shape
      <4>2. /\ End(c) = Start(c) + Length(c) - 1 /\ Start(c) \in Nat /\ Length(c) \in Nat /\ b \in Nat
        BY <1>0, EndIs, Facts DEF Shape
      <4>3. b \in Got(c, Length(c))
        BY <4>1, <4>2 DEF Got
      <4>4. QED
        BY <3>2, <4>3 DEF Have
    <3>4. Have = Byte
      BY <3>3 DEF Have
    <3>5. QED
      BY <2>1, <2>2, <3>4 DEF Delivers
  <2>3. CASE result' # "complete"
    BY <2>1, <2>3 DEF Reopens
  <2>4. QED
    BY <2>2, <2>3
<1>6. QED
  BY <1>1, <1>2, <1>3, <1>4, <1>5 DEF StartStep

\* A stream empties the file, stores its bytes and records them at the end.
LEMMA StepsOfStream ==
  ASSUME AllInv, StreamStep, plan' = plan
  PROVE  Stores \/ Records \/ Loses \/ Idles
<1>0. /\ Shape /\ Control /\ ~plan.known /\ 0 \in Chunk
      /\ \A b \in Byte : b \in Nat /\ b < plan.size
      /\ \A b \in Nat : b < plan.size => b \in Byte
      /\ Start(0) = 0 /\ next \in Nat
  <2>1. ~plan.known
    BY DEF StreamStep, StreamResponds, StreamWrites, StreamEnds, StreamFails, AllInv, Control, Phases
  <2>2. QED
    BY <2>1, Facts DEF AllInv
<1>1. CASE StreamResponds
  <2>1. Have' = {} /\ result # "complete"
    BY <1>0, <1>1, ChunksStay DEF StreamResponds, Have, Control, Phases
  <2>2. QED
    BY <1>1, <2>1, SetsStay DEF StreamResponds, Loses
<1>2. CASE StreamWrites
  <2>1. /\ next \in Byte /\ chunk[0].body \in Versions
        /\ \A b \in Byte : disk'.byte[b] = IF b = next THEN chunk[0].body ELSE disk.byte[b]
    BY <1>0, <1>2 DEF StreamWrites, Shape, Disks, Cells, Cell
  <2>2. Have' = Have \cup {next}
    BY <2>1, ChunksStay DEF Have, Versions
  <2>3. QED
    BY <1>2, <2>1, <2>2, SetsStay DEF StreamWrites, Stores
<1>3. CASE StreamEnds
  <2>1. \A b \in Byte : disk.byte[b] = chunk[0].body /\ disk.byte[b] # "hole"
    BY <1>0, <1>3, Facts DEF StreamEnds, AllInv, StreamInv, Cell, Versions
  <2>2. \A b \in Got(0, plan.size) : disk.byte[b] # "hole"
    BY <2>1 DEF Got
  <2>3. plan.size \in Nat
    BY <1>0, Facts
  <2>4. QED
    BY <1>0, <1>3, <2>2, <2>3, RecordsHave DEF StreamEnds, Records
<1>4. CASE StreamFails
  BY <1>4, SetsStay DEF StreamFails, Idles
<1>5. QED
  BY <1>1, <1>2, <1>3, <1>4 DEF StreamStep

\* A goroutine stores the bytes it reads and records its progress.
LEMMA StepsOfChunk ==
  ASSUME AllInv, NEW c \in Chunk, ChunkStep(c), plan' = plan
  PROVE  Stores \/ Records \/ Idles
<1>0. Shape /\ Control
  BY DEF AllInv
<1>1. CASE GiveUp(c) \/ Completed(c) \/ Respond(c) \/ CountWritten(c) \/ Fail(c) \/ Retry(c)
  <2>1. UNCHANGED <<disk, claim, result>>
    BY <1>1 DEF GiveUp, Completed, Respond, CountWritten, Fail, Retry, ChunkOnly, runVars
  <2>2. QED
    BY <2>1, SetsStay DEF Idles
<1>2. CASE Write(c)
  <2> DEFINE p == Start(c) + chunk[c].got
  <2>1. /\ p \in Byte /\ chunk[c].body \in Versions
        /\ \A b \in Byte : disk'.byte[b] = IF b = p THEN chunk[c].body ELSE disk.byte[b]
    BY <1>0, <1>2, Written, Facts DEF Cell
  <2> HIDE DEF p
  <2>2. Have' = Have \cup {p}
    BY <2>1, ChunksStay DEF Have, Versions
  <2>3. QED
    BY <1>2, <2>1, <2>2, SetsStay DEF Write, Stores, runVars
<1>3. CASE Emit(c)
  <2>1. phase = "running" /\ plan.known /\ chunk[c].got \in Nat
    BY <1>0, <1>3, Facts DEF Emit, Control, Phases, Placed
  <2>2. \A b \in Got(c, chunk[c].got) : disk.byte[b] # "hole"
    BY <2>1 DEF AllInv, KnownInv, ProgressInv, Sound
  <2>3. QED
    BY <1>0, <1>3, <2>1, <2>2, RecordsHave DEF Emit, Records, runVars
<1>4. QED
  BY <1>1, <1>2, <1>3 DEF ChunkStep

\* trackSpeed records, and only others lose bytes.
LEMMA StepsOfOthers ==
  ASSUME AllInv, plan' = plan,
         \/ Tick \/ Cancel \/ Change
         \/ \E t \in ticks : RecordTick(t)
         \/ \E size \in 0..plan.size : Remove(size)
  PROVE  Records \/ Loses \/ Idles
<1>0. Shape /\ Control
  BY DEF AllInv
<1>1. CASE Tick \/ Cancel \/ Change
  BY <1>1, SetsStay DEF Tick, Cancel, Change, Idles, runVars
<1>2. ASSUME NEW t \in ticks, RecordTick(t) PROVE Records
  <2>1. plan.known /\ t.chunk \in Chunk /\ t.got \in Nat
    BY <1>0, Facts DEF Control, Phases
  <2>2. \A b \in Got(t.chunk, t.got) : disk.byte[b] # "hole"
    BY <2>1 DEF AllInv, KnownInv, ProgressInv, Sound
  <2>3. QED
    BY <1>0, <1>2, <2>1, <2>2, RecordsHave DEF RecordTick, Records, runVars
<1>3. ASSUME NEW size \in 0..plan.size, Remove(size) PROVE Loses
  <2>1. Have' \in SUBSET Have
    BY <1>3, ChunksStay DEF Remove, Have
  <2>2. QED
    BY <1>3, <2>1, SetsStay DEF Remove, Loses, runVars
<1>4. QED
  BY <1>1, <1>2, <1>3

\* The downloader implements ResumableFile: no row newly claims what the part file
\* lacks, and only a whole file is delivered, across every stop, retry, late tick,
\* failed start, and either every crash or every loss of the part file.
THEOREM ResumableFileImplemented ==
  ASSUME Apart
  PROVE  Spec => ImplementsResumableFile
<1>1. Init => Promised!Init
  <2>1. ASSUME Init PROVE Promised!Init
    <3>1. Have = {}
      BY <2>1 DEF Init, Have
    <3>2. Recorded = {}
      <4>1. \A c \in Chunk : Got(c, 0) = {}
        BY <2>1, EndIs, CountOK DEF Init, Got, Byte
      <4>2. QED
        BY <2>1, <4>1 DEF Init, Recorded
    <3>3. (result = "complete") = FALSE
      BY <2>1 DEF Init
    <3>4. QED
      BY <3>1, <3>2, <3>3 DEF Promised!Init, Have, Recorded
  <2>2. QED
    BY <2>1
<1>2. AllInv /\ [Next]_vars => [Promised!Next]_(Promised!fileVars)
  <2> SUFFICES ASSUME AllInv, [Next]_vars PROVE [Promised!Next]_(Promised!fileVars)
    OBVIOUS
  <2>1. plan' = plan /\ Byte' = Byte
    BY PlanStays, ChunksStay DEF vars
  <2>2. Stores \/ Records \/ Delivers \/ Reopens \/ Loses \/ Idles
    <3>1. CASE UNCHANGED vars
      BY <2>1, <3>1, SetsStay DEF vars, runVars, Idles
    <3>2. CASE Next
      BY <2>1, <3>2, StepsOfStart, StepsOfStream, StepsOfChunk, StepsOfOthers DEF Next
    <3>3. QED
      BY <3>1, <3>2
  <2>3. CASE Stores
    BY <2>1, <2>3 DEF Stores, Have, Recorded, Promised!Next, Promised!Store
  <2>4. CASE Records
    BY <2>1, <2>4 DEF Records, Have, Recorded, Promised!Next, Promised!Record
  <2>5. CASE Delivers
    BY <2>1, <2>5 DEF Delivers, Have, Recorded, Promised!Next, Promised!Deliver
  <2>6. CASE Reopens
    BY <2>1, <2>6 DEF Reopens, Have, Recorded, Promised!Next, Promised!Reopen
  <2>7. CASE Loses
    BY <2>1, <2>7 DEF Loses, Have, Recorded, Promised!Next, Promised!Lose
  <2>8. CASE Idles
    BY <2>1, <2>8 DEF Idles, Have, Recorded, Promised!fileVars
  <2>9. QED
    BY <2>2, <2>3, <2>4, <2>5, <2>6, <2>7, <2>8
<1>3. QED
  BY <1>1, <1>2, AllCorrect, PTL DEF Spec, ImplementsResumableFile, Promised!Spec
=============================================================================
