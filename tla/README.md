# Lunefetch in TLA+

A verification development of Lunefetch, a download manager written in Go: a
queue of downloads kept in SQLite, a limit on how many run at a time, one worker
per running download, several connections per worker, pause, resume, cancel,
a scheduler, a history, and a browser extension that hands downloads over.

The modules are translated from the code. A definition that models code says so
in `PROJECT.json` ("map"), with the lines it stands for.

## The system

| part | state | operations | talks to |
|---|---|---|---|
| downloads table (`internal/storage/state.go`) | rows of `downloads` and `chunks` | one SQL statement or transaction per call, one connection | everybody |
| queue manager (`internal/queue/manager.go`) | `active`, `maxConcurrent`, mutex `m.mu` | `TryStart`, `EnqueueScheduled`, `OnDone`, `Remove`, `SetMaxConcurrent`, `Drain` | the table; `startFn` in a new goroutine |
| downloads page (`internal/ui/pages/downloads.go`) | `dp.active`, `dp.pending`, `shuttingDown`, the wait group, mutex `dp.mu` | `StartDownload`, `finalize`, `promptConflict`, pause, resume, cancel, delete, `DownloadAgain`, `Shutdown` | manager, table, downloader |
| chunk downloader (`internal/core/downloader.go`) | progress per chunk, the part file | `Start`, chunk goroutines, `trackSpeed`, `Cancel` | server, file, chunk rows (callback) |
| shell (`main.go`, `internal/ui/layout/desktop.go`) | `AddURLCh`, the stop channel | recovery, scheduler loop, `HandleAdd`, quitting | manager, table, page |
| history page | none | restore, purge | table, part files |
| publication (`finalize`, `promptConflict`, `MoveFile`, `ReplaceFile`, `UniqueDownloadPath`) | the download folder | link, unlink, rename, Keep Both, Replace, Cancel | file system, table, user |
| extension (`extension/src`) | `intercepted`, the list of failures, a send per download | the three listeners that hand over, retry, clear | browser, native host |
| native host (`cmd/native-host`) | one process per message | one message, one request, one answer | extension, API |
| local API (`internal/api`) | none | offer a request to the channel | `AddURLCh` of 16 |
| limiter, disk space, config, single instance, notifications, categories, paths, view store, widgets | configuration, caches | sequential helpers | |

What is hard in it:

- `m.mu` covers the manager's fields but not the table, `dp.mu` covers the page's
  maps but not the status of a row: every status is written outside both, by the
  UI thread, the scheduler, `HandleAdd`, the workers and the manager;
- a goroutine started by the manager has a slot before it has an entry in
  `dp.active`, and loses the entry before it loses the slot;
- `OnDone` of a stopping worker drains the queue and starts others, also while
  `Shutdown` waits;
- only the rows and the part files survive a crash, and they are written by
  different steps;
- the user reorders the queue in three reads and two transactions, while rows enter
  and leave it;
- a file gets its name in one system call, loses its part file in another, and the
  table hears of it in two more; other programs use the same folder;
- an answer of the native host may come after its send has timed out, when the
  application has long taken the address; the worker of the extension may be ended
  at any time, and with it all it remembers;
- progress is recorded by three writers (the chunk goroutine, `trackSpeed`, the
  flush at the end), outside the lock under which it was read.

What makes each part correct: the manager never runs more than the limit, never
runs a download twice, never leaks a slot, never idles while somebody waits, and
never holds its mutex for ever; the page always finds every running worker, has
one owner per open conflict, and leaves nothing running when it has shut down; a
completed row has its file, a row that says downloading has a worker; the
downloader records only progress that is on disk and reports only whole files;
publication overwrites nothing unasked and loses no verified byte; the browser lets
go of a download only once the application has taken it, and what was taken ends in a
row or an error.

## The modules

`Storage` <- `QueueManager` <- `Workers` <- `Lunefetch` is one specification in four
layers (each EXTENDS the one before). `QueueMoves` extends the second of them.
`ChunkDownload` is the inside of one worker, `Publication` (over `Folder`) what comes
after it. `Handoff` (over `Intake`) is the way from the browser to the table.

**Storage** is the `downloads` table: `Row` keeps what tells the behaviours apart
(status, queue position, whether a start time is set, whether the row is live,
deleted or purged), and each operator is one statement, a function from table to
table. Names, URLs, sizes and times are left out. Ids are handed out in increasing
order, so `created_at ASC` is the order of the ids.

**QueueManager** is `queue.Manager`. A method is split at its SQL statements: `op` is
the method that holds `m.mu` and the statement it runs next; anything that does not
need the mutex may happen in between. `task[g]` is the download that a goroutine
started by `startFn` answers for until `OnDone`. `External` is every statement the
rest of the program may run at any time; `ProcessEnds` may cut any method short.
`WriteFaults` lets the manager's statements fail, their errors being ignored by the code.

**SlotPool** is what the manager promises: a set of holders that never grows beyond
the limit in force and gives a slot to nobody who has one. It says nothing of tables,
mutexes or queues. `QueueManager!ImplementsSlotPool` is the refinement (`held` is
`Manager.active`, `limit` is `Manager.maxConcurrent`).

**QueueMoves** adds the user who reorders the queue: `move` is the statement
`MoveQueuePosition` is about to run and what it has read so far. The listing of
`ShiftQueuePositions`, its transaction, the read of the position, the count and the
swap are five steps. `MoveInQueue` runs on the UI thread, so while it lasts only
`Background` happens: methods in progress, workers that end, downloads that
`HandleAdd` adds. Otherwise `QueueNext` happens, but for the calls that would leave a
queued row without a position (`Orderly`: `DeleteDownload` of the page writes
"cancelled" before it calls `Remove`, whose statement sets the position to NULL).
`late` is no state of the code: it remembers that a swap was made for a row that had
left the queue, after which positions need not be distinct any more (Observed, below).

**Workers** follows a goroutine through `StartDownload`, the goroutine around
`Downloader.Start`, `finalize` and the conflict dialog, in `phase[g]`; `entries`,
`pending` and `shuttingDown` are the fields under `dp.mu`, `published` the files at
their destination. `Downloader.Start` is seen from its caller: it returns nil once
complete, an error at any time, or when its context is cancelled (`Return`), which is
what ChunkDownload establishes.

**Lunefetch** adds the other actors: `ui` is the handler the UI thread is in and the
step it is at, `sched` the iteration of the scheduler, `add` the `HandleAdd` in
progress. A handler is split at every statement and every lock. `Shutdown` waits, as
the code does, for every goroutine on the wait group; `Exit` ends the process at
`Quit`, or anywhere (`Crash`), and `Reconcile`, `Drain` start the next one. Seen
from the manager all of this is `QueueManager` again (`ImplementsQueueManager`), so
what is proved of the manager holds in the application.

**ChunkDownload** is `Downloader.Start`, called again after every stop: reading the
rows, `reconcileDiskProgress`, growing the file, the loop that spawns the chunks, the
retries, the three writers of progress, the checks before it returns. The part file
is a size and bytes, each a hole or the name of the representation it came from. One
read is one byte: a read of more is several steps, which allows more interruptions
than the code has. Bytes, chunk lengths and the formula of `CalculateChunks` are real;
HTTP is what a response is good for (`Accepts`, `MayFail`).

A file of unknown size (`plan.known` is FALSE) has one chunk and takes the path of
`startUnknownSize` (`StreamResponds`, `StreamWrites`, `StreamEnds`, `StreamFails`): the
part file is cut once there is an answer, never before, nothing is verified against a
size, and every start is from nothing.

**ResumableFile** is what the downloader promises: rows never newly claim what is not
on disk, and only a whole file is delivered.

**Folder** is a directory as system calls see it: what each path holds, and which
names are links to which part file, because what is written through one shows in the
other. Part files are in the folder of their destination (`partPath`), so `MoveFile`
never crosses devices and its copying branch is idle.

**Publication** is `finalize`, `promptConflict` and `DownloadAgain` over that folder, one
system call or statement per step, the death of the process between any two. `job`
is where a worker, or the answer to its dialog, is; `desk` what the UI thread is doing;
`owed` the downloads whose verified bytes the user has not given up (by Replace, by
Cancel in the dialog, by Download Again, by deletion from the history). "resumable"
stands for every status from which the queue may start a row, the stop of a worker
that fetches is one step, and the race of a start with a delete is left to Lunefetch.
A missing part file resets progress at once; the crash in that window is the subject
of `zero_filled`.

**Custody** is what the integration promises: the browser's copy goes only after the
application has taken the address. `Handoff!ImplementsCustody` is the refinement.

**Intake** is the application's end: the handler of the API, the Add dialog, the
channel, and `addURLLoop` through `HandleAdd`, split at the query, the server and the
insertion. Rows are counted per address. An error of `FindByURL`, which `HandleAdd`
takes for "not in the list", and Restore, which looks at no address, are left out.

**Handoff** is the browser's end: per transfer the browser's `copy`, whether its event
is still due, what the extension is doing (`job`), and one native host process per kind
of send. A `Timeout` leaves the process running: it may deliver the address later
(`HostDelivers`), or never answer. `WorkerRestart` forgets what is in memory and lets a
held response through. Settings, site rules and capture rules are one choice
(`Ignore`), the ways a host can fail are one outcome ("refused"), `storageSet` is
immediate, one failure is retried at a time, and the erase after a cancel only reports.

The theorems and their proofs are in **QueueManagerProofs**, **QueueMovesProofs** (which
uses it), **LunefetchProofs** (likewise), **ChunkDownloadProofs**, **PublicationProofs** and
**HandoffProofs**; `MC*` modules give the constants values.

## The runs

| run | configuration | what it asks |
|---|---|---|
| `queue` | `QueueMoves` with 3 downloads, limit up to 2, 2 goroutines, empty table or a queue out of id order; rows created, deleted, restored and moved at any time; exits anywhere | `TypeOK`, `SlotHasOneOwner`, `WorkConserving`, `DistinctPositions`, `ImplementsSlotPool`, `OrderIsKept` |
| `queue_faults` | 2 downloads, statements of the manager may fail, rows scheduled, cancelled, deleted, restored, purged and reset and the process exiting at any time, fairness | `MutexReleased`, `LoopIsBounded` |
| `app_stopping` | 2 downloads, limit 1, both completed at first; pause, pause all, cancel, delete, resume, Download Again, history, conflicts, shutdown | `EntriesAreWorkers`, `ConflictHasOneOwner`, `ShutdownQuiesces`, `ImplementsQueueManager` |
| `app_restarting` | 2 downloads, limit up to 2, empty table; add, schedule, delete, change the limit, crash | `AppTypeOK`, `CompletedHasFile`, `DownloadingHasWorker` |
| `app_progress` | 2 downloads, limit 1; resume, cancel, shutdown, fairness | `ShutdownReturns`, `CancelReleasesSlot` |
| `download` | files of 2 to 4 bytes in 1 to 3 chunks, or of unknown size, up to 1 retry, servers that fail and change the file, crashes or lost part files, fairness | `TypeOK`, `ChunksTile`, `ProgressIsOnDisk`, `ChunkIsOneVersion`, `ImplementsResumableFile`, `CancelStops` |
| `handoff` | 2 transfers of one address, one that Firefox holds or the menu sends, one that is only reported; a channel of 1, a list of 2 failures, fairness | `HandoffTypeOK`, `UniqueUrls`, `ImplementsCustody`, `FailureIsKept`, `HeldIsSettled`, `PendingIsAnswered` |
| `publish` | 2 downloads of one name, the second of unknown size, one other name to keep both under; other programs, deletion, restore, purge, Download Again, restarts anywhere | `TypeOK`, `BytesSurvive`, `CompletedIsFound`, `NothingOverwritten` |
| `quit_queue`, `cancel_lost`, `zero_filled`, `stitched` | one or two downloads, the two or three things that matter | the four findings below, each a sentence of the repository that the code does not keep |

Why the bounds are enough. Three downloads and two slots are the least in which a
drain starts one row while another waits, a slot is freed between two statements of a
method, and a gap appears in the middle of the queue (with two ids `COUNT + 1` and
`MAX + 1` cannot differ in a way that collides). Positions and order in longer queues
are the theorems' business: three rows never make a swap that is late collide, five do.
Two downloads and one slot are the
least in which a stopping worker hands its slot on. Two bytes in one chunk let a
request be resumed in the middle; two chunks let them differ in anything. As many
goroutines as slots suffice, since `SlotHasOneOwner` bounds their number. Two transfers
of one address are the least in which an interception is claimed by the other event
and a retry meets a late success; with a channel of one the second request is refused.
Two downloads of one name are the least in which each finds the other's file in its
way; with two names Keep Both has a free one, or none. The
actions that need a bound name it (`MaxPos`, `MaxLimit`, `Ops`, `Externals`,
`SetStatuses`, `Plans`): the first is never reached, a queue of n rows having
positions up to n + 1 in these runs, the others choose what happens.

Symmetry of the goroutines is used in safety runs only. Deadlock is checked in every
passing run; the runs of the findings stop where they like.

`DownloadingHasWorker` is asked without pause and cancel on purpose: a pause or a
cancel between the registration of a worker and its status write is overwritten
(`downloads.go:407-409`), so it does not hold there. That window is the finding
`cancel_lost`; with `"pause"` in `Ops` of `MCRestarting.cfg` TLC shows the row that
says downloading without a worker.

`CompletedHasFile` is likewise asked without Download Again (Observed, below).

In `download` a behaviour has crashes or a part file that others touch, never both:
with both, `zero_filled` shows that neither property holds.

### Fairness

`QueueFairness`: a method of the manager that runs goes on, `main` recovers. `Fairness`
in Lunefetch: goroutines and handlers go on; one that waits for `m.mu` gets it
(strong fairness: `sync.Mutex` hands over to a starving waiter). A worker whose
context is not cancelled may fetch for ever, since no server owes an answer, and the
user owes none to a dialog. In ChunkDownload the goroutines go on, and a request
whose context is cancelled returns (`http.NewRequestWithContext`). In Handoff timers fire
(`Timeout`), listeners return after their feedback (`ListenerReturns`), and `addURLLoop`
goes on, the client of `GetFileInfo` having a time-out of fifteen seconds. Nothing is
asked of the host process, the browser or the user.

### Findings

1. `quit_queue`: each worker that `Shutdown` stops drains the queue in `OnDone`; the
   rows become "downloading", never start, and are "paused" after the next start.
2. `cancel_lost`: a cancel (or a delete) before the worker is in `dp.active` finds
   nothing to stop; the worker writes "downloading" over it and runs.
3. `zero_filled`: reconciled progress is not recorded before the file is grown; after
   a crash in between the next start takes the zeros for data.
4. `stitched`: only a chunk that has bytes sends `If-Range`.

Observed, with no run of their own. Three are about moving a download in the queue; TLC
finds them with four, five and six rows, and the properties of `queue` are worded so as to
say what holds in spite of them:

- The swap of `MoveQueuePosition` does not look whether its row is queued still
  (`state.go:577-591`), although the function "is a no-op when the download is not an
  active queue member" (`state.go:527`). With five rows two downloads get one position:
  1 and 2 are queued, 1 is moved down and its move has counted the queue; workers end and
  both are drained; `HandleAdd` adds two others at 1 and 2; the swap then gives the one at 2
  position 1. From then on ids decide, until the next compaction. `DistinctPositions` and
  `OrderIsKept` hold until such a swap.
- Rows that are drained after the compaction leave gaps below the row to be moved, and
  its new position is clamped to the number of rows left (`state.go:560-566`): with four
  rows a move "later (delta +1)" (`downloads.go:654`) takes the last row to an earlier
  place, where "an edge row is a harmless no-op" is promised.
- For the same reason the row moved may pass, with six rows, others than its neighbour:
  it goes to the place of a row further away. `OrderIsKept` therefore allows a change of
  places to any row that is at the place the move goes to, not only to a neighbour.

The others are not spoken of clearly by any sentence of the repository, or repeat a
window that has its run:

- Download Again while the worker of the same row is past its last look at the context:
  the row is reset and the published file removed (`downloads.go:262`), then the worker
  writes "completed". `CompletedHasFile` fails with `"again"` in `Ops`, faults or not.
- Pause, pause all, cancel, and a restore of a row just deleted each meet the window
  of `cancel_lost` (`downloads.go:407-409`): with any of them in `Ops` a row may say
  downloading without a worker. Download Again does it only when a statement fails.

- Download Again while the old worker of a cancelled row winds down resets the row
  and deletes the file, then `TryStart` does nothing because the slot is still held:
  the row stays "pending" (`downloads.go:262`).
- Download Again on a cancelled row (`table.go:617`) deletes whatever has the name the
  row records, which was never its own file. The dialog names the file, so
  `NothingOverwritten` counts it as the user's choice.
- The purge of old history at startup removes rows only (`main.go:60`); their part files
  stay. CHANGELOG.md:128 speaks of purges that remove them.
- A crash, or a failed removal, between link and unlink leaves two names for one file;
  a later start of a download of unknown size cuts the published one through the part
  file. `NothingOverwritten` excepts this (`WrittenThrough`).
- A file published just before a crash is in its own way after the restart: the
  download is fetched again and asks what to do with the file that is there.
- The API accepts requests while the application shuts down, and they are lost.


## The proofs

`QueueManagerProofs`, for every number of downloads, goroutines, positions, every limit,
and every behaviour of the callers and of the other statements:

- `TypeCorrect`: `Spec => []TypeOK`.
- `OneOwner`: `[]SlotHasOneOwner`. Inductive together with `TypeOK`: the slots are the
  downloads of the goroutines plus the one `Mark` is about to hand over, and these
  are disjoint. Without the second half a mark could repeat a download that runs.
- `SlotPoolImplemented`: the initial states and each step, from `OneOwner`. The step of
  a drain needs that the row it picks is not in `active`; that of `ProcessEnds` that the
  pool may be emptied.
- `QueueIsWorkConserving`: `[]WorkConserving` when statements succeed (`WriteFaults =
  FALSE`; with faults it is false). Not inductive by itself: in the middle of a method a slot may be free
  and a row queued. `ConservingInv` says why that is only for a while: a method about to enqueue
  found no slot free and none is freed before it is through, since `m.mu` is held; a
  `TryStart` takes a free slot only when nobody is queued; and no queued row is in
  `active` or in drainQueue's `seen`, but for the one being started, so the loop ends for
  want of a slot or of a row, never because it meets a row again. That a return then means an
  empty queue needs that a non-empty set of rows has a first one in the order of
  `NextInQueue`, which the module proves from the well-foundedness of the naturals.

- `LoopsAreBounded`: `LoopIsBounded`, with failing statements too. Twice the number of rows
  drainQueue has not seen, plus one while a row is in hand, falls with every statement of a
  method. This is what `MutexReleased` rests on, but for the fairness that statements return.

They rest on `StorageAssumption` and `QueueAssumption`: ids are natural numbers, finitely
many; the limit is positive; nobody outside the manager writes "queued"
(`EnqueueDownload` is called in `manager.go` only).

`HandoffProofs`, for any number of transfers and addresses, any capacity of the channel
and any length of the list of failures:

- `OneRowPerUrl`: `[]UniqueUrls`. `ListInv` adds that from `FindByURL` to the insertion
  the address in hand has no row: nothing but `addURLLoop` adds one.
- `CustodyHolds`: `ImplementsCustody`. `Grounded` follows an acceptance on its way back:
  whatever may still lead to a cancellation (an accepted host, an entry of
  `intercepted`, a listener that passes, a cancel under way) is about an address that was
  taken. `Settled` says that a copy once gone does not come back, so that every step is
  a Take, a Release or a stutter of Custody.
- `HandoffTyped`: `[]HandoffTypeOK`, where the lengths of the list of failures and of the
  channel are what needs an argument.
- `FailuresAreKept`: `FailureIsKept`. An entry leaves the list by a clear, by the accepted
  retry of that very entry, or pushed out of a full list. The invariant is that a retry in
  progress names the entry it was begun for, whatever was added or cleared during the
  `await`.

They rest on `IntakeAssumption` and `HandoffAssumption` (a capacity of at least one, an
address for every transfer, `NoEntry` no entry).

`PublicationProofs`, for any number of downloads and names:

- `PublicationTyped`, `BytesAreKept`, `CompletedOpens`, `OverwritesNothing`:
  `[]TypeOK`, `[]BytesSurvive`, `[]CompletedIsFound` and `NothingOverwritten`.
  `FolderInv` (a part file belongs to its download, its links show what it holds) is kept
  by each system call, with a lemma that says which paths the call touches. `Safe(id)`
  says where the bytes are at each place of the worker: the part file from "moving" on,
  the name once linked, the row's name once named. Without it `BytesSurvive` is not
  inductive: an unlink would be free to drop the last link.

They rest on `FolderAssumption` and `PublicationAssumption` (row ids are positive, no
name is a part file's, the tried names are names).

`QueueMovesProofs`, for every number of downloads, goroutines and slots, with the user's
moves between any two statements:

- `MovesKeepOwners`, `MovesImplementSlotPool`, `MovesConserveWork`: what the manager
  guarantees holds under the moves too. A step of `MovesSpec` is one of the manager's, or
  writes positions only (`StepKinds`, `WritersShape`), and neither slots nor membership of
  the queue depend on positions.
- `MovesKeepPositionsDistinct`, `MovesKeepOrder`: `[]DistinctPositions` and `OrderIsKept`.
  `PlacedInv` (every queued row has a position of its own, and the row `enqueue` is about
  to put in the queue is not in it) is kept by every other step: it takes rows out, or adds
  one behind all (`Keeps`, `Adds`). In a move, `CompactInv` says that the ranks listed grow with
  the positions of the rows they are for and do not exceed them (a pigeonhole argument:
  as many rows come before a row as positions below its own are taken), so that the
  compaction, which comes late, changes no order and collides with no row added since.
  That needs `Pinned`: a row that was drained in the meantime is not put back while the
  UI thread is busy. `SwapInv` says the row keeps the position read as long as it is queued.
  Hypotheses: `WriteFaults = FALSE`, for a failed `MarkDownloading` leaves a queued row whose
  position its `OnDone` sets to NULL; and `TablesPlaced`, that the table found at the first
  start has distinct positions, which is what the theorem gives for the process before,
  unless one of its swaps came too late.

`LunefetchProofs`, for every number of downloads and goroutines, every limit and, where
nothing else is said, every set `Ops` of operations the user may call:

- `AppTypeCorrect`, `EntriesCorrect`: `[]AppTypeOK` and `[]EntriesAreWorkers`. `AppInv` adds
  what the manager guarantees and that a goroutine that answers for nothing is a new one.
- `QueueManagerImplemented`: every step is one of QueueManager, so `OneOwnerInApplication`
  and the other theorems of the manager hold in the application.
- `ConflictOwned`: `[]ConflictHasOneOwner`. `ConflictInv` adds that `Shutdown` sets the flag
  before anything else and forgets a conflict it has paused before it releases the slot.
- `ShutdownIsQuiet`: `[]ShutdownQuiesces`. `QuietInv` adds that no conflict is pending once
  the flag is set, that an answer being carried out occupies the UI thread, so `Shutdown`
  cannot have begun meanwhile, and that `Shutdown` closes with nothing left to release.
- `CompletedIsPublished`: `[]CompletedHasFile` when `"again" \notin Ops`. `CompletedInv` adds
  that a worker about to write "completed" has its file in place.
- `DownloadingIsRunning`: `[]DownloadingHasWorker` when `Ops` has none of pause, pause all,
  cancel, Download Again and history; each of them makes it false (Observed, above), but
  resume, delete, scheduling, adding, changing the limit, shutdown and crashes do not.

`LunefetchAssumption` says that `Externals` and `SetStatuses`, bounds of QueueManager, leave
out no statement that the application runs.

`ChunkDownloadProofs`, for files of every size, any number of chunks and retries:

- `DownloadTyped`: `[]TypeOK`, and `ChunksTileEveryFile`: `[]ChunksTile`. The n chunks have
  lengths q + 1 (the first r of them) and q, where size = n * q + r; that every byte is in
  a chunk needs the first chunk that starts behind it (`LeastNumber`).
- `ProgressIsReal`, `ChunksAreOneVersion`, `PublishedWhole`: `[]ProgressIsOnDisk`,
  `[]ChunkIsOneVersion` and `[]PublishedIsWhole`. `ProgressInv` says what each record of
  progress is worth: a tick, what a chunk has in memory, its row. Between the start and
  the reconciliation a row may claim what the file no longer has (`Usable`: no byte inside
  the file is missing), everywhere else every byte claimed is there (`Sound`). `OrderInv`
  says that a late tick of `trackSpeed` is never ahead of what it overwrites. Neither half
  is inductive without the other.
- `ResumableFileImplemented`: `ImplementsResumableFile`, step by step.

All but the first two assume `Apart`: no behaviour has both crashes and a part file
that others remove or cut. That is what the code needs: `zero_filled` is the behaviour
with both. `PublishedWhole` says that this finding has no other cause. `PlansAssumption`
says what a plan is: a positive size, and one chunk when the size is unknown.

Only model-checked: the liveness properties `MutexReleased`, `ShutdownReturns`,
`CancelReleasesSlot`, `CancelStops`, `HeldIsSettled` and `PendingIsAnswered`, since fairness
needs ENABLED, which is out of the prover's reach. The sentences of the four findings are
false in the model; of them only `PublishedIsWhole` has a theorem, under its hypothesis.

## Not modelled, and why

The limiter (a delay), the disk space check (an early error), configuration, widgets,
the view store (a cache replaced every 500 ms), single instance, packaging: no state
of a download, or one sequential call. Of the extension: settings and their pages, the
connection badge and its health check, menus, permissions, the batch draft. Not in the
models although they touch a download: power loss (what is written is taken to survive
the process), the address policy of the HTTP client, a response of unknown size that
ends early without its framing showing it, migrations of the table. `UpdateTotalSize`
and `DeleteWithFile` have no caller.

## Plan

1. Done: Storage, QueueManager, SlotPool, QueueMoves, Workers, Lunefetch, ChunkDownload,
   ResumableFile, Folder, Publication, Custody, Intake, Handoff; a theorem for every
   safety property that a passing run checks.
2. Proofs of what liveness rests on, as `LoopsAreBounded` is for the manager: a worker whose
   context is cancelled has a bounded number of steps left. `CancelledNeverRuns` and `QueueSurvivesShutdown` under the
   weakest hypotheses that make them true.
3. The view store and the table's selection, if they come to decide more than what is
   shown.
