------------------------------- MODULE Workers -------------------------------
(***************************************************************************)
(* The workers of internal/ui/pages/downloads.go: StartDownload, which the *)
(* queue manager runs in a goroutine of its own, the goroutine that runs   *)
(* Downloader.Start, and finalize, up to the OnDone that gives the slot    *)
(* back.  phase[g] is where goroutine g stands on that path; the name      *)
(* stays with the download while the conflict dialog is open, although the *)
(* goroutine that opened it has returned.                                  *)
(*                                                                         *)
(* dp.mu protects entries, pending and shuttingDown; the status of the row *)
(* is written outside of it, by every actor.                               *)
(***************************************************************************)
EXTENDS QueueManager

VARIABLES
  phase,         \* where each startFn goroutine stands
  cancelled,     \* has the context of the goroutine's entry been cancelled?
  entries,       \* DownloadsPage.active: the goroutines registered there
  pending,       \* DownloadsPage.pending: downloads with an open conflict
  shuttingDown,  \* DownloadsPage.shuttingDown
  published      \* downloads whose file is at its destination

workerVars == <<phase, cancelled, entries, pending, shuttingDown, published>>

\* StartDownload before it enters dp.active, on the wait group from there on,
\* and a conflict that waits for the user, then is being resolved by the user.
Starters == {"spawned", "loaded", "earlyFail", "earlyEnd"}
Registered == {"registered", "running", "verified", "stoppedOk", "stoppedErr"}
Finalizing == {"moving", "completing", "conflict", "pausing", "failing", "ending"}
Prompts == {"prompting", "placing", "discarding"}
Phases == Starters \cup Registered \cup Finalizing \cup Prompts

WorkersInit ==
  /\ phase = [g \in Goroutines |-> "spawned"]
  /\ cancelled = [g \in Goroutines |-> FALSE]
  /\ entries = {}
  /\ pending = {}
  /\ shuttingDown = FALSE

\* g answers for a download and stands at `from'.
At(g, from) == task[g] # NoId /\ phase[g] = from
Goto(g, to) == phase' = [phase EXCEPT ![g] = to]
Entry(id) == {g \in entries : task[g] = id}

\* UpdateDownloadStatus of g's row, then on to the next phase.
WriteStatus(g, from, status, to) ==
  /\ At(g, from)
  /\ db' = UpdateDownloadStatus(db, task[g], status)
  /\ Goto(g, to)
  /\ UNCHANGED <<queueVars, cancelled, entries, pending, shuttingDown, published>>

-----------------------------------------------------------------------------
(* StartDownload.                                                          *)

\* The record is gone; or the chunks or the path are unusable; or all is well.
Load(g) ==
  /\ At(g, "spawned")
  /\ IF Exists(db, task[g]) THEN Goto(g, "loaded") \/ Goto(g, "earlyFail")
                            ELSE Goto(g, "earlyEnd")
  /\ UNCHANGED <<vars, cancelled, entries, pending, shuttingDown, published>>

EarlyFail(g) == WriteStatus(g, "earlyFail", "failed", "earlyEnd")

\* Mutant: shuttingDown is not looked at under dp.mu.
RegisterLate(g) ==
  /\ At(g, "loaded")
  /\ IF Entry(task[g]) # {}
       THEN Goto(g, "earlyEnd") /\ UNCHANGED entries
       ELSE Goto(g, "registered") /\ entries' = entries \cup {g}
  /\ UNCHANGED <<vars, cancelled, pending, shuttingDown, published>>

Register(g) ==
  /\ At(g, "loaded")
  /\ IF shuttingDown \/ Entry(task[g]) # {}
       THEN Goto(g, "earlyEnd") /\ UNCHANGED entries
       ELSE Goto(g, "registered") /\ entries' = entries \cup {g}
  /\ UNCHANGED <<vars, cancelled, pending, shuttingDown, published>>

Announce(g) == WriteStatus(g, "registered", "downloading", "running")

-----------------------------------------------------------------------------
(* Downloader.Start, seen from its caller.                                 *)

\* Every chunk is complete and Start has looked at the context a last time.
Fetch(g) ==
  /\ At(g, "running")
  /\ ~cancelled[g]
  /\ Goto(g, "verified")
  /\ UNCHANGED <<vars, cancelled, entries, pending, shuttingDown, published>>

\* Mutant: Start waits for the server without looking at its context.
ReturnDeaf(g) ==
  /\ \/ At(g, "verified") /\ Goto(g, "stoppedOk")
     \/ At(g, "running") /\ ~cancelled[g] /\ Goto(g, "stoppedErr")
  /\ UNCHANGED <<vars, cancelled, entries, pending, shuttingDown, published>>

\* Start returns: nil once the bytes are verified and synced, an error on a
\* failed chunk or check, or once the context is cancelled.
Return(g) ==
  /\ \/ At(g, "verified") /\ Goto(g, "stoppedOk")
     \/ (At(g, "running") \/ At(g, "verified")) /\ Goto(g, "stoppedErr")
  /\ UNCHANGED <<vars, cancelled, entries, pending, shuttingDown, published>>

\* Mutant: a failed worker is left in dp.active.
UnregisterKept(g) ==
  /\ At(g, "stoppedOk") \/ At(g, "stoppedErr")
  /\ entries' = IF phase[g] = "stoppedErr" THEN entries ELSE entries \ {g}
  /\ Goto(g, CASE cancelled[g] -> "ending"
               [] ~cancelled[g] /\ phase[g] = "stoppedErr" -> "failing"
               [] OTHER -> "moving")
  /\ UNCHANGED <<vars, cancelled, pending, shuttingDown, published>>

\* ctx.Err() is read after dp.mu is released; a cancel that falls in between is as
\* good as one before the entry left dp.active.
Unregister(g) ==
  /\ At(g, "stoppedOk") \/ At(g, "stoppedErr")
  /\ entries' = entries \ {g}
  /\ Goto(g, CASE cancelled[g] -> "ending"
               [] ~cancelled[g] /\ phase[g] = "stoppedErr" -> "failing"
               [] OTHER -> "moving")
  /\ UNCHANGED <<vars, cancelled, pending, shuttingDown, published>>

-----------------------------------------------------------------------------
(* finalize.                                                               *)

\* Mutant: the error of MoveFile is dropped.
MoveFileUnchecked(g) ==
  /\ At(g, "moving")
  /\ published' \in {published, published \cup {task[g]}}
  /\ Goto(g, "completing")
  /\ UNCHANGED <<vars, cancelled, entries, pending, shuttingDown>>

\* MoveFile never replaces: a file of the same name is a conflict.
MoveFile(g) ==
  /\ At(g, "moving")
  /\ \/ /\ task[g] \notin published
        /\ published' = published \cup {task[g]}
        /\ Goto(g, "completing")
     \/ UNCHANGED published /\ (Goto(g, "conflict") \/ Goto(g, "failing"))
  /\ UNCHANGED <<vars, cancelled, entries, pending, shuttingDown>>

Complete(g) == WriteStatus(g, "completing", "completed", "ending")
Fail(g) == WriteStatus(g, "failing", "failed", "ending")

Conflict(g) ==
  /\ At(g, "conflict")
  /\ IF shuttingDown THEN Goto(g, "pausing") /\ UNCHANGED pending
                     ELSE Goto(g, "prompting") /\ pending' = pending \cup {task[g]}
  /\ UNCHANGED <<vars, cancelled, entries, shuttingDown, published>>

LeaveResumable(g) == WriteStatus(g, "pausing", "paused", "ending")

\* Mutant: the slot goes back without m.mu, and nobody is started.
ReleaseUnlocked(g, c) ==
  /\ active' = active \ {task[g]}
  /\ task' = [task EXCEPT ![g] = NoId]
  /\ UNCHANGED <<db, boot, maxConcurrent, op>>
  /\ Goto(g, "spawned")
  /\ cancelled' = [cancelled EXCEPT ![g] = FALSE]

\* The last call of g, or one made for it: the slot goes back.
Release(g, c) ==
  /\ OnDone(task[g], c, [task EXCEPT ![g] = NoId])
  /\ Goto(g, "spawned")
  /\ cancelled' = [cancelled EXCEPT ![g] = FALSE]

End(g) ==
  /\ \/ At(g, "ending") /\ Release(g, "worker")
     \/ At(g, "earlyEnd") /\ Release(g, "starter")
  /\ UNCHANGED <<entries, pending, shuttingDown, published>>

WorkerStep(g) ==
  \/ Load(g) \/ EarlyFail(g) \/ Register(g) \/ Announce(g)
  \/ Fetch(g) \/ Return(g) \/ Unregister(g)
  \/ MoveFile(g) \/ Complete(g) \/ Fail(g) \/ Conflict(g) \/ LeaveResumable(g)

-----------------------------------------------------------------------------
WorkersTypeOK ==
  /\ phase \in [Goroutines -> Phases]
  /\ cancelled \in [Goroutines -> BOOLEAN]
  /\ entries \subseteq Goroutines
  /\ pending \subseteq Ids
  /\ shuttingDown \in BOOLEAN
  /\ published \subseteq Ids

\* dp.active holds exactly the workers that are between their registration and
\* the return of Start: Pause, Cancel and Shutdown find every running worker, and
\* nobody else's.
EntriesAreWorkers ==
  \A g \in Goroutines :
    g \in entries <=> task[g] # NoId /\ phase[g] \in Registered

\* On the wait group: what Shutdown waits for.
OnWaitGroup(g) == task[g] # NoId /\ phase[g] \in Registered \cup Finalizing
=============================================================================
