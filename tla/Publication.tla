----------------------------- MODULE Publication -----------------------------
(***************************************************************************)
(* How a fetched file gets its name: finalize, promptConflict, openFile    *)
(* and DownloadAgain of internal/ui/pages/downloads.go, with MoveFile,     *)
(* ReplaceFile and UniqueDownloadPath of internal/core/downloader.go, the  *)
(* naming loop of HandleAdd, the history page, and everybody else who puts *)
(* files into the folder.                                                  *)
(*                                                                         *)
(* Workers and Lunefetch model when a worker runs and who may stop it;     *)
(* here a worker only fetches, then publishes one system call or statement *)
(* at a time, and the process may die between any two.  "resumable" stands *)
(* for every status from which the queue may start a download.             *)
(***************************************************************************)
EXTENDS Folder, Sequences

CONSTANTS
  Known,      \* downloads of a size the server has told
  Numbered,   \* the names HandleAdd tries, in order: "f", "f (#1)", ...
  Variants,   \* the names UniqueDownloadPath tries for each taken name
  NoName      \* not a name

ASSUME PublicationAssumption ==
  /\ Known \subseteq Ids
  /\ Numbered \in Seq(Names)
  /\ Variants \in [Names -> Seq(Names)]
  /\ NoName \notin Names

VARIABLES
  row,     \* downloads: life, status, file name, and do the chunks say all is there?
  folder,  \* the download folder
  job,     \* the worker of each download, or the dialog it has left behind
  desk,    \* what the UI thread is doing: an answer, Download Again, or a purge
  owed     \* downloads whose verified bytes the user has not given up

vars == <<row, folder, job, desk, owed>>

Life == {"none", "live", "deleted", "purged"}
Status == {"resumable", "downloading", "completed", "cancelled"}

\* moving, linked: in MoveFile; prompting: the dialog is open; placing, replacing,
\* dropped: it has been answered; naming, completing, failing: a statement is left.
Places == {"none", "fetching", "moving", "linked", "prompting", "placing",
           "replacing", "dropped", "naming", "completing", "failing"}

TypeOK ==
  /\ row \in [Ids -> [life : Life, status : Status, name : Names \cup {NoName}, done : BOOLEAN]]
  /\ folder \in Folders
  /\ \A id \in Ids : \A n \in folder.twins[id] : folder.holds[n] = folder.holds[id]
  /\ job \in [Ids -> [at : Places, dest : Names \cup {NoName}]]
  /\ \A id \in Ids : job[id].at = "none" <=> job[id].dest = NoName
  /\ desk \in [at : {"free", "answering", "deleting", "sweeping", "purging"},
               id : Ids \cup {0}, name : Names \cup {NoName}]
  /\ owed \subseteq Ids

NoJob == [at |-> "none", dest |-> NoName]
FreeDesk == [at |-> "free", id |-> 0, name |-> NoName]

NoRow(life) == [life |-> life, status |-> "resumable", name |-> NoName, done |-> FALSE]

Init ==
  /\ row = [id \in Ids |-> NoRow("none")]
  /\ folder = EmptyFolder
  /\ job = [id \in Ids |-> NoJob]
  /\ desk = FreeDesk
  /\ owed = {}

Live(id) == row[id].life = "live"
Exists(id) == row[id].life \in {"live", "deleted"}
SetStatus(id, s) == IF Exists(id) THEN [row EXCEPT ![id].status = s] ELSE row
At(id, place) == job[id].at = place
Goto(id, place) == job' = [job EXCEPT ![id].at = place]

\* The dialogs, the table and the history all run on the one UI thread.
Idle == desk.at = "free"
Answering(id) == desk' = [FreeDesk EXCEPT !.at = "answering", !.id = id]

\* openFile finds the bytes of id under the name its row records.
Found(id) == row[id].name # NoName /\ folder.holds[row[id].name] = Bytes(id, TRUE)
Somewhere(id) == \E p \in {id} \cup Names : folder.holds[p] = Bytes(id, TRUE)

-----------------------------------------------------------------------------
(* HandleAdd, CancelDownload, the table and the history.                   *)

\* FilenameExists.
NameTaken(n) == \E id \in Ids : Live(id) /\ row[id].name = n

Create(id) ==
  /\ row[id].life = "none" /\ \A before \in Ids : before < id => row[before].life # "none"
  /\ \E i \in DOMAIN Numbered :
       /\ ~NameTaken(Numbered[i]) /\ \A j \in 1..i - 1 : NameTaken(Numbered[j])
       /\ row' = [row EXCEPT ![id] = [NoRow("live") EXCEPT !.name = Numbered[i]]]
  /\ UNCHANGED <<folder, job, desk, owed>>

\* Only a worker that still fetches is in dp.active.
StopFetching(id) == job' = IF At(id, "fetching") THEN [job EXCEPT ![id] = NoJob] ELSE job

Cancel(id) ==
  /\ Idle /\ Live(id)
  /\ StopFetching(id)
  /\ row' = SetStatus(id, "cancelled")
  /\ UNCHANGED <<folder, desk, owed>>

Delete(id) ==
  /\ Idle /\ Live(id)
  /\ StopFetching(id)
  /\ row' = [row EXCEPT ![id].status = "cancelled", ![id].life = "deleted"]
  /\ UNCHANGED <<folder, desk, owed>>

Restore(id) ==
  /\ Idle /\ row[id].life = "deleted"
  /\ row' = [row EXCEPT ![id].status = "resumable", ![id].life = "live"]
  /\ UNCHANGED <<folder, job, desk, owed>>

\* Delete in the history: the part file first (RemovePartFile), then the row.
Sweep(id) ==
  /\ Idle /\ row[id].life = "deleted"
  /\ desk' = [FreeDesk EXCEPT !.at = "purging", !.id = id]
  /\ folder' = RemovePart(folder, id)
  /\ owed' = owed \ {id}
  /\ UNCHANGED <<row, job>>

Purge ==
  /\ desk.at = "purging"
  /\ desk' = FreeDesk
  /\ row' = IF row[desk.id].life = "deleted" THEN [row EXCEPT ![desk.id] = NoRow("purged")] ELSE row
  /\ UNCHANGED <<folder, job, owed>>

-----------------------------------------------------------------------------
(* The worker, up to finalize.                                             *)

\* What Start keeps of the part file: all of it when the size is known and the
\* rows say so.  A download of unknown size cuts it to nothing.
Resumes(id) == id \in Known /\ row[id].done /\ folder.holds[id] = Bytes(id, TRUE)

Begin(id) ==
  /\ Live(id) /\ row[id].status = "resumable" /\ At(id, "none") /\ desk.id # id
  /\ job' = [job EXCEPT ![id] = [at |-> "fetching", dest |-> row[id].name]]
  /\ row' = [row EXCEPT ![id].status = "downloading", ![id].done = Resumes(id)]
  /\ folder' = WritePart(folder, id, Resumes(id))
  /\ owed' = IF Resumes(id) \/ Free(folder, id) THEN owed ELSE owed \ {id}
  /\ UNCHANGED desk

\* Start returns nil: every byte verified on disk and recorded.
Verified(id) ==
  /\ At(id, "fetching")
  /\ Goto(id, "moving")
  /\ folder' = WritePart(folder, id, TRUE)
  /\ row' = IF Exists(id) THEN [row EXCEPT ![id].done = TRUE] ELSE row
  /\ owed' = owed \cup {id}
  /\ UNCHANGED desk

\* Start returns an error, or the user pauses.
Stops(id) ==
  /\ At(id, "fetching")
  /\ job' = [job EXCEPT ![id] = NoJob]
  /\ row' = SetStatus(id, "resumable")
  /\ UNCHANGED <<folder, desk, owed>>

-----------------------------------------------------------------------------
(* MoveFile and ReplaceFile.                                               *)

\* Mutant: the file is renamed, over whatever has the name.
LinkOver(id) ==
  /\ At(id, "moving") \/ At(id, "placing")
  /\ \/ /\ ~Free(folder, id)
        /\ Goto(id, "naming")
        /\ folder' = RenamePart(folder, id, job[id].dest)
     \/ Goto(id, "failing") /\ UNCHANGED folder
  /\ UNCHANGED <<row, desk, owed>>

\* Mutant: a move that fails takes the part file with it.
LinkCleansUp(id) ==
  /\ At(id, "moving") \/ At(id, "placing")
  /\ \/ /\ ~Free(folder, id) /\ Free(folder, job[id].dest)
        /\ Goto(id, "linked")
        /\ folder' = LinkPart(folder, id, job[id].dest)
     \/ Goto(id, "failing") /\ folder' = RemovePart(folder, id)
  /\ UNCHANGED <<row, desk, owed>>

\* os.Link never replaces.  A taken name is a conflict for finalize, and a failure
\* once the user has answered; any link may fail.
Link(id) ==
  /\ At(id, "moving") \/ At(id, "placing")
  /\ \/ /\ ~Free(folder, id) /\ Free(folder, job[id].dest)
        /\ Goto(id, "linked")
        /\ folder' = LinkPart(folder, id, job[id].dest)
     \/ /\ ~Free(folder, id) /\ ~Free(folder, job[id].dest)
        /\ Goto(id, IF At(id, "moving") THEN "prompting" ELSE "failing")
        /\ UNCHANGED folder
     \/ Goto(id, "failing") /\ UNCHANGED folder
  /\ UNCHANGED <<row, desk, owed>>

\* A part file that cannot be removed is an error, though the file has its name.
Unlink(id) ==
  /\ At(id, "linked")
  /\ \/ ~Free(folder, id) /\ Goto(id, "naming") /\ folder' = RemovePart(folder, id)
     \/ Goto(id, "failing") /\ UNCHANGED folder
  /\ UNCHANGED <<row, desk, owed>>

\* The file that is replaced is given up, by the user's own choice.
Replace(id) ==
  /\ At(id, "replacing")
  /\ \/ /\ ~Free(folder, id)
        /\ Goto(id, "naming")
        /\ folder' = RenamePart(folder, id, job[id].dest)
        /\ owed' = owed \ ({folder.holds[job[id].dest].of} \ {id})
     \/ Goto(id, "failing") /\ UNCHANGED <<folder, owed>>
  /\ UNCHANGED <<row, desk>>

-----------------------------------------------------------------------------
(* finalize and promptConflict.                                            *)

\* Mutant: the row keeps the name it had.
NameForgotten(id) ==
  /\ At(id, "naming")
  /\ Goto(id, "completing")
  /\ UNCHANGED <<row, folder, desk, owed>>

\* UpdateDownloadFilename, when Keep Both has chosen another name: nobody else
\* renames a row, so writing the name it has changes nothing.
Name(id) ==
  /\ At(id, "naming")
  /\ Goto(id, "completing")
  /\ row' = IF Exists(id) THEN [row EXCEPT ![id].name = job[id].dest] ELSE row
  /\ UNCHANGED <<folder, desk, owed>>

Ends(id, place, status) ==
  /\ At(id, place)
  /\ job' = [job EXCEPT ![id] = NoJob]
  /\ row' = SetStatus(id, status)
  /\ desk' = IF desk.at = "answering" /\ desk.id = id THEN FreeDesk ELSE desk
  /\ UNCHANGED <<folder, owed>>

Complete(id) == Ends(id, "completing", "completed")
Fail(id) == Ends(id, "failing", "resumable")

\* Mutant: the error of UniqueDownloadPath is not looked at.
KeepBothUnchecked(id) ==
  /\ Idle /\ At(id, "prompting")
  /\ Answering(id)
  /\ LET tried == <<job[id].dest>> \o Variants[job[id].dest]
         free == {i \in DOMAIN tried : Free(folder, tried[i])}
         unique == IF free = {} THEN NoName ELSE tried[CHOOSE i \in free : \A j \in free : i <= j]
     IN  job' = [job EXCEPT ![id] = [at |-> "placing", dest |-> unique]]
  /\ UNCHANGED <<row, folder, owed>>

\* UniqueDownloadPath looks at the folder; MoveFile comes later.
KeepBoth(id) ==
  /\ Idle /\ At(id, "prompting")
  /\ Answering(id)
  /\ LET tried == <<job[id].dest>> \o Variants[job[id].dest]
         free == {i \in DOMAIN tried : Free(folder, tried[i])}
     IN  \/ \E i \in free :
              /\ \A j \in free : i <= j
              /\ job' = [job EXCEPT ![id] = [at |-> "placing", dest |-> tried[i]]]
         \/ free = {} /\ Goto(id, "failing")
  /\ UNCHANGED <<row, folder, owed>>

ChooseReplace(id) ==
  /\ Idle /\ At(id, "prompting")
  /\ Answering(id) /\ Goto(id, "replacing")
  /\ UNCHANGED <<row, folder, owed>>

\* Cancel: the fetched bytes go, then the row says so.
Discard(id) ==
  /\ Idle /\ At(id, "prompting")
  /\ Answering(id) /\ Goto(id, "dropped")
  /\ folder' = RemovePart(folder, id)
  /\ owed' = owed \ {id}
  /\ UNCHANGED row

Dropped(id) == Ends(id, "dropped", "cancelled")

-----------------------------------------------------------------------------
(* DownloadAgain.                                                          *)

\* The record is read and its path kept, the worker stopped, the progress reset.
Again(id) ==
  /\ Idle /\ Live(id) /\ row[id].status \in {"completed", "cancelled"}
  /\ StopFetching(id)
  /\ row' = [row EXCEPT ![id].status = "resumable", ![id].done = FALSE]
  /\ desk' = [at |-> "deleting", id |-> id, name |-> row[id].name]
  /\ owed' = owed \ {id}
  /\ UNCHANGED folder

\* CleanupFile of the destination, whoever's file it is now; or it fails.
AgainDeletes ==
  /\ desk.at = "deleting"
  /\ \/ /\ folder' = RemoveName(folder, desk.name)
        /\ owed' = owed \ {folder.holds[desk.name].of}
        /\ desk' = [desk EXCEPT !.at = "sweeping"]
     \/ desk' = FreeDesk /\ UNCHANGED <<folder, owed>>
  /\ UNCHANGED <<row, job>>

\* CleanupFile of the part file; the queue may start the download from here on.
AgainSweeps ==
  /\ desk.at = "sweeping"
  /\ desk' = FreeDesk
  /\ folder' = RemovePart(folder, desk.id)
  /\ owed' = owed \ {desk.id}
  /\ UNCHANGED <<row, job>>

-----------------------------------------------------------------------------
(* Everybody else.                                                         *)

\* Another program creates a file.
Outsider(n) ==
  /\ Free(folder, n)
  /\ folder' = [folder EXCEPT !.holds[n] = Theirs]
  /\ UNCHANGED <<row, job, desk, owed>>

\* The process dies or quits; the next start purges old history and makes what was
\* downloading resumable.
Restart(old) ==
  /\ \A id \in old : row[id].life = "deleted"
  /\ job' = [id \in Ids |-> NoJob]
  /\ desk' = FreeDesk
  /\ row' = [id \in Ids |->
       IF id \in old THEN NoRow("purged")
       ELSE IF Live(id) /\ row[id].status = "downloading"
              THEN [row[id] EXCEPT !.status = "resumable"] ELSE row[id]]
  /\ UNCHANGED <<folder, owed>>

Next ==
  \/ \E id \in Ids :
       \/ Create(id) \/ Cancel(id) \/ Delete(id) \/ Restore(id) \/ Sweep(id)
       \/ Begin(id) \/ Verified(id) \/ Stops(id)
       \/ Link(id) \/ Unlink(id) \/ Replace(id) \/ Name(id) \/ Complete(id) \/ Fail(id)
       \/ KeepBoth(id) \/ ChooseReplace(id) \/ Discard(id) \/ Dropped(id)
       \/ Again(id)
  \/ Purge \/ AgainDeletes \/ AgainSweeps
  \/ \E n \in Names : Outsider(n)
  \/ \E old \in SUBSET Ids : Restart(old)

Spec == Init /\ [][Next]_vars

-----------------------------------------------------------------------------
(* Properties.                                                             *)

Chosen(n) ==
  \/ \E id \in Ids : At(id, "replacing") /\ job[id].dest = n
  \/ desk.at = "deleting" /\ desk.name = n

\* The name still is a link to the part file of a download that starts again: the
\* process died, or failed, between the two calls of MoveFile.
WrittenThrough(n) ==
  \E id \in Ids : n \in folder.twins[id] /\ folder'.holds[n] = folder'.holds[id]

\* A file under a name is replaced or removed by nothing but the user's own choice:
\* Replace for this very name, or Download Again of a row with this name.  Neither
\* a name that somebody took after it was chosen, nor a restart, nor two downloads
\* of one name overwrite a file (MoveFile, UniqueDownloadPath).
NothingOverwritten ==
  [][\A n \in Names :
       ~Free(folder, n) /\ folder'.holds[n] # folder.holds[n]
         => Chosen(n) \/ WrittenThrough(n)]_vars

\* Bytes that were verified once are never lost to a conflict, a failed move, a
\* crash or a deletion: until the user gives them up, they are in the part file or
\* under some name (finalize: "the temp file is never silently discarded").
BytesSurvive == \A id \in owed : Somewhere(id)

\* A completed download is found under the name its row records (openFile),
\* unless the user has had that file replaced or deleted.
CompletedIsFound ==
  \A id \in owed : Live(id) /\ row[id].status = "completed" => Found(id)
=============================================================================
