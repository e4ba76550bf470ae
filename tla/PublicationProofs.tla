-------------------------- MODULE PublicationProofs --------------------------
(***************************************************************************)
(* What happens to a file, for any number of downloads and names: bytes    *)
(* that were verified survive until the user gives them up, a completed    *)
(* download is found under the name of its row, and nothing is overwritten *)
(* but by the user's choice.                                               *)
(*                                                                         *)
(* The argument has two layers.  FolderInv says how names and part files   *)
(* share content; each system call keeps it, and says which paths it       *)
(* touches.  Safe(id) says, place by place, where the worker of id has its *)
(* bytes.                                                                  *)
(***************************************************************************)
EXTENDS Publication, TLAPS

-----------------------------------------------------------------------------
(* The folder.                                                             *)

\* A part file is its own download's; its links show what it holds.
FolderInv(f) ==
  /\ f \in Folders
  /\ \A id \in Ids : Free(f, id) \/ f.holds[id].of = id
  /\ \A id \in Ids : Free(f, id) => f.twins[id] = {}
  /\ \A id \in Ids : \A n \in f.twins[id] : f.holds[n] = f.holds[id]

\* A name is a link to at most one part file, and a free name to none.
LEMMA TwinsApart ==
  ASSUME NEW f, FolderInv(f), NEW id \in Ids, NEW n \in f.twins[id]
  PROVE  /\ n \in Names /\ ~Free(f, n)
         /\ \A j \in Ids : n \in f.twins[j] => j = id
BY FolderAssumption DEF FolderInv, Folders, Free, Absent, Paths

LEMMA EmptyFolderInv == FolderInv(EmptyFolder)
BY FolderAssumption DEF EmptyFolder, FolderInv, Folders, Free, Absent, Paths, Content

\* Writing through a part file changes that file and its links.
LEMMA WritePartInv ==
  ASSUME NEW f, FolderInv(f), NEW id \in Ids, NEW whole \in BOOLEAN
  PROVE  LET g == WritePart(f, id, whole)
         IN  /\ FolderInv(g) /\ g.twins = f.twins
             /\ g.holds[id] = Bytes(id, whole)
             /\ \A n \in f.twins[id] : g.holds[n] = Bytes(id, whole)
             /\ \A p \in Paths : p # id /\ p \notin f.twins[id] => g.holds[p] = f.holds[p]
<1> DEFINE g == WritePart(f, id, whole)
<1>1. /\ g.twins = f.twins
      /\ g.holds = [p \in Paths |-> IF p = id \/ p \in f.twins[id]
                                      THEN Bytes(id, whole) ELSE f.holds[p]]
      /\ g \in Folders
  BY DEF WritePart, FolderInv, Folders, Content, Bytes
<1>2. \A j \in Ids : j \notin f.twins[id]
  BY FolderAssumption DEF FolderInv, Folders
<1>3. Bytes(id, whole).of = id /\ Bytes(id, whole) # Absent
  BY FolderAssumption DEF Bytes, Absent
<1>4. \A j \in Ids : j # id => g.holds[j] = f.holds[j]
  BY <1>1, <1>2 DEF Paths
<1>5. \A p \in {id} \cup f.twins[id] : g.holds[p] = Bytes(id, whole)
  BY <1>1 DEF FolderInv, Folders, Paths
<1>6. \A j \in Ids : \A n \in f.twins[j] : j # id => g.holds[n] = f.holds[n]
  <2> SUFFICES ASSUME NEW j \in Ids, NEW n \in f.twins[j], j # id
               PROVE  g.holds[n] = f.holds[n]
    OBVIOUS
  <2>1. n \in Names /\ n \notin f.twins[id]
    BY TwinsApart
  <2>2. n # id
    BY <2>1, FolderAssumption
  <2>3. QED
    BY <1>1, <2>1, <2>2 DEF Paths
<1>7. FolderInv(g)
  BY <1>1, <1>3, <1>4, <1>5, <1>6 DEF FolderInv, Free
<1>8. QED
  BY <1>1, <1>5, <1>7

\* Removing a part file leaves every name alone.
LEMMA RemovePartInv ==
  ASSUME NEW f, FolderInv(f), NEW id \in Ids
  PROVE  LET g == RemovePart(f, id)
         IN  /\ FolderInv(g) /\ g.holds[id] = Absent
             /\ \A p \in Paths : p # id => g.holds[p] = f.holds[p]
             /\ g.twins[id] = {} /\ \A j \in Ids : j # id => g.twins[j] = f.twins[j]
<1> DEFINE g == RemovePart(f, id)
<1>1. /\ g.holds = [f.holds EXCEPT ![id] = Absent]
      /\ g.twins = [f.twins EXCEPT ![id] = {}]
  BY DEF RemovePart
<1>2. /\ g \in Folders /\ g.holds[id] = Absent /\ g.twins[id] = {}
      /\ \A p \in Paths : p # id => g.holds[p] = f.holds[p]
      /\ \A j \in Ids : j # id => g.twins[j] = f.twins[j]
  BY <1>1 DEF RemovePart, FolderInv, Folders, Content, Absent, Paths
<1>3. \A j \in Ids : \A n \in f.twins[j] : g.holds[n] = f.holds[n]
  BY <1>2, FolderAssumption DEF FolderInv, Folders, Paths
<1>4. FolderInv(g)
  BY <1>2, <1>3 DEF FolderInv, Free, Paths
<1>5. QED
  BY <1>2, <1>4

\* Removing a name leaves every part file and every other name alone.
LEMMA RemoveNameInv ==
  ASSUME NEW f, FolderInv(f), NEW n \in Names
  PROVE  LET g == RemoveName(f, n)
         IN  /\ FolderInv(g)
             /\ \A p \in Paths : p # n => g.holds[p] = f.holds[p]
<1> DEFINE g == RemoveName(f, n)
<1>1. /\ g.holds = [f.holds EXCEPT ![n] = Absent]
      /\ g.twins = [j \in Ids |-> f.twins[j] \ {n}]
  BY DEF RemoveName, Apart
<1>2. /\ g \in Folders
      /\ \A p \in Paths : p # n => g.holds[p] = f.holds[p]
      /\ \A j \in Ids : g.twins[j] = f.twins[j] \ {n}
  BY <1>1 DEF RemoveName, FolderInv, Folders, Content, Absent, Paths
<1>3. \A j \in Ids : j # n
  BY FolderAssumption
<1>4. FolderInv(g)
  BY <1>2, <1>3 DEF FolderInv, Free, Folders, Paths
<1>5. QED
  BY <1>2, <1>4

\* A file of somebody else appears.
LEMMA OutsiderInv ==
  ASSUME NEW f, FolderInv(f), NEW n \in Names, Free(f, n)
  PROVE  LET g == [f EXCEPT !.holds[n] = Theirs]
         IN  /\ FolderInv(g)
             /\ \A p \in Paths : p # n => g.holds[p] = f.holds[p]
<1> DEFINE g == [f EXCEPT !.holds[n] = Theirs]
<1>1. /\ g \in Folders /\ g.twins = f.twins
      /\ \A p \in Paths : p # n => g.holds[p] = f.holds[p]
  BY DEF FolderInv, Folders, Content, Theirs, Paths
<1>2. \A j \in Ids : j # n /\ n \notin f.twins[j]
  BY FolderAssumption, TwinsApart
<1>3. FolderInv(g)
  BY <1>1, <1>2 DEF FolderInv, Free, Folders, Paths
<1>4. QED
  BY <1>1, <1>3

\* A link to a free name shows the part file under that name too.
LEMMA LinkPartInv ==
  ASSUME NEW f, FolderInv(f), NEW id \in Ids, NEW n \in Names, ~Free(f, id), Free(f, n)
  PROVE  LET g == LinkPart(f, id, n)
         IN  /\ FolderInv(g) /\ g.holds[n] = f.holds[id]
             /\ \A p \in Paths : p # n => g.holds[p] = f.holds[p]
<1> DEFINE g == LinkPart(f, id, n)
<1>1. /\ g.holds = [f.holds EXCEPT ![n] = f.holds[id]]
      /\ g.twins = [f.twins EXCEPT ![id] = @ \cup {n}]
  BY DEF LinkPart
<1>2. /\ g \in Folders /\ g.holds[n] = f.holds[id]
      /\ \A p \in Paths : p # n => g.holds[p] = f.holds[p]
      /\ g.twins[id] = f.twins[id] \cup {n}
      /\ \A j \in Ids : j # id => g.twins[j] = f.twins[j]
  BY <1>1 DEF LinkPart, FolderInv, Folders, Paths
<1>3. \A j \in Ids : j # n /\ n \notin f.twins[j]
  BY FolderAssumption, TwinsApart
<1>4. FolderInv(g)
  BY <1>2, <1>3 DEF FolderInv, Free, Folders, Paths
<1>5. QED
  BY <1>2, <1>4

\* A rename moves the part file to the name, unless both are one file already.
LEMMA RenamePartInv ==
  ASSUME NEW f, FolderInv(f), NEW id \in Ids, NEW n \in Names, ~Free(f, id)
  PROVE  LET g == RenamePart(f, id, n)
         IN  /\ FolderInv(g) /\ g.holds[n] = f.holds[id]
             /\ \A p \in Paths : p \notin {n, id} => g.holds[p] = f.holds[p]
<1> DEFINE g == RenamePart(f, id, n)
<1>1. CASE n \in f.twins[id]
  BY <1>1 DEF RenamePart, FolderInv
<1>2. CASE n \notin f.twins[id]
  <2> DEFINE h == [holds |-> [f.holds EXCEPT ![n] = f.holds[id]], twins |-> Apart(f.twins, n)]
  <2>1. g = RemovePart(h, id)
    BY <1>2 DEF RenamePart
  <2>2. /\ h \in Folders /\ h.holds[n] = f.holds[id]
        /\ \A p \in Paths : p # n => h.holds[p] = f.holds[p]
        /\ \A j \in Ids : h.twins[j] = f.twins[j] \ {n}
    BY DEF FolderInv, Folders, Apart, Paths
  <2>3. \A j \in Ids : j # n
    BY FolderAssumption
  <2>4. FolderInv(h)
    BY <2>2, <2>3 DEF FolderInv, Free, Folders, Paths
  <2>5. FolderInv(g) /\ \A p \in Paths : p # id => g.holds[p] = h.holds[p]
    <3> HIDE DEF g, h
    <3> QED BY <2>1, <2>4, RemovePartInv
  <2>6. QED
    BY <2>2, <2>3, <2>5 DEF Paths
<1>3. QED
  BY <1>1, <1>2

-----------------------------------------------------------------------------
(* The workers.                                                            *)

Whole(id, p) == folder.holds[p] = Bytes(id, TRUE)

\* Where the worker of id has its bytes: from "moving" on its part file, while there
\* is one, is whole; after a move the name holds it; after the row is named, the row
\* finds it; and nothing works on a completed download.
Safe(id) ==
  /\ job[id].at \in {"moving", "linked", "prompting", "placing", "replacing"} =>
       Free(folder, id) \/ Whole(id, id)
  /\ row[id].status = "completed" => At(id, "none")
  /\ row[id].life = "none" => row[id].status # "completed" /\ At(id, "none")
  /\ id \in owed =>
       /\ Somewhere(id)
       /\ job[id].at \in {"linked", "naming"} => Whole(id, job[id].dest)
       /\ At(id, "completing") /\ Exists(id) => Found(id)
       /\ row[id].status = "completed" => Found(id)

\* Rows that exist have a name, jobs a destination, and the desk works on a download.
Rows ==
  {r \in [Ids -> [life : Life, status : Status, name : Names \cup {NoName}, done : BOOLEAN]] :
     \A id \in Ids : r[id].life \in {"live", "deleted"} => r[id].name # NoName}
Jobs ==
  {b \in [Ids -> [at : Places, dest : Names \cup {NoName}]] :
     \A id \in Ids : b[id].at = "none" <=> b[id].dest = NoName}
Desks ==
  {d \in [at : {"free", "answering", "deleting", "sweeping", "purging"},
          id : Ids \cup {0}, name : Names \cup {NoName}] :
     /\ d.at # "free" => d.id \in Ids
     /\ d.at = "deleting" => d.name # NoName}

Shape == row \in Rows /\ job \in Jobs /\ desk \in Desks /\ owed \subseteq Ids

PubInv ==
  /\ Shape
  /\ FolderInv(folder)
  /\ \A id \in Ids : Safe(id)

LEMMA InvIsTyped == PubInv => TypeOK
  BY DEF PubInv, Shape, Rows, Jobs, Desks, TypeOK, FolderInv

\* Statements on a row keep it one.
LEMMA RowUpdates ==
  ASSUME NEW r \in Rows, NEW id \in Ids
  PROVE  /\ \A s \in Status : [r EXCEPT ![id].status = s] \in Rows
         /\ \A n \in Names : [r EXCEPT ![id].name = n] \in Rows
         /\ \A b \in BOOLEAN : [r EXCEPT ![id].done = b] \in Rows
         /\ \A s \in Status : \A b \in BOOLEAN :
              [r EXCEPT ![id].status = s, ![id].done = b] \in Rows
         /\ \A n \in Names : [r EXCEPT ![id] = [NoRow("live") EXCEPT !.name = n]] \in Rows
         /\ \A s \in Status : \A l \in {"live", "deleted"} :
              r[id].life \in {"live", "deleted"} =>
                [r EXCEPT ![id].status = s, ![id].life = l] \in Rows
         /\ [r EXCEPT ![id] = NoRow("purged")] \in Rows
<1> USE DEF Rows
<1>1. \A s \in Status : [r EXCEPT ![id].status = s] \in Rows
  OBVIOUS
<1>2. \A n \in Names : [r EXCEPT ![id].name = n] \in Rows
  BY PublicationAssumption
<1>3. \A b \in BOOLEAN : [r EXCEPT ![id].done = b] \in Rows
  OBVIOUS
<1>4. \A s \in Status : \A b \in BOOLEAN :
        [r EXCEPT ![id].status = s, ![id].done = b] \in Rows
  OBVIOUS
<1>5. \A n \in Names : [r EXCEPT ![id] = [NoRow("live") EXCEPT !.name = n]] \in Rows
  BY PublicationAssumption DEF NoRow, Life, Status
<1>6. \A s \in Status : \A l \in {"live", "deleted"} :
        r[id].life \in {"live", "deleted"} =>
          [r EXCEPT ![id].status = s, ![id].life = l] \in Rows
  BY DEF Life
<1>7. [r EXCEPT ![id] = NoRow("purged")] \in Rows
  BY DEF NoRow, Life, Status
<1>8. QED
  BY <1>1, <1>2, <1>3, <1>4, <1>5, <1>6, <1>7

\* A worker ends, starts, goes on, or takes another name.
LEMMA JobUpdates ==
  ASSUME NEW b \in Jobs, NEW id \in Ids
  PROVE  /\ [b EXCEPT ![id] = NoJob] \in Jobs
         /\ \A p \in Places \ {"none"} :
              b[id].at # "none" => [b EXCEPT ![id].at = p] \in Jobs
         /\ \A p \in Places \ {"none"} : \A n \in Names :
              [b EXCEPT ![id] = [at |-> p, dest |-> n]] \in Jobs
<1> USE PublicationAssumption DEF Jobs
<1>1. [b EXCEPT ![id] = NoJob] \in Jobs
  BY DEF NoJob, Places
<1>2. \A p \in Places \ {"none"} : b[id].at # "none" => [b EXCEPT ![id].at = p] \in Jobs
  OBVIOUS
<1>3. \A p \in Places \ {"none"} : \A n \in Names :
        [b EXCEPT ![id] = [at |-> p, dest |-> n]] \in Jobs
  OBVIOUS
<1>4. QED
  BY <1>1, <1>2, <1>3

\* Nothing is fetched at first.
LEMMA PubStart == Init => PubInv
<1> SUFFICES ASSUME Init PROVE PubInv
  OBVIOUS
<1>1. FolderInv(folder)
  BY EmptyFolderInv DEF Init
<1>2. Shape
  BY DEF Init, Shape, Rows, Jobs, Desks, NoRow, NoJob, FreeDesk, Life, Status, Places
<1>3. \A id \in Ids : Safe(id)
  BY DEF Init, Safe, NoRow, NoJob, At
<1>4. QED
  BY <1>1, <1>2, <1>3 DEF PubInv

\* The rows and the desk keep their shape when the user and main work on them.
LEMMA UserShape ==
  ASSUME Shape, NEW id \in Ids,
         \/ Create(id) \/ Cancel(id) \/ Delete(id) \/ Restore(id) \/ Sweep(id)
         \/ Purge \/ Again(id) \/ AgainDeletes \/ AgainSweeps
  PROVE  Shape'
<1> USE RowUpdates, JobUpdates DEF Shape, Exists, Live, Status, StopFetching
<1>1. CASE Create(id)
  <2>1. PICK i \in DOMAIN Numbered : row' = [row EXCEPT ![id] = [NoRow("live") EXCEPT !.name = Numbered[i]]]
    BY <1>1 DEF Create
  <2>2. Numbered[i] \in Names
    BY PublicationAssumption
  <2>3. QED
    BY <1>1, <2>1, <2>2 DEF Create
<1>2. CASE Cancel(id)
  BY <1>2 DEF Cancel, SetStatus
<1>3. CASE Delete(id)
  BY <1>3 DEF Delete
<1>4. CASE Restore(id)
  BY <1>4 DEF Restore
<1>5. CASE Sweep(id)
  <2>1. desk' \in Desks
    BY <1>5 DEF Sweep, Desks, FreeDesk
  <2>2. QED
    BY <1>5, <2>1 DEF Sweep
<1>6. CASE Purge
  <2>1. desk' \in Desks /\ desk.id \in Ids
    BY <1>6 DEF Purge, Desks, FreeDesk
  <2>2. QED
    BY <1>6, <2>1 DEF Purge
<1>7. CASE Again(id)
  <2>1. desk' \in Desks
    BY <1>7 DEF Again, Desks, Rows
  <2>2. QED
    BY <1>7, <2>1 DEF Again
<1>8. CASE AgainDeletes
  <2>1. desk' \in Desks
    BY <1>8 DEF AgainDeletes, Desks, FreeDesk
  <2>2. QED
    BY <1>8, <2>1 DEF AgainDeletes
<1>9. CASE AgainSweeps
  <2>1. desk' \in Desks
    BY <1>9 DEF AgainSweeps, Desks, FreeDesk
  <2>2. QED
    BY <1>9, <2>1 DEF AgainSweeps
<1>10. QED
  BY <1>1, <1>2, <1>3, <1>4, <1>5, <1>6, <1>7, <1>8, <1>9

\* So they do when a worker does.
LEMMA WorkerShape ==
  ASSUME Shape, NEW id \in Ids,
         \/ Begin(id) \/ Verified(id) \/ Stops(id) \/ Link(id) \/ Unlink(id) \/ Replace(id)
         \/ Name(id) \/ Complete(id) \/ Fail(id) \/ Dropped(id)
         \/ KeepBoth(id) \/ ChooseReplace(id) \/ Discard(id)
  PROVE  Shape'
<1> USE DEF Shape
<1>1. /\ \A s \in Status : SetStatus(id, s) \in Rows
      /\ \A p \in Places \ {"none"} :
           job[id].at # "none" => [job EXCEPT ![id].at = p] \in Jobs
      /\ [job EXCEPT ![id] = NoJob] \in Jobs
      /\ FreeDesk \in Desks /\ [FreeDesk EXCEPT !.at = "answering", !.id = id] \in Desks
  BY RowUpdates, JobUpdates DEF SetStatus, FreeDesk, Desks
<1>2. CASE Begin(id)
  <2>1. Resumes(id) \in BOOLEAN
    BY DEF Resumes
  <2>2. row[id].name \in Names
    BY <1>2 DEF Begin, Live, Rows
  <2>3. row' \in Rows /\ job' \in Jobs
    BY <1>2, <2>1, <2>2, RowUpdates, JobUpdates DEF Begin, Status, Places
  <2>4. QED
    BY <1>2, <2>3 DEF Begin
<1>3. CASE Verified(id) \/ Stops(id)
  <2>1. row' \in Rows
    <3>1. CASE Verified(id)
      BY <3>1, RowUpdates DEF Verified
    <3>2. CASE Stops(id)
      BY <1>1, <3>2 DEF Stops, Status
    <3>3. QED
      BY <1>3, <3>1, <3>2
  <2>2. job' \in Jobs
    BY <1>1, <1>3 DEF Verified, Stops, At, Goto, Places
  <2>3. QED
    BY <1>3, <2>1, <2>2 DEF Verified, Stops
<1>4. CASE Link(id) \/ Unlink(id) \/ Replace(id)
  BY <1>1, <1>4 DEF Link, Unlink, Replace, At, Goto, Places
<1>5. CASE Name(id)
  <2>1. job[id].dest \in Names
    BY <1>5 DEF Name, At, Jobs
  <2>2. QED
    BY <1>1, <1>5, <2>1, RowUpdates DEF Name, At, Goto, Places
<1>6. CASE Complete(id) \/ Fail(id) \/ Dropped(id)
  BY <1>1, <1>6 DEF Complete, Fail, Dropped, Ends, Status
<1>7. CASE KeepBoth(id)
  <2>1. job[id].dest \in Names
    BY <1>7 DEF KeepBoth, At, Jobs
  <2> DEFINE tried == <<job[id].dest>> \o Variants[job[id].dest]
  <2>2. \A i \in DOMAIN tried : tried[i] \in Names
    BY <2>1, PublicationAssumption
  <2>3. \/ \E n \in Names : job' = [job EXCEPT ![id] = [at |-> "placing", dest |-> n]]
        \/ job' = [job EXCEPT ![id].at = "failing"]
    BY <1>7, <2>2 DEF KeepBoth, Goto
  <2>4. job' \in Jobs
    <3>1. \A n \in Names : [job EXCEPT ![id] = [at |-> "placing", dest |-> n]] \in Jobs
      BY JobUpdates DEF Places
    <3>2. [job EXCEPT ![id].at = "failing"] \in Jobs
      BY <1>1, <1>7 DEF KeepBoth, At, Places
    <3>3. QED
      BY <2>3, <3>1, <3>2
  <2>5. QED
    BY <1>1, <1>7, <2>4 DEF KeepBoth, Answering
<1>8. CASE ChooseReplace(id) \/ Discard(id)
  BY <1>1, <1>8 DEF ChooseReplace, Discard, Answering, At, Goto, Places
<1>9. QED
  BY <1>2, <1>3, <1>4, <1>5, <1>6, <1>7, <1>8

Placed == {"moving", "linked", "prompting", "placing", "replacing"}

\* A download whose own files are left alone is as safe as it was, when its worker
\* ends, fails, or has an answer, and its row keeps its name.
LEMMA Kept ==
  ASSUME Shape, NEW j \in Ids, Safe(j),
         folder'.holds[j] \in {folder.holds[j], Absent},
         j \in owed' => /\ j \in owed
                        /\ folder'.holds[j] = folder.holds[j]
                        /\ \A n \in Names : Whole(j, n) => Whole(j, n)',
         \/ job'[j] = job[j]
         \/ job'[j].at = "none"
         \/ job'[j].at \in Placed \cup {"failing", "dropped"} /\ job'[j].at \notin {"linked"}
              /\ job[j].at \in Placed,
         row'[j].life = "none" => row[j].life = "none",
         row'[j].status = "completed" =>
           row[j].status = "completed" /\ row'[j].name = row[j].name,
         Exists(j)' => Exists(j) /\ row'[j].name = row[j].name
  PROVE  Safe(j)'
<1> USE DEF Safe, Placed, At
<1>1. job'[j].at \in Placed => Free(folder, j)' \/ Whole(j, j)'
  BY DEF Free, Whole
<1>2. row'[j].status = "completed" => job'[j].at = "none"
  OBVIOUS
<1>3. row'[j].life = "none" => row'[j].status # "completed" /\ job'[j].at = "none"
  OBVIOUS
<1>4. j \in owed' => Somewhere(j)'
  BY DEF Somewhere, Whole
<1>5. j \in owed' /\ job'[j].at \in {"linked", "naming"} => Whole(j, job[j].dest)'
  <2>1. j \in owed' /\ job'[j].at \in {"linked", "naming"} =>
          job'[j] = job[j] /\ job[j].dest \in Names /\ Whole(j, job[j].dest)
    BY DEF Shape, Jobs
  <2>2. QED
    BY <2>1 DEF Whole
<1>6. j \in owed' /\ Found(j) /\ row'[j].name = row[j].name => Found(j)'
  BY DEF Found, Whole, Shape, Rows
<1>7. j \in owed' /\ job'[j].at = "completing" /\ Exists(j)' => Found(j)'
  BY <1>6
<1>8. j \in owed' /\ row'[j].status = "completed" => Found(j)'
  BY <1>6
<1>9. QED
  BY <1>1, <1>2, <1>3, <1>4, <1>5, <1>7, <1>8

\* The same, when no file is touched at all.
LEMMA Quiet ==
  ASSUME Shape, NEW j \in Ids, Safe(j), folder' = folder, owed' = owed,
         \/ job'[j] = job[j]
         \/ job'[j].at = "none"
         \/ job'[j].at \in Placed \cup {"failing", "dropped"} /\ job'[j].at \notin {"linked"}
              /\ job[j].at \in Placed,
         row'[j].life = "none" => row[j].life = "none",
         row'[j].status = "completed" =>
           row[j].status = "completed" /\ row'[j].name = row[j].name,
         Exists(j)' => Exists(j) /\ row'[j].name = row[j].name
  PROVE  Safe(j)'
BY Kept DEF Whole

\* Writing a status that is not "completed", and ending a worker, is quiet.
LEMMA StatusQuiet ==
  ASSUME Shape, NEW id \in Ids, \A j \in Ids : Safe(j), folder' = folder, owed' = owed,
         job' = job \/ job' = [job EXCEPT ![id] = NoJob],
         NEW s \in Status \ {"completed"}, row' = SetStatus(id, s)
  PROVE  \A j \in Ids : Safe(j)'
<1> SUFFICES ASSUME NEW j \in Ids PROVE Safe(j)'
  OBVIOUS
<1>1. job'[j] = job[j] \/ job'[j].at = "none"
  BY DEF Shape, Jobs, NoJob
<1>2. /\ row'[j].life = row[j].life /\ row'[j].name = row[j].name
      /\ row'[j].status = "completed" => row[j].status = "completed"
  BY DEF Shape, Rows, SetStatus
<1>3. Exists(j)' => Exists(j)
  BY <1>2 DEF Exists
<1>4. QED
  BY <1>1, <1>2, <1>3, Quiet

\* What the user does to rows loses nothing that is owed.
LEMMA UserSafe ==
  ASSUME PubInv, NEW id \in Ids,
         \/ Create(id) \/ Cancel(id) \/ Delete(id) \/ Restore(id) \/ Purge
  PROVE  FolderInv(folder') /\ \A j \in Ids : Safe(j)'
<1> USE DEF PubInv, StopFetching
<1>1. FolderInv(folder') /\ folder' = folder /\ owed' = owed
  BY DEF Create, Cancel, Delete, Restore, Purge
<1>2. CASE Create(id)
  <2> SUFFICES ASSUME NEW j \in Ids PROVE Safe(j)'
    BY <1>1
  <2>1. /\ row'[id].status = "resumable" /\ row'[id].life = "live" /\ job' = job
        /\ \A k \in Ids \ {id} : row'[k] = row[k]
    BY <1>2 DEF Create, NoRow, Shape, Rows
  <2>2. CASE j = id
    <3>1. row[id].status # "completed" /\ At(id, "none") /\ (id \in owed => Somewhere(id))
      BY <1>2 DEF Create, Safe
    <3>2. /\ At(id, "none")' /\ row'[id].status # "completed" /\ row'[id].life # "none"
          /\ id \in owed' => Somewhere(id)'
      BY <1>1, <2>1, <3>1 DEF At, Somewhere
    <3>3. QED
      BY <2>2, <3>2 DEF Safe, At
  <2>3. CASE j # id
    BY <1>1, <1>2, <2>1, <2>3, Quiet DEF Create, Shape, Rows, Exists
  <2>4. QED
    BY <2>2, <2>3
<1>3. CASE Cancel(id)
  BY <1>1, <1>3, StatusQuiet DEF Cancel, Status
<1>4. CASE Delete(id)
  <2> SUFFICES ASSUME NEW j \in Ids PROVE Safe(j)'
    BY <1>1
  <2>1. job'[j] = job[j] \/ job'[j].at = "none"
    BY <1>4 DEF Delete, Shape, Jobs, NoJob
  <2>2. /\ row'[j].life # "none" \/ row'[j].life = row[j].life
        /\ row'[j].status = "completed" => row[j].status = "completed"
        /\ Exists(j)' => Exists(j)
        /\ row'[j].name = row[j].name
    BY <1>4 DEF Delete, Shape, Rows, Exists, Live
  <2>3. QED
    BY <1>1, <2>1, <2>2, Quiet
<1>5. CASE Restore(id)
  <2> SUFFICES ASSUME NEW j \in Ids PROVE Safe(j)'
    BY <1>1
  <2>1. /\ row'[j].life # "none" \/ row'[j].life = row[j].life
        /\ row'[j].status = "completed" => row[j].status = "completed"
        /\ Exists(j)' => Exists(j)
        /\ row'[j].name = row[j].name
    BY <1>5 DEF Restore, Shape, Rows, Exists
  <2>2. QED
    BY <1>1, <1>5, <2>1, Quiet DEF Restore
<1>6. CASE Purge
  <2> SUFFICES ASSUME NEW j \in Ids PROVE Safe(j)'
    BY <1>1
  <2>1. row'[j] = row[j] \/ row'[j] = NoRow("purged")
    BY <1>6 DEF Purge, Shape, Rows
  <2>2. QED
    BY <1>1, <1>6, <2>1, Quiet DEF Purge, NoRow, Exists
<1>7. QED
  BY <1>2, <1>3, <1>4, <1>5, <1>6

\* The process dies or quits: a worker's place is forgotten, its bytes are not.
LEMMA RestartSafe ==
  ASSUME PubInv, NEW old \in SUBSET Ids, Restart(old)
  PROVE  PubInv'
<1> USE DEF PubInv
<1>1. folder' = folder /\ owed' = owed
  BY DEF Restart
<1>2. ASSUME NEW j \in Ids
      PROVE  /\ row'[j] \in [life : Life, status : Status, name : Names \cup {NoName},
                             done : BOOLEAN]
             /\ \/ row'[j] = NoRow("purged") /\ row[j].life = "deleted"
                \/ row'[j] = row[j]
                \/ /\ row'[j].life = row[j].life /\ row'[j].name = row[j].name
                   /\ row'[j].status = "resumable"
  <2>1. row[j] \in [life : Life, status : Status, name : Names \cup {NoName}, done : BOOLEAN]
    BY DEF Shape, Rows
  <2>2. NoRow("purged") \in [life : Life, status : Status, name : Names \cup {NoName},
                             done : BOOLEAN]
    BY DEF NoRow, Life, Status
  <2>3. row'[j] = IF j \in old THEN NoRow("purged")
                  ELSE IF Live(j) /\ row[j].status = "downloading"
                    THEN [row[j] EXCEPT !.status = "resumable"] ELSE row[j]
    BY DEF Restart
  <2>4. CASE j \in old
    BY <2>2, <2>3, <2>4 DEF Restart
  <2>5. CASE j \notin old /\ Live(j) /\ row[j].status = "downloading"
    BY <2>1, <2>3, <2>5 DEF Status
  <2>6. CASE j \notin old /\ ~(Live(j) /\ row[j].status = "downloading")
    BY <2>1, <2>3, <2>6
  <2>7. QED
    BY <2>4, <2>5, <2>6
<1>3. row' \in Rows
  <2>1. row' = [j \in Ids |-> row'[j]]
    BY DEF Restart
  <2>2. \A j \in Ids : row'[j].life \in {"live", "deleted"} => row'[j].name # NoName
    BY <1>2 DEF Shape, Rows, NoRow
  <2>3. QED
    BY <1>2, <2>1, <2>2 DEF Rows
<1>4. job' \in Jobs /\ desk' \in Desks
  BY DEF Restart, Jobs, Desks, NoJob, FreeDesk, Places
<1>5. ASSUME NEW j \in Ids PROVE Safe(j)'
  <2>1. job'[j].at = "none"
    BY <1>5 DEF Restart, NoJob
  <2>2. /\ row'[j].life = "none" => row[j].life = "none"
        /\ row'[j].status = "completed" =>
             row[j].status = "completed" /\ row'[j].name = row[j].name
        /\ Exists(j)' => Exists(j) /\ row'[j].name = row[j].name
    BY <1>2 DEF NoRow, Exists, Shape, Rows
  <2>3. QED
    BY <1>1, <2>1, <2>2, Quiet
<1>6. QED
  BY <1>1, <1>3, <1>4, <1>5 DEF Shape

\* Removing a part file costs only its own download, which is no longer owed.
LEMMA RemovePartKeeps ==
  ASSUME PubInv, NEW id \in Ids, folder' = RemovePart(folder, id), owed' = owed \ {id},
         NEW j \in Ids
  PROVE  /\ FolderInv(folder')
         /\ folder'.holds[j] \in {folder.holds[j], Absent}
         /\ j \in owed' => /\ j \in owed
                           /\ folder'.holds[j] = folder.holds[j]
                           /\ \A n \in Names : Whole(j, n) => Whole(j, n)'
<1>1. /\ FolderInv(folder') /\ folder'.holds[id] = Absent
      /\ \A p \in Paths : p # id => folder'.holds[p] = folder.holds[p]
  BY RemovePartInv DEF PubInv
<1>2. \A n \in Names : n # id
  BY FolderAssumption
<1>3. QED
  BY <1>1, <1>2 DEF Whole, Paths

\* Purging a deleted row, and Download Again: the files that go are given up.
LEMMA SweepSafe ==
  ASSUME PubInv, NEW id \in Ids, Sweep(id) \/ Again(id) \/ AgainDeletes \/ AgainSweeps
  PROVE  FolderInv(folder') /\ \A j \in Ids : Safe(j)'
<1> USE DEF PubInv
<1>1. CASE Sweep(id)
  BY <1>1, RemovePartKeeps, Kept DEF Sweep, Exists
<1>2. CASE Again(id)
  <2> SUFFICES ASSUME NEW j \in Ids PROVE Safe(j)'
    BY <1>2 DEF Again
  <2>1. job'[j] = job[j] \/ job'[j].at = "none"
    BY <1>2 DEF Again, StopFetching, Shape, Jobs, NoJob
  <2>2. /\ row'[j].life = row[j].life /\ row'[j].name = row[j].name
        /\ row'[j].status = "completed" => row[j].status = "completed"
    <3>1. row \in [Ids -> [life : Life, status : Status, name : Names \cup {NoName},
                           done : BOOLEAN]]
      BY DEF Shape, Rows
    <3>2. QED
      BY <1>2, <3>1 DEF Again
  <2>3. folder' = folder /\ (j \in owed' => j \in owed)
    BY <1>2 DEF Again
  <2>4. QED
    BY <2>1, <2>2, <2>3, Kept DEF Exists, Whole
<1>3. CASE AgainDeletes
  <2>1. CASE folder' = folder /\ owed' = owed
    BY <1>3, <2>1, Quiet DEF AgainDeletes, Exists
  <2>2. CASE folder' = RemoveName(folder, desk.name) /\ owed' = owed \ {folder.holds[desk.name].of}
    <3>1. desk.name \in Names
      BY <1>3 DEF AgainDeletes, Shape, Desks
    <3>2. FolderInv(folder') /\ \A p \in Paths : p # desk.name => folder'.holds[p] = folder.holds[p]
      BY <2>2, <3>1, RemoveNameInv
    <3>3. ASSUME NEW j \in Ids PROVE Safe(j)'
      <4>1. folder'.holds[j] = folder.holds[j]
        BY <3>1, <3>2, FolderAssumption DEF Paths
      <4>2. j \in owed' => j \in owed /\ ~Whole(j, desk.name)
        BY <2>2 DEF Whole, Bytes
      <4>3. \A n \in Names : n # desk.name /\ Whole(j, n) => Whole(j, n)'
        BY <3>2 DEF Whole, Paths
      <4>4. QED
        BY <1>3, <4>1, <4>2, <4>3, Kept DEF AgainDeletes, Exists
    <3>4. QED
      BY <3>2, <3>3
  <2>3. QED
    BY <1>3, <2>1, <2>2 DEF AgainDeletes
<1>4. CASE AgainSweeps
  <2>1. desk.id \in Ids
    BY <1>4 DEF AgainSweeps, Shape, Desks
  <2>2. QED
    BY <1>4, <2>1, RemovePartKeeps, Kept DEF AgainSweeps, Exists
<1>5. QED
  BY <1>1, <1>2, <1>3, <1>4

\* Another program puts a file under a free name.
LEMMA OutsiderSafe ==
  ASSUME PubInv, NEW n \in Names, Outsider(n)
  PROVE  PubInv'
<1> USE DEF PubInv
<1>1. FolderInv(folder') /\ \A p \in Paths : p # n => folder'.holds[p] = folder.holds[p]
  BY OutsiderInv DEF Outsider
<1>2. Shape'
  BY DEF Outsider, Shape
<1>3. ASSUME NEW j \in Ids PROVE Safe(j)'
  <2>1. folder'.holds[j] = folder.holds[j]
    BY <1>1, FolderAssumption DEF Paths
  <2>2. ~Whole(j, n)
    BY FolderAssumption DEF Outsider, Free, Whole, Absent, Bytes
  <2>3. \A m \in Names : Whole(j, m) => Whole(j, m)'
    BY <1>1, <2>2 DEF Whole, Paths
  <2>4. QED
    BY <2>1, <2>3, Kept DEF Outsider, Exists
<1>4. QED
  BY <1>1, <1>2, <1>3

\* What one worker does to its own part file and to names that hold nothing of j
\* leaves the download j as safe as it was.
LEMMA OthersSafe ==
  ASSUME PubInv, NEW id \in Ids, NEW j \in Ids, j # id,
         job'[j] = job[j], row'[j] = row[j], owed' \subseteq owed \cup {id},
         folder'.holds[j] = folder.holds[j],
         j \in owed' => \A n \in Names : Whole(j, n) => Whole(j, n)'
  PROVE  Safe(j)'
BY Kept DEF PubInv, Exists

\* A write through the part file of id shows under no name that holds bytes of j.
LEMMA WriteKeepsOthers ==
  ASSUME PubInv, NEW id \in Ids, NEW whole \in BOOLEAN,
         folder' = WritePart(folder, id, whole), NEW j \in Ids, j # id
  PROVE  /\ folder'.holds[j] = folder.holds[j]
         /\ \A n \in Names : Whole(j, n) => Whole(j, n)'
<1>1. \A p \in Paths : p # id /\ p \notin folder.twins[id] => folder'.holds[p] = folder.holds[p]
  BY WritePartInv DEF PubInv
<1>2. j \notin folder.twins[id] /\ \A n \in Names : n # id
  BY FolderAssumption DEF PubInv, FolderInv, Folders
<1>3. \A n \in folder.twins[id] : ~Whole(j, n)
  BY TwinsApart DEF PubInv, FolderInv, Whole, Bytes, Free
<1>4. QED
  BY <1>1, <1>2, <1>3 DEF Whole, Paths

\* A worker starts: what it overwrites was not verified, or is written again as it was.
LEMMA BeginSafe ==
  ASSUME PubInv, NEW id \in Ids, Begin(id)
  PROVE  FolderInv(folder') /\ \A j \in Ids : Safe(j)'
<1> USE DEF PubInv
<1>1. Resumes(id) \in BOOLEAN /\ folder' = WritePart(folder, id, Resumes(id))
  BY DEF Begin, Resumes
<1>2. FolderInv(folder')
  BY <1>1, WritePartInv
<1>3. /\ \A j \in Ids : j # id => job'[j] = job[j] /\ row'[j] = row[j]
      /\ job'[id].at = "fetching" /\ row'[id].status = "downloading" /\ row'[id].life = "live"
  <2>1. /\ \A j \in Ids : j # id => job'[j] = job[j]
        /\ job'[id].at = "fetching"
    BY DEF Begin, Shape, Jobs
  <2>2. row \in [Ids -> [life : Life, status : Status, name : Names \cup {NoName}, done : BOOLEAN]]
    BY DEF Shape, Rows
  <2>3. \A j \in Ids : j # id => row'[j] = row[j]
    BY <2>2 DEF Begin
  <2>4. row'[id].status = "downloading"
    BY <2>2 DEF Begin
  <2>5. row'[id].life = "live"
    BY <2>2 DEF Begin, Live
  <2>6. QED
    BY <2>1, <2>3, <2>4, <2>5
<1>4. owed' \subseteq owed /\ (id \in owed' => Resumes(id) \/ Free(folder, id))
  BY DEF Begin
<1>5. ASSUME id \in owed' PROVE Somewhere(id)'
  <2>1. CASE Resumes(id)
    <3>1. folder'.holds[id] = Bytes(id, TRUE)
      BY <1>1, <2>1, WritePartInv
    <3>2. QED
      BY <3>1 DEF Somewhere
  <2>2. CASE Free(folder, id)
    <3>1. folder.twins[id] = {}
      BY <2>2 DEF FolderInv
    <3>2. \E n \in Names : Whole(id, n)
      BY <1>4, <1>5, <2>2, FolderAssumption
      DEF Safe, Somewhere, Whole, Free, Absent, Bytes
    <3>3. \A n \in Names : folder'.holds[n] = folder.holds[n]
      BY <1>1, <3>1, WritePartInv, FolderAssumption DEF Paths
    <3>4. QED
      BY <3>2, <3>3 DEF Somewhere, Whole
  <2>3. QED
    BY <1>4, <1>5, <2>1, <2>2
<1>6. Safe(id)'
  BY <1>3, <1>5 DEF Safe, At
<1>7. ASSUME NEW j \in Ids, j # id PROVE Safe(j)'
  BY <1>1, <1>3, <1>4, <1>7, WriteKeepsOthers, OthersSafe
<1>8. QED
  BY <1>2, <1>6, <1>7

\* Every byte is there.
LEMMA VerifiedSafe ==
  ASSUME PubInv, NEW id \in Ids, Verified(id)
  PROVE  FolderInv(folder') /\ \A j \in Ids : Safe(j)'
<1> USE DEF PubInv
<1>1. FolderInv(folder') /\ Whole(id, id)'
  BY WritePartInv DEF Verified, Whole
<1>2. /\ \A j \in Ids : j # id => job'[j] = job[j] /\ row'[j] = row[j]
      /\ job'[id].at = "moving" /\ row'[id].status = row[id].status
      /\ row'[id].life = row[id].life
  <2>1. row \in [Ids -> [life : Life, status : Status, name : Names \cup {NoName}, done : BOOLEAN]]
    BY DEF Shape, Rows
  <2>2. QED
    BY <2>1 DEF Verified, Goto, Shape, Jobs
<1>3. row[id].status # "completed" /\ row[id].life # "none"
  BY DEF Verified, Safe, At
<1>4. Safe(id)'
  BY <1>1, <1>2, <1>3 DEF Safe, At, Somewhere, Whole
<1>5. ASSUME NEW j \in Ids, j # id PROVE Safe(j)'
  BY <1>2, <1>5, WriteKeepsOthers, OthersSafe DEF Verified
<1>6. QED
  BY <1>1, <1>4, <1>5

\* The three system calls of a move.
LEMMA MoveSafe ==
  ASSUME PubInv, NEW id \in Ids, Link(id) \/ Unlink(id) \/ Replace(id)
  PROVE  FolderInv(folder') /\ \A j \in Ids : Safe(j)'
<1> USE DEF PubInv
<1>1. /\ row' = row /\ job[id].at \in Placed /\ job[id].dest \in Names
      /\ job[id].dest # id
  BY FolderAssumption DEF Link, Unlink, Replace, At, Placed, Shape, Jobs
<1>2. ASSUME folder' = folder, owed' = owed, NEW p \in {"prompting", "failing"}, Goto(id, p)
      PROVE  FolderInv(folder') /\ \A j \in Ids : Safe(j)'
  <2> SUFFICES ASSUME NEW j \in Ids PROVE Safe(j)'
    BY <1>2
  <2>1. job'[j] = job[j] \/ (j = id /\ job'[j].at = p)
    BY <1>2 DEF Goto, Shape, Jobs
  <2>2. QED
    BY <1>1, <1>2, <2>1, Quiet DEF Placed, Exists
<1>3. \A p : Goto(id, p) => /\ job'[id].at = p /\ job'[id].dest = job[id].dest
                            /\ \A j \in Ids : j # id => job'[j] = job[j]
  BY DEF Goto, Shape, Jobs
<1>4. Safe(id) /\ row[id].status # "completed" /\ row[id].life # "none"
  BY <1>1 DEF Safe, At, Placed
<1>5. CASE /\ At(id, "moving") \/ At(id, "placing")
           /\ ~Free(folder, id) /\ Free(folder, job[id].dest) /\ Goto(id, "linked")
           /\ folder' = LinkPart(folder, id, job[id].dest) /\ owed' = owed
  <2> DEFINE n == job[id].dest
  <2>1. /\ FolderInv(folder') /\ folder'.holds[n] = folder.holds[id]
        /\ \A p \in Paths : p # n => folder'.holds[p] = folder.holds[p]
    BY <1>1, <1>5, LinkPartInv
  <2>2. Whole(id, id)
    BY <1>4, <1>5 DEF Safe, At
  <2>3. folder'.holds[id] = Bytes(id, TRUE) /\ folder'.holds[job[id].dest] = Bytes(id, TRUE)
    BY <1>1, <2>1, <2>2 DEF Whole, Paths
  <2>4. Safe(id)'
    <3>1. /\ job'[id].at = "linked" /\ job'[id].dest = job[id].dest
          /\ row'[id].status # "completed" /\ row'[id].life # "none"
      BY <1>1, <1>3, <1>4, <1>5
    <3>2. id \in owed' => Somewhere(id)'
      BY <1>1, <1>5, <2>3 DEF Somewhere
    <3>3. QED
      BY <1>5, <2>3, <3>1, <3>2 DEF Safe, At, Whole
  <2>5. ASSUME NEW j \in Ids, j # id PROVE Safe(j)'
    <3>1. folder'.holds[j] = folder.holds[j]
      BY <1>1, <2>1, FolderAssumption DEF Paths
    <3>2. ~Whole(j, n)
      BY <1>5, FolderAssumption DEF Whole, Free, Absent, Bytes
    <3>3. \A m \in Names : Whole(j, m) => Whole(j, m)'
      BY <2>1, <3>2 DEF Whole, Paths
    <3>4. QED
      BY <1>1, <1>3, <1>5, <2>5, <3>1, <3>3, OthersSafe
  <2>6. QED
    BY <2>1, <2>4, <2>5
<1>6. CASE /\ At(id, "linked") /\ Goto(id, "naming")
           /\ folder' = RemovePart(folder, id) /\ owed' = owed
  <2>1. /\ FolderInv(folder')
        /\ \A p \in Paths : p # id => folder'.holds[p] = folder.holds[p]
    BY RemovePartInv, <1>6
  <2>2. \A j \in Ids : \A n \in Names : Whole(j, n) => Whole(j, n)'
    BY <2>1, FolderAssumption DEF Whole, Paths
  <2>3. id \in owed => folder'.holds[job[id].dest] = Bytes(id, TRUE)
    BY <1>1, <1>4, <1>6, <2>2 DEF Safe, At, Whole
  <2>4. Safe(id)'
    <3>1. /\ job'[id].at = "naming" /\ job'[id].dest = job[id].dest
          /\ row'[id].status # "completed" /\ row'[id].life # "none"
      BY <1>1, <1>3, <1>4, <1>6
    <3>2. id \in owed' => Somewhere(id)'
      BY <1>1, <1>6, <2>3 DEF Somewhere
    <3>3. QED
      BY <1>6, <2>3, <3>1, <3>2 DEF Safe, At, Whole
  <2>5. ASSUME NEW j \in Ids, j # id PROVE Safe(j)'
    BY <1>1, <1>3, <1>6, <2>1, <2>2, <2>5, OthersSafe DEF Paths
  <2>6. QED
    BY <2>1, <2>4, <2>5
<1>7. CASE /\ At(id, "replacing") /\ ~Free(folder, id) /\ Goto(id, "naming")
           /\ folder' = RenamePart(folder, id, job[id].dest)
           /\ owed' = owed \ ({folder.holds[job[id].dest].of} \ {id})
  <2> DEFINE n == job[id].dest
  <2>1. /\ FolderInv(folder') /\ folder'.holds[n] = folder.holds[id]
        /\ \A p \in Paths : p \notin {n, id} => folder'.holds[p] = folder.holds[p]
    BY <1>1, <1>7, RenamePartInv
  <2>2. Whole(id, id)
    BY <1>4, <1>7 DEF Safe, At
  <2>3. folder'.holds[job[id].dest] = Bytes(id, TRUE)
    BY <2>1, <2>2 DEF Whole
  <2>4. Safe(id)'
    <3>1. /\ job'[id].at = "naming" /\ job'[id].dest = job[id].dest
          /\ row'[id].status # "completed" /\ row'[id].life # "none"
      BY <1>1, <1>3, <1>4, <1>7
    <3>2. id \in owed' => Somewhere(id)'
      BY <1>1, <1>7, <2>3 DEF Somewhere
    <3>3. QED
      BY <1>7, <2>3, <3>1, <3>2 DEF Safe, At, Whole
  <2>5. ASSUME NEW j \in Ids, j # id PROVE Safe(j)'
    <3>1. folder'.holds[j] = folder.holds[j]
      BY <1>1, <2>1, <2>5, FolderAssumption DEF Paths
    <3>2. j \in owed' => ~Whole(j, n)
      BY <1>7, <2>5 DEF Whole, Bytes
    <3>3. j \in owed' => \A m \in Names : Whole(j, m) => Whole(j, m)'
      BY <2>1, <3>2, FolderAssumption DEF Whole, Paths
    <3>4. QED
      BY <1>1, <1>3, <1>7, <2>5, <3>1, <3>3, OthersSafe
  <2>6. QED
    BY <2>1, <2>4, <2>5
<1>8. CASE Link(id)
  BY <1>2, <1>5, <1>8 DEF Link
<1>9. CASE Unlink(id)
  BY <1>2, <1>6, <1>9 DEF Unlink
<1>10. CASE Replace(id)
  BY <1>2, <1>7, <1>10 DEF Replace
<1>11. QED
  BY <1>8, <1>9, <1>10

\* The statements after a move: the row is renamed, then it says completed.
LEMMA RowFollowsFile ==
  ASSUME PubInv, NEW id \in Ids, Name(id) \/ Complete(id)
  PROVE  \A j \in Ids : Safe(j)'
<1> USE DEF PubInv
<1>1. folder' = folder /\ owed' = owed /\ Safe(id)
  BY DEF Name, Complete, Ends
<1>2. row \in [Ids -> [life : Life, status : Status, name : Names \cup {NoName}, done : BOOLEAN]]
  BY DEF Shape, Rows
<1>3. \A j \in Ids : j # id => job'[j] = job[j] /\ row'[j] = row[j]
  BY <1>2 DEF Name, Complete, Ends, Goto, SetStatus, Shape, Jobs
<1>4. CASE Name(id)
  <2>1. /\ job'[id].at = "completing" /\ job[id].at = "naming" /\ job[id].dest \in Names
        /\ row'[id].status = row[id].status /\ row'[id].life = row[id].life
        /\ Exists(id)' => row'[id].name = job[id].dest
    BY <1>2, <1>4 DEF Name, At, Goto, Exists, Shape, Jobs
  <2>2. id \in owed => Somewhere(id) /\ Whole(id, job[id].dest)
    BY <1>1, <2>1 DEF Safe
  <2>3. id \in owed /\ Exists(id)' => Found(id)'
    BY <1>1, <2>1, <2>2, PublicationAssumption DEF Found, Whole
  <2>4. Safe(id)'
    BY <1>1, <2>1, <2>2, <2>3 DEF Safe, At, Somewhere
  <2>5. QED
    BY <1>1, <1>3, <2>4, Quiet DEF Exists
<1>5. CASE Complete(id)
  <2>1. /\ job'[id].at = "none" /\ job[id].at = "completing"
        /\ row'[id].life = row[id].life /\ row'[id].name = row[id].name
        /\ row'[id].status = IF Exists(id) THEN "completed" ELSE row[id].status
    BY <1>2, <1>5 DEF Complete, Ends, At, SetStatus, NoJob, Shape, Jobs, Exists
  <2>2. /\ row[id].status # "completed" /\ row[id].life # "none"
        /\ id \in owed => Somewhere(id) /\ (Exists(id) => Found(id))
    BY <1>1, <2>1 DEF Safe, At
  <2>3. Found(id) => Found(id)'
    BY <1>1, <2>1 DEF Found
  <2>4. Safe(id)'
    BY <1>1, <2>1, <2>2, <2>3 DEF Safe, At, Somewhere
  <2>5. QED
    BY <1>1, <1>3, <2>4, Quiet DEF Exists
<1>6. QED
  BY <1>4, <1>5

\* The worker ends without a file, and the answers of the conflict dialog.
LEMMA AnswerSafe ==
  ASSUME PubInv, NEW id \in Ids,
         \/ Stops(id) \/ Fail(id) \/ Dropped(id)
         \/ KeepBoth(id) \/ ChooseReplace(id) \/ Discard(id)
  PROVE  FolderInv(folder') /\ \A j \in Ids : Safe(j)'
<1> USE DEF PubInv
<1>1. CASE Stops(id) \/ Fail(id) \/ Dropped(id)
  BY <1>1, StatusQuiet DEF Stops, Fail, Dropped, Ends, Status
<1>2. CASE KeepBoth(id) \/ ChooseReplace(id) \/ Discard(id)
  <2>1. /\ row' = row /\ job[id].at = "prompting"
        /\ job'[id].at \in {"placing", "replacing", "dropped", "failing"}
        /\ \A j \in Ids : j # id => job'[j] = job[j]
    <3>1. row' = row /\ job[id].at = "prompting"
      BY <1>2 DEF KeepBoth, ChooseReplace, Discard, At
    <3>2. CASE KeepBoth(id)
      <4>1. (\E n : job' = [job EXCEPT ![id] = [at |-> "placing", dest |-> n]]) \/ Goto(id, "failing")
        BY <3>2 DEF KeepBoth
      <4>2. QED
        BY <3>1, <4>1 DEF Goto, Shape, Jobs
    <3>3. CASE ChooseReplace(id) \/ Discard(id)
      BY <3>1, <3>3 DEF ChooseReplace, Discard, Goto, Shape, Jobs
    <3>4. QED
      BY <1>2, <3>2, <3>3
  <2>2. CASE folder' = folder /\ owed' = owed
    BY <2>1, <2>2, Quiet DEF Placed, Exists
  <2>3. CASE folder' = RemovePart(folder, id) /\ owed' = owed \ {id}
    BY <2>1, <2>3, RemovePartKeeps, Kept DEF Placed, Exists
  <2>4. QED
    BY <1>2, <2>2, <2>3 DEF KeepBoth, ChooseReplace, Discard
<1>3. QED
  BY <1>1, <1>2

\* Every step keeps the invariant.
LEMMA PubStep ==
  ASSUME PubInv, [Next]_vars
  PROVE  PubInv'
<1>1. ASSUME NEW id \in Ids,
             \/ Create(id) \/ Cancel(id) \/ Delete(id) \/ Restore(id) \/ Sweep(id)
             \/ Purge \/ Again(id) \/ AgainDeletes \/ AgainSweeps
      PROVE  PubInv'
  BY <1>1, UserShape, UserSafe, SweepSafe DEF PubInv
<1>2. ASSUME NEW id \in Ids,
             \/ Begin(id) \/ Verified(id) \/ Stops(id) \/ Link(id) \/ Unlink(id) \/ Replace(id)
             \/ Name(id) \/ Complete(id) \/ Fail(id) \/ Dropped(id)
             \/ KeepBoth(id) \/ ChooseReplace(id) \/ Discard(id)
      PROVE  PubInv'
  <2>1. Shape'
    BY <1>2, WorkerShape DEF PubInv
  <2>2. Name(id) \/ Complete(id) => folder' = folder
    BY DEF Name, Complete, Ends
  <2>3. FolderInv(folder') /\ \A j \in Ids : Safe(j)'
    BY <1>2, <2>2, BeginSafe, VerifiedSafe, MoveSafe, RowFollowsFile, AnswerSafe DEF PubInv
  <2>4. QED
    BY <2>1, <2>3 DEF PubInv
<1>3. CASE \E n \in Names : Outsider(n)
  BY <1>3, OutsiderSafe
<1>4. CASE \E old \in SUBSET Ids : Restart(old)
  BY <1>4, RestartSafe
<1>5. CASE Purge \/ AgainDeletes \/ AgainSweeps
  <2>1. desk.id \in Ids
    BY <1>5 DEF Purge, AgainDeletes, AgainSweeps, PubInv, Shape, Desks
  <2>2. QED
    BY <1>1, <1>5, <2>1
<1>6. CASE UNCHANGED vars
  BY <1>6 DEF vars, PubInv, Shape, Safe, Free, Whole, At, Exists, Found, Somewhere
<1>7. QED
  BY <1>1, <1>2, <1>3, <1>4, <1>5, <1>6 DEF Next

-----------------------------------------------------------------------------
(* What a step may do to the file under a name.                            *)

\* Only Replace and Download Again, at the name chosen, and a write through a part
\* file, at its links, change what a name holds.
LEMMA OverwritesAreChosen ==
  ASSUME PubInv, Next, NEW n \in Names, ~Free(folder, n), folder'.holds[n] # folder.holds[n]
  PROVE  Chosen(n) \/ WrittenThrough(n)
<1> USE DEF PubInv
<1>1. \A id \in Ids : id # n
  BY FolderAssumption
<1>2. n \in Paths
  BY DEF Paths
<1>3. PICK id \in Ids :
        \/ Begin(id) \/ Verified(id) \/ Link(id) \/ Unlink(id) \/ Replace(id)
        \/ Sweep(id) \/ Discard(id)
        \/ (AgainDeletes \/ AgainSweeps) /\ id = desk.id
  <2>1. AgainDeletes \/ AgainSweeps => desk.id \in Ids
    BY DEF AgainDeletes, AgainSweeps, Shape, Desks
  <2>2. ~\E m \in Names : Outsider(m)
    BY <1>2, OutsiderInv DEF Outsider, Free
  <2>3. QED
    BY <2>1, <2>2
    DEF Next, Create, Cancel, Delete, Restore, Stops, Name, Complete, Fail, Ends, KeepBoth,
        ChooseReplace, Dropped, Again, Purge, Restart
<1>4. folder' # RemovePart(folder, id)
  BY <1>1, <1>2, RemovePartInv
<1>5. ASSUME NEW whole \in BOOLEAN, folder' = WritePart(folder, id, whole)
      PROVE  WrittenThrough(n)
  <2>1. /\ folder'.holds[id] = Bytes(id, whole)
        /\ \A m \in folder.twins[id] : folder'.holds[m] = Bytes(id, whole)
        /\ n \in folder.twins[id]
    BY <1>1, <1>2, <1>5, WritePartInv
  <2>2. QED
    BY <2>1 DEF WrittenThrough
<1>6. CASE Begin(id) \/ Verified(id)
  BY <1>5, <1>6 DEF Begin, Verified, Resumes
<1>7. ~Link(id)
  <2>1. job[id].dest \in Names \/ ~Link(id)
    BY DEF Link, At, Shape, Jobs
  <2>2. QED
    BY <1>2, <2>1, LinkPartInv DEF Link, Free
<1>8. CASE Replace(id)
  <2>1. job[id].dest \in Names
    BY <1>8 DEF Replace, At, Shape, Jobs
  <2>2. job[id].dest = n
    BY <1>1, <1>2, <1>8, <2>1, RenamePartInv DEF Replace
  <2>3. QED
    BY <1>8, <2>2 DEF Replace, Chosen
<1>9. CASE AgainDeletes
  <2>1. desk.name \in Names
    BY <1>9 DEF AgainDeletes, Shape, Desks
  <2>2. desk.name = n
    BY <1>2, <1>9, <2>1, RemoveNameInv DEF AgainDeletes
  <2>3. QED
    BY <1>9, <2>2 DEF AgainDeletes, Chosen
<1>10. QED
  BY <1>3, <1>4, <1>6, <1>7, <1>8, <1>9 DEF Unlink, Sweep, Discard, AgainSweeps

-----------------------------------------------------------------------------

LEMMA PubInvHolds == Spec => []PubInv
  BY PubStart, PubStep, PTL DEF Spec

\* Rows, workers, the desk and the folder keep their shape, and a link shows what
\* its part file holds.
THEOREM PublicationTyped == Spec => []TypeOK
  BY PubInvHolds, InvIsTyped, PTL

\* Bytes that were verified are in the part file or under a name until the user
\* gives them up, whatever conflicts, failed moves, crashes and deletions intervene.
THEOREM BytesAreKept == Spec => []BytesSurvive
<1>1. PubInv => BytesSurvive
  BY DEF PubInv, Shape, Safe, BytesSurvive
<1>2. QED
  BY <1>1, PubInvHolds, PTL

\* openFile finds a completed download under the name of its row, unless the user
\* had that very file replaced or deleted.
THEOREM CompletedOpens == Spec => []CompletedIsFound
<1>1. PubInv => CompletedIsFound
  BY DEF PubInv, Shape, Safe, CompletedIsFound
<1>2. QED
  BY <1>1, PubInvHolds, PTL

\* No step overwrites or removes the file under a name but by the user's choice.
THEOREM OverwritesNothing == Spec => NothingOverwritten
<1>1. PubInv /\ [Next]_vars =>
        [\A n \in Names :
           ~Free(folder, n) /\ folder'.holds[n] # folder.holds[n]
             => Chosen(n) \/ WrittenThrough(n)]_vars
  BY OverwritesAreChosen
<1>2. QED
  BY <1>1, PubInvHolds, PTL DEF Spec, NothingOverwritten
=============================================================================
