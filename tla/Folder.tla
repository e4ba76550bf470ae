-------------------------------- MODULE Folder --------------------------------
(***************************************************************************)
(* A download folder, as the system calls of internal/core/downloader.go   *)
(* see it: os.Link, os.Rename, os.Remove, os.Lstat, and a write through an *)
(* open part file.  The part file of a download lies in the folder of its  *)
(* destination (partPath, SafeDownloadPath), so a link never crosses       *)
(* devices and the copying branches of MoveFile and ReplaceFile are idle.  *)
(*                                                                         *)
(* A folder f is a record: f.holds names the content of every path, and    *)
(* f.twins[id] the names that are hard links to the part file of id.       *)
(***************************************************************************)
EXTENDS Naturals, FiniteSets

CONSTANTS
  Ids,    \* downloads; the path of a part file is the id itself
  Names   \* file names in the folder

ASSUME FolderAssumption == Ids \subseteq Nat \ {0} /\ Names \cap Ids = {}

Paths == Names \cup Ids
Absent == [of |-> 0, whole |-> FALSE]
Theirs == [of |-> 0, whole |-> TRUE]    \* a file of somebody else
Bytes(id, whole) == [of |-> id, whole |-> whole]

Content == [of : Ids \cup {0}, whole : BOOLEAN]
Folders == [holds : [Paths -> Content], twins : [Ids -> SUBSET Names]]

EmptyFolder == [holds |-> [p \in Paths |-> Absent], twins |-> [id \in Ids |-> {}]]

Free(f, p) == f.holds[p] = Absent

\* A name that no longer is a link to any part file.
Apart(twins, n) == [id \in Ids |-> twins[id] \ {n}]

RemoveName(f, n) ==
  [holds |-> [f.holds EXCEPT ![n] = Absent], twins |-> Apart(f.twins, n)]

RemovePart(f, id) ==
  [holds |-> [f.holds EXCEPT ![id] = Absent], twins |-> [f.twins EXCEPT ![id] = {}]]

\* What is written through the part file shows under each of its links.
WritePart(f, id, whole) ==
  [f EXCEPT !.holds = [p \in Paths |-> IF p = id \/ p \in f.twins[id]
                                         THEN Bytes(id, whole) ELSE f.holds[p]]]

\* os.Link of a part file to a free name.
LinkPart(f, id, n) ==
  [holds |-> [f.holds EXCEPT ![n] = f.holds[id]],
   twins |-> [f.twins EXCEPT ![id] = @ \cup {n}]]

\* os.Rename of a part file onto a name, taken or not.  Two links to the same file
\* are left alone, and the call succeeds.
RenamePart(f, id, n) ==
  IF n \in f.twins[id] THEN f
  ELSE RemovePart([holds |-> [f.holds EXCEPT ![n] = f.holds[id]],
                   twins |-> Apart(f.twins, n)], id)
=============================================================================
