----------------------------- MODULE ResumableFile -----------------------------
(***************************************************************************)
(* What the chunk downloader promises of the part file, whatever happens   *)
(* to the process in between: progress that is recorded is progress that   *)
(* is on disk, and a file that is delivered is whole.                      *)
(***************************************************************************)
VARIABLES
  want,      \* the bytes of the file
  have,      \* those on disk
  recorded,  \* those the table says are on disk
  delivered  \* has Start told its caller that the file is complete?

fileVars == <<want, have, recorded, delivered>>

Init ==
  /\ have = {} /\ recorded = {}
  /\ delivered = FALSE

Store(b) ==
  /\ have' = have \cup {b}
  /\ UNCHANGED <<want, recorded, delivered>>

\* The table may fall behind the disk; it never newly runs ahead of it.
Record ==
  /\ recorded' \in SUBSET want
  /\ recorded' \ recorded \subseteq have
  /\ UNCHANGED <<want, have, delivered>>

Deliver ==
  /\ have = want
  /\ delivered' = TRUE
  /\ UNCHANGED <<want, have, recorded>>

Reopen ==
  /\ delivered' = FALSE
  /\ UNCHANGED <<want, have, recorded>>

\* Somebody else removes or truncates the part file.
Lose ==
  /\ ~delivered
  /\ have' \in SUBSET have
  /\ UNCHANGED <<want, recorded, delivered>>

Next ==
  \/ \E b \in want : Store(b)
  \/ Record \/ Deliver \/ Reopen \/ Lose

Spec == Init /\ [][Next]_fileVars
=============================================================================
