------------------------------- MODULE Intake --------------------------------
(***************************************************************************)
(* How an address enters the application: the handler of the local API     *)
(* (internal/api/server.go, with the closure main.go gives it), the Add    *)
(* dialog, the bounded channel AddURLCh, and addURLLoop, which takes one   *)
(* request at a time through HandleAdd (internal/ui/layout/desktop.go).    *)
(*                                                                         *)
(* HandleAdd is split at what it waits for: the query, the server that     *)
(* describes the file, the insertion.  The rows are counted per address;   *)
(* what happens to a row once it is inserted is Lunefetch's subject.       *)
(***************************************************************************)
EXTENDS Naturals, Sequences

CONSTANTS
  Urls,   \* addresses
  NoUrl,  \* not an address
  Cap     \* capacity of AddURLCh

ASSUME IntakeAssumption == NoUrl \notin Urls /\ Cap \in Nat \ {0}

VARIABLES
  app,      \* the process: "down", "up", or "closing" once stopCh is closed
  ch,       \* AddURLCh
  add,      \* addURLLoop: where it is, and the request in hand
  listed,   \* live rows of each address
  told,     \* addresses an error dialog on the screen is about
  taken     \* history: addresses the API has put on AddURLCh

intakeVars == <<app, ch, add, listed, told, taken>>

Waiting == [at |-> "waiting", url |-> NoUrl]

IntakeTypeOK ==
  /\ app \in {"down", "up", "closing"}
  /\ ch \in Seq(Urls) /\ Len(ch) <= Cap
  /\ add \in [at : {"waiting", "find", "fetch", "create", "stopped"}, url : Urls \cup {NoUrl}]
  /\ listed \in [Urls -> Nat]
  /\ told \subseteq Urls /\ taken \subseteq Urls

IntakeInit ==
  /\ app = "down"
  /\ ch = <<>>
  /\ add = Waiting
  /\ listed = [u \in Urls |-> 0]
  /\ told = {} /\ taken = {}

-----------------------------------------------------------------------------
(* The two ends of the channel that write to it; neither ever blocks.      *)

\* Mutant: a request the channel has no room for is answered 202 all the same.
HandlerNeverBusy(u) ==
  /\ IF Len(ch) < Cap
       THEN ch' = Append(ch, u) /\ taken' = taken \cup {u}
       ELSE UNCHANGED <<ch, taken>>
  /\ UNCHANGED <<app, add, listed, told>>

\* The API handler takes u: the select that pushes it finds room, 202.
Handler(u) ==
  /\ Len(ch) < Cap
  /\ ch' = Append(ch, u)
  /\ taken' = taken \cup {u}
  /\ UNCHANGED <<app, add, listed, told>>

\* 503: no room.
HandlerBusy == Len(ch) = Cap /\ UNCHANGED intakeVars

\* The server answers from Start until the process is gone: Stop is deferred
\* until after Run, and Run shuts the pages down first.
Serving == app # "down"

AddDialog(u) ==
  /\ app = "up"
  /\ IF Len(ch) < Cap
       THEN ch' = Append(ch, u) /\ UNCHANGED told
       ELSE told' = told \cup {u} /\ UNCHANGED ch
  /\ UNCHANGED <<app, add, listed, taken>>

-----------------------------------------------------------------------------
(* addURLLoop and HandleAdd.                                               *)

AddIs(at) == app # "down" /\ add.at = at
Settle == add' = Waiting

\* With stopCh closed and a request waiting, select takes either.
LoopTake ==
  /\ AddIs("waiting") /\ ch # <<>>
  /\ add' = [at |-> "find", url |-> Head(ch)]
  /\ ch' = Tail(ch)
  /\ UNCHANGED <<app, listed, told, taken>>

LoopStop ==
  /\ AddIs("waiting") /\ app = "closing"
  /\ add' = [Waiting EXCEPT !.at = "stopped"]
  /\ UNCHANGED <<app, ch, listed, told, taken>>

\* An error dialog, and HandleAdd returns.
Tell ==
  /\ told' = told \cup {add.url}
  /\ Settle

\* Mutant: an address already in the list is added once more.
FindNothing ==
  /\ AddIs("find")
  /\ add' = [add EXCEPT !.at = "fetch"]
  /\ UNCHANGED <<app, ch, listed, told, taken>>

FindByURL ==
  /\ AddIs("find")
  /\ IF listed[add.url] > 0
       THEN Tell
       ELSE add' = [add EXCEPT !.at = "fetch"] /\ UNCHANGED told
  /\ UNCHANGED <<app, ch, listed, taken>>

\* Mutant: a server that does not answer ends the request without a word.
FetchSilently ==
  /\ AddIs("fetch")
  /\ UNCHANGED told
  /\ Settle \/ add' = [add EXCEPT !.at = "create"]
  /\ UNCHANGED <<app, ch, listed, taken>>

\* GetFileInfo, the name and the destination: each may be refused.
Fetch ==
  /\ AddIs("fetch")
  /\ Tell \/ (add' = [add EXCEPT !.at = "create"] /\ UNCHANGED told)
  /\ UNCHANGED <<app, ch, listed, taken>>

\* CreateDownloadWithChunks inserts the row and its chunks, or nothing.
Create ==
  /\ AddIs("create")
  /\ \/ listed' = [listed EXCEPT ![add.url] = @ + 1] /\ Settle /\ UNCHANGED told
     \/ Tell /\ UNCHANGED listed
  /\ UNCHANGED <<app, ch, taken>>

LoopStep == LoopTake \/ FindByURL \/ Fetch \/ Create

-----------------------------------------------------------------------------
(* The process and the list.                                               *)

AppStart == app = "down" /\ app' = "up" /\ UNCHANGED <<ch, add, listed, told, taken>>

\* Shutdown closes stopCh; the API and a HandleAdd in progress go on.
AppClose == app = "up" /\ app' = "closing" /\ UNCHANGED <<ch, add, listed, told, taken>>

\* Run has returned and main ends, or the process is killed: only rows survive.
AppExit ==
  /\ app # "down"
  /\ app' = "down"
  /\ ch' = <<>> /\ add' = Waiting
  /\ UNCHANGED <<listed, told, taken>>

\* The user closes the error dialogs about u.
Dismiss(u) == u \in told /\ told' = told \ {u} /\ UNCHANGED <<app, ch, add, listed, taken>>

Delete(u) ==
  /\ app = "up" /\ listed[u] > 0
  /\ listed' = [listed EXCEPT ![u] = @ - 1]
  /\ UNCHANGED <<app, ch, add, told, taken>>

IntakeNext ==
  \/ LoopStep \/ LoopStop
  \/ AppStart \/ AppClose \/ AppExit
  \/ \E u \in Urls : AddDialog(u) \/ Dismiss(u) \/ Delete(u)

-----------------------------------------------------------------------------
(* Properties.                                                             *)

\* One address has at most one live row, whatever repeats the request: a timeout
\* after the application took it, a second browser event, a retry, the dialog
\* (HandleAdd's FindByURL, one addURLLoop).  Restore in the history, which looks
\* at no address, is not a request.
UniqueUrls == \A u \in Urls : listed[u] <= 1

\* While the application stays up, a request it has taken ends in a row or in an
\* error the user sees, never in silence.
Pending(u) == u = add.url \/ \E i \in 1..Len(ch) : ch[i] = u
PendingIsAnswered ==
  \A u \in Urls : app = "up" /\ Pending(u) ~> listed[u] > 0 \/ u \in told \/ app # "up"
=============================================================================
