------------------------------- MODULE Handoff -------------------------------
(***************************************************************************)
(* The hand-off of a browser download to the application: the extension    *)
(* (extension/src/background.js and createHandoffController of core.mjs),  *)
(* one native host process per message (cmd/native-host), and Intake at    *)
(* the other end.                                                          *)
(*                                                                         *)
(* Firefox holds a response until the webRequest listener answers, and may *)
(* report the download all the same afterwards; Chromium only reports a    *)
(* download that already runs.  A menu click has no browser copy.  send    *)
(* gives up after nativeTimeout; the host process does not, so an address  *)
(* may be taken by the application long after its send has failed.         *)
(*                                                                         *)
(* Settings (interception off, a site rule, a bypass, a type that is not   *)
(* captured) and the reasons the host may fail are choices of the          *)
(* environment: every outcome but "accepted" keeps the browser copy.       *)
(***************************************************************************)
EXTENDS Intake

CONSTANTS
  Transfers,  \* downloads the user starts in the browser
  UrlOf,      \* the address of each
  Ways,       \* how each starts: held by a webRequest, created, or by the menu
  NoEntry,    \* not an entry of the list of failures
  MaxFailures \* MAX_FAILURES

ASSUME HandoffAssumption ==
  /\ UrlOf \in [Transfers -> Urls]
  /\ Ways \in [Transfers -> SUBSET {"request", "created", "menu"}]
  /\ MaxFailures \in Nat \ {0}
  /\ NoEntry \notin Transfers \X {"request", "created", "menu"}

VARIABLES
  copy,        \* the browser's copy of each transfer
  event,       \* onCreated: not begun, still to come, or delivered
  job,         \* what the extension is doing about each transfer
  host,        \* the native host process of each send
  intercepted, \* createHandoffController.intercepted: entries of each address
  failures,    \* the failures the popup lists, the newest first
  retrying     \* the failure retry-failure sends again

browserVars == <<copy, event>>
failureVars == <<failures, retrying>>
extVars == <<job, intercepted, failureVars>>
handoffVars == <<copy, event, job, host, intercepted, failureVars>>
allVars == <<intakeVars, handoffVars>>

Via == {"request", "created", "menu", "retry"}
Entry == Transfers \X (Via \ {"retry"})

\* A job is a send in progress, a listener that has its result but awaits the
\* feedback ("passing", "keeping"), or one about to drop the browser's copy.
Job == Via \cup {"idle", "passing", "keeping", "cancelling"}
Host == {"none", "running", "accepted", "refused"}

HandoffTypeOK ==
  /\ IntakeTypeOK
  /\ copy \in [Transfers -> {"none", "held", "running", "cancelled"}]
  /\ event \in [Transfers -> {"none", "due", "delivered"}]
  /\ job \in [Transfers -> Job]
  /\ host \in [Transfers -> [Via -> Host]]
  /\ intercepted \in [Urls -> Nat]
  /\ failures \in Seq(Entry) /\ Len(failures) <= MaxFailures
  /\ retrying \in Entry \cup {NoEntry}

Init ==
  /\ IntakeInit
  /\ copy = [t \in Transfers |-> "none"]
  /\ event = [t \in Transfers |-> "none"]
  /\ job = [t \in Transfers |-> "idle"]
  /\ host = [t \in Transfers |-> [v \in Via |-> "none"]]
  /\ intercepted = [u \in Urls |-> 0]
  /\ failures = <<>> /\ retrying = NoEntry

Sending(t) == job[t] \in Via
Goto(t, j) == job' = [job EXCEPT ![t] = j]

\* send: one message to a new native host process.
Send(t, v) ==
  /\ Goto(t, v)
  /\ host' = [host EXCEPT ![t][v] = "running"]

-----------------------------------------------------------------------------
(* The browser.                                                            *)

\* The webRequest listener captures the response and holds it.
BeginHeld(t) ==
  /\ event[t] = "none" /\ "request" \in Ways[t]
  /\ copy' = [copy EXCEPT ![t] = "held"]
  /\ event' = [event EXCEPT ![t] = "due"]
  /\ Send(t, "request")
  /\ UNCHANGED <<intakeVars, intercepted, failureVars>>

BeginRunning(t) ==
  /\ event[t] = "none" /\ "created" \in Ways[t]
  /\ copy' = [copy EXCEPT ![t] = "running"]
  /\ event' = [event EXCEPT ![t] = "due"]
  /\ UNCHANGED <<intakeVars, extVars, host>>

\* contextMenus.onClicked, and the messages of the extension's own pages.
SendWithFeedback(t) ==
  /\ event[t] = "none" /\ "menu" \in Ways[t]
  /\ event' = [event EXCEPT ![t] = "delivered"]
  /\ Send(t, "menu")
  /\ UNCHANGED <<intakeVars, copy, intercepted, failureVars>>

-----------------------------------------------------------------------------
(* downloads.onCreated and handleCreated.                                  *)

Created(t) ==
  /\ event[t] = "due" /\ copy[t] # "held" /\ job[t] = "idle"
  /\ event' = [event EXCEPT ![t] = "delivered"]

\* mayIntercept or the capture rules say no.
Ignore(t) == Created(t) /\ UNCHANGED <<intakeVars, extVars, copy, host>>

\* claimIntercept: an interception of the same address, not fifteen seconds old,
\* stands for this event.
ClaimIntercept(t) ==
  /\ Created(t)
  /\ intercepted[UrlOf[t]] > 0
  /\ intercepted' = [intercepted EXCEPT ![UrlOf[t]] = @ - 1]
  /\ Goto(t, "cancelling")
  /\ UNCHANGED <<intakeVars, copy, host, failureVars>>

HandleCreated(t) ==
  /\ Created(t)
  /\ intercepted[UrlOf[t]] = 0
  /\ Send(t, "created")
  /\ UNCHANGED <<intakeVars, copy, intercepted, failureVars>>

\* adapter.cancel resolves or rejects; the erase that follows takes a cancelled
\* download off the browser's list, or fails to.
Cancel(t) ==
  /\ job[t] = "cancelling"
  /\ copy' = [copy EXCEPT ![t] = "cancelled"] \/ UNCHANGED copy
  /\ Goto(t, "idle")
  /\ UNCHANGED <<intakeVars, event, host, intercepted, failureVars>>

-----------------------------------------------------------------------------
(* The list of failures.  Each change is written by storageSet at once.    *)

\* Mutant: the entries of the address go, not the entry.
ForgetUrl(e) == failures' = SelectSeq(failures, LAMBDA f : UrlOf[f[1]] # UrlOf[e[1]])

Listed(list, e) == \E i \in 1..Len(list) : list[i] = e
Without(list, i) == [j \in 1..(Len(list) - 1) |-> list[IF j < i THEN j ELSE j + 1]]

\* The entry with that id goes, if it is still there; a send has one entry at most.
Forget(e) ==
  \/ ~Listed(failures, e) /\ UNCHANGED failures
  \/ \E i \in 1..Len(failures) : failures[i] = e /\ failures' = Without(failures, i)

\* Mutant: the list is not cut.
RememberEverything(e) == failures' = <<e>> \o failures

\* rememberFailure: in front, the oldest beyond MAX_FAILURES falls out.
RememberFailure(e) ==
  LET all == <<e>> \o failures
  IN failures' = IF Len(all) > MaxFailures THEN SubSeq(all, 1, MaxFailures) ELSE all

\* retry-failure; the bound is one retry at a time.
RetryFailure(e) ==
  /\ retrying = NoEntry /\ job[e[1]] = "idle" /\ host[e[1]]["retry"] = "none"
  /\ Listed(failures, e)
  /\ retrying' = e
  /\ Send(e[1], "retry")
  /\ UNCHANGED <<intakeVars, browserVars, intercepted, failures>>

ClearFailures ==
  /\ failures # <<>>
  /\ failures' = <<>>
  /\ UNCHANGED <<intakeVars, browserVars, job, host, intercepted, retrying>>

-----------------------------------------------------------------------------
(* The result of a send.                                                   *)

\* interceptFirefox remembers the address, then the listener awaits its feedback;
\* handleCreated goes on to cancel; a menu send is done; a retry takes its entry
\* off the list.
AfterSuccess ==
  [request |-> "passing", created |-> "cancelling", menu |-> "idle", retry |-> "idle"]

Accepted(t) ==
  /\ Goto(t, AfterSuccess[job[t]])
  /\ intercepted' = IF job[t] = "request"
                      THEN [intercepted EXCEPT ![UrlOf[t]] = @ + 1] ELSE intercepted
  /\ IF job[t] = "retry"
       THEN Forget(retrying) /\ retrying' = NoEntry
       ELSE UNCHANGED <<failures, retrying>>

\* A retry that fails leaves its entry, if it is still there.
Failed(t) ==
  /\ Goto(t, IF job[t] = "request" THEN "keeping" ELSE "idle")
  /\ IF job[t] = "retry"
       THEN retrying' = NoEntry /\ UNCHANGED failures
       ELSE RememberFailure(<<t, job[t]>>) /\ UNCHANGED retrying
  /\ UNCHANGED intercepted

\* normalizeNativeResult of the host's answer.
Answer(t) ==
  /\ Sending(t)
  /\ \/ host[t][job[t]] = "accepted" /\ Accepted(t)
     \/ host[t][job[t]] = "refused" /\ Failed(t)
  /\ host' = [host EXCEPT ![t][job[t]] = "none"]
  /\ UNCHANGED <<intakeVars, browserVars>>

\* Mutant: a host that has not answered in time counts as one that has accepted.
TimeoutAccepts(t) ==
  /\ Sending(t)
  /\ Accepted(t)
  /\ UNCHANGED <<intakeVars, browserVars, host>>

\* Mutant: no timer, only the answer ends a send.
TimeoutNever(t) == Answer(t)

\* The timer of send wins the race; the host process goes on.
Timeout(t) ==
  /\ Sending(t)
  /\ Failed(t)
  /\ host' = [host EXCEPT ![t][job[t]] = IF @ = "running" THEN @ ELSE "none"]
  /\ UNCHANGED <<intakeVars, browserVars>>

\* { cancel: true } after a success, unless the feedback rejected; {} otherwise.
ListenerReturns(t) ==
  /\ \/ job[t] = "passing" /\ copy' = [copy EXCEPT ![t] = "cancelled"]
     \/ job[t] \in {"passing", "keeping"} /\ copy' = [copy EXCEPT ![t] = "running"]
  /\ Goto(t, "idle")
  /\ UNCHANGED <<intakeVars, event, host, intercepted, failureVars>>

\* prune and claimIntercept: an entry is fifteen seconds old.
Expire(u) ==
  /\ intercepted[u] > 0
  /\ intercepted' = [intercepted EXCEPT ![u] = @ - 1]
  /\ UNCHANGED <<intakeVars, browserVars, job, host, failureVars>>

\* The browser ends the service worker or the background page: everything in its
\* memory is gone, and a response nobody will answer for is let through.  Every
\* listener awaits ready(), so nothing happens before loadSettings has read the
\* failures back.
WorkerRestart ==
  /\ job' = [t \in Transfers |-> "idle"]
  /\ intercepted' = [u \in Urls |-> 0]
  /\ copy' = [t \in Transfers |-> IF copy[t] = "held" THEN "running" ELSE copy[t]]
  /\ host' = [t \in Transfers |->
                [v \in Via |-> IF host[t][v] = "running" THEN "running" ELSE "none"]]
  /\ retrying' = NoEntry
  /\ UNCHANGED <<intakeVars, event, failures>>

-----------------------------------------------------------------------------
(* The native host: handleRequest and sendToApp.                           *)

\* The process knows its answer; if nobody waits for it any more it is gone.
HostEnds(t, v, outcome) ==
  /\ host[t][v] = "running"
  /\ host' = [host EXCEPT ![t][v] = IF job[t] = v THEN outcome ELSE "none"]
  /\ UNCHANGED <<browserVars, extVars>>

\* No token, no connection, no host, an address the host or the API rejects, a
\* token the API rejects.
HostRefused(t, v) == HostEnds(t, v, "refused") /\ UNCHANGED intakeVars

\* The API takes the address; its answer may be lost, or come after the five
\* seconds of the client.
HostDelivers(t, v) ==
  /\ Serving
  /\ \/ Handler(UrlOf[t]) /\ \E outcome \in {"accepted", "refused"} : HostEnds(t, v, outcome)
     \/ HandlerBusy /\ HostEnds(t, v, "refused")

-----------------------------------------------------------------------------

Browser(t) ==
  \/ BeginHeld(t) \/ BeginRunning(t) \/ SendWithFeedback(t)
  \/ Ignore(t) \/ ClaimIntercept(t) \/ HandleCreated(t)

Extension(t) == Cancel(t) \/ Answer(t) \/ Timeout(t) \/ ListenerReturns(t)

NativeHost(t) == \E v \in Via : HostRefused(t, v) \/ HostDelivers(t, v)

Next ==
  \/ \E t \in Transfers : Browser(t) \/ Extension(t) \/ NativeHost(t)
  \/ \E u \in Urls : Expire(u)
  \/ \E e \in Entry : RetryFailure(e)
  \/ ClearFailures \/ WorkerRestart
  \/ IntakeNext /\ UNCHANGED handoffVars

Spec == Init /\ [][Next]_allVars

\* Timers fire and listeners return; addURLLoop goes on, and GetFileInfo ends
\* (its client has timeouts).  Nothing is asked of the host process, of the
\* browser or of the user.
Fairness ==
  /\ \A t \in Transfers : WF_allVars(Timeout(t)) /\ WF_allVars(ListenerReturns(t))
  /\ WF_allVars(LoopStep /\ UNCHANGED handoffVars)

FairSpec == Spec /\ Fairness

-----------------------------------------------------------------------------
(* Properties.                                                             *)

\* The browser's copy of a download is dropped only once the application has
\* taken its address: not for an answer that came late, a host that died, a full
\* channel, an interception of another address, or a restarted worker.
Promise == INSTANCE Custody WITH
  released <- {t \in Transfers : copy[t] = "cancelled"}
ImplementsCustody == Promise!Spec

\* A failed hand-off stays listed until the user clears the list, a retry of that
\* very entry succeeds, or newer failures push it out; in particular a failure
\* that arrives while a retry awaits its answer is not lost.
FailureIsKept ==
  [][\A e \in Entry : Listed(failures, e) /\ ~Listed(failures', e) =>
       \/ failures' = <<>> /\ retrying' = retrying
       \/ e = retrying /\ host[e[1]]["retry"] = "accepted"
       \/ e = failures[MaxFailures]]_allVars

\* A response held by the webRequest listener is let through or cancelled, even
\* if the native host never answers.
HeldIsSettled == \A t \in Transfers : copy[t] = "held" ~> copy[t] # "held"
=============================================================================
