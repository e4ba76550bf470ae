---------------------------- MODULE HandoffProofs ----------------------------
(***************************************************************************)
(* The hand-off, for any number of transfers and addresses, any capacity   *)
(* of the channel and any length of the list of failures: one address      *)
(* never has two live rows, the browser's copy of a download goes only     *)
(* when the application has taken its address, and no failure leaves the   *)
(* list unexcused.                                                         *)
(*                                                                         *)
(* The first rests on addURLLoop being alone: between FindByURL and the    *)
(* insertion nothing else adds a row.  The second follows an answer from   *)
(* the channel back to the browser: wherever the extension may still draw  *)
(* a cancellation from, the address has been taken.  The third needs that  *)
(* a retry in progress is the retry of the entry that retrying names.      *)
(***************************************************************************)
EXTENDS Handoff, SequenceTheorems, TLAPS

-----------------------------------------------------------------------------
(* The list.                                                               *)

InHand == {"find", "fetch", "create"}

\* What HandleAdd knows of the address it works on.
ListInv ==
  /\ IntakeTypeOK
  /\ UniqueUrls
  /\ add.at \in InHand => add.url \in Urls
  /\ add.at \in {"fetch", "create"} => listed[add.url] = 0

\* An empty list has no duplicates.
LEMMA ListInit == Init => ListInv
  BY IntakeAssumption
  DEF Init, IntakeInit, ListInv, IntakeTypeOK, UniqueUrls, Waiting, InHand

\* The API handler only appends to the channel.
LEMMA HandlerKeepsList ==
  ASSUME ListInv, NEW u \in Urls, Handler(u)
  PROVE  ListInv'
<1> USE DEF Handler, ListInv
<1>1. IntakeTypeOK'
  BY IntakeAssumption DEF IntakeTypeOK
<1>2. QED
  BY <1>1 DEF UniqueUrls

\* A step of addURLLoop adds a row only for an address that has none.
LEMMA LoopKeepsList ==
  ASSUME ListInv, LoopStep \/ LoopStop
  PROVE  ListInv'
<1> USE IntakeAssumption DEF ListInv, AddIs, Settle, Waiting, InHand
<1>1. CASE LoopTake
  <2>1. Head(ch) \in Urls /\ Tail(ch) \in Seq(Urls) /\ Len(Tail(ch)) <= Cap
    BY <1>1 DEF LoopTake, IntakeTypeOK
  <2>2. QED
    BY <1>1, <2>1 DEF LoopTake, IntakeTypeOK, UniqueUrls
<1>2. CASE LoopStop
  BY <1>2 DEF LoopStop, IntakeTypeOK, UniqueUrls
<1>3. CASE FindByURL
  BY <1>3 DEF FindByURL, Tell, IntakeTypeOK, UniqueUrls
<1>4. CASE Fetch
  BY <1>4 DEF Fetch, Tell, IntakeTypeOK, UniqueUrls
<1>5. CASE Create
  <2>1. add.url \in Urls /\ listed[add.url] = 0 /\ add' = Waiting
    BY <1>5 DEF Create, Tell
  <2>2. CASE listed' = [listed EXCEPT ![add.url] = @ + 1] /\ UNCHANGED told
    BY <1>5, <2>1, <2>2 DEF Create, IntakeTypeOK, UniqueUrls
  <2>3. CASE Tell /\ UNCHANGED listed
    BY <1>5, <2>1, <2>3 DEF Create, Tell, IntakeTypeOK, UniqueUrls
  <2>4. QED
    BY <1>5, <2>2, <2>3 DEF Create
<1>6. QED
  BY <1>1, <1>2, <1>3, <1>4, <1>5 DEF LoopStep

\* The process, the dialogs and the user add no row.
LEMMA AppKeepsList ==
  ASSUME ListInv,
         \/ AppStart \/ AppClose \/ AppExit
         \/ \E u \in Urls : AddDialog(u) \/ Dismiss(u) \/ Delete(u)
  PROVE  ListInv'
<1> USE IntakeAssumption DEF ListInv, Waiting, InHand
<1>1. CASE AppStart
  BY <1>1 DEF AppStart, IntakeTypeOK, UniqueUrls
<1>2. CASE AppClose
  BY <1>2 DEF AppClose, IntakeTypeOK, UniqueUrls
<1>3. CASE AppExit
  BY <1>3 DEF AppExit, IntakeTypeOK, UniqueUrls
<1>4. ASSUME NEW u \in Urls, AddDialog(u) PROVE ListInv'
  <2>1. CASE Len(ch) < Cap
    <3>1. Append(ch, u) \in Seq(Urls) /\ Len(Append(ch, u)) <= Cap
      BY <2>1 DEF IntakeTypeOK
    <3>2. QED
      BY <1>4, <2>1, <3>1 DEF AddDialog, IntakeTypeOK, UniqueUrls
  <2>2. CASE ~(Len(ch) < Cap)
    BY <1>4, <2>2 DEF AddDialog, IntakeTypeOK, UniqueUrls
  <2>3. QED
    BY <2>1, <2>2
<1>5. ASSUME NEW u \in Urls, Dismiss(u) PROVE ListInv'
  BY <1>5 DEF Dismiss, IntakeTypeOK, UniqueUrls
<1>6. ASSUME NEW u \in Urls, Delete(u) PROVE ListInv'
  BY <1>6 DEF Delete, IntakeTypeOK, UniqueUrls
<1>7. QED
  BY <1>1, <1>2, <1>3, <1>4, <1>5, <1>6

\* Of everything around the application, only a host that delivers touches it.
LEMMA OutsideIsHandler ==
  ASSUME Next, ~(IntakeNext /\ UNCHANGED handoffVars)
  PROVE  UNCHANGED intakeVars \/ \E t \in Transfers : Handler(UrlOf[t])
<1>1. CASE \E t \in Transfers : Browser(t)
  BY <1>1 DEF Browser, BeginHeld, BeginRunning, SendWithFeedback, Ignore, ClaimIntercept,
     HandleCreated
<1>2. CASE \E t \in Transfers : Extension(t)
  BY <1>2 DEF Extension, Cancel, Answer, Timeout, ListenerReturns
<1>3. CASE \E t \in Transfers : NativeHost(t)
  BY <1>3 DEF NativeHost, HostRefused, HostDelivers, HandlerBusy
<1>4. CASE (\E u \in Urls : Expire(u)) \/ (\E e \in Entry : RetryFailure(e))
  BY <1>4 DEF Expire, RetryFailure
<1>5. CASE ClearFailures \/ WorkerRestart
  BY <1>5 DEF ClearFailures, WorkerRestart
<1>6. QED
  BY <1>1, <1>2, <1>3, <1>4, <1>5 DEF Next

\* No step of the composition lists an address twice.
LEMMA ListStep ==
  ASSUME ListInv, [Next]_allVars
  PROVE  ListInv'
<1>1. CASE UNCHANGED intakeVars
  BY <1>1 DEF intakeVars, ListInv, IntakeTypeOK, UniqueUrls
<1>2. CASE \E t \in Transfers : Handler(UrlOf[t])
  BY <1>2, HandoffAssumption, HandlerKeepsList
<1>3. CASE IntakeNext
  BY <1>3, LoopKeepsList, AppKeepsList DEF IntakeNext
<1>4. QED
  BY <1>1, <1>2, <1>3, OutsideIsHandler DEF allVars

\* However a request is repeated, delayed or retried, an address has at most one
\* live row: HandleAdd looks the address up and inserts it on one goroutine.
THEOREM OneRowPerUrl == Spec => []UniqueUrls
<1>1. ListInv => UniqueUrls
  BY DEF ListInv
<1>2. QED
  BY <1>1, ListInit, ListStep, PTL DEF Spec

-----------------------------------------------------------------------------
(* The browser's copy.                                                     *)

Ground(t) == UrlOf[t] \in taken

\* The shapes the steps below update.
CustodyShape ==
  /\ copy \in [Transfers -> {"none", "held", "running", "cancelled"}]
  /\ event \in [Transfers -> {"none", "due", "delivered"}]
  /\ job \in [Transfers -> Job]
  /\ host \in [Transfers -> [Via -> Host]]
  /\ intercepted \in [Urls -> Nat]

\* Wherever a cancellation may still come from, the address has been taken: a
\* host that holds an acceptance, an entry of intercepted, a job about to drop
\* the copy.
Grounded ==
  /\ \A t \in Transfers : copy[t] = "cancelled" => Ground(t)
  /\ \A t \in Transfers : job[t] \in {"passing", "cancelling"} => Ground(t)
  /\ \A t \in Transfers : \A v \in Via : host[t][v] = "accepted" => Ground(t)
  /\ \A u \in Urls : intercepted[u] > 0 => u \in taken

\* A copy that is gone never comes back: a listener only settles a held response,
\* and a transfer begins once.
Settled ==
  \A t \in Transfers :
    /\ event[t] = "none" => copy[t] = "none"
    /\ job[t] \in {"created", "cancelling"} => event[t] # "none"
    /\ job[t] \in {"request", "passing", "keeping"} => copy[t] = "held"

CustodyInv == CustodyShape /\ Grounded /\ Settled

Released == {t \in Transfers : copy[t] = "cancelled"}

LEMMA CustodyStart == Init => CustodyInv /\ Released = {}
  BY HandoffAssumption
  DEF Init, IntakeInit, CustodyInv, CustodyShape, Grounded, Settled, Job, Via, Host,
      Ground, Released

\* send keeps what is known: the new host has answered nothing yet.
LEMMA SendKeeps ==
  ASSUME CustodyInv, NEW t \in Transfers, NEW v \in Via, Send(t, v),
         taken' = taken, intercepted' = intercepted,
         \/ /\ copy' = copy /\ v # "request"
            /\ \/ event' = event /\ v # "created"
               \/ event' = [event EXCEPT ![t] = "delivered"]
         \/ /\ copy' = [copy EXCEPT ![t] = "held"] /\ v = "request" /\ event[t] = "none"
            /\ event' = [event EXCEPT ![t] = "due"]
  PROVE  CustodyInv' /\ Released' = Released
<1> USE DEF CustodyInv
<1>1. /\ copy' \in [Transfers -> {"none", "held", "running", "cancelled"}]
      /\ \A s \in Transfers :
           \/ copy'[s] = copy[s] /\ (s = t => v # "request")
           \/ s = t /\ copy'[s] = "held" /\ copy[s] = "none"
  <2>1. CASE copy' = copy /\ v # "request"
    BY <2>1 DEF CustodyShape
  <2>2. CASE copy' = [copy EXCEPT ![t] = "held"] /\ event[t] = "none"
    BY <2>2 DEF CustodyShape, Settled
  <2>3. QED
    BY <2>1, <2>2
<1>2. /\ event' \in [Transfers -> {"none", "due", "delivered"}]
      /\ \A s \in Transfers : event'[s] = "none" =>
           event[s] = "none" /\ copy'[s] = copy[s] /\ (s = t => v # "created")
  <2>1. CASE event' = event /\ copy' = copy /\ v # "created"
    BY <2>1 DEF CustodyShape
  <2>2. CASE event' = [event EXCEPT ![t] = "delivered"] /\ copy' = copy
    BY <2>2 DEF CustodyShape
  <2>3. CASE event' = [event EXCEPT ![t] = "due"] /\ copy' = [copy EXCEPT ![t] = "held"]
    BY <2>3 DEF CustodyShape
  <2>4. QED
    BY <2>1, <2>2, <2>3
<1>3. /\ host' \in [Transfers -> [Via -> Host]]
      /\ \A s \in Transfers : \A w \in Via :
           host'[s][w] = host[s][w] \/ host'[s][w] = "running"
  BY DEF CustodyShape, Send, Host
<1>4. /\ job' \in [Transfers -> Job]
      /\ \A s \in Transfers : job'[s] = IF s = t THEN v ELSE job[s]
  <2>1. job \in [Transfers -> Job] /\ v \in Job /\ job' = [job EXCEPT ![t] = v]
    BY DEF CustodyShape, Send, Goto, Job
  <2>2. QED
    BY <2>1
<1>5. CustodyShape'
  BY <1>1, <1>2, <1>3, <1>4 DEF CustodyShape
<1>6. Grounded'
  <2>1. \A s \in Transfers : copy'[s] = "cancelled" => Ground(s)'
    BY <1>1 DEF Grounded, Ground
  <2>2. \A s \in Transfers : job'[s] \in {"passing", "cancelling"} => Ground(s)'
    BY <1>4 DEF Grounded, Ground, Via
  <2>3. \A s \in Transfers : \A w \in Via : host'[s][w] = "accepted" => Ground(s)'
    BY <1>3 DEF Grounded, Ground
  <2>4. QED
    BY <2>1, <2>2, <2>3 DEF Grounded
<1>7. Settled'
  <2>1. \A s \in Transfers : event'[s] = "none" => copy'[s] = "none"
    BY <1>2 DEF Settled
  <2>2. \A s \in Transfers : job'[s] \in {"created", "cancelling"} => event'[s] # "none"
    BY <1>2, <1>4 DEF Settled, Via
  <2>3. \A s \in Transfers : job'[s] \in {"request", "passing", "keeping"} => copy'[s] = "held"
    BY <1>1, <1>4 DEF Settled, Via
  <2>4. QED
    BY <2>1, <2>2, <2>3 DEF Settled
<1>8. QED
  BY <1>1, <1>5, <1>6, <1>7 DEF Released

\* The browser starts a transfer, or reports one.
LEMMA BrowserKeeps ==
  ASSUME CustodyInv, NEW t \in Transfers, Browser(t)
  PROVE  CustodyInv' /\ taken' = taken /\ Released' = Released
<1> USE DEF CustodyInv
<1>1. CASE BeginHeld(t)
  BY <1>1, SendKeeps DEF BeginHeld, intakeVars, Via
<1>2. CASE BeginRunning(t)
  <2>1. /\ taken' = taken /\ job' = job /\ host' = host /\ intercepted' = intercepted
        /\ copy' = [copy EXCEPT ![t] = "running"] /\ event' = [event EXCEPT ![t] = "due"]
    BY <1>2 DEF BeginRunning, intakeVars, extVars
  <2>2. copy[t] = "none" /\ job[t] \notin {"request", "passing", "keeping"}
    BY <1>2 DEF BeginRunning, Settled
  <2>3. QED
    BY <2>1, <2>2 DEF CustodyShape, Grounded, Settled, Ground, Released
<1>3. CASE SendWithFeedback(t)
  BY <1>3, SendKeeps DEF SendWithFeedback, intakeVars, Via
<1>4. CASE Ignore(t)
  BY <1>4
  DEF Ignore, Created, intakeVars, extVars, CustodyShape, Grounded, Settled, Ground, Released
<1>5. CASE ClaimIntercept(t)
  <2>1. Ground(t) /\ UrlOf[t] \in Urls
    BY <1>5, HandoffAssumption DEF ClaimIntercept, Grounded, Ground
  <2>2. /\ taken' = taken /\ host' = host /\ copy' = copy
        /\ job' = [job EXCEPT ![t] = "cancelling"]
        /\ event' = [event EXCEPT ![t] = "delivered"]
        /\ intercepted[UrlOf[t]] > 0
        /\ intercepted' = [intercepted EXCEPT ![UrlOf[t]] = @ - 1]
    BY <1>5 DEF ClaimIntercept, Created, Goto, intakeVars
  <2>3. CustodyShape'
    BY <2>1, <2>2 DEF CustodyShape, Job
  <2>4. Grounded'
    BY <2>1, <2>2 DEF CustodyShape, Grounded, Ground
  <2>5. QED
    BY <2>2, <2>3, <2>4 DEF CustodyShape, Settled, Released
<1>6. CASE HandleCreated(t)
  BY <1>6, SendKeeps DEF HandleCreated, Created, intakeVars, Via
<1>7. QED
  BY <1>1, <1>2, <1>3, <1>4, <1>5, <1>6 DEF Browser

\* The result of a send: what follows a success is grounded in the acceptance.
LEMMA ResultKeeps ==
  ASSUME CustodyInv, NEW t \in Transfers, Answer(t) \/ Timeout(t)
  PROVE  CustodyInv' /\ taken' = taken /\ Released' = Released
<1> USE DEF CustodyInv
<1>1. taken' = taken /\ copy' = copy /\ event' = event
  BY DEF Answer, Timeout, intakeVars, browserVars
<1>2. job[t] \in Via
  BY DEF Answer, Timeout, Sending
<1>3. PICK h \in {"running", "none"} : host' = [host EXCEPT ![t][job[t]] = h]
  BY DEF Answer, Timeout
<1>4. host' \in [Transfers -> [Via -> Host]]
  BY <1>2, <1>3 DEF CustodyShape, Host
<1>5. \A s \in Transfers : \A v \in Via : host'[s][v] = "accepted" => Ground(s)
  BY <1>2, <1>3 DEF CustodyShape, Grounded
<1>6. Failed(t) \/ (Accepted(t) /\ Ground(t))
  BY <1>2 DEF Answer, Timeout, Grounded
<1>7. PICK j : job' = [job EXCEPT ![t] = j] /\ j \in {"passing", "keeping", "cancelling", "idle"}
  BY <1>2, <1>6 DEF Failed, Accepted, Goto, AfterSuccess, Via
<1>8. /\ j \in {"passing", "cancelling"} => Ground(t)
      /\ j \in {"passing", "keeping"} => job[t] = "request"
      /\ j = "cancelling" => job[t] = "created"
  <2>1. job'[t] = j
    BY <1>7 DEF CustodyShape
  <2>2. CASE Failed(t)
    BY <1>2, <2>1, <2>2 DEF Failed, Goto, CustodyShape, Via
  <2>3. CASE Accepted(t) /\ Ground(t)
    BY <1>2, <2>1, <2>3 DEF Accepted, Goto, AfterSuccess, CustodyShape, Via
  <2>4. QED
    BY <1>6, <2>2, <2>3
<1>9. /\ intercepted' \in [Urls -> Nat]
      /\ \A u \in Urls : intercepted'[u] > 0 => u \in taken
  <2>1. CASE intercepted' = intercepted
    BY <2>1 DEF CustodyShape, Grounded
  <2>2. CASE intercepted' = [intercepted EXCEPT ![UrlOf[t]] = @ + 1] /\ Ground(t)
    BY <2>2, HandoffAssumption DEF CustodyShape, Grounded, Ground
  <2>3. QED
    BY <1>6, <2>1, <2>2 DEF Failed, Accepted
<1>10. CustodyShape'
  BY <1>1, <1>4, <1>7, <1>9 DEF CustodyShape, Job
<1>11. Grounded'
  BY <1>1, <1>5, <1>7, <1>8, <1>9 DEF CustodyShape, Grounded, Ground
<1>12. QED
  BY <1>1, <1>7, <1>8, <1>10, <1>11 DEF CustodyShape, Settled, Released

\* A copy is dropped only by a job that has its ground.
LEMMA DropKeeps ==
  ASSUME CustodyInv, NEW t \in Transfers, Cancel(t) \/ ListenerReturns(t)
  PROVE  /\ CustodyInv' /\ taken' = taken
         /\ Released' = Released \/ (Released' = Released \cup {t} /\ Ground(t))
<1> USE DEF CustodyInv
<1>1. /\ taken' = taken /\ host' = host /\ intercepted' = intercepted /\ event' = event
      /\ job' = [job EXCEPT ![t] = "idle"]
  BY DEF Cancel, ListenerReturns, Goto, intakeVars
<1>2. \/ copy' = copy
      \/ copy' = [copy EXCEPT ![t] = "running"] /\ copy[t] = "held"
      \/ copy' = [copy EXCEPT ![t] = "cancelled"] /\ Ground(t)
  BY DEF Cancel, ListenerReturns, Grounded, Settled
<1>3. copy' \in [Transfers -> {"none", "held", "running", "cancelled"}]
  BY <1>2 DEF CustodyShape
<1>4. CustodyShape'
  BY <1>1, <1>3 DEF CustodyShape, Job
<1>5. Grounded'
  BY <1>1, <1>2 DEF CustodyShape, Grounded, Ground
<1>6. event[t] # "none" \/ copy' = copy
  BY <1>2 DEF Cancel, ListenerReturns, Settled
<1>7. Settled'
  BY <1>1, <1>2, <1>6 DEF CustodyShape, Settled
<1>8. QED
  BY <1>1, <1>2, <1>4, <1>5, <1>7 DEF CustodyShape, Released

\* Entries grow old, the user retries or clears failures, and the browser restarts
\* the extension: what that forgets grounds nothing, what it keeps is grounded.
LEMMA OthersKeep ==
  ASSUME CustodyInv,
         \/ \E u \in Urls : Expire(u)
         \/ \E e \in Entry : RetryFailure(e)
         \/ ClearFailures \/ WorkerRestart
  PROVE  CustodyInv' /\ taken' = taken /\ Released' = Released
<1> USE DEF CustodyInv
<1>1. ASSUME NEW u \in Urls, Expire(u)
      PROVE  CustodyInv' /\ taken' = taken /\ Released' = Released
  <2>1. /\ taken' = taken /\ UNCHANGED <<copy, event, job, host>>
        /\ intercepted' = [intercepted EXCEPT ![u] = @ - 1] /\ intercepted[u] > 0
    BY <1>1 DEF Expire, intakeVars, browserVars
  <2>2. QED
    BY <2>1 DEF CustodyShape, Grounded, Settled, Ground, Released
<1>2. ASSUME NEW e \in Entry, RetryFailure(e)
      PROVE  CustodyInv' /\ taken' = taken /\ Released' = Released
  BY <1>2, SendKeeps DEF RetryFailure, intakeVars, browserVars, Via, Entry
<1>3. CASE ClearFailures
  BY <1>3 DEF ClearFailures, intakeVars, browserVars, CustodyShape, Grounded, Settled,
     Ground, Released
<1>4. CASE WorkerRestart
  <2>1. CustodyShape'
    BY <1>4 DEF WorkerRestart, CustodyShape, Job, Host
  <2>2. QED
    BY <1>4, <2>1
    DEF WorkerRestart, intakeVars, CustodyShape, Grounded, Settled, Ground, Released
<1>5. QED
  BY <1>1, <1>2, <1>3, <1>4

\* A native host answers "accepted" only in the step that has the address taken.
LEMMA HostKeeps ==
  ASSUME CustodyInv, NEW t \in Transfers, NativeHost(t)
  PROVE  /\ CustodyInv' /\ Released' = Released
         /\ taken' = taken \/ taken' = taken \cup {UrlOf[t]}
<1> USE DEF CustodyInv
<1>1. PICK v \in Via : HostRefused(t, v) \/ HostDelivers(t, v)
  BY DEF NativeHost
<1>2. ASSUME NEW o \in {"accepted", "refused"}, HostEnds(t, v, o),
             taken \subseteq taken', o = "accepted" => UrlOf[t] \in taken'
      PROVE  CustodyInv' /\ Released' = Released
  <2>1. UNCHANGED <<copy, event, job, intercepted>>
    BY <1>2 DEF HostEnds, browserVars, extVars
  <2>2. PICK h \in {o, "none"} : host' = [host EXCEPT ![t][v] = h]
    BY <1>2 DEF HostEnds
  <2>3. host' \in [Transfers -> [Via -> Host]]
    BY <2>2 DEF CustodyShape, Host
  <2>4. \A s \in Transfers : \A w \in Via : host'[s][w] = "accepted" => UrlOf[s] \in taken'
    BY <1>2, <2>2 DEF CustodyShape, Grounded, Ground
  <2>5. QED
    BY <1>2, <2>1, <2>3, <2>4 DEF CustodyShape, Grounded, Settled, Ground, Released
<1>3. CASE HostRefused(t, v)
  BY <1>2, <1>3 DEF HostRefused, intakeVars
<1>4. CASE HostDelivers(t, v)
  <2>1. CASE Handler(UrlOf[t]) /\ \E o \in {"accepted", "refused"} : HostEnds(t, v, o)
    BY <1>2, <2>1 DEF Handler
  <2>2. CASE HandlerBusy /\ HostEnds(t, v, "refused")
    BY <1>2, <2>2 DEF HandlerBusy, intakeVars
  <2>3. QED
    BY <1>4, <2>1, <2>2 DEF HostDelivers
<1>5. QED
  BY <1>1, <1>3, <1>4

\* The application for itself takes no browser download.
LEMMA IntakeTakesNothing == IntakeNext => taken' = taken
  BY DEF IntakeNext, LoopStep, LoopTake, LoopStop, FindByURL, Fetch, Create, AppStart,
     AppClose, AppExit, AddDialog, Dismiss, Delete

\* Every step keeps the invariant, and takes an address, lets one copy go on its
\* ground, or does neither.
LEMMA CustodyStep ==
  ASSUME CustodyInv, [Next]_allVars
  PROVE  /\ CustodyInv'
         /\ \/ taken' = taken /\ Released' = Released
            \/ \E u \in Urls : taken' = taken \cup {u} /\ Released' = Released
            \/ \E t \in Transfers :
                 Ground(t) /\ taken' = taken /\ Released' = Released \cup {t}
<1>1. CASE \E t \in Transfers : Browser(t)
  BY <1>1, BrowserKeeps
<1>2. CASE \E t \in Transfers : Extension(t)
  BY <1>2, ResultKeeps, DropKeeps DEF Extension
<1>3. CASE \E t \in Transfers : NativeHost(t)
  BY <1>3, HostKeeps, HandoffAssumption
<1>4. CASE \/ \E u \in Urls : Expire(u)
           \/ \E e \in Entry : RetryFailure(e)
           \/ ClearFailures \/ WorkerRestart
  BY <1>4, OthersKeep
<1>5. CASE taken' = taken /\ UNCHANGED handoffVars
  BY <1>5 DEF handoffVars, CustodyInv, CustodyShape, Grounded, Settled, Ground, Released
<1>6. QED
  BY <1>1, <1>2, <1>3, <1>4, <1>5, IntakeTakesNothing DEF Next, allVars, intakeVars

\* The browser's copy of a download is dropped only once the application has taken
\* its address: the composition of extension, native hosts and application implements
\* Custody, for every timeout, restart, lost answer and repeated event.
THEOREM CustodyHolds == Spec => ImplementsCustody
<1>1. Init => Promise!Init
  BY CustodyStart DEF Init, IntakeInit, Promise!Init, Released
<1>2. CustodyInv /\ [Next]_allVars => [Promise!Next]_(Promise!custodyVars)
  BY CustodyStep
  DEF Promise!Next, Promise!Take, Promise!Release, Promise!custodyVars, Released, Ground
<1>3. CustodyInv /\ [Next]_allVars => CustodyInv'
  BY CustodyStep
<1>4. Init => CustodyInv
  BY CustodyStart
<1>5. QED
  BY <1>1, <1>2, <1>3, <1>4, PTL DEF Spec, ImplementsCustody, Promise!Spec

-----------------------------------------------------------------------------
(* The list of failures.                                                   *)

\* Without(list, i) is a list, one shorter, of everything but list[i].
LEMMA WithoutOne ==
  ASSUME NEW S, NEW list \in Seq(S), NEW i \in 1..Len(list)
  PROVE  /\ Without(list, i) \in Seq(S)
         /\ Len(Without(list, i)) = Len(list) - 1
         /\ \A e \in S : Listed(list, e) /\ e # list[i] => Listed(Without(list, i), e)
<1>1. Len(list) \in Nat /\ Len(list) - 1 \in Nat
  BY LenProperties
<1>2. \A j \in 1..(Len(list) - 1) : list[IF j < i THEN j ELSE j + 1] \in S
  BY <1>1, ElementOfSeq
<1>3. Without(list, i) \in Seq(S) /\ Len(Without(list, i)) = Len(list) - 1
  BY <1>1, <1>2 DEF Without
<1>4. ASSUME NEW e \in S, Listed(list, e), e # list[i]
      PROVE  Listed(Without(list, i), e)
  <2>1. PICK k \in 1..Len(list) : list[k] = e
    BY <1>4 DEF Listed
  <2>2. CASE k < i
    <3>1. k \in 1..(Len(list) - 1)
      BY <1>1, <2>2
    <3>2. Without(list, i)[k] = e
      BY <2>1, <2>2, <3>1 DEF Without
    <3>3. QED
      BY <1>3, <3>1, <3>2 DEF Listed
  <2>3. CASE ~(k < i)
    <3>1. k - 1 \in 1..(Len(list) - 1) /\ ~(k - 1 < i) /\ (k - 1) + 1 = k
      BY <1>1, <1>4, <2>1, <2>3
    <3>2. Without(list, i)[k - 1] = e
      BY <2>1, <3>1 DEF Without
    <3>3. QED
      BY <1>3, <3>1, <3>2 DEF Listed
  <2>4. QED
    BY <2>2, <2>3
<1>5. QED
  BY <1>3, <1>4

FailureTyped ==
  /\ failures \in Seq(Entry) /\ Len(failures) <= MaxFailures
  /\ retrying \in Entry \cup {NoEntry}

\* The retry in progress is the one of the entry that retrying names.
FailureInv ==
  /\ FailureTyped
  /\ \A t \in Transfers : job[t] = "retry" => retrying \in Entry /\ retrying[1] = t

\* The losses FailureIsKept allows.
Excused(e) ==
  \/ failures' = <<>> /\ retrying' = retrying
  \/ e = retrying /\ host[e[1]]["retry"] = "accepted"
  \/ e = failures[MaxFailures]
NothingLost ==
  \A e \in Entry : Listed(failures, e) /\ ~Listed(failures', e) => Excused(e)

\* No failure, no retry at first.
LEMMA FailureStart == Init => FailureInv
  BY HandoffAssumption, EmptySeq DEF Init, FailureInv, FailureTyped, Via

\* The new failure comes in front, and the list loses at most its last entry,
\* when it was full.
LEMMA RememberKeeps ==
  ASSUME FailureTyped, NEW e \in Entry, RememberFailure(e)
  PROVE  /\ failures' \in Seq(Entry) /\ Len(failures') <= MaxFailures
         /\ \A f \in Entry : Listed(failures, f) /\ ~Listed(failures', f)
              => f = failures[MaxFailures]
<1> DEFINE all == <<e>> \o failures
<1>1. failures \in Seq(Entry) /\ Len(failures) \in Nat /\ Len(failures) <= MaxFailures
  BY LenProperties DEF FailureTyped
<1>2. <<e>> \in Seq(Entry) /\ Len(<<e>>) = 1
  OBVIOUS
<1>3. /\ all \in Seq(Entry) /\ Len(all) = 1 + Len(failures)
      /\ \A k \in 1..Len(all) : all[k] = IF k <= 1 THEN <<e>>[k] ELSE failures[k - 1]
  BY <1>1, <1>2, ConcatProperties
<1>4. \A k \in 1..Len(all) : all[k] \in Entry
  BY <1>3, ElementOfSeq
<1> HIDE DEF all
<1>5. MaxFailures \in Nat /\ MaxFailures >= 1
  BY HandoffAssumption
<1>6. CASE Len(all) > MaxFailures
  <2>1. failures' = SubSeq(all, 1, MaxFailures) /\ Len(failures) = MaxFailures
    BY <1>1, <1>3, <1>5, <1>6 DEF RememberFailure, all
  <2>2. \A k \in 1..MaxFailures : all[k] \in Entry
    BY <1>3, <1>4, <1>5, <1>6
  <2>3. /\ failures' \in Seq(Entry) /\ Len(failures') = MaxFailures
        /\ \A k \in 1..MaxFailures : failures'[k] = all[k]
    <3>1. /\ SubSeq(all, 1, MaxFailures) \in Seq(Entry)
          /\ Len(SubSeq(all, 1, MaxFailures)) = MaxFailures
          /\ \A k \in 1..(MaxFailures - 1 + 1) : SubSeq(all, 1, MaxFailures)[k] = all[1 + k - 1]
      <4>1. 1 \in Int /\ MaxFailures \in Int /\ 1 <= MaxFailures
        BY <1>5
      <4>2. MaxFailures - 1 + 1 = MaxFailures
        BY <1>5
      <4>3. QED
        BY <2>2, <4>1, <4>2, SubSeqProperties
    <3>2. QED
      BY <1>5, <2>1, <3>1
  <2>4. ASSUME NEW f \in Entry, Listed(failures, f), ~Listed(failures', f)
        PROVE  f = failures[MaxFailures]
    <3>1. PICK k \in 1..Len(failures) : failures[k] = f
      BY <2>4 DEF Listed
    <3>2. CASE k = MaxFailures
      BY <3>1, <3>2
    <3>3. CASE k # MaxFailures
      <4>1. k + 1 \in 1..MaxFailures /\ k + 1 \in 1..Len(all) /\ ~(k + 1 <= 1) /\ (k + 1) - 1 = k
        BY <1>1, <1>3, <1>5, <2>1, <3>3
      <4>2. failures'[k + 1] = f
        BY <1>3, <2>3, <3>1, <4>1
      <4>3. QED
        BY <2>3, <2>4, <4>1, <4>2 DEF Listed
    <3>4. QED
      BY <3>2, <3>3
  <2>5. QED
    BY <1>5, <2>3, <2>4
<1>7. CASE ~(Len(all) > MaxFailures)
  <2>1. failures' = all /\ Len(failures') <= MaxFailures
    BY <1>1, <1>3, <1>5, <1>7 DEF RememberFailure, all
  <2>2. ASSUME NEW f \in Entry, Listed(failures, f)
        PROVE  Listed(failures', f)
    <3>1. PICK k \in 1..Len(failures) : failures[k] = f
      BY <2>2 DEF Listed
    <3>2. k + 1 \in 1..Len(all) /\ ~(k + 1 <= 1) /\ (k + 1) - 1 = k
      BY <1>1, <1>3
    <3>3. failures'[k + 1] = f
      BY <1>3, <2>1, <3>1, <3>2
    <3>4. QED
      BY <2>1, <3>2, <3>3 DEF Listed
  <2>3. QED
    BY <1>3, <2>1, <2>2
<1>8. QED
  BY <1>6, <1>7

\* Steps that touch neither the list nor a retry keep both.
LEMMA ListStands ==
  ASSUME FailureInv, UNCHANGED failureVars,
         \A t \in Transfers : job'[t] = "retry" => job[t] = "retry"
  PROVE  FailureInv' /\ NothingLost
  BY DEF FailureInv, FailureTyped, failureVars, NothingLost

\* The result of a send: a failure is remembered; an accepted retry takes its own
\* entry off the list, and no other.
LEMMA ResultOfSend ==
  ASSUME FailureInv, CustodyInv, NEW t \in Transfers, Answer(t) \/ Timeout(t)
  PROVE  FailureInv' /\ NothingLost
<1>1. job \in [Transfers -> Job] /\ job[t] \in Via
  BY DEF CustodyInv, CustodyShape, Answer, Timeout, Sending
<1>2. Failed(t) \/ (Accepted(t) /\ host[t][job[t]] = "accepted")
  BY DEF Answer, Timeout
<1>3. PICK j : job' = [job EXCEPT ![t] = j] /\ j \in {"passing", "keeping", "cancelling", "idle"}
  BY <1>1, <1>2 DEF Failed, Accepted, Goto, AfterSuccess, Via
<1>4. \A s \in Transfers : job'[s] = "retry" => s # t /\ job[s] = "retry"
  BY <1>1, <1>3 DEF Via
<1>5. CASE job[t] # "retry" /\ Failed(t)
  <2>1. <<t, job[t]>> \in Entry
    BY <1>1, <1>5 DEF Entry
  <2>2. RememberFailure(<<t, job[t]>>) /\ retrying' = retrying
    BY <1>5 DEF Failed
  <2>3. FailureTyped
    BY DEF FailureInv
  <2>4. /\ failures' \in Seq(Entry) /\ Len(failures') <= MaxFailures
        /\ \A f \in Entry : Listed(failures, f) /\ ~Listed(failures', f)
              => f = failures[MaxFailures]
    BY <2>1, <2>2, <2>3, RememberKeeps
  <2>5. QED
    BY <1>4, <2>2, <2>4 DEF FailureInv, FailureTyped, NothingLost, Excused
<1>6. CASE job[t] # "retry" /\ Accepted(t)
  BY <1>4, <1>6, ListStands DEF Accepted, failureVars
<1>7. CASE job[t] = "retry"
  <2>1. retrying \in Entry /\ retrying[1] = t
    BY <1>7 DEF FailureInv
  <2>2. retrying' = NoEntry /\ \A s \in Transfers : job'[s] # "retry"
    BY <1>2, <1>4, <1>7, <2>1 DEF Accepted, Failed, FailureInv
  <2>3. CASE Failed(t)
    BY <1>7, <2>2, <2>3 DEF Failed, FailureInv, FailureTyped, NothingLost
  <2>4. CASE Accepted(t) /\ host[t]["retry"] = "accepted"
    <3>1. failures \in Seq(Entry) /\ Len(failures) \in Nat /\ Len(failures) <= MaxFailures
      BY LenProperties DEF FailureInv, FailureTyped
    <3>2. Forget(retrying)
      BY <1>7, <2>4 DEF Accepted
    <3>3. /\ failures' \in Seq(Entry) /\ Len(failures') <= MaxFailures
          /\ \A f \in Entry : Listed(failures, f) /\ f # retrying => Listed(failures', f)
      <4>1. CASE UNCHANGED failures
        BY <3>1, <4>1
      <4>2. ASSUME NEW i \in 1..Len(failures), failures[i] = retrying,
                   failures' = Without(failures, i)
            PROVE  /\ failures' \in Seq(Entry) /\ Len(failures') <= MaxFailures
                   /\ \A f \in Entry : Listed(failures, f) /\ f # retrying => Listed(failures', f)
        BY <3>1, <4>2, WithoutOne, HandoffAssumption
      <4>3. QED
        BY <3>2, <4>1, <4>2 DEF Forget
    <3>4. QED
      BY <2>1, <2>2, <2>4, <3>3 DEF FailureInv, FailureTyped, NothingLost, Excused
  <2>5. QED
    BY <1>2, <1>7, <2>3, <2>4
<1>8. QED
  BY <1>2, <1>5, <1>6, <1>7

\* The user retries one failure at a time.
LEMMA RetryKeeps ==
  ASSUME FailureInv, CustodyInv, NEW e \in Entry, RetryFailure(e)
  PROVE  FailureInv' /\ NothingLost
<1>1. job \in [Transfers -> Job] /\ e[1] \in Transfers
  BY DEF CustodyInv, CustodyShape, Entry
<1>2. /\ retrying = NoEntry /\ retrying' = e /\ failures' = failures
      /\ job' = [job EXCEPT ![e[1]] = "retry"]
  BY DEF RetryFailure, Send, Goto
<1>3. \A t \in Transfers : job[t] # "retry"
  BY <1>2, HandoffAssumption DEF FailureInv, Entry, Via
<1>4. \A t \in Transfers : job'[t] = "retry" => e[1] = t
  BY <1>1, <1>2, <1>3
<1>5. QED
  BY <1>2, <1>4 DEF FailureInv, FailureTyped, NothingLost

\* Every step keeps the list of failures in order, and excuses what leaves it.
LEMMA FailureStep ==
  ASSUME FailureInv, CustodyInv, [Next]_allVars
  PROVE  FailureInv' /\ NothingLost
<1>1. job \in [Transfers -> Job]
  BY DEF CustodyInv, CustodyShape
<1>2. CASE \E t \in Transfers : Browser(t)
  <2>1. PICK t \in Transfers : Browser(t)
    BY <1>2
  <2>2. UNCHANGED failureVars
    BY <2>1 DEF Browser, BeginHeld, BeginRunning, SendWithFeedback, Ignore, ClaimIntercept,
       HandleCreated, extVars, failureVars
  <2>3. job' = job \/ \E j \in {"request", "menu", "created", "cancelling"} :
                         job' = [job EXCEPT ![t] = j]
    BY <2>1 DEF Browser, BeginHeld, BeginRunning, SendWithFeedback, Ignore, ClaimIntercept,
       HandleCreated, extVars, Send, Goto
  <2>4. QED
    BY <1>1, <2>2, <2>3, ListStands
<1>3. CASE \E t \in Transfers : Cancel(t) \/ ListenerReturns(t)
  <2>1. UNCHANGED failureVars /\ \E t \in Transfers : job' = [job EXCEPT ![t] = "idle"]
    BY <1>3 DEF Cancel, ListenerReturns, Goto, failureVars
  <2>2. QED
    BY <1>1, <2>1, ListStands
<1>4. CASE \E t \in Transfers : Answer(t) \/ Timeout(t)
  BY <1>4, ResultOfSend
<1>5. CASE \E t \in Transfers : NativeHost(t)
  <2>1. UNCHANGED <<failureVars, job>>
    BY <1>5 DEF NativeHost, HostRefused, HostDelivers, HostEnds, extVars, failureVars
  <2>2. QED
    BY <2>1, ListStands
<1>6. CASE \E u \in Urls : Expire(u)
  BY <1>6, ListStands DEF Expire, failureVars
<1>7. CASE \E e \in Entry : RetryFailure(e)
  BY <1>7, RetryKeeps
<1>8. CASE ClearFailures
  <2>1. UNCHANGED <<retrying, job>> /\ failures' = <<>>
    BY <1>8 DEF ClearFailures
  <2>2. <<>> \in Seq(Entry) /\ Len(<<>>) <= MaxFailures
    BY HandoffAssumption, EmptySeq
  <2>3. QED
    BY <2>1, <2>2 DEF FailureInv, FailureTyped, NothingLost, Excused
<1>9. CASE WorkerRestart
  BY <1>9 DEF WorkerRestart, FailureInv, FailureTyped, NothingLost
<1>10. CASE UNCHANGED handoffVars
  BY <1>10, ListStands DEF handoffVars, failureVars
<1>11. QED
  BY <1>2, <1>3, <1>4, <1>5, <1>6, <1>7, <1>8, <1>9, <1>10 DEF Next, Extension, allVars

\* Whatever is in flight has its type: in particular the list of failures is no
\* longer than MAX_FAILURES and the channel no longer than its capacity.
THEOREM HandoffTyped == Spec => []HandoffTypeOK
<1>1. ListInv /\ CustodyInv /\ FailureInv => HandoffTypeOK
  BY DEF ListInv, CustodyInv, CustodyShape, FailureInv, FailureTyped, HandoffTypeOK
<1>2. Init => ListInv /\ CustodyInv /\ FailureInv
  BY ListInit, CustodyStart, FailureStart
<1>3. ListInv /\ CustodyInv /\ FailureInv /\ [Next]_allVars
        => (ListInv /\ CustodyInv /\ FailureInv)'
  BY ListStep, CustodyStep, FailureStep
<1>4. QED
  BY <1>1, <1>2, <1>3, PTL DEF Spec

\* A failed hand-off leaves the list of failures only when the user clears it, a
\* retry of that very entry is accepted, or newer failures push it out of a full
\* list: no timeout, late answer or restart of the extension loses one.
THEOREM FailuresAreKept == Spec => FailureIsKept
<1>1. Init => CustodyInv /\ FailureInv
  BY CustodyStart, FailureStart
<1>2. CustodyInv /\ FailureInv /\ [Next]_allVars => (CustodyInv /\ FailureInv)' /\ NothingLost
  BY CustodyStep, FailureStep
<1>3. NothingLost =>
        [\A e \in Entry : Listed(failures, e) /\ ~Listed(failures', e) =>
           \/ failures' = <<>> /\ retrying' = retrying
           \/ e = retrying /\ host[e[1]]["retry"] = "accepted"
           \/ e = failures[MaxFailures]]_allVars
  BY DEF NothingLost, Excused
<1>4. QED
  BY <1>1, <1>2, <1>3, PTL DEF Spec, FailureIsKept
=============================================================================
