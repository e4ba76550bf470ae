------------------------------- MODULE Custody -------------------------------
(***************************************************************************)
(* What the browser integration promises: a download is never dropped      *)
(* between the browser and Lunefetch.  The browser lets its own copy go    *)
(* only once the application has taken the address, however requests and   *)
(* answers are delayed, repeated or lost on the way.                       *)
(***************************************************************************)
CONSTANTS
  Transfers,  \* downloads the user starts in the browser
  Urls,       \* addresses
  UrlOf       \* the address of each transfer

VARIABLES
  taken,      \* addresses the application has taken
  released    \* transfers whose browser copy is gone

custodyVars == <<taken, released>>

Init == taken = {} /\ released = {}

Take(u) == taken' = taken \cup {u} /\ UNCHANGED released

Release(t) ==
  /\ UrlOf[t] \in taken
  /\ released' = released \cup {t}
  /\ UNCHANGED taken

Next == (\E u \in Urls : Take(u)) \/ (\E t \in Transfers : Release(t))

Spec == Init /\ [][Next]_custodyVars
=============================================================================
