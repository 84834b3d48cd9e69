------------------------------ MODULE EbsInit ------------------------------
(***************************************************************************)
(* startEbsInit and checkEbsInit: an optional goroutine reads every file   *)
(* of the root volume once, while the control plane is bootstrapped.  The  *)
(* bootstrap waits for it at the very end, for what is left of a timeout   *)
(* that started together with the goroutine.                               *)
(*                                                                         *)
(* The timer fires at any time after startEbsInit; the walk over the file  *)
(* system is the number of entries it has not visited yet.                 *)
(***************************************************************************)
EXTENDS Naturals

CONSTANT NumFiles   \* directory entries the walk visits

VARIABLES
  main,       \* "start", "bootstrapping", "checking", "done"
  goroutine,  \* "none", "loop", "reading", "send", "returned"
  unread,     \* entries the walk has not visited yet
  timer,      \* has the two minute timer fired?
  cancelled,  \* has ctx been cancelled?
  outcome     \* what checkEbsInit reported: "none", "timeout", "finished"

vars == <<main, goroutine, unread, timer, cancelled, outcome>>

TypeOK ==
  /\ main \in {"start", "bootstrapping", "checking", "done"}
  /\ goroutine \in {"none", "loop", "reading", "send", "returned"}
  /\ unread \in 0..NumFiles
  /\ timer \in BOOLEAN
  /\ cancelled \in BOOLEAN
  /\ outcome \in {"none", "timeout", "finished"}

Init ==
  /\ main = "start"
  /\ goroutine = "none"
  /\ unread = NumFiles
  /\ timer = FALSE
  /\ cancelled = FALSE
  /\ outcome = "none"

\* The goroutine and the timer exist only if the marker file does.
startEbsInit ==
  /\ main = "start"
  /\ main' = "bootstrapping"
  /\ goroutine' \in {"none", "loop"}
  /\ UNCHANGED <<unread, timer, cancelled, outcome>>

-----------------------------------------------------------------------------
(* The goroutine. *)

\* ctx is looked at once, before the walk.
Loop ==
  /\ goroutine = "loop"
  /\ goroutine' = IF cancelled THEN "returned" ELSE "reading"
  /\ UNCHANGED <<main, unread, timer, cancelled, outcome>>

\* walkDirFunc: an entry is read or skipped, errors are ignored.
walkDirFunc ==
  /\ goroutine = "reading"
  /\ unread > 0
  /\ unread' = unread - 1
  /\ UNCHANGED <<main, goroutine, timer, cancelled, outcome>>

\* readFiles returns once the walk is over; the send blocks until it is received.
readFilesDone ==
  /\ goroutine = "reading"
  /\ unread = 0
  /\ goroutine' = "send"
  /\ UNCHANGED <<main, unread, timer, cancelled, outcome>>

TimerFires ==
  /\ goroutine # "none"
  /\ timer = FALSE /\ main # "done"
  /\ timer' = TRUE
  /\ UNCHANGED <<main, goroutine, unread, cancelled, outcome>>

-----------------------------------------------------------------------------
(* checkEbsInit, at the end of controlPlaneInit and controlPlaneJoin. *)
NoControl ==
  /\ main = "bootstrapping"
  /\ goroutine = "none"
  /\ main' = "done"
  /\ UNCHANGED <<goroutine, unread, timer, cancelled, outcome>>

Check ==
  /\ main = "bootstrapping"
  /\ goroutine # "none"
  /\ main' = "checking"
  /\ UNCHANGED <<goroutine, unread, timer, cancelled, outcome>>

checkEbsInitTimeout ==
  /\ main = "checking"
  /\ timer
  /\ cancelled' = TRUE
  /\ main' = "done"
  /\ outcome' = "timeout"
  /\ UNCHANGED <<goroutine, unread, timer>>

checkEbsInitOk ==
  /\ main = "checking"
  /\ goroutine = "send"
  /\ goroutine' = "returned"
  /\ main' = "done"
  /\ outcome' = "finished"
  /\ UNCHANGED <<unread, timer, cancelled>>

Background == Loop \/ walkDirFunc \/ readFilesDone \/ TimerFires
Select     == checkEbsInitTimeout \/ checkEbsInitOk
Next       == startEbsInit \/ Background \/ NoControl \/ Check \/ Select
Spec       == Init /\ [][Next]_vars
=============================================================================
