--------------------------- MODULE KubeletWaiter ---------------------------
(***************************************************************************)
(* waitForActiveKubelet: WaitForSystemdService on kubelet.service, a sleep *)
(* of 20 seconds, and WaitForSystemdService again.  Each call subscribes   *)
(* to unit status changes, polled once per second (go-systemd, external):  *)
(* the first poll reports every unit, later ones those that changed.  An   *)
(* event about any unit of the system ends the select of the call and, if  *)
(* it does not show the service up, starts the next one with a new timer.  *)
(*                                                                         *)
(* One tick is one second.  The kubelet and the other units may change     *)
(* state at any time and for ever; a poll may be late, or never answered.  *)
(***************************************************************************)
EXTENDS Naturals

CONSTANTS WaitTimeout,  \* the 90 seconds of waitForKubelet
          CrashDelay    \* the 20 seconds between the two checks

VARIABLES
  main,     \* "idle", "wait1", "sleep", "wait2", or the result: "ok", "error"
  kubelet,  \* the state of kubelet.service
  old,      \* the state of the kubelet at the last poll of this subscription
  polled,   \* has this second's poll happened?
  statusChan, \* the event in the channel: "none", "other" or the kubelet's state
  idle,     \* age of the current select's timer
  slept,    \* seconds of the sleep gone by
  ran       \* was the kubelet running at some time of the current call? (history)

vars == <<main, kubelet, old, polled, statusChan, idle, slept, ran>>
sub  == <<old, polled, statusChan>>

\* ActiveState/SubState of a service.
UnitStatus == {"inactive/dead", "activating/auto-restart", "active/exited", "active/running"}
Running    == "active/running"
Waiting    == main \in {"wait1", "wait2"}

TypeOK ==
  /\ main \in {"idle", "wait1", "sleep", "wait2", "ok", "error"}
  /\ kubelet \in UnitStatus
  /\ old \in UnitStatus \cup {"unknown"}
  /\ polled \in BOOLEAN
  /\ statusChan \in UnitStatus \cup {"none", "other"}
  /\ idle \in 0..WaitTimeout
  /\ slept \in 0..CrashDelay
  /\ ran \in BOOLEAN

\* A call of WaitForSystemdService: a new connection and subscription.
Subscribe ==
  /\ old' = "unknown" /\ polled' = FALSE /\ statusChan' = "none"
  /\ idle' = 0
  /\ ran' = (kubelet = Running)

Init ==
  /\ main = "idle"
  /\ kubelet = "inactive/dead"
  /\ old = "unknown" /\ polled = FALSE /\ statusChan = "none"
  /\ idle = 0 /\ slept = 0
  /\ ran = FALSE

\* The kubelet is in any state when waitForActiveKubelet is called.
Call ==
  /\ main = "idle"
  /\ main' = "wait1"
  /\ kubelet' \in UnitStatus
  /\ ran' = (kubelet' = Running)
  /\ UNCHANGED <<sub, idle, slept>>

-----------------------------------------------------------------------------
(* The system: systemd starts, restarts and stops the kubelet. *)
KubeletChanges ==
  /\ main \in {"wait1", "sleep", "wait2"}
  /\ \E s \in UnitStatus \ {kubelet} :
       /\ kubelet' = s
       /\ ran' = (ran \/ s = Running)
  /\ UNCHANGED <<main, sub, idle, slept>>

-----------------------------------------------------------------------------
(* The subscription. *)

\* Mutant: the callback compares the pointers.
isChangedPointers(u1, u2) == TRUE

\* The callback of SubscribeUnitsCustom.
isChanged(u1, u2) == u1 # u2

\* A poll; "other" stands for a change of any unit but the kubelet.
Poll ==
  /\ Waiting /\ ~polled /\ statusChan = "none"
  /\ polled' = TRUE
  /\ old' = kubelet
  /\ \/ /\ isChanged(old, kubelet)
        /\ statusChan' = kubelet
     \/ /\ ~isChanged(old, kubelet)
        /\ statusChan' \in {"none", "other"}
  /\ UNCHANGED <<main, kubelet, idle, slept, ran>>

-----------------------------------------------------------------------------
(* WaitForSystemdService and its caller. *)

\* ActiveState is "active" and SubState is "running".
IsUp(status) == status = Running

\* nil is returned and the connection is closed.
ReturnNil ==
  /\ main' = IF main = "wait1" THEN "sleep" ELSE "ok"
  /\ old' = "unknown" /\ polled' = FALSE /\ statusChan' = "none" /\ idle' = 0
  /\ UNCHANGED <<kubelet, slept, ran>>

\* An event that does not show the service up: a new select, a new timer.
NextSelect ==
  /\ statusChan' = "none"
  /\ idle' = 0
  /\ UNCHANGED <<main, kubelet, old, polled, slept, ran>>

Receive ==
  /\ Waiting
  /\ statusChan # "none"
  /\ IF IsUp(statusChan) THEN ReturnNil ELSE NextSelect

Fail ==
  /\ main' = "error"
  /\ UNCHANGED <<kubelet, sub, idle, slept, ran>>

\* Dialling systemd fails, or a poll fails and errChan delivers the error.
ConnError == Waiting /\ Fail
TimedOut  == Waiting /\ idle >= WaitTimeout /\ Fail

\* Mutant: the second call is answered by the event that ended the first.
WakeNoSubscribe ==
  /\ main = "sleep"
  /\ slept = CrashDelay
  /\ main' = "wait2"
  /\ statusChan' = Running
  /\ ran' = (kubelet = Running)
  /\ UNCHANGED <<kubelet, old, polled, idle, slept>>

Wake ==
  /\ main = "sleep"
  /\ slept = CrashDelay
  /\ main' = "wait2"
  /\ Subscribe
  /\ UNCHANGED <<kubelet, slept>>

TickWait ==
  /\ Waiting
  /\ statusChan = "none" /\ idle < WaitTimeout
  /\ idle' = idle + 1
  /\ polled' = FALSE
  /\ UNCHANGED <<main, kubelet, old, statusChan, slept, ran>>

TickSleep ==
  /\ main = "sleep"
  /\ slept < CrashDelay
  /\ slept' = slept + 1
  /\ UNCHANGED <<main, kubelet, sub, idle, ran>>

-----------------------------------------------------------------------------
Step == Call \/ Receive \/ TimedOut \/ Wake \/ TickWait \/ TickSleep
Next == KubeletChanges \/ Poll \/ ConnError \/ Step
Spec == Init /\ [][Next]_vars

-----------------------------------------------------------------------------
\* waitForActiveKubelet returns nil only if the kubelet really was running at
\* some time after the 20 second sleep: what counts is a fresh status, not
\* the one that ended the first wait.
FreshOk == main = "ok" => ran /\ slept = CrashDelay

\* The kubelet or another unit of the system changes while a call waits.
UnitChanges == KubeletChanges \/ (Poll /\ statusChan' = "other")
=============================================================================
