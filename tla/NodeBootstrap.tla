--------------------------- MODULE NodeBootstrap ---------------------------
(***************************************************************************)
(* What the bootstrap host container promises: attempts that may fail and  *)
(* are repeated while the container is enabled, success only on a          *)
(* bootstrapped node and with the container given up, and no attempt after *)
(* a success.  The first attempt gives up the container only on a          *)
(* bootstrapped node, and may still fail then; a later one may give it up  *)
(* at any time.                                                            *)
(***************************************************************************)
EXTENDS Naturals

VARIABLES
  process,    \* "running", "failed" or "succeeded"
  container,  \* "enabled" or "disabled"
  progress,   \* "pending" or "bootstrapped"
  attempt     \* the number of the attempt

vars == <<process, container, progress, attempt>>

Init ==
  /\ process = "running"
  /\ container = "enabled"
  /\ progress \in {"pending", "bootstrapped"}   \* some flows have nothing to set up
  /\ attempt = 1

Work ==
  /\ process = "running"
  /\ progress' = "bootstrapped"
  /\ UNCHANGED <<process, container, attempt>>

Fail ==
  /\ process = "running"
  /\ process' = "failed"
  /\ UNCHANGED <<container, progress, attempt>>

GiveUp ==
  /\ process = "running"
  /\ attempt > 1 \/ progress = "bootstrapped"
  /\ container' = "disabled"
  /\ UNCHANGED <<process, progress, attempt>>

Succeed ==
  /\ process = "running"
  /\ progress = "bootstrapped"
  /\ container = "disabled"
  /\ process' = "succeeded"
  /\ UNCHANGED <<container, progress, attempt>>

Retry ==
  /\ process = "failed"
  /\ container = "enabled"
  /\ process' = "running"
  /\ attempt' = attempt + 1
  /\ UNCHANGED <<container, progress>>

Next == Work \/ Fail \/ GiveUp \/ Succeed \/ Retry
Spec == Init /\ [][Next]_vars
=============================================================================
