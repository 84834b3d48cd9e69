------------------------------ MODULE MCWaits ------------------------------
(* BootstrapWaits for TLC: one run, with timeouts of a few ticks. *)
EXTENDS BootstrapWaits
=============================================================================
