------------------------------- MODULE MCFlow -------------------------------
(* BootstrapFlow for TLC: every runcmd, two chunks of user data, three runs. *)
EXTENDS BootstrapFlow
=============================================================================
