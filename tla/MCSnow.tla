------------------------------- MODULE MCSnow -------------------------------
(* SnowBootstrap for TLC: up to two interfaces, two unrequested boots. *)
EXTENDS SnowBootstrap
=============================================================================
