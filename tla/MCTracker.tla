------------------------------ MODULE MCTracker ------------------------------
(* Small instances of the version tracker for TLC. *)
EXTENDS VersionTracker

MCGoMinor == <<20, 21, 21>>
MCBadPatches == {<<"containerd", 2>>}
=============================================================================
