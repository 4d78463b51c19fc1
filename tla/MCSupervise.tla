---------------------------- MODULE MCSupervise ----------------------------
(* Supervise for TLC: two forwarded signals and two adopted processes.     *)
EXTENDS Supervise

CONSTANTS o1, o2

MCForwarded == {"SIGTERM", "SIGHUP"}
MCOrphans == {o1, o2}
=============================================================================
