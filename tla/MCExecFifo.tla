----------------------------- MODULE MCExecFifo -----------------------------
(* ExecFifo for TLC: two `mars start` against the `mars run` that created   *)
(* the container, and one start that waits for a dead init.               *)
EXTENDS ExecFifo

CONSTANTS s1, s2, r1

MCStarters == {s1, s2, r1}
MCRunners == {r1}
MCOneStarter == {s1}
MCNoRunners == {}
=============================================================================
