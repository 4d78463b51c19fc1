----------------------------- MODULE MCRegistry -----------------------------
(* Registry for TLC: two commands at a time, at most three births over two *)
(* pids, so that a pid is reused.  Commands and pids are interchangeable.  *)
EXTENDS Registry, TLC

CONSTANTS c1, c2, p1, p2

MCCmds == {c1, c2}
MCPids == {p1, p2}
MCSymmetry == Permutations(MCCmds) \cup Permutations(MCPids)
=============================================================================
