------------------------------- MODULE MCExec -------------------------------
(* Exec for TLC: one exec beside two other commands, in every mixture that  *)
(* has something to race for, and once pause, kill --all and resume.       *)
EXTENDS Exec, TLC

CONSTANTS a, o1, o2, o3

MCOthers == {a}
MCOps == {o1, o2, o3}

Config(own, sig, c1, c2, c3, exec) ==
  [pidNs |-> "pid" \in own, owned |-> own, sig |-> sig, cmd |-> (o1 :> c1 @@ o2 :> c2 @@ o3 :> c3),
   exec |-> exec, ignorePaused |-> c1 # "killall", detach |-> c1 # "pause"]

(* Two commands without an exec: every pair that has something to race for.*)
Pairs == {<<"killall", "pause">>, <<"killall", "killall">>, <<"killall", "resume">>,
          <<"killall", "delete">>, <<"pause", "resume">>, <<"pause", "delete">>}

MCConfigs ==
  {Config(own, "KILL", pair[1], pair[2], "none", FALSE) :
     own \in {{"mnt"}, {"pid", "mnt"}}, pair \in Pairs}
  \cup {Config({"mnt"}, "TERM", "killall", c, "none", FALSE) : c \in {"killall", "resume"}}
  \cup {Config({"mnt"}, "KILL", "pause", "killall", "resume", FALSE)}
  \cup
  {Config(own, "KILL", c, "none", "none", TRUE) :
     own \in {{"mnt"}, {"user", "pid", "mnt"}}, c \in {"killall", "pause", "delete"}}
=============================================================================
