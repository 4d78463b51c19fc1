-------------------------------- MODULE Exec --------------------------------
(***************************************************************************)
(* mars exec (src/container/exec.rs) beside the commands of module Freezer *)
(* on the same container.                                                  *)
(*                                                                         *)
(* exec looks at the status, opens the init's namespaces one after the     *)
(* other through /proc/<pid>/ns, opens cgroup.procs and the pid file,      *)
(* joins the namespaces, forks, writes the child into the cgroup, tells it *)
(* so over a socket pair, writes the pid file, and returns (--detach) or   *)
(* waits.  The child does nothing before the message.                      *)
(*                                                                         *)
(* A configuration also has: exec (there is one), owned (the namespaces    *)
(* of the container's own, a subset of JoinOrder), ignorePaused and detach. *)
(* "mnt" stands for the ipc, uts, net, cgroup and mnt namespaces, which a  *)
(* zombie has left; "user" and "pid" are still found in its /proc          *)
(* directory.  A pid that a process of the host reuses looks like one that *)
(* is gone: its namespaces are the runtime's, and collect skips those.     *)
(***************************************************************************)
EXTENDS Freezer, Sequences

ASSUME ExecAssumption ==
  \A c \in Configs : /\ c.owned \subseteq {"user", "pid", "mnt"}
                     /\ {c.exec, c.ignorePaused, c.detach} \subseteq BOOLEAN

VARIABLES
  xpc,       (* where exec is                                              *)
  kind,      (* collect: the position in JOIN_ORDER                        *)
  handles,   (* the namespaces opened, then joined                         *)
  child,     (* where the child is, as long as it lives                    *)
  parentEnd, (* the parent's end of the socket pair is open                *)
  told,      (* CgroupApplied is on the wire or received                   *)
  noPidFile  (* history: the pid file could not be written                 *)

execVars == <<xpc, kind, handles, child, parentEnd, told, noPidFile>>
vars == <<freezerVars, execVars>>

JoinOrder == <<"user", "pid", "mnt">>
Owned == config.owned

Init ==
  /\ FreezerInit
  /\ xpc = "load" /\ kind = 1 /\ handles = {}
  /\ child = "none" /\ parentEnd = TRUE /\ told = FALSE /\ noPidFile = FALSE

XGoto(to) == xpc' = to

(* Dropping the parent's end of the pair, by returning or by dying.        *)
Return(to) == xpc' = to /\ parentEnd' = FALSE

Begun == xpc \notin {"load", "ok", "err", "crashed"}

-----------------------------------------------------------------------------
(* The status, the options and the target; everything that is refused      *)
(* before the first namespace is opened.                                   *)
Check ==
  /\ xpc = "load" /\ config.exec
  /\ \/ /\ ~forgotten
        /\ Status \in IF config.ignorePaused THEN {"running", "paused"} ELSE {"running"}
        /\ XGoto("collect")
     \/ XGoto("err")
  /\ UNCHANGED <<freezerVars, kind, handles, child, parentEnd, told, noPidFile>>

(* The namespaces /proc/<init>/ns shows: of a zombie, only those that do   *)
(* not go with its last thread.                                            *)
Visible ==
  CASE "init" \in live    -> {"user", "pid", "mnt"}
    [] "init" \in zombies -> {"user", "pid"}
    [] OTHER              -> {}

(* Slip: namespaces that are the runtime's own are opened as well.         *)
CollectAll ==
  /\ xpc = "collect"
  /\ \/ kind > Len(JoinOrder) /\ XGoto("procs") /\ kind' = kind
     \/ /\ kind <= Len(JoinOrder)
        /\ IF JoinOrder[kind] \in Visible
           THEN XGoto("open") /\ kind' = kind
           ELSE XGoto("collect") /\ kind' = kind + 1
  /\ UNCHANGED <<freezerVars, handles, child, parentEnd, told, noPidFile>>

(* collect, one kind: what does not exist and what is the same as ours is  *)
(* skipped, the rest is opened.                                            *)
Collect ==
  /\ xpc = "collect"
  /\ \/ /\ kind > Len(JoinOrder)
        /\ XGoto("procs") /\ kind' = kind
     \/ /\ kind <= Len(JoinOrder)
        /\ IF JoinOrder[kind] \in Visible \cap Owned
           THEN XGoto("open") /\ kind' = kind
           ELSE XGoto("collect") /\ kind' = kind + 1
  /\ UNCHANGED <<freezerVars, handles, child, parentEnd, told, noPidFile>>

(* Slip: a namespace that cannot be opened is passed over.                 *)
OpenOrSkip ==
  /\ xpc = "open"
  /\ \/ JoinOrder[kind] \in Visible /\ handles' = handles \cup {JoinOrder[kind]}
     \/ handles' = handles
  /\ XGoto("collect") /\ kind' = kind + 1
  /\ UNCHANGED <<freezerVars, child, parentEnd, told, noPidFile>>

Open ==
  /\ xpc = "open"
  /\ \/ /\ JoinOrder[kind] \in Visible
        /\ handles' = handles \cup {JoinOrder[kind]}
        /\ kind' = kind + 1 /\ XGoto("collect")
     \/ XGoto("err") /\ UNCHANGED <<kind, handles>>
  /\ UNCHANGED <<freezerVars, child, parentEnd, told, noPidFile>>

(* cgroup.procs, then the pid file, are opened while host paths resolve.   *)
OpenProcs ==
  /\ xpc = "procs"
  /\ \/ dir /\ XGoto("join")
     \/ XGoto("err")
  /\ UNCHANGED <<freezerVars, kind, handles, child, parentEnd, told, noPidFile>>

(* setns into all of them, or one is refused; the mount namespace comes    *)
(* last, and from there on only descriptors reach the host.                *)
Join ==
  /\ xpc = "join"
  /\ XGoto("fork") \/ XGoto("err")
  /\ UNCHANGED <<freezerVars, kind, handles, child, parentEnd, told, noPidFile>>

(* No process can be born in a pid namespace whose init has ended.         *)
CanFork == "pid" \in handles => "init" \in live

ForkChild ==
  /\ xpc = "fork"
  /\ IF CanFork
     THEN /\ XGoto("place") /\ child' = "await"
          /\ live' = live \cup {"exec"} /\ born' = born \cup {"exec"}
          /\ inside' = IF "pid" \in handles THEN inside \cup {"exec"} ELSE inside
     ELSE XGoto("err") /\ UNCHANGED <<child, live, born, inside>>
  /\ UNCHANGED <<config, zombies, members, dying, freezer, forgotten, cmds, steady,
                 kind, handles, parentEnd, told, noPidFile>>

(* Slip: a failure to place the child is only reported.                    *)
PlaceIfPossible ==
  /\ xpc = "place"
  /\ XGoto("send")
  /\ members' = IF "exec" \in live /\ dir THEN members \cup {"exec"} ELSE members
  /\ steady' = {}
  /\ UNCHANGED <<config, live, zombies, inside, born, dying, freezer, forgotten, cmds,
                 kind, handles, child, parentEnd, told, noPidFile>>

(* Slip: the child is told before it is placed.                            *)
PlaceTellsFirst ==
  /\ xpc = "place"
  /\ IF "exec" \in live /\ dir
     THEN /\ XGoto("send") /\ parentEnd' = parentEnd
          /\ members' = members \cup {"exec"} /\ steady' = {}
     ELSE Return("err") /\ UNCHANGED <<members, steady>>
  /\ told' = TRUE
  /\ UNCHANGED <<config, live, zombies, inside, born, dying, freezer, forgotten, cmds,
                 kind, handles, child, noPidFile>>

(* The write to the open cgroup.procs fails if the child or the cgroup is  *)
(* gone; then exec returns and the child reads end-of-file.                *)
Place ==
  /\ xpc = "place"
  /\ IF "exec" \in live /\ dir
     THEN /\ XGoto("send") /\ parentEnd' = parentEnd
          /\ members' = members \cup {"exec"} /\ steady' = {}
     ELSE Return("err") /\ UNCHANGED <<members, steady>>
  /\ UNCHANGED <<config, live, zombies, inside, born, dying, freezer, forgotten, cmds,
                 kind, handles, child, told, noPidFile>>

Send ==
  /\ xpc = "send"
  /\ IF "exec" \in live
     THEN told' = TRUE /\ XGoto("record") /\ parentEnd' = parentEnd
     ELSE Return("err") /\ told' = told
  /\ UNCHANGED <<freezerVars, kind, handles, child, noPidFile>>

(* The pid file, then the return of --detach or signal::supervise.         *)
Record ==
  /\ xpc = "record"
  /\ \/ /\ Return("err") /\ noPidFile' = TRUE
     \/ /\ IF config.detach THEN Return("ok") ELSE XGoto("supervise") /\ parentEnd' = parentEnd
        /\ noPidFile' = noPidFile
  /\ UNCHANGED <<freezerVars, kind, handles, child, told>>

(* supervise reaps the child and returns its code.                         *)
Supervised ==
  /\ xpc = "supervise" /\ "exec" \notin live
  /\ Return("ok")
  /\ zombies' = zombies \ {"exec"}
  /\ UNCHANGED <<config, live, members, inside, born, dying, freezer, forgotten, cmds, steady,
                 kind, handles, child, told, noPidFile>>

(* mars exec is killed; the kernel closes its end of the pair.             *)
Crash ==
  /\ Begun
  /\ Return("crashed")
  /\ UNCHANGED <<freezerVars, kind, handles, child, told, noPidFile>>

-----------------------------------------------------------------------------
(* The child.  It can take a step while it lives and is not stopped.       *)
ChildRuns == "exec" \in live \ still

ChildEnds ==
  /\ live' = live \ {"exec"} /\ members' = members \ {"exec"}
  /\ inside' = inside \ {"exec"} /\ dying' = dying \ {"exec"}
  /\ zombies' = zombies \cup {"exec"}

(* Slip: the child keeps a copy of the parent's end and so never reads     *)
(* end-of-file.                                                            *)
ChildRecvDeaf ==
  /\ child = "await" /\ ChildRuns
  /\ told /\ child' = "enter"
  /\ UNCHANGED <<freezerVars, xpc, kind, handles, parentEnd, told, noPidFile>>

(* expect("CgroupApplied"): the message, or end-of-file and exit 126.      *)
ChildRecv ==
  /\ child = "await" /\ ChildRuns
  /\ \/ told /\ child' = "enter" /\ UNCHANGED <<live, members, inside, dying, zombies>>
     \/ ~told /\ ~parentEnd /\ child' = child /\ ChildEnds
  /\ UNCHANGED <<config, born, freezer, forgotten, cmds, steady,
                 xpc, kind, handles, parentEnd, told, noPidFile>>

(* enter: chdir, console, ids, the look-up of the program, execve.  Any of *)
(* them may fail, and the child exits 126.                                 *)
Enter ==
  /\ child = "enter" /\ ChildRuns
  /\ \/ child' = "program" /\ UNCHANGED <<live, members, inside, dying, zombies>>
     \/ child' = child /\ ChildEnds
  /\ UNCHANGED <<config, born, freezer, forgotten, cmds, steady,
                 xpc, kind, handles, parentEnd, told, noPidFile>>

-----------------------------------------------------------------------------
ExecStep ==
  \/ Check \/ Collect \/ Open \/ OpenProcs \/ Join \/ ForkChild
  \/ Place \/ Send \/ Record \/ Supervised

ChildStep == ChildRecv \/ Enter

FreezerStep == KernelStep \/ \E o \in Ops : Command(o) \/ Killed(o)

Next ==
  \/ ExecStep \/ ChildStep \/ Crash
  \/ FreezerStep /\ UNCHANGED execVars

(* The commands and the child are scheduled and a process that was sent    *)
(* SIGKILL ends.  The kernel may take longer than five seconds to stop a   *)
(* process, zombies may stay, and nothing else has to end.                 *)
Spec ==
  /\ Init /\ [][Next]_vars
  /\ \A o \in Ops : WF_vars(Command(o) /\ UNCHANGED execVars)
  /\ WF_vars(ExecStep) /\ WF_vars(ChildStep)
  /\ \A p \in Proc : WF_vars(p \in dying /\ Exit(p) /\ UNCHANGED execVars)

-----------------------------------------------------------------------------
(* Types, and: the processes of the cgroup and the stopped ones run.       *)
TypeOK ==
  /\ config \in Configs
  /\ live \subseteq born /\ zombies \subseteq born \ live /\ born \subseteq Proc
  /\ members \subseteq live /\ inside \subseteq live
  /\ dying \subseteq live /\ still \subseteq members
  /\ request \in BOOLEAN /\ dir \in BOOLEAN /\ forgotten \in BOOLEAN
  /\ pc \in [Ops -> {"load", "look", "freeze", "freezing", "list", "signal", "thaw", "thawing",
                     "await", "rmdir", "remove"} \cup Ended]
  /\ wasFrozen \in [Ops -> BOOLEAN] /\ failed \in [Ops -> BOOLEAN]
  /\ snap \in [Ops -> SUBSET Proc] /\ seen \in [Ops -> SUBSET Proc]
  /\ steady \subseteq Ops /\ stuck \subseteq Ops
  /\ xpc \in {"load", "collect", "open", "procs", "join", "fork", "place", "send", "record",
              "supervise", "ok", "err", "crashed"}
  /\ kind \in 1 .. Len(JoinOrder) + 1 /\ handles \subseteq Owned
  /\ child \in {"none", "await", "enter", "program"}
  /\ parentEnd \in BOOLEAN /\ told \in BOOLEAN /\ noPidFile \in BOOLEAN

(* A kill --all (SIGKILL) that has seen the cgroup frozen, with no thaw by *)
(* another command and no exec since, has all processes of the container   *)
(* on its list and, when no kill(2) failed, has killed all of them.        *)
KillAllMissesNone ==
  \A o \in steady :
    config.cmd[o] = "killall" /\ pc[o] \in {"signal", "thaw", "ok"} =>
      /\ dir => members \subseteq seen[o]
      /\ snap[o] = {} /\ ~failed[o] /\ config.sig = "KILL" => members \subseteq dying

(* When no command is under way, a freeze request in cgroup.freeze is the  *)
(* work of a pause or of a command that gave up: a kill --all that comes   *)
(* to its end, even one that fails half-way, lets the container run again. *)
FrozenByIntent ==
  request /\ dir /\ (\A o \in Ops : pc[o] \in Ended \cup {"load"}) =>
    \E o \in Ops : \/ config.cmd[o] = "pause" /\ pc[o] \in Ended
                   \/ o \in stuck

(* A container that a pause has stopped stays so unless a resume or a      *)
(* delete ran, or a kill --all had found it running.                       *)
PauseHolds ==
  \A o \in Ops : config.cmd[o] = "pause" /\ pc[o] = "ok" /\ ~request =>
    \E q \in Ops \ {o} :
      CASE config.cmd[q] = "killall" -> ~wasFrozen[q] /\ pc[q] # "load"
        [] config.cmd[q] = "delete"  -> wasFrozen[q]
        [] config.cmd[q] = "resume"  -> pc[q] \in {"thawing", "ok"} \/ q \in stuck
        [] OTHER                     -> FALSE

(* Once delete --force has ended, every process that runs on in the cgroup *)
(* came after its list was read or was sent SIGKILL; where the container   *)
(* has a pid namespace and the init ended in time, none runs on in it.     *)
DeleteLeavesNone ==
  \A o \in Ops : config.cmd[o] = "delete" /\ pc[o] = "ok" =>
    /\ members \cap seen[o] \subseteq dying
    /\ config.pidNs /\ (\A q \in stuck : config.cmd[q] # "delete") => inside = {}

(* Nothing that a kill --all or a delete --force was to end is missed.     *)
NoneMissed == KillAllMissesNone /\ DeleteLeavesNone

(* The freezer is used as the user asked: what was paused stays paused, and*)
(* what was not is not left frozen.                                        *)
FreezeIsIntended == FrozenByIntent /\ PauseHolds

(* The exec'd program never runs outside the container's cgroup.           *)
ExecPlaced == child \in {"enter", "program"} /\ "exec" \in live => "exec" \in members

(* While the container's init runs, an exec'd program is in all of the     *)
(* container's namespaces.                                                 *)
ExecJoined == child = "program" /\ "exec" \in live /\ "init" \in live => handles = Owned

(* An exec'd program is where the container is.                            *)
ExecContained == ExecPlaced /\ ExecJoined

(* What the tests say ("exec joins the running container's namespaces",    *)
(* "it sees the container rootfs"): an exec'd program is in all of the     *)
(* container's namespaces, whatever has become of the init.                *)
ExecInside == child = "program" => handles = Owned

(* When exec has failed its program does not run, unless it failed to      *)
(* write the pid file: that comes after the child was let go.              *)
ErrRunsNothing == xpc = "err" /\ ~noPidFile => child # "program"

(* A child whose parent has failed or was killed before it let the child   *)
(* go ends, unless the freezer holds it.                                   *)
AbandonedEnds ==
  (child = "await" /\ ~told /\ ~parentEnd) ~> ("exec" \notin live \/ "exec" \in still)

(* Every pause, resume, kill --all and delete --force returns, however     *)
(* long the processes take to stop.                                        *)
CommandsReturn == \A o \in Ops : (pc[o] # "load") ~> (pc[o] \in Ended)
=============================================================================
