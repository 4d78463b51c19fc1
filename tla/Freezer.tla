------------------------------ MODULE Freezer ------------------------------
(***************************************************************************)
(* The commands that stop, thaw and signal all processes of a container    *)
(* through its cgroup: pause, resume, kill --all and delete --force        *)
(* (src/container/mod.rs with src/cgroup/v2.rs), several at a time.        *)
(*                                                                         *)
(* The kernel half is the cgroup freezer: a request (cgroup.freeze) that   *)
(* is there at once, processes that stop one by one, and the `frozen` line *)
(* of cgroup.events, which is 1 when the request is there and every        *)
(* process of the cgroup has stopped.  A stopped process cannot fork or    *)
(* end, unless it was sent SIGKILL.                                        *)
(*                                                                         *)
(* A process that has ended is a zombie until it is reaped; the kernel     *)
(* lists no zombies in cgroup.procs, but kill(2) reaches them and          *)
(* /proc/<pid>/stat still shows them.  Pids are not reused here (Registry  *)
(* has that).  Reads of the status take one step.                          *)
(*                                                                         *)
(* Definitions commented "Slip" are mistakes the code could have made.     *)
(***************************************************************************)
EXTENDS Naturals, FiniteSets

CONSTANTS
  Others,   (* processes that the program of the container may fork        *)
  Ops,      (* the invocations of commands                                 *)
  Configs   (* records: pidNs (the container has a pid namespace of its    *)
            (* own), cmd (the command of each invocation, or none), sig    *)
            (* (the signal kill --all sends), and what module Exec adds    *)

Commands == {"pause", "resume", "killall", "delete", "none"}
Proc == {"init", "exec"} \cup Others

ASSUME ConfigsAssumption ==
  /\ {"init", "exec"} \cap Others = {}
  /\ \A c \in Configs : /\ c.pidNs \in BOOLEAN /\ c.cmd \in [Ops -> Commands]
                        /\ c.sig \in {"KILL", "TERM"}

VARIABLES
  config,
  live,       (* processes that run                                        *)
  zombies,    (* processes that have ended and are not reaped              *)
  members,    (* the live processes in the container's cgroup              *)
  inside,     (* the live processes in the container's pid namespace       *)
  born,       (* history: the processes there have been                    *)
  dying,      (* live processes that were sent SIGKILL                     *)
  request,    (* cgroup.freeze                                             *)
  still,      (* processes the freezer has stopped                         *)
  dir,        (* the cgroup exists                                         *)
  forgotten,  (* the state directory is gone                               *)
  pc,         (* where each command is                                     *)
  wasFrozen,  (* kill --all: the answer of its is_frozen                   *)
  snap,       (* what is left of the list of pids to signal                *)
  failed,     (* kill --all: a kill(2) failed                              *)
  seen,       (* history: the list of pids as it was read                  *)
  steady,     (* history: commands that have seen the cgroup frozen, with  *)
              (* no thaw and no newcomer since                             *)
  stuck       (* history: commands that gave up waiting or were killed     *)

procs == <<live, zombies, members, inside, born>>
freezer == <<request, still, dir>>
cmds == <<pc, wasFrozen, snap, failed, seen, stuck>>
freezerVars == <<config, procs, dying, freezer, forgotten, cmds, steady>>

Ended == {"ok", "err"}

FreezerInit ==
  /\ config \in Configs
  /\ live = {"init"} /\ members = {"init"} /\ inside = {"init"} /\ born = {"init"}
  /\ zombies = {} /\ dying = {}
  /\ request = FALSE /\ still = {} /\ dir = TRUE /\ forgotten = FALSE
  /\ pc = [o \in Ops |-> "load"]
  /\ wasFrozen = [o \in Ops |-> FALSE]
  /\ snap = [o \in Ops |-> {}] /\ seen = [o \in Ops |-> {}]
  /\ failed = [o \in Ops |-> FALSE]
  /\ steady = {} /\ stuck = {}

-----------------------------------------------------------------------------
(* The kernel.                                                             *)

Settle(p) ==
  /\ request /\ p \in members \ still
  /\ still' = still \cup {p}
  /\ UNCHANGED <<config, procs, dying, request, dir, forgotten, cmds, steady>>

(* A new process starts in the cgroup and the namespace of its parent.     *)
Fork(p, q) ==
  /\ p \in members \ (still \cup dying \cup {"exec"})
  /\ q \in Others \ born
  /\ live' = live \cup {q} /\ members' = members \cup {q} /\ born' = born \cup {q}
  /\ inside' = IF p \in inside THEN inside \cup {q} ELSE inside
  /\ UNCHANGED <<config, zombies, dying, freezer, forgotten, cmds, steady>>

(* The end of a process; the init of a pid namespace takes everything in   *)
(* the namespace with it and ends last.                                    *)
Exit(p) ==
  /\ p \in live /\ (p \in still => p \in dying)
  /\ LET gone == IF p = "init" /\ config.pidNs THEN inside ELSE {p} IN
       /\ live' = live \ gone /\ members' = members \ gone /\ inside' = inside \ gone
       /\ still' = still \ gone /\ dying' = dying \ gone
       /\ zombies' = zombies \cup {p}
  /\ UNCHANGED <<config, born, request, dir, forgotten, cmds, steady>>

Reap(p) ==
  /\ p \in zombies
  /\ zombies' = zombies \ {p}
  /\ UNCHANGED <<config, live, members, inside, born, dying, freezer, forgotten, cmds, steady>>

KernelStep == \E p \in Proc : Settle(p) \/ Exit(p) \/ Reap(p) \/ \E q \in Others : Fork(p, q)

-----------------------------------------------------------------------------
(* What the commands read and write.                                       *)

Frozen == dir /\ request /\ members \subseteq still

Alive == "init" \in live \cup zombies

(* created and running are one here: every command treats them alike.      *)
Status ==
  IF ~Alive THEN "stopped" ELSE IF Frozen THEN "paused" ELSE "running"

Goto(o, to) == pc' = [pc EXCEPT ![o] = to]

(* A write to cgroup.freeze.  A thaw invalidates every list being walked.  *)
WriteFreeze(frozen) ==
  /\ dir
  /\ request' = frozen
  /\ still' = IF frozen THEN still ELSE {}
  /\ steady' = IF frozen THEN steady ELSE {}

-----------------------------------------------------------------------------
(* Container::load, then require or the checks of delete.                  *)
Load(o) ==
  /\ pc[o] = "load" /\ config.cmd[o] # "none"
  /\ \/ /\ forgotten
        /\ Goto(o, IF config.cmd[o] = "delete" THEN "ok" ELSE "err")
     \/ /\ ~forgotten
        /\ Goto(o,
             CASE config.cmd[o] = "pause"   -> IF Status = "running" THEN "freeze" ELSE "err"
               [] config.cmd[o] = "resume"  -> IF Status = "paused" THEN "thaw" ELSE "err"
               [] config.cmd[o] = "killall" -> IF Status # "stopped" THEN "look" ELSE "err"
               [] config.cmd[o] = "delete"  -> IF Status # "stopped" THEN "look" ELSE "rmdir")
  /\ UNCHANGED <<config, procs, dying, freezer, forgotten, wasFrozen, snap, failed, seen,
                 steady, stuck>>

(* kill --all remembers whether the cgroup was frozen and freezes it if it *)
(* was not; delete --force thaws it if it is.                              *)
Look(o) ==
  /\ pc[o] = "look"
  /\ wasFrozen' = [wasFrozen EXCEPT ![o] = Frozen]
  /\ steady' = IF Frozen THEN steady \cup {o} ELSE steady
  /\ Goto(o, IF config.cmd[o] = "killall" THEN IF Frozen THEN "list" ELSE "freeze"
             ELSE IF Frozen THEN "thaw" ELSE "list")
  /\ UNCHANGED <<config, procs, dying, freezer, forgotten, snap, failed, seen, stuck>>

Freeze(o) ==
  /\ pc[o] = "freeze"
  /\ \/ WriteFreeze(TRUE) /\ Goto(o, "freezing")
     \/ ~dir /\ Goto(o, "err") /\ UNCHANGED <<request, still, steady>>
  /\ UNCHANGED <<config, procs, dying, dir, forgotten, wasFrozen, snap, failed, seen, stuck>>

(* Slip: freeze does not wait for the kernel.                              *)
AwaitFrozenAtOnce(o) ==
  /\ pc[o] = "freezing"
  /\ steady' = steady \cup {o}
  /\ Goto(o, IF config.cmd[o] = "pause" THEN "ok" ELSE "list")
  /\ UNCHANGED <<config, procs, dying, freezer, forgotten, wasFrozen, snap, failed, seen, stuck>>

AwaitFrozen(o) ==
  /\ pc[o] = "freezing" /\ Frozen
  /\ steady' = steady \cup {o}
  /\ Goto(o, IF config.cmd[o] = "pause" THEN "ok" ELSE "list")
  /\ UNCHANGED <<config, procs, dying, freezer, forgotten, wasFrozen, snap, failed, seen, stuck>>

(* Slip: the poll has no bound.                                            *)
NeverGivesUp(o) == pc[o] = "none" /\ UNCHANGED freezerVars

(* 500 looks at cgroup.events, 10 ms apart, were not enough: the command   *)
(* fails and what it has written stays.                                    *)
GivesUp(o) ==
  /\ \/ pc[o] = "freezing" /\ ~Frozen
     \/ pc[o] = "thawing" /\ Frozen
  /\ Goto(o, "err") /\ stuck' = stuck \cup {o}
  /\ UNCHANGED <<config, procs, dying, freezer, forgotten, wasFrozen, snap, failed, seen, steady>>

(* The list of pids.  kill --all goes on to the thaw if it cannot be read; *)
(* delete goes on without one.                                             *)
List(o) ==
  /\ pc[o] = "list"
  /\ LET found == IF dir THEN members ELSE {} IN
       /\ snap' = [snap EXCEPT ![o] = found] /\ seen' = [seen EXCEPT ![o] = found]
  /\ failed' = [failed EXCEPT ![o] = ~dir]
  /\ Goto(o, "signal")
  /\ UNCHANGED <<config, procs, dying, freezer, forgotten, wasFrozen, steady, stuck>>

Signal(o) == IF config.cmd[o] = "delete" THEN "KILL" ELSE config.sig

(* Slip: delete gives up at the first pid that is gone, as kill --all does.*)
KillOneStrict(o, p) ==
  /\ pc[o] = "signal" /\ p \in snap[o]
  /\ dying' = IF p \in live /\ Signal(o) = "KILL" THEN dying \cup {p} ELSE dying
  /\ LET missed == p \notin live \cup zombies IN
       /\ snap' = [snap EXCEPT ![o] = IF missed THEN {} ELSE @ \ {p}]
       /\ failed' = [failed EXCEPT ![o] = @ \/ missed]
  /\ UNCHANGED <<config, procs, freezer, forgotten, pc, wasFrozen, seen, steady, stuck>>

(* kill(2) of one listed pid.  One that was reaped ends the loop of        *)
(* kill --all (`?`); delete ignores it.                                    *)
KillOne(o, p) ==
  /\ pc[o] = "signal" /\ p \in snap[o]
  /\ dying' = IF p \in live /\ Signal(o) = "KILL" THEN dying \cup {p} ELSE dying
  /\ LET missed == config.cmd[o] = "killall" /\ p \notin live \cup zombies IN
       /\ snap' = [snap EXCEPT ![o] = IF missed THEN {} ELSE @ \ {p}]
       /\ failed' = [failed EXCEPT ![o] = @ \/ missed]
  /\ UNCHANGED <<config, procs, freezer, forgotten, pc, wasFrozen, seen, steady, stuck>>

(* Slip: an error in the loop returns before the thaw.                     *)
KilledEarlyReturn(o) ==
  /\ pc[o] = "signal" /\ snap[o] = {}
  /\ Goto(o, IF config.cmd[o] = "delete" THEN "await"
             ELSE IF failed[o] THEN "err"
             ELSE IF wasFrozen[o] THEN "ok" ELSE "thaw")
  /\ UNCHANGED <<config, procs, dying, freezer, forgotten, wasFrozen, snap, failed, seen,
                 steady, stuck>>

(* Slip: kill --all thaws whatever it has found.                           *)
KilledThawsAlways(o) ==
  /\ pc[o] = "signal" /\ snap[o] = {}
  /\ Goto(o, IF config.cmd[o] = "delete" THEN "await" ELSE "thaw")
  /\ UNCHANGED <<config, procs, dying, freezer, forgotten, wasFrozen, snap, failed, seen,
                 steady, stuck>>

KilledAll(o) ==
  /\ pc[o] = "signal" /\ snap[o] = {}
  /\ Goto(o, IF config.cmd[o] = "delete" THEN "await"
             ELSE IF ~wasFrozen[o] THEN "thaw"
             ELSE IF failed[o] THEN "err" ELSE "ok")
  /\ UNCHANGED <<config, procs, dying, freezer, forgotten, wasFrozen, snap, failed, seen,
                 steady, stuck>>

Thaw(o) ==
  /\ pc[o] = "thaw"
  /\ \/ WriteFreeze(FALSE) /\ Goto(o, "thawing")
     \/ ~dir /\ Goto(o, "err") /\ UNCHANGED <<request, still, steady>>
  /\ UNCHANGED <<config, procs, dying, dir, forgotten, wasFrozen, snap, failed, seen, stuck>>

AwaitThawed(o) ==
  /\ pc[o] = "thawing" /\ ~Frozen
  /\ Goto(o, IF config.cmd[o] = "delete" THEN "list" ELSE IF failed[o] THEN "err" ELSE "ok")
  /\ UNCHANGED <<config, procs, dying, freezer, forgotten, wasFrozen, snap, failed, seen,
                 steady, stuck>>

(* delete waits for the init to vanish, 500 times 10 ms, and goes on       *)
(* either way.                                                             *)
AwaitGone(o) ==
  /\ pc[o] = "await"
  /\ stuck' = IF Alive THEN stuck \cup {o} ELSE stuck
  /\ Goto(o, "rmdir")
  /\ UNCHANGED <<config, procs, dying, freezer, forgotten, wasFrozen, snap, failed, seen, steady>>

(* Cgroup::destroy: rmdir fails while there are processes; after 50        *)
(* attempts the error is dropped, as is that of a missing directory.       *)
Rmdir(o) ==
  /\ pc[o] = "rmdir"
  /\ dir' = (dir /\ members # {})
  /\ Goto(o, "remove")
  /\ UNCHANGED <<config, procs, dying, request, still, forgotten, wasFrozen, snap, failed, seen,
                 steady, stuck>>

Remove(o) ==
  /\ pc[o] = "remove"
  /\ forgotten' = TRUE
  /\ Goto(o, "ok")
  /\ UNCHANGED <<config, procs, dying, freezer, wasFrozen, snap, failed, seen, steady, stuck>>

(* The command itself is killed.                                           *)
Killed(o) ==
  /\ pc[o] \notin Ended \cup {"load"}
  /\ Goto(o, "err") /\ stuck' = stuck \cup {o}
  /\ UNCHANGED <<config, procs, dying, freezer, forgotten, wasFrozen, snap, failed, seen, steady>>

Command(o) ==
  \/ Load(o) \/ Look(o)
  \/ Freeze(o) \/ AwaitFrozen(o) \/ Thaw(o) \/ AwaitThawed(o) \/ GivesUp(o)
  \/ List(o) \/ (\E p \in Proc : KillOne(o, p)) \/ KilledAll(o)
  \/ AwaitGone(o) \/ Rmdir(o) \/ Remove(o)
=============================================================================
