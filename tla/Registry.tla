------------------------------ MODULE Registry ------------------------------
(***************************************************************************)
(* One container id and all the `mars` commands about it: create, run,     *)
(* start, kill and delete, each a process that reads the state directory,  *)
(* the process table and the cgroup, and acts on what it has read          *)
(* (src/container/mod.rs, src/state.rs).                                   *)
(*                                                                         *)
(* Nothing locks the state directory, and the status is not stored: it is  *)
(* derived from the start time in /proc/<pid>/stat and from the presence   *)
(* of exec.fifo.  Pids are reused.  A process is named here by its birth,  *)
(* a number that stands for its start time; `proc` holds the pid of each.  *)
(*                                                                         *)
(* The handshake of create (Handshake) is one step here, Spawn, and so is  *)
(* the meeting of start and init on the fifo (ExecFifo).  Pausing belongs  *)
(* to the freezer.  SIGKILL dooms a process, which then ends when it will. *)
(* Definitions commented "Slip" are mistakes the code could have made.     *)
(***************************************************************************)
EXTENDS Naturals, Sequences

CONSTANTS
  Cmds,       (* the processes running commands, one command at a time     *)
  Pids,       (* the pids                                                  *)
  MaxBirths,  (* a bound on the processes ever born                        *)
  Serial      (* the caller reuses an id only when its commands are done   *)

ASSUME RegistryAssumption == MaxBirths \in Nat /\ Serial \in BOOLEAN

VARIABLES
  pidNs,      (* the bundle asks for a pid namespace                       *)
  proc,       (* proc[b]: the pid, and the container's init (0: stranger)  *)
  live,       (* the births still running                                  *)
  zombies,    (* those that have ended and await their parent              *)
  doomed,     (* the live ones that were sent a SIGKILL                      *)
  released,   (* the inits that were told to go on                         *)
  state,      (* the init named in state.json; 0: there is no state.json   *)
  fifo,       (* the init parked on the file exec.fifo; 0: no such file    *)
  cgroup,     (* the container's cgroup exists                             *)
  pc,         (* where each command is                                     *)
  mine,       (* the init it has spawned or loaded                         *)
  snap,       (* the pids of cgroup.procs it has still to kill             *)
  seen,       (* history: the births when it last looked                   *)
  runner,     (* the commands that are `mars run`                          *)
  lost        (* history: the inits whose create was killed before it      *)
              (* published or undid them                                   *)

procVars == <<proc, live, zombies, doomed, released>>
fileVars == <<state, fifo, cgroup>>
cmdVars == <<mine, snap, seen, runner>>
vars == <<pidNs, procVars, fileVars, pc, cmdVars, lost>>

Creating == {"create", "save", "pidfile", "undo", "undoKill", "drain", "undoDestroy", "undoDir"}
Running == {"release", "unlink", "supervise"}

Births == 1..Len(proc)
Present == live \cup zombies

(* The processes in cgroup.procs: not the zombies.                         *)
Members == {b \in live : proc[b].init # 0}

(* The process that holds pid p now, if any.                               *)
At(p) == {b \in Present : proc[b].pid = p}

(* Slip: kill(pid, 0).                                                     *)
AliveByPid(b) == b # 0 /\ At(proc[b].pid) # {}

(* The pid is there with the start time of state.json: zombies count.      *)
Alive(b) == b \in Present

Status ==
  IF state = 0 THEN "none"
  ELSE IF ~Alive(state) THEN "stopped"
  ELSE IF fifo # 0 THEN "created" ELSE "running"

Init ==
  /\ pidNs \in BOOLEAN
  /\ proc = <<>> /\ live = {} /\ zombies = {} /\ doomed = {} /\ released = {}
  /\ state = 0 /\ fifo = 0 /\ cgroup = FALSE
  /\ pc = [c \in Cmds |-> "idle"]
  /\ mine = [c \in Cmds |-> 0]
  /\ snap = [c \in Cmds |-> {}]
  /\ seen = [c \in Cmds |-> 0]
  /\ runner = {} /\ lost = {}

Goto(c, to) == pc' = [pc EXCEPT ![c] = to]

(* The command ends, and what it knew is gone.                             *)
End(c) ==
  /\ Goto(c, "idle")
  /\ mine' = [mine EXCEPT ![c] = 0]
  /\ snap' = [snap EXCEPT ![c] = {}]
  /\ seen' = [seen EXCEPT ![c] = 0]
  /\ runner' = runner \ {c}

Step(c, to) == Goto(c, to) /\ UNCHANGED cmdVars

(* A command has read state.json.                                          *)
Load(c, to) ==
  /\ pc[c] = "idle" /\ state # 0
  /\ Goto(c, to)
  /\ mine' = [mine EXCEPT ![c] = state]
  /\ seen' = [seen EXCEPT ![c] = Len(proc)]
  /\ UNCHANGED <<snap, runner>>

-----------------------------------------------------------------------------
(* create and the first half of run.                                       *)

Born(pid, init) ==
  /\ Len(proc) < MaxBirths
  /\ pid \in Pids /\ At(pid) = {}
  /\ proc' = Append(proc, [pid |-> pid, init |-> init])
  /\ live' = live \cup {Len(proc) + 1}
  /\ UNCHANGED <<zombies, doomed, released>>

(* layout.exists: the id is free when there is no state.json.              *)
CreateCheck(c) ==
  /\ pc[c] = "idle" /\ state = 0
  /\ Serial => \A d \in Cmds : pc[d] = "idle"
  /\ Step(c, "create")
  /\ UNCHANGED <<pidNs, procVars, fileVars, lost>>

(* The handshake has succeeded: the init is in the cgroup and parked on a  *)
(* fifo that has replaced any other.                                       *)
Spawn(c) ==
  /\ pc[c] = "create"
  /\ \E p \in Pids : Born(p, Len(proc) + 1)
  /\ mine' = [mine EXCEPT ![c] = Len(proc) + 1]
  /\ fifo' = Len(proc) + 1 /\ cgroup' = TRUE
  /\ Goto(c, "save")
  /\ UNCHANGED <<pidNs, state, snap, seen, runner, lost>>

(* It fails before the cgroup is made, at the limits, or after the fork,   *)
(* whose children are then gone.                                           *)
SpawnFails(c) ==
  /\ pc[c] = "create"
  /\ \/ Step(c, "undoDir") /\ UNCHANGED <<fifo, cgroup>>
     \/ Step(c, "undoDestroy") /\ cgroup' = TRUE /\ UNCHANGED fifo
     \/ Step(c, "undo") /\ cgroup' = TRUE /\ fifo' = 0
  /\ UNCHANGED <<pidNs, procVars, state, lost>>

(* state.json is renamed into place, or one of its steps fails.            *)
Save(c) ==
  /\ pc[c] = "save"
  /\ \/ Step(c, "pidfile") /\ state' = mine[c] /\ UNCHANGED fifo
     \/ Step(c, "undo") /\ fifo' = 0 /\ UNCHANGED state
  /\ UNCHANGED <<pidNs, procVars, cgroup, lost>>

(* The pid file is written and create ends, or run goes on; or it cannot   *)
(* be written, and spawn removes the fifo and begins the teardown.         *)
PidFile(c) ==
  /\ pc[c] = "pidfile"
  /\ \/ End(c) /\ UNCHANGED fifo
     \/ /\ Goto(c, "release") /\ runner' = runner \cup {c}
        /\ UNCHANGED <<mine, snap, seen, fifo>>
     \/ Step(c, "undo") /\ fifo' = 0
  /\ UNCHANGED <<pidNs, procVars, state, cgroup, lost>>

-----------------------------------------------------------------------------
(* Killing what is in the cgroup: teardown, and delete --force.            *)

ReadProcs(c) ==
  /\ \/ pc[c] = "undo" /\ Goto(c, "undoKill")
     \/ pc[c] = "read" /\ Goto(c, "killAll")
  /\ snap' = [snap EXCEPT ![c] = {proc[b].pid : b \in Members}]
  /\ seen' = [seen EXCEPT ![c] = Len(proc)]
  /\ UNCHANGED <<pidNs, procVars, fileVars, mine, runner, lost>>

KillOne(c) ==
  /\ pc[c] \in {"undoKill", "killAll"}
  /\ \E p \in snap[c] :
       /\ snap' = [snap EXCEPT ![c] = @ \ {p}]
       /\ doomed' = doomed \cup (At(p) \cap live)
  /\ UNCHANGED <<pidNs, proc, live, zombies, released, fileVars, pc, mine, seen, runner, lost>>

KilledAll(c) ==
  /\ snap[c] = {}
  /\ \/ pc[c] = "undoKill" /\ Step(c, "drain")
     \/ pc[c] = "killAll" /\ Step(c, "wait")
  /\ UNCHANGED <<pidNs, procVars, fileVars, lost>>

(* teardown reaps its children until the cgroup is empty or the rounds     *)
(* have run out.                                                           *)
Drain(c) ==
  /\ pc[c] = "drain"
  /\ zombies' = zombies \ {mine[c]}
  /\ Step(c, "undoDestroy")
  /\ UNCHANGED <<pidNs, proc, live, doomed, released, fileVars, lost>>

(* delete --force waits until the init is gone or the rounds have run out. *)
Wait(c) ==
  /\ pc[c] = "wait"
  /\ Step(c, "destroy")
  /\ UNCHANGED <<pidNs, procVars, fileVars, lost>>

(* rmdir fails while the cgroup has members; the error is dropped.         *)
(* The poststop hooks cannot stop what follows, but run may keep the rest. *)
Destroy(c) ==
  /\ \/ pc[c] = "undoDestroy" /\ Step(c, "undoDir")
     \/ pc[c] = "destroy" /\ (Step(c, "remove") \/ (c \in runner /\ End(c)))
  /\ cgroup' = (cgroup /\ Members # {})
  /\ UNCHANGED <<pidNs, procVars, state, fifo, lost>>

(* remove_dir_all of the container's directory, whoever's it is by now.    *)
Remove(c) ==
  /\ pc[c] \in {"undoDir", "remove"}
  /\ state' = 0 /\ fifo' = 0
  /\ End(c)
  /\ UNCHANGED <<pidNs, procVars, cgroup, lost>>

-----------------------------------------------------------------------------
(* start, and the second half of run.                                      *)

StartCheck(c) ==
  /\ Load(c, "release")
  /\ Alive(state) /\ fifo # 0
  /\ UNCHANGED <<pidNs, procVars, fileVars, lost>>

(* fifo::release opens whatever has the name; with an init parked on it,   *)
(* that init goes on.                                                      *)
Release(c) ==
  /\ pc[c] = "release"
  /\ fifo \in live \ released
  /\ released' = released \cup {fifo}
  /\ Step(c, "unlink")
  /\ UNCHANGED <<pidNs, proc, live, zombies, doomed, fileVars, lost>>

(* Otherwise it fails, or blocks for ever.                                 *)
ReleaseFails(c) ==
  /\ pc[c] = "release"
  /\ fifo \notin live \ released
  /\ End(c)
  /\ UNCHANGED <<pidNs, procVars, fileVars, lost>>

(* remove_file, by name, then the poststart hooks.  start ends here, and   *)
(* run if it detaches or somebody else has removed the fifo.               *)
Unlink(c) ==
  /\ pc[c] = "unlink"
  /\ fifo' = 0
  /\ End(c) \/ (c \in runner /\ Step(c, "supervise"))
  /\ UNCHANGED <<pidNs, procVars, state, cgroup, lost>>

(* supervise has reaped the init.                                          *)
Supervised(c) ==
  /\ pc[c] = "supervise"
  /\ mine[c] \notin live
  /\ zombies' = zombies \ {mine[c]}
  /\ Step(c, "destroy")
  /\ UNCHANGED <<pidNs, proc, live, doomed, released, fileVars, lost>>

-----------------------------------------------------------------------------
(* kill.                                                                   *)

(* Slip: the status is not looked at.                                      *)
KillCheckAny(c) ==
  /\ Load(c, "send")
  /\ UNCHANGED <<pidNs, procVars, fileVars, lost>>

KillCheck(c) ==
  /\ Load(c, "send")
  /\ Alive(state)
  /\ UNCHANGED <<pidNs, procVars, fileVars, lost>>

(* kill(2) goes to whoever holds the pid by now.                           *)
KillSend(c) ==
  /\ pc[c] = "send"
  /\ doomed' = doomed \cup (At(proc[mine[c]].pid) \cap live)
  /\ End(c)
  /\ UNCHANGED <<pidNs, proc, live, zombies, released, fileVars, lost>>

-----------------------------------------------------------------------------
(* delete.                                                                 *)

(* Slip: the status is not looked at.                                      *)
DeleteLoadAny(c) ==
  /\ Load(c, "destroy")
  /\ UNCHANGED <<pidNs, procVars, fileVars, lost>>

(* Slip: --force takes NotFound for a container without a process.         *)
DeleteLoadForced(c) ==
  /\ pc[c] = "idle"
  /\ mine' = [mine EXCEPT ![c] = state]
  /\ Goto(c, IF Alive(state) THEN "read" ELSE "destroy")
  /\ UNCHANGED <<pidNs, procVars, fileVars, snap, seen, runner, lost>>

(* A container that is not stopped is refused, or killed with --force.     *)
DeleteLoad(c) ==
  /\ Load(c, IF Alive(state) THEN "read" ELSE "destroy")
  /\ UNCHANGED <<pidNs, procVars, fileVars, lost>>

-----------------------------------------------------------------------------
(* The rest of the world.                                                  *)

(* A command is killed.                                                    *)
Crash(c) ==
  /\ pc[c] # "idle"
  /\ End(c)
  /\ lost' = IF pc[c] \in Creating THEN lost \cup ({mine[c]} \ {0, state}) ELSE lost
  /\ UNCHANGED <<pidNs, procVars, fileVars>>

Fork ==
  /\ \E b \in Members, p \in Pids : proc[b].init \in released /\ Born(p, proc[b].init)
  /\ UNCHANGED <<pidNs, fileVars, pc, cmdVars, lost>>

Stranger ==
  /\ \E p \in Pids : Born(p, 0)
  /\ UNCHANGED <<pidNs, fileVars, pc, cmdVars, lost>>

(* The init of a pid namespace takes the whole container with it.          *)
Die ==
  /\ \E b \in live :
       /\ live' = IF pidNs /\ proc[b].init = b
                  THEN {d \in live : proc[d].init # b} ELSE live \ {b}
       /\ zombies' = zombies \cup {b}
  /\ doomed' = doomed \cap live'
  /\ UNCHANGED <<pidNs, proc, released, fileVars, pc, cmdVars, lost>>

(* The init is a child of its create or run while that lasts; after that   *)
(* of whoever inherits orphans.                                            *)
Held(b) == \E c \in Cmds :
  mine[c] = b /\ (pc[c] \in Creating \/ (c \in runner /\ pc[c] \in Running))

Reap ==
  /\ \E b \in zombies : ~Held(b) /\ zombies' = zombies \ {b}
  /\ UNCHANGED <<pidNs, proc, live, doomed, released, fileVars, pc, cmdVars, lost>>

Command(c) ==
  \/ CreateCheck(c) \/ Spawn(c) \/ SpawnFails(c) \/ Save(c) \/ PidFile(c)
  \/ ReadProcs(c) \/ KillOne(c) \/ KilledAll(c) \/ Drain(c) \/ Wait(c)
  \/ Destroy(c) \/ Remove(c)
  \/ StartCheck(c) \/ Release(c) \/ ReleaseFails(c) \/ Unlink(c) \/ Supervised(c)
  \/ KillCheck(c) \/ KillSend(c) \/ DeleteLoad(c)
  \/ Crash(c)

Next == (\E c \in Cmds : Command(c)) \/ Fork \/ Stranger \/ Die \/ Reap

Spec == Init /\ [][Next]_vars
-----------------------------------------------------------------------------
(* Properties.                                                             *)

(* Types; a command past its load names an init that was born, and two     *)
(* processes never share a pid.                                            *)
TypeOK ==
  /\ pidNs \in BOOLEAN
  /\ proc \in Seq([pid : Pids, init : Nat])
  /\ \A b \in Births : proc[b].init \in 0..b
  /\ live \subseteq Births /\ zombies \subseteq Births /\ live \cap zombies = {}
  /\ doomed \subseteq Births /\ released \subseteq Births /\ lost \subseteq Births
  /\ state \in 0..Len(proc) /\ fifo \in 0..Len(proc) /\ cgroup \in BOOLEAN
  /\ pc \in [Cmds -> {"idle", "send", "read", "killAll", "wait", "destroy", "remove"}
                     \cup Creating \cup Running]
  /\ mine \in [Cmds -> 0..Len(proc)] /\ seen \in [Cmds -> 0..Len(proc)]
  /\ snap \in [Cmds -> SUBSET Pids] /\ runner \subseteq Cmds
  /\ \A c \in Cmds : mine[c] # 0 \/ pc[c] \in {"idle"} \cup (Creating \ {"save", "pidfile"})
  /\ \A b, d \in Present : proc[b].pid = proc[d].pid => b = d

(* A pid about to be signalled, by kill or by the loops of teardown and    *)
(* delete --force, belongs to the container, or to a process born since    *)
(* the command looked: reuse before that does not mislead it, which is     *)
(* what the start time in state.json and the fresh cgroup.procs are for.   *)
AimsAtOurs == \A c \in Cmds :
  /\ pc[c] = "send" =>
       \A b \in At(proc[mine[c]].pid) : b = mine[c] \/ b > seen[c]
  /\ pc[c] \in {"undoKill", "killAll"} =>
       \A p \in snap[c] : \A b \in At(p) : proc[b].init # 0 \/ b > seen[c]

(* No container is lost sight of: an init that runs and was sent no        *)
(* SIGKILL is in state.json, or in the hands of a create under way, or its *)
(* create was killed.  (delete and the undo of create forget an id only    *)
(* when its init is gone or as good as gone.)                              *)
Accounted == \A b \in live \ doomed :
  proc[b].init = b =>
    \/ b = state
    \/ \E c \in Cmds : pc[c] \in Creating /\ mine[c] = b
    \/ b \in lost

(* The status, and whether the init has ended or is doomed.                *)
Over == state # 0 /\ state \notin live \ doomed
Oci == INSTANCE OciLifecycle WITH status <- Status, over <- Over

(* What `mars state` answers over time follows the life cycle: none,       *)
(* created, running, stopped, and a stopped container never comes back,    *)
(* whoever takes its pid.                                                  *)
FollowsLifecycle == Oci!Spec

(* kill signals the init and nobody else (docs/04-lifecycle.md:86-90).     *)
KillHitsOurs == [][\A c \in Cmds : KillSend(c) =>
  At(proc[mine[c]].pid) \subseteq {mine[c]}]_vars

(* A container that reports running was started: its init has been         *)
(* released (docs/04-lifecycle.md:82-84, created and running are told      *)
(* apart by whether the fifo has been consumed).                           *)
RunningMeansReleased == Status = "running" => state \in released

(* delete refuses a running container (tests/run-integration.sh:509-510),  *)
(* unless --force kills it first.                                          *)
DeleteSparesRunning == [][\A c \in Cmds :
  pc[c] = "remove" /\ c \notin runner /\ Remove(c) => state \notin live \ doomed]_vars
=============================================================================
