------------------------------ MODULE Handshake ------------------------------
(***************************************************************************)
(* `mars create`: the runtime, the intermediate process it forks, the      *)
(* container init that process forks in turn, and the SOCK_SEQPACKET pair  *)
(* they talk over (src/container/mod.rs, init.rs, sync.rs).                *)
(*                                                                         *)
(*   runtime                 intermediate              init                *)
(*     |   <- RequestUserMapping -  |                                      *)
(*     |   -- UserMappingDone --->  | (new user namespace only)            *)
(*     |   <------ InitPid -------- | -- fork --------> |                  *)
(*     |   (reaps it, places init in the cgroup, runs the runtime hooks)   *)
(*     |   -- CgroupApplied ------------------------->  | sets up          *)
(*     |   <--------------------------- InitReady ----  | parks            *)
(*   saves state.json                                                      *)
(*                                                                         *)
(* The two children share the second end of the socket: the runtime reads  *)
(* end-of-file only when both are gone, and a message sent down is taken   *)
(* by whichever of them reads first.  Any of the three may be killed       *)
(* between two steps, and every fallible call may fail.                    *)
(*                                                                         *)
(* A definition commented "Slip" is not part of the model.  It is a small  *)
(* mistake the code could have made in the definition after it, kept to    *)
(* show that the property it breaks is not vacuous.                        *)
(***************************************************************************)
EXTENDS Sequences

CONSTANT
  Configs    (* the kinds of config.json: whether it asks for a new user   *)
             (* namespace and for a new pid namespace, in which the death  *)
             (* of the init takes every other process along                *)

ASSUME ConfigAssumption == Configs \subseteq [userNs : BOOLEAN, pidNs : BOOLEAN]

VARIABLES
  config,    (* the config.json this create was given                     *)
  rt,        (* where the runtime is in create/build/spawn/handshake      *)
  inter,     (* where the intermediate is in stage_one                    *)
  init,      (* where the init is in container_init                       *)
  helper,    (* the createContainer hook process the init runs            *)
  toRt,      (* packets waiting at the runtime's end                      *)
  toChild,   (* packets waiting at the children's end                     *)
  open,      (* the runtime still holds its end                           *)
  cgroup,    (* the container's cgroup directory exists                   *)
  procs,     (* cgroup.procs: the live processes in it                    *)
  files,     (* what exists of the state directory                        *)
  snapshot,  (* the pids teardown read from cgroup.procs                  *)
  killed,    (* processes with the teardown's SIGKILL pending             *)
  slain,     (* something outside killed one of the children              *)
  gaveUp,    (* a bounded wait of the clean-up ran out                    *)
  reason,    (* the kind of error create returns                          *)
  confused   (* somebody took a packet that was not meant for it          *)

rtOwn == <<files, snapshot, killed, gaveUp, reason>>
kids  == <<inter, init, helper>>
wires == <<toRt, toChild, open>>
group == <<cgroup, procs>>
vars  == <<config, rt, rtOwn, kids, wires, group, slain, confused>>

Final    == {"ok", "err", "crashed"}
Undoing  == {"undo", "kill", "drain", "destroy", "rmdir", "err"}
Gone     == {"none", "dead"}
Building == {"build", "hook", "harden"}
Packets  == {"RequestUserMapping", "UserMappingDone", "InitPid",
             "CgroupApplied", "InitReady", "Failed"}

Init ==
  /\ config \in Configs
  /\ rt = "mkdir"
  /\ inter = "none" /\ init = "none" /\ helper = "none"
  /\ toRt = <<>> /\ toChild = <<>> /\ open = FALSE
  /\ cgroup = FALSE /\ procs = {} /\ files = {}
  /\ snapshot = {} /\ killed = {} /\ slain = FALSE
  /\ gaveUp = FALSE /\ reason = "none" /\ confused = FALSE

-----------------------------------------------------------------------------
(* The runtime: src/container/mod.rs                                       *)

(* A call of the runtime fails: it goes on at `undo` with its own error.   *)
RtFails(undo) == rt' = undo /\ reason' = "local"

(* Slip: spawn forgets drop(child), so the runtime never reads end-of-file. *)
ChildEndKept == TRUE

(* Someone still holds the children's end of the socket.                   *)
ChildEnd == inter \notin Gone \/ init \notin Gone

RtMkdir ==
  /\ rt = "mkdir"
  /\ \/ rt' = "plan" /\ files' = {"dir"} /\ reason' = reason
     \/ RtFails("err") /\ files' = files
  /\ UNCHANGED <<config, snapshot, killed, gaveUp, kids, wires, group, slain, confused>>

(* Console check, namespace layout, overlay preparation, rootfs check.     *)
RtPlan ==
  /\ rt = "plan"
  /\ \/ rt' = "cgroup" /\ reason' = reason
     \/ RtFails("rmdir")
  /\ UNCHANGED <<config, files, snapshot, killed, gaveUp, kids, wires, group, slain, confused>>

RtCgroup ==
  /\ rt = "cgroup"
  /\ \/ rt' = "limits" /\ cgroup' = TRUE /\ reason' = reason
     \/ RtFails("rmdir") /\ cgroup' = cgroup
  /\ UNCHANGED <<config, files, snapshot, killed, gaveUp, kids, wires, procs, slain, confused>>

RtLimits ==
  /\ rt = "limits"
  /\ \/ rt' = "fifo" /\ reason' = reason
     \/ RtFails("destroy")
  /\ UNCHANGED <<config, files, snapshot, killed, gaveUp, kids, wires, group, slain, confused>>

RtFifo ==
  /\ rt = "fifo"
  /\ \/ rt' = "fork" /\ files' = files \cup {"fifo"} /\ reason' = reason
     \/ RtFails("destroy") /\ files' = files
  /\ UNCHANGED <<config, snapshot, killed, gaveUp, kids, wires, group, slain, confused>>

(* socketpair and fork; each side drops the end it does not use.           *)
RtFork ==
  /\ rt = "fork"
  /\ \/ rt' = "recvFirst" /\ inter' = "prepare" /\ open' = TRUE /\ reason' = reason
     \/ RtFails("destroy") /\ UNCHANGED <<inter, open>>
  /\ UNCHANGED <<config, files, snapshot, killed, gaveUp, init, helper, toRt, toChild, group,
                 slain, confused>>

(* Channel::recv of the first message, and of the one after the mapping.   *)
RtRecvPid ==
  /\ rt \in {"recvFirst", "recvPid"}
  /\ toRt # <<>>
  /\ toRt' = Tail(toRt)
  /\ LET m == Head(toRt) IN
       \/ m = "RequestUserMapping" /\ rt = "recvFirst"
          /\ rt' = "map" /\ UNCHANGED <<reason, confused>>
       \/ m = "InitPid" /\ rt' = "reap" /\ UNCHANGED <<reason, confused>>
       \/ m = "Failed" /\ rt' = "undo" /\ reason' = "reported" /\ UNCHANGED confused
       \/ m \notin {"InitPid", "Failed"} /\ ~(m = "RequestUserMapping" /\ rt = "recvFirst")
          /\ RtFails("undo") /\ confused' = TRUE
  /\ UNCHANGED <<config, files, snapshot, killed, gaveUp, kids, toChild, open, group, slain>>

RtRecvReady ==
  /\ rt = "recvReady"
  /\ toRt # <<>>
  /\ toRt' = Tail(toRt)
  /\ LET m == Head(toRt) IN
       \/ m = "InitReady" /\ rt' = "save" /\ UNCHANGED <<reason, confused>>
       \/ m = "Failed" /\ rt' = "undo" /\ reason' = "reported" /\ UNCHANGED confused
       \/ m \notin {"InitReady", "Failed"} /\ RtFails("undo") /\ confused' = TRUE
  /\ UNCHANGED <<config, files, snapshot, killed, gaveUp, kids, toChild, open, group, slain>>

(* A read of zero bytes: Error::SyncClosed.                                *)
RtEof ==
  /\ rt \in {"recvFirst", "recvPid", "recvReady"}
  /\ toRt = <<>>
  /\ ~ChildEnd
  /\ rt' = "undo" /\ reason' = "closed"
  /\ UNCHANGED <<config, files, snapshot, killed, gaveUp, kids, wires, group, slain, confused>>

(* userns::write of the maps of the (living) intermediate, and the answer. *)
RtMap ==
  /\ rt = "map"
  /\ \/ inter # "dead" /\ rt' = "recvPid"
        /\ toChild' = Append(toChild, "UserMappingDone") /\ reason' = reason
     \/ RtFails("undo") /\ toChild' = toChild
  /\ UNCHANGED <<config, files, snapshot, killed, gaveUp, kids, toRt, open, group, slain, confused>>

RtReap ==
  /\ rt = "reap"
  /\ inter = "dead"
  /\ rt' = "attach"
  /\ UNCHANGED <<config, rtOwn, kids, wires, group, slain, confused>>

(* Slips: the attach goes missing; the intermediate's pid is written.      *)
PlacedNobody == procs
PlacedWrongPid == procs \cup {"inter"}

(* What add_process leaves in cgroup.procs.                                *)
Placed == IF init = "dead" THEN procs ELSE procs \cup {"init"}

(* Cgroup::add_process; on a zombie the write is accepted and moves nobody. *)
RtAttach ==
  /\ rt = "attach"
  /\ \/ rt' = "hooks" /\ reason' = reason
        /\ procs' = Placed
     \/ RtFails("undo") /\ procs' = procs
  /\ UNCHANGED <<config, files, snapshot, killed, gaveUp, kids, wires, cgroup, slain, confused>>

(* prestart and createRuntime hooks, then the message that lets init go on; *)
(* the write fails with EPIPE when nobody holds the other end.             *)
RtHooks ==
  /\ rt = "hooks"
  /\ \/ ChildEnd /\ rt' = "recvReady"
        /\ toChild' = Append(toChild, "CgroupApplied") /\ reason' = reason
     \/ RtFails("undo") /\ toChild' = toChild
  /\ UNCHANGED <<config, files, snapshot, killed, gaveUp, kids, toRt, open, group, slain, confused>>

(* start_time of the init, then Container::save (state.json.new renamed).  *)
RtSave ==
  /\ rt = "save"
  /\ \/ rt' = "pidfile" /\ files' = files \cup {"state"} /\ reason' = reason
     \/ RtFails("undo") /\ files' = files
  /\ UNCHANGED <<config, snapshot, killed, gaveUp, kids, wires, group, slain, confused>>

(* write_pid_file; on success spawn returns and drops the runtime's end.   *)
RtPidFile ==
  /\ rt = "pidfile"
  /\ \/ rt' = "ok" /\ open' = FALSE /\ reason' = reason
     \/ RtFails("undo") /\ open' = open
  /\ UNCHANGED <<config, files, snapshot, killed, gaveUp, kids, toRt, toChild, group, slain, confused>>

(* Slip: teardown kills the init and not everything in its cgroup.         *)
TeardownReadsInit == procs \cap {"init"}

(* Cgroup::procs, as teardown reads it.                                    *)
TeardownReads == procs

(* The error branch of spawn: the fifo is removed, teardown reads the pids. *)
RtUndo ==
  /\ rt = "undo"
  /\ rt' = "kill"
  /\ files' = files \ {"fifo"}
  /\ snapshot' = TeardownReads
  /\ UNCHANGED <<config, killed, gaveUp, reason, kids, wires, group, slain, confused>>

RtKill ==
  /\ rt = "kill"
  /\ rt' = "drain"
  /\ killed' = killed \cup snapshot
  /\ UNCHANGED <<config, files, snapshot, gaveUp, reason, kids, wires, group, slain, confused>>

(* Channel is dropped when spawn returns.                                  *)
EndAfterSpawn == FALSE

(* 250 rounds of reaping until cgroup.procs is empty; then spawn returns.  *)
RtDrain ==
  /\ rt = "drain"
  /\ \/ procs = {} /\ gaveUp' = gaveUp
     \/ procs # {} /\ gaveUp' = TRUE
  /\ rt' = "destroy"
  /\ open' = EndAfterSpawn
  /\ UNCHANGED <<config, files, snapshot, killed, reason, kids, toRt, toChild, group, slain, confused>>

(* Cgroup::destroy: 50 attempts against EBUSY, the error is dropped.       *)
RtDestroy ==
  /\ rt = "destroy"
  /\ \/ procs = {} /\ cgroup' = FALSE /\ gaveUp' = gaveUp
     \/ procs # {} /\ gaveUp' = TRUE /\ cgroup' = cgroup
  /\ rt' = "rmdir"
  /\ UNCHANGED <<config, files, snapshot, killed, reason, kids, wires, procs, slain, confused>>

RtRmdir ==
  /\ rt = "rmdir"
  /\ rt' = "err"
  /\ files' = {}
  /\ UNCHANGED <<config, snapshot, killed, gaveUp, reason, kids, wires, group, slain, confused>>

RtStep ==
  \/ RtMkdir \/ RtPlan \/ RtCgroup \/ RtLimits \/ RtFifo \/ RtFork
  \/ RtRecvPid \/ RtEof \/ RtMap \/ RtReap \/ RtAttach \/ RtHooks
  \/ RtRecvReady \/ RtSave \/ RtPidFile
  \/ RtUndo \/ RtKill \/ RtDrain \/ RtDestroy \/ RtRmdir

-----------------------------------------------------------------------------
(* The intermediate: stage_one in src/container/init.rs                    *)

(* A child's Channel::send; EPIPE once the runtime's end is closed.        *)
SendUp(m) == toRt' = IF open THEN Append(toRt, m) ELSE toRt

(* Slip: read() of zero bytes is not treated as end of file.               *)
RuntimeGoneNever == FALSE

(* recv of zero bytes at the children's end.                               *)
RuntimeGone == toChild = <<>> /\ ~open

(* Failed(reason), sent before the child exits.                            *)
ReportFailure == SendUp("Failed")

(* Slip: the intermediate does not wait for UserMappingDone.               *)
AfterRequestNoWait == "fork"

(* After RequestUserMapping the intermediate waits; with nobody there the  *)
(* write fails and it exits.                                               *)
AfterRequest == IF open THEN "awaitMap" ELSE "exiting"

(* join_existing and the unshares, then the request for a mapping.         *)
InterPrepare ==
  /\ inter = "prepare"
  /\ \/ config.userNs /\ SendUp("RequestUserMapping")
        /\ inter' = AfterRequest
     \/ ~config.userNs /\ inter' = "fork" /\ toRt' = toRt
  /\ UNCHANGED <<config, rt, rtOwn, init, helper, toChild, open, group, slain, confused>>

(* expect("UserMappingDone"): the packet, the wrong packet, end of file.   *)
InterRecvMap ==
  /\ inter = "awaitMap"
  /\ \/ /\ toChild # <<>> /\ toChild' = Tail(toChild)
        /\ \/ Head(toChild) = "UserMappingDone" /\ inter' = "fork"
              /\ UNCHANGED <<toRt, confused>>
           \/ Head(toChild) # "UserMappingDone" /\ inter' = "exiting"
              /\ ReportFailure /\ confused' = TRUE
     \/ /\ RuntimeGone
        /\ inter' = "exiting" /\ UNCHANGED <<toRt, toChild, confused>>
  /\ UNCHANGED <<config, rt, rtOwn, init, helper, open, group, slain>>

InterFork ==
  /\ inter = "fork"
  /\ inter' = "report" /\ init' = "awaitPlaced"
  /\ UNCHANGED <<config, rt, rtOwn, helper, wires, group, slain, confused>>

InterReport ==
  /\ inter = "report"
  /\ inter' = "exiting"
  /\ SendUp("InitPid")
  /\ UNCHANGED <<config, rt, rtOwn, init, helper, toChild, open, group, slain, confused>>

(* A join, an unshare, the id change or the fork fails.                    *)
InterFail ==
  /\ inter \in {"prepare", "fork"}
  /\ inter' = "exiting"
  /\ ReportFailure
  /\ UNCHANGED <<config, rt, rtOwn, init, helper, toChild, open, group, slain, confused>>

InterExit ==
  /\ inter = "exiting"
  /\ inter' = "dead"
  /\ UNCHANGED <<config, rt, rtOwn, init, helper, wires, group, slain, confused>>

InterStep ==
  InterPrepare \/ InterRecvMap \/ InterFork \/ InterReport \/ InterFail \/ InterExit

-----------------------------------------------------------------------------
(* The container init: container_init in src/container/init.rs             *)

(* The init leaves cgroup.procs; a pid namespace dies with it.             *)
InitGone ==
  /\ init' = "dead"
  /\ IF config.pidNs /\ helper = "running"
     THEN helper' = "dead" /\ procs' = procs \ {"init", "helper"}
     ELSE helper' = helper /\ procs' = procs \ {"init"}

(* expect("CgroupApplied"): the packet, the wrong packet, end of file.     *)
InitRecv ==
  /\ init = "awaitPlaced" /\ "init" \notin killed
  /\ \/ /\ toChild # <<>> /\ toChild' = Tail(toChild)
        /\ \/ Head(toChild) = "CgroupApplied" /\ init' = "build"
              /\ UNCHANGED <<toRt, confused>>
           \/ Head(toChild) # "CgroupApplied" /\ init' = "exiting"
              /\ ReportFailure /\ confused' = TRUE
     \/ /\ RuntimeGone
        /\ init' = "exiting" /\ UNCHANGED <<toRt, toChild, confused>>
  /\ UNCHANGED <<config, rt, rtOwn, inter, helper, open, group, slain>>

(* Slip: InitReady is sent once the rootfs is built, before the rest.      *)
InitBuildReadyEarly ==
  /\ init = "build" /\ "init" \notin killed
  /\ init' = "harden" /\ SendUp("InitReady")
  /\ UNCHANGED <<config, rt, rtOwn, inter, helper, toChild, open, group, slain, confused>>

(* Cgroup namespace, mounts and devices are done; the createContainer hook *)
(* starts (the init's child, so a member of the init's cgroup), or there   *)
(* is none.                                                                *)
InitBuild ==
  /\ init = "build" /\ "init" \notin killed
  /\ \/ /\ init' = "hook" /\ helper' = "running"
        /\ procs' = IF "init" \in procs THEN procs \cup {"helper"} ELSE procs
     \/ init' = "harden" /\ UNCHANGED <<helper, procs>>
  /\ UNCHANGED <<config, rt, rtOwn, inter, wires, cgroup, slain, confused>>

InitHookDone ==
  /\ init = "hook" /\ "init" \notin killed
  /\ helper = "dead"
  /\ init' = "harden"
  /\ UNCHANGED <<config, rt, rtOwn, inter, helper, wires, group, slain, confused>>

(* pivot_root, identity, hardening, limits, privileges: then InitReady.    *)
InitReady ==
  /\ init = "harden" /\ "init" \notin killed
  /\ SendUp("InitReady")
  /\ init' = IF open THEN "park" ELSE "exiting"
  /\ UNCHANGED <<config, rt, rtOwn, inter, helper, toChild, open, group, slain, confused>>

(* fifo::park opens the fifo for writing and blocks there.                 *)
InitPark ==
  /\ init = "park" /\ "init" \notin killed
  /\ init' = "parked"
  /\ UNCHANGED <<config, rt, rtOwn, inter, helper, wires, group, slain, confused>>

(* A step of the set-up fails, the hook included, or park cannot reopen    *)
(* the fifo: by then InitReady is already on its way.                      *)
InitFail ==
  /\ init \in {"build", "harden", "park"} \/ (init = "hook" /\ helper = "dead")
  /\ "init" \notin killed
  /\ init' = "exiting"
  /\ ReportFailure
  /\ UNCHANGED <<config, rt, rtOwn, inter, helper, toChild, open, group, slain, confused>>

(* exit(1) after a failure, or the SIGKILL of teardown takes effect.       *)
InitExit ==
  /\ init = "exiting" \/ (init \notin Gone /\ "init" \in killed)
  /\ InitGone
  /\ UNCHANGED <<config, rt, rtOwn, inter, wires, cgroup, slain, confused>>

HelperExit ==
  /\ helper = "running"
  /\ helper' = "dead"
  /\ procs' = procs \ {"helper"}
  /\ UNCHANGED <<config, rt, rtOwn, inter, init, wires, cgroup, slain, confused>>

InitStep ==
  InitRecv \/ InitBuild \/ InitHookDone \/ InitReady \/ InitPark \/ InitFail \/ InitExit

-----------------------------------------------------------------------------
(* What the processes cannot prevent.                                      *)

(* The runtime is killed; the kernel closes its end of the socket.         *)
RtCrash ==
  /\ rt \notin Final
  /\ rt' = "crashed"
  /\ open' = FALSE
  /\ UNCHANGED <<config, rtOwn, kids, toRt, toChild, group, slain, confused>>

(* SIGKILL from outside (an operator, the OOM killer).                     *)
SlayInter ==
  /\ inter \notin Gone
  /\ inter' = "dead" /\ slain' = TRUE
  /\ UNCHANGED <<config, rt, rtOwn, init, helper, wires, group, confused>>

SlayInit ==
  /\ init \notin Gone
  /\ InitGone /\ slain' = TRUE
  /\ UNCHANGED <<config, rt, rtOwn, inter, wires, cgroup, confused>>

-----------------------------------------------------------------------------
Next == RtStep \/ InterStep \/ InitStep \/ HelperExit \/ RtCrash \/ SlayInter \/ SlayInit

(* Every process is scheduled, hooks and killed processes end.  Nothing    *)
(* makes anybody crash or be killed from outside.                          *)
Fairness ==
  /\ WF_vars(RtStep) /\ WF_vars(InterStep) /\ WF_vars(InitStep) /\ WF_vars(HelperExit)

Spec == Init /\ [][Next]_vars /\ Fairness

-----------------------------------------------------------------------------
TypeOK ==
  /\ config \in Configs
  /\ rt \in {"mkdir", "plan", "cgroup", "limits", "fifo", "fork", "recvFirst", "map",
             "recvPid", "reap", "attach", "hooks", "recvReady", "save", "pidfile"}
            \cup Undoing \cup Final
  /\ inter \in {"prepare", "awaitMap", "fork", "report", "exiting"} \cup Gone
  /\ init \in {"awaitPlaced", "park", "parked", "exiting"} \cup Building \cup Gone
  /\ helper \in {"running"} \cup Gone
  /\ toRt \in Seq(Packets) /\ toChild \in Seq(Packets)
  /\ procs \subseteq {"init", "helper"}
  /\ snapshot \subseteq {"init", "helper"} /\ killed \subseteq {"init", "helper"}
  /\ files \subseteq {"dir", "fifo", "state"}
  /\ reason \in {"none", "local", "reported", "closed"}
  /\ open \in BOOLEAN /\ cgroup \in BOOLEAN /\ slain \in BOOLEAN
  /\ gaveUp \in BOOLEAN /\ confused \in BOOLEAN

(* No process works on the container from outside its cgroup: not the init *)
(* past CgroupApplied (it unshares the cgroup namespace there, so the      *)
(* namespace root is the container's cgroup) and not the hook it forks.    *)
PlacedBeforeWork ==
  /\ init \in Building \cup {"park", "parked"} => "init" \in procs
  /\ helper = "running" => "helper" \in procs

(* The children's end is shared, yet no packet is read by the wrong        *)
(* process and none arrives out of turn: Error::Sync is never returned.    *)
NeverConfused == ~confused

(* state.json is published, and create succeeds, only for an init that has *)
(* finished its set-up; it then finds its fifo, directory and cgroup.      *)
PublishedOnlyWhenReady ==
  rt \in {"save", "pidfile", "ok"} =>
    /\ init \in {"park", "parked", "exiting", "dead"}
    /\ {"dir", "fifo"} \subseteq files /\ cgroup

(* A create that returns an error leaves no file, no live process that is  *)
(* not doomed, and no cgroup unless a process outlived the bounded waits.  *)
ErrLeavesNothing ==
  rt = "err" =>
    /\ files = {}
    /\ procs \subseteq killed
    /\ ~gaveUp => ~cgroup /\ procs = {}

(* A child that fails on its own gets its reason through: create reports   *)
(* "closed" only when a child was killed from outside.                     *)
ClosedMeansKilled == reason = "closed" => slain

(* Once create has decided to fail, the init never begins to build.        *)
NoBuildAfterFailure ==
  [][(rt \in Undoing /\ init' \in Building) => init \in Building]_vars

(* The one way create can hang with hooks that end: the intermediate was   *)
(* killed after the fork of the init and before it reported it; the        *)
(* runtime and the init then wait for each other on the same socket.       *)
SilentFork ==
  /\ slain /\ inter = "dead" /\ init = "awaitPlaced"
  /\ toRt = <<>> /\ toChild = <<>> /\ rt \in {"recvFirst", "recvPid"}

(* create always returns, except in SilentFork.                            *)
CreateReturns == <>(rt \in Final \/ SilentFork)

(* After a failed create nothing of it keeps running.                      *)
ErrEndsEverything ==
  rt = "err" ~> (inter \in Gone /\ init \in Gone /\ helper # "running")

(* After the runtime is killed no child waits on the socket for ever: each *)
(* ends, except an init that had already been told to go on and parks.     *)
CrashSettles ==
  rt = "crashed" ~> (inter \in Gone /\ helper # "running" /\ init \in Gone \cup {"parked"})
=============================================================================
