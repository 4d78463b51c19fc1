----------------------------- MODULE Supervise -----------------------------
(***************************************************************************)
(* `mars run` after its preparations: signals are blocked before anything  *)
(* is forked, taken with sigwait, forwarded to the container init, and     *)
(* SIGCHLD answered by reaping until the init itself is found              *)
(* (src/container/signal.rs, run in src/container/mod.rs).                 *)
(*                                                                         *)
(* The runtime is a subreaper: it is the parent of the init and, in a      *)
(* container without a pid namespace of its own, of every process whose    *)
(* parent in the container has died.  A pending signal is a member of a    *)
(* set: a second SIGCHLD is merged into the first.  A blocked signal stays *)
(* pending; one that is not blocked has its default effect at once (the    *)
(* runtime dies, except of SIGCHLD, which is dropped).                     *)
(*                                                                         *)
(* What create and release do inside is the subject of Handshake and       *)
(* ExecFifo: here each is one step.  Definitions commented "Slip" are      *)
(* mistakes the code could have made.                                      *)
(***************************************************************************)

CONSTANTS
  FORWARDED,  (* the signals the runtime passes on                         *)
  Orphans     (* the container's other processes the runtime may adopt     *)

ASSUME SignalsAssumption == "SIGCHLD" \notin FORWARDED

VARIABLES
  pidNs,      (* the init is pid 1 of a namespace of its own               *)
  detach,     (* `mars run --detach`                                       *)
  rt,         (* where the runtime is in run and supervise                 *)
  blocked,    (* its signal mask holds FORWARDED and SIGCHLD               *)
  pending,    (* signals pending at the runtime                            *)
  sent,       (* the signals sent to it so far: each is sent once          *)
  init,       (* the container init                                        *)
  initSigs,   (* signals pending at the init while its mask blocks them    *)
  seen,       (* signals that have had their effect on the init            *)
  status,     (* how the init ended                                        *)
  orphan,     (* the other processes                                       *)
  outcome,    (* what supervise returned                                   *)
  stray       (* a signal was sent to the init's pid after it was reaped   *)

vars == <<pidNs, detach, rt, blocked, pending, sent, init, initSigs, seen, status,
          orphan, outcome, stray>>

Ended == {"done", "failed", "killed"}

Init ==
  /\ pidNs \in BOOLEAN /\ detach \in BOOLEAN
  /\ rt = "start" /\ blocked = FALSE
  /\ pending = {} /\ sent = {}
  /\ init = "none" /\ initSigs = {} /\ seen = {} /\ status = "none"
  /\ orphan = [o \in Orphans |-> "none"]
  /\ outcome = "none" /\ stray = FALSE

-----------------------------------------------------------------------------
(* The runtime.                                                            *)

(* Slip: SIGCHLD is not in the blocked set.                                *)
RaiseChildUnblocked == pending' = pending

(* A child of the runtime has changed state.                               *)
RaiseChild == pending' = IF blocked THEN pending \cup {"SIGCHLD"} ELSE pending

(* block_forwardable comes before anything is forked.                      *)
Block ==
  /\ rt = "start"
  /\ rt' = "create" /\ blocked' = TRUE
  /\ UNCHANGED <<pidNs, detach, pending, sent, init, initSigs, seen, status, orphan, outcome, stray>>

(* create: on success the init is parked and a child of the runtime, the   *)
(* intermediate having been reaped by name.                                *)
Create ==
  /\ rt = "create"
  /\ \/ rt' = "release" /\ init' = "parked" /\ RaiseChild
     \/ rt' = "failed" /\ UNCHANGED <<init, pending>>
  /\ UNCHANGED <<pidNs, detach, blocked, sent, initSigs, seen, status, orphan, outcome, stray>>

(* fifo::release; of an init that has died it fails or never returns.      *)
Release ==
  /\ rt = "release"
  /\ \/ init = "parked" /\ init' = "released" /\ rt' = "poststart"
     \/ init # "parked" /\ init' = init /\ rt' \in {"failed", "stuck"}
  /\ UNCHANGED <<pidNs, detach, blocked, pending, sent, initSigs, seen, status, orphan,
                 outcome, stray>>

(* The hooks are waited for by name; the SIGCHLD of each stays pending.    *)
Poststart ==
  /\ rt = "poststart"
  /\ rt' = IF detach THEN "done" ELSE "wait"
  /\ RaiseChild
  /\ UNCHANGED <<pidNs, detach, blocked, sent, init, initSigs, seen, status, orphan, outcome, stray>>

(* kill(init, s): pending while the init's inherited mask blocks it; the   *)
(* init is a zombie until supervise itself reaps it.                       *)
Deliver(s) ==
  /\ initSigs' = IF init \in {"parked", "released"} THEN initSigs \cup {s} ELSE initSigs
  /\ seen' = IF init = "program" THEN seen \cup {s} ELSE seen
  /\ stray' = (stray \/ init = "reaped")

(* Slip: the signal is swallowed.                                          *)
ForwardDropped ==
  /\ rt = "wait"
  /\ \E s \in pending \ {"SIGCHLD"} : pending' = pending \ {s}
  /\ UNCHANGED <<pidNs, detach, rt, blocked, sent, init, initSigs, seen, status, orphan,
                 outcome, stray>>

(* Slip: SIGCHLD is passed on like the others.                             *)
ForwardAll ==
  /\ rt = "wait"
  /\ \E s \in pending : pending' = pending \ {s} /\ Deliver(s)
  /\ UNCHANGED <<pidNs, detach, rt, blocked, sent, init, status, orphan, outcome>>

(* sigwait takes one of the pending signals.                               *)
Forward ==
  /\ rt = "wait"
  /\ \E s \in pending \ {"SIGCHLD"} : pending' = pending \ {s} /\ Deliver(s)
  /\ UNCHANGED <<pidNs, detach, rt, blocked, sent, init, status, orphan, outcome>>

ChildChanged ==
  /\ rt = "wait"
  /\ "SIGCHLD" \in pending
  /\ pending' = pending \ {"SIGCHLD"}
  /\ rt' = "drain"
  /\ UNCHANGED <<pidNs, detach, blocked, sent, init, initSigs, seen, status, orphan,
                 outcome, stray>>

(* waitpid returns the init: its status is the outcome, at once.           *)
ReapInit ==
  /\ rt = "drain" /\ init = "zombie"
  /\ init' = "reaped" /\ outcome' = status
  /\ rt' = "cleanup"
  /\ UNCHANGED <<pidNs, detach, blocked, pending, sent, initSigs, seen, status, orphan, stray>>

(* Slip: whoever is reaped ends the wait.                                  *)
ReapAnyReturns(o) ==
  /\ rt = "drain" /\ orphan[o] = "zombie"
  /\ orphan' = [orphan EXCEPT ![o] = "reaped"]
  /\ rt' = "cleanup" /\ outcome' = "exit"
  /\ UNCHANGED <<pidNs, detach, blocked, pending, sent, init, initSigs, seen, status, stray>>

(* Slip: one child is reaped for each SIGCHLD.                             *)
ReapOneOnly(o) ==
  /\ rt = "drain" /\ orphan[o] = "zombie"
  /\ orphan' = [orphan EXCEPT ![o] = "reaped"]
  /\ rt' = "wait"
  /\ UNCHANGED <<pidNs, detach, blocked, pending, sent, init, initSigs, seen, status,
                 outcome, stray>>

(* waitpid returns somebody else: go on reaping.                           *)
ReapOrphan(o) ==
  /\ rt = "drain" /\ orphan[o] = "zombie"
  /\ orphan' = [orphan EXCEPT ![o] = "reaped"]
  /\ UNCHANGED <<pidNs, detach, rt, blocked, pending, sent, init, initSigs, seen, status,
                 outcome, stray>>

(* StillAlive or ECHILD.                                                   *)
Drained ==
  /\ rt = "drain"
  /\ init # "zombie" /\ \A o \in Orphans : orphan[o] # "zombie"
  /\ rt' = "wait"
  /\ UNCHANGED <<pidNs, detach, blocked, pending, sent, init, initSigs, seen, status, orphan,
                 outcome, stray>>

(* Poststop hooks, Cgroup::destroy, Container::remove.                     *)
Cleanup ==
  /\ rt = "cleanup"
  /\ rt' = "done"
  /\ UNCHANGED <<pidNs, detach, blocked, pending, sent, init, initSigs, seen, status, orphan,
                 outcome, stray>>

RtStep ==
  \/ Block \/ Create \/ Release \/ Poststart
  \/ Forward \/ ChildChanged \/ ReapInit \/ Drained \/ Cleanup
  \/ \E o \in Orphans : ReapOrphan(o)

-----------------------------------------------------------------------------
(* The container and the outside world.                                    *)

(* unblock_all, then execve.  What was pending takes effect in between: it *)
(* ends the init, which has no handlers, unless it is pid 1 of a namespace,*)
(* for which the kernel discards it.                                       *)
InitUnblock ==
  /\ init = "released"
  /\ initSigs' = {}
  /\ \/ /\ initSigs = {} \/ pidNs
        /\ init' = "program"
        /\ UNCHANGED <<seen, status, pending>>
     \/ /\ initSigs # {} /\ ~pidNs
        /\ init' = "zombie" /\ status' = "signal"
        /\ seen' = seen \cup initSigs /\ RaiseChild
  /\ UNCHANGED <<pidNs, detach, rt, blocked, sent, orphan, outcome, stray>>

(* The init fails, ends, or is killed.                                     *)
InitEnds ==
  /\ init \in {"parked", "released", "program"}
  /\ init' = "zombie" /\ status' \in {"exit", "signal"}
  /\ RaiseChild
  /\ UNCHANGED <<pidNs, detach, rt, blocked, sent, initSigs, seen, orphan, outcome, stray>>

(* A process of the container loses its parent and is adopted.             *)
Adopt(o) ==
  /\ ~pidNs /\ init \in {"program", "zombie"} /\ rt \notin Ended
  /\ orphan[o] = "none"
  /\ orphan' = [orphan EXCEPT ![o] = "running"]
  /\ UNCHANGED <<pidNs, detach, rt, blocked, pending, sent, init, initSigs, seen, status,
                 outcome, stray>>

OrphanEnds(o) ==
  /\ orphan[o] = "running"
  /\ orphan' = [orphan EXCEPT ![o] = "zombie"]
  /\ RaiseChild
  /\ UNCHANGED <<pidNs, detach, rt, blocked, sent, init, initSigs, seen, status, outcome, stray>>

(* Somebody sends the runtime a signal; without the mask it dies of it.    *)
Send(s) ==
  /\ rt \notin Ended /\ s \notin sent
  /\ sent' = sent \cup {s}
  /\ \/ blocked /\ pending' = pending \cup {s} /\ rt' = rt
     \/ ~blocked /\ rt' = "killed" /\ pending' = pending
  /\ UNCHANGED <<pidNs, detach, blocked, init, initSigs, seen, status, orphan, outcome, stray>>

(* SIGKILL of the runtime.                                                 *)
RtKilled ==
  /\ rt \notin Ended
  /\ rt' = "killed"
  /\ UNCHANGED <<pidNs, detach, blocked, pending, sent, init, initSigs, seen, status, orphan,
                 outcome, stray>>

-----------------------------------------------------------------------------
Next ==
  \/ RtStep \/ InitUnblock \/ InitEnds \/ RtKilled
  \/ \E o \in Orphans : Adopt(o) \/ OrphanEnds(o)
  \/ \E s \in FORWARDED : Send(s)

(* The runtime and the init are scheduled and hooks end; no process of the *)
(* container has to end.                                                   *)
Fairness == WF_vars(RtStep) /\ WF_vars(InitUnblock)

Spec == Init /\ [][Next]_vars /\ Fairness

-----------------------------------------------------------------------------
TypeOK ==
  /\ pidNs \in BOOLEAN /\ detach \in BOOLEAN /\ blocked \in BOOLEAN /\ stray \in BOOLEAN
  /\ rt \in {"start", "create", "release", "poststart", "wait", "drain", "cleanup", "stuck"}
            \cup Ended
  /\ pending \subseteq FORWARDED \cup {"SIGCHLD"}
  /\ sent \subseteq FORWARDED /\ initSigs \subseteq FORWARDED /\ seen \subseteq FORWARDED
  /\ init \in {"none", "parked", "released", "program", "zombie", "reaped"}
  /\ status \in {"none", "exit", "signal"} /\ outcome \in {"none", "exit", "signal"}
  /\ orphan \in [Orphans -> {"none", "running", "zombie", "reaped"}]

(* The exit code of run is the init's and nobody else's, and run only      *)
(* cleans up after a container whose init has been reaped.                 *)
InitsOutcome ==
  /\ outcome # "none" => init = "reaped" /\ outcome = status
  /\ rt = "cleanup" => init = "reaped"

(* A signal is forwarded to the init or to its zombie, never to a process  *)
(* that got its pid after it was reaped.                                   *)
NeverStray == ~stray

Supervising == rt \in {"poststart", "wait", "drain"}

(* docs/01-isolation.md: no SIGCHLD is lost, also not one that comes       *)
(* before the wait: run returns once the init has ended, however its death *)
(* mixes with other children's and with signals to be forwarded.           *)
ReturnsWhenInitEnds == Supervising /\ init = "zombie" ~> rt \in Ended

(* A signal sent to run, even while it was still creating the container,   *)
(* reaches the init (or its pending set, before execve), unless the init   *)
(* or the runtime ends first.                                              *)
SignalsArrive ==
  \A s \in FORWARDED :
    s \in pending /\ Supervising /\ ~detach ~>
      s \in seen \cup initSigs \/ init \in {"zombie", "reaped"} \/ rt \in Ended

(* The zombies of adopted processes do not pile up while the container     *)
(* runs.                                                                   *)
OrphansReaped ==
  \A o \in Orphans :
    orphan[o] = "zombie" /\ Supervising /\ ~detach ~> orphan[o] = "reaped" \/ rt \in Ended
=============================================================================
