------------------------------- MODULE Hooks -------------------------------
(***************************************************************************)
(* The hooks of one phase (src/container/hooks.rs: run, one): each is a    *)
(* process with three pipes.  The state of the container is written to its *)
(* stdin, then its deadline starts to run, then its end is awaited; its    *)
(* stdout and stderr are never read.                                       *)
(*                                                                         *)
(* A hook does what it likes: it reads its stdin or not, closes it, writes *)
(* more than a pipe holds, ends with a code of its own at any moment.      *)
(*                                                                         *)
(* Definitions commented "Slip" are mistakes the code could have made.     *)
(***************************************************************************)
EXTENDS Naturals, Sequences

CONSTANT Configs   (* records: phase, hooks (a sequence: does this one have*)
                   (* a positive timeout?), big (the state does not fit    *)
                   (* into a pipe; the annotations are part of it)         *)

Phases == {"prestart", "createRuntime", "createContainer", "startContainer",
           "poststart", "poststop"}

ASSUME ConfigsAssumption ==
  \A f \in Configs : f.phase \in Phases /\ f.hooks \in Seq(BOOLEAN) /\ f.big \in BOOLEAN

VARIABLES
  config,
  pc,       (* spawn, write, wait, ok or err                               *)
  at,       (* index of the current hook                                   *)
  due,      (* its deadline: off, armed or passed                          *)
  proc,     (* the process of each hook: none, runs, ended or reaped       *)
  code,     (* its exit code                                               *)
  stdin,    (* its stdin: open, read (to the end) or closed                *)
  stuck,    (* it waits for somebody to read its output                    *)
  result    (* what one returned: none, ok, exit, timeout, broken, spawn   *)

vars == <<config, pc, at, due, proc, code, stdin, stuck, result>>

All == DOMAIN config.hooks

IsFatal(phase) == phase \notin {"poststart", "poststop"}

Init ==
  /\ config \in Configs
  /\ pc = "spawn" /\ at = 1 /\ due = "off"
  /\ proc = [i \in All |-> "none"] /\ code = [i \in All |-> 0]
  /\ stdin = [i \in All |-> "closed"] /\ stuck = [i \in All |-> FALSE]
  /\ result = [i \in All |-> "none"]

-----------------------------------------------------------------------------
(* The runtime.                                                            *)

(* Slip: only hooks that could not be started stop a phase.                *)
StopsAtSpawn(outcome) == outcome = "spawn"

(* A failed hook ends the phase, unless its failures are only logged.      *)
Stops(outcome) == outcome # "ok" /\ IsFatal(config.phase)

(* Slip: the deadline of a hook is carried over to the next.               *)
ReturnKeepsDeadline(outcome) ==
  /\ result' = [result EXCEPT ![at] = outcome]
  /\ stuck' = [stuck EXCEPT ![at] = FALSE]
  /\ due' = due
  /\ IF Stops(outcome) THEN pc' = "err" /\ at' = at ELSE pc' = "spawn" /\ at' = at + 1

(* one returns to run: the pipes are dropped, a process that still runs is *)
(* neither killed nor reaped.                                              *)
Return(outcome) ==
  /\ result' = [result EXCEPT ![at] = outcome]
  /\ stuck' = [stuck EXCEPT ![at] = FALSE]
  /\ due' = "off"
  /\ IF Stops(outcome) THEN pc' = "err" /\ at' = at ELSE pc' = "spawn" /\ at' = at + 1

Spawn ==
  /\ pc = "spawn" /\ at \in All
  /\ \/ /\ proc' = [proc EXCEPT ![at] = "runs"]
        /\ stdin' = [stdin EXCEPT ![at] = "open"]
        /\ pc' = "write"
        /\ UNCHANGED <<at, due, stuck, result>>
     \/ Return("spawn") /\ UNCHANGED <<proc, stdin>>
  /\ UNCHANGED <<config, code>>

Finish ==
  /\ pc = "spawn" /\ at \notin All
  /\ pc' = "ok"
  /\ UNCHANGED <<config, at, due, proc, code, stdin, stuck, result>>

(* write_all: EPIPE when nobody can read any more; a state that fits into  *)
(* the pipe is written at once, a bigger one only when the hook reads it.  *)
(* Only then is the deadline computed.                                     *)
Write ==
  /\ pc = "write"
  /\ \/ stdin[at] = "closed" /\ Return("broken")
     \/ /\ stdin[at] = "read" \/ (stdin[at] = "open" /\ ~config.big)
        /\ pc' = "wait" /\ due' = IF config.hooks[at] THEN "armed" ELSE "off"
        /\ UNCHANGED <<at, stuck, result>>
  /\ UNCHANGED <<config, proc, code, stdin>>

(* wait, or try_wait with success.                                         *)
Reap ==
  /\ pc = "wait" /\ proc[at] = "ended"
  /\ proc' = [proc EXCEPT ![at] = "reaped"]
  /\ Return(IF code[at] = 0 THEN "ok" ELSE "exit")
  /\ UNCHANGED <<config, code, stdin>>

Tick ==
  /\ due = "armed" /\ due' = "passed"
  /\ UNCHANGED <<config, pc, at, proc, code, stdin, stuck, result>>

(* Slip: the hook is asked to end and awaited.                             *)
TimeOutPolitely ==
  /\ pc = "wait" /\ due = "passed" /\ proc[at] = "ended"
  /\ proc' = [proc EXCEPT ![at] = "reaped"]
  /\ Return("timeout")
  /\ UNCHANGED <<config, code, stdin>>

(* kill and wait.                                                          *)
TimeOut ==
  /\ pc = "wait" /\ due = "passed" /\ proc[at] = "runs"
  /\ proc' = [proc EXCEPT ![at] = "reaped"]
  /\ stdin' = [stdin EXCEPT ![at] = "closed"]
  /\ Return("timeout")
  /\ UNCHANGED <<config, code>>

-----------------------------------------------------------------------------
(* The hooks.                                                              *)

HookReads(i) ==
  /\ proc[i] = "runs" /\ ~stuck[i] /\ stdin[i] = "open" /\ pc = "write" /\ i = at
  /\ stdin' = [stdin EXCEPT ![i] = "read"]
  /\ UNCHANGED <<config, pc, at, due, proc, code, stuck, result>>

HookCloses(i) ==
  /\ proc[i] = "runs" /\ ~stuck[i] /\ stdin[i] # "closed"
  /\ stdin' = [stdin EXCEPT ![i] = "closed"]
  /\ UNCHANGED <<config, pc, at, due, proc, code, stuck, result>>

HookTalks(i) ==
  /\ proc[i] = "runs" /\ ~stuck[i] /\ result[i] = "none"
  /\ stuck' = [stuck EXCEPT ![i] = TRUE]
  /\ UNCHANGED <<config, pc, at, due, proc, code, stdin, result>>

HookEnds(i) ==
  /\ proc[i] = "runs" /\ ~stuck[i]
  /\ proc' = [proc EXCEPT ![i] = "ended"]
  /\ stdin' = [stdin EXCEPT ![i] = "closed"]
  /\ \E c \in {0, 1} : code' = [code EXCEPT ![i] = c]
  /\ UNCHANGED <<config, pc, at, due, stuck, result>>

-----------------------------------------------------------------------------
Runtime == Spawn \/ Finish \/ Write \/ Reap \/ TimeOut

Hook(i) == HookReads(i) \/ HookCloses(i) \/ HookTalks(i) \/ HookEnds(i)

Next == Runtime \/ Tick \/ \E i \in All : Hook(i)

(* The runtime is scheduled and time passes; of the hooks nothing is       *)
(* assumed.                                                                *)
Spec == Init /\ [][Next]_vars /\ WF_vars(Runtime) /\ WF_vars(Tick)

-----------------------------------------------------------------------------
(* Types; a deadline runs only while the end of its hook is awaited.       *)
TypeOK ==
  /\ due # "off" => pc = "wait" /\ config.hooks[at]
  /\ config \in Configs /\ at \in 1 .. Len(config.hooks) + 1
  /\ pc \in {"spawn", "write", "wait", "ok", "err"} /\ due \in {"off", "armed", "passed"}
  /\ proc \in [All -> {"none", "runs", "ended", "reaped"}] /\ code \in [All -> {0, 1}]
  /\ stdin \in [All -> {"open", "read", "closed"}] /\ stuck \in [All -> BOOLEAN]
  /\ result \in [All -> {"none", "ok", "exit", "timeout", "broken", "spawn"}]

Failed(i) == result[i] \notin {"none", "ok"}

(* When a hook has been dealt with, its process is gone, killed if need be,*)
(* unless it stopped reading before it had the state; so hooks run one     *)
(* after the other.  A phase that is fatal stops at the first failure, the *)
(* others run every hook (hooks.rs: run, one).                             *)
OneByOne ==
  /\ \A i \in All : result[i] \in {"ok", "exit", "timeout"} => proc[i] = "reaped"
  /\ \A i \in All : (i > at \/ pc = "spawn") /\ i >= at => proc[i] = "none"
  /\ IsFatal(config.phase) => \A i \in All : Failed(i) => pc = "err" /\ i = at
  /\ pc = "err" => IsFatal(config.phase) /\ Failed(at)
  /\ pc = "ok" => \A i \in All : result[i] # "none"

Done == pc \in {"ok", "err"}

(* Hooks with timeouts cannot keep a command from ending, whatever they do *)
(* or omit, as long as the state fits into the pipe (hooks.rs: one).       *)
TimeoutsHold == (~config.big /\ \A i \in All : config.hooks[i]) => <>Done

(* A hook that succeeds is not an error (hooks.rs:                         *)
(* a_hook_that_succeeds_is_not_an_error).                                  *)
SuccessIsNoError ==
  \A i \in All : proc[i] \in {"ended", "reaped"} /\ code[i] = 0 => result[i] # "broken"
=============================================================================
