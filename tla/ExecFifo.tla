------------------------------ MODULE ExecFifo ------------------------------
(***************************************************************************)
(* Parking and releasing the container init over exec.fifo                 *)
(* (src/container/fifo.rs), from the moment the init has sent InitReady.   *)
(*                                                                         *)
(* The init opens the fifo for writing, which blocks until somebody opens  *)
(* it for reading, writes one byte and goes on to the startContainer hooks *)
(* and execve.  `mars start` opens it for reading, takes the byte and      *)
(* unlinks the fifo.  `mars run` does the same from inside the process     *)
(* that created the container, without asking for its status first.        *)
(*                                                                         *)
(* The fifo is the kernel's: an opener counts from the moment it calls     *)
(* open, even while it blocks there; a blocked opener returns once an      *)
(* opener of the other kind has arrived, even if that one is gone again;   *)
(* a read returns 0 when the pipe is empty and has no writer; a write      *)
(* without a reader fails; what is in the pipe is lost when nobody has it  *)
(* open.  The O_PATH handle of create counts as no opener.                 *)
(*                                                                         *)
(* Definitions commented "Slip" are mistakes the code could have made.     *)
(***************************************************************************)
EXTENDS Naturals, FiniteSets

CONSTANTS
  Starters,   (* the processes that try to start the container            *)
  Runners     (* those of them that are `mars run`                        *)

ASSUME StartersAssumption == Runners \subseteq Starters

VARIABLES
  init,       (* where the container init is                              *)
  initWoken,  (* a reader has arrived since the init called open          *)
  linked,     (* exec.fifo has its name in the state directory            *)
  bytes,      (* bytes in the pipe                                        *)
  pc,         (* where each starter is in release                         *)
  woken,      (* a writer has arrived since the starter called open       *)
  verdict,    (* what release returned                                    *)
  wrote,      (* history: the init has announced itself on the fifo       *)
  opened      (* history: the starters that have opened the fifo          *)

vars == <<init, initWoken, linked, bytes, pc, woken, verdict, wrote, opened>>

Ended == {"done", "failed", "crashed"}

Init ==
  /\ init = "ready" /\ initWoken = FALSE
  /\ linked = TRUE /\ bytes = 0
  /\ pc = [s \in Starters |-> "idle"]
  /\ woken = [s \in Starters |-> FALSE]
  /\ verdict = [s \in Starters |-> "none"]
  /\ wrote = FALSE /\ opened = {}

-----------------------------------------------------------------------------
(* Slip: create opens the fifo O_RDONLY instead of O_PATH.                 *)
ReadersWithCreate(p) == {s \in Starters : p[s] \in {"opening", "reading", "unlink"}} \cup {"create"}

(* Who counts as a reader of the pipe, given the places of the starters.   *)
Readers(p) == {s \in Starters : p[s] \in {"opening", "reading", "unlink"}}

Writer(i) == i \in {"opening", "writing"}

(* The pipe keeps its bytes while somebody has it open.                    *)
Kept(n, i, p) == IF Writer(i) \/ Readers(p) # {} THEN n ELSE 0

Goto(s, to) == pc' = [pc EXCEPT ![s] = to]
Return(s, end, v) == Goto(s, end) /\ verdict' = [verdict EXCEPT ![s] = v]

-----------------------------------------------------------------------------
(* The container init: fifo::park, the startContainer hooks, execve.       *)

ParkOpen ==
  /\ init = "ready"
  /\ init' = IF Readers(pc) # {} THEN "writing" ELSE "opening"
  /\ woken' = [s \in Starters |-> woken[s] \/ pc[s] = "opening"]
  /\ UNCHANGED <<initWoken, linked, bytes, pc, verdict, wrote, opened>>

ParkOpened ==
  /\ init = "opening" /\ initWoken
  /\ init' = "writing"
  /\ UNCHANGED <<initWoken, linked, bytes, pc, woken, verdict, wrote, opened>>

(* Slip: the byte is announced twice.                                      *)
AnnouncedTwice == bytes + 2

Announced == bytes + 1

(* The write fails when the reader that woke the init is gone again; then  *)
(* container_init fails and the init exits.  Either way the end is closed. *)
ParkWrite ==
  /\ init = "writing"
  /\ \/ /\ Readers(pc) # {}
        /\ init' = "hooks" /\ wrote' = TRUE /\ bytes' = Announced
     \/ /\ Readers(pc) = {}
        /\ init' = "dead" /\ bytes' = 0 /\ wrote' = wrote
  /\ UNCHANGED <<initWoken, linked, pc, woken, verdict, opened>>

(* startContainer hooks, unblock_all, execve.                              *)
InitExec ==
  /\ init = "hooks"
  /\ init' = "program"
  /\ UNCHANGED <<initWoken, linked, bytes, pc, woken, verdict, wrote, opened>>

(* The init is killed, fails (it cannot reopen the fifo, a hook fails) or, *)
(* as the program, ends.                                                   *)
InitDies ==
  /\ init # "dead"
  /\ init' = "dead"
  /\ bytes' = Kept(bytes, "dead", pc)
  /\ UNCHANGED <<initWoken, linked, pc, woken, verdict, wrote, opened>>

-----------------------------------------------------------------------------
(* A starter: start (or the end of run), then fifo::release.               *)

(* What lets a starter go on: its status must be Created, that is, the     *)
(* init alive and the fifo present; run only looks for the fifo.           *)
MayRelease(s) == linked /\ (s \in Runners \/ init # "dead")

Check(s) ==
  /\ pc[s] = "idle"
  /\ \/ MayRelease(s) /\ Goto(s, "checked") /\ verdict' = verdict
     \/ ~MayRelease(s) /\ Return(s, "failed", "notCreated")
  /\ UNCHANGED <<init, initWoken, linked, bytes, woken, wrote, opened>>

(* Slip: the init reopens a fifo other than the one start opens.           *)
WakesInitElsewhere == FALSE

WakesInit == init = "opening"

(* open(O_RDONLY): fails without a name, else counts as a reader at once.  *)
Open(s) ==
  /\ pc[s] = "checked"
  /\ \/ /\ linked
        /\ Goto(s, IF Writer(init) THEN "reading" ELSE "opening")
        /\ initWoken' = (initWoken \/ WakesInit)
        /\ opened' = opened \cup {s}
        /\ verdict' = verdict
     \/ /\ ~linked
        /\ Return(s, "failed", "gone")
        /\ UNCHANGED <<initWoken, opened>>
  /\ UNCHANGED <<init, linked, bytes, woken, wrote>>

Opened(s) ==
  /\ pc[s] = "opening" /\ woken[s]
  /\ Goto(s, "reading")
  /\ UNCHANGED <<init, initWoken, linked, bytes, woken, verdict, wrote, opened>>

(* Slip: an empty read is taken for the byte.                              *)
ReadUnchecked(s) ==
  /\ pc[s] = "reading"
  /\ bytes > 0 \/ ~Writer(init)
  /\ Goto(s, "unlink")
  /\ bytes' = 0
  /\ UNCHANGED <<init, initWoken, linked, woken, verdict, wrote, opened>>

(* Slip: a release that fails unlinks the fifo as well.                    *)
ReadUnlinks(s) ==
  /\ pc[s] = "reading"
  /\ \/ bytes > 0 /\ bytes' = bytes - 1 /\ Goto(s, "unlink") /\ UNCHANGED <<linked, verdict>>
     \/ bytes = 0 /\ ~Writer(init) /\ Return(s, "failed", "died") /\ linked' = FALSE /\ bytes' = bytes
  /\ UNCHANGED <<init, initWoken, woken, wrote, opened>>

(* read blocks while the pipe is empty and has a writer; 0 bytes mean, to  *)
(* release, that the init "died between create and start".                 *)
Read(s) ==
  /\ pc[s] = "reading"
  /\ \/ bytes > 0 /\ bytes' = bytes - 1 /\ Goto(s, "unlink") /\ verdict' = verdict
     \/ bytes = 0 /\ ~Writer(init) /\ bytes' = bytes /\ Return(s, "failed", "died")
  /\ UNCHANGED <<init, initWoken, linked, woken, wrote, opened>>

(* remove_file, then release returns and closes its end.                   *)
Unlink(s) ==
  /\ pc[s] = "unlink"
  /\ \/ linked /\ linked' = FALSE /\ Goto(s, "poststart") /\ verdict' = verdict
     \/ ~linked /\ linked' = linked /\ Return(s, "failed", "gone")
  /\ bytes' = Kept(bytes, init, pc')
  /\ UNCHANGED <<init, initWoken, woken, wrote, opened>>

(* poststart hooks: a failure is only logged.                              *)
Poststart(s) ==
  /\ pc[s] = "poststart"
  /\ Return(s, "done", "ok")
  /\ UNCHANGED <<init, initWoken, linked, bytes, woken, wrote, opened>>

(* A starter is killed; the kernel closes what it has open.                *)
Crash(s) ==
  /\ pc[s] \notin Ended
  /\ Return(s, "crashed", "none")
  /\ bytes' = Kept(bytes, init, pc')
  /\ UNCHANGED <<init, initWoken, linked, woken, wrote, opened>>

-----------------------------------------------------------------------------
InitStep == ParkOpen \/ ParkOpened \/ ParkWrite \/ InitExec
StarterStep(s) ==
  Check(s) \/ Open(s) \/ Opened(s) \/ Read(s) \/ Unlink(s) \/ Poststart(s)

Next ==
  \/ InitStep \/ InitDies
  \/ \E s \in Starters : StarterStep(s) \/ Crash(s)

(* Everybody is scheduled and hooks end; nobody has to die or crash.       *)
Fairness == WF_vars(InitStep) /\ \A s \in Starters : WF_vars(StarterStep(s))

Spec == Init /\ [][Next]_vars /\ Fairness

-----------------------------------------------------------------------------
(* Types; among them that the pipe never holds more than the one byte.     *)
TypeOK ==
  /\ init \in {"ready", "opening", "writing", "hooks", "program", "dead"}
  /\ bytes \in {0, 1}
  /\ pc \in [Starters -> {"idle", "checked", "opening", "reading", "unlink", "poststart"}
                         \cup Ended]
  /\ woken \in [Starters -> BOOLEAN]
  /\ verdict \in [Starters -> {"none", "ok", "notCreated", "gone", "died"}]
  /\ opened \subseteq Starters
  /\ initWoken \in BOOLEAN /\ linked \in BOOLEAN /\ wrote \in BOOLEAN

(* The container's program never runs, nor its startContainer hooks,       *)
(* before somebody asked for it by opening the fifo for reading.           *)
NotBeforeStart == init \in {"hooks", "program"} => opened # {}

Released(s) == pc[s] \in {"unlink", "poststart", "done"}

(* However many starters race, at most one of them is told it started the  *)
(* container, so the poststart hooks run at most once.                     *)
OneRelease == \A s, t \in Starters : Released(s) /\ Released(t) => s = t

(* A start that succeeds has really released the init, and no later start  *)
(* can pass its check.                                                     *)
OkMeansReleased ==
  \A s \in Starters : pc[s] \in {"poststart", "done"} => wrote /\ ~linked

(* The release is lost only with a starter that was killed: otherwise the  *)
(* byte is still in the pipe or its taker is on its way to success.        *)
NoLostRelease ==
  wrote /\ (\A s \in Starters : pc[s] # "crashed") =>
    bytes = 1 \/ \E s \in Starters : Released(s)

(* A starter that found the container created gets the init out of its     *)
(* park, unless one of the two is killed.                                  *)
ReleaseHappens ==
  \A s \in Starters :
    pc[s] = "checked" ~> (init \notin {"ready", "opening", "writing"} \/ pc[s] = "crashed")

(* docs/04-lifecycle.md: an init that dies between create and start makes  *)
(* the start return.  (Checked to fail: a start whose open comes after the *)
(* death has no writer to wait for and blocks for ever.)                   *)
StartReturns == \A s \in Starters : pc[s] = "opening" ~> pc[s] # "opening"

(* fifo.rs: an empty read means the init "died between create and start".  *)
(* (Checked to fail: the loser of two racing starts reads it too.)         *)
DiedMeansDied == \A s \in Starters : verdict[s] = "died" => ~wrote
=============================================================================
