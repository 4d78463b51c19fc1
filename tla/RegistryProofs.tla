--------------------------- MODULE RegistryProofs ---------------------------
(***************************************************************************)
(* Theorems about Registry, for any number of commands, pids and births.   *)
(*                                                                         *)
(* TypeOK and AimsAtOurs are inductive together.  Accounted and the        *)
(* refinement of OciLifecycle need the caller's discipline (Serial) and    *)
(* the invariant Ordered below: what each command knows of the container   *)
(* it works on, at each place of its program.                              *)
(***************************************************************************)
EXTENDS Registry, SequenceTheorems, TLAPS

(* TypeOK in parts, after what a step can disturb.                         *)
TProc ==
  /\ proc \in Seq([pid : Pids, init : Nat])
  /\ \A b \in Births : proc[b].init \in 0..b
  /\ live \subseteq Births /\ zombies \subseteq Births /\ live \cap zombies = {}
  /\ doomed \subseteq Births /\ released \subseteq Births /\ lost \subseteq Births
  /\ \A b, d \in Present : proc[b].pid = proc[d].pid => b = d

TFiles ==
  /\ pidNs \in BOOLEAN /\ cgroup \in BOOLEAN
  /\ state \in 0..Len(proc) /\ fifo \in 0..Len(proc)

TCmds ==
  /\ pc \in [Cmds -> {"idle", "send", "read", "killAll", "wait", "destroy", "remove"}
                     \cup Creating \cup Running]
  /\ mine \in [Cmds -> 0..Len(proc)] /\ seen \in [Cmds -> 0..Len(proc)]
  /\ snap \in [Cmds -> SUBSET Pids] /\ runner \subseteq Cmds
  /\ \A c \in Cmds : mine[c] # 0 \/ pc[c] \in {"idle"} \cup (Creating \ {"save", "pidfile"})

(* TypeOK is the conjunction of its parts.                                 *)
LEMMA TypeParts == TypeOK <=> TProc /\ TFiles /\ TCmds
BY DEF TypeOK, TProc, TFiles, TCmds

(* A birth adds one process at the end, and changes none.                  *)
LEMMA BornFacts ==
  ASSUME TProc, NEW p, NEW i \in 0..(Len(proc) + 1), Born(p, i)
  PROVE  /\ p \in Pids /\ Len(proc) \in Nat
         /\ Len(proc') = Len(proc) + 1
         /\ \A b \in Births : proc'[b] = proc[b]
         /\ proc'[Len(proc) + 1] = [pid |-> p, init |-> i]
         /\ live' = live \cup {Len(proc) + 1} /\ zombies' = zombies
         /\ doomed' = doomed /\ released' = released
         /\ TProc' \/ lost' # lost
<1> DEFINE new == [pid |-> p, init |-> i]
<1>1. p \in Pids /\ Len(proc) \in Nat /\ new \in [pid : Pids, init : Nat]
  BY DEF Born, TProc
<1>2. proc' = Append(proc, new)  BY DEF Born
<1>3. /\ proc' \in Seq([pid : Pids, init : Nat])
      /\ Len(proc') = Len(proc) + 1
      /\ \A b \in Births : proc'[b] = proc[b]
      /\ proc'[Len(proc) + 1] = new
  BY <1>1, <1>2 DEF TProc, Births
<1>4. /\ live' = live \cup {Len(proc) + 1} /\ zombies' = zombies
      /\ doomed' = doomed /\ released' = released
  BY DEF Born
<1>5. ASSUME lost' = lost PROVE TProc'
  <2>1. \A b \in Births' : b \in Births \/ b = Len(proc) + 1
    BY <1>1, <1>3 DEF Births
  <2>2. Births \subseteq Births'  BY <1>1, <1>3 DEF Births
  <2>3. Len(proc) + 1 \in Births' /\ Len(proc) + 1 \notin Births  BY <1>1, <1>3 DEF Births
  <2>4. \A b \in Births' : proc'[b].init \in 0..b
    BY <2>1, <1>3, <1>1 DEF TProc
  <2>5. \A b, d \in Present' : proc'[b].pid = proc'[d].pid => b = d
    <3>1. \A b \in Present : proc[b].pid # p
      BY DEF Born, At
    <3>2. \A b \in Present' : b \in Present \/ b = Len(proc) + 1
      BY <1>4 DEF Present
    <3>3. \A b \in Present : b \in Births  BY DEF Present, TProc
    <3>4. proc'[Len(proc) + 1].pid = p  BY <1>3
    <3>5. \A b \in Present : proc'[b] = proc[b]  BY <3>3, <1>3
    <3>6. ASSUME NEW b \in Present', NEW d \in Present', proc'[b].pid = proc'[d].pid
          PROVE  b = d
      <4>1. CASE b \in Present /\ d \in Present
        <5>1. proc[b].pid = proc[d].pid  BY <3>5, <3>6, <4>1
        <5> QED BY <5>1, <4>1 DEF TProc
      <4>2. CASE b \in Present /\ d = Len(proc) + 1
        <5>1. proc[b].pid = p  BY <3>4, <3>5, <3>6, <4>2
        <5> QED BY <5>1, <3>1, <4>2
      <4>3. CASE b = Len(proc) + 1 /\ d \in Present
        <5>1. proc[d].pid = p  BY <3>4, <3>5, <3>6, <4>3
        <5> QED BY <5>1, <3>1, <4>3
      <4> QED BY <3>2, <3>6, <4>1, <4>2, <4>3
    <3> QED BY <3>6
  <2> QED BY <1>3, <1>4, <1>5, <2>2, <2>3, <2>4, <2>5 DEF TProc
<1> QED BY <1>1, <1>3, <1>4, <1>5

(* What the commands keep true of themselves when processes are born.      *)
LEMMA CmdsKept ==
  ASSUME TFiles, TCmds, Len(proc) \in Nat, Len(proc') \in Nat, Len(proc') >= Len(proc)
  PROVE  /\ UNCHANGED <<pidNs, fileVars>> => TFiles'
         /\ UNCHANGED <<pc, cmdVars>> => TCmds'
<1>1. 0..Len(proc) \subseteq 0..Len(proc')  OBVIOUS
<1>2. ASSUME UNCHANGED <<pidNs, fileVars>> PROVE TFiles'
  BY <1>1, <1>2 DEF TFiles, fileVars
<1>3. ASSUME UNCHANGED <<pc, cmdVars>> PROVE TCmds'
  BY <1>1, <1>3 DEF TCmds, cmdVars
<1> QED BY <1>2, <1>3

-----------------------------------------------------------------------------
(* How a command moves.                                                    *)

(* Places and what a command remembers, at its end and at a plain step.    *)
LEMMA EndTypes ==
  ASSUME TCmds, Len(proc) \in Nat, NEW c \in Cmds, End(c), proc' = proc
  PROVE  TCmds'
BY DEF TCmds, End, Goto, Creating, Running

LEMMA StepTypes ==
  ASSUME TCmds, Len(proc) \in Nat, NEW c \in Cmds, NEW to, Step(c, to), proc' = proc,
         to \in {"idle", "send", "read", "killAll", "wait", "destroy", "remove"}
                \cup Creating \cup Running,
         mine[c] # 0 \/ to \in {"idle"} \cup (Creating \ {"save", "pidfile"})
  PROVE  TCmds'
BY DEF TCmds, Step, cmdVars, Goto, Creating, Running

LEMMA LoadTypes ==
  ASSUME TCmds, TFiles, Len(proc) \in Nat, NEW c \in Cmds, NEW to, Load(c, to), proc' = proc,
         to \in {"send", "read", "destroy", "release"}
  PROVE  TCmds'
BY DEF TCmds, TFiles, Load, Goto, Creating, Running

(* Sets of processes may shrink, and the doomed and released grow.         *)
LEMMA ProcKept ==
  ASSUME TProc, proc' = proc, live' \subseteq live, zombies' \subseteq zombies \cup (live \ live'),
         doomed' \subseteq Births, released' \subseteq Births, lost' \subseteq Births
  PROVE  TProc'
BY DEF TProc, Present, Births

-----------------------------------------------------------------------------
(* Type correctness.                                                       *)

(* Every action keeps TypeOK.                                              *)
LEMMA TypeStep == TypeOK /\ [Next]_vars => TypeOK'
<1> SUFFICES ASSUME TProc, TFiles, TCmds, [Next]_vars PROVE TProc' /\ TFiles' /\ TCmds'
  BY TypeParts DEF TypeOK, TProc, TFiles, TCmds
<1>n. Len(proc) \in Nat /\ Births \subseteq 1..Len(proc)  BY DEF TProc, Births
<1>p. ASSUME UNCHANGED procVars, lost' \subseteq Births PROVE TProc'
  BY <1>p, ProcKept DEF procVars, TProc
<1>l. lost \subseteq Births /\ doomed \subseteq Births /\ live \subseteq Births /\ released \subseteq Births
  BY DEF TProc
<1>f. ASSUME UNCHANGED <<pidNs, fileVars>>, proc' = proc PROVE TFiles'
  BY <1>f DEF TFiles, fileVars
<1>0. CASE UNCHANGED vars
  <2>1. TCmds'  BY <1>0 DEF vars, procVars, cmdVars, TCmds
  <2> QED BY <1>0, <2>1, <1>p, <1>f, <1>l DEF vars, procVars
<1>1. ASSUME NEW c \in Cmds, CreateCheck(c) PROVE TProc' /\ TFiles' /\ TCmds'
  <2>1. TCmds'  BY <1>1, <1>n, StepTypes DEF CreateCheck, procVars, Creating
  <2> QED BY <1>1, <2>1, <1>p, <1>f, <1>l DEF CreateCheck, procVars
<1>2. ASSUME NEW c \in Cmds, Spawn(c) PROVE TProc' /\ TFiles' /\ TCmds'
  <2>1. PICK p \in Pids : Born(p, Len(proc) + 1)  BY <1>2 DEF Spawn
  <2>2. Len(proc) + 1 \in 0..(Len(proc) + 1)  BY <1>n
  <2>3. Len(proc') = Len(proc) + 1 /\ TProc'
    BY <2>1, <2>2, BornFacts, <1>2 DEF Spawn
  <2>4. TFiles'  BY <1>2, <2>3, <1>n DEF Spawn, TFiles
  <2>5. TCmds'
    <3>1. /\ mine' = [mine EXCEPT ![c] = Len(proc) + 1] /\ pc' = [pc EXCEPT ![c] = "save"]
          /\ UNCHANGED <<snap, seen, runner>>
      BY <1>2 DEF Spawn, Goto
    <3> QED BY <3>1, <2>3, <1>n DEF TCmds, Creating, Running
  <2> QED BY <2>3, <2>4, <2>5
<1>3. ASSUME NEW c \in Cmds, SpawnFails(c) PROVE TProc' /\ TFiles' /\ TCmds'
  <2>1. TCmds'  BY <1>3, <1>n, StepTypes DEF SpawnFails, procVars, Creating
  <2>2. cgroup' \in BOOLEAN  BY <1>3 DEF SpawnFails, TFiles
  <2>3. fifo' \in {fifo, 0}  BY <1>3 DEF SpawnFails
  <2>4. TFiles'  BY <1>3, <1>n, <2>2, <2>3 DEF SpawnFails, procVars, TFiles
  <2> QED BY <1>3, <2>1, <2>4, <1>p, <1>l DEF SpawnFails
<1>4. ASSUME NEW c \in Cmds, Save(c) PROVE TProc' /\ TFiles' /\ TCmds'
  <2>1. mine[c] # 0 /\ mine[c] \in 0..Len(proc)  BY <1>4 DEF Save, TCmds, Creating
  <2>2. TCmds'  BY <1>4, <1>n, <2>1, StepTypes DEF Save, procVars, Creating
  <2>3. TFiles'  BY <1>4, <1>n, <2>1 DEF Save, procVars, TFiles
  <2> QED BY <1>4, <2>2, <2>3, <1>p, <1>l DEF Save
<1>5. ASSUME NEW c \in Cmds, PidFile(c) PROVE TProc' /\ TFiles' /\ TCmds'
  <2>1. mine[c] # 0  BY <1>5 DEF PidFile, TCmds, Creating
  <2>2. TCmds'
    <3>1. CASE End(c)  BY <1>5, <3>1, <1>n, EndTypes DEF PidFile, procVars
    <3>2. CASE Step(c, "undo")
      BY <1>5, <3>2, <1>n, StepTypes DEF PidFile, procVars, Creating
    <3>3. CASE /\ Goto(c, "release") /\ runner' = runner \cup {c}
               /\ UNCHANGED <<mine, snap, seen>>
      BY <1>5, <3>3, <2>1 DEF PidFile, procVars, Goto, TCmds, Running, Creating
    <3> QED BY <1>5, <3>1, <3>2, <3>3 DEF PidFile
  <2>3. TFiles'  BY <1>5, <1>n DEF PidFile, procVars, TFiles
  <2> QED BY <1>5, <2>2, <2>3, <1>p, <1>l DEF PidFile
<1>6. ASSUME NEW c \in Cmds, ReadProcs(c) PROVE TProc' /\ TFiles' /\ TCmds'
  <2> DEFINE S == {proc[b].pid : b \in Members}
  <2>1. S \in SUBSET Pids
    <3>1. \A b \in Members : b \in 1..Len(proc)  BY <1>n, <1>l DEF Members
    <3>2. proc \in Seq([pid : Pids, init : Nat])  BY DEF TProc
    <3>3. \A b \in 1..Len(proc) : proc[b] \in [pid : Pids, init : Nat]
      BY <3>2, ElementOfSeq
    <3>4. \A b \in Members : proc[b].pid \in Pids  BY <3>1, <3>3
    <3> QED BY <3>4
  <2>3. /\ snap' = [snap EXCEPT ![c] = S] /\ seen' = [seen EXCEPT ![c] = Len(proc)]
        /\ UNCHANGED <<mine, runner, proc>>
    BY <1>6 DEF ReadProcs, procVars
  <2>4. \/ pc[c] = "undo" /\ pc' = [pc EXCEPT ![c] = "undoKill"]
        \/ pc[c] = "read" /\ pc' = [pc EXCEPT ![c] = "killAll"]
    BY <1>6 DEF ReadProcs, Goto
  <2> HIDE DEF S
  <2>5. mine' \in [Cmds -> 0..Len(proc')] /\ runner' \subseteq Cmds
    BY <2>3 DEF TCmds
  <2>6. seen' \in [Cmds -> 0..Len(proc')]  BY <1>n, <2>3 DEF TCmds
  <2>7. snap' \in [Cmds -> SUBSET Pids]  BY <2>1, <2>3 DEF TCmds
  <2>8. /\ pc' \in [Cmds -> {"idle", "send", "read", "killAll", "wait", "destroy", "remove"}
                            \cup Creating \cup Running]
        /\ \A d \in Cmds : mine'[d] # 0 \/ pc'[d] \in {"idle"} \cup (Creating \ {"save", "pidfile"})
    BY <2>3, <2>4 DEF TCmds, Creating, Running
  <2>2. TCmds'  BY <2>5, <2>6, <2>7, <2>8 DEF TCmds
  <2> QED BY <1>6, <2>2, <1>p, <1>f, <1>l DEF ReadProcs, procVars
<1>7. ASSUME NEW c \in Cmds, KillOne(c) PROVE TProc' /\ TFiles' /\ TCmds'
  <2>1. doomed' \subseteq Births  BY <1>7, <1>l DEF KillOne
  <2>2. TProc'  BY <1>7, <2>1, <1>l, ProcKept DEF KillOne
  <2>3. TCmds'  BY <1>7 DEF KillOne, TCmds
  <2> QED BY <1>7, <2>2, <2>3, <1>f DEF KillOne
<1>8. ASSUME NEW c \in Cmds, KilledAll(c) PROVE TProc' /\ TFiles' /\ TCmds'
  <2>1. TCmds'  BY <1>8, <1>n, StepTypes DEF KilledAll, procVars, Creating, TCmds
  <2> QED BY <1>8, <2>1, <1>p, <1>f, <1>l DEF KilledAll, procVars
<1>9. ASSUME NEW c \in Cmds, Drain(c) PROVE TProc' /\ TFiles' /\ TCmds'
  <2>1. TCmds'  BY <1>9, <1>n, StepTypes DEF Drain, Creating
  <2>2. TProc'  BY <1>9, <1>l, ProcKept DEF Drain
  <2> QED BY <1>9, <2>1, <2>2, <1>f DEF Drain
<1>10. ASSUME NEW c \in Cmds, Wait(c) PROVE TProc' /\ TFiles' /\ TCmds'
  <2>1. TCmds'  BY <1>10, <1>n, StepTypes DEF Wait, procVars, Creating, TCmds
  <2> QED BY <1>10, <2>1, <1>p, <1>f, <1>l DEF Wait, procVars
<1>11. ASSUME NEW c \in Cmds, Destroy(c) PROVE TProc' /\ TFiles' /\ TCmds'
  <2>1. TCmds'
    <3>1. CASE End(c)  BY <1>11, <3>1, <1>n, EndTypes DEF Destroy, procVars
    <3>2. CASE pc[c] = "undoDestroy" /\ Step(c, "undoDir")
      BY <1>11, <3>2, <1>n, StepTypes DEF Destroy, procVars, Creating
    <3>3. CASE pc[c] = "destroy" /\ Step(c, "remove")
      BY <1>11, <3>3, <1>n, StepTypes DEF Destroy, procVars, Creating, TCmds
    <3> QED BY <1>11, <3>1, <3>2, <3>3 DEF Destroy
  <2>2. cgroup' \in BOOLEAN  BY <1>11 DEF Destroy
  <2>3. TFiles'  BY <1>11, <2>2 DEF Destroy, procVars, TFiles
  <2> QED BY <1>11, <2>1, <2>3, <1>p, <1>l DEF Destroy
<1>12. ASSUME NEW c \in Cmds, Remove(c) PROVE TProc' /\ TFiles' /\ TCmds'
  <2>1. TCmds'  BY <1>12, <1>n, EndTypes DEF Remove, procVars
  <2>2. TFiles'  BY <1>12, <1>n DEF Remove, procVars, TFiles
  <2> QED BY <1>12, <2>1, <2>2, <1>p, <1>l DEF Remove
<1>13. ASSUME NEW c \in Cmds, StartCheck(c) PROVE TProc' /\ TFiles' /\ TCmds'
  <2>1. TCmds'  BY <1>13, <1>n, LoadTypes DEF StartCheck, procVars
  <2> QED BY <1>13, <2>1, <1>p, <1>f, <1>l DEF StartCheck, procVars
<1>14. ASSUME NEW c \in Cmds, Release(c) PROVE TProc' /\ TFiles' /\ TCmds'
  <2>1. mine[c] # 0  BY <1>14 DEF Release, TCmds, Creating
  <2>2. TCmds'  BY <1>14, <1>n, <2>1, StepTypes DEF Release, Running
  <2>3. TProc'  BY <1>14, <1>l, ProcKept DEF Release
  <2> QED BY <1>14, <2>2, <2>3, <1>f DEF Release
<1>15. ASSUME NEW c \in Cmds, ReleaseFails(c) PROVE TProc' /\ TFiles' /\ TCmds'
  <2>1. TCmds'  BY <1>15, <1>n, EndTypes DEF ReleaseFails, procVars
  <2> QED BY <1>15, <2>1, <1>p, <1>f, <1>l DEF ReleaseFails, procVars
<1>16. ASSUME NEW c \in Cmds, Unlink(c) PROVE TProc' /\ TFiles' /\ TCmds'
  <2>1. mine[c] # 0  BY <1>16 DEF Unlink, TCmds, Creating
  <2>2. TCmds'  BY <1>16, <1>n, <2>1, EndTypes, StepTypes DEF Unlink, procVars, Running
  <2>3. TFiles'  BY <1>16, <1>n DEF Unlink, procVars, TFiles
  <2> QED BY <1>16, <2>2, <2>3, <1>p, <1>l DEF Unlink
<1>17. ASSUME NEW c \in Cmds, Supervised(c) PROVE TProc' /\ TFiles' /\ TCmds'
  <2>1. mine[c] # 0  BY <1>17 DEF Supervised, TCmds, Creating
  <2>2. TCmds'  BY <1>17, <1>n, <2>1, EndTypes, StepTypes DEF Supervised
  <2>3. TProc'  BY <1>17, <1>l, ProcKept DEF Supervised
  <2> QED BY <1>17, <2>2, <2>3, <1>f DEF Supervised
<1>18. ASSUME NEW c \in Cmds, KillCheck(c) PROVE TProc' /\ TFiles' /\ TCmds'
  <2>1. TCmds'  BY <1>18, <1>n, LoadTypes DEF KillCheck, procVars
  <2> QED BY <1>18, <2>1, <1>p, <1>f, <1>l DEF KillCheck, procVars
<1>19. ASSUME NEW c \in Cmds, KillSend(c) PROVE TProc' /\ TFiles' /\ TCmds'
  <2>1. TCmds'  BY <1>19, <1>n, EndTypes DEF KillSend
  <2>2. doomed' \subseteq Births  BY <1>19, <1>l DEF KillSend
  <2>3. TProc'  BY <1>19, <2>2, <1>l, ProcKept DEF KillSend
  <2> QED BY <1>19, <2>1, <2>3, <1>f DEF KillSend
<1>20. ASSUME NEW c \in Cmds, DeleteLoad(c) PROVE TProc' /\ TFiles' /\ TCmds'
  <2>1. TCmds'  BY <1>20, <1>n, LoadTypes DEF DeleteLoad, procVars
  <2> QED BY <1>20, <2>1, <1>p, <1>f, <1>l DEF DeleteLoad, procVars
<1>21. ASSUME NEW c \in Cmds, Crash(c) PROVE TProc' /\ TFiles' /\ TCmds'
  <2>1. TCmds'  BY <1>21, <1>n, EndTypes DEF Crash, procVars
  <2>2. mine[c] \in {0} \cup Births  BY <1>n DEF TCmds, Births
  <2>3. lost' \subseteq Births  BY <1>21, <2>2, <1>l DEF Crash
  <2> QED BY <1>21, <2>1, <2>3, <1>p, <1>f DEF Crash, procVars
<1>22. ASSUME Fork PROVE TProc' /\ TFiles' /\ TCmds'
  <2>1. PICK b \in Members, p \in Pids : Born(p, proc[b].init)  BY <1>22 DEF Fork
  <2>2. b \in Births  BY <1>l DEF Members
  <2>3. proc[b].init \in 0..(Len(proc) + 1)  BY <2>2, <1>n DEF TProc, Births
  <2>4. Len(proc') = Len(proc) + 1 /\ TProc'
    BY <2>1, <2>3, BornFacts, <1>22 DEF Fork
  <2> QED BY <1>22, <2>4, <1>n, CmdsKept DEF Fork
<1>23. ASSUME Stranger PROVE TProc' /\ TFiles' /\ TCmds'
  <2>1. PICK p \in Pids : Born(p, 0)  BY <1>23 DEF Stranger
  <2>2. 0 \in 0..(Len(proc) + 1)  BY <1>n
  <2>3. Len(proc') = Len(proc) + 1 /\ TProc'
    BY <2>1, <2>2, BornFacts, <1>23 DEF Stranger
  <2> QED BY <1>23, <2>3, <1>n, CmdsKept DEF Stranger
<1>24. ASSUME Die PROVE TProc' /\ TFiles' /\ TCmds'
  <2>1. PICK b \in live :
          /\ live' = IF pidNs /\ proc[b].init = b
                     THEN {d \in live : proc[d].init # b} ELSE live \ {b}
          /\ zombies' = zombies \cup {b}
    BY <1>24 DEF Die
  <2>2. live' \subseteq live /\ b \notin live'  BY <2>1
  <2>3. doomed' \subseteq Births  BY <1>24, <1>l DEF Die
  <2>4. TProc'  BY <1>24, <2>1, <2>2, <2>3, <1>l, ProcKept DEF Die
  <2>5. TCmds'  BY <1>24 DEF Die, cmdVars, TCmds
  <2> QED BY <1>24, <2>4, <2>5, <1>f DEF Die
<1>25. ASSUME Reap PROVE TProc' /\ TFiles' /\ TCmds'
  <2>1. TProc'  BY <1>25, <1>l, ProcKept DEF Reap
  <2>2. TCmds'  BY <1>25 DEF Reap, cmdVars, TCmds
  <2> QED BY <1>25, <2>1, <2>2, <1>f DEF Reap
<1> QED BY <1>0, <1>1, <1>2, <1>3, <1>4, <1>5, <1>6, <1>7, <1>8, <1>9, <1>10, <1>11, <1>12,
           <1>13, <1>14, <1>15, <1>16, <1>17, <1>18, <1>19, <1>20, <1>21, <1>22, <1>23, <1>24,
           <1>25 DEF Next, Command

(* Registry keeps its types, two processes never share a pid, and a        *)
(* command past its load works on an init that was born (delete --force of *)
(* an id without state.json does not go on).                               *)
THEOREM TypeCorrect == Spec => []TypeOK
<1>1. Init => TypeOK
  <2> SUFFICES ASSUME Init PROVE TProc /\ TFiles /\ TCmds  BY TypeParts
  <2>1. proc \in Seq([pid : Pids, init : Nat]) /\ Len(proc) = 0  BY DEF Init
  <2>2. TProc  BY <2>1 DEF Init, TProc, Births, Present
  <2>3. pidNs \in BOOLEAN /\ cgroup \in BOOLEAN  BY DEF Init
  <2>4. TFiles  BY <2>1, <2>3 DEF Init, TFiles
  <2>5. TCmds  BY <2>1 DEF Init, TCmds
  <2> QED BY <2>2, <2>4, <2>5
<1> QED BY <1>1, TypeStep, PTL DEF Spec

-----------------------------------------------------------------------------
(* Signals.                                                                *)

(* A step that starts no aim, and at most ends processes, keeps the aims.  *)
LEMMA AimsKept ==
  ASSUME AimsAtOurs, proc' = proc, Present' \subseteq Present,
         \A d \in Cmds : pc'[d] \in {"send", "undoKill", "killAll"} =>
           /\ pc[d] = pc'[d] /\ mine'[d] = mine[d] /\ seen'[d] = seen[d]
           /\ snap'[d] \subseteq snap[d]
  PROVE  AimsAtOurs'
<1> SUFFICES ASSUME NEW d \in Cmds
             PROVE  /\ pc'[d] = "send" =>
                         \A b \in At(proc[mine[d]].pid)' : b = mine'[d] \/ b > seen'[d]
                    /\ pc'[d] \in {"undoKill", "killAll"} =>
                         \A p \in snap'[d] : \A b \in At(p)' : proc'[b].init # 0 \/ b > seen'[d]
  BY DEF AimsAtOurs, At
<1>1. \A p : At(p)' \subseteq At(p)  BY DEF At
<1> QED BY <1>1 DEF AimsAtOurs, At

(* Nor does a birth: the new process is younger than every aim.            *)
LEMMA AimsBorn ==
  ASSUME TProc, TCmds, AimsAtOurs, NEW p, NEW i \in 0..(Len(proc) + 1), Born(p, i),
         \A d \in Cmds : pc'[d] \in {"send", "undoKill", "killAll"} =>
           pc[d] = pc'[d] /\ mine'[d] = mine[d] /\ seen'[d] = seen[d] /\ snap'[d] = snap[d]
  PROVE  AimsAtOurs'
<1>1. /\ Len(proc) \in Nat /\ Len(proc') = Len(proc) + 1
      /\ \A b \in Births : proc'[b] = proc[b]
      /\ Present' = Present \cup {Len(proc) + 1}
  BY BornFacts DEF Present
<1>2. Present \subseteq Births  BY DEF Present, TProc
<1>3. \A q : At(q)' \subseteq At(q) \cup {Len(proc) + 1}
  BY <1>1, <1>2 DEF At
<1>4. \A d \in Cmds : Len(proc) + 1 > seen[d] /\ mine[d] \in 0..Len(proc)
  BY <1>1 DEF TCmds
<1> SUFFICES ASSUME NEW d \in Cmds
             PROVE  /\ pc'[d] = "send" =>
                         \A b \in At(proc[mine[d]].pid)' : b = mine'[d] \/ b > seen'[d]
                    /\ pc'[d] \in {"undoKill", "killAll"} =>
                         \A q \in snap'[d] : \A b \in At(q)' : proc'[b].init # 0 \/ b > seen'[d]
  BY DEF AimsAtOurs, At
<1>5. CASE pc'[d] = "send"
  <2>1. pc[d] = "send" /\ mine'[d] = mine[d] /\ seen'[d] = seen[d]  BY <1>5
  <2>2. mine[d] \in Births
    <3>1. mine[d] # 0 /\ mine[d] \in 0..Len(proc)  BY <2>1 DEF TCmds, Creating
    <3> QED BY <3>1, <1>1 DEF Births
  <2>3. proc'[mine'[d]].pid = proc[mine[d]].pid  BY <2>1, <2>2, <1>1
  <2> QED BY <1>5, <2>1, <2>3, <1>3, <1>4 DEF AimsAtOurs, At
<1>6. CASE pc'[d] \in {"undoKill", "killAll"}
  <2>1. pc[d] = pc'[d] /\ snap'[d] = snap[d] /\ seen'[d] = seen[d]  BY <1>6
  <2>2. \A b \in Present : proc'[b] = proc[b]  BY <1>1, <1>2
  <2>3. \A q \in snap[d] : \A b \in At(q) : proc'[b].init # 0 \/ b > seen[d]
    BY <1>6, <2>1, <2>2 DEF AimsAtOurs, At
  <2> QED BY <1>6, <2>1, <2>3, <1>3, <1>4
<1> QED BY <1>5, <1>6

(* Every action keeps AimsAtOurs.                                          *)
LEMMA AimsStep == TypeOK /\ AimsAtOurs /\ [Next]_vars => AimsAtOurs'
<1> SUFFICES ASSUME TProc, TFiles, TCmds, AimsAtOurs, [Next]_vars PROVE AimsAtOurs'
  BY TypeParts
<1>n. Len(proc) \in Nat  BY DEF TProc
<1> DEFINE Kept == /\ proc' = proc /\ Present' \subseteq Present
                   /\ \A d \in Cmds : pc'[d] \in {"send", "undoKill", "killAll"} =>
                        /\ pc[d] = pc'[d] /\ mine'[d] = mine[d] /\ seen'[d] = seen[d]
                        /\ snap'[d] \subseteq snap[d]
<1>k. Kept => AimsAtOurs'  BY AimsKept
<1>e. ASSUME NEW c \in Cmds, UNCHANGED <<proc, live>>, zombies' \subseteq zombies, End(c)
      PROVE  Kept
  BY <1>e DEF End, Goto, TCmds, Present
<1>s. ASSUME NEW c \in Cmds, NEW to, to \notin {"send", "undoKill", "killAll"},
             UNCHANGED <<proc, live>>, zombies' \subseteq zombies, Step(c, to)
      PROVE  Kept
  BY <1>s DEF Step, cmdVars, Goto, TCmds, Present
<1>l. ASSUME NEW c \in Cmds, NEW to, to \notin {"send", "undoKill", "killAll"},
             UNCHANGED procVars, Load(c, to)
      PROVE  Kept
  BY <1>l DEF procVars, Load, Goto, TCmds, Present
<1> HIDE DEF Kept
<1>0. CASE UNCHANGED vars
  BY <1>0, <1>k DEF Kept, vars, procVars, cmdVars, Present
<1>1. ASSUME NEW c \in Cmds, CreateCheck(c) PROVE AimsAtOurs'
  BY <1>1, <1>s, <1>k DEF CreateCheck, procVars
<1>2. ASSUME NEW c \in Cmds, Spawn(c) PROVE AimsAtOurs'
  <2>1. PICK p \in Pids : Born(p, Len(proc) + 1)  BY <1>2 DEF Spawn
  <2>2. Len(proc) + 1 \in 0..(Len(proc) + 1)  BY <1>n
  <2>3. \A d \in Cmds : pc'[d] \in {"send", "undoKill", "killAll"} =>
          pc[d] = pc'[d] /\ mine'[d] = mine[d] /\ seen'[d] = seen[d] /\ snap'[d] = snap[d]
    BY <1>2 DEF Spawn, Goto, TCmds
  <2> QED BY <2>1, <2>2, <2>3, AimsBorn
<1>3. ASSUME NEW c \in Cmds, SpawnFails(c) PROVE AimsAtOurs'
  BY <1>3, <1>s, <1>k DEF SpawnFails, procVars
<1>4. ASSUME NEW c \in Cmds, Save(c) PROVE AimsAtOurs'
  BY <1>4, <1>s, <1>k DEF Save, procVars
<1>5. ASSUME NEW c \in Cmds, PidFile(c) PROVE AimsAtOurs'
  <2>1. CASE End(c) \/ Step(c, "undo")  BY <1>5, <2>1, <1>e, <1>s, <1>k DEF PidFile, procVars
  <2>2. CASE Goto(c, "release") /\ UNCHANGED <<mine, snap, seen>>
    BY <1>5, <2>2, <1>k DEF PidFile, procVars, Goto, TCmds, Present, Kept
  <2> QED BY <1>5, <2>1, <2>2 DEF PidFile
<1>6. ASSUME NEW c \in Cmds, ReadProcs(c) PROVE AimsAtOurs'
  <2>1. /\ snap' = [snap EXCEPT ![c] = {proc[b].pid : b \in Members}]
        /\ UNCHANGED <<proc, live, zombies, mine>>
        /\ \A d \in Cmds \ {c} : pc'[d] = pc[d] /\ seen'[d] = seen[d]
        /\ pc'[c] # "send"
    BY <1>6 DEF ReadProcs, procVars, Goto, TCmds
  <2>2. ASSUME NEW d \in Cmds \ {c}
        PROVE  /\ pc'[d] = "send" =>
                    \A b \in At(proc[mine[d]].pid)' : b = mine'[d] \/ b > seen'[d]
               /\ pc'[d] \in {"undoKill", "killAll"} =>
                    \A p \in snap'[d] : \A b \in At(p)' : proc'[b].init # 0 \/ b > seen'[d]
    <3>1. snap'[d] = snap[d]  BY <2>1 DEF TCmds
    <3>2. \A p : At(p)' = At(p)  BY <2>1 DEF At, Present
    <3> QED BY <2>1, <3>1, <3>2 DEF AimsAtOurs, At, Present
  <2>3. \A p \in snap'[c] : \A b \in At(p)' : proc'[b].init # 0
    <3>1. snap'[c] = {proc[b].pid : b \in Members}  BY <2>1 DEF TCmds
    <3>2. \A b, d \in Present : proc[b].pid = proc[d].pid => b = d  BY DEF TProc
    <3>3. Members \subseteq Present /\ \A b \in Members : proc[b].init # 0
      BY DEF Members, Present
    <3> QED BY <2>1, <3>1, <3>2, <3>3 DEF At, Present
  <2> QED BY <2>1, <2>2, <2>3 DEF AimsAtOurs
<1>7. ASSUME NEW c \in Cmds, KillOne(c) PROVE AimsAtOurs'
  <2>1. \A d \in Cmds : snap'[d] \subseteq snap[d]  BY <1>7 DEF KillOne, TCmds
  <2> QED BY <1>7, <2>1, <1>k DEF KillOne, Present, Kept
<1>8. ASSUME NEW c \in Cmds, KilledAll(c) PROVE AimsAtOurs'
  BY <1>8, <1>s, <1>k DEF KilledAll, procVars
<1>9. ASSUME NEW c \in Cmds, Drain(c) PROVE AimsAtOurs'
  BY <1>9, <1>s, <1>k DEF Drain
<1>10. ASSUME NEW c \in Cmds, Wait(c) PROVE AimsAtOurs'
  BY <1>10, <1>s, <1>k DEF Wait, procVars
<1>11. ASSUME NEW c \in Cmds, Destroy(c) PROVE AimsAtOurs'
  BY <1>11, <1>e, <1>s, <1>k DEF Destroy, procVars
<1>12. ASSUME NEW c \in Cmds, Remove(c) PROVE AimsAtOurs'
  BY <1>12, <1>e, <1>k DEF Remove, procVars
<1>13. ASSUME NEW c \in Cmds, StartCheck(c) PROVE AimsAtOurs'
  BY <1>13, <1>l, <1>k DEF StartCheck
<1>14. ASSUME NEW c \in Cmds, Release(c) PROVE AimsAtOurs'
  BY <1>14, <1>s, <1>k DEF Release
<1>15. ASSUME NEW c \in Cmds, ReleaseFails(c) PROVE AimsAtOurs'
  BY <1>15, <1>e, <1>k DEF ReleaseFails, procVars
<1>16. ASSUME NEW c \in Cmds, Unlink(c) PROVE AimsAtOurs'
  BY <1>16, <1>e, <1>s, <1>k DEF Unlink, procVars
<1>17. ASSUME NEW c \in Cmds, Supervised(c) PROVE AimsAtOurs'
  BY <1>17, <1>e, <1>s, <1>k DEF Supervised
<1>18. ASSUME NEW c \in Cmds, KillCheck(c) PROVE AimsAtOurs'
  <2>1. /\ pc' = [pc EXCEPT ![c] = "send"] /\ mine' = [mine EXCEPT ![c] = state]
        /\ state \in Present /\ UNCHANGED <<proc, live, zombies, snap>>
        /\ \A d \in Cmds \ {c} : seen'[d] = seen[d]
    BY <1>18 DEF KillCheck, Load, Goto, procVars, Alive, TCmds
  <2>2. \A p : At(p)' = At(p)  BY <2>1 DEF At, Present
  <2>3. ASSUME NEW d \in Cmds \ {c}
        PROVE  /\ pc'[d] = "send" =>
                    \A b \in At(proc[mine[d]].pid)' : b = mine'[d] \/ b > seen'[d]
               /\ pc'[d] \in {"undoKill", "killAll"} =>
                    \A p \in snap'[d] : \A b \in At(p)' : proc'[b].init # 0 \/ b > seen'[d]
    <3>1. pc'[d] = pc[d] /\ mine'[d] = mine[d] /\ snap'[d] = snap[d]  BY <2>1 DEF TCmds
    <3> QED BY <2>1, <2>2, <3>1 DEF AimsAtOurs, At, Present
  <2>4. pc'[c] = "send" /\ mine'[c] = state  BY <2>1 DEF TCmds
  <2>5. \A b \in At(proc[mine[c]].pid)' : b = mine'[c]
    <3>1. \A b, d \in Present : proc[b].pid = proc[d].pid => b = d  BY DEF TProc
    <3> QED BY <2>1, <2>4, <3>1 DEF At, Present
  <2> QED BY <2>3, <2>4, <2>5 DEF AimsAtOurs
<1>19. ASSUME NEW c \in Cmds, KillSend(c) PROVE AimsAtOurs'
  BY <1>19, <1>e, <1>k DEF KillSend
<1>20. ASSUME NEW c \in Cmds, DeleteLoad(c) PROVE AimsAtOurs'
  BY <1>20, <1>l, <1>k DEF DeleteLoad
<1>21. ASSUME NEW c \in Cmds, Crash(c) PROVE AimsAtOurs'
  BY <1>21, <1>e, <1>k DEF Crash, procVars
<1>22. ASSUME Fork PROVE AimsAtOurs'
  <2>1. PICK b \in Members, p \in Pids : Born(p, proc[b].init)  BY <1>22 DEF Fork
  <2>2. proc[b].init \in 0..(Len(proc) + 1)
    <3>1. b \in 1..Len(proc) /\ proc[b].init \in 0..b  BY DEF TProc, Births, Members
    <3> QED BY <3>1, <1>n
  <2> QED BY <1>22, <2>1, <2>2, AimsBorn DEF Fork, cmdVars
<1>23. ASSUME Stranger PROVE AimsAtOurs'
  <2>1. PICK p \in Pids : Born(p, 0)  BY <1>23 DEF Stranger
  <2>2. 0 \in 0..(Len(proc) + 1)  BY <1>n
  <2> QED BY <1>23, <2>1, <2>2, AimsBorn DEF Stranger, cmdVars
<1>24. ASSUME Die PROVE AimsAtOurs'
  BY <1>24, <1>k DEF Die, cmdVars, Present, Kept
<1>25. ASSUME Reap PROVE AimsAtOurs'
  BY <1>25, <1>k DEF Reap, cmdVars, Present, Kept
<1> QED BY <1>0, <1>1, <1>2, <1>3, <1>4, <1>5, <1>6, <1>7, <1>8, <1>9, <1>10, <1>11, <1>12,
           <1>13, <1>14, <1>15, <1>16, <1>17, <1>18, <1>19, <1>20, <1>21, <1>22, <1>23, <1>24,
           <1>25 DEF Next, Command

(* A pid about to be signalled is the container's, or was taken by another *)
(* process only after the command looked.                                  *)
THEOREM Aimed == Spec => []AimsAtOurs
<1>1. Init => AimsAtOurs  BY DEF Init, AimsAtOurs
<1> QED BY <1>1, TypeCorrect, AimsStep, PTL DEF Spec

-----------------------------------------------------------------------------
(* The life cycle, for a caller that reuses an id only when its commands   *)
(* are done.                                                               *)

Fine(b) == b \in live \ doomed

Past == {"wait", "destroy", "remove", "drain", "undoDestroy", "undoDir"}

(* What holds of command c at each place: an idle one knows nothing; what  *)
(* it has loaded or spawned is an init, and is what state.json names as    *)
(* long as there is one; on the way to forgetting it, it is gone or doomed *)
(* or about to be; an init about to be published is parked, and a create   *)
(* that has published nothing is alone.                                    *)
Know(c) ==
  /\ pc[c] \in {"idle", "create"} => mine[c] = 0
  /\ mine[c] # 0 => state \in {0, mine[c]} /\ proc[mine[c]].init = mine[c]
  /\ pc[c] \in Past => ~Fine(mine[c])
  /\ pc[c] \in {"killAll", "undoKill"} /\ Fine(mine[c]) => proc[mine[c]].pid \in snap[c]
  /\ pc[c] = "pidfile" => state = mine[c] \/ ~Fine(mine[c])
  /\ pc[c] = "save" => fifo # 0 /\ mine[c] \in Present
  /\ pc[c] \in Creating /\ (mine[c] = 0 \/ pc[c] = "save") =>
       state = 0 /\ \A d \in Cmds \ {c} : pc[d] = "idle"

OneCreate == \A c, d \in Cmds : pc[c] \in Creating /\ pc[d] \in Creating => c = d

Ordered ==
  /\ OneCreate
  /\ \A c \in Cmds : Know(c)
  /\ state # 0 => proc[state].init = state

(* A step of command c leaves alone what another command knows, if what it *)
(* removes from state.json is not an init that still runs.                 *)
LEMMA Others ==
  ASSUME Ordered, TCmds, NEW c \in Cmds, NEW d \in Cmds, d # c,
         pc'[d] = pc[d], mine'[d] = mine[d], snap'[d] = snap[d],
         pc[d] = "idle" \/ pc[c] # "idle" \/ state # 0,
         pc[d] = "idle" \/ state' = state \/ (state' = 0 /\ ~Fine(state)),
         mine[d] # 0 => proc'[mine[d]] = proc[mine[d]],
         Fine(mine[d])' => Fine(mine[d])
  PROVE  Know(d)'
<1>1. CASE pc[d] = "idle"
  <2>1. mine[d] = 0 /\ pc'[d] = "idle" /\ mine'[d] = 0  BY <1>1 DEF Ordered, Know
  <2> QED BY <2>1 DEF Know, Past, Creating
<1>2. CASE pc[d] # "idle"
  <2>1. ~(pc[d] \in Creating /\ (mine[d] = 0 \/ pc[d] = "save"))
    BY <1>2 DEF Ordered, Know
  <2>2. pc[d] # "save"  BY <2>1 DEF Creating
  <2>3. pc[d] = "pidfile" => state' = mine[d] \/ ~Fine(mine[d])
    BY <1>2 DEF Ordered, Know
  <2>4. mine[d] # 0  BY <1>2, <2>1 DEF TCmds
  <2>5. mine'[d] # 0 => state' \in {0, mine'[d]} /\ proc'[mine'[d]].init = mine'[d]
    BY <1>2, <2>4 DEF Ordered, Know
  <2>6. ~Fine(mine[d]) => ~Fine(mine[d])'  OBVIOUS
  <2>7. pc[d] \in Past => ~Fine(mine[d])'  BY <2>6 DEF Ordered, Know
  <2>8. pc[d] \in {"killAll", "undoKill"} /\ Fine(mine[d])' => proc'[mine'[d]].pid \in snap'[d]
    BY <2>4 DEF Ordered, Know
  <2>9. pc'[d] \notin {"idle", "create", "save"}
    BY <1>2, <2>2, <2>4 DEF Ordered, Know
  <2>10. ~(pc'[d] \in Creating /\ (mine'[d] = 0 \/ pc'[d] = "save"))  BY <2>1
  <2> QED BY <2>3, <2>5, <2>6, <2>7, <2>8, <2>9, <2>10 DEF Know, Fine
<1> QED BY <1>1, <1>2

(* A step of the world: processes are born, end and are reaped.            *)
LEMMA World ==
  ASSUME Ordered, TypeOK, TypeOK', UNCHANGED <<pc, mine, snap, state, fifo>>,
         \A b \in Births : proc'[b] = proc[b] /\ (Fine(b)' => Fine(b)),
         \A c \in Cmds : pc[c] = "save" /\ mine[c] \in Present => mine[c] \in Present'
  PROVE  Ordered'
<1>1. ASSUME NEW d \in Cmds PROVE Know(d)'
  <2>1. mine[d] \in 0..Len(proc) /\ Len(proc) \in Nat  BY DEF TypeOK
  <2>2. mine[d] # 0 => mine[d] \in Births  BY <2>1 DEF Births
  <2>3. ~Fine(0)'  BY DEF TypeOK, Births, Fine
  <2>4. /\ mine[d] # 0 => proc'[mine[d]] = proc[mine[d]] /\ (Fine(mine[d])' => Fine(mine[d]))
        /\ mine[d] = 0 => ~Fine(mine[d])'
    BY <2>2, <2>3 DEF Fine
  <2>5. mine[d] = 0 => pc[d] \notin {"killAll", "save", "pidfile", "wait", "destroy", "remove"}
    BY DEF TypeOK, Creating
  <2> QED BY <2>4, <2>5 DEF Ordered, Know
<1>2. OneCreate'  BY DEF Ordered, OneCreate
<1>3. state' # 0 => proc'[state'].init = state'
  <2>1. state # 0 => state \in Births  BY DEF TypeOK, Births
  <2> QED BY <2>1 DEF Ordered
<1> QED BY <1>1, <1>2, <1>3 DEF Ordered

(* A command ends.                                                         *)
LEMMA EndOrdered ==
  ASSUME Ordered, TypeOK, TypeOK', NEW c \in Cmds, End(c), pc[c] # "idle",
         proc' = proc, live' = live, doomed \subseteq doomed',
         state' = state \/ (state' = 0 /\ ~Fine(state))
  PROVE  Ordered'
<1>1. TCmds  BY TypeParts
<1>2. /\ pc'[c] = "idle" /\ mine'[c] = 0
      /\ \A d \in Cmds \ {c} : pc'[d] = pc[d] /\ mine'[d] = mine[d] /\ snap'[d] = snap[d]
  BY <1>1 DEF End, Goto, TCmds
<1>3. Know(c)'  BY <1>2 DEF Know, Past, Creating
<1>4. ASSUME NEW d \in Cmds \ {c} PROVE Know(d)'
  <2>1. Fine(mine[d])' => Fine(mine[d])  BY <1>2 DEF Fine
  <2> QED BY <1>1, <1>2, <2>1, Others
<1>5. OneCreate'  BY <1>2 DEF Ordered, OneCreate, Creating
<1>6. state' # 0 => proc'[state'].init = state'  BY DEF Ordered
<1> QED BY <1>3, <1>4, <1>5, <1>6 DEF Ordered

(* A command goes on with what it knows.                                   *)
LEMMA StepOrdered ==
  ASSUME Ordered, TypeOK, TypeOK', NEW c \in Cmds, NEW to, Step(c, to), pc[c] # "idle",
         to \notin {"idle", "create", "save", "pidfile", "killAll", "undoKill"},
         to \in Creating => pc[c] \in Creating,
         to \in Past => ~Fine(mine[c]),
         proc' = proc, live' = live, doomed' = doomed, state' = state
  PROVE  Ordered'
<1>1. TCmds  BY TypeParts
<1>2. /\ pc'[c] = to /\ mine' = mine /\ snap' = snap
      /\ \A d \in Cmds \ {c} : pc'[d] = pc[d]
  BY <1>1 DEF Step, cmdVars, Goto, TCmds
<1>3. Know(c)'
  <2>1. to \in Past => ~Fine(mine[c])'  BY <1>2 DEF Fine
  <2>2. mine'[c] # 0 => state' \in {0, mine'[c]} /\ proc'[mine'[c]].init = mine'[c]
    BY <1>2 DEF Ordered, Know
  <2>3. to \in Creating /\ mine'[c] = 0 => state' = 0 /\ \A d \in Cmds \ {c} : pc'[d] = "idle"
    BY <1>2 DEF Ordered, Know
  <2> QED BY <1>2, <2>1, <2>2, <2>3 DEF Know
<1>4. ASSUME NEW d \in Cmds \ {c} PROVE Know(d)'
  <2>1. Fine(mine[d])' => Fine(mine[d])  BY <1>2 DEF Fine
  <2> QED BY <1>1, <1>2, <2>1, Others
<1>5. OneCreate'  BY <1>2 DEF Ordered, OneCreate
<1>6. state' # 0 => proc'[state'].init = state'  BY DEF Ordered
<1> QED BY <1>3, <1>4, <1>5, <1>6 DEF Ordered

(* A command loads the container.                                          *)
LEMMA LoadOrdered ==
  ASSUME Ordered, TypeOK, TypeOK', NEW c \in Cmds, NEW to, Load(c, to),
         to \in {"send", "read", "release", "destroy"},
         to = "destroy" => ~Fine(state),
         UNCHANGED procVars, state' = state
  PROVE  Ordered'
<1>1. TCmds  BY TypeParts
<1>2. /\ pc'[c] = to /\ mine'[c] = state /\ state # 0
      /\ \A d \in Cmds \ {c} : pc'[d] = pc[d] /\ mine'[d] = mine[d] /\ snap'[d] = snap[d]
  BY <1>1 DEF Load, Goto, TCmds
<1>3. Know(c)'
  <2>1. to = "destroy" => ~Fine(mine[c])'  BY <1>2 DEF Fine, procVars
  <2>2. proc'[mine'[c]].init = mine'[c]  BY <1>2 DEF Ordered, procVars
  <2> QED BY <1>2, <2>1, <2>2 DEF Know, Past, Creating
<1>4. ASSUME NEW d \in Cmds \ {c} PROVE Know(d)'
  <2>1. Fine(mine[d])' => Fine(mine[d])  BY <1>2 DEF Fine, procVars
  <2> QED BY <1>1, <1>2, <2>1, Others DEF procVars
<1>5. OneCreate'  BY <1>2 DEF Ordered, OneCreate, Creating
<1>6. state' # 0 => proc'[state'].init = state'  BY DEF Ordered, procVars
<1> QED BY <1>3, <1>4, <1>5, <1>6 DEF Ordered

(* Every action keeps Ordered.                                             *)
LEMMA OrderedStep ==
  ASSUME Serial, TypeOK, TypeOK', Ordered, [Next]_vars
  PROVE  Ordered'
<1>t. TProc /\ TFiles /\ TCmds /\ TProc' /\ TFiles' /\ TCmds'
  BY TypeParts DEF TypeOK, TProc, TFiles, TCmds
<1>z. 0 \notin live /\ ~Fine(0) /\ Len(proc) \in Nat  BY <1>t DEF TProc, Births, Fine
<1>w. ASSUME UNCHANGED vars PROVE Ordered'
  <2>1. /\ pc' = pc /\ mine' = mine /\ snap' = snap /\ state' = state /\ fifo' = fifo
        /\ proc' = proc /\ live' = live /\ zombies' = zombies /\ doomed' = doomed
    BY <1>w DEF vars, procVars, fileVars, cmdVars
  <2> QED BY <2>1, World DEF Fine, Present
<1>1. ASSUME NEW c \in Cmds, CreateCheck(c) PROVE Ordered'
  <2>1. /\ \A d \in Cmds : pc[d] = "idle" /\ mine[d] = 0
        /\ state' = 0
    BY <1>1 DEF CreateCheck, Ordered, Know, fileVars
  <2>2. /\ pc' = [pc EXCEPT ![c] = "create"] /\ mine' = mine
    BY <1>1 DEF CreateCheck, Step, Goto, cmdVars
  <2>3. \A d \in Cmds : mine'[d] = 0 /\ (d # c => pc'[d] = "idle")
    BY <2>1, <2>2, <1>t DEF TCmds
  <2>4. pc'[c] = "create"  BY <2>2, <1>t DEF TCmds
  <2>5. \A d \in Cmds : Know(d)'  BY <2>1, <2>3, <2>4 DEF Know, Past, Creating
  <2>6. OneCreate'  BY <2>3 DEF OneCreate, Creating
  <2> QED BY <2>1, <2>5, <2>6 DEF Ordered
<1>2. ASSUME NEW c \in Cmds, Spawn(c) PROVE Ordered'
  <2>1. PICK p \in Pids : Born(p, Len(proc) + 1)  BY <1>2 DEF Spawn
  <2>2. Len(proc) + 1 \in 0..(Len(proc) + 1)  BY <1>z
  <2>3. /\ proc'[Len(proc) + 1].init = Len(proc) + 1
        /\ live' = live \cup {Len(proc) + 1}
    <3>1. /\ proc'[Len(proc) + 1] = [pid |-> p, init |-> Len(proc) + 1]
          /\ live' = live \cup {Len(proc) + 1}
      BY <2>1, <2>2, <1>t, BornFacts
    <3> QED BY <3>1
  <2>4. state = 0 /\ \A d \in Cmds \ {c} : pc[d] = "idle" /\ mine[d] = 0
    BY <1>2 DEF Spawn, Ordered, Know, Creating
  <2>5. /\ pc'[c] = "save" /\ mine'[c] = Len(proc) + 1 /\ fifo' = Len(proc) + 1 /\ state' = 0
        /\ \A d \in Cmds \ {c} : pc'[d] = "idle" /\ mine'[d] = 0
    BY <1>2, <2>4, <1>t DEF Spawn, Goto, TCmds
  <2>6. Len(proc) + 1 # 0 /\ Len(proc) + 1 \in Present'  BY <1>z, <2>3 DEF Present
  <2>7. Know(c)'  BY <2>3, <2>5, <2>6 DEF Know, Past
  <2>8. \A d \in Cmds \ {c} : Know(d)'  BY <2>5 DEF Know, Past, Creating
  <2>9. OneCreate'  BY <2>5 DEF OneCreate, Creating
  <2> QED BY <2>5, <2>7, <2>8, <2>9 DEF Ordered
<1>3. ASSUME NEW c \in Cmds, SpawnFails(c) PROVE Ordered'
  <2>1. pc[c] = "create" /\ ~Fine(mine[c])  BY <1>3, <1>z DEF SpawnFails, Ordered, Know
  <2>2. UNCHANGED <<proc, live, doomed, state>>  BY <1>3 DEF SpawnFails, procVars
  <2>3. PICK to \in {"undoDir", "undoDestroy", "undo"} : Step(c, to)  BY <1>3 DEF SpawnFails
  <2> QED BY <2>1, <2>2, <2>3, StepOrdered DEF Creating
<1>4. ASSUME NEW c \in Cmds, Save(c) PROVE Ordered'
  <2>1. CASE Step(c, "undo") /\ UNCHANGED state
    BY <1>4, <2>1, StepOrdered DEF Save, procVars, Creating, Past
  <2>2. CASE Step(c, "pidfile") /\ state' = mine[c]
    <3>1. \A d \in Cmds \ {c} : pc[d] = "idle" /\ mine[d] = 0
      BY <1>4 DEF Save, Ordered, Know, Creating
    <3>2. mine[c] # 0  BY <1>4, <1>t DEF Save, TCmds, Creating
    <3>3. /\ pc'[c] = "pidfile" /\ mine' = mine
          /\ \A d \in Cmds \ {c} : pc'[d] = "idle"
      BY <2>2, <3>1, <1>t DEF Step, Goto, cmdVars, TCmds
    <3>4. proc'[mine'[c]].init = mine'[c]  BY <1>4, <3>2, <3>3 DEF Save, procVars, Ordered, Know
    <3>5. Know(c)'  BY <2>2, <3>2, <3>3, <3>4 DEF Know, Past
    <3>6. \A d \in Cmds \ {c} : Know(d)'  BY <3>1, <3>3 DEF Know, Past, Creating
    <3>7. OneCreate'  BY <3>3 DEF OneCreate, Creating
    <3> QED BY <2>2, <3>3, <3>4, <3>5, <3>6, <3>7 DEF Ordered
  <2> QED BY <1>4, <2>1, <2>2 DEF Save
<1>5. ASSUME NEW c \in Cmds, PidFile(c) PROVE Ordered'
  <2>0. pc[c] = "pidfile" /\ UNCHANGED <<proc, live, doomed, state>>
    BY <1>5 DEF PidFile, procVars
  <2>1. CASE End(c)  BY <2>0, <2>1, EndOrdered
  <2>2. CASE Step(c, "undo")  BY <2>0, <2>2, StepOrdered DEF Creating, Past
  <2>3. CASE Goto(c, "release") /\ UNCHANGED <<mine, snap, seen>>
    <3>1. pc'[c] = "release" /\ \A d \in Cmds \ {c} : pc'[d] = pc[d]
      BY <2>3, <1>t DEF Goto, TCmds
    <3>2. Know(c)'  BY <2>0, <2>3, <3>1 DEF Ordered, Know, Past, Creating
    <3>3. ASSUME NEW d \in Cmds \ {c} PROVE Know(d)'
      <4>1. Fine(mine[d])' => Fine(mine[d])  BY <2>0, <2>3 DEF Fine
      <4> QED BY <2>0, <2>3, <3>1, <4>1, <1>t, Others
    <3>4. OneCreate'  BY <3>1 DEF Ordered, OneCreate, Creating
    <3> QED BY <2>0, <3>2, <3>3, <3>4 DEF Ordered
  <2> QED BY <1>5, <2>1, <2>2, <2>3 DEF PidFile
<1>6. ASSUME NEW c \in Cmds, ReadProcs(c) PROVE Ordered'
  <2>1. /\ snap'[c] = {proc[b].pid : b \in Members}
        /\ UNCHANGED <<proc, live, doomed, state, mine>>
        /\ \A d \in Cmds \ {c} : pc'[d] = pc[d] /\ snap'[d] = snap[d]
        /\ \/ pc[c] = "undo" /\ pc'[c] = "undoKill"
           \/ pc[c] = "read" /\ pc'[c] = "killAll"
    BY <1>6, <1>t DEF ReadProcs, procVars, fileVars, Goto, TCmds
  <2>2. Fine(mine[c]) => mine[c] \in Members
    <3>1. Fine(mine[c]) => mine[c] # 0 /\ mine[c] \in live  BY <1>z DEF Fine
    <3> QED BY <3>1 DEF Members, Ordered, Know
  <2>3. Know(c)'
    <3>1. Fine(mine[c])' => Fine(mine[c])  BY <2>1 DEF Fine
    <3>2. Fine(mine[c])' => proc'[mine'[c]].pid \in snap'[c]  BY <2>1, <2>2, <3>1
    <3>3. pc[c] # "idle" /\ pc[c] # "create" /\ pc[c] # "save"  BY <2>1
    <3>4. pc[c] \in Creating /\ mine[c] = 0 => state = 0 /\ \A d \in Cmds \ {c} : pc[d] = "idle"
      BY DEF Ordered, Know
    <3>5. mine'[c] # 0 => state' \in {0, mine'[c]} /\ proc'[mine'[c]].init = mine'[c]
      BY <2>1 DEF Ordered, Know
    <3> QED BY <2>1, <3>2, <3>4, <3>5 DEF Know, Past, Creating
  <2>4. ASSUME NEW d \in Cmds \ {c} PROVE Know(d)'
    <3>1. Fine(mine[d])' => Fine(mine[d])  BY <2>1 DEF Fine
    <3> QED BY <2>1, <3>1, <1>t, Others
  <2>5. OneCreate'  BY <2>1 DEF Ordered, OneCreate, Creating
  <2> QED BY <2>1, <2>3, <2>4, <2>5 DEF Ordered
<1>7. ASSUME NEW c \in Cmds, KillOne(c) PROVE Ordered'
  <2>1. PICK p \in snap[c] :
          /\ snap' = [snap EXCEPT ![c] = @ \ {p}]
          /\ doomed' = doomed \cup (At(p) \cap live)
    BY <1>7 DEF KillOne
  <2>2. pc[c] \in {"undoKill", "killAll"} /\ UNCHANGED <<proc, live, state, pc, mine>>
    BY <1>7 DEF KillOne, fileVars
  <2>3. snap'[c] = snap[c] \ {p} /\ \A d \in Cmds \ {c} : snap'[d] = snap[d]
    BY <2>1, <1>t DEF TCmds
  <2>4. Fine(mine[c])' => Fine(mine[c]) /\ proc[mine[c]].pid # p
    BY <2>1, <2>2 DEF Fine, At, Present
  <2>5. Know(c)'
    <3>1. Fine(mine[c])' => proc'[mine'[c]].pid \in snap'[c]
      BY <2>2, <2>3, <2>4 DEF Ordered, Know
    <3> QED BY <2>2, <3>1 DEF Ordered, Know, Past
  <2>6. ASSUME NEW d \in Cmds \ {c} PROVE Know(d)'
    <3>1. Fine(mine[d])' => Fine(mine[d])  BY <2>1, <2>2 DEF Fine
    <3> QED BY <2>2, <2>3, <3>1, <1>t, Others
  <2>7. OneCreate'  BY <2>2 DEF Ordered, OneCreate
  <2> QED BY <2>2, <2>5, <2>6, <2>7 DEF Ordered
<1>8. ASSUME NEW c \in Cmds, KilledAll(c) PROVE Ordered'
  <2>1. ~Fine(mine[c])  BY <1>8 DEF KilledAll, Ordered, Know
  <2> QED BY <1>8, <2>1, StepOrdered DEF KilledAll, procVars, fileVars, Creating
<1>9. ASSUME NEW c \in Cmds, Drain(c) PROVE Ordered'
  <2>1. ~Fine(mine[c])  BY <1>9 DEF Drain, Ordered, Know, Past
  <2> QED BY <1>9, <2>1, StepOrdered DEF Drain, fileVars, Creating
<1>10. ASSUME NEW c \in Cmds, Wait(c) PROVE Ordered'
  <2>1. ~Fine(mine[c])  BY <1>10 DEF Wait, Ordered, Know, Past
  <2> QED BY <1>10, <2>1, StepOrdered DEF Wait, procVars, fileVars, Creating
<1>11. ASSUME NEW c \in Cmds, Destroy(c) PROVE Ordered'
  <2>1. ~Fine(mine[c])  BY <1>11 DEF Destroy, Ordered, Know, Past
  <2>2. UNCHANGED <<proc, live, doomed, state>> /\ pc[c] # "idle"  BY <1>11 DEF Destroy, procVars
  <2>3. CASE End(c)  BY <2>2, <2>3, EndOrdered
  <2>4. CASE pc[c] = "undoDestroy" /\ Step(c, "undoDir")
    BY <2>1, <2>2, <2>4, StepOrdered DEF Creating
  <2>5. CASE Step(c, "remove")  BY <2>1, <2>2, <2>5, StepOrdered DEF Creating
  <2> QED BY <1>11, <2>3, <2>4, <2>5 DEF Destroy
<1>12. ASSUME NEW c \in Cmds, Remove(c) PROVE Ordered'
  <2>1. ~Fine(mine[c])  BY <1>12 DEF Remove, Ordered, Know, Past
  <2>2. state = 0 \/ state = mine[c]
    <3>1. mine[c] = 0 => state = 0  BY <1>12, <1>t DEF Remove, Ordered, Know, TCmds, Creating
    <3> QED BY <3>1 DEF Ordered, Know
  <2>3. ~Fine(state)  BY <2>1, <2>2, <1>z
  <2> QED BY <1>12, <2>3, EndOrdered DEF Remove, procVars
<1>13. ASSUME NEW c \in Cmds, StartCheck(c) PROVE Ordered'
  BY <1>13, LoadOrdered DEF StartCheck, fileVars
<1>14. ASSUME NEW c \in Cmds, Release(c) PROVE Ordered'
  BY <1>14, StepOrdered DEF Release, fileVars, Creating, Past
<1>15. ASSUME NEW c \in Cmds, ReleaseFails(c) PROVE Ordered'
  BY <1>15, EndOrdered DEF ReleaseFails, procVars, fileVars
<1>16. ASSUME NEW c \in Cmds, Unlink(c) PROVE Ordered'
  BY <1>16, EndOrdered, StepOrdered DEF Unlink, procVars, Creating, Past
<1>17. ASSUME NEW c \in Cmds, Supervised(c) PROVE Ordered'
  <2>1. ~Fine(mine[c])  BY <1>17 DEF Supervised, Fine
  <2> QED BY <1>17, <2>1, EndOrdered, StepOrdered DEF Supervised, fileVars, Creating
<1>18. ASSUME NEW c \in Cmds, KillCheck(c) PROVE Ordered'
  BY <1>18, LoadOrdered DEF KillCheck, fileVars
<1>19. ASSUME NEW c \in Cmds, KillSend(c) PROVE Ordered'
  BY <1>19, EndOrdered DEF KillSend, fileVars
<1>20. ASSUME NEW c \in Cmds, DeleteLoad(c) PROVE Ordered'
  <2>1. CASE Alive(state)  BY <1>20, <2>1, LoadOrdered DEF DeleteLoad, fileVars
  <2>2. CASE ~Alive(state)
    <3>1. ~Fine(state)  BY <2>2 DEF Alive, Present, Fine
    <3> QED BY <1>20, <2>2, <3>1, LoadOrdered DEF DeleteLoad, fileVars
  <2> QED BY <2>1, <2>2
<1>21. ASSUME NEW c \in Cmds, Crash(c) PROVE Ordered'
  BY <1>21, EndOrdered DEF Crash, procVars, fileVars
<1>b. ASSUME NEW p, NEW i \in 0..(Len(proc) + 1), Born(p, i), UNCHANGED <<fileVars, pc, cmdVars>>
      PROVE  Ordered'
  <2>1. /\ \A b \in Births : proc'[b] = proc[b]
        /\ live' = live \cup {Len(proc) + 1} /\ zombies' = zombies /\ doomed' = doomed
    BY <1>b, <1>t, BornFacts
  <2>2. Len(proc) + 1 \notin Births  BY <1>z DEF Births
  <2>3. \A b \in Births : Fine(b)' => Fine(b)  BY <2>1, <2>2 DEF Fine
  <2>4. Present \subseteq Present'  BY <2>1 DEF Present
  <2> QED BY <1>b, <2>1, <2>3, <2>4, World DEF fileVars, cmdVars
<1>22. ASSUME Fork PROVE Ordered'
  <2>1. PICK b \in Members, p \in Pids : Born(p, proc[b].init)  BY <1>22 DEF Fork
  <2>2. proc[b].init \in 0..(Len(proc) + 1)
    <3>1. b \in 1..Len(proc) /\ proc[b].init \in 0..b  BY <1>t DEF TProc, Births, Members
    <3> QED BY <3>1, <1>z
  <2> QED BY <1>22, <2>1, <2>2, <1>b DEF Fork
<1>23. ASSUME Stranger PROVE Ordered'
  <2>1. PICK p \in Pids : Born(p, 0)  BY <1>23 DEF Stranger
  <2>2. 0 \in 0..(Len(proc) + 1)  BY <1>z
  <2> QED BY <1>23, <2>1, <2>2, <1>b DEF Stranger
<1>24. ASSUME Die PROVE Ordered'
  <2>1. PICK b \in live :
          /\ live' = IF pidNs /\ proc[b].init = b
                     THEN {d \in live : proc[d].init # b} ELSE live \ {b}
          /\ zombies' = zombies \cup {b}
    BY <1>24 DEF Die
  <2>2. UNCHANGED <<proc, state, fifo, pc, mine, snap>> /\ doomed' = doomed \cap live'
    BY <1>24 DEF Die, fileVars, cmdVars
  <2>3. \A d \in Births : Fine(d)' => Fine(d)  BY <2>1, <2>2 DEF Fine
  <2>4. ASSUME NEW c \in Cmds, pc[c] = "save", mine[c] \in Present PROVE mine[c] \in Present'
    <3>1. mine[c] # 0  BY <2>4, <1>t DEF TCmds, Creating
    <3>2. proc[mine[c]].init = mine[c]  BY <3>1 DEF Ordered, Know
    <3> QED BY <2>1, <2>4, <3>2 DEF Present
  <2> QED BY <2>2, <2>3, <2>4, World
<1>25. ASSUME Reap PROVE Ordered'
  <2>1. PICK b \in zombies : ~Held(b) /\ zombies' = zombies \ {b}  BY <1>25 DEF Reap
  <2>2. UNCHANGED <<proc, live, doomed, state, fifo, pc, mine, snap>>
    BY <1>25 DEF Reap, fileVars, cmdVars
  <2>3. \A c \in Cmds : pc[c] = "save" => mine[c] # b  BY <2>1 DEF Held, Creating
  <2>4. \A c \in Cmds : pc[c] = "save" /\ mine[c] \in Present => mine[c] \in Present'
    BY <2>1, <2>2, <2>3 DEF Present
  <2>5. \A d \in Births : proc'[d] = proc[d] /\ (Fine(d)' => Fine(d))  BY <2>2 DEF Fine
  <2> QED BY <2>2, <2>4, <2>5, World
<1> QED BY <1>w, <1>1, <1>2, <1>3, <1>4, <1>5, <1>6, <1>7, <1>8, <1>9, <1>10, <1>11, <1>12,
           <1>13, <1>14, <1>15, <1>16, <1>17, <1>18, <1>19, <1>20, <1>21, <1>22, <1>23, <1>24,
           <1>25 DEF Next, Command

(* Ordered holds from the start.                                           *)
LEMMA OrderedInit == Init => Ordered
BY DEF Init, Ordered, Know, OneCreate, Past, Creating

-----------------------------------------------------------------------------
(* Nothing that runs is lost sight of.                                     *)

(* Every action keeps Accounted.                                           *)
LEMMA AccountedStep ==
  ASSUME Serial, TypeOK, TypeOK', Ordered, Accounted, [Next]_vars
  PROVE  Accounted'
<1>t. TProc /\ TFiles /\ TCmds  BY TypeParts
<1>z. 0 \notin live /\ ~Fine(0) /\ Len(proc) \in Nat /\ live \subseteq Births
  BY <1>t DEF TProc, Births, Fine
<1> SUFFICES ASSUME NEW b \in live' \ doomed', proc'[b].init = b
             PROVE  \/ b = state'
                    \/ \E c \in Cmds : pc'[c] \in Creating /\ mine'[c] = b
                    \/ b \in lost'
  BY DEF Accounted
<1> DEFINE Known == \/ b = state'
                    \/ \E c \in Cmds : pc'[c] \in Creating /\ mine'[c] = b
                    \/ b \in lost'
(* A step that publishes, forgets and loses nothing.                       *)
<1>k. ASSUME b \in live \ doomed, proc'[b] = proc[b],
             state' = state \/ b # state, lost \subseteq lost',
             \A c \in Cmds : pc[c] \in Creating /\ mine[c] = b =>
               (pc'[c] \in Creating /\ mine'[c] = b) \/ b \in lost' \/ b = state'
      PROVE  Known
  BY <1>k DEF Accounted
<1>s. ASSUME NEW c \in Cmds, NEW to \in Creating, Step(c, to),
             UNCHANGED <<proc, live, doomed, lost, state>>
      PROVE  Known
  <2>1. \A d \in Cmds : pc[d] \in Creating /\ mine[d] = b => pc'[d] \in Creating /\ mine'[d] = b
    BY <1>s, <1>t DEF Step, Goto, cmdVars, TCmds
  <2> QED BY <1>s, <1>k, <2>1
<1>o. ASSUME NEW c \in Cmds, pc[c] \notin Creating, b \in live \ doomed, proc' = proc,
             \A d \in Cmds \ {c} : pc'[d] = pc[d] /\ mine'[d] = mine[d],
             state' = state \/ b # state, lost' = lost
      PROVE  Known
  BY <1>o, <1>k
<1>e. ASSUME NEW c \in Cmds, NEW to, End(c) \/ Step(c, to) \/ Load(c, to)
      PROVE  \A d \in Cmds \ {c} : pc'[d] = pc[d] /\ mine'[d] = mine[d]
  BY <1>e, <1>t DEF End, Step, Load, Goto, cmdVars, TCmds
<1> HIDE DEF Known
<1>w. ASSUME UNCHANGED vars PROVE Known
  BY <1>w, <1>k DEF vars, procVars, fileVars, cmdVars
<1>1. ASSUME NEW c \in Cmds, CreateCheck(c) PROVE Known
  BY <1>1, <1>s DEF CreateCheck, procVars, fileVars, Creating
<1>b. ASSUME NEW p, NEW i \in 0..(Len(proc) + 1), Born(p, i)
      PROVE  \/ b \in live \ doomed /\ proc'[b] = proc[b]
             \/ b = Len(proc) + 1 /\ i = b
  <2>1. /\ \A d \in Births : proc'[d] = proc[d]
        /\ proc'[Len(proc) + 1] = [pid |-> p, init |-> i]
        /\ live' = live \cup {Len(proc) + 1} /\ doomed' = doomed
    BY <1>b, <1>t, BornFacts
  <2> QED BY <2>1, <1>z
<1>2. ASSUME NEW c \in Cmds, Spawn(c) PROVE Known
  <2>1. PICK p \in Pids : Born(p, Len(proc) + 1)  BY <1>2 DEF Spawn
  <2>2. Len(proc) + 1 \in 0..(Len(proc) + 1)  BY <1>z
  <2>3. /\ pc'[c] = "save" /\ mine'[c] = Len(proc) + 1
        /\ \A d \in Cmds \ {c} : pc'[d] = pc[d] /\ mine'[d] = mine[d]
    BY <1>2, <1>t DEF Spawn, Goto, TCmds
  <2>4. CASE b = Len(proc) + 1  BY <2>3, <2>4 DEF Known, Creating
  <2>5. CASE b \in live \ doomed /\ proc'[b] = proc[b]
    <3>1. mine[c] # b  BY <1>2, <2>5, <1>z DEF Spawn, Ordered, Know
    <3> QED BY <1>2, <2>3, <2>5, <3>1, <1>k DEF Spawn
  <2> QED BY <2>1, <2>2, <2>4, <2>5, <1>b
<1>3. ASSUME NEW c \in Cmds, SpawnFails(c) PROVE Known
  BY <1>3, <1>s DEF SpawnFails, procVars, Creating
<1>4. ASSUME NEW c \in Cmds, Save(c) PROVE Known
  <2>1. CASE Step(c, "undo") /\ UNCHANGED state
    BY <1>4, <2>1, <1>s DEF Save, procVars, Creating
  <2>2. CASE Step(c, "pidfile")
    <3>1. state = 0  BY <1>4 DEF Save, Ordered, Know, Creating
    <3>2. \A d \in Cmds : pc[d] \in Creating /\ mine[d] = b => pc'[d] \in Creating /\ mine'[d] = b
      BY <2>2, <1>t DEF Step, Goto, cmdVars, TCmds, Creating
    <3>3. b \in live \ doomed /\ proc' = proc /\ lost' = lost  BY <1>4 DEF Save, procVars
    <3> QED BY <3>1, <3>2, <3>3, <1>k, <1>z
  <2> QED BY <1>4, <2>1, <2>2 DEF Save
<1>5. ASSUME NEW c \in Cmds, PidFile(c) PROVE Known
  <2>1. pc[c] = "pidfile" /\ UNCHANGED <<proc, live, doomed, state, lost>>
    BY <1>5 DEF PidFile, procVars
  <2>2. CASE Step(c, "undo")  BY <2>1, <2>2, <1>s DEF Creating
  <2>3. CASE End(c) \/ (Goto(c, "release") /\ UNCHANGED mine)
    <3>1. \A d \in Cmds \ {c} : pc'[d] = pc[d] /\ mine'[d] = mine[d]
      BY <2>3, <1>t DEF End, Goto, TCmds
    <3>2. mine[c] = b => b = state  BY <2>1 DEF Ordered, Know, Fine
    <3> QED BY <2>1, <3>1, <3>2, <1>k
  <2> QED BY <1>5, <2>2, <2>3 DEF PidFile
<1>6. ASSUME NEW c \in Cmds, ReadProcs(c) PROVE Known
  <2>1. \A d \in Cmds : pc[d] \in Creating /\ mine[d] = b => pc'[d] \in Creating /\ mine'[d] = b
    BY <1>6, <1>t DEF ReadProcs, Goto, TCmds, Creating
  <2> QED BY <1>6, <2>1, <1>k DEF ReadProcs, procVars, fileVars
<1>7. ASSUME NEW c \in Cmds, KillOne(c) PROVE Known
  <2>1. doomed \subseteq doomed'  BY <1>7 DEF KillOne
  <2> QED BY <1>7, <2>1, <1>k DEF KillOne, fileVars
<1>8. ASSUME NEW c \in Cmds, KilledAll(c) PROVE Known
  <2>1. CASE pc[c] = "undoKill" /\ Step(c, "drain")
    BY <1>8, <2>1, <1>s DEF KilledAll, procVars, fileVars, Creating
  <2>2. CASE pc[c] = "killAll" /\ Step(c, "wait")
    BY <1>8, <2>2, <1>o, <1>e DEF KilledAll, procVars, fileVars, Creating
  <2> QED BY <1>8, <2>1, <2>2 DEF KilledAll
<1>9. ASSUME NEW c \in Cmds, Drain(c) PROVE Known
  BY <1>9, <1>s DEF Drain, fileVars, Creating
<1>10. ASSUME NEW c \in Cmds, Wait(c) PROVE Known
  BY <1>10, <1>o, <1>e DEF Wait, procVars, fileVars, Creating
<1>11. ASSUME NEW c \in Cmds, Destroy(c) PROVE Known
  <2>1. CASE pc[c] = "undoDestroy" /\ Step(c, "undoDir")
    BY <1>11, <2>1, <1>s DEF Destroy, procVars, Creating
  <2>2. CASE pc[c] = "destroy" /\ (Step(c, "remove") \/ End(c))
    BY <1>11, <2>2, <1>o, <1>e DEF Destroy, procVars, Creating
  <2> QED BY <1>11, <2>1, <2>2 DEF Destroy
<1>12. ASSUME NEW c \in Cmds, Remove(c) PROVE Known
  <2>1. ~Fine(mine[c])  BY <1>12 DEF Remove, Ordered, Know, Past
  <2>2. mine[c] = 0 => state = 0  BY <1>12, <1>t DEF Remove, Ordered, Know, TCmds, Creating
  <2>3. ~Fine(state)  BY <2>1, <2>2, <1>z DEF Ordered, Know
  <2>4. b \in live \ doomed /\ proc' = proc /\ lost' = lost  BY <1>12 DEF Remove, procVars
  <2>5. b # state /\ mine[c] # b  BY <2>1, <2>3, <2>4 DEF Fine
  <2>6. \A d \in Cmds \ {c} : pc'[d] = pc[d] /\ mine'[d] = mine[d]  BY <1>12, <1>e DEF Remove
  <2> QED BY <2>4, <2>5, <2>6, <1>k
<1>13. ASSUME NEW c \in Cmds, StartCheck(c) PROVE Known
  BY <1>13, <1>o, <1>e DEF StartCheck, Load, procVars, fileVars, Creating
<1>14. ASSUME NEW c \in Cmds, Release(c) PROVE Known
  BY <1>14, <1>o, <1>e DEF Release, fileVars, Creating
<1>15. ASSUME NEW c \in Cmds, ReleaseFails(c) PROVE Known
  BY <1>15, <1>o, <1>e DEF ReleaseFails, procVars, fileVars, Creating
<1>16. ASSUME NEW c \in Cmds, Unlink(c) PROVE Known
  BY <1>16, <1>o, <1>e DEF Unlink, procVars, Creating
<1>17. ASSUME NEW c \in Cmds, Supervised(c) PROVE Known
  BY <1>17, <1>o, <1>e DEF Supervised, fileVars, Creating
<1>18. ASSUME NEW c \in Cmds, KillCheck(c) PROVE Known
  BY <1>18, <1>o, <1>e DEF KillCheck, Load, procVars, fileVars, Creating
<1>19. ASSUME NEW c \in Cmds, KillSend(c) PROVE Known
  <2>1. doomed \subseteq doomed'  BY <1>19 DEF KillSend
  <2> QED BY <1>19, <2>1, <1>o, <1>e DEF KillSend, fileVars, Creating
<1>20. ASSUME NEW c \in Cmds, DeleteLoad(c) PROVE Known
  BY <1>20, <1>o, <1>e DEF DeleteLoad, Load, procVars, fileVars, Creating
<1>21. ASSUME NEW c \in Cmds, Crash(c) PROVE Known
  <2>1. \A d \in Cmds \ {c} : pc'[d] = pc[d] /\ mine'[d] = mine[d]  BY <1>21, <1>e DEF Crash
  <2>2. UNCHANGED <<proc, live, doomed, state>>  BY <1>21 DEF Crash, procVars, fileVars
  <2>3. b # 0  BY <1>z, <2>2
  <2>4. lost \subseteq lost' /\ (pc[c] \in Creating /\ mine[c] = b => b \in lost' \/ b = state)
    BY <1>21, <2>3 DEF Crash
  <2> QED BY <2>1, <2>2, <2>4, <1>k
<1>22. ASSUME Fork PROVE Known
  <2>1. PICK d \in Members, p \in Pids : Born(p, proc[d].init)  BY <1>22 DEF Fork
  <2>2. proc[d].init \in 0..Len(proc)
    <3>1. d \in 1..Len(proc) /\ proc[d].init \in 0..d  BY <1>t DEF TProc, Births, Members
    <3> QED BY <3>1, <1>z
  <2>3. proc[d].init \in 0..(Len(proc) + 1) /\ proc[d].init # Len(proc) + 1  BY <2>2, <1>z
  <2>4. b \in live \ doomed /\ proc'[b] = proc[b]  BY <2>1, <2>3, <1>b
  <2> QED BY <1>22, <2>4, <1>k DEF Fork, fileVars, cmdVars
<1>23. ASSUME Stranger PROVE Known
  <2>1. PICK p \in Pids : Born(p, 0)  BY <1>23 DEF Stranger
  <2>2. 0 \in 0..(Len(proc) + 1) /\ Len(proc) + 1 # 0  BY <1>z
  <2>3. b \in live \ doomed /\ proc'[b] = proc[b]  BY <2>1, <2>2, <1>b
  <2> QED BY <1>23, <2>3, <1>k DEF Stranger, fileVars, cmdVars
<1>24. ASSUME Die PROVE Known
  <2>1. live' \subseteq live /\ doomed' = doomed \cap live'  BY <1>24 DEF Die
  <2>2. b \in live \ doomed  BY <2>1
  <2> QED BY <1>24, <2>2, <1>k DEF Die, fileVars, cmdVars
<1>25. ASSUME Reap PROVE Known
  BY <1>25, <1>k DEF Reap, fileVars, cmdVars
<1>q. Known
  BY <1>w, <1>1, <1>2, <1>3, <1>4, <1>5, <1>6, <1>7, <1>8, <1>9, <1>10, <1>11, <1>12,
     <1>13, <1>14, <1>15, <1>16, <1>17, <1>18, <1>19, <1>20, <1>21, <1>22, <1>23, <1>24,
     <1>25 DEF Next, Command
<1> QED BY <1>q DEF Known

(* With the caller's discipline, every init that runs and was not sent a   *)
(* SIGKILL is named in state.json, held by a create under way, or was lost *)
(* by a create that was killed: delete and the undo of create never forget *)
(* a container that goes on running.                                       *)
THEOREM NothingForgotten == ASSUME Serial PROVE Spec => []Accounted
<1>1. Init => Ordered /\ Accounted  BY OrderedInit DEF Init, Accounted
<1>2. TypeOK /\ TypeOK' /\ Ordered /\ Accounted /\ [Next]_vars => Ordered' /\ Accounted'
  BY OrderedStep, AccountedStep
<1> QED BY <1>1, <1>2, TypeCorrect, PTL DEF Spec

-----------------------------------------------------------------------------
(* What `mars state` answers follows the life cycle.                       *)

(* Seen from OciLifecycle a step does one of the following.                *)

(* The init may have ended or been doomed; nothing else shows.             *)
LEMMA Ends ==
  ASSUME state' = state, state \in Present' <=> state \in Present,
         state # 0 => (fifo' # 0 <=> fifo # 0), Over => Over'
  PROVE  [Oci!Next]_<<Status, Over>>
<1>1. Status' = Status  BY DEF Status, Alive
<1>2. Over' = Over \/ (Status # "none" /\ Over' = TRUE)  BY DEF Over, Status, Alive
<1> QED BY <1>1, <1>2 DEF Oci!Next, Oci!End

(* The fifo has gone.                                                      *)
LEMMA Starts ==
  ASSUME state' = state, Present' = Present, live' = live, doomed' = doomed, fifo' = 0
  PROVE  [Oci!Next]_<<Status, Over>>
<1>1. Over' = Over  BY DEF Over
<1>2. Status' = Status \/ (Status = "created" /\ Status' = "running")  BY DEF Status, Alive
<1> QED BY <1>1, <1>2 DEF Oci!Next, Oci!Start

(* Zombies were reaped.                                                    *)
LEMMA Stops ==
  ASSUME TProc, UNCHANGED <<state, fifo, live, doomed>>, zombies' \subseteq zombies
  PROVE  [Oci!Next]_<<Status, Over>>
<1>1. Over' = Over  BY DEF Over
<1>2. CASE state \in Present' <=> state \in Present
  <2>1. Status' = Status  BY <1>2 DEF Status, Alive
  <2> QED BY <1>1, <2>1
<1>3. CASE ~(state \in Present' <=> state \in Present)
  <2>0. Present' \subseteq Present /\ live' = live  BY DEF Present
  <2>1. state \in zombies /\ state \notin live /\ state # 0 /\ state \notin Present'
    <3>1. state \in Present /\ state \notin Present'  BY <1>3, <2>0
    <3>2. state \in zombies /\ state \notin live  BY <3>1, <2>0 DEF Present
    <3>3. state # 0  BY <3>2 DEF TProc, Births
    <3> QED BY <3>1, <3>2, <3>3
  <2>2. Over  BY <2>1 DEF Over
  <2>3. Status' = "stopped"  BY <2>1 DEF Status, Alive
  <2>4. Status \in {"created", "running"}  BY <2>1 DEF Status, Alive, Present
  <2> QED BY <1>1, <2>2, <2>3, <2>4 DEF Oci!Next, Oci!Stop
<1> QED BY <1>2, <1>3

(* Nothing shows.                                                          *)
LEMMA Stutters ==
  ASSUME UNCHANGED procVars, state' = state, state # 0 => (fifo' # 0 <=> fifo # 0)
  PROVE  [Oci!Next]_<<Status, Over>>
<1>1. Status' = Status  BY DEF Status, Alive, Present, procVars
<1>2. Over' = Over  BY DEF Over, procVars
<1> QED BY <1>1, <1>2

(* Every action is a step of OciLifecycle or none.                         *)
LEMMA LifecycleStep ==
  ASSUME TypeOK, Ordered, [Next]_vars
  PROVE  [Oci!Next]_<<Status, Over>>
<1>t. TProc /\ TFiles /\ TCmds  BY TypeParts
<1>z. 0 \notin live /\ ~Fine(0) /\ Len(proc) \in Nat /\ live \subseteq Births /\ zombies \subseteq Births
  BY <1>t DEF TProc, Births, Fine
<1>w. CASE UNCHANGED vars
  BY <1>w, Stutters DEF vars, fileVars
<1>1. ASSUME NEW c \in Cmds, CreateCheck(c) PROVE [Oci!Next]_<<Status, Over>>
  BY <1>1, Stutters DEF CreateCheck, fileVars
<1>b. ASSUME NEW p, NEW i \in 0..(Len(proc) + 1), Born(p, i), state' = state,
             state # 0 => fifo' = fifo
      PROVE  [Oci!Next]_<<Status, Over>>
  <2>1. live' = live \cup {Len(proc) + 1} /\ zombies' = zombies /\ doomed' = doomed
    BY <1>b, <1>t, BornFacts
  <2>2. state # Len(proc) + 1  BY <1>z, <1>t DEF TFiles
  <2>3. state \in Present' <=> state \in Present  BY <2>1, <2>2 DEF Present
  <2>4. Over => Over'  BY <1>b, <2>1, <2>2 DEF Over
  <2> QED BY <1>b, <2>3, <2>4, Ends
<1>2. ASSUME NEW c \in Cmds, Spawn(c) PROVE [Oci!Next]_<<Status, Over>>
  <2>1. PICK p \in Pids : Born(p, Len(proc) + 1)  BY <1>2 DEF Spawn
  <2>2. Len(proc) + 1 \in 0..(Len(proc) + 1)  BY <1>z
  <2>3. state = 0  BY <1>2 DEF Spawn, Ordered, Know, Creating
  <2> QED BY <1>2, <2>1, <2>2, <2>3, <1>b DEF Spawn
<1>3. ASSUME NEW c \in Cmds, SpawnFails(c) PROVE [Oci!Next]_<<Status, Over>>
  <2>1. state = 0  BY <1>3 DEF SpawnFails, Ordered, Know, Creating
  <2> QED BY <1>3, <2>1, Stutters DEF SpawnFails
<1>4. ASSUME NEW c \in Cmds, Save(c) PROVE [Oci!Next]_<<Status, Over>>
  <2>1. state = 0 /\ fifo # 0 /\ mine[c] \in Present
    BY <1>4 DEF Save, Ordered, Know, Creating
  <2>2. CASE UNCHANGED state  BY <1>4, <2>1, <2>2, Stutters DEF Save
  <2>3. CASE state' = mine[c] /\ UNCHANGED fifo
    <3>1. mine[c] # 0  BY <2>1, <1>z DEF Present, Births
    <3>2. Status = "none" /\ Status' = "created"
      BY <1>4, <2>1, <2>3, <3>1 DEF Save, procVars, Status, Alive, Present
    <3>3. Over' \in BOOLEAN  BY DEF Over
    <3> QED BY <3>2, <3>3 DEF Oci!Next, Oci!Create
  <2> QED BY <1>4, <2>2, <2>3 DEF Save
<1>5. ASSUME NEW c \in Cmds, PidFile(c) PROVE [Oci!Next]_<<Status, Over>>
  <2>1. UNCHANGED procVars /\ state' = state /\ (fifo' = fifo \/ fifo' = 0)  BY <1>5 DEF PidFile
  <2> QED BY <2>1, Stutters, Starts DEF procVars, Present
<1>6. ASSUME NEW c \in Cmds, ReadProcs(c) PROVE [Oci!Next]_<<Status, Over>>
  BY <1>6, Stutters DEF ReadProcs, fileVars
<1>d. ASSUME UNCHANGED <<live, zombies, fileVars>>, doomed \subseteq doomed'
      PROVE  [Oci!Next]_<<Status, Over>>
  <2>1. Over => Over'  BY <1>d DEF Over, fileVars
  <2> QED BY <1>d, <2>1, Ends DEF fileVars, Present
<1>7. ASSUME NEW c \in Cmds, KillOne(c) PROVE [Oci!Next]_<<Status, Over>>
  BY <1>7, <1>d DEF KillOne
<1>8. ASSUME NEW c \in Cmds, KilledAll(c) PROVE [Oci!Next]_<<Status, Over>>
  BY <1>8, Stutters DEF KilledAll, fileVars
<1>9. ASSUME NEW c \in Cmds, Drain(c) PROVE [Oci!Next]_<<Status, Over>>
  BY <1>9, <1>t, Stops DEF Drain, fileVars
<1>10. ASSUME NEW c \in Cmds, Wait(c) PROVE [Oci!Next]_<<Status, Over>>
  BY <1>10, Stutters DEF Wait, fileVars
<1>11. ASSUME NEW c \in Cmds, Destroy(c) PROVE [Oci!Next]_<<Status, Over>>
  BY <1>11, Stutters DEF Destroy
<1>12. ASSUME NEW c \in Cmds, Remove(c) PROVE [Oci!Next]_<<Status, Over>>
  <2>1. ~Fine(mine[c])  BY <1>12 DEF Remove, Ordered, Know, Past
  <2>2. mine[c] = 0 => state = 0  BY <1>12, <1>t DEF Remove, Ordered, Know, TCmds, Creating
  <2>3. ~Fine(state)  BY <2>1, <2>2, <1>z DEF Ordered, Know
  <2>4. state' = 0 /\ UNCHANGED procVars  BY <1>12 DEF Remove
  <2>5. CASE state = 0  BY <2>4, <2>5, Stutters
  <2>6. CASE state # 0
    <3>1. Over = TRUE /\ Over' = FALSE  BY <2>3, <2>4, <2>6 DEF Over, Fine
    <3>2. Status # "none" /\ Status' = "none"  BY <2>4, <2>6 DEF Status
    <3> QED BY <3>1, <3>2 DEF Oci!Next, Oci!Delete
  <2> QED BY <2>5, <2>6
<1>13. ASSUME NEW c \in Cmds, StartCheck(c) PROVE [Oci!Next]_<<Status, Over>>
  BY <1>13, Stutters DEF StartCheck, fileVars
<1>14. ASSUME NEW c \in Cmds, Release(c) PROVE [Oci!Next]_<<Status, Over>>
  BY <1>14, <1>d DEF Release
<1>15. ASSUME NEW c \in Cmds, ReleaseFails(c) PROVE [Oci!Next]_<<Status, Over>>
  BY <1>15, Stutters DEF ReleaseFails, fileVars
<1>16. ASSUME NEW c \in Cmds, Unlink(c) PROVE [Oci!Next]_<<Status, Over>>
  BY <1>16, Starts DEF Unlink, procVars, Present
<1>17. ASSUME NEW c \in Cmds, Supervised(c) PROVE [Oci!Next]_<<Status, Over>>
  BY <1>17, <1>t, Stops DEF Supervised, fileVars
<1>18. ASSUME NEW c \in Cmds, KillCheck(c) PROVE [Oci!Next]_<<Status, Over>>
  BY <1>18, Stutters DEF KillCheck, fileVars
<1>19. ASSUME NEW c \in Cmds, KillSend(c) PROVE [Oci!Next]_<<Status, Over>>
  BY <1>19, <1>d DEF KillSend
<1>20. ASSUME NEW c \in Cmds, DeleteLoad(c) PROVE [Oci!Next]_<<Status, Over>>
  BY <1>20, Stutters DEF DeleteLoad, fileVars
<1>21. ASSUME NEW c \in Cmds, Crash(c) PROVE [Oci!Next]_<<Status, Over>>
  BY <1>21, Stutters DEF Crash, fileVars
<1>22. ASSUME Fork PROVE [Oci!Next]_<<Status, Over>>
  <2>1. PICK d \in Members, p \in Pids : Born(p, proc[d].init)  BY <1>22 DEF Fork
  <2>2. proc[d].init \in 0..(Len(proc) + 1)
    <3>1. d \in 1..Len(proc) /\ proc[d].init \in 0..d  BY <1>t DEF TProc, Births, Members
    <3> QED BY <3>1, <1>z
  <2> QED BY <1>22, <2>1, <2>2, <1>b DEF Fork, fileVars
<1>23. ASSUME Stranger PROVE [Oci!Next]_<<Status, Over>>
  <2>1. PICK p \in Pids : Born(p, 0)  BY <1>23 DEF Stranger
  <2>2. 0 \in 0..(Len(proc) + 1)  BY <1>z
  <2> QED BY <1>23, <2>1, <2>2, <1>b DEF Stranger, fileVars
<1>24. ASSUME Die PROVE [Oci!Next]_<<Status, Over>>
  <2>1. PICK b \in live :
          /\ live' = IF pidNs /\ proc[b].init = b
                     THEN {d \in live : proc[d].init # b} ELSE live \ {b}
          /\ zombies' = zombies \cup {b}
    BY <1>24 DEF Die
  <2>2. UNCHANGED <<state, fifo>> /\ doomed' = doomed \cap live'  BY <1>24 DEF Die, fileVars
  <2>3. state # 0 => proc[state].init = state  BY DEF Ordered
  <2>4. state = 0 => state \notin Present /\ state \notin Present'
    BY <2>1, <1>z DEF Present, Births
  <2>5. state \in Present' <=> state \in Present  BY <2>1, <2>3, <2>4 DEF Present
  <2>6. Over => Over'  BY <2>1, <2>2 DEF Over
  <2> QED BY <2>2, <2>5, <2>6, Ends
<1>25. ASSUME Reap PROVE [Oci!Next]_<<Status, Over>>
  BY <1>25, <1>t, Stops DEF Reap, fileVars
<1> QED
  BY <1>w, <1>1, <1>2, <1>3, <1>4, <1>5, <1>6, <1>7, <1>8, <1>9, <1>10, <1>11, <1>12,
     <1>13, <1>14, <1>15, <1>16, <1>17, <1>18, <1>19, <1>20, <1>21, <1>22, <1>23, <1>24,
     <1>25 DEF Next, Command

(* With the caller's discipline Registry implements OciLifecycle: `mars    *)
(* state` answers none, created, running, stopped in that order, a stopped *)
(* container never comes back whoever has its pid, and an id is forgotten  *)
(* only when its init has ended or been sent a SIGKILL.                    *)
THEOREM Refinement == ASSUME Serial PROVE Spec => FollowsLifecycle
<1>1. Init => Oci!Init
  BY DEF Init, Oci!Init, Status, Over
<1>2. Init => Ordered  BY OrderedInit
<1>3. TypeOK /\ TypeOK' /\ Ordered /\ [Next]_vars => Ordered'  BY OrderedStep
<1>4. TypeOK /\ Ordered /\ [Next]_vars => [Oci!Next]_<<Status, Over>>  BY LifecycleStep
<1> QED BY <1>1, <1>2, <1>3, <1>4, TypeCorrect, PTL DEF Spec, FollowsLifecycle, Oci!Spec
=============================================================================
