----------------------------- MODULE ExecProofs -----------------------------
(***************************************************************************)
(* Proofs about Exec, and so about Freezer, for any number of commands on  *)
(* a container of any number of processes.  The inductive invariant has    *)
(* four parts: the kernel (World), what every command has seen and done    *)
(* (Work), who answers for the freezer (Use), and the exec'd child (Child, *)
(* Handles).                                                               *)
(***************************************************************************)
EXTENDS Exec, TLAPS

Cmd(o) == config.cmd[o]

(* The parts of TypeOK, for the provers.                                   *)
TypeProcs ==
  /\ live \subseteq born /\ zombies \subseteq born \ live /\ born \subseteq Proc
  /\ members \subseteq live /\ inside \subseteq live
  /\ dying \subseteq live /\ still \subseteq members
TypeFlags ==
  /\ request \in BOOLEAN /\ dir \in BOOLEAN /\ forgotten \in BOOLEAN
  /\ parentEnd \in BOOLEAN /\ told \in BOOLEAN /\ noPidFile \in BOOLEAN
TypeCmds ==
  /\ config \in Configs
  /\ pc \in [Ops -> {"load", "look", "freeze", "freezing", "list", "signal", "thaw", "thawing",
                     "await", "rmdir", "remove"} \cup Ended]
  /\ snap \in [Ops -> SUBSET Proc] /\ seen \in [Ops -> SUBSET Proc]
  /\ steady \subseteq Ops /\ stuck \subseteq Ops
TypeMarks == wasFrozen \in [Ops -> BOOLEAN] /\ failed \in [Ops -> BOOLEAN]
TypeExec ==
  /\ xpc \in {"load", "collect", "open", "procs", "join", "fork", "place", "send", "record",
              "supervise", "ok", "err", "crashed"}
  /\ kind \in 1 .. 4 /\ handles \subseteq Owned
  /\ child \in {"none", "await", "enter", "program"}

(* The kernel: nothing lives in a cgroup that is gone; what a command has  *)
(* seen frozen is frozen; a pid namespace ends with its init.              *)
World ==
  /\ ~dir => members = {}
  /\ steady # {} /\ dir => request /\ members \subseteq still
  /\ "init" \in live => "init" \in inside
  /\ config.pidNs /\ "init" \notin live => inside = {}

(* Where a command can be.                                                 *)
Places(o) ==
  /\ pc[o] \in {"look", "list", "signal"} => Cmd(o) \in {"killall", "delete"}
  /\ pc[o] \in {"freeze", "freezing"} => Cmd(o) \in {"pause", "killall"}
  /\ pc[o] \in {"thaw", "thawing"} => Cmd(o) \in {"resume", "killall", "delete"}
  /\ pc[o] \in {"await", "rmdir", "remove"} => Cmd(o) = "delete"

(* What a command remembers of the freezer.                                *)
Marks(o) ==
  /\ pc[o] \in {"load", "look"} => ~wasFrozen[o]
  /\ Cmd(o) = "killall" /\ pc[o] \in {"freeze", "freezing", "thaw", "thawing"} => ~wasFrozen[o]
  /\ Cmd(o) = "delete" /\ pc[o] \in {"thaw", "thawing"} => wasFrozen[o]
  /\ Cmd(o) \notin {"killall", "delete"} => ~failed[o]
  /\ pc[o] = "thawing" => o \notin steady

(* What kill --all has covered: listed, then killed or still to be.        *)
Covered(o) ==
  o \in steady /\ Cmd(o) = "killall" /\ pc[o] \in {"signal", "thaw", "ok"} =>
    /\ members \subseteq seen[o]
    /\ ~failed[o] /\ config.sig = "KILL" => members \subseteq snap[o] \cup dying

(* What delete --force has covered.                                        *)
Swept(o) ==
  Cmd(o) = "delete" =>
    /\ pc[o] \in {"load", "look"} => seen[o] = {}
    /\ pc[o] = "signal" => members \cap seen[o] \subseteq snap[o] \cup dying
    /\ pc[o] \in {"await", "rmdir", "remove", "ok"} => members \cap seen[o] \subseteq dying

Listed == \A o \in Ops : seen[o] \subseteq born

Patient == \A q \in stuck : Cmd(q) # "delete"

InitGone ==
  config.pidNs /\ Patient =>
    /\ forgotten => "init" \notin live
    /\ \A o \in Ops : Cmd(o) = "delete" /\ pc[o] \in {"rmdir", "remove", "ok"} => "init" \notin live

Work == Listed /\ InitGone /\ \A o \in Ops : Places(o) /\ Marks(o) /\ Covered(o) /\ Swept(o)

(* Who answers for a freeze request, and who for a pause that is over.     *)
Froze(o) ==
  \/ Cmd(o) = "pause" /\ pc[o] \in {"freezing"} \cup Ended
  \/ o \in stuck
  \/ Cmd(o) = "killall" /\ ~wasFrozen[o] /\ pc[o] \in {"freezing", "list", "signal", "thaw"}

Thawed(q) ==
  \/ Cmd(q) = "killall" /\ ~wasFrozen[q] /\ pc[q] # "load"
  \/ Cmd(q) = "delete" /\ wasFrozen[q]
  \/ Cmd(q) = "resume" /\ (pc[q] \in {"thawing", "ok"} \/ q \in stuck)

Use ==
  /\ request /\ dir => \E o \in Ops : Froze(o)
  /\ ~request => \A o \in Ops : Cmd(o) = "pause" /\ pc[o] = "ok" => \E q \in Ops : Thawed(q)

(* The exec'd child.                                                       *)
Before == {"load", "collect", "open", "procs", "join", "fork"}
Child ==
  /\ xpc \in Before => child = "none" /\ "exec" \notin born
  /\ xpc \in Before \cup {"place"} => "exec" \notin members /\ \A o \in Ops : "exec" \notin seen[o]
  /\ xpc \in Before \cup {"place", "send"} => ~told
  /\ xpc = "err" /\ ~noPidFile => ~told
  /\ child \in {"enter", "program"} => told
  /\ (told \/ xpc = "send") /\ "exec" \in live => "exec" \in members

(* The namespaces: what has been passed is open, unless the init is gone.  *)
Handles ==
  /\ xpc = "load" => kind = 1
  /\ xpc = "open" => kind \in 1 .. 3 /\ JoinOrder[kind] \in Owned
  /\ xpc \in {"collect", "open"} /\ "init" \in live =>
       \A i \in 1 .. 3 : i < kind /\ JoinOrder[i] \in Owned => JoinOrder[i] \in handles
  /\ (xpc \in {"procs", "join", "fork"} \/ child # "none") /\ "init" \in live => handles = Owned

Types == TypeProcs /\ TypeFlags /\ TypeCmds /\ TypeMarks /\ TypeExec

IInv == Types /\ World /\ Work /\ Use /\ Child /\ Handles

-----------------------------------------------------------------------------
(* TypeOK is the conjunction of its parts.                                 *)
LEMMA TypeParts == TypeOK <=> Types
<1>1. Len(JoinOrder) + 1 = 4
  BY DEF JoinOrder
<1> QED
  BY <1>1, Zenon DEF TypeOK, Types, TypeProcs, TypeFlags, TypeCmds, TypeMarks, TypeExec

(* The three namespaces in their order.                                    *)
LEMMA Order ==
  /\ Len(JoinOrder) = 3 /\ JoinOrder[1] = "user" /\ JoinOrder[2] = "pid" /\ JoinOrder[3] = "mnt"
  /\ config \in Configs => Owned \subseteq {"user", "pid", "mnt"}
BY ExecAssumption DEF JoinOrder, Owned

(* The initial states satisfy the invariant.                               *)
LEMMA InitIInv == Init => IInv
<1> SUFFICES ASSUME Init PROVE IInv
  OBVIOUS
<1> USE DEF Init, FreezerInit
<1>1. config \in Configs /\ \A o \in Ops : Cmd(o) \in Commands
  BY ConfigsAssumption DEF Cmd
<1>2. TypeProcs /\ TypeCmds /\ TypeExec
  BY DEF TypeProcs, TypeCmds, TypeExec, Proc, Ended
<1>3. TypeMarks /\ TypeFlags
  BY Zenon DEF TypeMarks, TypeFlags
<1>4. World /\ Child /\ Handles
  BY DEF World, Child, Handles, Before
<1>5. Work
  BY DEF Work, Listed, InitGone, Patient, Places, Marks, Covered, Swept
<1>6. Use
  BY DEF Use
<1> QED
  BY <1>2, <1>3, <1>4, <1>5, <1>6 DEF IInv, Types

-----------------------------------------------------------------------------
(* What a step leaves alone.                                               *)

(* Steps of exec that change nothing of the freezer and its commands.      *)
LEMMA FreezerKept ==
  ASSUME IInv, UNCHANGED freezerVars
  PROVE  /\ TypeProcs' /\ TypeCmds' /\ TypeMarks' /\ World' /\ Work' /\ Use'
         /\ request' = request /\ dir' = dir /\ forgotten' = forgotten
         /\ config' = config /\ live' = live /\ members' = members /\ born' = born /\ seen' = seen
<1> USE DEF IInv, Types, freezerVars, procs, freezer, cmds
<1>1. TypeProcs' /\ TypeCmds'
  BY DEF TypeProcs, TypeCmds
<1>2. TypeMarks'
  BY Zenon DEF TypeMarks
<1>3. World'
  BY DEF World
<1>4. Work'
  <2>1. Listed' /\ InitGone'
    BY DEF Work, Listed, InitGone, Patient, Cmd
  <2>2. ASSUME NEW o \in Ops PROVE (Places(o) /\ Marks(o) /\ Covered(o) /\ Swept(o))'
    BY DEF Work, Places, Marks, Covered, Swept, Cmd
  <2> QED
    BY <2>1, <2>2 DEF Work
<1>5. Use'
  BY DEF Use, Froze, Thawed, Cmd
<1> QED
  BY <1>1, <1>2, <1>3, <1>4, <1>5

(* Steps of the kernel and of the commands change nothing of exec.         *)
LEMMA ExecKept ==
  ASSUME IInv, UNCHANGED execVars, config' = config,
         "init" \in live' => "init" \in live,
         "exec" \in born' => "exec" \in born,
         "exec" \in members' => "exec" \in members,
         "exec" \in live' => "exec" \in live /\ ("exec" \in members => "exec" \in members'),
         \A o \in Ops : "exec" \in seen'[o] => "exec" \in seen[o] \/ "exec" \in members
  PROVE  TypeExec' /\ Child' /\ Handles' /\ UNCHANGED <<parentEnd, told, noPidFile>>
<1> USE DEF IInv, Types, execVars, Owned
<1>1. TypeExec'
  BY DEF TypeExec
<1>2. Child'
  BY DEF Child, Before
<1>3. Handles'
  BY DEF Handles
<1> QED
  BY <1>1, <1>2, <1>3

(* Steps of the kernel change nothing of the commands.                     *)
LEMMA WorkKept ==
  ASSUME IInv, UNCHANGED <<config, request, dir, forgotten, cmds>>, steady' \subseteq steady,
         born \subseteq born', "init" \in live' => "init" \in live,
         \A p \in members' : p \in members \/ (steady' = {} /\ \A o \in Ops : p \notin seen[o]),
         dying \cap members' \subseteq dying'
  PROVE  TypeCmds' /\ TypeMarks' /\ Work' /\ Use'
<1> USE DEF IInv, Types, cmds
<1>1. TypeCmds'
  BY DEF TypeCmds
<1>2. TypeMarks'
  BY Zenon DEF TypeMarks
<1>3. Work'
  <2>1. Listed' /\ InitGone'
    BY DEF Work, Listed, InitGone, Patient, Cmd
  <2>2. ASSUME NEW o \in Ops PROVE (Places(o) /\ Marks(o))'
    BY DEF Work, Places, Marks, Cmd
  <2>3. ASSUME NEW o \in Ops PROVE Covered(o)'
    BY DEF Work, Covered, Cmd
  <2>4. ASSUME NEW o \in Ops PROVE Swept(o)'
    BY DEF Work, Listed, Swept, Cmd
  <2> QED
    BY <2>1, <2>2, <2>3, <2>4 DEF Work
<1>4. Use'
  BY DEF Use, Froze, Thawed, Cmd
<1> QED
  BY <1>1, <1>2, <1>3, <1>4

-----------------------------------------------------------------------------
(* The kernel.                                                             *)

LEMMA KernelIInv == ASSUME IInv, KernelStep, UNCHANGED execVars PROVE IInv'
<1> USE DEF IInv, Types, TypeProcs, procs, freezer, cmds
<1>0. /\ {"init", "exec"} \cap Others = {} /\ "init" \in Proc /\ Others \subseteq Proc
      /\ \A q \in Others : q # "init" /\ q # "exec"
  BY ConfigsAssumption DEF Proc
<1>1. ASSUME NEW p \in Proc, Settle(p) PROVE IInv'
  <2> USE <1>1 DEF Settle
  <2>1. TypeProcs' /\ World'
    BY DEF World
  <2>2. TypeCmds' /\ TypeMarks' /\ Work' /\ Use'
    BY WorkKept
  <2>3. TypeExec' /\ Child' /\ Handles' /\ UNCHANGED <<parentEnd, told, noPidFile>>
    BY ExecKept
  <2>4. TypeFlags'
    BY <2>3, Zenon DEF TypeFlags
  <2> QED
    BY <2>1, <2>2, <2>3, <2>4
<1>2. ASSUME NEW p \in Proc, Exit(p) PROVE IInv'
  <2> USE <1>2 DEF Exit
  <2> DEFINE gone == IF p = "init" /\ config.pidNs THEN inside ELSE {p}
  <2>1. /\ p \in live /\ live' = live \ gone /\ members' = members \ gone
        /\ inside' = inside \ gone /\ still' = still \ gone /\ dying' = dying \ gone
        /\ zombies' = zombies \cup {p} /\ UNCHANGED <<config, born, request, dir, forgotten, cmds, steady>>
    OBVIOUS
  <2>2. p \in gone /\ gone \subseteq live
    BY DEF World
  <2> HIDE DEF Exit
  <2>3. TypeProcs'
    <3> HIDE DEF gone
    <3> QED
      BY <2>1, <2>2
  <2>4. World'
    BY <2>1, <2>2 DEF World
  <2> HIDE DEF gone
  <2>5. TypeCmds' /\ TypeMarks' /\ Work' /\ Use'
    BY <2>1, <2>2, WorkKept
  <2>6. TypeExec' /\ Child' /\ Handles' /\ UNCHANGED <<parentEnd, told, noPidFile>>
    BY <2>1, <2>2, ExecKept
  <2>7. TypeFlags'
    BY <2>1, <2>6, Zenon DEF TypeFlags
  <2> QED
    BY <2>3, <2>4, <2>5, <2>6, <2>7
<1>3. ASSUME NEW p \in Proc, Reap(p) PROVE IInv'
  <2> USE <1>3 DEF Reap
  <2>1. TypeProcs' /\ World'
    BY DEF World
  <2>2. TypeCmds' /\ TypeMarks' /\ Work' /\ Use'
    BY WorkKept
  <2>3. TypeExec' /\ Child' /\ Handles' /\ UNCHANGED <<parentEnd, told, noPidFile>>
    BY ExecKept
  <2>4. TypeFlags'
    BY <2>3, Zenon DEF TypeFlags
  <2> QED
    BY <2>1, <2>2, <2>3, <2>4
<1>4. ASSUME NEW p \in Proc, NEW q \in Others, Fork(p, q) PROVE IInv'
  <2> USE <1>4 DEF Fork
  <2>1. dir /\ steady = {}
    BY DEF World
  <2>2. TypeProcs' /\ World'
    BY <1>0, <2>1 DEF World
  <2>3. TypeCmds' /\ TypeMarks' /\ Work' /\ Use'
    <3>1. \A o \in Ops : q \notin seen[o]
      BY DEF Work, Listed
    <3> QED
      BY <1>0, <2>1, <3>1, WorkKept
  <2>4. TypeExec' /\ Child' /\ Handles' /\ UNCHANGED <<parentEnd, told, noPidFile>>
    BY <1>0, ExecKept
  <2>5. TypeFlags'
    BY <2>4, Zenon DEF TypeFlags
  <2> QED
    BY <2>2, <2>3, <2>4, <2>5
<1> QED
  BY <1>1, <1>2, <1>3, <1>4 DEF KernelStep

-----------------------------------------------------------------------------
(* The commands.                                                           *)

(* A step of o leaves what the other commands remember alone.              *)
Apart(o) ==
  \A q \in Ops \ {o} :
    /\ pc'[q] = pc[q] /\ wasFrozen'[q] = wasFrozen[q] /\ snap'[q] = snap[q]
    /\ failed'[q] = failed[q] /\ seen'[q] = seen[q]
    /\ q \in steady' => q \in steady

(* What o does to the freezer, it answers for.                             *)
Answers(o) ==
  /\ request' /\ dir' => Froze(o)' \/ (request /\ dir /\ ~Froze(o))
  /\ ~request' => \/ Thawed(o)'
                  \/ /\ ~request /\ ~Thawed(o)
                     /\ Cmd(o) = "pause" /\ pc'[o] = "ok" => pc[o] = "ok"

(* A delete goes on only when the init is gone, or it has waited in vain.  *)
Waited(o) ==
  /\ forgotten' => forgotten \/ (Cmd(o) = "delete" /\ pc[o] = "remove")
  /\ Cmd(o) = "delete" /\ pc'[o] \in {"rmdir", "remove", "ok"} =>
       pc[o] \in {"rmdir", "remove"} \/ forgotten \/ "init" \notin live \/ o \in stuck'

(* A step of a command, from what it does for itself.                      *)
LEMMA CommandStep ==
  ASSUME IInv, NEW o \in Ops, UNCHANGED <<config, procs>>, dying \subseteq dying',
         stuck \subseteq stuck', Apart(o), Answers(o), Waited(o), seen'[o] \subseteq born,
         (Places(o) /\ Marks(o) /\ Covered(o) /\ Swept(o))'
  PROVE  Work' /\ Use'
<1> USE DEF IInv, Types, procs, Apart
<1>1. Listed'
  BY DEF Work, Listed
<1>2. InitGone'
  <2> SUFFICES ASSUME config.pidNs, Patient'
               PROVE  /\ forgotten' => "init" \notin live
                      /\ \A q \in Ops : Cmd(q) = "delete" /\ pc'[q] \in {"rmdir", "remove", "ok"}
                                        => "init" \notin live
    BY DEF InitGone, Cmd
  <2>1. Patient /\ (Cmd(o) = "delete" => o \notin stuck')
    BY DEF Patient, Cmd
  <2> QED
    BY <2>1 DEF Work, InitGone, Waited
<1>3. ASSUME NEW q \in Ops \ {o} PROVE (Places(q) /\ Marks(q) /\ Covered(q) /\ Swept(q))'
  <2>1. (Places(q) /\ Marks(q))'
    BY DEF Work, Places, Marks, Cmd
  <2>2. Covered(q)' /\ Swept(q)'
    BY DEF Work, Covered, Swept, Cmd
  <2> QED
    BY <2>1, <2>2
<1>4. Work'
  BY <1>1, <1>2, <1>3 DEF Work
<1>5. \A q \in Ops \ {o} : (Froze(q) => Froze(q)') /\ (Thawed(q) => Thawed(q)') /\ Cmd(q)' = Cmd(q)
  BY DEF Froze, Thawed, Cmd
<1>6. Use'
  <2>1. ASSUME request', dir' PROVE \E q \in Ops : Froze(q)'
    BY <2>1, <1>5 DEF Use, Answers
  <2>2. ASSUME ~request', NEW p \in Ops, Cmd(p) = "pause", pc'[p] = "ok"
        PROVE  \E q \in Ops : Thawed(q)'
    BY <2>2, <1>5 DEF Use, Answers
  <2> QED
    BY <2>1, <2>2 DEF Use, Cmd
<1> QED
  BY <1>4, <1>6

(* Everything that goes on in such a step.                                 *)
LEMMA CommandIInv ==
  ASSUME IInv, NEW o \in Ops, UNCHANGED execVars, UNCHANGED <<config, procs>>,
         dying \subseteq dying', dying' \subseteq live, still' \subseteq members,
         stuck \subseteq stuck', Apart(o), Answers(o), Waited(o), seen'[o] \subseteq members \cup seen[o],
         (Places(o) /\ Marks(o) /\ Covered(o) /\ Swept(o))',
         TypeCmds', TypeMarks', World',
         request' \in BOOLEAN, dir' \in BOOLEAN, forgotten' \in BOOLEAN
  PROVE  IInv'
<1> USE DEF IInv, Types
<1>1. TypeProcs'
  BY DEF TypeProcs, procs
<1>2. Work' /\ Use'
  <2>1. seen'[o] \subseteq born
    BY DEF TypeProcs, Work, Listed
  <2> QED
    BY <2>1, CommandStep
<1>3. TypeExec' /\ Child' /\ Handles' /\ UNCHANGED <<parentEnd, told, noPidFile>>
  <2>1. \A q \in Ops : "exec" \in seen'[q] => "exec" \in seen[q] \/ "exec" \in members
    BY DEF Apart
  <2> QED
    BY <2>1, ExecKept DEF procs
<1>4. TypeFlags'
  BY <1>3, Zenon DEF TypeFlags
<1> QED
  BY <1>1, <1>2, <1>3, <1>4

(* The functions of the commands.                                          *)
LEMMA Domains ==
  ASSUME IInv
  PROVE  /\ DOMAIN wasFrozen = Ops /\ DOMAIN failed = Ops /\ DOMAIN pc = Ops
         /\ DOMAIN snap = Ops /\ DOMAIN seen = Ops /\ config \in Configs
         /\ \A q \in Ops : Cmd(q) \in Commands
<1>1. DOMAIN wasFrozen = Ops /\ DOMAIN failed = Ops
  BY Zenon DEF IInv, Types, TypeMarks
<1>2. /\ DOMAIN pc = Ops /\ DOMAIN snap = Ops /\ DOMAIN seen = Ops /\ config \in Configs
  BY DEF IInv, Types, TypeCmds
<1> QED
  BY <1>1, <1>2, ConfigsAssumption DEF Cmd

-----------------------------------------------------------------------------
(* Container::load and what is required of the status.                     *)
LEMMA LoadIInv == ASSUME IInv, NEW o \in Ops, Load(o), UNCHANGED execVars PROVE IInv'
<1> USE Domains DEF IInv, Types, Load, Goto, procs, freezer, cmds
<1>1. TypeCmds'
  BY DEF TypeCmds, Ended, Cmd, Commands
<1>2. TypeMarks'
  BY Zenon DEF TypeMarks
<1>3. World'
  BY DEF World, Frozen, TypeProcs, WriteFreeze
<1>4. Apart(o)
  BY DEF Apart, WriteFreeze
<1>5. Answers(o)
  BY DEF Answers, Froze, Thawed, Cmd, Work, Places, Marks, Ended, Frozen, WriteFreeze, Commands
<1>6. Waited(o)
  BY DEF Waited, Cmd, Status, Alive, Work, Places
<1>7. Places(o)' /\ Marks(o)'
  BY DEF Places, Marks, Cmd, Ended, Work, WriteFreeze, Commands
<1>8. Covered(o)' /\ Swept(o)'
  BY DEF Covered, Swept, Cmd, Work, Places, World, WriteFreeze
<1>9. /\ request' \in BOOLEAN /\ dir' \in BOOLEAN /\ forgotten' \in BOOLEAN
  BY Zenon DEF TypeFlags, WriteFreeze
<1>10. dying \subseteq dying' /\ dying' \subseteq live /\ still' \subseteq members
  BY DEF TypeProcs, WriteFreeze
<1> HIDE DEF IInv, Types, Load
<1> QED
  BY <1>1, <1>2, <1>3, <1>4, <1>5, <1>6, <1>7, <1>8, <1>9, <1>10, CommandIInv DEF Load

(* The look at the freezer before a kill --all or delete --force.          *)
LEMMA LookIInv == ASSUME IInv, NEW o \in Ops, Look(o), UNCHANGED execVars PROVE IInv'
<1> USE Domains DEF IInv, Types, Look, Goto, procs, freezer, cmds
<1>1. TypeCmds'
  BY DEF TypeCmds, Ended
<1>2. TypeMarks'
  <2>1. Frozen \in BOOLEAN
    BY DEF Frozen
  <2> QED
    BY <2>1, Zenon DEF TypeMarks
<1>3. World'
  BY DEF World, Frozen, TypeProcs, WriteFreeze
<1>4. Apart(o)
  BY DEF Apart, WriteFreeze
<1>5. Answers(o)
  BY DEF Answers, Froze, Thawed, Cmd, Work, Places, Marks, Ended, Frozen, WriteFreeze, Commands
<1>6. Waited(o)
  BY DEF Waited, Cmd, Status, Alive, Work, Places
<1>7. Places(o)' /\ Marks(o)'
  BY DEF Places, Marks, Cmd, Ended, Work, WriteFreeze, Commands
<1>8. Covered(o)' /\ Swept(o)'
  BY DEF Covered, Swept, Cmd, Work, Places, World, WriteFreeze
<1>9. /\ request' \in BOOLEAN /\ dir' \in BOOLEAN /\ forgotten' \in BOOLEAN
  BY Zenon DEF TypeFlags, WriteFreeze
<1>10. dying \subseteq dying' /\ dying' \subseteq live /\ still' \subseteq members
  BY DEF TypeProcs, WriteFreeze
<1> HIDE DEF IInv, Types, Look
<1> QED
  BY <1>1, <1>2, <1>3, <1>4, <1>5, <1>6, <1>7, <1>8, <1>9, <1>10, CommandIInv DEF Look

(* The write that asks for the freeze.                                     *)
LEMMA FreezeIInv == ASSUME IInv, NEW o \in Ops, Freeze(o), UNCHANGED execVars PROVE IInv'
<1> USE Domains DEF IInv, Types, Freeze, Goto, procs, freezer, cmds
<1>1. TypeCmds'
  BY DEF TypeCmds, Ended, WriteFreeze
<1>2. TypeMarks'
  BY Zenon DEF TypeMarks
<1>3. World'
  BY DEF World, Frozen, TypeProcs, WriteFreeze
<1>4. Apart(o)
  BY DEF Apart, WriteFreeze
<1>5. Answers(o)
  BY DEF Answers, Froze, Thawed, Cmd, Work, Places, Marks, Ended, Frozen, WriteFreeze, Commands
<1>6. Waited(o)
  BY DEF Waited, Cmd, Status, Alive, Work, Places
<1>7. Places(o)' /\ Marks(o)'
  BY DEF Places, Marks, Cmd, Ended, Work, WriteFreeze, Commands
<1>8. Covered(o)' /\ Swept(o)'
  BY DEF Covered, Swept, Cmd, Work, Places, World, WriteFreeze
<1>9. /\ request' \in BOOLEAN /\ dir' \in BOOLEAN /\ forgotten' \in BOOLEAN
  BY Zenon DEF TypeFlags, WriteFreeze
<1>10. dying \subseteq dying' /\ dying' \subseteq live /\ still' \subseteq members
  BY DEF TypeProcs, WriteFreeze
<1> HIDE DEF IInv, Types, Freeze
<1> QED
  BY <1>1, <1>2, <1>3, <1>4, <1>5, <1>6, <1>7, <1>8, <1>9, <1>10, CommandIInv DEF Freeze

(* The freeze is there.                                                    *)
LEMMA AwaitFrozenIInv == ASSUME IInv, NEW o \in Ops, AwaitFrozen(o), UNCHANGED execVars PROVE IInv'
<1> USE Domains DEF IInv, Types, AwaitFrozen, Goto, procs, freezer, cmds
<1>1. TypeCmds'
  BY DEF TypeCmds, Ended
<1>2. TypeMarks'
  BY Zenon DEF TypeMarks
<1>3. World'
  BY DEF World, Frozen, TypeProcs, WriteFreeze
<1>4. Apart(o)
  BY DEF Apart, WriteFreeze
<1>5. Answers(o)
  BY DEF Answers, Froze, Thawed, Cmd, Work, Places, Marks, Ended, Frozen, WriteFreeze, Commands
<1>6. Waited(o)
  BY DEF Waited, Cmd, Status, Alive, Work, Places
<1>7. Places(o)' /\ Marks(o)'
  BY DEF Places, Marks, Cmd, Ended, Work, WriteFreeze, Commands
<1>8. Covered(o)' /\ Swept(o)'
  BY DEF Covered, Swept, Cmd, Work, Places, World, WriteFreeze
<1>9. /\ request' \in BOOLEAN /\ dir' \in BOOLEAN /\ forgotten' \in BOOLEAN
  BY Zenon DEF TypeFlags, WriteFreeze
<1>10. dying \subseteq dying' /\ dying' \subseteq live /\ still' \subseteq members
  BY DEF TypeProcs, WriteFreeze
<1> HIDE DEF IInv, Types, AwaitFrozen
<1> QED
  BY <1>1, <1>2, <1>3, <1>4, <1>5, <1>6, <1>7, <1>8, <1>9, <1>10, CommandIInv DEF AwaitFrozen

(* 500 looks were not enough.                                              *)
LEMMA GivesUpIInv == ASSUME IInv, NEW o \in Ops, GivesUp(o), UNCHANGED execVars PROVE IInv'
<1> USE Domains DEF IInv, Types, GivesUp, Goto, procs, freezer, cmds
<1>1. TypeCmds'
  BY DEF TypeCmds, Ended
<1>2. TypeMarks'
  BY Zenon DEF TypeMarks
<1>3. World'
  BY DEF World, Frozen, TypeProcs, WriteFreeze
<1>4. Apart(o)
  BY DEF Apart, WriteFreeze
<1>5. Answers(o)
  BY DEF Answers, Froze, Thawed, Cmd, Work, Places, Marks, Ended, Frozen, WriteFreeze, Commands
<1>6. Waited(o)
  BY DEF Waited, Cmd, Status, Alive, Work, Places
<1>7. Places(o)' /\ Marks(o)'
  BY DEF Places, Marks, Cmd, Ended, Work, WriteFreeze, Commands
<1>8. Covered(o)' /\ Swept(o)'
  BY DEF Covered, Swept, Cmd, Work, Places, World, WriteFreeze
<1>9. /\ request' \in BOOLEAN /\ dir' \in BOOLEAN /\ forgotten' \in BOOLEAN
  BY Zenon DEF TypeFlags, WriteFreeze
<1>10. dying \subseteq dying' /\ dying' \subseteq live /\ still' \subseteq members
  BY DEF TypeProcs, WriteFreeze
<1> HIDE DEF IInv, Types, GivesUp
<1> QED
  BY <1>1, <1>2, <1>3, <1>4, <1>5, <1>6, <1>7, <1>8, <1>9, <1>10, CommandIInv DEF GivesUp

(* The list of pids.                                                       *)
LEMMA ListIInv == ASSUME IInv, NEW o \in Ops, List(o), UNCHANGED execVars PROVE IInv'
<1> USE Domains DEF IInv, Types, List, Goto, procs, freezer, cmds
<1>1. TypeCmds'
  BY DEF TypeCmds, TypeProcs, Ended
<1>2. TypeMarks'
  BY Zenon DEF TypeMarks
<1>3. World'
  BY DEF World, Frozen, TypeProcs, WriteFreeze
<1>4. Apart(o)
  BY DEF Apart, WriteFreeze
<1>5. Answers(o)
  BY DEF Answers, Froze, Thawed, Cmd, Work, Places, Marks, Ended, Frozen, WriteFreeze, Commands
<1>6. Waited(o)
  BY DEF Waited, Cmd, Status, Alive, Work, Places
<1>7. Places(o)' /\ Marks(o)'
  BY DEF Places, Marks, Cmd, Ended, Work, WriteFreeze, Commands
<1>8. Covered(o)' /\ Swept(o)'
  BY DEF Covered, Swept, Cmd, Work, Places, World, WriteFreeze
<1>9. /\ request' \in BOOLEAN /\ dir' \in BOOLEAN /\ forgotten' \in BOOLEAN
  BY Zenon DEF TypeFlags, WriteFreeze
<1>10. dying \subseteq dying' /\ dying' \subseteq live /\ still' \subseteq members
  BY DEF TypeProcs, WriteFreeze
<1> HIDE DEF IInv, Types, List
<1> QED
  BY <1>1, <1>2, <1>3, <1>4, <1>5, <1>6, <1>7, <1>8, <1>9, <1>10, CommandIInv DEF List

(* The list is done.                                                       *)
LEMMA KilledAllIInv == ASSUME IInv, NEW o \in Ops, KilledAll(o), UNCHANGED execVars PROVE IInv'
<1> USE Domains DEF IInv, Types, KilledAll, Goto, procs, freezer, cmds
<1>0. /\ Cmd(o) \in {"killall", "delete"}
      /\ Cmd(o) = "delete" => pc'[o] = "await"
      /\ Cmd(o) = "killall" => pc'[o] = IF wasFrozen[o] THEN IF failed[o] THEN "err" ELSE "ok"
                                       ELSE "thaw"
  BY DEF Work, Places, Cmd
<1>1. TypeCmds'
  BY <1>0 DEF TypeCmds, Ended
<1>2. TypeMarks'
  BY Zenon DEF TypeMarks
<1>3. World'
  BY DEF World, Frozen, TypeProcs, WriteFreeze
<1>4. Apart(o)
  BY DEF Apart, WriteFreeze
<1>5. Answers(o)
  BY <1>0 DEF Answers, Froze, Thawed, Cmd, Work, Places, Marks, Ended, Frozen, WriteFreeze, Commands
<1>6. Waited(o)
  BY <1>0 DEF Waited, Cmd, Status, Alive, Work, Places
<1>7. Places(o)' /\ Marks(o)'
  BY <1>0 DEF Places, Marks, Cmd, Ended, Work, WriteFreeze, Commands
<1>8. Covered(o)' /\ Swept(o)'
  BY <1>0 DEF Covered, Swept, Cmd, Work, Places, World, WriteFreeze
<1>9. /\ request' \in BOOLEAN /\ dir' \in BOOLEAN /\ forgotten' \in BOOLEAN
  BY Zenon DEF TypeFlags, WriteFreeze
<1>10. dying \subseteq dying' /\ dying' \subseteq live /\ still' \subseteq members
  BY DEF TypeProcs, WriteFreeze
<1> HIDE DEF IInv, Types, KilledAll
<1> QED
  BY <1>1, <1>2, <1>3, <1>4, <1>5, <1>6, <1>7, <1>8, <1>9, <1>10, CommandIInv DEF KilledAll

(* The write that asks for the thaw.                                       *)
LEMMA ThawIInv == ASSUME IInv, NEW o \in Ops, Thaw(o), UNCHANGED execVars PROVE IInv'
<1> USE Domains DEF IInv, Types, Thaw, Goto, procs, freezer, cmds
<1>1. TypeCmds'
  BY DEF TypeCmds, Ended, WriteFreeze
<1>2. TypeMarks'
  BY Zenon DEF TypeMarks
<1>3. World'
  BY DEF World, Frozen, TypeProcs, WriteFreeze
<1>4. Apart(o)
  BY DEF Apart, WriteFreeze
<1>5. Answers(o)
  BY DEF Answers, Froze, Thawed, Cmd, Work, Places, Marks, Ended, Frozen, WriteFreeze, Commands
<1>6. Waited(o)
  BY DEF Waited, Cmd, Status, Alive, Work, Places
<1>7. Places(o)' /\ Marks(o)'
  BY DEF Places, Marks, Cmd, Ended, Work, WriteFreeze, Commands
<1>8. Covered(o)' /\ Swept(o)'
  BY DEF Covered, Swept, Cmd, Work, Places, World, WriteFreeze
<1>9. /\ request' \in BOOLEAN /\ dir' \in BOOLEAN /\ forgotten' \in BOOLEAN
  BY Zenon DEF TypeFlags, WriteFreeze
<1>10. dying \subseteq dying' /\ dying' \subseteq live /\ still' \subseteq members
  BY DEF TypeProcs, WriteFreeze
<1> HIDE DEF IInv, Types, Thaw
<1> QED
  BY <1>1, <1>2, <1>3, <1>4, <1>5, <1>6, <1>7, <1>8, <1>9, <1>10, CommandIInv DEF Thaw

(* The thaw is there.                                                      *)
LEMMA AwaitThawedIInv == ASSUME IInv, NEW o \in Ops, AwaitThawed(o), UNCHANGED execVars PROVE IInv'
<1> USE Domains DEF IInv, Types, AwaitThawed, Goto, procs, freezer, cmds
<1>1. TypeCmds'
  BY DEF TypeCmds, Ended
<1>2. TypeMarks'
  BY Zenon DEF TypeMarks
<1>3. World'
  BY DEF World, Frozen, TypeProcs, WriteFreeze
<1>4. Apart(o)
  BY DEF Apart, WriteFreeze
<1>5. Answers(o)
  BY DEF Answers, Froze, Thawed, Cmd, Work, Places, Marks, Ended, Frozen, WriteFreeze, Commands
<1>6. Waited(o)
  BY DEF Waited, Cmd, Status, Alive, Work, Places
<1>7. Places(o)' /\ Marks(o)'
  BY DEF Places, Marks, Cmd, Ended, Work, WriteFreeze, Commands
<1>8. Covered(o)' /\ Swept(o)'
  BY DEF Covered, Swept, Marks, Cmd, Work
<1>9. /\ request' \in BOOLEAN /\ dir' \in BOOLEAN /\ forgotten' \in BOOLEAN
  BY Zenon DEF TypeFlags, WriteFreeze
<1>10. dying \subseteq dying' /\ dying' \subseteq live /\ still' \subseteq members
  BY DEF TypeProcs, WriteFreeze
<1> HIDE DEF IInv, Types, AwaitThawed
<1> QED
  BY <1>1, <1>2, <1>3, <1>4, <1>5, <1>6, <1>7, <1>8, <1>9, <1>10, CommandIInv DEF AwaitThawed

(* delete has waited for the init.                                         *)
LEMMA AwaitGoneIInv == ASSUME IInv, NEW o \in Ops, AwaitGone(o), UNCHANGED execVars PROVE IInv'
<1> USE Domains DEF IInv, Types, AwaitGone, Goto, procs, freezer, cmds
<1>1. TypeCmds'
  BY DEF TypeCmds, Ended
<1>2. TypeMarks'
  BY Zenon DEF TypeMarks
<1>3. World'
  BY DEF World, Frozen, TypeProcs, WriteFreeze
<1>4. Apart(o)
  BY DEF Apart, WriteFreeze
<1>5. Answers(o)
  BY DEF Answers, Froze, Thawed, Cmd, Work, Places, Marks, Ended, Frozen, WriteFreeze, Commands
<1>6. Waited(o)
  BY DEF Waited, Cmd, Status, Alive, Work, Places
<1>7. Places(o)' /\ Marks(o)'
  BY DEF Places, Marks, Cmd, Ended, Work, WriteFreeze, Commands
<1>8. Covered(o)' /\ Swept(o)'
  BY DEF Covered, Swept, Cmd, Work, Places, World, WriteFreeze
<1>9. /\ request' \in BOOLEAN /\ dir' \in BOOLEAN /\ forgotten' \in BOOLEAN
  BY Zenon DEF TypeFlags, WriteFreeze
<1>10. dying \subseteq dying' /\ dying' \subseteq live /\ still' \subseteq members
  BY DEF TypeProcs, WriteFreeze
<1> HIDE DEF IInv, Types, AwaitGone
<1> QED
  BY <1>1, <1>2, <1>3, <1>4, <1>5, <1>6, <1>7, <1>8, <1>9, <1>10, CommandIInv DEF AwaitGone

(* The cgroup is removed, or stays.                                        *)
LEMMA RmdirIInv == ASSUME IInv, NEW o \in Ops, Rmdir(o), UNCHANGED execVars PROVE IInv'
<1> USE Domains DEF IInv, Types, Rmdir, Goto, procs, freezer, cmds
<1>1. TypeCmds'
  BY DEF TypeCmds, Ended
<1>2. TypeMarks'
  BY Zenon DEF TypeMarks
<1>3. World'
  BY DEF World, Frozen, TypeProcs, WriteFreeze
<1>4. Apart(o)
  BY DEF Apart, WriteFreeze
<1>5. Answers(o)
  BY DEF Answers, Froze, Thawed, Cmd, Work, Places, Marks, Ended, Frozen, WriteFreeze, Commands
<1>6. Waited(o)
  BY DEF Waited, Cmd, Status, Alive, Work, Places
<1>7. Places(o)' /\ Marks(o)'
  BY DEF Places, Marks, Cmd, Ended, Work, WriteFreeze, Commands
<1>8. Covered(o)' /\ Swept(o)'
  BY DEF Covered, Swept, Cmd, Work, Places, World, WriteFreeze
<1>9. /\ request' \in BOOLEAN /\ dir' \in BOOLEAN /\ forgotten' \in BOOLEAN
  BY Zenon DEF TypeFlags, WriteFreeze
<1>10. dying \subseteq dying' /\ dying' \subseteq live /\ still' \subseteq members
  BY DEF TypeProcs, WriteFreeze
<1> HIDE DEF IInv, Types, Rmdir
<1> QED
  BY <1>1, <1>2, <1>3, <1>4, <1>5, <1>6, <1>7, <1>8, <1>9, <1>10, CommandIInv DEF Rmdir

(* The state directory is removed.                                         *)
LEMMA RemoveIInv == ASSUME IInv, NEW o \in Ops, Remove(o), UNCHANGED execVars PROVE IInv'
<1> USE Domains DEF IInv, Types, Remove, Goto, procs, freezer, cmds
<1>1. TypeCmds'
  BY DEF TypeCmds, Ended
<1>2. TypeMarks'
  BY Zenon DEF TypeMarks
<1>3. World'
  BY DEF World, Frozen, TypeProcs, WriteFreeze
<1>4. Apart(o)
  BY DEF Apart, WriteFreeze
<1>5. Answers(o)
  BY DEF Answers, Froze, Thawed, Cmd, Work, Places, Marks, Ended, Frozen, WriteFreeze, Commands
<1>6. Waited(o)
  BY DEF Waited, Cmd, Status, Alive, Work, Places
<1>7. Places(o)' /\ Marks(o)'
  BY DEF Places, Marks, Cmd, Ended, Work, WriteFreeze, Commands
<1>8. Covered(o)' /\ Swept(o)'
  BY DEF Covered, Swept, Cmd, Work, Places, World, WriteFreeze
<1>9. /\ request' \in BOOLEAN /\ dir' \in BOOLEAN /\ forgotten' \in BOOLEAN
  BY Zenon DEF TypeFlags, WriteFreeze
<1>10. dying \subseteq dying' /\ dying' \subseteq live /\ still' \subseteq members
  BY DEF TypeProcs, WriteFreeze
<1> HIDE DEF IInv, Types, Remove
<1> QED
  BY <1>1, <1>2, <1>3, <1>4, <1>5, <1>6, <1>7, <1>8, <1>9, <1>10, CommandIInv DEF Remove

(* The command itself is killed.                                           *)
LEMMA KilledIInv == ASSUME IInv, NEW o \in Ops, Killed(o), UNCHANGED execVars PROVE IInv'
<1> USE Domains DEF IInv, Types, Killed, Goto, procs, freezer, cmds
<1>1. TypeCmds'
  BY DEF TypeCmds, Ended
<1>2. TypeMarks'
  BY Zenon DEF TypeMarks
<1>3. World'
  BY DEF World, Frozen, TypeProcs, WriteFreeze
<1>4. Apart(o)
  BY DEF Apart, WriteFreeze
<1>5. Answers(o)
  BY DEF Answers, Froze, Thawed, Cmd, Work, Places, Marks, Ended, Frozen, WriteFreeze, Commands
<1>6. Waited(o)
  BY DEF Waited, Cmd, Status, Alive, Work, Places
<1>7. Places(o)' /\ Marks(o)'
  BY DEF Places, Marks, Cmd, Ended, Work, WriteFreeze, Commands
<1>8. Covered(o)' /\ Swept(o)'
  BY DEF Covered, Swept, Cmd, Work, Places, World, WriteFreeze
<1>9. /\ request' \in BOOLEAN /\ dir' \in BOOLEAN /\ forgotten' \in BOOLEAN
  BY Zenon DEF TypeFlags, WriteFreeze
<1>10. dying \subseteq dying' /\ dying' \subseteq live /\ still' \subseteq members
  BY DEF TypeProcs, WriteFreeze
<1> HIDE DEF IInv, Types, Killed
<1> QED
  BY <1>1, <1>2, <1>3, <1>4, <1>5, <1>6, <1>7, <1>8, <1>9, <1>10, CommandIInv DEF Killed

(* One kill(2).                                                            *)
LEMMA KillOneIInv == ASSUME IInv, NEW o \in Ops, NEW p \in Proc, KillOne(o, p), UNCHANGED execVars PROVE IInv'
<1> USE Domains DEF IInv, Types, KillOne, Goto, procs, freezer, cmds
<1>1. TypeCmds'
  BY DEF TypeCmds, Ended
<1>2. TypeMarks'
  BY Zenon DEF TypeMarks
<1>3. World'
  BY DEF World, Frozen, TypeProcs, WriteFreeze
<1>4. Apart(o)
  BY DEF Apart, WriteFreeze
<1>5. Answers(o)
  BY DEF Answers, Froze, Thawed, Cmd, Work, Places, Marks, Ended, Frozen, WriteFreeze, Commands
<1>6. Waited(o)
  BY DEF Waited, Cmd, Status, Alive, Work, Places
<1>7. Places(o)' /\ Marks(o)'
  BY DEF Places, Marks, Cmd, Ended, Work, WriteFreeze, Commands
<1>8. Covered(o)'
  <2>1. /\ members \subseteq live /\ members' = members /\ steady' = steady /\ pc' = pc /\ seen' = seen
        /\ ~failed'[o] => ~failed[o] /\ (snap'[o] = snap[o] \ {p})
        /\ p \in live /\ config.sig = "KILL" /\ Cmd(o) = "killall" => p \in dying'
        /\ dying \subseteq dying'
    BY DEF TypeProcs, Signal, Cmd
  <2> QED
    BY <2>1 DEF Covered, Cmd, Work
<1>11. Swept(o)'
  <2>1. /\ members \subseteq live /\ members' = members /\ pc' = pc /\ seen' = seen
        /\ Cmd(o) = "delete" => snap'[o] = snap[o] \ {p} /\ (p \in live => p \in dying')
        /\ dying \subseteq dying'
    BY DEF TypeProcs, Signal, Cmd
  <2> QED
    BY <2>1 DEF Swept, Cmd, Work
<1>9. /\ request' \in BOOLEAN /\ dir' \in BOOLEAN /\ forgotten' \in BOOLEAN
  BY Zenon DEF TypeFlags, WriteFreeze
<1>10. dying \subseteq dying' /\ dying' \subseteq live /\ still' \subseteq members
  BY DEF TypeProcs, WriteFreeze
<1> HIDE DEF IInv, Types, KillOne
<1> QED
  BY <1>1, <1>2, <1>3, <1>4, <1>5, <1>6, <1>7, <1>8, <1>9, <1>10, <1>11, CommandIInv DEF KillOne

(* Every step of a command.                                                *)
LEMMA CommandsIInv ==
  ASSUME IInv, NEW o \in Ops, Command(o) \/ Killed(o), UNCHANGED execVars PROVE IInv'
BY LoadIInv, LookIInv, FreezeIInv, AwaitFrozenIInv, GivesUpIInv, ListIInv, KillOneIInv,
   KilledAllIInv, ThawIInv, AwaitThawedIInv, AwaitGoneIInv, RmdirIInv, RemoveIInv, KilledIInv
   DEF Command

-----------------------------------------------------------------------------
(* exec and its child.                                                     *)

(* Steps of exec on its own.                                               *)
LEMMA AloneIInv ==
  ASSUME IInv, UNCHANGED freezerVars, TypeExec', Child', Handles',
         parentEnd' \in BOOLEAN, told' \in BOOLEAN, noPidFile' \in BOOLEAN
  PROVE  IInv'
<1>1. TypeFlags'
  BY FreezerKept, Zenon DEF IInv, Types, TypeFlags
<1> QED
  BY <1>1, FreezerKept DEF IInv, Types

(* The status, and what is refused at once.                                *)
LEMMA CheckIInv == ASSUME IInv, Check PROVE IInv'
<1> USE Order DEF Check, XGoto, Return, Begun
<1>1. UNCHANGED freezerVars
  OBVIOUS
<1>2. /\ config \in Configs /\ live' = live /\ members' = members /\ born' = born /\ seen' = seen
      /\ config' = config
  BY <1>1, FreezerKept DEF IInv, Types, TypeCmds
<1>3. TypeExec'
  BY <1>2 DEF IInv, Types, TypeExec, Owned
<1>4. Child'
  BY <1>2 DEF IInv, Child, Before
<1>5. Handles'
  BY <1>2 DEF IInv, Handles, Types, TypeExec, Child, Before, Owned, Visible
<1>6. parentEnd' \in BOOLEAN /\ told' \in BOOLEAN /\ noPidFile' \in BOOLEAN
  BY Zenon DEF IInv, Types, TypeFlags
<1> QED
  BY <1>1, <1>3, <1>4, <1>5, <1>6, AloneIInv

(* One kind of namespace is looked for.                                    *)
LEMMA CollectIInv == ASSUME IInv, Collect PROVE IInv'
<1> USE Order DEF Collect, XGoto, Return, Begun
<1>1. UNCHANGED freezerVars
  OBVIOUS
<1>2. /\ config \in Configs /\ live' = live /\ members' = members /\ born' = born /\ seen' = seen
      /\ config' = config
  BY <1>1, FreezerKept DEF IInv, Types, TypeCmds
<1>3. TypeExec'
  BY <1>2 DEF IInv, Types, TypeExec, Owned
<1>4. Child'
  BY <1>2 DEF IInv, Child, Before
<1>5. Handles'
  <2>1. /\ xpc = "collect" /\ child = "none" /\ child' = child /\ handles' = handles
        /\ kind \in 1 .. 4 /\ handles \subseteq Owned /\ Owned' = Owned
        /\ Owned \subseteq {"user", "pid", "mnt"}
        /\ "init" \in live =>
             \A i \in 1 .. 3 : i < kind /\ JoinOrder[i] \in Owned => JoinOrder[i] \in handles
    BY <1>2 DEF IInv, Handles, Types, TypeExec, Child, Before, Owned
  <2>2. CASE kind = 4
    <3>1. xpc' = "procs"
      BY <2>2
    <3>2. "init" \in live => \A i \in 1 .. 3 : JoinOrder[i] \in Owned => JoinOrder[i] \in handles
      BY <2>1, <2>2
    <3>3. "init" \in live => handles = Owned
      <4>1. 1 \in 1 .. 3 /\ 2 \in 1 .. 3 /\ 3 \in 1 .. 3
        OBVIOUS
      <4>2. "init" \in live => \A n \in {"user", "pid", "mnt"} : n \in Owned => n \in handles
        BY <3>2, <4>1
      <4> QED
        BY <2>1, <4>2
    <3> QED
      BY <1>2, <2>1, <3>1, <3>3 DEF Handles
  <2>3. CASE kind # 4
    <3>1. kind \in 1 .. 3 /\ ~(kind > 3)
      BY <2>1, <2>3
    <3>2. CASE JoinOrder[kind] \in Visible \cap Owned
      <4>1. xpc' = "open" /\ kind' = kind
        BY <3>1, <3>2
      <4> QED
        BY <1>2, <2>1, <3>1, <3>2, <4>1 DEF Handles
    <3>3. CASE JoinOrder[kind] \notin Visible \cap Owned
      <4>1. xpc' = "collect" /\ kind' = kind + 1
        BY <3>1, <3>3
      <4>2. "init" \in live => JoinOrder[kind] \notin Owned
        <5>1. "init" \in live => Visible = {"user", "pid", "mnt"}
          BY DEF Visible, IInv, Types, TypeProcs
        <5> QED
          BY <2>1, <3>3, <5>1
      <4>3. "init" \in live =>
              \A i \in 1 .. 3 : i < kind + 1 /\ JoinOrder[i] \in Owned => JoinOrder[i] \in handles
        BY <2>1, <3>1, <4>2
      <4> QED
        BY <1>2, <2>1, <4>1, <4>3 DEF Handles
    <3> QED
      BY <3>2, <3>3
  <2> QED
    BY <2>2, <2>3
<1>6. parentEnd' \in BOOLEAN /\ told' \in BOOLEAN /\ noPidFile' \in BOOLEAN
  BY Zenon DEF IInv, Types, TypeFlags
<1> QED
  BY <1>1, <1>3, <1>4, <1>5, <1>6, AloneIInv

(* It is opened, or not.                                                   *)
LEMMA OpenIInv == ASSUME IInv, Open PROVE IInv'
<1> USE Order DEF Open, XGoto, Return, Begun
<1>1. UNCHANGED freezerVars
  OBVIOUS
<1>2. /\ config \in Configs /\ live' = live /\ members' = members /\ born' = born /\ seen' = seen
      /\ config' = config
  BY <1>1, FreezerKept DEF IInv, Types, TypeCmds
<1>3. TypeExec'
  BY <1>2 DEF IInv, Types, TypeExec, Owned, Handles
<1>4. Child'
  BY <1>2 DEF IInv, Child, Before
<1>5. Handles'
  BY <1>2 DEF IInv, Handles, Types, TypeExec, Child, Before, Owned, Visible
<1>6. parentEnd' \in BOOLEAN /\ told' \in BOOLEAN /\ noPidFile' \in BOOLEAN
  BY Zenon DEF IInv, Types, TypeFlags
<1> QED
  BY <1>1, <1>3, <1>4, <1>5, <1>6, AloneIInv

(* cgroup.procs is opened.                                                 *)
LEMMA OpenProcsIInv == ASSUME IInv, OpenProcs PROVE IInv'
<1> USE Order DEF OpenProcs, XGoto, Return, Begun
<1>1. UNCHANGED freezerVars
  OBVIOUS
<1>2. /\ config \in Configs /\ live' = live /\ members' = members /\ born' = born /\ seen' = seen
      /\ config' = config
  BY <1>1, FreezerKept DEF IInv, Types, TypeCmds
<1>3. TypeExec'
  BY <1>2 DEF IInv, Types, TypeExec, Owned
<1>4. Child'
  BY <1>2 DEF IInv, Child, Before
<1>5. Handles'
  BY <1>2 DEF IInv, Handles, Types, TypeExec, Child, Before, Owned, Visible
<1>6. parentEnd' \in BOOLEAN /\ told' \in BOOLEAN /\ noPidFile' \in BOOLEAN
  BY Zenon DEF IInv, Types, TypeFlags
<1> QED
  BY <1>1, <1>3, <1>4, <1>5, <1>6, AloneIInv

(* The namespaces are joined.                                              *)
LEMMA JoinIInv == ASSUME IInv, Join PROVE IInv'
<1> USE Order DEF Join, XGoto, Return, Begun
<1>1. UNCHANGED freezerVars
  OBVIOUS
<1>2. /\ config \in Configs /\ live' = live /\ members' = members /\ born' = born /\ seen' = seen
      /\ config' = config
  BY <1>1, FreezerKept DEF IInv, Types, TypeCmds
<1>3. TypeExec'
  BY <1>2 DEF IInv, Types, TypeExec, Owned
<1>4. Child'
  BY <1>2 DEF IInv, Child, Before
<1>5. Handles'
  BY <1>2 DEF IInv, Handles, Types, TypeExec, Child, Before, Owned, Visible
<1>6. parentEnd' \in BOOLEAN /\ told' \in BOOLEAN /\ noPidFile' \in BOOLEAN
  BY Zenon DEF IInv, Types, TypeFlags
<1> QED
  BY <1>1, <1>3, <1>4, <1>5, <1>6, AloneIInv

(* The child is told.                                                      *)
LEMMA SendIInv == ASSUME IInv, Send PROVE IInv'
<1> USE Order DEF Send, XGoto, Return, Begun
<1>1. UNCHANGED freezerVars
  OBVIOUS
<1>2. /\ config \in Configs /\ live' = live /\ members' = members /\ born' = born /\ seen' = seen
      /\ config' = config
  BY <1>1, FreezerKept DEF IInv, Types, TypeCmds
<1>3. TypeExec'
  BY <1>2 DEF IInv, Types, TypeExec, Owned
<1>4. Child'
  BY <1>2 DEF IInv, Child, Before
<1>5. Handles'
  BY <1>2 DEF IInv, Handles, Types, TypeExec, Child, Before, Owned, Visible
<1>6. parentEnd' \in BOOLEAN /\ told' \in BOOLEAN /\ noPidFile' \in BOOLEAN
  BY Zenon DEF IInv, Types, TypeFlags
<1> QED
  BY <1>1, <1>3, <1>4, <1>5, <1>6, AloneIInv

(* The pid file.                                                           *)
LEMMA RecordIInv == ASSUME IInv, Record PROVE IInv'
<1> USE Order DEF Record, XGoto, Return, Begun
<1>1. UNCHANGED freezerVars
  OBVIOUS
<1>2. /\ config \in Configs /\ live' = live /\ members' = members /\ born' = born /\ seen' = seen
      /\ config' = config
  BY <1>1, FreezerKept DEF IInv, Types, TypeCmds
<1>3. TypeExec'
  BY <1>2 DEF IInv, Types, TypeExec, Owned
<1>4. Child'
  BY <1>2 DEF IInv, Child, Before
<1>5. Handles'
  BY <1>2 DEF IInv, Handles, Types, TypeExec, Child, Before, Owned, Visible
<1>6. parentEnd' \in BOOLEAN /\ told' \in BOOLEAN /\ noPidFile' \in BOOLEAN
  BY Zenon DEF IInv, Types, TypeFlags
<1> QED
  BY <1>1, <1>3, <1>4, <1>5, <1>6, AloneIInv

(* exec is killed.                                                         *)
LEMMA CrashIInv == ASSUME IInv, Crash PROVE IInv'
<1> USE Order DEF Crash, XGoto, Return, Begun
<1>1. UNCHANGED freezerVars
  OBVIOUS
<1>2. /\ config \in Configs /\ live' = live /\ members' = members /\ born' = born /\ seen' = seen
      /\ config' = config
  BY <1>1, FreezerKept DEF IInv, Types, TypeCmds
<1>3. TypeExec'
  BY <1>2 DEF IInv, Types, TypeExec, Owned
<1>4. Child'
  BY <1>2 DEF IInv, Child, Before
<1>5. Handles'
  BY <1>2 DEF IInv, Handles, Types, TypeExec, Child, Before, Owned, Visible
<1>6. parentEnd' \in BOOLEAN /\ told' \in BOOLEAN /\ noPidFile' \in BOOLEAN
  BY Zenon DEF IInv, Types, TypeFlags
<1> QED
  BY <1>1, <1>3, <1>4, <1>5, <1>6, AloneIInv

(* The fork: no process is born in a pid namespace whose init has ended.   *)
LEMMA ForkChildIInv == ASSUME IInv, ForkChild PROVE IInv'
<1> USE DEF ForkChild, XGoto, IInv, Types
<1>1. CASE CanFork
  <2>1. /\ xpc = "fork" /\ xpc' = "place" /\ child = "none" /\ child' = "await"
        /\ live' = live \cup {"exec"} /\ born' = born \cup {"exec"} /\ "exec" \notin born
        /\ inside' = IF "pid" \in handles THEN inside \cup {"exec"} ELSE inside
        /\ UNCHANGED <<config, zombies, members, dying, freezer, forgotten, cmds, steady,
                       kind, handles, parentEnd, told, noPidFile>>
        /\ "init" \in live' => "init" \in live
    BY <1>1 DEF Child, Before
  <2>2. TypeProcs' /\ TypeExec'
    BY <2>1 DEF TypeProcs, TypeExec, Proc, Owned, freezer
  <2>3. World'
    BY <1>1, <2>1 DEF World, CanFork, freezer
  <2>4. TypeCmds' /\ TypeMarks' /\ Work' /\ Use'
    BY <2>1, WorkKept DEF freezer
  <2>5. Child' /\ Handles'
    BY <2>1 DEF Child, Before, Handles, Owned, cmds
  <2>6. TypeFlags'
    BY <2>1, Zenon DEF TypeFlags, freezer
  <2> QED
    BY <2>2, <2>3, <2>4, <2>5, <2>6
<1>2. CASE ~CanFork
  <2>1. /\ xpc = "fork" /\ xpc' = "err" /\ UNCHANGED freezerVars
        /\ UNCHANGED <<kind, handles, child, parentEnd, told, noPidFile>>
    BY <1>2 DEF freezerVars, procs
  <2>2. config' = config /\ live' = live /\ members' = members /\ born' = born /\ seen' = seen
    BY <2>1, FreezerKept
  <2>3. TypeExec' /\ Child' /\ Handles'
    BY <2>1, <2>2 DEF TypeExec, Child, Before, Handles, Owned
  <2>4. parentEnd' \in BOOLEAN /\ told' \in BOOLEAN /\ noPidFile' \in BOOLEAN
    BY <2>1, Zenon DEF TypeFlags
  <2> HIDE DEF ForkChild, IInv, Types
  <2> QED
    BY <2>1, <2>3, <2>4, AloneIInv
<1> QED
  BY <1>1, <1>2

(* The child is put in the cgroup: a newcomer to every list being walked.  *)
LEMMA PlaceIInv == ASSUME IInv, Place PROVE IInv'
<1> USE DEF Place, XGoto, Return, IInv, Types
<1>1. CASE "exec" \in live /\ dir
  <2>1. /\ xpc = "place" /\ xpc' = "send" /\ members' = members \cup {"exec"} /\ steady' = {}
        /\ UNCHANGED <<config, live, zombies, inside, born, dying, freezer, forgotten, cmds,
                       kind, handles, child, told, noPidFile, parentEnd>>
    BY <1>1
  <2>2. TypeProcs' /\ TypeExec' /\ World'
    BY <1>1, <2>1 DEF TypeProcs, TypeExec, World, Owned, freezer
  <2>3. TypeCmds' /\ TypeMarks' /\ Work' /\ Use'
    <3>1. \A o \in Ops : "exec" \notin seen[o]
      BY <2>1 DEF Child
    <3> QED
      BY <2>1, <3>1, WorkKept DEF freezer, TypeProcs
  <2>4. Child' /\ Handles'
    BY <2>1 DEF Child, Before, Handles, Owned, cmds
  <2>5. TypeFlags'
    BY <2>1, Zenon DEF TypeFlags, freezer
  <2> QED
    BY <2>2, <2>3, <2>4, <2>5
<1>2. CASE ~("exec" \in live /\ dir)
  <2>1. /\ xpc = "place" /\ xpc' = "err" /\ parentEnd' = FALSE /\ UNCHANGED freezerVars
        /\ UNCHANGED <<kind, handles, child, told, noPidFile>>
    BY <1>2 DEF freezerVars, procs
  <2>2. config' = config /\ live' = live /\ members' = members /\ born' = born /\ seen' = seen
    BY <2>1, FreezerKept
  <2>3. TypeExec' /\ Child' /\ Handles'
    BY <2>1, <2>2 DEF TypeExec, Child, Before, Handles, Owned
  <2>4. parentEnd' \in BOOLEAN /\ told' \in BOOLEAN /\ noPidFile' \in BOOLEAN
    BY <2>1, Zenon DEF TypeFlags
  <2> HIDE DEF Place, IInv, Types
  <2> QED
    BY <2>1, <2>3, <2>4, AloneIInv
<1> QED
  BY <1>1, <1>2

(* supervise has reaped the child.                                         *)
LEMMA SupervisedIInv == ASSUME IInv, Supervised PROVE IInv'
<1> USE DEF Supervised, XGoto, Return, IInv, Types
<1>1. TypeProcs' /\ TypeExec' /\ World'
  BY DEF TypeProcs, TypeExec, World, Owned, freezer
<1>2. TypeCmds' /\ TypeMarks' /\ Work' /\ Use'
  BY WorkKept DEF freezer
<1>3. Child' /\ Handles'
  BY DEF Child, Before, Handles, Owned, cmds
<1>4. TypeFlags'
  BY Zenon DEF TypeFlags, freezer
<1> QED
  BY <1>1, <1>2, <1>3, <1>4

(* The end of the child.                                                   *)
LEMMA ChildEndsIInv ==
  ASSUME IInv, "exec" \in live, ChildEnds,
         UNCHANGED <<config, born, freezer, forgotten, cmds, steady>>,
         UNCHANGED <<xpc, kind, handles, child, parentEnd, told, noPidFile>>, "exec" \notin still
  PROVE  IInv'
<1> USE DEF ChildEnds, IInv, Types
<1>1. TypeProcs' /\ TypeExec' /\ World'
  BY DEF TypeProcs, TypeExec, World, Owned, freezer
<1>2. TypeCmds' /\ TypeMarks' /\ Work' /\ Use'
  BY WorkKept DEF freezer
<1>3. Child' /\ Handles'
  BY DEF Child, Before, Handles, Owned, cmds
<1>4. TypeFlags'
  BY Zenon DEF TypeFlags, freezer
<1> QED
  BY <1>1, <1>2, <1>3, <1>4

(* A step of the child: on to its next place, or its end.                  *)
LEMMA ChildIInv == ASSUME IInv, ChildRecv \/ Enter PROVE IInv'
<1> USE DEF ChildRuns
<1>1. ASSUME child' # child PROVE IInv'
  <2>1. /\ UNCHANGED freezerVars /\ UNCHANGED <<xpc, kind, handles, parentEnd, told, noPidFile>>
        /\ child # "none" /\ child' \in {"enter", "program"}
        /\ told \/ child = "enter"
    BY <1>1 DEF ChildRecv, Enter, freezerVars, procs
  <2>2. config' = config /\ live' = live /\ members' = members /\ born' = born /\ seen' = seen
    BY <2>1, FreezerKept
  <2>3. TypeExec' /\ Child' /\ Handles'
    BY <2>1, <2>2 DEF IInv, Types, TypeExec, Child, Before, Handles, Owned
  <2>4. parentEnd' \in BOOLEAN /\ told' \in BOOLEAN /\ noPidFile' \in BOOLEAN
    BY <2>1, Zenon DEF IInv, Types, TypeFlags
  <2> QED
    BY <2>1, <2>3, <2>4, AloneIInv
<1>2. ASSUME child' = child PROVE IInv'
  BY <1>2, ChildEndsIInv DEF ChildRecv, Enter
<1> QED
  BY <1>1, <1>2

-----------------------------------------------------------------------------
(* Nothing happens.                                                        *)
LEMMA StutterIInv == ASSUME IInv, UNCHANGED vars PROVE IInv'
<1> USE DEF vars, execVars
<1>1. TypeExec' /\ Child' /\ Handles'
  <2>1. config' = config /\ live' = live /\ members' = members /\ born' = born /\ seen' = seen
    BY FreezerKept
  <2> QED
    BY <2>1 DEF IInv, Types, TypeExec, Child, Before, Handles, Owned
<1>2. parentEnd' \in BOOLEAN /\ told' \in BOOLEAN /\ noPidFile' \in BOOLEAN
  BY Zenon DEF IInv, Types, TypeFlags
<1> QED
  BY <1>1, <1>2, AloneIInv

(* Every step keeps the invariant.                                         *)
LEMMA NextIInv == IInv /\ [Next]_vars => IInv'
<1> SUFFICES ASSUME IInv, [Next]_vars PROVE IInv'
  OBVIOUS
<1>1. CASE ExecStep
  BY <1>1, CheckIInv, CollectIInv, OpenIInv, OpenProcsIInv, JoinIInv, ForkChildIInv, PlaceIInv,
     SendIInv, RecordIInv, SupervisedIInv DEF ExecStep
<1>2. CASE ChildStep \/ Crash
  BY <1>2, ChildIInv, CrashIInv DEF ChildStep
<1>3. CASE FreezerStep /\ UNCHANGED execVars
  BY <1>3, KernelIInv, CommandsIInv DEF FreezerStep
<1>4. CASE UNCHANGED vars
  BY <1>4, StutterIInv
<1> QED
  BY <1>1, <1>2, <1>3, <1>4 DEF Next

(* The invariant holds of every behaviour.                                 *)
LEMMA Inductive == Spec => []IInv
BY InitIInv, NextIInv, PTL DEF Spec

-----------------------------------------------------------------------------
(* Every variable keeps its type, and only what runs is in the cgroup, the *)
(* pid namespace or the freezer.                                           *)
THEOREM TypeCorrect == Spec => []TypeOK
<1>1. IInv => TypeOK
  BY TypeParts DEF IInv
<1> QED
  BY <1>1, Inductive, PTL

(* mod.rs: kill_all and delete.  Nothing of the container is missed, with  *)
(* any number of pauses, resumes, kills and deletes at the same time.      *)
THEOREM AllMet == Spec => []NoneMissed
<1>1. IInv => KillAllMissesNone
  <2> SUFFICES ASSUME IInv, NEW o \in steady, Cmd(o) = "killall", pc[o] \in {"signal", "thaw", "ok"}
               PROVE  /\ members \subseteq seen[o]
                      /\ snap[o] = {} /\ ~failed[o] /\ config.sig = "KILL" => members \subseteq dying
    BY DEF KillAllMissesNone, Cmd
  <2>1. Covered(o)
    BY DEF IInv, Types, TypeCmds, Work
  <2> QED
    BY <2>1 DEF Covered
<1>2. IInv => DeleteLeavesNone
  <2> SUFFICES ASSUME IInv, NEW o \in Ops, Cmd(o) = "delete", pc[o] = "ok"
               PROVE  /\ members \cap seen[o] \subseteq dying
                      /\ config.pidNs /\ Patient => inside = {}
    BY DEF DeleteLeavesNone, Cmd, Patient
  <2>1. Swept(o) /\ InitGone /\ World
    BY DEF IInv, Work
  <2> QED
    BY <2>1 DEF Swept, InitGone, World
<1> QED
  BY <1>1, <1>2, Inductive, PTL DEF NoneMissed

(* mod.rs: pause, resume and kill_all.  A freeze is somebody's pause, or   *)
(* left behind by a command that gave up; a pause lasts until a resume, a  *)
(* delete, or a kill --all that had found the container running.           *)
THEOREM Answered == Spec => []FreezeIsIntended
<1>1. IInv => FrozenByIntent
  <2> SUFFICES ASSUME IInv, request, dir, \A q \in Ops : pc[q] \in Ended \cup {"load"}
               PROVE  \E q \in Ops : (Cmd(q) = "pause" /\ pc[q] \in Ended) \/ q \in stuck
    BY DEF FrozenByIntent, Cmd
  <2>1. PICK q \in Ops : Froze(q)
    BY DEF IInv, Use
  <2> QED
    BY <2>1 DEF Froze, Ended
<1>2. IInv => PauseHolds
  <2> SUFFICES ASSUME IInv, NEW o \in Ops, Cmd(o) = "pause", pc[o] = "ok", ~request
               PROVE  \E q \in Ops \ {o} :
                        CASE config.cmd[q] = "killall" -> ~wasFrozen[q] /\ pc[q] # "load"
                          [] config.cmd[q] = "delete"  -> wasFrozen[q]
                          [] config.cmd[q] = "resume"  -> pc[q] \in {"thawing", "ok"} \/ q \in stuck
                          [] OTHER                     -> FALSE
    BY Zenon DEF PauseHolds, Cmd
  <2>1. PICK q \in Ops : Thawed(q)
    BY DEF IInv, Use
  <2>2. q # o /\ Cmd(q) \in {"killall", "delete", "resume"}
    BY <2>1 DEF Thawed
  <2>3. CASE config.cmd[q] = "killall"
    BY <2>1, <2>2, <2>3 DEF Thawed, Cmd
  <2>4. CASE config.cmd[q] = "delete"
    BY <2>1, <2>2, <2>4 DEF Thawed, Cmd
  <2>5. CASE config.cmd[q] = "resume"
    BY <2>1, <2>2, <2>5 DEF Thawed, Cmd
  <2> QED
    BY <2>2, <2>3, <2>4, <2>5 DEF Cmd
<1> QED
  BY <1>1, <1>2, Inductive, PTL DEF FreezeIsIntended

(* exec.rs: an exec'd program is in the container's cgroup and, as long as *)
(* the init runs, in all of its namespaces.                                *)
THEOREM Contained == Spec => []ExecContained
<1>1. IInv => ExecPlaced
  BY DEF IInv, Child, ExecPlaced
<1>2. IInv => ExecJoined
  BY DEF IInv, Handles, ExecJoined
<1> QED
  BY <1>1, <1>2, Inductive, PTL DEF ExecContained

(* exec.rs: an exec that has failed runs nothing, but for the pid file.    *)
THEOREM NothingRuns == Spec => []ErrRunsNothing
<1>1. IInv => ErrRunsNothing
  BY DEF IInv, Child, ErrRunsNothing
<1> QED
  BY <1>1, Inductive, PTL
=============================================================================
