---------------------------- MODULE HooksProofs ----------------------------
(***************************************************************************)
(* Proofs about Hooks for any number of hooks, with any timeouts, in any   *)
(* phase.  The hooks before the current one have their result, those after *)
(* it have not been started, and of the current one pc tells which of the  *)
(* two it is; a hook can only be disturbed by itself.                      *)
(***************************************************************************)
EXTENDS Hooks, TLAPS

(* Where the current hook is, as pc tells.                                 *)
Current ==
  /\ pc = "spawn" => proc[at] = "none" /\ result[at] = "none"
  /\ pc \in {"write", "wait"} => /\ proc[at] \in {"runs", "ended"}
                                 /\ result[at] = "none"
  /\ pc = "err" => IsFatal(config.phase) /\ Failed(at)

(* The hooks before the current one, and those after it.                   *)
Before == \A i \in All : i < at => result[i] # "none" /\ (IsFatal(config.phase) => ~Failed(i))
After == \A i \in All : i > at => proc[i] = "none" /\ result[i] = "none"

Position ==
  /\ pc \in {"write", "wait", "err"} => at \in All
  /\ pc = "ok" => at \notin All

Reaped == \A i \in All : result[i] \in {"ok", "exit", "timeout"} => proc[i] = "reaped"

(* TypeOK without the records of the hooks, for the provers.               *)
TypePlaces ==
  /\ config \in Configs /\ at \in 1 .. Len(config.hooks) + 1
  /\ pc \in {"spawn", "write", "wait", "ok", "err"} /\ due \in {"off", "armed", "passed"}
TypeHooks ==
  /\ proc \in [All -> {"none", "runs", "ended", "reaped"}] /\ code \in [All -> {0, 1}]
  /\ stdin \in [All -> {"open", "read", "closed"}]
  /\ result \in [All -> {"none", "ok", "exit", "timeout", "broken", "spawn"}]
TypeStuck == stuck \in [All -> BOOLEAN]
Armed == due # "off" => pc = "wait" /\ config.hooks[at]

Order == Position /\ (at \in All => Current) /\ Before /\ After /\ Reaped

IInv == TypePlaces /\ TypeHooks /\ TypeStuck /\ Armed /\ Order

-----------------------------------------------------------------------------
(* The hooks are numbered from 1.                                          *)
LEMMA Numbered ==
  ASSUME config \in Configs
  PROVE  /\ All = 1 .. Len(config.hooks) /\ Len(config.hooks) \in Nat
         /\ \A i \in All : config.hooks[i] \in BOOLEAN
BY ConfigsAssumption DEF All

(* The initial states satisfy the invariant.                               *)
LEMMA InitIInv == Init => IInv
<1> SUFFICES ASSUME Init PROVE IInv
  OBVIOUS
<1>1. config \in Configs
  BY DEF Init
<1>2. All = 1 .. Len(config.hooks) /\ Len(config.hooks) \in Nat
  BY <1>1, Numbered
<1>3. TypePlaces /\ Armed
  BY <1>1, <1>2 DEF Init, TypePlaces, Armed
<1>4. TypeHooks
  BY DEF Init, TypeHooks
<1>5. TypeStuck
  BY Zenon DEF Init, TypeStuck
<1>6. Order
  BY <1>2 DEF Init, Order, Position, Current, Before, After, Reaped
<1> QED
  BY <1>3, <1>4, <1>5, <1>6 DEF IInv

(* Returning from a hook: its result is settled, and its process is gone   *)
(* where the result says so.  The caller leaves the other hooks alone.     *)
LEMMA ReturnStep ==
  ASSUME IInv, at \in All, pc \in {"spawn", "write", "wait"},
         NEW o \in {"ok", "exit", "timeout", "broken", "spawn"}, Return(o),
         config' = config, TypeHooks',
         \A i \in All : i # at => proc'[i] = proc[i],
         o \in {"ok", "exit", "timeout"} => proc'[at] = "reaped"
  PROVE  IInv'
<1>1. config \in Configs /\ at \in 1 .. Len(config.hooks) /\ Len(config.hooks) \in Nat
      /\ All = 1 .. Len(config.hooks) /\ All' = All
  BY Numbered DEF IInv, TypePlaces, All
<1>2. TypePlaces' /\ Armed'
  BY <1>1 DEF IInv, TypePlaces, Armed, Return
<1>3. TypeStuck'
  <2>1. stuck \in [All -> BOOLEAN]
    BY DEF IInv, TypeStuck
  <2>2. stuck' = [stuck EXCEPT ![at] = FALSE]
    BY DEF Return
  <2> QED
    BY <1>1, <2>1, <2>2, Zenon DEF TypeStuck
<1>4. /\ result' = [result EXCEPT ![at] = o] /\ DOMAIN result = All
      /\ Stops(o) <=> o # "ok" /\ IsFatal(config.phase)
  BY DEF Return, Stops, IInv, TypeHooks
<1>5. result'[at] = o /\ \A i \in All : i # at => result'[i] = result[i]
  BY <1>4
<1>6. CASE Stops(o)
  <2>1. pc' = "err" /\ at' = at
    BY <1>6 DEF Return
  <2>2. Position' /\ Reaped'
    BY <1>1, <1>5, <2>1 DEF Position, Reaped, IInv, Order
  <2>3. Current'
    BY <1>1, <1>4, <1>5, <1>6, <2>1 DEF Current, Failed, IsFatal
  <2>4. Before' /\ After'
    BY <1>1, <1>5, <2>1 DEF Before, After, IInv, Order, Failed, IsFatal
  <2> QED
    BY <1>2, <1>3, <2>2, <2>3, <2>4 DEF IInv, Order
<1>7. CASE ~Stops(o)
  <2>1. pc' = "spawn" /\ at' = at + 1
    BY <1>7 DEF Return
  <2>2. Position' /\ Reaped'
    BY <1>1, <1>5, <2>1 DEF Position, Reaped, IInv, Order
  <2>3. at' \in All => Current'
    BY <1>1, <1>5, <2>1 DEF Current, After, IInv, Order
  <2>4. Before'
    BY <1>1, <1>4, <1>5, <1>7, <2>1 DEF Before, IInv, Order, Failed, IsFatal
  <2>5. After'
    BY <1>1, <1>5, <2>1 DEF After, IInv, Order
  <2> QED
    BY <1>1, <1>2, <1>3, <2>2, <2>3, <2>4, <2>5 DEF IInv, Order
<1> QED
  BY <1>6, <1>7

(* A step that leaves the results and the position alone, and no hook that *)
(* has ended or was not started running.                                   *)
LEMMA StillStep ==
  ASSUME IInv, config' = config, at' = at, result' = result, TypeHooks',
         TypePlaces', TypeStuck', Armed', pc' = pc \/ (pc' \in {"write", "wait"} /\ at \in All),
         \A i \in All \ {at} : proc'[i] = proc[i] \/ (proc[i] = "runs" /\ proc'[i] = "ended"),
         at \in All => \/ proc'[at] = proc[at] /\ (pc' = pc \/ (pc = "write" /\ pc' = "wait"))
                       \/ proc[at] = "runs" /\ proc'[at] = "ended" /\ pc' = pc
                       \/ pc = "spawn" /\ pc' = "write" /\ proc'[at] = "runs"
  PROVE  IInv'
<1>1. config \in Configs /\ Len(config.hooks) \in Nat /\ All = 1 .. Len(config.hooks) /\ All' = All
  BY Numbered DEF IInv, TypePlaces, All
<1>2. Position'
  BY <1>1 DEF IInv, Order, Position, TypePlaces
<1>3. at \in All => Current'
  BY <1>1 DEF IInv, Order, Current, Failed, IsFatal
<1>4. Before'
  BY <1>1 DEF IInv, Order, Before, Failed, IsFatal
<1>5. After'
  BY <1>1 DEF IInv, Order, After
<1>6. Reaped'
  <2> SUFFICES ASSUME NEW i \in All, result[i] \in {"ok", "exit", "timeout"} PROVE proc'[i] = "reaped"
    BY <1>1 DEF Reaped
  <2>1. proc[i] = "reaped"
    BY DEF IInv, Order, Reaped
  <2>2. CASE i = at
    BY <1>1, <2>1, <2>2 DEF IInv, Order, Current
  <2>3. CASE i # at
    BY <2>1, <2>3
  <2> QED
    BY <2>2, <2>3
<1> QED
  BY <1>1, <1>2, <1>3, <1>4, <1>5, <1>6 DEF IInv, Order

-----------------------------------------------------------------------------
(* Every step of the runtime preserves the invariant.                      *)
LEMMA RuntimeStep == IInv /\ Runtime => IInv'
<1> SUFFICES ASSUME IInv, Runtime PROVE IInv'
  OBVIOUS
<1>1. config \in Configs /\ Len(config.hooks) \in Nat /\ All = 1 .. Len(config.hooks)
  BY Numbered DEF IInv, TypePlaces
<1>2. TypePlaces /\ TypeHooks /\ Armed /\ TypeStuck
  BY DEF IInv
<1>3. pc \in {"write", "wait"} => at \in All /\ proc[at] \in {"runs", "ended"}
  BY DEF IInv, Order, Position, Current
<1>4. ASSUME Spawn PROVE IInv'
  <2>1. at \in All /\ pc = "spawn" /\ config' = config /\ All' = All
    BY <1>4 DEF Spawn, All
  <2>2. CASE Return("spawn") /\ UNCHANGED <<proc, stdin>>
    <3>1. TypeHooks'
      BY <1>2, <1>4, <2>1, <2>2 DEF TypeHooks, Return, Spawn
    <3> QED
      BY <2>1, <2>2, <3>1, ReturnStep
  <2>3. CASE /\ proc' = [proc EXCEPT ![at] = "runs"] /\ stdin' = [stdin EXCEPT ![at] = "open"]
             /\ pc' = "write" /\ UNCHANGED <<at, due, stuck, result>>
    <3>1. TypeHooks'
      BY <1>2, <1>4, <2>1, <2>3 DEF TypeHooks, Spawn
    <3>2. TypePlaces' /\ Armed'
      BY <1>2, <2>1, <2>3 DEF TypePlaces, Armed
    <3>3. TypeStuck'
      BY <1>2, <2>1, <2>3, Zenon DEF TypeStuck
    <3>4. proc'[at] = "runs" /\ \A i \in All \ {at} : proc'[i] = proc[i]
      BY <1>2, <2>1, <2>3 DEF TypeHooks
    <3> QED
      BY <2>1, <2>3, <3>1, <3>2, <3>3, <3>4, StillStep
  <2> QED
    BY <1>4, <2>2, <2>3 DEF Spawn
<1>5. ASSUME Finish PROVE IInv'
  <2>1. at \notin All /\ pc = "spawn" /\ pc' = "ok" /\ All' = All
        /\ UNCHANGED <<config, at, due, proc, code, stdin, stuck, result>>
    BY <1>5 DEF Finish, All
  <2>2. TypePlaces' /\ TypeHooks' /\ Armed'
    BY <1>2, <2>1 DEF TypePlaces, TypeHooks, Armed
  <2>3. TypeStuck'
    BY <1>2, <2>1, Zenon DEF TypeStuck
  <2>4. Order'
    BY <2>1 DEF IInv, Order, Position, Before, After, Reaped, Failed, IsFatal
  <2> QED
    BY <2>2, <2>3, <2>4 DEF IInv
<1>6. ASSUME Write PROVE IInv'
  <2>1. at \in All /\ pc = "write" /\ config' = config /\ proc' = proc /\ code' = code
        /\ stdin' = stdin /\ All' = All
    BY <1>3, <1>6 DEF Write, All
  <2>2. CASE Return("broken")
    <3>1. TypeHooks'
      BY <1>2, <2>1, <2>2 DEF TypeHooks, Return
    <3> QED
      BY <2>1, <2>2, <3>1, ReturnStep
  <2>3. CASE /\ pc' = "wait" /\ due' = IF config.hooks[at] THEN "armed" ELSE "off"
             /\ UNCHANGED <<at, stuck, result>>
    <3>1. TypePlaces' /\ TypeHooks' /\ Armed'
      BY <1>2, <2>1, <2>3 DEF TypePlaces, TypeHooks, Armed
    <3>2. TypeStuck'
      BY <1>2, <2>1, <2>3, Zenon DEF TypeStuck
    <3> QED
      BY <2>1, <2>3, <3>1, <3>2, StillStep
  <2> QED
    BY <1>6, <2>2, <2>3 DEF Write
<1>7. ASSUME Reap PROVE IInv'
  <2>1. at \in All /\ pc = "wait" /\ config' = config /\ code' = code /\ stdin' = stdin
        /\ proc' = [proc EXCEPT ![at] = "reaped"] /\ All' = All
    BY <1>3, <1>7 DEF Reap, All
  <2>2. PICK o \in {"ok", "exit"} : Return(o)
    BY <1>7 DEF Reap
  <2>3. TypeHooks' /\ proc'[at] = "reaped" /\ \A i \in All : i # at => proc'[i] = proc[i]
    BY <1>2, <2>1, <2>2 DEF TypeHooks, Return
  <2> QED
    BY <2>1, <2>2, <2>3, ReturnStep
<1>8. ASSUME TimeOut PROVE IInv'
  <2>1. at \in All /\ pc = "wait" /\ config' = config /\ code' = code
        /\ stdin' = [stdin EXCEPT ![at] = "closed"]
        /\ proc' = [proc EXCEPT ![at] = "reaped"] /\ All' = All /\ Return("timeout")
    BY <1>3, <1>8 DEF TimeOut, All
  <2>2. TypeHooks' /\ proc'[at] = "reaped" /\ \A i \in All : i # at => proc'[i] = proc[i]
    BY <1>2, <2>1 DEF TypeHooks, Return
  <2> QED
    BY <2>1, <2>2, ReturnStep
<1> QED
  BY <1>4, <1>5, <1>6, <1>7, <1>8 DEF Runtime

(* So does every step of a hook, whatever it does.                         *)
LEMMA HookStep == ASSUME NEW j \in All, IInv, Hook(j) PROVE IInv'
<1>1. /\ config' = config /\ at' = at /\ pc' = pc /\ due' = due /\ result' = result /\ All' = All
      /\ proc[j] = "runs"
  BY DEF Hook, HookReads, HookCloses, HookTalks, HookEnds, All
<1>2. TypePlaces' /\ Armed'
  BY <1>1 DEF IInv, TypePlaces, Armed
<1>3. TypeHooks
  BY DEF IInv
<1>4. TypeHooks'
  BY <1>1, <1>3 DEF TypeHooks, Hook, HookReads, HookCloses, HookTalks, HookEnds
<1>5. stuck' = stuck \/ stuck' = [stuck EXCEPT ![j] = TRUE]
  BY DEF Hook, HookReads, HookCloses, HookTalks, HookEnds
<1>6. TypeStuck'
  BY <1>1, <1>5, Zenon DEF IInv, TypeStuck
<1>7. \A i \in All : proc'[i] = proc[i] \/ (proc[i] = "runs" /\ proc'[i] = "ended")
  BY <1>1, <1>3 DEF TypeHooks, Hook, HookReads, HookCloses, HookTalks, HookEnds
<1> QED
  BY <1>1, <1>2, <1>4, <1>6, <1>7, StillStep

(* The invariant is inductive.                                             *)
LEMMA NextIInv == IInv /\ [Next]_vars => IInv'
<1> SUFFICES ASSUME IInv, [Next]_vars PROVE IInv'
  OBVIOUS
<1>1. CASE Runtime
  BY <1>1, RuntimeStep
<1>2. ASSUME Tick PROVE IInv'
  <2>1. due = "armed" /\ due' = "passed" /\ All' = All
        /\ UNCHANGED <<config, pc, at, proc, code, stdin, stuck, result>>
    BY <1>2 DEF Tick, All
  <2>2. TypePlaces' /\ TypeHooks' /\ Armed'
    BY <2>1 DEF IInv, TypePlaces, TypeHooks, Armed
  <2>3. TypeStuck'
    BY <2>1, Zenon DEF IInv, TypeStuck
  <2> QED
    BY <2>1, <2>2, <2>3, StillStep
<1>3. ASSUME NEW j \in All, Hook(j) PROVE IInv'
  BY <1>3, HookStep
<1>4. CASE UNCHANGED vars
  <2>1. UNCHANGED <<config, pc, at, due, proc, code, stdin, stuck, result>> /\ All' = All
    BY <1>4 DEF vars, All
  <2>2. TypePlaces' /\ TypeHooks' /\ Armed'
    BY <2>1 DEF IInv, TypePlaces, TypeHooks, Armed
  <2>3. TypeStuck'
    BY <2>1, Zenon DEF IInv, TypeStuck
  <2> QED
    BY <2>1, <2>2, <2>3, StillStep
<1> QED
  BY <1>1, <1>2, <1>3, <1>4 DEF Next

(* The invariant always holds.                                             *)
LEMMA Invariance == Spec => []IInv
BY InitIInv, NextIInv, PTL DEF Spec

(* Every variable keeps its type for any list of hooks, and a deadline     *)
(* runs only while the end of its hook is awaited (hooks.rs: one).         *)
THEOREM TypeCorrect == Spec => []TypeOK
<1>1. IInv => TypeOK
  <2> SUFFICES ASSUME IInv PROVE TypeOK
    OBVIOUS
  <2>1. stuck \in [All -> BOOLEAN]
    BY DEF IInv, TypeStuck
  <2>2. Armed /\ TypePlaces /\ TypeHooks
    BY DEF IInv
  <2>3. due # "off" => pc = "wait" /\ config.hooks[at]
    BY <2>2 DEF Armed
  <2>4. /\ config \in Configs /\ at \in 1 .. Len(config.hooks) + 1
        /\ pc \in {"spawn", "write", "wait", "ok", "err"} /\ due \in {"off", "armed", "passed"}
    BY <2>2 DEF TypePlaces
  <2>5. /\ proc \in [All -> {"none", "runs", "ended", "reaped"}] /\ code \in [All -> {0, 1}]
        /\ stdin \in [All -> {"open", "read", "closed"}]
        /\ result \in [All -> {"none", "ok", "exit", "timeout", "broken", "spawn"}]
    BY <2>2 DEF TypeHooks
  <2> QED
    BY <2>1, <2>3, <2>4, <2>5, Zenon DEF TypeOK
<1> QED
  BY <1>1, Invariance, PTL

(* For any list of hooks: they run one after the other, the process of one *)
(* that was dealt with is gone, a fatal phase stops at the first failure   *)
(* and the others run every hook (hooks.rs: run, one).                     *)
THEOREM InTurn == Spec => []OneByOne
<1>1. IInv => OneByOne
  <2> SUFFICES ASSUME IInv PROVE OneByOne
    OBVIOUS
  <2>1. All = 1 .. Len(config.hooks) /\ Len(config.hooks) \in Nat
        /\ at \in 1 .. Len(config.hooks) + 1
    BY Numbered DEF IInv, TypePlaces
  <2>2. pc \in {"spawn", "write", "wait", "ok", "err"}
    BY DEF IInv, TypePlaces
  <2>3. Position /\ (at \in All => Current) /\ Before /\ After /\ Reaped
    BY DEF IInv, Order
  <2>4. \A i \in All : result[i] \in {"ok", "exit", "timeout"} => proc[i] = "reaped"
    BY <2>3 DEF Reaped
  <2>5. \A i \in All : (i > at \/ pc = "spawn") /\ i >= at => proc[i] = "none"
    BY <2>1, <2>3 DEF Current, After
  <2>6. IsFatal(config.phase) => \A i \in All : Failed(i) => pc = "err" /\ i = at
    BY <2>1, <2>2, <2>3 DEF Current, Before, After, Position, Failed
  <2>7. pc = "err" => IsFatal(config.phase) /\ Failed(at)
    BY <2>3 DEF Current, Position
  <2>8. pc = "ok" => \A i \in All : result[i] # "none"
    BY <2>1, <2>3 DEF Position, Before
  <2> QED
    BY <2>4, <2>5, <2>6, <2>7, <2>8 DEF OneByOne
<1> QED
  BY <1>1, Invariance, PTL
=============================================================================
