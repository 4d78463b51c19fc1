----------------------------- MODULE CgroupTree -----------------------------
(***************************************************************************)
(* The cgroups of several containers in one hierarchy                      *)
(* (src/cgroup/v2.rs): Cgroup::create with delegate, apply, add_process    *)
(* and destroy, run by the creates, updates and deletes of different       *)
(* containers at the same time.  Nothing locks the hierarchy.              *)
(*                                                                         *)
(* A cgroup is the sequence of its names below /sys/fs/cgroup.  The        *)
(* kernel's rules: a directory with processes or children is not removed;  *)
(* controllers are enabled for the children of a cgroup only if it has     *)
(* them itself and (below the root) no processes; a process does not enter *)
(* a cgroup that has enabled some; a limit can be written only where its   *)
(* controller is.  The five wanted controllers are one here.               *)
(*                                                                         *)
(* Definitions commented "Slip" are mistakes the code could have made.     *)
(***************************************************************************)
EXTENDS Resources, FiniteSets

CONSTANTS
  Containers, (* by their ids                                              *)
  Configs     (* records: path (the cgroupsPath of each container, <<>> for*)
              (* none), request (its resources), updates (the requests of  *)
              (* `mars update`), settled (those that run at first)         *)

(* relative_path and normalise.                                            *)
RelativePath(path, id) ==
  IF path = <<>> THEN <<"mars", id>> ELSE SelectSeq(path, LAMBDA name : name \notin {".", ".."})

Prefix(path, n) == SubSeq(path, 1, n)
Parent(path) == SubSeq(path, 1, Len(path) - 1)
Prefixes(path) == {Prefix(path, n) : n \in 0 .. Len(path)}

(* A cgroupsPath that normalises to the root is left out: the container    *)
(* would live in the host's own cgroup.  Two containers of which one's     *)
(* cgroup is above the other's cannot both have been started.              *)
ASSUME PathsAssumption ==
  \A f \in Configs :
    LET At(c) == RelativePath(f.path[c], c) IN
      /\ \A c \in Containers : At(c) \in Seq(STRING) \ {<<>>}
      /\ \A c, d \in Containers : At(c) = At(d) => c = d
      /\ f.settled \subseteq Containers
      /\ \A c, d \in f.settled : At(c) \in Prefixes(At(d)) => c = d

Optional ==
  {"limit", "reservation", "swap", "quota", "period", "shares", "cpus", "mems", "pids", "weight"}

Possible(r) == r \in Requests /\ \A field \in Optional : AtMostOne(r[field])

ASSUME RequestsAssumption ==
  \A f \in Configs, c \in Containers : \A r \in {f.request[c]} \cup f.updates[c] : Possible(r)

VARIABLES
  config,
  dirs,       (* the cgroups there are                                     *)
  delegated,  (* those that have enabled the controllers for their children*)
  inhabited,  (* containers with processes in their cgroup                 *)
  files,      (* what was written to each container's cgroup               *)
  pc,         (* where the create, then the delete of a container is       *)
  depth,      (* create: how many names are done                           *)
  todo,       (* apply of create: the writes that are left                 *)
  upd,        (* the updates of a container: at most one record of the     *)
              (* request and the writes that are left                      *)
  alone,      (* history: creates during which nobody else took a step     *)
  inForce     (* history: the requests that were applied to the end with   *)
              (* no other in between, {} if the last was not               *)

tree == <<dirs, delegated, inhabited>>
vars == <<config, tree, files, pc, depth, todo, upd, alone, inForce>>

Path(c) == RelativePath(config.path[c], c)

NoFiles == [file \in {} |-> <<0>>]

Init ==
  /\ config \in Configs
  /\ inhabited = config.settled
  /\ dirs = {<<>>} \cup UNION {Prefixes(Path(c)) : c \in inhabited}
  /\ delegated = {Parent(d) : d \in dirs \ {<<>>}}
  /\ files = [c \in Containers |-> NoFiles]
  /\ pc = [c \in Containers |-> IF c \in inhabited THEN "runs" ELSE "idle"]
  /\ depth = [c \in Containers |-> 0]
  /\ todo = [c \in Containers |-> <<>>]
  /\ upd = [c \in Containers |-> {}]
  /\ alone = {} /\ inForce = [c \in Containers |-> {}]

Creating == {c \in Containers : pc[c] \in {"delegate", "look", "mkdir", "apply", "attach"}}

Goto(c, to) == pc' = [pc EXCEPT ![c] = to]

(* Any step on behalf of c interrupts the creates of the others.           *)
Interrupts(c) == alone' = alone \cap {c}

-----------------------------------------------------------------------------
(* The kernel.                                                             *)

(* The controllers are there for the cgroup d.                             *)
Has(d) == \A n \in 0 .. Len(d) - 1 : Prefix(d, n) \in delegated

Populated(d) == \E c \in inhabited : Path(c) = d

Childless(d) == \A e \in dirs : e # <<>> => Parent(e) # d

Removable(d) == d \in dirs \ {<<>>} /\ ~Populated(d) /\ Childless(d)

Put(f, w) == [file \in DOMAIN f \cup {w.file} |-> IF file = w.file THEN w.value ELSE f[file]]

-----------------------------------------------------------------------------
(* Cgroup::create                                                          *)

Begin(c) ==
  /\ pc[c] = "idle" /\ c \notin config.settled
  /\ Goto(c, "delegate")
  /\ alone' = IF Creating = {} THEN {c} ELSE {}
  /\ UNCHANGED <<config, tree, files, depth, todo, upd, inForce>>

(* delegate: what is available and not enabled is enabled.                 *)
Delegate(c) ==
  /\ pc[c] = "delegate"
  /\ LET d == Prefix(Path(c), depth[c])
         missing == d \notin delegated /\ Has(d)
         refused == d # <<>> /\ Populated(d)
     IN  IF d \notin dirs \/ (missing /\ refused)
         THEN delegated' = delegated /\ Goto(c, "failed")
         ELSE /\ delegated' = IF missing THEN delegated \cup {d} ELSE delegated
              /\ Goto(c, "look")
  /\ Interrupts(c)
  /\ UNCHANGED <<config, dirs, inhabited, files, depth, todo, upd, inForce>>

(* Slip: is_leaf compares the index of the name with the number of names. *)
DeeperThanLeaf(c) ==
  /\ depth' = [depth EXCEPT ![c] = @ + 1]
  /\ IF depth[c] = Len(Path(c))
     THEN Goto(c, "apply") /\ todo' = [todo EXCEPT ![c] = Writes(config.request[c])]
     ELSE Goto(c, "delegate") /\ todo' = todo

Deeper(c) ==
  /\ depth' = [depth EXCEPT ![c] = @ + 1]
  /\ IF depth[c] + 1 = Len(Path(c))
     THEN Goto(c, "apply") /\ todo' = [todo EXCEPT ![c] = Writes(config.request[c])]
     ELSE Goto(c, "delegate") /\ todo' = todo

(* Slip: the directory is made without looking for it first.               *)
LookAway(c) ==
  /\ pc[c] = "look"
  /\ Goto(c, "mkdir")
  /\ Interrupts(c)
  /\ UNCHANGED <<config, tree, files, depth, todo, upd, inForce>>

(* is_dir ...                                                              *)
Look(c) ==
  /\ pc[c] = "look"
  /\ IF Prefix(Path(c), depth[c] + 1) \in dirs
     THEN Deeper(c)
     ELSE Goto(c, "mkdir") /\ UNCHANGED <<depth, todo>>
  /\ Interrupts(c)
  /\ UNCHANGED <<config, tree, files, upd, inForce>>

(* ... and create_dir, which fails if somebody made it, or removed its     *)
(* parent, since.                                                          *)
Mkdir(c) ==
  /\ pc[c] = "mkdir"
  /\ LET d == Prefix(Path(c), depth[c] + 1) IN
       IF d \notin dirs /\ Parent(d) \in dirs
       THEN dirs' = dirs \cup {d} /\ Deeper(c)
       ELSE Goto(c, "failed") /\ UNCHANGED <<dirs, depth, todo>>
  /\ Interrupts(c)
  /\ UNCHANGED <<config, delegated, inhabited, files, upd, inForce>>

(* One write of apply; the kernel refuses a value, or the controller is    *)
(* not there.  create then removes the cgroup again.                       *)
Apply(c) ==
  /\ pc[c] = "apply"
  /\ \/ /\ todo[c] = <<>>
        /\ Goto(c, "attach")
        /\ inForce' = [inForce EXCEPT ![c] = {config.request[c]}]
        /\ UNCHANGED <<files, todo>>
     \/ /\ todo[c] # <<>> /\ Path(c) \in dirs /\ Has(Path(c))
        /\ files' = [files EXCEPT ![c] = Put(@, Head(todo[c]))]
        /\ todo' = [todo EXCEPT ![c] = Tail(@)]
        /\ UNCHANGED <<pc, inForce>>
     \/ /\ todo[c] # <<>> /\ Goto(c, "rmdir")
        /\ todo' = [todo EXCEPT ![c] = <<>>]
        /\ UNCHANGED <<files, inForce>>
  /\ Interrupts(c)
  /\ UNCHANGED <<config, tree, depth, upd>>

(* add_process, on behalf of the handshake; refused where controllers are  *)
(* enabled for children, and the create is undone.                         *)
Attach(c) ==
  /\ pc[c] = "attach"
  /\ IF Path(c) \in dirs \ delegated
     THEN inhabited' = inhabited \cup {c} /\ Goto(c, "runs")
     ELSE inhabited' = inhabited /\ Goto(c, "rmdir")
  /\ Interrupts(c)
  /\ UNCHANGED <<config, dirs, delegated, files, depth, todo, upd, inForce>>

-----------------------------------------------------------------------------
(* mars update                                                             *)

(* The request comes from the flags, or as a document (--resources).  One  *)
(* update of a container at a time.                                        *)
UpdateBegin(c, r) ==
  /\ pc[c] = "runs" /\ upd[c] = {}
  /\ \E q \in FromFlags(r) \cup {r} :
       upd' = [upd EXCEPT ![c] = {[request |-> q, left |-> Writes(q)]}]
  /\ inForce' = [inForce EXCEPT ![c] = {}]
  /\ Interrupts(c)
  /\ UNCHANGED <<config, tree, files, pc, depth, todo>>

(* A refused write ends the update; what was written stays.                *)
UpdateWrite(c) ==
  /\ \E u \in upd[c] :
       \/ /\ u.left = <<>>
          /\ upd' = [upd EXCEPT ![c] = {}]
          /\ inForce' = [inForce EXCEPT ![c] = {u.request}]
          /\ files' = files
       \/ /\ u.left # <<>> /\ Path(c) \in dirs /\ Has(Path(c))
          /\ files' = [files EXCEPT ![c] = Put(@, Head(u.left))]
          /\ upd' = [upd EXCEPT ![c] = {[u EXCEPT !.left = Tail(@)]}]
          /\ inForce' = inForce
       \/ /\ u.left # <<>>
          /\ upd' = [upd EXCEPT ![c] = {}]
          /\ UNCHANGED <<files, inForce>>
  /\ Interrupts(c)
  /\ UNCHANGED <<config, tree, pc, depth, todo>>

-----------------------------------------------------------------------------
(* The end of a container, and Cgroup::destroy.                            *)

(* The processes end, by themselves or killed by the delete.               *)
Die(c) ==
  /\ c \in inhabited
  /\ inhabited' = inhabited \ {c}
  /\ UNCHANGED <<config, dirs, delegated, files, pc, depth, todo, upd, alone, inForce>>

Delete(c) ==
  /\ pc[c] = "runs"
  /\ Goto(c, "rmdir")
  /\ Interrupts(c)
  /\ UNCHANGED <<config, tree, files, depth, todo, upd, inForce>>

(* Slip: destroy leaves the parent to others.                              *)
RmdirOnly(c) ==
  /\ pc[c] = "rmdir"
  /\ IF Removable(Path(c)) THEN dirs' = dirs \ {Path(c)} /\ delegated' = delegated \ {Path(c)}
                           ELSE UNCHANGED <<dirs, delegated>>
  /\ Goto(c, "gone")
  /\ files' = [files EXCEPT ![c] = NoFiles]
  /\ Interrupts(c)
  /\ UNCHANGED <<config, inhabited, depth, todo, upd, inForce>>

(* rmdir; while it is busy it is tried 50 times, then the error is dropped *)
(* and the parent left alone.                                              *)
Rmdir(c) ==
  /\ pc[c] = "rmdir"
  /\ IF Removable(Path(c))
     THEN /\ dirs' = dirs \ {Path(c)} /\ delegated' = delegated \ {Path(c)}
          /\ Goto(c, IF Len(Path(c)) = 1 THEN "gone" ELSE "rmparent")
     ELSE UNCHANGED <<dirs, delegated>> /\ Goto(c, IF Path(c) \in dirs THEN "left" ELSE "gone")
  /\ files' = IF Removable(Path(c)) THEN [files EXCEPT ![c] = NoFiles] ELSE files
  /\ Interrupts(c)
  /\ UNCHANGED <<config, inhabited, depth, todo, upd, inForce>>

RmParent(c) ==
  /\ pc[c] = "rmparent"
  /\ LET d == Parent(Path(c)) IN
       IF Removable(d)
       THEN /\ dirs' = dirs \ {d} /\ delegated' = delegated \ {d}
            /\ files' = [e \in Containers |-> IF Path(e) = d THEN NoFiles ELSE files[e]]
       ELSE UNCHANGED <<dirs, delegated, files>>
  /\ Goto(c, "gone")
  /\ Interrupts(c)
  /\ UNCHANGED <<config, inhabited, depth, todo, upd, inForce>>

-----------------------------------------------------------------------------
Step(c) ==
  \/ Begin(c) \/ Delegate(c) \/ Look(c) \/ Mkdir(c) \/ Apply(c) \/ Attach(c)
  \/ (\E r \in config.updates[c] : UpdateBegin(c, r)) \/ UpdateWrite(c)
  \/ Die(c) \/ Delete(c) \/ Rmdir(c) \/ RmParent(c)

Next == \E c \in Containers : Step(c)

Spec == Init /\ [][Next]_vars

-----------------------------------------------------------------------------
(* Every directory has its parent, only existing cgroups are delegated, a  *)
(* create is never past its leaf, and a process is only in a cgroup that   *)
(* exists and that hands nothing on to children.                           *)
TypeOK ==
  /\ <<>> \in dirs /\ \A d \in dirs \ {<<>>} : Parent(d) \in dirs
  /\ delegated \subseteq dirs /\ inhabited \subseteq Containers
  /\ \A c \in inhabited : Path(c) \in dirs \ delegated
  /\ \A c \in Containers : /\ depth[c] \in 0 .. Len(Path(c))
                           /\ pc[c] \in {"delegate", "look", "mkdir"} => depth[c] < Len(Path(c))
                           /\ upd[c] # {} => inForce[c] = {}

Unnested(c) ==
  \A d \in Containers \ {c} : Path(d) \notin Prefixes(Path(c)) /\ Path(c) \notin Prefixes(Path(d))

(* No other container's cgroup is below that of c.                         *)
Lowest(c) == \A d \in Containers \ {c} : Path(c) \notin Prefixes(Path(d))

(* Of several writes to a file the last one counts.                        *)
IsLast(writes, i) == \A j \in i + 1 .. Len(writes) : writes[j].file # writes[i].file

Kept(f, writes) ==
  \A i \in DOMAIN writes : IsLast(writes, i) =>
    writes[i].file \in DOMAIN f /\ f[writes[i].file] = writes[i].value

TotalKept(f, r) ==
  \A limit \in r.limit, swap \in r.swap :
    limit > 0 /\ swap > 0 /\ r.unified = <<>>
      => f["memory.max"][1] + f["memory.swap.max"][1] = IF swap > limit THEN swap ELSE limit

WeightsLegal(f) == \A file \in Weights \cap DOMAIN f : f[file][1] \in WeightRange

(* While a container runs, its cgroup holds what create or the last update *)
(* asked for, whatever other containers do to the tree they share, if none *)
(* of them is below it; memory and swap together do not exceed the         *)
(* requested total, and the weights are in the kernel's range (v2.rs:      *)
(* apply, swap_value, shares_to_weight).                                   *)
LimitsHold ==
  /\ \A c \in inhabited : Lowest(c) =>
       \A r \in inForce[c] : Kept(files[c], Writes(r)) /\ TotalKept(files[c], r)
  /\ \A c \in Containers : WeightsLegal(files[c])

(* A create that nobody disturbs gets its cgroup, with the controllers,    *)
(* whatever the creates and deletes before it have left or not yet removed *)
(* (v2.rs: create, delegate, destroy).                                     *)
QuietCreate ==
  \A c \in alone : Unnested(c) =>
    /\ pc[c] # "failed"
    /\ pc[c] \in {"apply", "attach"} => Path(c) \in dirs \ delegated /\ Has(Path(c))

(* When every container is deleted, nothing of the tree is left, in        *)
(* whatever order the deletes, and the creates they raced, took their      *)
(* steps: the last one removes the shared parent (v2.rs: destroy).         *)
Tidy ==
  (\A c \in Containers : pc[c] \in {"idle", "gone"} /\ Unnested(c) /\ Len(Path(c)) <= 2)
    => dirs = {<<>>}
=============================================================================
