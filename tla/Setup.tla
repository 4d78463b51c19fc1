------------------------------- MODULE Setup -------------------------------
(***************************************************************************)
(* What becomes of a configuration: the plan (bundle/validate.rs and build *)
(* in container/mod.rs), the namespaces (namespace.rs, stage_one) and      *)
(* container_init (container/init.rs) up to the point where it reports     *)
(* that it is ready.  One process after the other takes the steps, so      *)
(* there is nothing to interleave: the question is whether each step still *)
(* has what it needs and none undoes an earlier one, for every             *)
(* combination of requests.  Resources do not run out: a step fails only   *)
(* where the configuration or an earlier step makes it fail.               *)
(*                                                                         *)
(* Definitions commented "Slip" are mistakes the code could have made.     *)
(***************************************************************************)
EXTENDS Overlay, Mounts, Creds

JoinOrder == <<"user", "ipc", "uts", "net", "pid", "cgroup", "mnt">>

Kinds == ToSet(JoinOrder) \cup {"time"}

CONSTANT Configs
  (* records: create (kinds of namespaces), join (those with a path, in    *)
  (* the order of config.json), asRoot (the runtime is root), mappings (of *)
  (* uid, gid), layers (the overlay's annotations), bundle, there and      *)
  (* device (the host's directories and their file systems), mounts, extra *)
  (* (devices), console, propagation, hostname, sysctl, masked, readonly,  *)
  (* roRoot, uid, groups, raises, caps, nnp, filter.                       *)

CapSets == [{"bounding", "permitted", "effective", "inheritable", "ambient"} -> SUBSET Caps]

(* What parses; caps, filter and layers are sets of at most one, and a     *)
(* name of the bundle's path is not empty and has no slash.                *)
ASSUME ConfigsAssumption ==
  \A c \in Configs :
    /\ c.create \subseteq Kinds /\ c.join \in Seq(Kinds)
    /\ c.hostname \in BOOLEAN /\ c.nnp \in BOOLEAN /\ c.uid \in {"root", "user"}
    /\ \A s \in c.caps : c.caps = {s} /\ s \in CapSets
    /\ \A f \in c.filter : c.filter = {f}
    /\ c.masked \in Seq(Paths) /\ c.readonly \in Seq(Paths)
    /\ Len(c.mounts) \in Nat
    /\ \A i \in 1 .. Len(c.mounts) :
         /\ Resolve(c.mounts[i].destination) \in Paths
         /\ c.mounts[i].fs \in (Systems \cup {"cgroup"}) \ {"device", "masked"}
    /\ c.extra \in Seq([path : Paths, owned : BOOLEAN])
    /\ c.bundle \in Seq(Seq(STRING \ {"/"}) \ {<<>>})
    /\ \A a \in c.layers :
         /\ c.layers = {a} /\ a.lower \in Seq(STRING)
         /\ \A S \in {a.upper, a.work} : S \subseteq Seq(STRING) /\ \A t, u \in S : t = u

VARIABLES
  config,
  pc,       (* the next step; ready or failed at the end                   *)
  left,     (* the kinds of the namespaces still to be joined              *)
  ns,       (* where the process is: host, joined, new or stray            *)
  overlay,  (* what was handed to mount(2)                                 *)
  mnt,      (* see Mounts                                                  *)
  done,     (* how many of the list of a loop over mounts, devices or      *)
            (* paths are done                                              *)
  cred,     (* see Creds                                                   *)
  settings  (* what was set (hostname or sysctl), and whose                *)

vars == <<config, pc, left, ns, overlay, mnt, done, cred, settings>>

Init ==
  /\ config \in Configs
  /\ pc = "plan" /\ left = {} /\ done = 0 /\ ns = [k \in Kinds |-> "host"] /\ overlay = {}
  /\ mnt = Untouched /\ cred = Root /\ settings = {}

Layers == UNION {FromAnnotations(a, config.bundle).found : a \in config.layers}

Listed == config.create \cup ToSet(config.join)

(* The step at pc; failed if the code returns an error.                    *)
GoOn(to, possible) == pc' = IF possible THEN to ELSE "failed"

MountChange(at, to, results) ==
  /\ pc = at /\ GoOn(to, results # {})
  /\ mnt' \in (IF results = {} THEN {mnt} ELSE results)
  /\ UNCHANGED <<config, left, ns, overlay, cred, settings>>

MountStep(at, to, results) == MountChange(at, to, results) /\ done' = done

(* A loop: the next of the list, until none is left or one fails.          *)
Loop(at, to, list, results) ==
  \/ done < Len(list) /\ MountChange(at, at, results) /\ done' = done + 1
  \/ done = Len(list) /\ MountChange(at, to, {mnt}) /\ done' = 0

CredChange(at, to, results) ==
  /\ pc = at /\ GoOn(to, results # {})
  /\ cred' \in (IF results = {} THEN {cred} ELSE results)

CredStep(at, to, results) ==
  /\ CredChange(at, to, results)
  /\ UNCHANGED <<config, left, ns, overlay, mnt, done, settings>>

-----------------------------------------------------------------------------
(* The runtime.                                                            *)

(* namespace_types: no kind is listed twice.                               *)
NamespaceTypes ==
  /\ \A i, j \in DOMAIN config.join : i # j => config.join[i] # config.join[j]
  /\ config.create \cap ToSet(config.join) = {}

(* Bundle::load with validate::spec, as far as the rest depends on it.     *)
Valid ==
  /\ NamespaceTypes
  /\ config.hostname => "uts" \in Listed

(* j is in JoinOrder, and k is not up to there.                            *)
Before(j, k) == \E i \in DOMAIN JoinOrder : JoinOrder[i] = j /\ \A n \in 1 .. i : JoinOrder[n] # k

(* Slip: the namespaces are joined in the order of config.json.            *)
NextAsListed(k) ==
  k \in left /\ \E i \in DOMAIN config.join :
    config.join[i] = k /\ \A j \in 1 .. i - 1 : config.join[j] \notin left

(* layout: sorted by JoinOrder, a kind that is not in it comes last.       *)
NextToJoin(k) == k \in left /\ \A j \in left : ~Before(j, k)

Plan ==
  /\ pc = "plan"
  /\ GoOn("join", /\ Valid
                  /\ \A a \in config.layers : ~FromAnnotations(a, config.bundle).refused
                  /\ \A l \in Layers : /\ "mnt" \in config.create
                                       /\ Prepares(l, config.there, config.device))
  /\ left' = ToSet(config.join)
  /\ UNCHANGED <<config, ns, overlay, mnt, done, cred, settings>>

-----------------------------------------------------------------------------
(* stage_one                                                               *)

(* join_existing opens a path under /proc and enters what it finds there;  *)
(* in another mount namespace that is another /proc.                       *)
JoinOne ==
  /\ pc = "join"
  /\ \E k \in Kinds :
       /\ NextToJoin(k) /\ left' = left \ {k}
       /\ \/ ns["mnt"] = "host" /\ pc' = pc /\ ns' = [ns EXCEPT ![k] = "joined"]
          \/ ns["mnt"] # "host" /\ pc' = pc /\ ns' = [ns EXCEPT ![k] = "stray"]
          \/ ns["mnt"] # "host" /\ pc' = "failed" /\ ns' = ns
  /\ UNCHANGED <<config, overlay, mnt, done, cred, settings>>

(* The unshares, in an order in which the user namespace is first so that  *)
(* it owns the others, and the runtime writes its mappings meanwhile.      *)
Unshare ==
  /\ CredChange("join", "rootfs",
       IF "user" \in config.create THEN WriteMappings(cred, config.mappings, config.asRoot) ELSE {cred})
  /\ left = {}
  /\ ns' = [k \in Kinds |-> IF k \in config.create THEN "new" ELSE ns[k]]
  /\ UNCHANGED <<config, left, overlay, mnt, done, settings>>

-----------------------------------------------------------------------------
(* container_init.  The mounts are made only in a mount namespace of its   *)
(* own.                                                                    *)

OwnMounts == "mnt" \in config.create

Rootfs ==
  /\ pc = "rootfs"
  /\ LET mounted == UNION {MountAt(l) : l \in Layers} IN
       /\ GoOn(IF OwnMounts THEN "mounts" ELSE "identity",
               OwnMounts /\ Layers # {} => mounted # {})
       /\ overlay' = IF OwnMounts THEN mounted ELSE {}
       /\ mnt' \in IF OwnMounts THEN UNION {MakeMountPoint(t) : t \in MakeRootPrivate(mnt)} ELSE {mnt}
  /\ UNCHANGED <<config, left, ns, done, cred, settings>>

Bound == "user" \in config.create \/ config.join # <<>>

Nodes == Devices(config.extra)

MountAll == Loop("mounts", "devices", config.mounts, ApplyOne(mnt, config.mounts[done + 1]))

CreateDevices == Loop("devices", "pivot", Nodes, CreateOne(mnt, Nodes[done + 1], Bound))

PivotRoot ==
  MountStep("pivot", "console",
            UNION {SetPropagation(t, config.propagation) : t \in Pivot(mnt)})

Console == MountStep("console", "identity", IF config.console THEN SetupConsole(mnt) ELSE {mnt})

(* sethostname and setdomainname, then the sysctls, whose files are those  *)
(* of the mounts the process sees.                                         *)
Identity ==
  /\ pc = "identity"
  /\ LET writable == ~OwnMounts \/ (/\ <<"proc", "sys">> \in mnt.exists
                                    /\ ~mnt.view[<<"proc", "sys">>].ro)
     IN  GoOn(IF OwnMounts THEN "mask" ELSE "limits", config.sysctl => writable)
  /\ settings' = (IF config.hostname THEN {<<"hostname", ns["uts"]>>} ELSE {})
                 \cup (IF config.sysctl THEN {<<"sysctl", ns["net"]>>} ELSE {})
  /\ UNCHANGED <<config, left, ns, overlay, mnt, done, cred>>

Mask == Loop("mask", "readonly", config.masked, MaskOne(mnt, config.masked[done + 1]))

Readonly == Loop("readonly", "tmpfs", config.readonly, ReadonlyOne(mnt, config.readonly[done + 1]))

Tmpfs == Loop("tmpfs", "roRoot", config.mounts, RemountTmpfs(mnt, config.mounts[done + 1]))

RootReadonly == MountStep("roRoot", "limits", IF config.roRoot THEN ReadonlyRootfs(mnt) ELSE {mnt})

Limits == CredStep("limits", "filterFirst", ApplyLimits(cred, config))

Filtered == UNION {ApplySeccomp(cred, f) : f \in config.filter}

(* Without no_new_privs the filter is loaded while that is still allowed.  *)
FilterFirst ==
  CredStep("filterFirst", "bounding", IF config.nnp \/ config.filter = {} THEN {cred} ELSE Filtered)

(* Slip: the bounding set is dropped with the other sets.                  *)
BoundingLater == CredStep("bounding", "ids", {cred})

Bounding ==
  CredStep("bounding", "ids",
           IF config.caps = {} THEN {cred} ELSE UNION {DropBounding(cred, c) : c \in config.caps})

Ids == CredStep("ids", "caps", DropPrivileges(cred, config))

Capabilities ==
  CredStep("caps", "nnp",
           IF config.caps = {} THEN {cred} ELSE UNION {ApplyCaps(cred, c) : c \in config.caps})

NoNewPrivs == CredStep("nnp", "filterLast", IF config.nnp THEN SetNoNewPrivs(cred) ELSE {cred})

FilterLast ==
  CredStep("filterLast", "ready", IF ~config.nnp \/ config.filter = {} THEN {cred} ELSE Filtered)

Next ==
  \/ Plan \/ JoinOne \/ Unshare \/ Rootfs \/ MountAll \/ CreateDevices \/ PivotRoot \/ Console
  \/ Identity \/ Mask \/ Readonly \/ Tmpfs \/ RootReadonly \/ Limits \/ FilterFirst \/ Bounding
  \/ Ids \/ Capabilities \/ NoNewPrivs \/ FilterLast

Spec == Init /\ [][Next]_vars

-----------------------------------------------------------------------------
TypeOK ==
  /\ ns \in [Kinds -> {"host", "joined", "new", "stray"}]
  /\ left \subseteq Kinds /\ done \in Nat
  /\ mnt.exists \subseteq Paths /\ mnt.root \in {"none", "mounted", "pivoted"}
  /\ cred.effective \subseteq cred.permitted /\ cred.permitted \subseteq Caps
  /\ cred.ambient \subseteq cred.permitted \cap cred.inheritable /\ cred.filters \in {0, 1}

(* The namespaces are those that were asked for, and the process enters no *)
(* other: a path is opened while the host's /proc is seen (namespace.rs:   *)
(* layout; init.rs: stage_one).  Except for the time namespace, which      *)
(* JoinOrder leaves out.                                                   *)
NamespacesAsAsked ==
  /\ \A k \in Kinds \ {"time"} : ns[k] # "stray"
  /\ pc = "ready" => \A k \in Kinds \ {"time"} :
       ns[k] = IF k \in config.create THEN "new"
               ELSE IF k \in ToSet(config.join) THEN "joined" ELSE "host"

(* Nothing of the setup shows on the host: no mount propagates there, the  *)
(* host is not renamed, its device nodes keep their owner unless one of    *)
(* them is bound and given one (pivot.rs, validate.rs, devices.rs).        *)
HostUntouched ==
  /\ ~mnt.propagated
  /\ <<"hostname", "host">> \notin settings
  /\ mnt.devicesOwned =>
       /\ \E i \in DOMAIN config.extra : config.extra[i].owned
       /\ Bound \/ \E i \in 1 .. Len(config.mounts) : config.mounts[i].fs = "host"

(* The program runs with exactly the identity that was asked for: no       *)
(* capability, group or filter more or less, and no_new_privs only if      *)
(* requested (init.rs, process.rs, capabilities.rs, seccomp.rs).           *)
IdentityExact ==
  pc = "ready" =>
    /\ cred.uid = config.uid /\ cred.groups = config.groups /\ ~cred.keep
    /\ cred.nnp = config.nnp /\ cred.filters = Cardinality(config.filter)
    /\ \A f \in config.filter : cred.refused = f.refused
    /\ \A c \in config.caps :
         /\ cred.bounding = c.bounding /\ cred.permitted = c.permitted
         /\ cred.effective = c.effective /\ cred.inheritable = c.inheritable
         /\ cred.ambient = c.ambient

(* What the setup does, it does to the container: the process ends up in   *)
(* the namespaces and with the identity that were asked for, and in and    *)
(* with no others, and the host is as before.                              *)
Confined == NamespacesAsAsked /\ HostUntouched /\ IdentityExact

Destination(i) == Resolve(config.mounts[i].destination)

ReadonlyTmpfs(i) == Flags(config.mounts[i].options).ro /\ config.mounts[i].fs = "tmpfs"

(* When the program is about to run, what was to be masked cannot be read, *)
(* what was to be read-only cannot be written, whatever was mounted, bound *)
(* or masked above, below or after it (harden.rs).                         *)
Hardened ==
  pc = "ready" /\ OwnMounts =>
    /\ \A i \in DOMAIN config.masked : \A p \in Under(config.masked[i]) \cap mnt.exists :
         mnt.view[p].fs = "masked"
    /\ \A i \in DOMAIN config.readonly :
         LET q == config.readonly[i] IN q \in mnt.exists => mnt.view[q].ro
    /\ \A i \in 1 .. Len(config.mounts) : ReadonlyTmpfs(i) => mnt.view[Destination(i)].ro
    /\ config.roRoot => mnt.view[<<>>].ro

(* An overlay shows the layers that were asked for, whatever characters    *)
(* their names have, unless its options are exactly a page long            *)
(* (overlay.rs: escape, options, mount_at).                                *)
LayersShown ==
  pc = "ready" /\ OwnMounts =>
    \A l \in Layers, m \in overlay : Len(m.data) # MaxOption => ReadsBack(m, l)

-----------------------------------------------------------------------------
(* A configuration that asks for nothing impossible.                       *)

NamespacesFit ==
  /\ Valid /\ config.asRoot /\ config.layers = {}
  /\ "user" \in config.create => config.mappings = {"uid", "gid"}
  /\ ~({"mnt", "time"} \subseteq ToSet(config.join))

Later(i) == {j \in 1 .. Len(config.mounts) : j > i}

(* Nothing is to be made below a mount that is read-only from the start.   *)
NothingBelow(i) ==
  LET below(p) == IsStrictPrefix(Destination(i), p)
  IN  /\ \A j \in Later(i) : ~below(Destination(j))
      /\ \A j \in DOMAIN Nodes : ~below(Nodes[j].path)
      /\ ~below(<<"dev", "console">>)

(* A mount that is remounted at the end is still there.                    *)
NothingAbove(i) ==
  LET above(p) == IsStrictPrefix(p, Destination(i))
  IN  /\ \A j \in Later(i) : ~above(Destination(j))
      /\ \A j \in DOMAIN config.masked : ~above(config.masked[j])
      /\ ~above(<<"dev", "console">>)

NotCovered(p, i) == \A j \in Later(i) : ~IsPrefix(Destination(j), p)

MountsFit ==
  /\ \A i \in 1 .. Len(config.mounts) :
       LET m == config.mounts[i] f == Flags(m.options)
       IN  /\ IF f.bind THEN m.fs # "cgroup" ELSE ~f.propagation
           /\ m.fs = "devpts" => IsStrictPrefix(<<"dev">>, Destination(i))
           /\ f.ro /\ ~f.bind => NothingBelow(i)
           /\ ReadonlyTmpfs(i) => NothingAbove(i)
  /\ "unbindable" \notin config.propagation
  /\ config.console => \E i \in 1 .. Len(config.mounts) :
       config.mounts[i].fs = "devpts" /\ NotCovered(Destination(i), i)
  /\ config.sysctl => \E i \in 1 .. Len(config.mounts) :
       /\ config.mounts[i].fs = "proc" /\ Destination(i) = <<"proc">>
       /\ ~Flags(config.mounts[i].options).ro /\ NotCovered(<<"proc", "sys">>, i)
  /\ \A i \in DOMAIN config.masked : ~IsStrictPrefix(config.masked[i], <<"dev", "null">>)

IdentityFits ==
  /\ \A c \in config.caps :
       /\ c.effective \subseteq c.permitted /\ c.ambient \subseteq c.permitted \cap c.inheritable
       /\ c.inheritable \subseteq c.permitted \cap c.bounding
  /\ \A f \in config.filter :
       f.sound /\ (config.nnp \/ f.refused \cap {"setgroups", "setgid", "setuid", "prctl", "capset"} = {})

Sensible == NamespacesFit /\ IdentityFits /\ (OwnMounts => MountsFit)

(* Every step still has the privileges, and the files, it needs: a         *)
(* sensible configuration of a root runtime does not fail.                 *)
NothingRefused == Sensible => pc # "failed"
=============================================================================
