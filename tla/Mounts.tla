------------------------------ MODULE Mounts ------------------------------
(***************************************************************************)
(* What the init does to its root file system (src/rootfs: mounts.rs,      *)
(* devices.rs, pivot.rs, harden.rs), over a small tree of paths.           *)
(*                                                                         *)
(* A mount state says for every path which mount is seen there (view) and  *)
(* which paths exist.  A mount has an id, a file system, and the flags     *)
(* read-only and unbindable.  Mounting on a path hides all below it.  The  *)
(* loops of apply, create, mask_paths, readonly_paths and                  *)
(* remount_readonly_mounts are in Setup, their bodies here.                *)
(* Every operator returns the set of the states it may end in, which is    *)
(* empty when the code returns an error.                                   *)
(*                                                                         *)
(* Definitions commented "Slip" are mistakes the code could have made.     *)
(***************************************************************************)
EXTENDS Integers, FiniteSets, SequencesExt

CONSTANTS
  Paths,      (* sequences of names, <<>> is the root of the container     *)
  Files,      (* those that are not directories                            *)
  Provides    (* of a file system: the paths below its root it comes with  *)

ASSUME PathsAssumption ==
  /\ Paths \subseteq Seq(STRING)
  /\ <<>> \in Paths /\ \A p \in Paths \ {<<>>} : Front(p) \in Paths
  /\ {<<"proc", "sys">>, <<"dev">>, <<"dev", "null">>, <<"dev", "ptmx">>, <<"dev", "console">>}
       \subseteq Paths

Systems == DOMAIN Provides

(* "device" and "masked" are what the runtime binds and mounts by itself.  *)
ASSUME ProvidesAssumption ==
  /\ {"image", "cgroup2", "device", "masked"} \subseteq Systems /\ "cgroup" \notin Systems
  /\ \A fs \in Systems : \A r \in Provides[fs] :
       r \in Seq(STRING) /\ \A n \in 1 .. Len(r) : SubSeq(r, 1, n) \in Provides[fs]
  /\ Provides["image"] \subseteq Paths /\ Provides["masked"] = {}
  /\ "proc" \in Systems /\ <<"sys">> \in Provides["proc"]

Under(q) == {p \in Paths : IsPrefix(q, p)}

(* As the init finds it: the root file system is a directory of the host.  *)
Untouched ==
  [view |-> [p \in Paths |-> [id |-> <<0>>, fs |-> "image", ro |-> FALSE, unbindable |-> FALSE]],
   exists |-> {<<>>} \cup Provides["image"], next |-> 1, private |-> FALSE, root |-> "none",
   propagated |-> FALSE, devicesOwned |-> FALSE]

-----------------------------------------------------------------------------
(* The kernel.                                                             *)

IsMountPoint(s, q) == q = <<>> \/ s.view[Front(q)].id # s.view[q].id

(* A mount made while the root is shared shows on the host.                *)
Propagates(s) == s.propagated \/ ~s.private

Attach(s, q, fs, ro) ==
  LET made == [id |-> <<s.next>>, fs |-> fs, ro |-> ro, unbindable |-> FALSE]
  IN  IF q \notin s.exists \/ fs = "cgroup" THEN {}   (* only cgroup2 can be mounted *)
      ELSE {[s EXCEPT !.view = [p \in Paths |-> IF p \in Under(q) THEN made ELSE @[p]],
                      !.exists = (@ \ Under(q)) \cup {q} \cup
                                 ({q \o r : r \in Provides[fs]} \cap Paths),
                      !.next = @ + 1, !.propagated = Propagates(s)]}

(* A recursive bind onto itself: every mount below is there again.         *)
BindSelf(s, q) ==
  IF s.view[q].unbindable THEN {}
  ELSE {[s EXCEPT !.view = [p \in Paths |-> IF p \in Under(q)
                                            THEN [s.view[p] EXCEPT !.id = Append(@, s.next)]
                                            ELSE s.view[p]],
                  !.next = @ + 1]}

(* A remount is of one mount, MS_REC or not.                               *)
RemountReadonly(s, q) ==
  IF ~IsMountPoint(s, q) THEN {}
  ELSE {[s EXCEPT !.view = [p \in Paths |-> [s.view[p] EXCEPT !.ro = @ \/ s.view[p].id = s.view[q].id]]]}

(* Making a file or directory, with its parents.                           *)
Make(s, q) ==
  IF q \in s.exists THEN {s}
  ELSE LET missing == {p \in Paths : IsPrefix(p, q)} \ s.exists
       IN  IF \E p \in missing : s.view[p].ro THEN {} ELSE {[s EXCEPT !.exists = @ \cup missing]}

-----------------------------------------------------------------------------
(* mounts.rs                                                               *)

(* parse_options as far as it decides what mount(2) does: each option sets *)
(* or clears its flags, so the last of "ro" and "rw" counts.               *)
Flags(options) ==
  LET Given(S) == \E i \in DOMAIN options : options[i] \in S
  IN  [ro |-> \E i \in DOMAIN options :
                options[i] = "ro" /\ \A j \in DOMAIN options : j > i => options[j] # "rw",
       bind |-> Given({"bind", "rbind"}),
       propagation |-> Given({"private", "rprivate", "slave", "rslave", "shared", "rshared"})]

(* resolve: a destination does not climb out of the root file system.      *)
Resolve(destination) ==
  LET Walk(path, name) ==
        CASE name = ".." -> IF path = <<>> THEN path ELSE Front(path)
          [] name = "." -> path
          [] OTHER -> Append(path, name)
  IN  FoldLeft(Walk, <<>>, destination)

EffectiveFstype(fs) == IF fs = "cgroup" THEN "cgroup2" ELSE fs

(* link_ptmx                                                               *)
LinkPtmx(s) ==
  IF <<"dev">> \notin s.exists \/ s.view[<<"dev">>].ro THEN {}
  ELSE {[s EXCEPT !.exists = @ \cup {<<"dev", "ptmx">>}]}

(* One mount(2), whose first matching purpose counts: a bind ignores ro; a *)
(* change of propagation makes no mount.                                   *)
ApplyOne(s, m) ==
  LET q == Resolve(m.destination)
      flags == Flags(m.options)
      Mounted(t) ==
        CASE flags.bind -> Attach(t, q, m.fs, FALSE)
          [] ~flags.bind /\ flags.propagation -> IF IsMountPoint(t, q) /\ ~flags.ro THEN {t} ELSE {}
          [] OTHER -> Attach(t, q, EffectiveFstype(m.fs), flags.ro)
  IN  UNION {IF m.fs = "devpts" THEN UNION {LinkPtmx(u) : u \in Mounted(t)} ELSE Mounted(t)
             : t \in Make(s, q)}

-----------------------------------------------------------------------------
(* devices.rs: of the default nodes, dev/null.  In a user namespace, and   *)
(* whenever a namespace is joined, the host's node is bound instead of     *)
(* made.  An owner is given to whatever node is there.                     *)

Node(s, device, bound) ==
  IF device.path \in s.exists THEN {s}
  ELSE UNION {IF bound THEN Attach(t, device.path, "device", FALSE) ELSE {t}
              : t \in Make(s, device.path)}

Devices(extra) == <<[path |-> <<"dev", "null">>, owned |-> FALSE]>> \o extra

CreateOne(s, device, bound) ==
  {[t EXCEPT !.devicesOwned = @ \/ (device.owned /\ t.view[device.path].fs \in {"device", "host"})]
   : t \in Node(s, device, bound)}

-----------------------------------------------------------------------------
(* pivot.rs                                                                *)

(* Slip: the mounts stay shared.                                           *)
LeaveRootShared(s) == {s}

MakeRootPrivate(s) == {[s EXCEPT !.private = TRUE]}

(* make_mount_point, or the overlay.                                       *)
MakeMountPoint(s) == {[s EXCEPT !.root = "mounted", !.propagated = Propagates(s)]}

(* pivot_root(2) wants the root to be a private mount.                     *)
Pivot(s) == IF s.private /\ s.root = "mounted" THEN {[s EXCEPT !.root = "pivoted"]} ELSE {}

SetPropagation(s, requested) ==
  {[s EXCEPT !.view = [p \in Paths |-> [s.view[p] EXCEPT !.unbindable = "unbindable" \in requested]]]}

(* console.rs: openpty, the handover, and the bind onto dev/console.       *)
SetupConsole(s) ==
  IF \E p \in s.exists : s.view[p].fs = "devpts" /\ ~s.view[p].unbindable
  THEN UNION {Attach(t, <<"dev", "console">>, "device", FALSE) : t \in Make(s, <<"dev", "console">>)}
  ELSE {}

-----------------------------------------------------------------------------
(* harden.rs, after pivot_root.                                            *)

(* A masked file is bound over with /dev/null, a directory with an empty   *)
(* file system; what does not exist is not masked.                         *)
MaskOne(s, q) ==
  CASE q \notin s.exists -> {s}
    [] q \in s.exists /\ q \in Files ->
         IF <<"dev", "null">> \in s.exists /\ ~s.view[<<"dev", "null">>].unbindable
         THEN Attach(s, q, "masked", FALSE) ELSE {}
    [] OTHER -> Attach(s, q, "masked", TRUE)

(* Slip: bind and read-only in one mount(2); a bind ignores the latter.    *)
ReadonlyAtOnce(s, q) == IF q \notin s.exists THEN {s} ELSE BindSelf(s, q)

ReadonlyOne(s, q) ==
  IF q \notin s.exists THEN {s} ELSE UNION {RemountReadonly(t, q) : t \in BindSelf(s, q)}

(* remount_readonly_mounts: those of type tmpfs that ask for it.           *)
RemountTmpfs(s, m) ==
  IF Flags(m.options).ro /\ m.fs = "tmpfs" THEN RemountReadonly(s, Resolve(m.destination)) ELSE {s}

ReadonlyRootfs(s) == RemountReadonly(s, <<>>)
=============================================================================
