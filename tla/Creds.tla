------------------------------- MODULE Creds -------------------------------
(***************************************************************************)
(* The identity and privileges of the init (src/container: process.rs,     *)
(* capabilities.rs, seccomp.rs), as the system calls that change them.     *)
(*                                                                         *)
(* An operator returns the set of the credentials it may end with, empty   *)
(* when the call, and with it the code, fails.  A credential has a uid     *)
(* (root or user), its groups, the five capability sets, no_new_privs, the *)
(* keep-capabilities flag, the system calls its seccomp filters refuse,    *)
(* and whether its user namespace lets it set groups.                      *)
(*                                                                         *)
(* Definitions commented "Slip" are mistakes the code could have made.     *)
(***************************************************************************)
EXTENDS Integers, FiniteSets

CONSTANT Caps

ASSUME CapsAssumption ==
  {"SETPCAP", "SETUID", "SETGID", "SYS_ADMIN", "SYS_RESOURCE"} \subseteq Caps

(* Root of the host, and so of any user namespace.                         *)
Root ==
  [uid |-> "root", groups |-> {"staff"}, bounding |-> Caps, permitted |-> Caps, effective |-> Caps,
   inheritable |-> {}, ambient |-> {}, nnp |-> FALSE, keep |-> FALSE, refused |-> {},
   filters |-> 0, groupsDenied |-> FALSE]

Can(c, cap) == cap \in c.effective

Allowed(c, call) == call \notin c.refused

-----------------------------------------------------------------------------
(* The kernel.                                                             *)

SetGroups(c, groups) ==
  IF Allowed(c, "setgroups") /\ Can(c, "SETGID") /\ ~c.groupsDenied THEN {[c EXCEPT !.groups = groups]} ELSE {}

SetGid(c) == IF Allowed(c, "setgid") /\ Can(c, "SETGID") THEN {c} ELSE {}

(* Leaving root clears the effective and ambient sets, and the permitted   *)
(* one unless it is to be kept.                                            *)
SetUid(c, uid) ==
  IF ~Allowed(c, "setuid") \/ ~(Can(c, "SETUID") \/ uid = c.uid) THEN {}
  ELSE IF c.uid = "root" /\ uid # "root"
       THEN {[c EXCEPT !.uid = uid, !.effective = {}, !.ambient = {},
                       !.permitted = IF c.keep THEN @ ELSE {}]}
       ELSE {[c EXCEPT !.uid = uid]}

Keep(c, keep) == IF Allowed(c, "prctl") THEN {[c EXCEPT !.keep = keep]} ELSE {}

(* capset(2): effective within permitted, permitted only shrinks, and the  *)
(* inheritable set only grows within the permitted one, or with SETPCAP    *)
(* within the bounding set.                                                *)
CapSet(c, e, p, i) ==
  IF /\ Allowed(c, "capset") /\ e \subseteq p /\ p \subseteq c.permitted
     /\ i \subseteq c.inheritable \cup c.bounding
     /\ i \subseteq c.inheritable \cup c.permitted \/ Can(c, "SETPCAP")
  THEN {[c EXCEPT !.effective = e, !.permitted = p, !.inheritable = i, !.ambient = @ \cap p \cap i]}
  ELSE {}

(* A filter needs SYS_ADMIN or no_new_privs.                               *)
LoadFilter(c, refused) ==
  IF Allowed(c, "seccomp") /\ (Can(c, "SYS_ADMIN") \/ c.nnp)
  THEN {[c EXCEPT !.refused = @ \cup refused, !.filters = @ + 1]} ELSE {}

-----------------------------------------------------------------------------
(* userns.rs: write, of both mappings or none.  Root of the new namespace  *)
(* has every capability in it; an unprivileged runtime first denies it     *)
(* setgroups, and newuidmap and newgidmap write what it may not write      *)
(* itself: they are installed and grant the ranges.                        *)
WriteMappings(c, mappings, privileged) ==
  IF mappings = {"uid", "gid"} THEN {[c EXCEPT !.groupsDenied = ~privileged]} ELSE {}

-----------------------------------------------------------------------------
(* process.rs                                                              *)

(* apply_limits, apply_oom_score_adj and apply_umask: raising a limit or   *)
(* lowering the score needs SYS_RESOURCE.                                  *)
ApplyLimits(c, p) == IF p.raises => Can(c, "SYS_RESOURCE") THEN {c} ELSE {}

(* drop_privileges                                                         *)
DropPrivileges(c, p) ==
  LET leavingRoot == c.uid = "root" /\ p.uid # "root"
      Kept(d, keep) == IF leavingRoot THEN Keep(d, keep) ELSE {d}
  IN  UNION {UNION {UNION {UNION {Kept(g, FALSE) : g \in SetUid(f, p.uid)}
                           : f \in SetGid(e)} : e \in Kept(d, TRUE)} : d \in SetGroups(c, p.groups)}

-----------------------------------------------------------------------------
(* capabilities.rs.  p.caps is a set of at most one record of five sets.   *)

(* Needs SETPCAP if there is anything to drop.                             *)
DropBounding(c, caps) ==
  IF c.bounding \subseteq caps.bounding THEN {c}
  ELSE IF Can(c, "SETPCAP") /\ Allowed(c, "prctl") THEN {[c EXCEPT !.bounding = @ \cap caps.bounding]}
  ELSE {}

(* Slip: permitted before effective.                                       *)
ApplyCapsPermittedFirst(c, caps) ==
  LET P(d) == CapSet(d, d.effective, caps.permitted, d.inheritable)
      E(d) == CapSet(d, caps.effective, d.permitted, d.inheritable)
      I(d) == CapSet(d, d.effective, d.permitted, caps.inheritable)
      A(d) == {[d EXCEPT !.ambient = caps.ambient]}
  IN  UNION {UNION {UNION {A(f) : f \in I(e)} : e \in E(d)} : d \in P(c)}

(* apply: effective, permitted, inheritable, each with a capset(2) of its  *)
(* own, then the ambient set is cleared and raised.                        *)
ApplyCaps(c, caps) ==
  LET E(d) == CapSet(d, caps.effective, d.permitted, d.inheritable)
      P(d) == CapSet(d, d.effective, caps.permitted, d.inheritable)
      I(d) == CapSet(d, d.effective, d.permitted, caps.inheritable)
      A(d) == IF caps.ambient \subseteq caps.permitted \cap caps.inheritable /\ Allowed(d, "prctl")
              THEN {[d EXCEPT !.ambient = caps.ambient]} ELSE {}
  IN  IF ~(caps.effective \subseteq caps.permitted) THEN {}
      ELSE UNION {UNION {UNION {A(f) : f \in I(e)} : e \in P(d)} : d \in E(c)}

SetNoNewPrivs(c) == IF Allowed(c, "prctl") THEN {[c EXCEPT !.nnp = TRUE]} ELSE {}

-----------------------------------------------------------------------------
(* Slip: the attribute is left at its default.                             *)
ApplySeccompNnp(c, filter) ==
  IF filter.sound THEN {[d EXCEPT !.nnp = TRUE] : d \in LoadFilter([c EXCEPT !.nnp = TRUE], filter.refused)} ELSE {}

(* Slip: a filter for each architecture.                                   *)
ApplySeccompEach(c, filter) ==
  IF filter.sound THEN UNION {LoadFilter(d, filter.refused) : d \in LoadFilter(c, filter.refused)} ELSE {}

(* seccomp.rs: the filter's own no_new_privs bit is cleared, so loading it *)
(* sets none; a filter that notifies or names an unknown architecture is   *)
(* an error.                                                               *)
ApplySeccomp(c, filter) == IF filter.sound THEN LoadFilter(c, filter.refused) ELSE {}
=============================================================================
