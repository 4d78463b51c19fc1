------------------------------ MODULE MCSetup ------------------------------
(* Four families of configurations, each with everything else plain: the   *)
(* mounts and their hardening, the identity, the namespaces, the layers.   *)
EXTENDS Setup, TLC

TreePaths ==
  {<<>>, <<"proc">>, <<"proc", "sys">>, <<"proc", "kcore">>, <<"dev">>, <<"dev", "null">>,
   <<"dev", "pts">>, <<"dev", "ptmx">>, <<"dev", "console">>, <<"data">>, <<"data", "sub">>}

TreeFiles == {<<"proc", "kcore">>, <<"dev", "null">>, <<"dev", "ptmx">>, <<"dev", "console">>}

FileSystems ==
  "image" :> {<<"proc">>, <<"data">>, <<"data", "sub">>} @@ "proc" :> {<<"sys">>, <<"kcore">>}
  @@ "host" :> {<<"null">>} @@ [fs \in {"tmpfs", "devpts", "cgroup2", "device", "masked"} |-> {}]

AllCaps == {"SETPCAP", "SETUID", "SETGID", "SYS_ADMIN", "SYS_RESOURCE"}

M(destination, fs, options) == [destination |-> destination, fs |-> fs, options |-> options]

Proc == M(<<"proc">>, "proc", <<>>)
Dev == M(<<"dev">>, "tmpfs", <<"nosuid">>)
Pts == M(<<"dev", "pts">>, "devpts", <<>>)

Plain ==
  [create |-> {"mnt", "uts", "net"}, join |-> <<>>, asRoot |-> TRUE, mappings |-> {"uid", "gid"}, layers |-> {}, bundle |-> <<>>, there |-> {},
   device |-> <<>>, mounts |-> <<Proc, Dev, Pts>>, extra |-> <<>>, console |-> FALSE,
   propagation |-> {}, hostname |-> TRUE, sysctl |-> TRUE, masked |-> <<>>, readonly |-> <<>>,
   roRoot |-> TRUE, uid |-> "root", groups |-> {}, raises |-> TRUE, caps |-> {}, nnp |-> TRUE,
   filter |-> {}]

MountLists ==
  {<<Proc, Dev, Pts>>, <<Dev, Pts, Proc, M(<<"data", "..", "..", "data">>, "tmpfs", <<"rw", "ro">>)>>,
   <<Proc, M(<<"dev">>, "tmpfs", <<"ro">>)>>, <<Proc, Dev, M(<<"data">>, "host", <<"rbind", "ro">>)>>,
   <<Proc, Dev, M(<<"data">>, "tmpfs", <<"ro">>), M(<<"data">>, "tmpfs", <<"rprivate">>)>>,
   <<Proc, M(<<"dev">>, "host", <<"rbind">>)>>,
   <<Dev, Proc, M(<<"data", "sub">>, "cgroup", <<"ro">>)>>,
   <<Dev, Proc, M(<<"data">>, "tmpfs", <<>>), M(<<"data", "sub">>, "tmpfs", <<"ro">>)>>,
   <<Dev, Proc, M(<<"data", "sub">>, "tmpfs", <<"ro">>), M(<<"data">>, "tmpfs", <<>>)>>}

Mountings ==
  {[Plain EXCEPT !.mounts = l, !.masked = k, !.readonly = r, !.console = c, !.propagation = p,
                 !.extra = e, !.join = j, !.roRoot = w] :
     l \in MountLists, k \in {<<>>, <<<<"proc", "kcore">>, <<"data", "sub">>>>, <<<<"data">>>>},
     r \in {<<>>, <<<<"proc", "sys">>>>, <<<<"proc">>, <<"data">>>>}, c \in BOOLEAN,
     p \in {{}, {"shared"}, {"unbindable"}}, w \in BOOLEAN,
     e \in {<<>>, <<[path |-> <<"dev", "null">>, owned |-> TRUE]>>}, j \in {<<>>, <<"pid">>}}

Sets(b, p, e, i, a) ==
  [bounding |-> b, permitted |-> p, effective |-> e, inheritable |-> i, ambient |-> a]

CapRequests ==
  LET few == {"SETUID", "SYS_ADMIN"} one == {"SETUID"}
  IN  {Sets({}, {}, {}, {}, {}), Sets(AllCaps, AllCaps, AllCaps, AllCaps, AllCaps),
       Sets(few, few, one, one, one), Sets(few, few, few, few, {}), Sets(few, one, one, few, {}),
       Sets(few, one, few, {}, {}), Sets(few, few, one, {}, one)}

Filters ==
  {[sound |-> TRUE, refused |-> {"mount"}], [sound |-> TRUE, refused |-> {"capset", "setgroups"}],
   [sound |-> FALSE, refused |-> {}]}

Identities ==
  {[Plain EXCEPT !.uid = u, !.groups = g, !.caps = c, !.nnp = n, !.filter = f, !.raises = r,
                 !.create = @ \cup w, !.asRoot = o] :
     u \in {"root", "user"}, g \in {{}, {"audio"}}, c \in {{}} \cup {{s} : s \in CapRequests},
     n \in BOOLEAN, f \in {{}} \cup {{x} : x \in Filters}, r \in BOOLEAN, w \in {{"user"}},
     o \in BOOLEAN}

Namespaces ==
  {[Plain EXCEPT !.create = c, !.join = j, !.hostname = h, !.sysctl = s, !.mappings = m] :
     c \in {{}, {"mnt"}, {"uts", "ipc"}, {"user", "mnt", "pid", "time"}},
     j \in {<<>>, <<"mnt", "user">>, <<"mnt", "time", "net">>, <<"net", "uts">>, <<"uts", "uts">>,
            <<"cgroup", "pid", "mnt", "ipc", "user">>},
     h \in BOOLEAN, s \in BOOLEAN, m \in {{"uid", "gid"}, {"uid"}}}

Names == {<<"a">>, <<"a", "\\", ":">>, <<"\\", "\\", "b">>, <<",">>, <<"a", "a", "a", "a", "a">>}

(* Texts of lower layers, below the bundle or not, and the odd ones.       *)
Lowers ==
  {Join(<<<<"/", "v", "/">> \o n, m>> \o t, ":") :
     m \in Names, n \in Names, t \in {<<>>, <<<<>>, <<"a", "a">>>>, <<<<"b", "\\">>>>}}
  \cup {<<>>, <<":">>, <<"\\">>, <<"/", ":", "a">>, <<"/", ":">> \o [i \in 1 .. MaxOption |-> "a"]}

Overlays ==
  LET V(text) == <<"/", "v", "/">> \o text
      bundle == <<<<"v">>>>
      With(a) ==
        LET there == UNION {AllPaths(l) : l \in FromAnnotations(a, bundle).found}
        IN  [Plain EXCEPT !.layers = {a}, !.bundle = bundle, !.device = [p \in there |-> 0],
                          !.there = there \ {<<<<"v">>, <<"b">>>>}]
  IN  {With([lower |-> l, upper |-> u, work |-> w]) :
         l \in Lowers, u \in {{}, {<<"u">>}, {<<"a">>}}, w \in {{}, {V(<<"w">>)}, {<<"u", "/", "w">>}}}

AllConfigs == Mountings \cup Identities \cup Namespaces \cup Overlays
=============================================================================
