---------------------------- MODULE MCCgroupTree ----------------------------
(* Three containers below one parent; two of them with limits and updates; *)
(* and one whose cgroup is the parent of another's.                        *)
EXTENDS CgroupTree, TLC

Names == {"a", "b", "c"}

AllFiles == Named \cup {"io.max"}

Flat == [c \in Names |-> <<>>]

Deep == "a" :> <<>> @@ "b" :> <<"..", "b">> @@ "c" :> <<"x", "y", "c">>

Nested == "a" :> <<"mars", "a">> @@ "b" :> <<"mars">> @@ "c" :> <<"c">>

Nothing == [c \in Names |-> NoRequest]

None == [c \in Names |-> {}]

Sized == [NoRequest EXCEPT !.limit = {100}, !.swap = {200}, !.shares = {1024}]

Weighted == [NoRequest EXCEPT !.weight = {1000}, !.quota = {0}, !.pids = {-1}, !.limit = {100},
               !.throttle = <<[file |-> "io.max", value |-> <<8, 0, 1>>]>>,
               !.unified = <<[file |-> "memory.max", value |-> <<300>>]>>]

Updates == {[NoRequest EXCEPT !.limit = {100}, !.swap = {50}],
            [NoRequest EXCEPT !.limit = {0}, !.swap = {200}, !.shares = {0}],
            [NoRequest EXCEPT !.shares = {1}, !.reservation = {50}, !.period = {1000}]}

Config(path, request, updates, settled) ==
  [path |-> path, request |-> request, updates |-> updates, settled |-> settled]

AllConfigs ==
  {Config(p, Nothing, None, {}) : p \in {Flat, Deep, Nested}}
  \cup {Config(p, Nothing, None, s) : p \in {Flat, Nested}, s \in {{"a"}}}
  \cup {Config(Flat, "a" :> r @@ Nothing, "a" :> Updates @@ None, {"b"}) : r \in {Sized, Weighted}}
=============================================================================
