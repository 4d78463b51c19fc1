----------------------------- MODULE Resources -----------------------------
(***************************************************************************)
(* Cgroup::apply and the conversions of src/cgroup/v2.rs, and what         *)
(* `mars update` makes of its flags (src/commands/lifecycle.rs).           *)
(*                                                                         *)
(* A request is a record of optional fields, each a set of at most one     *)
(* value; throttle and unified are sequences of writes.  A write is a pair *)
(* of a file of the cgroup and a tuple of what it is made of.  "max" is    *)
(* Unlimited.  io.max has a line for each device, which count as files of  *)
(* their own.                                                              *)
(*                                                                         *)
(* Definitions commented "Slip" are mistakes the code could have made.     *)
(***************************************************************************)
EXTENDS Integers, Sequences

Unlimited == -1

NoRequest ==
  [limit |-> {}, reservation |-> {}, swap |-> {}, quota |-> {}, period |-> {}, shares |-> {},
   cpus |-> {}, mems |-> {}, pids |-> {}, weight |-> {}, throttle |-> <<>>, unified |-> <<>>]

(* The files apply names itself.                                           *)
Named ==
  {"memory.max", "memory.low", "memory.swap.max", "cpu.max", "cpu.weight", "cpuset.cpus",
   "cpuset.mems", "pids.max", "io.weight"}

CONSTANT Files   (* the names of the files a cgroup may have               *)

ASSUME FilesAssumption == Named \subseteq Files

Weights == {"cpu.weight", "io.weight"}

WeightRange == 1 .. 10000   (* of the kernel                               *)

DefaultPeriod == 100000

AllWrites == [file : Files, value : Seq(Int) \cup Seq(STRING)]

(* A weight the kernel takes; an entry of unified that it would refuse     *)
(* writes nothing.                                                         *)
LegalWrites == {w \in AllWrites : w.file \in Weights => w.value[1] \in WeightRange}

(* The requests that can be written down.                                  *)
Requests ==
  [limit : SUBSET Int, reservation : SUBSET Int, swap : SUBSET Int, quota : SUBSET Int,
   period : SUBSET Nat, shares : SUBSET Nat, cpus : SUBSET STRING, mems : SUBSET STRING,
   pids : SUBSET Int, weight : SUBSET Nat, throttle : Seq({w \in AllWrites : w.file \notin Named}),
   unified : Seq(LegalWrites)]

AtMostOne(field) == \A v, w \in field : v = w

The(field) == CHOOSE v \in field : TRUE

-----------------------------------------------------------------------------
(* The conversions.                                                        *)

Limit(bytes) == IF bytes <= 0 THEN Unlimited ELSE bytes

(* Slip: the v1 total of memory and swap is passed through.                *)
SwapTotal(swap, limit) == IF swap <= 0 THEN Unlimited ELSE swap

(* limit: the memory limit of the same request, or none.                   *)
Swap(swap, limit) ==
  IF swap <= 0 THEN Unlimited
  ELSE IF \E l \in limit : l > 0
       THEN LET l == The(limit) IN IF swap > l THEN swap - l ELSE 0
       ELSE swap

CpuMax(quota, period) == <<IF quota <= 0 THEN Unlimited ELSE quota, period>>

Clamp(v, low, high) == IF v < low THEN low ELSE IF v > high THEN high ELSE v

SharesToWeight(shares) ==
  IF shares = 0 THEN 100 ELSE 1 + ((Clamp(shares, 2, 262144) - 2) * 9999) \div 262142

BlkioToIoWeight(weight) == 1 + ((Clamp(weight, 10, 1000) - 10) * 9999) \div 990

-----------------------------------------------------------------------------
(* The writes of apply, in their order.                                    *)

Given(field, file, value) == IF field = {} THEN <<>> ELSE <<[file |-> file, value |-> value]>>

NotZero(field) == field \ {0}

Writes(r) ==
  Given(r.limit, "memory.max", <<Limit(The(r.limit))>>)
  \o Given(r.reservation, "memory.low", <<Limit(The(r.reservation))>>)
  \o Given(r.swap, "memory.swap.max", <<Swap(The(r.swap), r.limit)>>)
  \o Given(r.quota, "cpu.max",
           CpuMax(The(r.quota), IF r.period = {} THEN DefaultPeriod ELSE The(r.period)))
  \o Given(NotZero(r.shares), "cpu.weight", <<SharesToWeight(The(r.shares))>>)
  \o Given(r.cpus, "cpuset.cpus", <<The(r.cpus)>>)
  \o Given(r.mems, "cpuset.mems", <<The(r.mems)>>)
  \o Given(r.pids, "pids.max", <<Limit(The(r.pids))>>)
  \o Given(NotZero(r.weight), "io.weight", <<BlkioToIoWeight(The(r.weight))>>)
  \o r.throttle \o r.unified

(* from_flags: the flags become the same record (a period alone writes     *)
(* nothing), and an update without any flag is refused.                    *)
FromFlags(flags) ==
  IF flags = NoRequest THEN {}
  ELSE {[flags EXCEPT !.reservation = {}, !.weight = {}, !.throttle = <<>>, !.unified = <<>>]}
=============================================================================
