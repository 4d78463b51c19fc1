-------------------------- MODULE CgroupTreeProofs --------------------------
(***************************************************************************)
(* Proofs about CgroupTree and Resources for any number of containers, any *)
(* paths and any requests.                                                 *)
(*                                                                         *)
(* 1. The conversions of Resources: legal weights, the exact total.        *)
(* 2. IInv is the type invariant with what it needs of depth and updates.  *)
(* 3. That nothing is left at the end is not inductive: Owned says who     *)
(*    will remove each directory, and that the leaf of a container is      *)
(*    there from its making to its removal and at no other time.           *)
(* 4. An undisturbed create fails nowhere, because what it has made so far *)
(*    is there and handed on down to where it stands (QuietInv).           *)
(* 5. The limits hold: while a create or an update writes, the files and   *)
(*    what is left to write make up the request (UpTo), and nobody makes   *)
(*    the cgroup anew beneath it.                                          *)
(***************************************************************************)
EXTENDS CgroupTree, SequenceTheorems, TLAPS

-----------------------------------------------------------------------------
(* The conversions, for every number, also those that are too large to be  *)
(* evaluated with 32 bits.                                                 *)

(* Scaling a number of 0 .. top up by k and down by top: the order is kept *)
(* and the result is in 0 .. k.                                            *)
LEMMA Scaling ==
  ASSUME NEW top \in Nat \ {0}, NEW k \in Nat, NEW x \in Nat, NEW y \in Nat, x <= y, y <= top
  PROVE  /\ (x * k) \div top \in Nat /\ (y * k) \div top \in Nat
         /\ (x * k) \div top <= (y * k) \div top
         /\ (y * k) \div top <= k
<1>1. x * k \in Nat /\ y * k \in Nat /\ x * k <= y * k /\ y * k <= top * k /\ top * k \in Nat
  BY SMT
<1>2. ASSUME NEW m \in Nat, NEW n \in Nat, m <= n
      PROVE  m \div top <= n \div top /\ m \div top \in Nat
  BY <1>2, SMT
<1>3. (top * k) \div top = k
  BY SMT
<1>4. (x * k) \div top <= (y * k) \div top /\ (x * k) \div top \in Nat
  BY <1>1, <1>2
<1>5. (y * k) \div top <= (top * k) \div top /\ (y * k) \div top \in Nat
  BY <1>1, <1>2
<1> QED
  BY <1>3, <1>4, <1>5

(* The range low .. high of Clamp, carried over to 1 .. k + 1.             *)
LEMMA Weight ==
  ASSUME NEW low \in Nat, NEW high \in Nat, low < high, NEW top, top = high - low,
         NEW k \in Nat, NEW v \in Nat, NEW w \in Nat, v <= w
  PROVE  /\ 1 + ((Clamp(v, low, high) - low) * k) \div top \in 1 .. k + 1
         /\ 1 + ((Clamp(v, low, high) - low) * k) \div top
              <= 1 + ((Clamp(w, low, high) - low) * k) \div top
<1> DEFINE x == Clamp(v, low, high) - low
           y == Clamp(w, low, high) - low
           p == (x * k) \div top
           q == (y * k) \div top
<1>1. top \in Nat \ {0} /\ x \in Nat /\ y \in Nat /\ x <= y /\ y <= top
  BY SMT DEF Clamp
<1>2. p \in Nat /\ q \in Nat /\ p <= q /\ q <= k
  <2> HIDE DEF x, y
  <2> QED
    BY <1>1, Scaling
<1>3. 1 + p \in 1 .. k + 1 /\ 1 + p <= 1 + q
  <2> HIDE DEF p, q
  <2> QED
    BY <1>2, SMT
<1> QED
  BY <1>3, Zenon

(* v2.rs: shares_to_weight.  Whatever the shares, the weight is one the    *)
(* kernel accepts, and more shares never mean less weight.                 *)
THEOREM SharesLegal ==
  ASSUME NEW shares \in Nat \ {0}, NEW more \in Nat, shares <= more
  PROVE  SharesToWeight(shares) \in WeightRange /\ SharesToWeight(shares) <= SharesToWeight(more)
<1> DEFINE low == 2
           high == 262144
           k == 9999
           top == 262142
<1>1. low \in Nat /\ high \in Nat /\ low < high /\ k \in Nat
  BY SMT
<1>2. k + 1 = 10000 /\ top = high - low /\ shares # 0 /\ more # 0 /\ shares \in Nat
  BY SMT
<1> HIDE DEF low, high, k, top
<1>3. /\ 1 + ((Clamp(shares, low, high) - low) * k) \div top \in 1 .. k + 1
      /\ 1 + ((Clamp(shares, low, high) - low) * k) \div top
           <= 1 + ((Clamp(more, low, high) - low) * k) \div top
  BY <1>1, <1>2, Weight
<1>4. /\ SharesToWeight(shares) = 1 + ((Clamp(shares, low, high) - low) * k) \div top
      /\ SharesToWeight(more) = 1 + ((Clamp(more, low, high) - low) * k) \div top
  BY <1>2, SMT DEF SharesToWeight, low, high, k, top
<1> DEFINE a == 1 + ((Clamp(shares, low, high) - low) * k) \div top
           b == 1 + ((Clamp(more, low, high) - low) * k) \div top
<1>5. SharesToWeight(shares) = a /\ SharesToWeight(more) = b /\ a \in 1 .. k + 1 /\ a <= b
  BY <1>3, <1>4, Zenon
<1> HIDE DEF a, b
<1>6. SharesToWeight(shares) \in 1 .. k + 1 /\ SharesToWeight(shares) <= SharesToWeight(more)
  BY <1>5, Zenon
<1> HIDE DEF SharesToWeight
<1>7. \A e \in 1 .. k + 1 : e \in WeightRange
  BY <1>1, <1>2, SMT DEF WeightRange
<1> QED
  BY <1>6, <1>7, Zenon

(* v2.rs: blkio_to_io_weight.  The same of the I/O weight.                 *)
THEOREM BlkioLegal ==
  ASSUME NEW weight \in Nat, NEW more \in Nat, weight <= more
  PROVE  BlkioToIoWeight(weight) \in WeightRange /\ BlkioToIoWeight(weight) <= BlkioToIoWeight(more)
<1> DEFINE low == 10
           high == 1000
           k == 9999
           top == 990
<1>1. low \in Nat /\ high \in Nat /\ low < high /\ k \in Nat
  BY SMT
<1>2. k + 1 = 10000 /\ top = high - low
  BY SMT
<1> HIDE DEF low, high, k, top
<1>3. /\ 1 + ((Clamp(weight, low, high) - low) * k) \div top \in 1 .. k + 1
      /\ 1 + ((Clamp(weight, low, high) - low) * k) \div top
           <= 1 + ((Clamp(more, low, high) - low) * k) \div top
  BY <1>1, <1>2, Weight
<1>4. /\ BlkioToIoWeight(weight) = 1 + ((Clamp(weight, low, high) - low) * k) \div top
      /\ BlkioToIoWeight(more) = 1 + ((Clamp(more, low, high) - low) * k) \div top
  BY SMT DEF BlkioToIoWeight, low, high, k, top
<1> DEFINE a == 1 + ((Clamp(weight, low, high) - low) * k) \div top
           b == 1 + ((Clamp(more, low, high) - low) * k) \div top
<1>5. BlkioToIoWeight(weight) = a /\ BlkioToIoWeight(more) = b /\ a \in 1 .. k + 1 /\ a <= b
  BY <1>3, <1>4, Zenon
<1> HIDE DEF a, b
<1>6. BlkioToIoWeight(weight) \in 1 .. k + 1 /\ BlkioToIoWeight(weight) <= BlkioToIoWeight(more)
  BY <1>5, Zenon
<1> HIDE DEF BlkioToIoWeight
<1>7. \A e \in 1 .. k + 1 : e \in WeightRange
  BY <1>1, <1>2, SMT DEF WeightRange
<1> QED
  BY <1>6, <1>7, Zenon

(* v2.rs: swap_value.  Memory and swap together are the v1 total that was  *)
(* asked for, or the memory limit where that is more; without a limit the  *)
(* swap is the total, and unlimited stays unlimited.                       *)
THEOREM TotalExact ==
  ASSUME NEW swap \in Int, NEW limit \in Int
  PROVE  /\ swap > 0 /\ limit > 0 =>
              limit + Swap(swap, {limit}) = IF swap > limit THEN swap ELSE limit
         /\ swap <= 0 => Swap(swap, {limit}) = Unlimited
         /\ swap > 0 /\ limit <= 0 => Swap(swap, {limit}) = swap
  <1>1. The({limit}) = limit
  BY DEF The
<1> QED
  BY <1>1, SMT DEF Swap, Unlimited

-----------------------------------------------------------------------------
(* Paths.                                                                  *)

(* A prefix has the length and the names it should have.                   *)
LEMMA PrefixIs ==
  ASSUME NEW p \in Seq(STRING), NEW n \in 0 .. Len(p)
  PROVE  /\ Prefix(p, n) \in Seq(STRING) /\ Len(Prefix(p, n)) = n
         /\ \A i \in 1 .. n : Prefix(p, n)[i] = p[i]
BY SubSeqProperties DEF Prefix

(* All of a path is a prefix of it.                                        *)
LEMMA Whole == ASSUME NEW p \in Seq(STRING) PROVE Prefix(p, Len(p)) = p
<1>1. Len(p) \in 0 .. Len(p)
  BY LenProperties
<1> QED
  BY <1>1, PrefixIs, SeqEqual

(* The directory above a prefix is the prefix that is one name shorter.    *)
LEMMA Up ==
  ASSUME NEW p \in Seq(STRING), NEW n \in 1 .. Len(p)
  PROVE  Parent(Prefix(p, n)) = Prefix(p, n - 1)
<1>1. n \in 0 .. Len(p) /\ n - 1 \in 0 .. Len(p) /\ n - 1 \in 0 .. n
  BY LenProperties
<1>2. /\ Prefix(p, n) \in Seq(STRING) /\ Len(Prefix(p, n)) = n
      /\ \A i \in 1 .. n : Prefix(p, n)[i] = p[i]
  BY <1>1, PrefixIs
<1>3. Parent(Prefix(p, n)) = Prefix(Prefix(p, n), n - 1)
  BY <1>2 DEF Parent, Prefix
<1>4. /\ Prefix(Prefix(p, n), n - 1) \in Seq(STRING) /\ Len(Prefix(Prefix(p, n), n - 1)) = n - 1
      /\ \A i \in 1 .. n - 1 : Prefix(Prefix(p, n), n - 1)[i] = Prefix(p, n)[i]
  BY <1>1, <1>2, PrefixIs
<1>5. /\ Prefix(p, n - 1) \in Seq(STRING) /\ Len(Prefix(p, n - 1)) = n - 1
      /\ \A i \in 1 .. n - 1 : Prefix(p, n - 1)[i] = p[i]
  BY <1>1, PrefixIs
<1>6. \A i \in 1 .. n - 1 : Prefix(Prefix(p, n), n - 1)[i] = Prefix(p, n - 1)[i]
  BY <1>1, <1>2, <1>4, <1>5
<1> QED
  BY <1>3, <1>4, <1>5, <1>6, SeqEqual

(* The prefixes of a path, and the directories above them.                 *)
LEMMA Above ==
  ASSUME NEW p \in Seq(STRING), NEW d \in Prefixes(p)
  PROVE  /\ d \in Seq(STRING) /\ Len(d) \in 0 .. Len(p) /\ (Len(d) = 0 <=> d = <<>>)
         /\ d = Prefix(p, Len(d))
         /\ d # <<>> => Parent(d) \in Prefixes(p) /\ Parent(d) # d
<1>1. PICK n \in 0 .. Len(p) : d = Prefix(p, n)
  BY DEF Prefixes
<1>2. d \in Seq(STRING) /\ Len(d) = n
  BY <1>1, PrefixIs
<1>3. Len(d) = 0 <=> d = <<>>
  BY <1>2, EmptySeq
<1>4. ASSUME d # <<>> PROVE Parent(d) \in Prefixes(p) /\ Parent(d) # d
  <2>1. n \in 1 .. Len(p) /\ n - 1 \in 0 .. Len(p)
    BY <1>1, <1>2, <1>3, <1>4, LenProperties
  <2>2. Parent(d) = Prefix(p, n - 1)
    BY <1>1, <2>1, Up
  <2>3. Len(Prefix(p, n - 1)) = n - 1
    BY <2>1, PrefixIs
  <2> QED
    BY <1>2, <2>1, <2>2, <2>3 DEF Prefixes
<1> QED
  BY <1>1, <1>2, <1>3, <1>4

(* A path of one or two names is a directory or a directory in another.    *)
LEMMA Short ==
  ASSUME NEW p \in Seq(STRING), Len(p) <= 2, NEW d \in Prefixes(p), d # <<>>
  PROVE  d = p \/ d = Parent(p)
<1>1. Len(d) \in 0 .. Len(p) /\ d = Prefix(p, Len(d)) /\ Len(d) # 0 /\ Len(p) \in Nat
  BY Above, LenProperties
<1>2. CASE Len(d) = Len(p)
  BY <1>1, <1>2, Whole
<1>3. CASE Len(d) # Len(p)
  BY <1>1, <1>3 DEF Parent, Prefix
<1> QED
  BY <1>2, <1>3

-----------------------------------------------------------------------------
(* The invariant of the types.                                             *)

Places == {"idle", "delegate", "look", "mkdir", "apply", "attach", "runs", "rmdir", "rmparent",
           "gone", "left", "failed"}

Types ==
  /\ config \in Configs /\ pc \in [Containers -> Places] /\ depth \in [Containers -> Nat]
  /\ DOMAIN upd = Containers /\ DOMAIN inForce = Containers

Tree ==
  /\ <<>> \in dirs /\ \A d \in dirs \ {<<>>} : Parent(d) \in dirs
  /\ delegated \subseteq dirs /\ inhabited \subseteq Containers
  /\ \A c \in inhabited : Path(c) \in dirs \ delegated

Making == {"delegate", "look", "mkdir"}

(* A create is above its leaf until it has made it.                        *)
Depths ==
  \A c \in Containers :
    /\ depth[c] <= Len(Path(c))
    /\ pc[c] \in Making => depth[c] < Len(Path(c))
    /\ pc[c] = "idle" => depth[c] = 0

(* Only what runs, or did, is updated, and nothing is in force meanwhile.  *)
Updates ==
  \A c \in Containers : upd[c] # {} =>
    inForce[c] = {} /\ pc[c] \notin {"idle", "apply", "attach"} \cup Making

IInv == Types /\ Tree /\ Depths /\ Updates

(* The cgroups of the containers.                                          *)
LEMMA Paths ==
  ASSUME config \in Configs
  PROVE  /\ \A c \in Containers : Path(c) \in Seq(STRING) /\ Path(c) # <<>> /\ Len(Path(c)) \in Nat \ {0}
         /\ \A c, d \in Containers : Path(c) = Path(d) => c = d
         /\ config.settled \subseteq Containers
         /\ \A c, d \in config.settled : Path(c) \in Prefixes(Path(d)) => c = d
<1>1. \A c \in Containers : Path(c) \in Seq(STRING) /\ Path(c) # <<>>
  BY PathsAssumption DEF Path
<1>2. \A c \in Containers : Len(Path(c)) \in Nat \ {0}
  BY <1>1, EmptySeq, LenProperties
<1>3. /\ \A c, d \in Containers : Path(c) = Path(d) => c = d
      /\ config.settled \subseteq Containers
      /\ \A c, d \in config.settled : Path(c) \in Prefixes(Path(d)) => c = d
  BY PathsAssumption DEF Path
<1> QED
  BY <1>1, <1>2, <1>3

(* The initial states satisfy the invariant.                               *)
LEMMA InitIInv == Init => IInv
<1> SUFFICES ASSUME Init PROVE IInv
  OBVIOUS
<1>1. config \in Configs
  BY DEF Init
<1>2. Types /\ Depths /\ Updates
  BY <1>1, Paths DEF Init, Types, Depths, Updates, Places, Making
<1>3. \A d \in dirs : d = <<>> \/ \E c \in inhabited : d \in Prefixes(Path(c))
  BY DEF Init
<1>4. inhabited \subseteq Containers /\ <<>> \in dirs
  BY <1>1, Paths DEF Init
<1>5. ASSUME NEW c \in inhabited PROVE Prefixes(Path(c)) \subseteq dirs /\ Path(c) \in Prefixes(Path(c))
  <2>1. Path(c) \in Seq(STRING)
    BY <1>1, <1>4, Paths
  <2>2. Path(c) = Prefix(Path(c), Len(Path(c))) /\ Len(Path(c)) \in 0 .. Len(Path(c))
    BY <2>1, Whole, LenProperties
  <2>3. Path(c) \in Prefixes(Path(c))
    BY <2>2 DEF Prefixes
  <2> QED
    BY <2>3 DEF Init
<1>6. ASSUME NEW d \in dirs \ {<<>>} PROVE Parent(d) \in dirs
  <2>1. PICK c \in inhabited : d \in Prefixes(Path(c))
    BY <1>3
  <2>2. Path(c) \in Seq(STRING)
    BY <1>1, <1>4, Paths
  <2>3. Parent(d) \in Prefixes(Path(c))
    BY <2>1, <2>2, <1>6, Above
  <2> QED
    BY <1>5, <2>3
<1>7. delegated \subseteq dirs
  BY <1>6 DEF Init
<1>8. ASSUME NEW c \in inhabited, Path(c) \in delegated PROVE FALSE
  <2>1. PICK d \in dirs \ {<<>>} : Path(c) = Parent(d)
    BY <1>8 DEF Init
  <2>2. PICK e \in inhabited : d \in Prefixes(Path(e))
    BY <1>3, <2>1
  <2>3. Path(e) \in Seq(STRING) /\ config.settled = inhabited
    BY <1>1, <1>4, Paths DEF Init
  <2>4. Parent(d) \in Prefixes(Path(e)) /\ Parent(d) # d
    BY <2>1, <2>2, <2>3, Above
  <2>5. c = e
    BY <1>1, <2>1, <2>3, <2>4, Paths
  <2>6. Len(d) \in 0 .. Len(Path(e)) /\ d = Prefix(Path(e), Len(d))
    BY <2>2, <2>3, Above
  <2>7. Len(Parent(d)) = Len(d) - 1
    BY <2>1, <2>2, <2>3, <2>6, Above, Up, PrefixIs, LenProperties
  <2> QED
    BY <2>1, <2>3, <2>5, <2>6, <2>7, LenProperties
<1> QED
  BY <1>2, <1>4, <1>5, <1>6, <1>7, <1>8 DEF IInv, Tree

-----------------------------------------------------------------------------
(* What a step that leaves the directories alone has to keep.              *)
LEMMA TreeKept ==
  ASSUME Tree, UNCHANGED <<config, dirs, delegated>>, inhabited' \subseteq inhabited
  PROVE  Tree'
BY DEF Tree, Path

(* Cgroup::create, one step after the other.                               *)
LEMMA BeginIInv == ASSUME IInv, NEW c \in Containers, Begin(c) PROVE IInv'
<1> USE DEF IInv, Begin, Goto
<1>1. Types' /\ Updates'
  BY DEF Types, Places, Updates, Making
<1>2. Depths'
  BY Paths DEF Types, Places, Depths, Making, Path
<1>3. Tree'
  BY TreeKept DEF tree
<1> QED
  BY <1>1, <1>2, <1>3

LEMMA DelegateIInv == ASSUME IInv, NEW c \in Containers, Delegate(c) PROVE IInv'
<1> USE DEF IInv, Delegate, Goto
<1> DEFINE d == Prefix(Path(c), depth[c])
<1>1. Types' /\ Updates'
  BY DEF Types, Places, Updates, Making
<1>2. Depths'
  BY DEF Types, Places, Depths, Making, Path
<1>3. Tree'
  <2>1. delegated' = delegated \/ (delegated' = delegated \cup {d} /\ d \in dirs /\ (d # <<>> => ~Populated(d)))
    OBVIOUS
  <2>2. \A e \in inhabited : Path(e) # <<>>
    BY Paths DEF Types, Tree
  <2> QED
    BY <2>1, <2>2 DEF Tree, Path, Populated
<1> QED
  BY <1>1, <1>2, <1>3

(* One name further down, or the leaf is reached.                          *)
LEMMA DeeperIInv ==
  ASSUME IInv, NEW c \in Containers, pc[c] \in Making, Deeper(c), UNCHANGED <<config, upd, inForce>>
  PROVE  Types' /\ Depths' /\ Updates'
<1>3. depth \in [Containers -> Nat] /\ depth[c] < Len(Path(c))
  BY DEF IInv, Types, Depths
<1> USE DEF IInv, Deeper, Goto
<1>1. Types' /\ Updates'
  BY DEF Types, Places, Updates, Making
<1>2. Depths'
  <2>1. Len(Path(c)) \in Nat /\ Path(c)' = Path(c)
    BY Paths DEF Types, Path
  <2>2. depth[c] \in Nat /\ depth[c] < Len(Path(c))
    BY <1>3
  <2>6. depth' = [depth EXCEPT ![c] = @ + 1] /\ DOMAIN depth = Containers
    BY <1>3
  <2>3. pc'[c] \in Making => depth[c] + 1 # Len(Path(c))
    BY DEF Types, Making
  <2>4. pc'[c] # "idle"
    BY DEF Types
  <2>5. \A e \in Containers \ {c} : depth'[e] = depth[e] /\ pc'[e] = pc[e] /\ Path(e)' = Path(e)
    BY DEF Types, Path
  <2> QED
    BY <2>1, <2>2, <2>3, <2>4, <2>5, <2>6 DEF Depths
<1> QED
  BY <1>1, <1>2

LEMMA LookIInv == ASSUME IInv, NEW c \in Containers, Look(c) PROVE IInv'
<1> USE DEF IInv, Look, Goto
<1>1. Tree'
  BY TreeKept DEF tree
<1>2. pc[c] \in Making
  BY DEF Making
<1>3. CASE Prefix(Path(c), depth[c] + 1) \in dirs
  BY <1>1, <1>2, <1>3, DeeperIInv
<1>4. CASE Prefix(Path(c), depth[c] + 1) \notin dirs
  <2>1. Types' /\ Updates'
    BY <1>4 DEF Types, Places, Updates, Making
  <2>2. Depths'
    BY <1>4 DEF Types, Places, Depths, Making, Path
  <2> QED
    BY <1>1, <2>1, <2>2
<1> QED
  BY <1>3, <1>4

LEMMA MkdirIInv == ASSUME IInv, NEW c \in Containers, Mkdir(c) PROVE IInv'
<1> USE DEF IInv, Mkdir, Goto
<1> DEFINE d == Prefix(Path(c), depth[c] + 1)
<1>1. pc[c] \in Making
  BY DEF Making
<1>2. CASE d \notin dirs /\ Parent(d) \in dirs
  <2>1. dirs' = dirs \cup {d} /\ Deeper(c)
    BY <1>2
  <2>2. Tree'
    BY <1>2, <2>1 DEF Tree, Path
  <2> QED
    BY <1>1, <2>1, <2>2, DeeperIInv
<1>3. CASE ~(d \notin dirs /\ Parent(d) \in dirs)
  <2>1. Tree'
    BY <1>3, TreeKept
  <2>2. Types' /\ Updates'
    BY <1>3 DEF Types, Places, Updates, Making
  <2>3. Depths'
    BY <1>3 DEF Types, Places, Depths, Making, Path
  <2> QED
    BY <2>1, <2>2, <2>3
<1> QED
  BY <1>2, <1>3

LEMMA ApplyIInv == ASSUME IInv, NEW c \in Containers, Apply(c) PROVE IInv'
<1> USE DEF IInv, Apply, Goto
<1>1. Types'
  BY DEF Types, Places
<1>2. Updates' /\ Depths'
  BY DEF Types, Updates, Depths, Making, Path
<1>3. Tree'
  BY TreeKept DEF tree
<1> QED
  BY <1>1, <1>2, <1>3

LEMMA AttachIInv == ASSUME IInv, NEW c \in Containers, Attach(c) PROVE IInv'
<1> USE DEF IInv, Attach, Goto
<1>1. Types'
  BY DEF Types, Places
<1>2. Updates' /\ Depths'
  BY DEF Types, Updates, Depths, Making, Path
<1>3. Tree'
  BY DEF Tree, Path
<1> QED
  BY <1>1, <1>2, <1>3

-----------------------------------------------------------------------------
(* mars update.                                                            *)
LEMMA UpdateBeginIInv == ASSUME IInv, NEW c \in Containers, NEW r, UpdateBegin(c, r) PROVE IInv'
<1>1. /\ pc[c] = "runs" /\ UNCHANGED <<config, tree, files, pc, depth, todo>>
      /\ \E value : upd' = [upd EXCEPT ![c] = value]
      /\ inForce' = [inForce EXCEPT ![c] = {}]
  BY DEF UpdateBegin
<1> USE DEF IInv
<1>2. Types' /\ Updates'
  BY <1>1 DEF Types, Updates, Making
<1>3. Depths'
  BY <1>1 DEF Depths, Path
<1>4. Tree'
  BY <1>1, TreeKept DEF tree
<1> QED
  BY <1>2, <1>3, <1>4

LEMMA UpdateWriteIInv == ASSUME IInv, NEW c \in Containers, UpdateWrite(c) PROVE IInv'
<1>1. /\ upd[c] # {} /\ UNCHANGED <<config, tree, pc, depth, todo>>
      /\ \/ \E value : upd' = [upd EXCEPT ![c] = {}] /\ inForce' = [inForce EXCEPT ![c] = value]
         \/ \E value : upd' = [upd EXCEPT ![c] = value] /\ inForce' = inForce
  BY DEF UpdateWrite
<1> USE DEF IInv
<1>2. Types' /\ Updates'
  BY <1>1 DEF Types, Updates
<1>3. Depths'
  BY <1>1 DEF Depths, Path
<1>4. Tree'
  BY <1>1, TreeKept DEF tree
<1> QED
  BY <1>2, <1>3, <1>4

(* The end of a container, and its delete.                                 *)
LEMMA DieIInv == ASSUME IInv, NEW c \in Containers, Die(c) PROVE IInv'
<1> USE DEF IInv, Die
<1>1. Types' /\ Updates' /\ Depths'
  BY DEF Types, Updates, Depths, Path
<1>2. Tree'
  BY TreeKept
<1> QED
  BY <1>1, <1>2

LEMMA DeleteIInv == ASSUME IInv, NEW c \in Containers, Delete(c) PROVE IInv'
<1> USE DEF IInv, Delete, Goto
<1>1. Types'
  BY DEF Types, Places
<1>2. Updates' /\ Depths'
  BY DEF Types, Updates, Depths, Making, Path
<1>3. Tree'
  BY TreeKept DEF tree
<1> QED
  BY <1>1, <1>2, <1>3

(* rmdir of d.                                                             *)
LEMMA Removed ==
  ASSUME Tree, NEW d, Removable(d), dirs' = dirs \ {d}, delegated' = delegated \ {d},
         UNCHANGED <<config, inhabited>>
  PROVE  Tree'
BY DEF Tree, Removable, Populated, Childless, Path

LEMMA RmdirIInv == ASSUME IInv, NEW c \in Containers, Rmdir(c) PROVE IInv'
<1> USE DEF IInv, Rmdir, Goto
<1>1. Types'
  BY DEF Types, Places
<1>2. Updates' /\ Depths'
  BY DEF Types, Updates, Depths, Making, Path
<1>3. Tree'
  BY Removed, TreeKept
<1> QED
  BY <1>1, <1>2, <1>3

LEMMA RmParentIInv == ASSUME IInv, NEW c \in Containers, RmParent(c) PROVE IInv'
<1> USE DEF IInv, RmParent, Goto
<1>1. Types'
  BY DEF Types, Places
<1>2. Updates' /\ Depths'
  BY DEF Types, Updates, Depths, Making, Path
<1>3. Tree'
  BY Removed, TreeKept
<1> QED
  BY <1>1, <1>2, <1>3

(* Every step keeps the invariant.                                         *)
LEMMA NextIInv == IInv /\ [Next]_vars => IInv'
<1> SUFFICES ASSUME IInv, [Next]_vars PROVE IInv'
  OBVIOUS
<1>1. ASSUME NEW c \in Containers, Step(c) PROVE IInv'
  BY <1>1, BeginIInv, DelegateIInv, LookIInv, MkdirIInv, ApplyIInv, AttachIInv, UpdateBeginIInv,
     UpdateWriteIInv, DieIInv, DeleteIInv, RmdirIInv, RmParentIInv DEF Step
<1>2. CASE UNCHANGED vars
  BY <1>2 DEF vars, tree, IInv, Types, Tree, Depths, Updates, Path
<1> QED
  BY <1>1, <1>2 DEF Next

(* So it always holds.                                                     *)
LEMMA Invariant == Spec => []IInv
BY InitIInv, NextIInv, PTL DEF Spec

(* v2.rs: create, add_process, destroy.  Every cgroup has its parent, and  *)
(* processes are only in cgroups that exist and have no controllers        *)
(* enabled for children.                                                   *)
THEOREM TypeCorrect == Spec => []TypeOK
<1>1. ASSUME IInv PROVE TypeOK
  <2> USE <1>1 DEF IInv
  <2>1. \A c \in Containers : depth[c] \in 0 .. Len(Path(c))
    BY Paths DEF Types, Depths
  <2>2. \A c \in Containers : pc[c] \in {"delegate", "look", "mkdir"} => depth[c] < Len(Path(c))
    BY DEF Depths, Making
  <2> QED
    BY <2>1, <2>2 DEF Tree, Updates, TypeOK
<1> QED
  BY <1>1, Invariant, PTL

-----------------------------------------------------------------------------
(* Every container for itself, at most one directory down.                 *)
Apart == \A c \in Containers : Unnested(c) /\ Len(Path(c)) <= 2

Busy(c) == pc[c] \notin {"idle", "gone"}

(* Where a container's leaf is there, and where it is not.                 *)
Holds == {"apply", "attach", "runs", "rmdir", "left"}
Lacks == {"idle", "rmparent", "gone"} \cup Making

(* Every directory is on the path of a container that is not done.         *)
Owned ==
  /\ \A d \in dirs \ {<<>>} : \E c \in Containers : Busy(c) /\ d \in Prefixes(Path(c))
  /\ \A c \in Containers :
       /\ pc[c] \in Holds => Path(c) \in dirs
       /\ pc[c] \in Lacks => Path(c) \notin dirs

TidyInv == Apart => Owned

(* Who is related to whom does not change.                                 *)
LEMMA ApartStays == config' = config => (Apart' <=> Apart)
BY DEF Apart, Unnested, Path

(* A step that leaves the directories alone.                               *)
LEMMA OwnedKept ==
  ASSUME IInv, Owned, NEW c \in Containers, NEW to, pc' = [pc EXCEPT ![c] = to], UNCHANGED <<config, dirs>>,
         Busy(c) => to \notin {"idle", "gone"},
         to \in Holds => pc[c] \in Holds, to \in Lacks => pc[c] \in Lacks
  PROVE  Owned'
<1> USE DEF IInv, Types
<1>1. \A e \in Containers : Path(e)' = Path(e)
  BY DEF Path
<1>2. \A e \in Containers : Busy(e) => Busy(e)'
  BY DEF Busy
<1>3. \A e \in Containers :
        /\ pc'[e] \in Holds => pc[e] \in Holds
        /\ pc'[e] \in Lacks => pc[e] \in Lacks
  OBVIOUS
<1> QED
  BY <1>1, <1>2, <1>3 DEF Owned

(* A step that changes neither directories nor places.                     *)
LEMMA OwnedStays ==
  ASSUME Owned, UNCHANGED <<config, dirs, pc>>
  PROVE  Owned'
BY DEF Owned, Busy, Path

(* The containers that run at first own their directories.                 *)
LEMMA InitOwned == ASSUME Init, Apart PROVE Owned
<1>1. config \in Configs /\ inhabited = config.settled
  BY DEF Init
<1>2. inhabited \subseteq Containers /\ \A c \in Containers : Path(c) \in Seq(STRING) /\ Path(c) # <<>>
  BY <1>1, Paths
<1>3. \A d \in dirs \ {<<>>} : \E c \in inhabited : d \in Prefixes(Path(c))
  BY DEF Init
<1>4. \A c \in Containers : pc[c] = IF c \in inhabited THEN "runs" ELSE "idle"
  BY DEF Init
<1>5. \A c \in inhabited : Path(c) \in dirs
  BY InitIInv DEF IInv, Tree
<1>6. ASSUME NEW c \in Containers \ inhabited, Path(c) \in dirs PROVE FALSE
  <2>1. PICK e \in inhabited : Path(c) \in Prefixes(Path(e))
    BY <1>2, <1>3, <1>6
  <2>2. e \in Containers \ {c}
    BY <1>2, <1>6
  <2> QED
    BY <2>1, <2>2 DEF Apart, Unnested
<1> QED
  BY <1>2, <1>3, <1>4, <1>5, <1>6 DEF Owned, Busy, Holds, Lacks, Making

(* The directories of the containers, one by one.                          *)
LEMMA Names ==
  ASSUME config \in Configs, Apart, NEW c \in Containers
  PROVE  /\ Path(c) \in Seq(STRING) /\ Path(c) # <<>> /\ Len(Path(c)) \in Nat \ {0} /\ Len(Path(c)) <= 2
         /\ Prefix(Path(c), Len(Path(c))) = Path(c)
         /\ \A n \in 0 .. Len(Path(c)) :
              Prefix(Path(c), n) \in Prefixes(Path(c)) /\ Len(Prefix(Path(c), n)) = n
         /\ \A e \in Containers \ {c} : Path(e) \notin Prefixes(Path(c)) /\ Path(c) \notin Prefixes(Path(e))
         /\ \A d \in Prefixes(Path(c)) \ {<<>>} :
              /\ d = Path(c) \/ d = Parent(Path(c))
              /\ Parent(d) \in Prefixes(Path(c)) /\ Parent(d) # d
         /\ Path(c) \in Prefixes(Path(c)) /\ Parent(Path(c)) # Path(c)
<1>1. Path(c) \in Seq(STRING) /\ Path(c) # <<>> /\ Len(Path(c)) \in Nat \ {0} /\ Len(Path(c)) <= 2
  BY Paths DEF Apart
<1>2. Prefix(Path(c), Len(Path(c))) = Path(c)
  BY <1>1, Whole
<1>3. \A n \in 0 .. Len(Path(c)) : Prefix(Path(c), n) \in Prefixes(Path(c)) /\ Len(Prefix(Path(c), n)) = n
  BY <1>1, PrefixIs DEF Prefixes
<1>4. \A e \in Containers \ {c} : Path(e) \notin Prefixes(Path(c)) /\ Path(c) \notin Prefixes(Path(e))
  BY DEF Apart, Unnested
<1>5. ASSUME NEW d \in Prefixes(Path(c)) \ {<<>>}
      PROVE  /\ d = Path(c) \/ d = Parent(Path(c))
             /\ Parent(d) \in Prefixes(Path(c)) /\ Parent(d) # d
  BY <1>1, Above, Short
<1>6. Path(c) \in Prefixes(Path(c))
  BY <1>1, <1>2, <1>3
<1> QED
  BY <1>1, <1>2, <1>3, <1>4, <1>5, <1>6

(* A made directory belongs to its maker.                                  *)
LEMMA MkdirOwned ==
  ASSUME IInv, Apart, Owned, NEW c \in Containers, Mkdir(c)
  PROVE  Owned'
<1> DEFINE d == Prefix(Path(c), depth[c] + 1)
<1>1. pc[c] = "mkdir" /\ config' = config
  BY DEF Mkdir
<1>2. CASE ~(d \notin dirs /\ Parent(d) \in dirs)
  <2>1. pc' = [pc EXCEPT ![c] = "failed"] /\ dirs' = dirs
    BY <1>2 DEF Mkdir, Goto
  <2> QED
    BY <1>1, <2>1, OwnedKept DEF Busy, Holds, Lacks, Making
<1>3. CASE d \notin dirs /\ Parent(d) \in dirs
  <2>1. /\ dirs' = dirs \cup {d}
        /\ pc' = [pc EXCEPT ![c] = IF depth[c] + 1 = Len(Path(c)) THEN "apply" ELSE "delegate"]
    BY <1>3 DEF Mkdir, Deeper, Goto
  <2>2. depth[c] + 1 \in 0 .. Len(Path(c)) /\ pc \in [Containers -> Places]
    BY <1>1, Paths DEF IInv, Types, Depths, Making
  <2>3. d \in Prefixes(Path(c)) /\ Len(d) = depth[c] + 1
    BY <2>2, Names DEF IInv, Types
  <2>4. d = Path(c) <=> depth[c] + 1 = Len(Path(c))
    BY <2>3, Names DEF IInv, Types
  <2>5. \A e \in Containers : Path(e)' = Path(e)
    BY <1>1 DEF Path
  <2>6. \A e \in Containers : (Busy(e) => Busy(e)') /\ Busy(c)'
    BY <2>1, <2>2 DEF Busy
  <2>7. \A e \in Containers \ {c} : Path(e) # d /\ pc'[e] = pc[e]
    BY <2>1, <2>2, <2>3, Names DEF IInv, Types
  <2>8. \A f \in dirs' \ {<<>>} : \E e \in Containers : Busy(e)' /\ f \in Prefixes(Path(e))
    BY <2>1, <2>3, <2>6 DEF Owned
  <2>9. Path(c) \notin dirs
    BY <1>1 DEF Owned, Lacks, Making
  <2>10. /\ pc'[c] \in Holds => Path(c) \in dirs'
         /\ pc'[c] \in Lacks => Path(c) \notin dirs'
    BY <2>1, <2>2, <2>4, <2>9 DEF Holds, Lacks, Making
  <2> QED
    BY <2>1, <2>5, <2>7, <2>8, <2>10 DEF Owned
<1> QED
  BY <1>2, <1>3

(* A create that finds a directory has not found its leaf.                 *)
LEMMA LookOwned ==
  ASSUME IInv, Apart, Owned, NEW c \in Containers, Look(c)
  PROVE  Owned'
<1>1. pc[c] = "look" /\ UNCHANGED <<config, dirs>>
  BY DEF Look, tree
<1>2. Path(c) \notin dirs
  BY <1>1 DEF Owned, Lacks, Making
<1>3. Prefix(Path(c), Len(Path(c))) = Path(c)
  BY Names DEF IInv, Types
<1>4. pc' = [pc EXCEPT ![c] = "mkdir"] \/ pc' = [pc EXCEPT ![c] = "delegate"]
  BY <1>2, <1>3 DEF Look, Deeper, Goto
<1> QED
  BY <1>1, <1>4, OwnedKept DEF Busy, Holds, Lacks, Making

(* rmdir of the leaf.                                                      *)
LEMMA RmdirOwned ==
  ASSUME IInv, Apart, Owned, NEW c \in Containers, Rmdir(c)
  PROVE  Owned'
<1>1. pc[c] = "rmdir" /\ config' = config /\ pc \in [Containers -> Places]
  BY DEF Rmdir, IInv, Types
<1>2. CASE ~Removable(Path(c))
  <2>1. Path(c) \in dirs
    BY <1>1 DEF Owned, Holds
  <2>2. dirs' = dirs /\ pc' = [pc EXCEPT ![c] = "left"]
    BY <1>2, <2>1 DEF Rmdir, Goto
  <2> QED
    BY <1>1, <2>2, OwnedKept DEF Busy, Holds, Lacks, Making
<1>3. CASE Removable(Path(c))
  <2>1. /\ dirs' = dirs \ {Path(c)}
        /\ pc' = [pc EXCEPT ![c] = IF Len(Path(c)) = 1 THEN "gone" ELSE "rmparent"]
    BY <1>3 DEF Rmdir, Goto
  <2>2. \A e \in Containers : Path(e)' = Path(e)
    BY <1>1 DEF Path
  <2>3. \A e \in Containers \ {c} : pc'[e] = pc[e] /\ Path(e) # Path(c)
    BY <1>1, <2>1, Paths DEF IInv, Types
  <2>4. pc'[c] \in {"gone", "rmparent"}
    BY <1>1, <2>1
  <2>5. ASSUME NEW f \in dirs' \ {<<>>}
        PROVE  \E e \in Containers : Busy(e)' /\ f \in Prefixes(Path(e))
    <3>1. PICK e \in Containers : Busy(e) /\ f \in Prefixes(Path(e))
      BY <2>1, <2>5 DEF Owned
    <3>2. CASE e # c
      BY <2>3, <3>1, <3>2 DEF Busy
    <3>3. CASE e = c /\ Len(Path(c)) # 1
      BY <1>1, <2>1, <3>1, <3>3 DEF Busy
    <3>4. CASE e = c /\ Len(Path(c)) = 1
      <4>1. f # Path(c) /\ f # <<>> /\ Path(c) \in Seq(STRING)
        BY <2>1, <2>5, Names DEF IInv, Types
      <4>2. Len(f) \in 0 .. 1 /\ Len(f) # 0 /\ f = Prefix(Path(c), Len(f))
        BY <3>1, <3>4, <4>1, Above
      <4>3. Prefix(Path(c), Len(Path(c))) = Path(c)
        BY <4>1, Whole
      <4>4. Len(f) = Len(Path(c))
        BY <3>4, <4>2
      <4> QED
        BY <4>1, <4>2, <4>3, <4>4
    <3> QED
      BY <3>2, <3>3, <3>4
  <2> QED
    BY <2>1, <2>2, <2>3, <2>4, <2>5 DEF Owned, Holds, Lacks
<1> QED
  BY <1>2, <1>3

(* The last of two that share a parent removes it: what is left of the     *)
(* parent is left because of another container.                            *)
LEMMA RmParentOwned ==
  ASSUME IInv, Apart, Owned, NEW c \in Containers, RmParent(c)
  PROVE  Owned'
<1> DEFINE d == Parent(Path(c))
<1>1. /\ pc[c] = "rmparent" /\ config' = config /\ pc \in [Containers -> Places]
      /\ pc' = [pc EXCEPT ![c] = "gone"]
      /\ dirs' = IF Removable(d) THEN dirs \ {d} ELSE dirs
  BY DEF RmParent, IInv, Types, Goto
<1>2. \A e \in Containers : Path(e)' = Path(e)
  BY <1>1 DEF Path
<1>3. \A e \in Containers \ {c} : pc'[e] = pc[e] /\ Path(e) \notin Prefixes(Path(c))
  BY <1>1, Names DEF IInv, Types
<1>4. Path(c) \notin dirs /\ pc'[c] = "gone"
  BY <1>1 DEF Owned, Lacks
<1>5. d \in Prefixes(Path(c)) /\ Path(c) # <<>> /\ Path(c) \in Prefixes(Path(c))
  BY Names DEF IInv, Types
<1>6. ASSUME NEW f \in dirs' \ {<<>>}
      PROVE  \E e \in Containers : Busy(e)' /\ f \in Prefixes(Path(e))
  <2>1. f \in dirs \ {<<>>}
    BY <1>1, <1>6
  <2>2. PICK e \in Containers : Busy(e) /\ f \in Prefixes(Path(e))
    BY <2>1 DEF Owned
  <2>3. CASE e # c
    BY <1>3, <2>2, <2>3 DEF Busy
  <2>4. CASE e = c
    <3>0. f \in Prefixes(Path(c)) \ {<<>>} /\ f # Path(c)
      BY <1>4, <2>1, <2>2, <2>4
    <3>1. f = d
      BY <3>0, Names DEF IInv, Types
    <3>2. ~Removable(d)
      BY <1>1, <1>6, <3>1
    <3>3. ~Populated(d)
      BY <1>3, <1>4, <1>5, <2>1, <3>1, Names DEF Populated, IInv, Types, Tree
    <3>4. PICK g \in dirs : g # <<>> /\ Parent(g) = d
      BY <2>1, <3>1, <3>2, <3>3 DEF Removable, Childless
    <3>5. PICK h \in Containers : Busy(h) /\ g \in Prefixes(Path(h))
      BY <3>4 DEF Owned
    <3>6. d \in Prefixes(Path(h))
      BY <3>4, <3>5, Names DEF IInv, Types
    <3>7. h # c
      <4>1. SUFFICES ASSUME h = c PROVE FALSE
        OBVIOUS
      <4>2. g = Path(c) \/ g = d
        BY <3>4, <3>5, <4>1, Names DEF IInv, Types
      <4>3. Parent(g) # g
        BY <3>4, <3>5, Names DEF IInv, Types
      <4> QED
        BY <1>4, <3>4, <4>2, <4>3
    <3> QED
      BY <1>3, <3>1, <3>5, <3>6, <3>7 DEF Busy
  <2> QED
    BY <2>3, <2>4
<1>7. ASSUME NEW e \in Containers
      PROVE  /\ pc'[e] \in Holds => Path(e) \in dirs'
             /\ pc'[e] \in Lacks => Path(e) \notin dirs'
  <2>1. CASE e = c
    BY <1>1, <1>4, <2>1 DEF Holds
  <2>2. CASE e # c
    BY <1>1, <1>3, <1>5, <2>2 DEF Owned
  <2> QED
    BY <2>1, <2>2
<1> QED
  BY <1>2, <1>6, <1>7 DEF Owned

(* Every step keeps an owner for every directory.                          *)
LEMMA NextOwned == ASSUME IInv, Apart, Owned, [Next]_vars PROVE Owned'
<1> USE DEF Busy, Holds, Lacks, Making
<1>1. ASSUME NEW c \in Containers, Step(c) PROVE Owned'
  <2>1. CASE Begin(c)
    <3>1. pc[c] = "idle" /\ pc' = [pc EXCEPT ![c] = "delegate"] /\ UNCHANGED <<config, dirs>>
      BY <2>1 DEF Begin, Goto, tree
    <3> QED
      BY <3>1, OwnedKept
  <2>2. CASE Delegate(c)
    <3>1. /\ pc[c] = "delegate" /\ UNCHANGED <<config, dirs>>
          /\ pc' = [pc EXCEPT ![c] = "failed"] \/ pc' = [pc EXCEPT ![c] = "look"]
      BY <2>2 DEF Delegate, Goto
    <3> QED
      BY <3>1, OwnedKept
  <2>3. CASE Look(c)
    BY <2>3, LookOwned
  <2>4. CASE Mkdir(c)
    BY <2>4, MkdirOwned
  <2>5. CASE Apply(c)
    <3>1. /\ pc[c] = "apply" /\ UNCHANGED <<config, dirs>>
          /\ \/ pc' = [pc EXCEPT ![c] = "attach"]
             \/ pc' = [pc EXCEPT ![c] = "rmdir"]
             \/ pc' = pc
      BY <2>5 DEF Apply, Goto, tree
    <3> QED
      BY <3>1, OwnedKept, OwnedStays
  <2>6. CASE Attach(c)
    <3>1. /\ pc[c] = "attach" /\ UNCHANGED <<config, dirs>>
          /\ pc' = [pc EXCEPT ![c] = "runs"] \/ pc' = [pc EXCEPT ![c] = "rmdir"]
      BY <2>6 DEF Attach, Goto
    <3> QED
      BY <3>1, OwnedKept
  <2>7. CASE (\E r \in config.updates[c] : UpdateBegin(c, r)) \/ UpdateWrite(c) \/ Die(c)
    <3>1. UNCHANGED <<config, dirs, pc>>
      BY <2>7 DEF UpdateBegin, UpdateWrite, Die, tree
    <3> QED
      BY <3>1, OwnedStays
  <2>8. CASE Delete(c)
    <3>1. pc[c] = "runs" /\ pc' = [pc EXCEPT ![c] = "rmdir"] /\ UNCHANGED <<config, dirs>>
      BY <2>8 DEF Delete, Goto, tree
    <3> QED
      BY <3>1, OwnedKept
  <2>9. CASE Rmdir(c)
    BY <2>9, RmdirOwned
  <2>10. CASE RmParent(c)
    BY <2>10, RmParentOwned
  <2> QED
    BY <1>1, <2>1, <2>2, <2>3, <2>4, <2>5, <2>6, <2>7, <2>8, <2>9, <2>10 DEF Step
<1>2. CASE UNCHANGED vars
  BY <1>2, OwnedStays DEF vars, tree
<1> QED
  BY <1>1, <1>2 DEF Next

(* v2.rs: destroy.  When every container is deleted nothing of the tree is *)
(* left, however the creates and deletes raced.                            *)
THEOREM NothingLeft == Spec => []Tidy
<1>1. Init => TidyInv
  BY InitOwned DEF TidyInv
<1>2. IInv /\ TidyInv /\ [Next]_vars => TidyInv'
  <2> SUFFICES ASSUME IInv, TidyInv, [Next]_vars, Apart' PROVE Owned'
    BY DEF TidyInv
  <2>1. config' = config
    BY DEF Next, Step, Begin, Delegate, Look, Mkdir, Apply, Attach, UpdateBegin, UpdateWrite, Die,
           Delete, Rmdir, RmParent, vars
  <2>2. Apart
    BY <2>1, ApartStays
  <2> QED
    BY <2>2, NextOwned DEF TidyInv
<1>3. IInv /\ TidyInv => Tidy
  BY DEF Tidy, TidyInv, Apart, Owned, Busy, IInv, Tree
<1> QED
  BY <1>1, <1>2, <1>3, Invariant, PTL DEF Spec
-----------------------------------------------------------------------------
(* A create that nobody disturbs.                                          *)

(* The cgroups above the first k names of c hand the controllers on.       *)
Handed(c, k) == \A n \in 0 .. k - 1 : Prefix(Path(c), n) \in delegated

(* How far an undisturbed create has come.                                 *)
Progress(c) ==
  /\ pc[c] # "failed"
  /\ pc[c] = "delegate" => Prefix(Path(c), depth[c]) \in dirs /\ Handed(c, depth[c])
  /\ pc[c] \in {"look", "mkdir"} => Handed(c, depth[c] + 1)
  /\ pc[c] = "mkdir" => Prefix(Path(c), depth[c] + 1) \notin dirs
  /\ pc[c] \in {"apply", "attach"} => Path(c) \in dirs /\ Handed(c, Len(Path(c)))

(* Only cgroups above the leaf of some container are delegated.            *)
Delegations ==
  \A d \in delegated : \E e \in Containers : \E n \in 0 .. Len(Path(e)) - 1 : d = Prefix(Path(e), n)

QuietInv == Delegations /\ \A c \in alone : Unnested(c) => Progress(c)

(* A prefix of a prefix is a prefix.                                       *)
LEMMA PrefixOfPrefix ==
  ASSUME NEW p \in Seq(STRING), NEW k \in 0 .. Len(p), NEW n \in 0 .. k
  PROVE  Prefix(Prefix(p, k), n) = Prefix(p, n)
<1>1. n \in 0 .. Len(p)
  BY LenProperties
<1>2. /\ Prefix(p, k) \in Seq(STRING) /\ Len(Prefix(p, k)) = k
      /\ \A i \in 1 .. k : Prefix(p, k)[i] = p[i]
  BY PrefixIs
<1>3. /\ Prefix(p, n) \in Seq(STRING) /\ Len(Prefix(p, n)) = n
      /\ \A i \in 1 .. n : Prefix(p, n)[i] = p[i]
  BY <1>1, PrefixIs
<1>4. /\ Prefix(Prefix(p, k), n) \in Seq(STRING) /\ Len(Prefix(Prefix(p, k), n)) = n
      /\ \A i \in 1 .. n : Prefix(Prefix(p, k), n)[i] = Prefix(p, k)[i]
  BY <1>2, PrefixIs
<1>5. \A i \in 1 .. n : Prefix(Prefix(p, k), n)[i] = Prefix(p, n)[i]
  BY <1>2, <1>3, <1>4
<1> QED
  BY <1>3, <1>4, <1>5, SeqEqual

(* Has, of a directory on the way to the leaf of c.                        *)
LEMMA HasIsHanded ==
  ASSUME config \in Configs, NEW c \in Containers, NEW k \in 0 .. Len(Path(c))
  PROVE  Has(Prefix(Path(c), k)) <=> Handed(c, k)
<1>1. Path(c) \in Seq(STRING) /\ Len(Path(c)) \in Nat
  BY Paths
<1>2. Len(Prefix(Path(c), k)) = k
  BY <1>1, PrefixIs
<1>3. \A n \in 0 .. k - 1 : Prefix(Prefix(Path(c), k), n) = Prefix(Path(c), n)
  BY <1>1, PrefixOfPrefix
<1> QED
  BY <1>2, <1>3 DEF Has, Handed

(* The leaf of an unnested container is delegated by nobody.               *)
LEMMA LeafKept ==
  ASSUME config \in Configs, Delegations, NEW c \in Containers, Unnested(c)
  PROVE  Path(c) \notin delegated
<1>1. SUFFICES ASSUME NEW e \in Containers, NEW n \in 0 .. Len(Path(e)) - 1, Path(c) = Prefix(Path(e), n)
               PROVE  FALSE
  BY DEF Delegations
<1>2. /\ Path(e) \in Seq(STRING) /\ Len(Path(e)) \in Nat /\ n \in 0 .. Len(Path(e)) /\ n # Len(Path(e))
  BY Paths
<1>3. CASE e = c
  BY <1>1, <1>2, <1>3, PrefixIs
<1>4. CASE e # c
  BY <1>1, <1>2, <1>4 DEF Unnested, Prefixes
<1> QED
  BY <1>3, <1>4

(* Nor does a process live above it.                                       *)
LEMMA NoneAbove ==
  ASSUME IInv, NEW c \in Containers, Unnested(c), NEW n \in 0 .. Len(Path(c)) - 1
  PROVE  ~Populated(Prefix(Path(c), n))
<1>1. SUFFICES ASSUME NEW e \in inhabited, Path(e) = Prefix(Path(c), n) PROVE FALSE
  BY DEF Populated
<1>2. e \in Containers /\ Path(c) \in Seq(STRING) /\ Len(Path(c)) \in Nat
  BY Paths DEF IInv, Types, Tree
<1>3. n \in 0 .. Len(Path(c)) /\ n # Len(Path(c))
  BY <1>2
<1>4. CASE e = c
  BY <1>1, <1>2, <1>3, <1>4, PrefixIs
<1>5. CASE e # c
  BY <1>1, <1>2, <1>3, <1>5 DEF Unnested, Prefixes
<1> QED
  BY <1>4, <1>5

(* The initial delegations.                                                *)
LEMMA InitQuiet == Init => QuietInv
<1> SUFFICES ASSUME Init, NEW d \in dirs \ {<<>>}
             PROVE  \E e \in Containers : \E n \in 0 .. Len(Path(e)) - 1 : Parent(d) = Prefix(Path(e), n)
  BY DEF Init, QuietInv, Delegations
<1>1. config \in Configs /\ inhabited = config.settled
  BY DEF Init
<1>2. PICK c \in inhabited : d \in Prefixes(Path(c))
  BY DEF Init
<1>3. c \in Containers /\ Path(c) \in Seq(STRING) /\ Len(Path(c)) \in Nat
  BY <1>1, <1>2, Paths
<1>4. Len(d) \in 1 .. Len(Path(c)) /\ d = Prefix(Path(c), Len(d))
  BY <1>2, <1>3, Above
<1>5. Parent(d) = Prefix(Path(c), Len(d) - 1)
  BY <1>3, <1>4, Up
<1> QED
  BY <1>3, <1>4, <1>5

(* New delegations are made by delegate alone.                             *)
LEMMA NextDelegations == ASSUME IInv, Delegations, [Next]_vars PROVE Delegations'
<1>1. CASE config' = config /\ delegated' \subseteq delegated
  BY <1>1 DEF Delegations, Path
<1>2. ASSUME NEW c \in Containers, Delegate(c) PROVE Delegations'
  <2>1. config' = config /\ delegated' \subseteq delegated \cup {Prefix(Path(c), depth[c])}
    BY <1>2 DEF Delegate
  <2>2. depth[c] \in 0 .. Len(Path(c)) - 1
    BY <1>2, Paths DEF Delegate, IInv, Types, Depths, Making
  <2> QED
    BY <2>1, <2>2 DEF Delegations, Path
<1>3. ASSUME NEW c \in Containers, Step(c), ~Delegate(c)
      PROVE  config' = config /\ delegated' \subseteq delegated
  BY <1>3 DEF Step, Begin, Look, Mkdir, Apply, Attach, UpdateBegin, UpdateWrite, Die, Delete, Rmdir,
     RmParent, tree
<1>4. CASE UNCHANGED vars
  BY <1>1, <1>4 DEF vars, tree
<1> QED
  BY <1>1, <1>2, <1>3, <1>4 DEF Next

(* A step that leaves the tree and the place of c alone.                   *)
LEMMA ProgressStays ==
  ASSUME NEW c, Progress(c), UNCHANGED <<config, dirs, delegated, pc, depth>>
  PROVE  Progress(c)'
BY DEF Progress, Handed, Path

(* One name further down.                                                  *)
LEMMA DeeperProgress ==
  ASSUME IInv, NEW c \in Containers, pc[c] \in {"look", "mkdir"}, Handed(c, depth[c] + 1), Deeper(c),
         config' = config, dirs \subseteq dirs', delegated' = delegated,
         Prefix(Path(c), depth[c] + 1) \in dirs'
  PROVE  Progress(c)'
<1>1. depth[c] \in Nat /\ Path(c) \in Seq(STRING) /\ Path(c)' = Path(c)
  BY Paths DEF IInv, Types, Path
<1>2. pc' = [pc EXCEPT ![c] = IF depth[c] + 1 = Len(Path(c)) THEN "apply" ELSE "delegate"]
  BY DEF Deeper, Goto
<1>3. depth' = [depth EXCEPT ![c] = @ + 1] /\ DOMAIN depth = Containers /\ DOMAIN pc = Containers
  BY DEF Deeper, IInv, Types
<1>4. Prefix(Path(c), Len(Path(c))) = Path(c)
  BY <1>1, Whole
<1>5. depth'[c] = depth[c] + 1 /\ \A n \in 0 .. depth[c] : Prefix(Path(c), n) \in delegated'
  BY <1>1, <1>3 DEF Handed
<1>6. CASE depth[c] + 1 = Len(Path(c))
  BY <1>1, <1>2, <1>3, <1>4, <1>5, <1>6 DEF Progress, Handed
<1>7. CASE depth[c] + 1 # Len(Path(c))
  BY <1>1, <1>2, <1>3, <1>5, <1>7 DEF Progress, Handed
<1> QED
  BY <1>6, <1>7

(* The steps of an undisturbed create.                                     *)
LEMMA OwnProgress ==
  ASSUME IInv, Delegations, NEW c \in Containers, Unnested(c), Step(c), Progress(c) \/ Begin(c)
  PROVE  Progress(c)'
<1> DEFINE d == Prefix(Path(c), depth[c])
<1>1. /\ pc \in [Containers -> Places] /\ depth \in [Containers -> Nat] /\ config \in Configs
      /\ Path(c) \in Seq(STRING) /\ Len(Path(c)) \in Nat
      /\ <<>> \in dirs /\ delegated \subseteq dirs
  BY Paths DEF IInv, Types, Tree
<1>2. CASE Begin(c)
  <2>1. depth[c] = 0 /\ Prefix(Path(c), 0) = <<>>
    BY <1>1, <1>2, PrefixIs, EmptySeq DEF Begin, IInv, Depths
  <2>2. pc'[c] = "delegate" /\ UNCHANGED <<config, tree, depth>>
    BY <1>1, <1>2 DEF Begin, Goto
  <2> QED
    BY <1>1, <2>1, <2>2 DEF Progress, Handed, Path, tree
<1>3. CASE Delegate(c)
  <2>1. /\ pc[c] = "delegate" /\ depth[c] \in 0 .. Len(Path(c)) - 1 /\ depth[c] \in 0 .. Len(Path(c))
        /\ UNCHANGED <<config, dirs, depth>>
    BY <1>1, <1>3 DEF Delegate, IInv, Depths, Making
  <2>2. d \in dirs /\ Handed(c, depth[c])
    BY <1>3, <2>1 DEF Progress, Begin
  <2>3. Has(d) /\ ~Populated(d)
    BY <1>1, <2>1, <2>2, HasIsHanded, NoneAbove
  <2>4. pc' = [pc EXCEPT ![c] = "look"] /\ delegated' = delegated \cup {d}
    BY <1>3, <2>2, <2>3 DEF Delegate, Goto
  <2>5. Handed(c, depth[c] + 1)'
    BY <1>1, <2>1, <2>2, <2>4 DEF Handed, Path
  <2> QED
    BY <1>1, <2>1, <2>4, <2>5 DEF Progress
<1>4. CASE Look(c)
  <2>1. pc[c] = "look" /\ UNCHANGED <<config, dirs, delegated>> /\ Handed(c, depth[c] + 1)
    BY <1>4 DEF Look, tree, Progress, Begin
  <2>2. CASE Prefix(Path(c), depth[c] + 1) \in dirs
    BY <1>4, <2>1, <2>2, DeeperProgress DEF Look
  <2>3. CASE Prefix(Path(c), depth[c] + 1) \notin dirs
    <3>1. pc'[c] = "mkdir" /\ depth' = depth
      BY <1>1, <1>4, <2>3 DEF Look, Goto
    <3> QED
      BY <2>1, <2>3, <3>1 DEF Progress, Handed, Path
  <2> QED
    BY <2>2, <2>3
<1>5. CASE Mkdir(c)
  <2>1. /\ pc[c] = "mkdir" /\ UNCHANGED <<config, delegated>> /\ Handed(c, depth[c] + 1)
        /\ Prefix(Path(c), depth[c] + 1) \notin dirs
        /\ depth[c] + 1 \in 1 .. Len(Path(c)) /\ depth[c] \in 0 .. depth[c]
    BY <1>1, <1>5 DEF Mkdir, Progress, Begin, IInv, Depths, Making
  <2>2. Parent(Prefix(Path(c), depth[c] + 1)) = d
    BY <1>1, <2>1, Up
  <2>3. d \in dirs
    BY <1>1, <2>1 DEF Handed
  <2>4. dirs' = dirs \cup {Prefix(Path(c), depth[c] + 1)} /\ Deeper(c)
    BY <1>5, <2>1, <2>2, <2>3 DEF Mkdir
  <2> QED
    BY <2>1, <2>4, DeeperProgress
<1>6. CASE Apply(c)
  <2>1. pc[c] = "apply" /\ pc'[c] \in {"apply", "attach", "rmdir"} /\ UNCHANGED <<config, dirs, delegated>>
    BY <1>1, <1>6 DEF Apply, Goto, tree
  <2> QED
    BY <1>6, <2>1 DEF Progress, Handed, Path, Begin
<1>7. CASE \/ Attach(c) \/ Delete(c) \/ Rmdir(c) \/ RmParent(c)
  <2>1. pc'[c] \in {"runs", "rmdir", "rmparent", "gone", "left"}
    BY <1>1, <1>7 DEF Attach, Delete, Rmdir, RmParent, Goto
  <2> QED
    BY <2>1 DEF Progress
<1>8. CASE (\E r \in config.updates[c] : UpdateBegin(c, r)) \/ UpdateWrite(c) \/ Die(c)
  <2>1. UNCHANGED <<config, dirs, delegated, pc, depth>> /\ (Progress(c) \/ pc[c] = "idle")
    BY <1>8 DEF UpdateBegin, UpdateWrite, Die, tree, Begin
  <2>2. pc[c] = "idle" => Progress(c)
    BY DEF Progress
  <2> QED
    BY <2>1, <2>2, ProgressStays
<1> QED
  BY <1>2, <1>3, <1>4, <1>5, <1>6, <1>7, <1>8 DEF Step

(* v2.rs: create, delegate.  For any containers and paths, a create during *)
(* which nobody else took a step does not fail before the limits are       *)
(* written, and then its cgroup is there, has the controllers and can take *)
(* processes.                                                              *)
THEOREM Undisturbed == Spec => []QuietCreate
<1>1. IInv /\ QuietInv /\ [Next]_vars => QuietInv'
  <2> SUFFICES ASSUME IInv, QuietInv, [Next]_vars PROVE QuietInv'
    OBVIOUS
  <2>1. Delegations'
    BY NextDelegations DEF QuietInv
  <2>2. config' = config
    BY DEF Next, Step, Begin, Delegate, Look, Mkdir, Apply, Attach, UpdateBegin, UpdateWrite, Die,
           Delete, Rmdir, RmParent, vars
  <2>3. ASSUME NEW c \in alone', Unnested(c)' PROVE Progress(c)'
    <3>1. Unnested(c)
      BY <2>2, <2>3 DEF Unnested, Path
    <3>2. CASE UNCHANGED vars
      BY <2>3, <3>1, <3>2, ProgressStays DEF vars, tree, QuietInv
    <3>3. ASSUME NEW e \in Containers, Step(e) PROVE Progress(c)'
      <4>1. CASE Die(e)
        BY <2>3, <3>1, <4>1, ProgressStays DEF Die, QuietInv
      <4>2. CASE ~Die(e)
        <5>1. alone' \subseteq alone \cap {e} \/ (Begin(e) /\ alone' \subseteq {e})
          BY <3>3, <4>2 DEF Step, Begin, Delegate, Look, Mkdir, Apply, Attach, UpdateBegin, UpdateWrite,
             Delete, Rmdir, RmParent, Interrupts
        <5>2. c = e /\ (c \in alone \/ Begin(c))
          BY <2>3, <5>1
        <5> QED
          BY <3>1, <3>3, <5>2, OwnProgress DEF QuietInv
      <4> QED
        BY <4>1, <4>2
    <3> QED
      BY <3>2, <3>3 DEF Next
  <2> QED
    BY <2>1, <2>3 DEF QuietInv
<1>2. IInv /\ QuietInv /\ alone \subseteq Containers => QuietCreate
  <2> SUFFICES ASSUME IInv, QuietInv, NEW c \in alone, c \in Containers, Unnested(c)
               PROVE  /\ pc[c] # "failed"
                      /\ pc[c] \in {"apply", "attach"} => Path(c) \in dirs \ delegated /\ Has(Path(c))
    BY DEF QuietCreate
  <2>1. Progress(c) /\ config \in Configs /\ Delegations
    BY DEF QuietInv, IInv, Types
  <2>2. Path(c) \in Seq(STRING) /\ Len(Path(c)) \in 0 .. Len(Path(c)) /\ Prefix(Path(c), Len(Path(c))) = Path(c)
    BY <2>1, Paths, Whole
  <2> QED
    BY <2>1, <2>2, LeafKept, HasIsHanded DEF Progress
<1>3. Init => alone \subseteq Containers
  BY DEF Init
<1>4. alone \subseteq Containers /\ [Next]_vars => (alone \subseteq Containers)'
  BY DEF Next, Step, Begin, Delegate, Look, Mkdir, Apply, Attach, UpdateBegin, UpdateWrite, Die,
         Delete, Rmdir, RmParent, vars, Interrupts
<1> QED
  BY <1>1, <1>2, <1>3, <1>4, InitQuiet, Invariant, PTL DEF Spec
-----------------------------------------------------------------------------
(* What the cgroups hold.                                                  *)

(* A field that is given has its one value.                                *)
LEMMA One ==
  ASSUME NEW field, AtMostOne(field), NEW v \in field
  PROVE  The(field) = v /\ field # {}
BY DEF The, AtMostOne

(* A write of a field, or none.                                            *)
LEMMA GivenIn ==
  ASSUME NEW S, NEW field, NEW file, NEW value, field # {} => [file |-> file, value |-> value] \in S
  PROVE  Given(field, file, value) \in Seq(S)
<1>1. ASSUME NEW w \in S PROVE <<w>> \in Seq(S)
  OBVIOUS
<1>2. <<>> \in Seq(S)
  BY EmptySeq
<1> QED
  BY <1>1, <1>2 DEF Given

(* The flags of `mars update` become a request that can be written down.   *)
LEMMA FlagsPossible ==
  ASSUME NEW r, Possible(r), NEW q \in FromFlags(r)
  PROVE  Possible(q)
<1>1. q = [r EXCEPT !.reservation = {}, !.weight = {}, !.throttle = <<>>, !.unified = <<>>]
  BY DEF FromFlags
<1>2. \A S : <<>> \in Seq(S)
  BY EmptySeq
<1>3. r \in Requests
  BY DEF Possible
<1>4. q \in Requests
  BY <1>1, <1>2, <1>3 DEF Requests
<1>5. ASSUME NEW field \in Optional PROVE AtMostOne(q[field])
  <2>1. q[field] = {} \/ q[field] = r[field]
    BY <1>1, <1>3, <1>5 DEF Requests, Optional
  <2> QED
    BY <2>1, <1>5 DEF Possible, AtMostOne
<1> QED
  BY <1>4, <1>5 DEF Possible

(* The fields of a request.                                                *)
LEMMA Fields ==
  ASSUME NEW r, Possible(r)
  PROVE  /\ r.limit \subseteq Int /\ r.reservation \subseteq Int /\ r.swap \subseteq Int
         /\ r.quota \subseteq Int /\ r.period \subseteq Nat /\ r.shares \subseteq Nat
         /\ r.cpus \subseteq STRING /\ r.mems \subseteq STRING /\ r.pids \subseteq Int
         /\ r.weight \subseteq Nat
         /\ AtMostOne(r.limit) /\ AtMostOne(r.swap) /\ AtMostOne(r.shares)
         /\ r.throttle \in Seq({w \in AllWrites : w.file \notin Named}) /\ r.unified \in Seq(LegalWrites)
<1>1. r \in Requests /\ \A field \in Optional : AtMostOne(r[field])
  BY DEF Possible
<1>2. "limit" \in Optional /\ "swap" \in Optional /\ "shares" \in Optional
  BY DEF Optional
<1>3. AtMostOne(r.limit) /\ AtMostOne(r.swap) /\ AtMostOne(r.shares)
  BY <1>1, <1>2
<1> QED
  BY <1>1, <1>3 DEF Requests

(* The file of a write, and what it says.                                  *)
LEMMA AWrite ==
  ASSUME NEW file \in Files, NEW value \in Seq(Int) \cup Seq(STRING)
  PROVE  /\ [file |-> file, value |-> value] \in AllWrites
         /\ [file |-> file, value |-> value].file = file
         /\ file \notin Weights => [file |-> file, value |-> value] \in LegalWrites
         /\ value[1] \in WeightRange => [file |-> file, value |-> value] \in LegalWrites
BY DEF AllWrites, LegalWrites

(* The values of the writes.                                               *)
LEMMA Values ==
  ASSUME NEW r, Possible(r)
  PROVE  /\ r.limit # {} => <<Limit(The(r.limit))>> \in Seq(Int)
         /\ r.reservation # {} => <<Limit(The(r.reservation))>> \in Seq(Int)
         /\ r.swap # {} => <<Swap(The(r.swap), r.limit)>> \in Seq(Int)
         /\ r.quota # {} => CpuMax(The(r.quota), IF r.period = {} THEN DefaultPeriod ELSE The(r.period)) \in Seq(Int)
         /\ NotZero(r.shares) # {} => /\ <<SharesToWeight(The(r.shares))>> \in Seq(Int)
                                      /\ <<SharesToWeight(The(r.shares))>>[1] \in WeightRange
         /\ r.cpus # {} => <<The(r.cpus)>> \in Seq(STRING)
         /\ r.mems # {} => <<The(r.mems)>> \in Seq(STRING)
         /\ r.pids # {} => <<Limit(The(r.pids))>> \in Seq(Int)
         /\ NotZero(r.weight) # {} => /\ <<BlkioToIoWeight(The(r.weight))>> \in Seq(Int)
                                      /\ <<BlkioToIoWeight(The(r.weight))>>[1] \in WeightRange
<1>1. \A field : field # {} => The(field) \in field
  BY DEF The
<1>2. \A v \in Int : Limit(v) \in Int
  BY DEF Limit, Unlimited
<1>3. \A v \in Int : <<v>> \in Seq(Int) /\ <<v>>[1] = v
  OBVIOUS
<1>4. \A v \in STRING : <<v>> \in Seq(STRING)
  <2>1. \A S : \A v \in S : <<v>> \in Seq(S)
    OBVIOUS
  <2> QED
    BY <2>1, Zenon
<1>5. ASSUME r.swap # {} PROVE Swap(The(r.swap), r.limit) \in Int
  <2>0. r.swap \subseteq Int /\ r.limit \subseteq Int
    BY Fields
  <2>1. The(r.swap) \in Int /\ (r.limit # {} => The(r.limit) \in Int)
    BY <1>1, <1>5, <2>0, Zenon
  <2> QED
    BY <2>1 DEF Swap, Unlimited
<1>6. ASSUME r.quota # {}
      PROVE  CpuMax(The(r.quota), IF r.period = {} THEN DefaultPeriod ELSE The(r.period)) \in Seq(Int)
  <2>0. r.quota \subseteq Int /\ r.period \subseteq Nat
    BY Fields
  <2>1. The(r.quota) \in Int /\ (r.period # {} => The(r.period) \in Int)
    BY <1>1, <1>6, <2>0
  <2>2. DefaultPeriod \in Int
    BY SMT DEF DefaultPeriod
  <2> QED
    BY <2>1, <2>2 DEF CpuMax, Unlimited
<1>7. ASSUME NotZero(r.shares) # {} PROVE The(r.shares) \in Nat \ {0}
  <2>1. PICK v \in r.shares : v # 0
    BY <1>7 DEF NotZero
  <2>2. AtMostOne(r.shares) /\ r.shares \subseteq Nat
    BY Fields
  <2>3. The(r.shares) = v
    BY <2>1, <2>2, One
  <2> QED
    BY <2>1, <2>2, <2>3
<1>8. ASSUME NotZero(r.weight) # {} PROVE The(r.weight) \in Nat
  <2>1. r.weight \subseteq Nat
    BY Fields
  <2> QED
    BY <1>1, <1>8, <2>1 DEF NotZero
<1>9. \A v \in WeightRange : v \in Int
  BY SMT DEF WeightRange
<1>10. NotZero(r.shares) # {} => SharesToWeight(The(r.shares)) \in WeightRange
  <2>1. \A v \in Nat \ {0} : v <= v /\ v \in Nat
    BY SMT
  <2>2. \A v \in Nat \ {0} : SharesToWeight(v) \in WeightRange
    BY <2>1, SharesLegal
  <2> QED
    BY <1>7, <2>2
<1>11. NotZero(r.weight) # {} => BlkioToIoWeight(The(r.weight)) \in WeightRange
  <2>1. \A v \in Nat : v <= v
    BY SMT
  <2>2. \A v \in Nat : BlkioToIoWeight(v) \in WeightRange
    BY <2>1, BlkioLegal
  <2> QED
    BY <1>8, <2>2
<1>12. NotZero(r.shares) # {} => /\ <<SharesToWeight(The(r.shares))>> \in Seq(Int)
                                 /\ <<SharesToWeight(The(r.shares))>>[1] \in WeightRange
  BY <1>3, <1>9, <1>10
<1>13. NotZero(r.weight) # {} => /\ <<BlkioToIoWeight(The(r.weight))>> \in Seq(Int)
                                 /\ <<BlkioToIoWeight(The(r.weight))>>[1] \in WeightRange
  BY <1>3, <1>9, <1>11
<1>14. /\ r.limit # {} => <<Limit(The(r.limit))>> \in Seq(Int)
       /\ r.reservation # {} => <<Limit(The(r.reservation))>> \in Seq(Int)
       /\ r.pids # {} => <<Limit(The(r.pids))>> \in Seq(Int)
       /\ r.swap # {} => <<Swap(The(r.swap), r.limit)>> \in Seq(Int)
       /\ r.cpus # {} => <<The(r.cpus)>> \in Seq(STRING)
       /\ r.mems # {} => <<The(r.mems)>> \in Seq(STRING)
  <2>1. /\ r.limit # {} => The(r.limit) \in Int
        /\ r.reservation # {} => The(r.reservation) \in Int
        /\ r.pids # {} => The(r.pids) \in Int
        /\ r.cpus # {} => The(r.cpus) \in STRING
        /\ r.mems # {} => The(r.mems) \in STRING
    BY <1>1, Fields
  <2> QED
    BY <1>2, <1>3, <1>4, <1>5, <2>1
<1> QED
  BY <1>6, <1>12, <1>13, <1>14, Zenon

(* The writes to one file, and to the others.                              *)
Only(file) == {w \in LegalWrites : w.file = file}
Others(file) == {w \in LegalWrites : w.file # file}

(* v2.rs: apply.  The pieces of apply.                                     *)
LEMMA Pieces ==
  ASSUME NEW r, Possible(r)
  PROVE  /\ Given(r.limit, "memory.max", <<Limit(The(r.limit))>>) \in Seq(Only("memory.max"))
         /\ Given(r.reservation, "memory.low", <<Limit(The(r.reservation))>>) \in Seq(Only("memory.low"))
         /\ Given(r.swap, "memory.swap.max", <<Swap(The(r.swap), r.limit)>>) \in Seq(Only("memory.swap.max"))
         /\ Given(r.quota, "cpu.max",
                  CpuMax(The(r.quota), IF r.period = {} THEN DefaultPeriod ELSE The(r.period))) \in Seq(Only("cpu.max"))
         /\ Given(NotZero(r.shares), "cpu.weight", <<SharesToWeight(The(r.shares))>>) \in Seq(Only("cpu.weight"))
         /\ Given(r.cpus, "cpuset.cpus", <<The(r.cpus)>>) \in Seq(Only("cpuset.cpus"))
         /\ Given(r.mems, "cpuset.mems", <<The(r.mems)>>) \in Seq(Only("cpuset.mems"))
         /\ Given(r.pids, "pids.max", <<Limit(The(r.pids))>>) \in Seq(Only("pids.max"))
         /\ Given(NotZero(r.weight), "io.weight", <<BlkioToIoWeight(The(r.weight))>>) \in Seq(Only("io.weight"))
<1>1. ASSUME NEW field, NEW file \in Files, NEW value,
             field # {} => /\ value \in Seq(Int) \cup Seq(STRING)
                           /\ file \notin Weights \/ value[1] \in WeightRange
      PROVE  Given(field, file, value) \in Seq(Only(file))
  <2>1. field # {} => [file |-> file, value |-> value] \in Only(file)
    BY <1>1, AWrite, Zenon DEF Only
  <2> QED
    BY <2>1, GivenIn, Zenon
<1>2. \A file \in {"memory.max", "memory.low", "memory.swap.max", "cpu.max", "cpuset.cpus", "cpuset.mems", "pids.max"} :
        file \in Files /\ file \notin Weights
  BY FilesAssumption DEF Weights, Named
<1>3. \A field, value :
        /\ \A file \in {"memory.max", "memory.low", "memory.swap.max", "cpu.max", "cpuset.cpus", "cpuset.mems", "pids.max"} :
             (field # {} => value \in Seq(Int) \cup Seq(STRING)) => Given(field, file, value) \in Seq(Only(file))
        /\ \A file \in {"cpu.weight", "io.weight"} :
             (field # {} => value \in Seq(Int) \cup Seq(STRING) /\ value[1] \in WeightRange)
               => Given(field, file, value) \in Seq(Only(file))
  <2>1. "cpu.weight" \in Files /\ "io.weight" \in Files
    BY FilesAssumption DEF Named
  <2> QED
    BY <1>1, <1>2, <2>1, Zenon
<1> QED
  BY <1>3, Values, Zenon

(* The writes of throttle are to other files than those apply names.       *)
LEMMA Throttles ==
  ASSUME NEW r, Possible(r)
  PROVE  r.throttle \in Seq({w \in LegalWrites : w.file \notin Named})
<1>1. {w \in AllWrites : w.file \notin Named} \subseteq {w \in LegalWrites : w.file \notin Named}
  BY DEF LegalWrites, Named, Weights
<1> QED
  BY <1>1, Fields, SeqMonotonic

(* Every write of a request is one the kernel takes.                       *)
LEMMA WritesLegal ==
  ASSUME NEW r, Possible(r)
  PROVE  Writes(r) \in Seq(LegalWrites)
<1>1. \A file : Only(file) \subseteq LegalWrites
  BY DEF Only
<1>2. \A file : \A s \in Seq(Only(file)) : s \in Seq(LegalWrites)
  BY <1>1, SeqMonotonic
<1>3. \A s, t \in Seq(LegalWrites) : s \o t \in Seq(LegalWrites)
  BY ConcatProperties
<1>4. r.throttle \in Seq(LegalWrites) /\ r.unified \in Seq(LegalWrites)
  BY Throttles, Fields, SeqMonotonic, {w \in LegalWrites : w.file \notin Named} \subseteq LegalWrites
<1>5. /\ Given(r.limit, "memory.max", <<Limit(The(r.limit))>>) \in Seq(LegalWrites)
      /\ Given(r.reservation, "memory.low", <<Limit(The(r.reservation))>>) \in Seq(LegalWrites)
      /\ Given(r.swap, "memory.swap.max", <<Swap(The(r.swap), r.limit)>>) \in Seq(LegalWrites)
      /\ Given(r.quota, "cpu.max",
               CpuMax(The(r.quota), IF r.period = {} THEN DefaultPeriod ELSE The(r.period))) \in Seq(LegalWrites)
      /\ Given(NotZero(r.shares), "cpu.weight", <<SharesToWeight(The(r.shares))>>) \in Seq(LegalWrites)
      /\ Given(r.cpus, "cpuset.cpus", <<The(r.cpus)>>) \in Seq(LegalWrites)
      /\ Given(r.mems, "cpuset.mems", <<The(r.mems)>>) \in Seq(LegalWrites)
      /\ Given(r.pids, "pids.max", <<Limit(The(r.pids))>>) \in Seq(LegalWrites)
      /\ Given(NotZero(r.weight), "io.weight", <<BlkioToIoWeight(The(r.weight))>>) \in Seq(LegalWrites)
  BY <1>2, Pieces, Zenon
<1> QED
  BY <1>3, <1>4, <1>5 DEF Writes

(* The last write to a file.                                               *)
LastIs(s, file, value) ==
  \E i \in DOMAIN s : IsLast(s, i) /\ s[i].file = file /\ s[i].value = value

(* Writes to other files do not change which one is the last.              *)
LEMMA LastThen ==
  ASSUME NEW s \in Seq(LegalWrites), NEW file, NEW value, LastIs(s, file, value),
         NEW t \in Seq(Others(file))
  PROVE  s \o t \in Seq(LegalWrites) /\ LastIs(s \o t, file, value)
<1>1. t \in Seq(LegalWrites)
  BY SeqMonotonic, Others(file) \subseteq LegalWrites DEF Others
<1>2. /\ s \o t \in Seq(LegalWrites) /\ Len(s \o t) = Len(s) + Len(t)
      /\ \A i \in 1 .. Len(s) + Len(t) : (s \o t)[i] = IF i <= Len(s) THEN s[i] ELSE t[i - Len(s)]
  BY <1>1, ConcatProperties
<1>3. Len(s) \in Nat /\ Len(t) \in Nat /\ DOMAIN s = 1 .. Len(s) /\ DOMAIN (s \o t) = 1 .. Len(s) + Len(t)
  BY <1>1, <1>2, LenProperties
<1>4. PICK i \in 1 .. Len(s) : IsLast(s, i) /\ s[i].file = file /\ s[i].value = value
  BY <1>3 DEF LastIs
<1>5. \A j \in 1 .. Len(t) : t[j].file # file
  BY ElementOfSeq DEF Others
<1>6. ASSUME NEW j \in i + 1 .. Len(s) + Len(t) PROVE (s \o t)[j].file # file
  <2>1. CASE j <= Len(s)
    BY <1>2, <1>3, <1>4, <2>1 DEF IsLast
  <2>2. CASE j > Len(s)
    <3>1. j - Len(s) \in 1 .. Len(t) /\ j \in 1 .. Len(s) + Len(t)
      BY <1>3, <2>2
    <3> QED
      BY <1>2, <1>5, <2>2, <3>1
  <2> QED
    BY <1>3, <2>1, <2>2
<1>7. (s \o t)[i] = s[i] /\ i \in DOMAIN (s \o t)
  BY <1>2, <1>3
<1> QED
  BY <1>2, <1>4, <1>6, <1>7 DEF LastIs, IsLast

(* A write is the last of a sequence that ends with it.                    *)
LEMMA LastOne ==
  ASSUME NEW s \in Seq(LegalWrites), NEW w \in LegalWrites
  PROVE  s \o <<w>> \in Seq(LegalWrites) /\ LastIs(s \o <<w>>, w.file, w.value)
<1>1. <<w>> \in Seq(LegalWrites) /\ Len(<<w>>) = 1 /\ <<w>>[1] = w
  OBVIOUS
<1>2. /\ s \o <<w>> \in Seq(LegalWrites) /\ Len(s \o <<w>>) = Len(s) + 1
      /\ \A i \in 1 .. Len(s) + 1 : (s \o <<w>>)[i] = IF i <= Len(s) THEN s[i] ELSE <<w>>[i - Len(s)]
  BY <1>1, ConcatProperties
<1>3. Len(s) \in Nat /\ DOMAIN (s \o <<w>>) = 1 .. Len(s) + 1
  BY <1>2, LenProperties
<1>4. (s \o <<w>>)[Len(s) + 1] = w /\ Len(s) + 1 \in DOMAIN (s \o <<w>>)
  BY <1>1, <1>2, <1>3
<1>5. \A j \in Len(s) + 1 + 1 .. Len(s \o <<w>>) : FALSE
  BY <1>2, <1>3
<1> QED
  BY <1>2, <1>4, <1>5 DEF LastIs, IsLast

(* v2.rs: apply.  Without unified entries, what is written last to         *)
(* memory.max is the limit, and to memory.swap.max the rest of the total.  *)
LEMMA MemoryWritten ==
  ASSUME NEW r, Possible(r), r.unified = <<>>
  PROVE  /\ r.limit # {} => LastIs(Writes(r), "memory.max", <<Limit(The(r.limit))>>)
         /\ r.swap # {} => LastIs(Writes(r), "memory.swap.max", <<Swap(The(r.swap), r.limit)>>)
<1> DEFINE p1 == Given(r.limit, "memory.max", <<Limit(The(r.limit))>>)
           p2 == Given(r.reservation, "memory.low", <<Limit(The(r.reservation))>>)
           p3 == Given(r.swap, "memory.swap.max", <<Swap(The(r.swap), r.limit)>>)
           p4 == Given(r.quota, "cpu.max",
                       CpuMax(The(r.quota), IF r.period = {} THEN DefaultPeriod ELSE The(r.period)))
           p5 == Given(NotZero(r.shares), "cpu.weight", <<SharesToWeight(The(r.shares))>>)
           p6 == Given(r.cpus, "cpuset.cpus", <<The(r.cpus)>>)
           p7 == Given(r.mems, "cpuset.mems", <<The(r.mems)>>)
           p8 == Given(r.pids, "pids.max", <<Limit(The(r.pids))>>)
           p9 == Given(NotZero(r.weight), "io.weight", <<BlkioToIoWeight(The(r.weight))>>)
           Last1(s) == LastIs(s, "memory.max", <<Limit(The(r.limit))>>)
           Last3(s) == LastIs(s, "memory.swap.max", <<Swap(The(r.swap), r.limit)>>)
           o1 == Others("memory.max")
           o3 == Others("memory.swap.max")
<1>1. Writes(r) = p1 \o p2 \o p3 \o p4 \o p5 \o p6 \o p7 \o p8 \o p9 \o r.throttle \o <<>>
  BY Zenon DEF Writes
<1>2. \A f, g : f # g => \A s \in Seq(Only(f)) : s \in Seq(Others(g))
  <2> SUFFICES ASSUME NEW f, NEW g, f # g, NEW s \in Seq(Only(f))
               PROVE  s \in Seq(Others(g))
    OBVIOUS
  <2> QED
    BY SeqMonotonic, Only(f) \subseteq Others(g) DEF Only, Others
<1>3. /\ p2 \in Seq(o1) /\ p3 \in Seq(o1)
      /\ p4 \in Seq(o1) /\ p5 \in Seq(o1) /\ p6 \in Seq(o1) /\ p7 \in Seq(o1) /\ p8 \in Seq(o1) /\ p9 \in Seq(o1)
      /\ p4 \in Seq(o3) /\ p5 \in Seq(o3) /\ p6 \in Seq(o3) /\ p7 \in Seq(o3) /\ p8 \in Seq(o3) /\ p9 \in Seq(o3)
  <2>1. \A g \in {"memory.max", "memory.swap.max"} :
          \A f \in {"memory.low", "cpu.max", "cpu.weight", "cpuset.cpus", "cpuset.mems", "pids.max", "io.weight"} :
             f # g
    OBVIOUS
  <2>2. "memory.max" # "memory.swap.max"
    OBVIOUS
  <2> QED
    BY <1>2, <2>1, <2>2, Pieces, Zenon
<1>4. r.throttle \in Seq(o1) /\ r.throttle \in Seq(o3) /\ <<>> \in Seq(o1) /\ <<>> \in Seq(o3)
  <2>1. {w \in LegalWrites : w.file \notin Named} \subseteq o1 \cap o3
    BY DEF Named, Others
  <2> QED
    BY <2>1, Throttles, SeqMonotonic, EmptySeq
<1>5. p1 \in Seq(LegalWrites) /\ p2 \in Seq(LegalWrites) /\ p1 \o p2 \in Seq(LegalWrites)
  <2>1. p1 \in Seq(LegalWrites) /\ p2 \in Seq(LegalWrites)
    <3>1. \A file : Only(file) \subseteq LegalWrites
      BY DEF Only
    <3>2. \A file : \A s \in Seq(Only(file)) : s \in Seq(LegalWrites)
      BY <3>1, SeqMonotonic
    <3> QED
      BY <3>2, Pieces, Zenon
  <2> QED
    BY <2>1, ConcatProperties
<1>6. r.limit # {} => Last1(p1)
  <2>1. SUFFICES ASSUME r.limit # {} PROVE Last1(p1)
    OBVIOUS
  <2> DEFINE w == [file |-> "memory.max", value |-> <<Limit(The(r.limit))>>]
  <2>2. "memory.max" \in Files /\ "memory.max" \notin Weights
    BY FilesAssumption DEF Weights, Named
  <2>3. w \in LegalWrites /\ w.file = "memory.max" /\ w.value = <<Limit(The(r.limit))>>
    BY <2>1, <2>2, Values, AWrite
  <2>4. p1 = <<>> \o <<w>>
    BY <2>1 DEF Given
  <2>5. <<>> \in Seq(LegalWrites)
    BY EmptySeq
  <2> HIDE DEF w, p1
  <2> QED
    BY <2>3, <2>4, <2>5, LastOne
<1>7. r.swap # {} => Last3(p1 \o p2 \o p3) /\ p1 \o p2 \o p3 \in Seq(LegalWrites)
  <2>1. SUFFICES ASSUME r.swap # {} PROVE Last3(p1 \o p2 \o p3) /\ p1 \o p2 \o p3 \in Seq(LegalWrites)
    OBVIOUS
  <2> DEFINE w == [file |-> "memory.swap.max", value |-> <<Swap(The(r.swap), r.limit)>>]
  <2>2. "memory.swap.max" \in Files /\ "memory.swap.max" \notin Weights
    BY FilesAssumption DEF Weights, Named
  <2>3. w \in LegalWrites /\ w.file = "memory.swap.max" /\ w.value = <<Swap(The(r.swap), r.limit)>>
    BY <2>1, <2>2, Values, AWrite
  <2>4. p3 = <<w>>
    BY <2>1 DEF Given
  <2> HIDE DEF w, p3, p1, p2
  <2> QED
    BY <1>5, <2>3, <2>4, LastOne
<1>8. ASSUME NEW s \in Seq(LegalWrites), NEW t
      PROVE  /\ Last1(s) /\ t \in Seq(o1) => Last1(s \o t) /\ s \o t \in Seq(LegalWrites)
             /\ Last3(s) /\ t \in Seq(o3) => Last3(s \o t) /\ s \o t \in Seq(LegalWrites)
  BY LastThen, Zenon
<1> HIDE DEF p1, p2, p3, p4, p5, p6, p7, p8, p9, Last1, Last3, o1, o3
<1> DEFINE s3 == p1 \o p2 \o p3
           s6 == s3 \o p4 \o p5 \o p6
           s9 == s6 \o p7 \o p8 \o p9
<1>9. Last1(p1) => Last1(s3) /\ s3 \in Seq(LegalWrites)
  BY <1>3, <1>5, <1>8
<1>10. ASSUME NEW s \in Seq(LegalWrites)
       PROVE  /\ Last1(s) => LET t == s \o p4 \o p5 \o p6 IN Last1(t) /\ t \in Seq(LegalWrites)
              /\ Last3(s) => LET t == s \o p4 \o p5 \o p6 IN Last3(t) /\ t \in Seq(LegalWrites)
  BY <1>3, <1>8
<1>11. ASSUME NEW s \in Seq(LegalWrites)
       PROVE  /\ Last1(s) => LET t == s \o p7 \o p8 \o p9 IN Last1(t) /\ t \in Seq(LegalWrites)
              /\ Last3(s) => LET t == s \o p7 \o p8 \o p9 IN Last3(t) /\ t \in Seq(LegalWrites)
  BY <1>3, <1>8
<1>12. ASSUME NEW s \in Seq(LegalWrites)
       PROVE  /\ Last1(s) => Last1(s \o r.throttle \o <<>>)
              /\ Last3(s) => Last3(s \o r.throttle \o <<>>)
  BY <1>4, <1>8
<1>13. Writes(r) = s9 \o r.throttle \o <<>>
  BY <1>1, Zenon
<1>14. /\ s3 \in Seq(LegalWrites) /\ Last1(s3) => s6 \in Seq(LegalWrites) /\ Last1(s6)
       /\ s3 \in Seq(LegalWrites) /\ Last3(s3) => s6 \in Seq(LegalWrites) /\ Last3(s6)
  BY <1>10
<1> HIDE DEF s3
<1>15. /\ s6 \in Seq(LegalWrites) /\ Last1(s6) => s9 \in Seq(LegalWrites) /\ Last1(s9)
       /\ s6 \in Seq(LegalWrites) /\ Last3(s6) => s9 \in Seq(LegalWrites) /\ Last3(s9)
  BY <1>11
<1> HIDE DEF s6
<1>16. /\ s9 \in Seq(LegalWrites) /\ Last1(s9) => Last1(Writes(r))
       /\ s9 \in Seq(LegalWrites) /\ Last3(s9) => Last3(Writes(r))
  BY <1>12, <1>13
<1> HIDE DEF s9
<1>17. /\ r.limit # {} => Last1(Writes(r))
       /\ r.swap # {} => Last3(Writes(r))
  BY <1>6, <1>7, <1>9, <1>14, <1>15, <1>16 DEF s3
<1> QED
  BY <1>17 DEF Last1, Last3

(* The first k writes are done, and nothing has been overwritten since.    *)
Written(f, writes, k) ==
  \A i \in 1 .. k : (\A j \in i + 1 .. k : writes[j].file # writes[i].file) =>
    writes[i].file \in DOMAIN f /\ f[writes[i].file] = writes[i].value

(* All but the rest of the writes are done.                                *)
UpTo(f, writes, rest) ==
  \E k \in 0 .. Len(writes) : rest = SubSeq(writes, k + 1, Len(writes)) /\ Written(f, writes, k)

(* At first none are.                                                      *)
LEMMA NoneYet ==
  ASSUME NEW f, NEW writes \in Seq(LegalWrites)
  PROVE  UpTo(f, writes, writes)
<1>1. Len(writes) \in Nat /\ SubSeq(writes, 1, Len(writes)) = writes
  BY LenProperties, SubSeqFull
<1> QED
  BY <1>1 DEF UpTo, Written

(* One more write.                                                         *)
LEMMA OneMore ==
  ASSUME NEW f, NEW writes \in Seq(LegalWrites), NEW rest, UpTo(f, writes, rest), rest # <<>>
  PROVE  UpTo(Put(f, Head(rest)), writes, Tail(rest))
<1>1. PICK k \in 0 .. Len(writes) : rest = SubSeq(writes, k + 1, Len(writes)) /\ Written(f, writes, k)
  BY DEF UpTo
<1>2. Len(writes) \in Nat
  BY LenProperties
<1>3. k # Len(writes)
  BY <1>1, <1>2, SubSeqEmpty
<1>4. k + 1 \in 1 .. Len(writes) /\ Len(writes) \in k + 1 .. Len(writes) /\ k + 1 \in 0 .. Len(writes)
  BY <1>1, <1>2, <1>3
<1>5. Head(rest) = writes[k + 1] /\ Tail(rest) = SubSeq(writes, k + 1 + 1, Len(writes))
  BY <1>1, <1>4, HeadTailOfSubSeq
<1> DEFINE w == writes[k + 1]
           g == Put(f, w)
<1>6. /\ w.file \in DOMAIN g /\ g[w.file] = w.value
      /\ \A file \in DOMAIN f : file # w.file => file \in DOMAIN g /\ g[file] = f[file]
  BY DEF Put
<1>7. Written(g, writes, k + 1)
  <2> SUFFICES ASSUME NEW i \in 1 .. k + 1, \A j \in i + 1 .. k + 1 : writes[j].file # writes[i].file
               PROVE  writes[i].file \in DOMAIN g /\ g[writes[i].file] = writes[i].value
    BY DEF Written
  <2>1. CASE i = k + 1
    BY <1>6, <2>1
  <2>2. CASE i # k + 1
    <3>1. i \in 1 .. k /\ k + 1 \in i + 1 .. k + 1 /\ \A j \in i + 1 .. k : writes[j].file # writes[i].file
      BY <1>4, <2>2
    <3>2. writes[i].file \in DOMAIN f /\ f[writes[i].file] = writes[i].value
      BY <1>1, <3>1 DEF Written
    <3>3. w.file # writes[i].file
      BY <3>1
    <3> HIDE DEF g, w
    <3> QED
      BY <1>6, <3>2, <3>3
  <2> QED
    BY <2>1, <2>2
<1> QED
  BY <1>4, <1>5, <1>7 DEF UpTo

(* At the end the cgroup holds what was asked for.                         *)
LEMMA AllDone ==
  ASSUME NEW f, NEW writes \in Seq(LegalWrites), UpTo(f, writes, <<>>)
  PROVE  Kept(f, writes)
<1>1. PICK k \in 0 .. Len(writes) : <<>> = SubSeq(writes, k + 1, Len(writes)) /\ Written(f, writes, k)
  BY DEF UpTo
<1>2. Len(writes) \in Nat /\ DOMAIN writes = 1 .. Len(writes)
  BY LenProperties
<1>3. \A i \in k + 1 .. Len(writes) : writes[i] \in LegalWrites
  BY <1>1, <1>2, ElementOfSeq
<1>4. Len(SubSeq(writes, k + 1, Len(writes))) = IF k + 1 <= Len(writes) THEN Len(writes) - (k + 1) + 1 ELSE 0
  BY <1>1, <1>2, <1>3, SubSeqProperties
<1>5. Len(<<>>) = 0
  OBVIOUS
<1>6. k = Len(writes)
  <2> SUFFICES ASSUME k # Len(writes)  PROVE FALSE
    OBVIOUS
  <2>1. k \in Int /\ Len(writes) \in Int /\ k + 1 <= Len(writes)
    <3>1. Len(writes) \in Nat
      BY <1>2
    <3>2. k \in Int /\ k <= Len(writes)
      BY <1>1, <3>1
    <3> QED
      BY <3>1, <3>2
  <2>2. Len(SubSeq(writes, k + 1, Len(writes))) = Len(writes) - (k + 1) + 1
    BY <1>4, <2>1
  <2>3. Len(SubSeq(writes, k + 1, Len(writes))) = 0
    BY ONLY <1>1, <1>5, Zenon
  <2>4. Len(writes) - (k + 1) + 1 = 0
    BY <2>2, <2>3
  <2> QED
    BY <2>1, <2>4
<1> QED
  BY <1>1, <1>2, <1>6 DEF Written, Kept, IsLast

(* A legal write leaves the weights legal.                                 *)
LEMMA PutLegal ==
  ASSUME NEW f, WeightsLegal(f), NEW w \in LegalWrites
  PROVE  WeightsLegal(Put(f, w))
BY DEF WeightsLegal, Put, LegalWrites

(* v2.rs: swap_value.  Memory and swap together are what was asked for.    *)
LEMMA TotalFollows ==
  ASSUME NEW f, NEW r, Possible(r), Kept(f, Writes(r))
  PROVE  TotalKept(f, r)
<1> SUFFICES ASSUME NEW limit \in r.limit, NEW swap \in r.swap, limit > 0, swap > 0, r.unified = <<>>
             PROVE  f["memory.max"][1] + f["memory.swap.max"][1] = IF swap > limit THEN swap ELSE limit
  BY DEF TotalKept
<1>1. r.limit \subseteq Int /\ r.swap \subseteq Int /\ AtMostOne(r.limit) /\ AtMostOne(r.swap)
  BY Fields
<1>2. The(r.limit) = limit /\ The(r.swap) = swap /\ r.limit = {limit} /\ r.swap # {}
  BY <1>1, One DEF AtMostOne
<1>3. LastIs(Writes(r), "memory.max", <<Limit(limit)>>) /\ LastIs(Writes(r), "memory.swap.max", <<Swap(swap, {limit})>>)
  BY <1>2, MemoryWritten
<1>4. f["memory.max"] = <<Limit(limit)>> /\ f["memory.swap.max"] = <<Swap(swap, {limit})>>
  BY <1>3 DEF LastIs, Kept
<1>5. limit + Swap(swap, {limit}) = IF swap > limit THEN swap ELSE limit
  BY <1>1, TotalExact
<1>6. Limit(limit) = limit
  BY <1>1 DEF Limit
<1> QED
  BY <1>4, <1>5, <1>6

Updating == [request : {r \in Requests : Possible(r)}, left : Seq(LegalWrites)]

(* What the cgroup of c holds, and what is still to be written.            *)
Settings(c) ==
  /\ inForce[c] \subseteq {r \in Requests : Possible(r)}
  /\ pc[c] \in {"idle", "apply", "attach"} \cup Making => c \notin inhabited
  /\ Lowest(c) =>
       /\ pc[c] = "apply" => UpTo(files[c], Writes(config.request[c]), todo[c])
       /\ c \in inhabited => \A u \in upd[c] : UpTo(files[c], Writes(u.request), u.left)
       /\ pc[c] = "attach" \/ c \in inhabited => \A r \in inForce[c] : Kept(files[c], Writes(r))

Legality ==
  /\ DOMAIN files = Containers /\ DOMAIN todo = Containers
  /\ \A c \in Containers : /\ WeightsLegal(files[c])
                           /\ todo[c] \in Seq(LegalWrites) /\ upd[c] \subseteq Updating

LimitsInv == Legality /\ \A c \in Containers : Settings(c)

(* The requests of the configuration.                                      *)
LEMMA Requested ==
  ASSUME config \in Configs, NEW c \in Containers
  PROVE  Possible(config.request[c]) /\ \A r \in config.updates[c] : Possible(r)
BY RequestsAssumption

LEMMA InitLimits == Init => LimitsInv
<1> SUFFICES ASSUME Init PROVE LimitsInv
  OBVIOUS
<1>1. <<>> \in Seq(LegalWrites) /\ WeightsLegal(NoFiles)
  BY EmptySeq DEF WeightsLegal, NoFiles
<1>2. Legality
  BY <1>1 DEF Init, Legality
<1>3. ASSUME NEW c \in Containers PROVE Settings(c)
  BY DEF Init, Settings, Making
<1> QED
  BY <1>2, <1>3 DEF LimitsInv

(* A container that a step does not concern.                               *)
LEMMA SettingsStay ==
  ASSUME NEW c \in Containers, Settings(c), UNCHANGED config,
         files'[c] = files[c], todo'[c] = todo[c], upd'[c] = upd[c], inForce'[c] = inForce[c],
         pc'[c] = pc[c] \/ pc'[c] \notin {"idle", "apply", "attach"} \cup Making
           \/ (pc'[c] \in Making /\ c \notin inhabited'),
         c \in inhabited' => c \in inhabited
  PROVE  Settings(c)'
<1>1. Lowest(c)' <=> Lowest(c)
  BY DEF Lowest, Path
<1> QED
  BY <1>1 DEF Settings, Making

(* The steps that leave the writes and the files alone.                    *)
LEMMA LegalityKept ==
  ASSUME Legality, UNCHANGED <<files, todo, upd>>
  PROVE  Legality'
BY DEF Legality

LEMMA QuietStep ==
  ASSUME IInv, LimitsInv, NEW c \in Containers,
         Begin(c) \/ Delegate(c) \/ Die(c) \/ Delete(c)
  PROVE  LimitsInv'
<1>1. /\ UNCHANGED <<config, files, todo, upd, inForce>> /\ inhabited' \subseteq inhabited
      /\ \/ pc' = pc
         \/ pc[c] \in {"idle", "delegate"} /\ \E to \in Making \cup {"failed"} : pc' = [pc EXCEPT ![c] = to]
         \/ pc' = [pc EXCEPT ![c] = "rmdir"]
  BY DEF Begin, Delegate, Die, Delete, Goto, tree, Making
<1>2. ASSUME NEW e \in Containers PROVE Settings(e)'
  <2>1. /\ \/ pc'[e] = pc[e]
           \/ pc'[e] \notin {"idle", "apply", "attach"} \cup Making
           \/ pc[e] \in {"idle", "delegate"} /\ pc'[e] \in Making
    BY <1>1 DEF IInv, Types, Making
  <2>2. pc[e] \in {"idle", "delegate"} => e \notin inhabited
    BY DEF LimitsInv, Settings, Making
  <2> QED
    BY <1>1, <2>1, <2>2, SettingsStay DEF LimitsInv
<1> QED
  BY <1>1, <1>2, LegalityKept DEF LimitsInv

(* Look and Mkdir, of which one may reach the leaf.                        *)
LEMMA LeafStep ==
  ASSUME IInv, LimitsInv, NEW c \in Containers, Look(c) \/ Mkdir(c)
  PROVE  LimitsInv'
<1>1. /\ pc[c] \in Making /\ UNCHANGED <<config, inhabited, files, upd, inForce>>
      /\ \/ /\ pc' = [pc EXCEPT ![c] = "apply"]
            /\ todo' = [todo EXCEPT ![c] = Writes(config.request[c])]
         \/ \E to \in Making \cup {"failed"} : pc' = [pc EXCEPT ![c] = to] /\ todo' = todo
  BY DEF Look, Mkdir, Deeper, Goto, tree, Making
<1>2. Writes(config.request[c]) \in Seq(LegalWrites)
  BY Requested, WritesLegal DEF IInv, Types
<1>3. Legality'
  BY <1>1, <1>2 DEF LimitsInv, Legality
<1>4. c \notin inhabited
  BY <1>1 DEF LimitsInv, Settings
<1>5. pc \in [Containers -> Places] /\ DOMAIN todo = Containers
  BY DEF IInv, Types, LimitsInv, Legality
<1>6. ASSUME NEW e \in Containers, e # c \/ todo' = todo PROVE Settings(e)'
  <2>1. todo'[e] = todo[e]
    BY <1>1, <1>5, <1>6
  <2>2. pc'[e] = pc[e] \/ pc'[e] = "failed" \/ (pc'[e] \in Making /\ e = c) \/ (e = c /\ pc' = [pc EXCEPT ![c] = "apply"])
    BY <1>1, <1>5
  <2>3. CASE ~(e = c /\ pc' = [pc EXCEPT ![c] = "apply"])
    BY <1>1, <1>4, <2>1, <2>2, <2>3, SettingsStay DEF LimitsInv, Making
  <2>4. CASE e = c /\ pc' = [pc EXCEPT ![c] = "apply"]
    <3>1. "apply" \notin Making \cup {"failed"}
      BY DEF Making
    <3>2. todo' = [todo EXCEPT ![c] = Writes(config.request[c])]
      <4>1. ASSUME NEW to \in Making \cup {"failed"}, pc' = [pc EXCEPT ![c] = to] PROVE FALSE
        BY <1>5, <2>4, <3>1, <4>1
      <4> QED
        BY <1>1, <4>1
    <3>3. todo'[c] = Writes(config.request[c])
      BY <1>5, <3>2
    <3>4. UpTo(files[c], Writes(config.request[c]), todo'[c])
      BY <1>2, <3>3, NoneYet
    <3>5. pc'[c] = "apply"
      BY <1>5, <2>4
    <3> QED
      BY <1>1, <1>4, <2>4, <3>4, <3>5 DEF LimitsInv, Settings
  <2> QED
    BY <2>3, <2>4
<1>7. ASSUME todo' # todo PROVE Settings(c)'
  <2>1. pc'[c] = "apply" /\ todo'[c] = Writes(config.request[c])
    BY <1>1, <1>5, <1>7
  <2>2. UpTo(files[c], Writes(config.request[c]), todo'[c])
    BY <1>2, <2>1, NoneYet
  <2> QED
    BY <1>1, <1>4, <2>1, <2>2 DEF LimitsInv, Settings
<1> QED
  BY <1>3, <1>6, <1>7 DEF LimitsInv

LEMMA ApplyLimits ==
  ASSUME IInv, LimitsInv, NEW c \in Containers, Apply(c)
  PROVE  LimitsInv'
<1>1. /\ pc[c] = "apply" /\ UNCHANGED <<config, inhabited, upd>>
      /\ pc \in [Containers -> Places] /\ DOMAIN todo = Containers /\ DOMAIN files = Containers
      /\ DOMAIN inForce = Containers
  BY DEF Apply, tree, IInv, Types, LimitsInv, Legality
<1>2. c \notin inhabited /\ upd[c] = {}
  BY <1>1 DEF LimitsInv, Settings, IInv, Updates
<1>3. Possible(config.request[c]) /\ Writes(config.request[c]) \in Seq(LegalWrites)
  BY Requested, WritesLegal DEF IInv, Types
<1>4. config.request[c] \in {r \in Requests : Possible(r)}
  BY <1>3 DEF Possible
<1>5. \A e \in Containers \ {c} : /\ files'[e] = files[e] /\ todo'[e] = todo[e] /\ inForce'[e] = inForce[e]
                                  /\ pc'[e] = pc[e]
  BY <1>1 DEF Apply, Goto
<1>6. \A e \in Containers \ {c} : Settings(e)'
  BY <1>1, <1>5, SettingsStay DEF LimitsInv
<1>7. CASE todo[c] = <<>> /\ pc' = [pc EXCEPT ![c] = "attach"] /\ UNCHANGED <<files, todo>>
           /\ inForce' = [inForce EXCEPT ![c] = {config.request[c]}]
  <2>1. pc'[c] = "attach" /\ inForce'[c] = {config.request[c]} /\ Legality'
    BY <1>1, <1>7, LegalityKept DEF LimitsInv
  <2>2. Lowest(c) => Kept(files[c], Writes(config.request[c]))
    BY <1>1, <1>3, <1>7, AllDone DEF LimitsInv, Settings
  <2>3. Lowest(c)' <=> Lowest(c)
    BY <1>1 DEF Lowest, Path
  <2>4. Settings(c)'
    BY <1>1, <1>2, <1>4, <1>7, <2>1, <2>2, <2>3 DEF Settings
  <2> QED
    BY <1>6, <2>1, <2>4 DEF LimitsInv
<1>8. CASE /\ todo[c] # <<>> /\ UNCHANGED <<pc, inForce>>
           /\ files' = [files EXCEPT ![c] = Put(@, Head(todo[c]))]
           /\ todo' = [todo EXCEPT ![c] = Tail(@)]
  <2>1. todo[c] \in Seq(LegalWrites) /\ WeightsLegal(files[c])
    BY DEF LimitsInv, Legality
  <2>2. Head(todo[c]) \in LegalWrites /\ Tail(todo[c]) \in Seq(LegalWrites)
    BY <1>8, <2>1, HeadTailProperties
  <2>3. files'[c] = Put(files[c], Head(todo[c])) /\ todo'[c] = Tail(todo[c])
    BY <1>1, <1>8
  <2>4. WeightsLegal(files'[c])
    BY <2>1, <2>2, <2>3, PutLegal
  <2>5. Legality'
    BY <1>1, <1>5, <1>8, <2>2, <2>3, <2>4 DEF LimitsInv, Legality
  <2>6. Lowest(c) => UpTo(files'[c], Writes(config.request[c]), todo'[c])
    BY <1>1, <1>3, <1>8, <2>3, OneMore DEF LimitsInv, Settings
  <2>7. Lowest(c)' <=> Lowest(c)
    BY <1>1 DEF Lowest, Path
  <2>8. Settings(c)'
    BY <1>1, <1>2, <1>8, <2>6, <2>7 DEF LimitsInv, Settings
  <2> QED
    BY <1>6, <2>5, <2>8 DEF LimitsInv
<1>9. CASE /\ pc' = [pc EXCEPT ![c] = "rmdir"] /\ todo' = [todo EXCEPT ![c] = <<>>]
           /\ UNCHANGED <<files, inForce>>
  <2>1. pc'[c] = "rmdir" /\ todo'[c] = <<>> /\ <<>> \in Seq(LegalWrites)
    BY <1>1, <1>9, EmptySeq
  <2>2. Legality'
    BY <1>1, <1>5, <1>9, <2>1 DEF LimitsInv, Legality
  <2>3. Settings(c)'
    BY <1>1, <1>2, <1>9, <2>1 DEF LimitsInv, Settings, Making
  <2> QED
    BY <1>6, <2>2, <2>3 DEF LimitsInv
<1> QED
  BY <1>7, <1>8, <1>9 DEF Apply, Goto

LEMMA AttachLimits ==
  ASSUME IInv, LimitsInv, NEW c \in Containers, Attach(c)
  PROVE  LimitsInv'
<1>1. /\ pc[c] = "attach" /\ UNCHANGED <<config, files, todo, upd, inForce>>
      /\ pc \in [Containers -> Places] /\ inhabited' \subseteq inhabited \cup {c}
      /\ pc' = [pc EXCEPT ![c] = "runs"] \/ pc' = [pc EXCEPT ![c] = "rmdir"]
  BY DEF Attach, Goto, IInv, Types
<1>2. upd[c] = {}
  BY <1>1 DEF IInv, Updates
<1>3. Lowest(c)' <=> Lowest(c)
  BY <1>1 DEF Lowest, Path
<1>4. pc'[c] \in {"runs", "rmdir"}
  BY <1>1
<1>5. Settings(c)'
  BY <1>1, <1>2, <1>3, <1>4 DEF LimitsInv, Settings, Making
<1>6. ASSUME NEW e \in Containers \ {c} PROVE Settings(e)'
  <2>1. pc'[e] = pc[e] /\ (e \in inhabited' => e \in inhabited)
    BY <1>1
  <2> QED
    BY <1>1, <2>1, SettingsStay DEF LimitsInv
<1> QED
  BY <1>1, <1>5, <1>6, LegalityKept DEF LimitsInv

LEMMA UpdateLimits ==
  ASSUME IInv, LimitsInv, NEW c \in Containers,
         (\E r \in config.updates[c] : UpdateBegin(c, r)) \/ UpdateWrite(c)
  PROVE  LimitsInv'
<1>1. /\ UNCHANGED <<config, inhabited, pc, todo>>
      /\ DOMAIN upd = Containers /\ DOMAIN files = Containers /\ DOMAIN inForce = Containers
  BY DEF UpdateBegin, UpdateWrite, tree, IInv, Types, LimitsInv, Legality
<1>2. \A e \in Containers \ {c} : files'[e] = files[e] /\ upd'[e] = upd[e] /\ inForce'[e] = inForce[e]
  BY <1>1 DEF UpdateBegin, UpdateWrite
<1>3. \A e \in Containers \ {c} : Settings(e)'
  BY <1>1, <1>2, SettingsStay DEF LimitsInv
<1>4. Lowest(c)' <=> Lowest(c)
  BY <1>1 DEF Lowest, Path
<1>5. ASSUME NEW r \in config.updates[c], UpdateBegin(c, r) PROVE LimitsInv'
  <2>1. PICK q \in FromFlags(r) \cup {r} :
          upd' = [upd EXCEPT ![c] = {[request |-> q, left |-> Writes(q)]}]
    BY <1>5 DEF UpdateBegin
  <2>2. Possible(q)
    BY <1>5, Requested, FlagsPossible DEF IInv, Types
  <2>3. Writes(q) \in Seq(LegalWrites) /\ q \in {x \in Requests : Possible(x)}
    BY <2>2, WritesLegal DEF Possible
  <2> DEFINE u == [request |-> q, left |-> Writes(q)]
  <2>4. upd'[c] = {u} /\ inForce'[c] = {} /\ files' = files
    BY <1>1, <1>5, <2>1 DEF UpdateBegin
  <2>5. u \in Updating
    BY <2>3 DEF Updating
  <2>6. Legality'
    BY <1>1, <1>2, <2>1, <2>4, <2>5 DEF LimitsInv, Legality
  <2>7. UpTo(files[c], Writes(q), Writes(q))
    BY <2>3, NoneYet
  <2>8. \A x \in upd'[c] : UpTo(files'[c], Writes(x.request), x.left)
    BY <2>4, <2>7
  <2>9. Settings(c)'
    BY <1>1, <1>4, <2>4, <2>8 DEF LimitsInv, Settings
  <2> QED
    BY <1>3, <2>6, <2>9 DEF LimitsInv
<1>6. ASSUME UpdateWrite(c) PROVE LimitsInv'
  <2>1. PICK u \in upd[c] :
          \/ /\ u.left = <<>>
             /\ upd' = [upd EXCEPT ![c] = {}]
             /\ inForce' = [inForce EXCEPT ![c] = {u.request}]
             /\ files' = files
          \/ /\ u.left # <<>>
             /\ files' = [files EXCEPT ![c] = Put(@, Head(u.left))]
             /\ upd' = [upd EXCEPT ![c] = {[u EXCEPT !.left = Tail(@)]}]
             /\ inForce' = inForce
          \/ /\ upd' = [upd EXCEPT ![c] = {}]
             /\ UNCHANGED <<files, inForce>>
    BY <1>6 DEF UpdateWrite
  <2>2. u \in Updating /\ WeightsLegal(files[c])
    BY DEF LimitsInv, Legality
  <2>3. /\ Possible(u.request) /\ u.request \in {x \in Requests : Possible(x)} /\ u.left \in Seq(LegalWrites)
        /\ Writes(u.request) \in Seq(LegalWrites)
    BY <2>2, WritesLegal DEF Updating
  <2>4. inForce[c] = {}
    BY <2>1 DEF IInv, Updates
  <2>5. Lowest(c) /\ c \in inhabited => UpTo(files[c], Writes(u.request), u.left)
    BY DEF LimitsInv, Settings
  <2>5a. pc[c] \notin {"idle", "apply", "attach"} \cup Making
    BY <2>1 DEF IInv, Updates
  <2>6. CASE u.left = <<>> /\ upd' = [upd EXCEPT ![c] = {}] /\ files' = files
             /\ inForce' = [inForce EXCEPT ![c] = {u.request}]
    <3>1. upd'[c] = {} /\ inForce'[c] = {u.request}
      BY <1>1, <2>6
    <3>2. Lowest(c) /\ c \in inhabited => Kept(files[c], Writes(u.request))
      BY <2>3, <2>5, <2>6, AllDone
    <3>3. Settings(c)'
      BY <1>1, <1>4, <2>3, <2>5a, <2>6, <3>1, <3>2 DEF Settings
    <3>4. Legality'
      BY <1>1, <1>2, <2>6, <3>1 DEF LimitsInv, Legality
    <3> QED
      BY <1>3, <3>3, <3>4 DEF LimitsInv
  <2>7. CASE /\ u.left # <<>> /\ inForce' = inForce
             /\ files' = [files EXCEPT ![c] = Put(@, Head(u.left))]
             /\ upd' = [upd EXCEPT ![c] = {[u EXCEPT !.left = Tail(@)]}]
    <3> DEFINE v == [u EXCEPT !.left = Tail(@)]
    <3>1. Head(u.left) \in LegalWrites /\ Tail(u.left) \in Seq(LegalWrites)
      BY <2>3, <2>7, HeadTailProperties
    <3>2. v \in Updating /\ v.request = u.request /\ v.left = Tail(u.left)
      BY <2>2, <3>1 DEF Updating
    <3>3. upd'[c] = {v} /\ files'[c] = Put(files[c], Head(u.left))
      BY <1>1, <2>7
    <3> HIDE DEF v
    <3>4. WeightsLegal(files'[c])
      BY <2>2, <3>1, <3>3, PutLegal
    <3>5. Legality'
      BY <1>1, <1>2, <2>7, <3>2, <3>3, <3>4 DEF LimitsInv, Legality
    <3>6. Lowest(c) /\ c \in inhabited => UpTo(files'[c], Writes(v.request), v.left)
      BY <2>3, <2>5, <2>7, <3>2, <3>3, OneMore
    <3>7. Settings(c)'
      BY <1>1, <1>4, <2>4, <2>5a, <2>7, <3>3, <3>6 DEF Settings
    <3> QED
      BY <1>3, <3>5, <3>7 DEF LimitsInv
  <2>8. CASE upd' = [upd EXCEPT ![c] = {}] /\ UNCHANGED <<files, inForce>>
    <3>1. upd'[c] = {}
      BY <1>1, <2>8
    <3>2. Settings(c)'
      BY <1>1, <1>4, <2>4, <2>5a, <2>8, <3>1 DEF Settings
    <3>3. Legality'
      BY <1>1, <1>2, <2>8, <3>1 DEF LimitsInv, Legality
    <3> QED
      BY <1>3, <3>2, <3>3 DEF LimitsInv
  <2> QED
    BY <2>1, <2>6, <2>7, <2>8
<1> QED
  BY <1>5, <1>6

(* A directory is removed when nothing runs in it, and the parent that is  *)
(* removed with it is the cgroup of no unnested container.                 *)
LEMMA RemovalLimits ==
  ASSUME IInv, LimitsInv, NEW c \in Containers, Rmdir(c) \/ RmParent(c)
  PROVE  LimitsInv'
<1>1. /\ UNCHANGED <<config, inhabited, todo, upd, inForce>>
      /\ pc \in [Containers -> Places] /\ DOMAIN files = Containers
      /\ \E to \in {"gone", "rmparent", "left"} : pc' = [pc EXCEPT ![c] = to]
  BY DEF Rmdir, RmParent, Goto, IInv, Types, LimitsInv, Legality
<1>2. WeightsLegal(NoFiles)
  BY DEF WeightsLegal, NoFiles
<1>3. DOMAIN files' = Containers /\ \A e \in Containers : files'[e] = files[e] \/ files'[e] = NoFiles
  BY <1>1 DEF Rmdir, RmParent
<1>4. Legality'
  BY <1>1, <1>2, <1>3 DEF LimitsInv, Legality
<1>5. ASSUME NEW e \in Containers, Lowest(e), files'[e] # files[e] PROVE e = c /\ e \notin inhabited
  <2>1. CASE Rmdir(c)
    <3>1. Removable(Path(c)) /\ e = c
      BY <1>1, <1>5, <2>1 DEF Rmdir
    <3> QED
      BY <3>1 DEF Removable, Populated
  <2>2. CASE RmParent(c)
    <3>1. Path(e) = Parent(Path(c))
      BY <1>1, <1>5, <2>2 DEF RmParent
    <3>2. Path(c) \in Seq(STRING) /\ Path(c) # <<>> /\ Len(Path(c)) \in Nat \ {0}
      BY Paths DEF IInv, Types
    <3>3. Path(c) = Prefix(Path(c), Len(Path(c))) /\ Len(Path(c)) \in 0 .. Len(Path(c))
      BY <3>2, Whole
    <3>4. Path(c) \in Prefixes(Path(c))
      BY <3>3 DEF Prefixes
    <3>5. Path(e) \in Prefixes(Path(c)) /\ Path(e) # Path(c)
      BY <3>1, <3>2, <3>4, Above
    <3> QED
      BY <1>5, <3>5 DEF Lowest
  <2> QED
    BY <2>1, <2>2
<1>6. ASSUME NEW e \in Containers PROVE Settings(e)'
  <2>1. pc'[e] = pc[e] \/ (e = c /\ pc'[e] \in {"gone", "rmparent", "left"})
    BY <1>1
  <2>2. Lowest(e)' <=> Lowest(e)
    BY <1>1 DEF Lowest, Path
  <2>3. CASE files'[e] = files[e]
    BY <1>1, <2>1, <2>3, SettingsStay DEF LimitsInv, Making
  <2>4. CASE files'[e] # files[e]
    BY <1>1, <1>5, <2>1, <2>2, <2>4 DEF LimitsInv, Settings, Making
  <2> QED
    BY <2>3, <2>4
<1> QED
  BY <1>4, <1>6 DEF LimitsInv

(* v2.rs: apply, swap_value, shares_to_weight.  For any containers, paths, *)
(* requests and updates, a running container whose cgroup is not above or  *)
(* below another's has the limits of its last completed request.           *)
THEOREM LimitsKept == Spec => []LimitsHold
<1>1. IInv /\ LimitsInv /\ [Next]_vars => LimitsInv'
  <2> SUFFICES ASSUME IInv, LimitsInv, [Next]_vars PROVE LimitsInv'
    OBVIOUS
  <2>1. ASSUME NEW c \in Containers, Step(c) PROVE LimitsInv'
    BY <2>1, QuietStep, LeafStep, ApplyLimits, AttachLimits, UpdateLimits, RemovalLimits DEF Step
  <2>2. CASE UNCHANGED vars
    <3>1. UNCHANGED <<config, inhabited, files, pc, todo, upd, inForce>>
      BY <2>2 DEF vars, tree
    <3>2. ASSUME NEW e \in Containers PROVE Settings(e)'
      BY <3>1, SettingsStay DEF LimitsInv
    <3> QED
      BY <3>1, <3>2, LegalityKept DEF LimitsInv
  <2> QED
    BY <2>1, <2>2 DEF Next
<1>2. IInv /\ LimitsInv => LimitsHold
  <2> SUFFICES ASSUME IInv, LimitsInv PROVE LimitsHold
    OBVIOUS
  <2>1. ASSUME NEW c \in inhabited, Lowest(c), NEW r \in inForce[c]
        PROVE  Kept(files[c], Writes(r)) /\ TotalKept(files[c], r)
    <3>1. c \in Containers
      BY DEF IInv, Tree
    <3>2. Possible(r) /\ Kept(files[c], Writes(r))
      BY <2>1, <3>1 DEF LimitsInv, Settings
    <3> QED
      BY <3>2, TotalFollows
  <2>2. \A c \in Containers : WeightsLegal(files[c])
    BY DEF LimitsInv, Legality
  <2> QED
    BY <2>1, <2>2 DEF LimitsHold
<1> QED
  BY <1>1, <1>2, InitLimits, Invariant, PTL DEF Spec
=============================================================================
