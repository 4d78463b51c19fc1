-------------------------- MODULE HandshakeProofs --------------------------
(***************************************************************************)
(* Proofs about Handshake for every set of configurations.  The inductive  *)
(* invariant says, for each place of the runtime, where the two children   *)
(* can be and which packets can be on the wire.                            *)
(***************************************************************************)
EXTENDS Handshake, SequenceTheorems, TLAPS

RUM == <<"RequestUserMapping">>
UMD == <<"UserMappingDone">>
IP  == <<"InitPid">>
CA  == <<"CgroupApplied">>
IR  == <<"InitReady">>
F   == <<"Failed">>
IRF == <<"InitReady", "Failed">>

Early   == {"mkdir", "plan", "cgroup", "limits", "fifo", "fork"}
Asking  == {"recvFirst", "recvPid"}
Parking == {"park", "parked"}
Waiting == {"awaitPlaced", "dead"}

(* Nothing has been forked yet.                                            *)
BeforeFork ==
  rt \in Early =>
    /\ inter = "none" /\ init = "none" /\ helper = "none"
    /\ toRt = <<>> /\ toChild = <<>> /\ procs = {}

(* Until the runtime has the init's pid.                                   *)
WhileAsking ==
  /\ rt = "recvFirst" =>
       /\ toChild = <<>>
       /\ \/ init = "none" /\ toRt = <<>> /\ inter \in {"prepare", "fork", "dead"}
          \/ init = "none" /\ toRt = RUM /\ inter \in {"awaitMap", "dead"}
          \/ init = "none" /\ toRt = F /\ inter \in {"exiting", "dead"}
          \/ init \in Waiting /\ toRt = <<>> /\ inter \in {"report", "dead"}
          \/ init \in Waiting /\ toRt = IP /\ inter \in {"exiting", "dead"}
  /\ rt = "map" =>
       init = "none" /\ toRt = <<>> /\ toChild = <<>> /\ inter \in {"awaitMap", "dead"}
  /\ rt = "recvPid" =>
       \/ init = "none" /\ toRt = <<>> /\ toChild = UMD /\ inter \in {"awaitMap", "dead"}
       \/ /\ toChild = <<>>
          /\ \/ init = "none" /\ toRt = <<>> /\ inter \in {"fork", "dead"}
             \/ init = "none" /\ toRt = F /\ inter \in {"exiting", "dead"}
             \/ init \in Waiting /\ toRt = <<>> /\ inter \in {"report", "dead"}
             \/ init \in Waiting /\ toRt = IP /\ inter \in {"exiting", "dead"}
  /\ rt \in {"reap", "attach", "hooks"} =>
       /\ init \in Waiting /\ toRt = <<>> /\ toChild = <<>>
       /\ inter = "dead" \/ (rt = "reap" /\ inter = "exiting")
  /\ rt = "hooks" /\ init = "awaitPlaced" => "init" \in procs

(* Once the init may have been told to go on.                              *)
WhileBuilding ==
  /\ rt = "recvReady" =>
       /\ inter = "dead"
       /\ \/ init = "awaitPlaced" /\ toChild = CA /\ toRt = <<>> /\ "init" \in procs
          \/ init \in Building /\ toChild = <<>> /\ toRt = <<>>
          \/ init \in Parking /\ toChild = <<>> /\ toRt = IR
          \/ init = "exiting" /\ toChild = <<>> /\ toRt \in {F, IRF}
          \/ init = "dead" /\ toChild = CA /\ toRt = <<>>
          \/ init = "dead" /\ toChild = <<>> /\ toRt \in {<<>>, F, IR, IRF}
  /\ rt \in {"save", "pidfile", "ok"} =>
       inter = "dead" /\ init \in Parking \cup {"exiting", "dead"} /\ toChild = <<>>

(* A failed create: no child can be set going any more.                    *)
WhileUndoing ==
  rt \in Undoing =>
    /\ inter \in {"awaitMap", "exiting", "dead", "none"}
    /\ init \notin Building
    /\ inter = "awaitMap" => init = "none" /\ toChild = <<>>
    /\ init = "awaitPlaced" => toChild = <<>>

(* After a crash of the runtime the children act on what is on the wire.   *)
AfterCrash ==
  rt = "crashed" =>
    /\ ~open
    /\ inter \in {"prepare", "fork"} => init = "none" /\ toChild = <<>>
    /\ inter = "report" => init # "none"
    /\ inter = "awaitMap" => init = "none" /\ toChild \in {<<>>, UMD}
    /\ init = "awaitPlaced" =>
         toChild = <<>> \/ (toChild = CA /\ "init" \in procs)

(* Directory, fifo and cgroup are there when they are needed.              *)
Resources ==
  /\ rt \in {"limits", "fifo", "fork", "map", "reap", "attach", "hooks", "recvReady",
             "save", "pidfile", "ok"} \cup Asking => cgroup
  /\ rt \in {"plan", "cgroup", "limits", "fifo", "fork", "map", "reap", "attach", "hooks",
             "recvReady", "save", "pidfile", "ok"} \cup Asking => "dir" \in files
  /\ rt \in {"fork", "map", "reap", "attach", "hooks", "recvReady",
             "save", "pidfile", "ok"} \cup Asking => "fifo" \in files

(* The runtime's end stays open until spawn returns.                       *)
WhileOpen ==
  rt \in Asking \cup {"map", "reap", "attach", "hooks", "recvReady", "save", "pidfile"} => open

(* End-of-file is only ever read because somebody was killed.              *)
EofNeedsKill ==
  /\ \/ rt \in Asking /\ toRt \in {<<>>, RUM}
     \/ rt = "map"
     \/ rt = "recvReady" /\ toRt = <<>>
  /\ inter \in Gone /\ init \in Gone
  => slain

(* What the clean-up has achieved so far.                                  *)
Undone ==
  /\ rt \in {"mkdir", "plan", "cgroup"} => ~cgroup
  /\ rt = "mkdir" \/ rt = "err" => files = {}
  /\ rt = "kill" => procs \subseteq snapshot
  /\ rt \notin {"drain", "destroy", "rmdir", "err", "crashed"} => killed = {}
  /\ rt \in {"drain", "destroy", "rmdir", "err"} => procs \subseteq killed
  /\ rt \in {"rmdir", "err"} /\ ~gaveUp => ~cgroup /\ procs = {}

Protocol ==
  /\ BeforeFork /\ WhileAsking /\ WhileBuilding /\ WhileUndoing /\ AfterCrash /\ Resources
  /\ WhileOpen /\ EofNeedsKill /\ Undone

(* TypeOK in four parts, for the provers: places, sets, wires and flags.   *)
TypePcs ==
  /\ config \in Configs
  /\ rt \in Early \cup Asking \cup {"map", "reap", "attach", "hooks", "recvReady", "save",
                                    "pidfile"} \cup Undoing \cup Final
  /\ inter \in {"prepare", "awaitMap", "fork", "report", "exiting"} \cup Gone
  /\ init \in {"awaitPlaced", "park", "parked", "exiting"} \cup Building \cup Gone
  /\ helper \in {"running"} \cup Gone
  /\ reason \in {"none", "local", "reported", "closed"}

TypeSets ==
  /\ procs \subseteq {"init", "helper"}
  /\ snapshot \subseteq {"init", "helper"} /\ killed \subseteq {"init", "helper"}
  /\ files \subseteq {"dir", "fifo", "state"}

TypeWires == toRt \in Seq(Packets) /\ toChild \in Seq(Packets)

TypePlaces == TypePcs /\ TypeSets /\ TypeWires

TypeFlags ==
  /\ open \in BOOLEAN /\ cgroup \in BOOLEAN /\ slain \in BOOLEAN
  /\ gaveUp \in BOOLEAN /\ confused \in BOOLEAN

Safe == PlacedBeforeWork /\ NeverConfused /\ ClosedMeansKilled

IInv == TypePlaces /\ TypeFlags /\ Protocol /\ Safe

-----------------------------------------------------------------------------
(* Appending to a queue of one packet.                                     *)
LEMMA AppendToOne == ASSUME NEW m, NEW n PROVE Append(<<m>>, n) = <<m, n>>
<1>1. <<m>> \in Seq({m, n}) /\ Len(<<m>>) = 1
  OBVIOUS
<1>2. <<m, n>> \in Seq({m, n}) /\ Len(<<m, n>>) = 2
  OBVIOUS
<1>3. Append(<<m>>, n) \in Seq({m, n}) /\ Len(Append(<<m>>, n)) = 2
  BY <1>1
<1>4. Append(<<m>>, n)[1] = m /\ Append(<<m>>, n)[2] = n
  BY <1>1
<1>5. \A i \in 1..2 : Append(<<m>>, n)[i] = <<m, n>>[i]
  BY <1>4
<1> QED
  BY <1>2, <1>3, <1>5, SeqEqual

(* Sending and receiving on the few queues that occur.                     *)
LEMMA Queues ==
  /\ Append(<<>>, "RequestUserMapping") = RUM /\ Append(<<>>, "UserMappingDone") = UMD
  /\ Append(<<>>, "InitPid") = IP /\ Append(<<>>, "CgroupApplied") = CA
  /\ Append(<<>>, "InitReady") = IR /\ Append(<<>>, "Failed") = F
  /\ Append(IR, "Failed") = IRF
  /\ Head(RUM) = "RequestUserMapping" /\ Head(UMD) = "UserMappingDone"
  /\ Head(IP) = "InitPid" /\ Head(CA) = "CgroupApplied" /\ Head(F) = "Failed"
  /\ Head(IR) = "InitReady" /\ Head(IRF) = "InitReady"
  /\ Tail(RUM) = <<>> /\ Tail(UMD) = <<>> /\ Tail(IP) = <<>> /\ Tail(CA) = <<>>
  /\ Tail(F) = <<>> /\ Tail(IR) = <<>> /\ Tail(IRF) = F
<1>1. \A m : Append(<<>>, m) = <<m>>
  OBVIOUS
<1>2. \A m : Head(<<m>>) = m /\ Tail(<<m>>) = <<>>
  OBVIOUS
<1>3. \A m, n : Head(<<m, n>>) = m /\ Tail(<<m, n>>) = <<n>>
  OBVIOUS
<1> QED
  BY <1>1, <1>2, <1>3, AppendToOne DEF RUM, UMD, IP, CA, IR, F, IRF

(* None of the queues written out is the empty one.                        *)
LEMMA NonEmpty ==
  /\ RUM # <<>> /\ UMD # <<>> /\ IP # <<>> /\ CA # <<>> /\ IR # <<>> /\ F # <<>> /\ IRF # <<>>
  /\ RUM # F /\ RUM # IP /\ RUM # IR /\ RUM # IRF /\ UMD # CA
<1>1. /\ \A m : <<m>> # <<>>
      /\ \A m, n : <<m, n>> # <<>>
      /\ \A m, n : m # n => <<m>> # <<n>>
      /\ \A m, n, k : <<m, n>> # <<k>>
  OBVIOUS
<1> QED
  BY <1>1 DEF RUM, UMD, IP, CA, IR, F, IRF

(* Each of the queues that occur is a sequence of packets.                 *)
LEMMA QueueType ==
  ASSUME NEW q \in Seq(Packets)
  PROVE  /\ q # <<>> => Tail(q) \in Seq(Packets)
         /\ \A m \in Packets : Append(q, m) \in Seq(Packets)
  OBVIOUS

-----------------------------------------------------------------------------
(* Every step keeps the types, whatever the rest of the invariant says.    *)
(* The types, kept by RtStep. *)
LEMMA RtTypes == ASSUME TypePlaces, TypeFlags, RtStep PROVE TypePlaces' /\ TypeFlags'
<1> USE DEF TypePlaces, Early, Asking, Building, Gone, Undoing, Final, rtOwn, kids, wires, group
<1>1. CASE RtMkdir
  <2> USE <1>1 DEF RtMkdir, RtFails
  <2>1. TypePcs'
    BY DEF TypePcs
  <2>2. TypeSets'
    BY DEF TypeSets
  <2>3. TypeWires'
    BY QueueType DEF TypeWires, Packets
  <2>4. TypeFlags'
    BY DEF TypeFlags
  <2> QED
    BY <2>1, <2>2, <2>3, <2>4
<1>2. CASE RtPlan
  <2> USE <1>2 DEF RtPlan, RtFails
  <2>1. TypePcs'
    BY DEF TypePcs
  <2>2. TypeSets'
    BY DEF TypeSets
  <2>3. TypeWires'
    BY QueueType DEF TypeWires, Packets
  <2>4. TypeFlags'
    BY DEF TypeFlags
  <2> QED
    BY <2>1, <2>2, <2>3, <2>4
<1>3. CASE RtCgroup
  <2> USE <1>3 DEF RtCgroup, RtFails
  <2>1. TypePcs'
    BY DEF TypePcs
  <2>2. TypeSets'
    BY DEF TypeSets
  <2>3. TypeWires'
    BY QueueType DEF TypeWires, Packets
  <2>4. TypeFlags'
    BY DEF TypeFlags
  <2> QED
    BY <2>1, <2>2, <2>3, <2>4
<1>4. CASE RtLimits
  <2> USE <1>4 DEF RtLimits, RtFails
  <2>1. TypePcs'
    BY DEF TypePcs
  <2>2. TypeSets'
    BY DEF TypeSets
  <2>3. TypeWires'
    BY QueueType DEF TypeWires, Packets
  <2>4. TypeFlags'
    BY DEF TypeFlags
  <2> QED
    BY <2>1, <2>2, <2>3, <2>4
<1>5. CASE RtFifo
  <2> USE <1>5 DEF RtFifo, RtFails
  <2>1. TypePcs'
    BY DEF TypePcs
  <2>2. TypeSets'
    BY DEF TypeSets
  <2>3. TypeWires'
    BY QueueType DEF TypeWires, Packets
  <2>4. TypeFlags'
    BY DEF TypeFlags
  <2> QED
    BY <2>1, <2>2, <2>3, <2>4
<1>6. CASE RtFork
  <2> USE <1>6 DEF RtFork, RtFails
  <2>1. TypePcs'
    BY DEF TypePcs
  <2>2. TypeSets'
    BY DEF TypeSets
  <2>3. TypeWires'
    BY QueueType DEF TypeWires, Packets
  <2>4. TypeFlags'
    BY DEF TypeFlags
  <2> QED
    BY <2>1, <2>2, <2>3, <2>4
<1>7. CASE RtRecvPid
  <2> USE <1>7 DEF RtRecvPid, RtFails
  <2>1. TypePcs'
    BY DEF TypePcs
  <2>2. TypeSets'
    BY DEF TypeSets
  <2>3. TypeWires'
    BY QueueType DEF TypeWires, Packets
  <2>4. TypeFlags'
    BY DEF TypeFlags
  <2> QED
    BY <2>1, <2>2, <2>3, <2>4
<1>8. CASE RtEof
  <2> USE <1>8 DEF RtEof, ChildEnd
  <2>1. TypePcs'
    BY DEF TypePcs
  <2>2. TypeSets'
    BY DEF TypeSets
  <2>3. TypeWires'
    BY QueueType DEF TypeWires, Packets
  <2>4. TypeFlags'
    BY DEF TypeFlags
  <2> QED
    BY <2>1, <2>2, <2>3, <2>4
<1>9. CASE RtMap
  <2> USE <1>9 DEF RtMap, RtFails
  <2>1. TypePcs'
    BY DEF TypePcs
  <2>2. TypeSets'
    BY DEF TypeSets
  <2>3. TypeWires'
    BY QueueType DEF TypeWires, Packets
  <2>4. TypeFlags'
    BY DEF TypeFlags
  <2> QED
    BY <2>1, <2>2, <2>3, <2>4
<1>10. CASE RtReap
  <2> USE <1>10 DEF RtReap
  <2>1. TypePcs'
    BY DEF TypePcs
  <2>2. TypeSets'
    BY DEF TypeSets
  <2>3. TypeWires'
    BY QueueType DEF TypeWires, Packets
  <2>4. TypeFlags'
    BY DEF TypeFlags
  <2> QED
    BY <2>1, <2>2, <2>3, <2>4
<1>11. CASE RtAttach
  <2> USE <1>11 DEF RtAttach, Placed, RtFails
  <2>1. TypePcs'
    BY DEF TypePcs
  <2>2. TypeSets'
    BY DEF TypeSets
  <2>3. TypeWires'
    BY QueueType DEF TypeWires, Packets
  <2>4. TypeFlags'
    BY DEF TypeFlags
  <2> QED
    BY <2>1, <2>2, <2>3, <2>4
<1>12. CASE RtHooks
  <2> USE <1>12 DEF RtHooks, ChildEnd, RtFails
  <2>1. TypePcs'
    BY DEF TypePcs
  <2>2. TypeSets'
    BY DEF TypeSets
  <2>3. TypeWires'
    BY QueueType DEF TypeWires, Packets
  <2>4. TypeFlags'
    BY DEF TypeFlags
  <2> QED
    BY <2>1, <2>2, <2>3, <2>4
<1>13. CASE RtRecvReady
  <2> USE <1>13 DEF RtRecvReady, RtFails
  <2>1. TypePcs'
    BY DEF TypePcs
  <2>2. TypeSets'
    BY DEF TypeSets
  <2>3. TypeWires'
    BY QueueType DEF TypeWires, Packets
  <2>4. TypeFlags'
    BY DEF TypeFlags
  <2> QED
    BY <2>1, <2>2, <2>3, <2>4
<1>14. CASE RtSave
  <2> USE <1>14 DEF RtSave, RtFails
  <2>1. TypePcs'
    BY DEF TypePcs
  <2>2. TypeSets'
    BY DEF TypeSets
  <2>3. TypeWires'
    BY QueueType DEF TypeWires, Packets
  <2>4. TypeFlags'
    BY DEF TypeFlags
  <2> QED
    BY <2>1, <2>2, <2>3, <2>4
<1>15. CASE RtPidFile
  <2> USE <1>15 DEF RtPidFile, RtFails
  <2>1. TypePcs'
    BY DEF TypePcs
  <2>2. TypeSets'
    BY DEF TypeSets
  <2>3. TypeWires'
    BY QueueType DEF TypeWires, Packets
  <2>4. TypeFlags'
    BY DEF TypeFlags
  <2> QED
    BY <2>1, <2>2, <2>3, <2>4
<1>16. CASE RtUndo
  <2> USE <1>16 DEF RtUndo, TeardownReads
  <2>1. TypePcs'
    BY DEF TypePcs
  <2>2. TypeSets'
    BY DEF TypeSets
  <2>3. TypeWires'
    BY QueueType DEF TypeWires, Packets
  <2>4. TypeFlags'
    BY DEF TypeFlags
  <2> QED
    BY <2>1, <2>2, <2>3, <2>4
<1>17. CASE RtKill
  <2> USE <1>17 DEF RtKill
  <2>1. TypePcs'
    BY DEF TypePcs
  <2>2. TypeSets'
    BY DEF TypeSets
  <2>3. TypeWires'
    BY QueueType DEF TypeWires, Packets
  <2>4. TypeFlags'
    BY DEF TypeFlags
  <2> QED
    BY <2>1, <2>2, <2>3, <2>4
<1>18. CASE RtDrain
  <2> USE <1>18 DEF RtDrain, EndAfterSpawn
  <2>1. TypePcs'
    BY DEF TypePcs
  <2>2. TypeSets'
    BY DEF TypeSets
  <2>3. TypeWires'
    BY QueueType DEF TypeWires, Packets
  <2>4. TypeFlags'
    BY DEF TypeFlags
  <2> QED
    BY <2>1, <2>2, <2>3, <2>4
<1>19. CASE RtDestroy
  <2> USE <1>19 DEF RtDestroy
  <2>1. TypePcs'
    BY DEF TypePcs
  <2>2. TypeSets'
    BY DEF TypeSets
  <2>3. TypeWires'
    BY QueueType DEF TypeWires, Packets
  <2>4. TypeFlags'
    BY DEF TypeFlags
  <2> QED
    BY <2>1, <2>2, <2>3, <2>4
<1>20. CASE RtRmdir
  <2> USE <1>20 DEF RtRmdir
  <2>1. TypePcs'
    BY DEF TypePcs
  <2>2. TypeSets'
    BY DEF TypeSets
  <2>3. TypeWires'
    BY QueueType DEF TypeWires, Packets
  <2>4. TypeFlags'
    BY DEF TypeFlags
  <2> QED
    BY <2>1, <2>2, <2>3, <2>4
<1> QED
  BY <1>1, <1>2, <1>3, <1>4, <1>5, <1>6, <1>7, <1>8, <1>9, <1>10, <1>11, <1>12, <1>13, <1>14, <1>15, <1>16, <1>17, <1>18, <1>19, <1>20 DEF RtStep

(* The types, kept by InterStep. *)
LEMMA InterTypes == ASSUME TypePlaces, TypeFlags, InterStep PROVE TypePlaces' /\ TypeFlags'
<1> USE DEF TypePlaces, Early, Asking, Building, Gone, Undoing, Final, rtOwn, kids, wires, group
<1>1. CASE InterPrepare
  <2> USE <1>1 DEF InterPrepare, AfterRequest, SendUp
  <2>1. TypePcs'
    BY DEF TypePcs
  <2>2. TypeSets'
    BY DEF TypeSets
  <2>3. TypeWires'
    BY QueueType DEF TypeWires, Packets
  <2>4. TypeFlags'
    BY DEF TypeFlags
  <2> QED
    BY <2>1, <2>2, <2>3, <2>4
<1>2. CASE InterRecvMap
  <2> USE <1>2 DEF InterRecvMap, ReportFailure, SendUp, RuntimeGone
  <2>1. TypePcs'
    BY DEF TypePcs
  <2>2. TypeSets'
    BY DEF TypeSets
  <2>3. TypeWires'
    BY QueueType DEF TypeWires, Packets
  <2>4. TypeFlags'
    BY DEF TypeFlags
  <2> QED
    BY <2>1, <2>2, <2>3, <2>4
<1>3. CASE InterFork
  <2> USE <1>3 DEF InterFork
  <2>1. TypePcs'
    BY DEF TypePcs
  <2>2. TypeSets'
    BY DEF TypeSets
  <2>3. TypeWires'
    BY QueueType DEF TypeWires, Packets
  <2>4. TypeFlags'
    BY DEF TypeFlags
  <2> QED
    BY <2>1, <2>2, <2>3, <2>4
<1>4. CASE InterReport
  <2> USE <1>4 DEF InterReport, SendUp
  <2>1. TypePcs'
    BY DEF TypePcs
  <2>2. TypeSets'
    BY DEF TypeSets
  <2>3. TypeWires'
    BY QueueType DEF TypeWires, Packets
  <2>4. TypeFlags'
    BY DEF TypeFlags
  <2> QED
    BY <2>1, <2>2, <2>3, <2>4
<1>5. CASE InterFail
  <2> USE <1>5 DEF InterFail, ReportFailure, SendUp
  <2>1. TypePcs'
    BY DEF TypePcs
  <2>2. TypeSets'
    BY DEF TypeSets
  <2>3. TypeWires'
    BY QueueType DEF TypeWires, Packets
  <2>4. TypeFlags'
    BY DEF TypeFlags
  <2> QED
    BY <2>1, <2>2, <2>3, <2>4
<1>6. CASE InterExit
  <2> USE <1>6 DEF InterExit
  <2>1. TypePcs'
    BY DEF TypePcs
  <2>2. TypeSets'
    BY DEF TypeSets
  <2>3. TypeWires'
    BY QueueType DEF TypeWires, Packets
  <2>4. TypeFlags'
    BY DEF TypeFlags
  <2> QED
    BY <2>1, <2>2, <2>3, <2>4
<1> QED
  BY <1>1, <1>2, <1>3, <1>4, <1>5, <1>6 DEF InterStep

(* The types, kept by InitStep. *)
LEMMA InitTypes == ASSUME TypePlaces, TypeFlags, InitStep PROVE TypePlaces' /\ TypeFlags'
<1> USE DEF TypePlaces, Early, Asking, Building, Gone, Undoing, Final, rtOwn, kids, wires, group
<1>1. CASE InitRecv
  <2> USE <1>1 DEF InitRecv, ReportFailure, SendUp, RuntimeGone
  <2>1. TypePcs'
    BY DEF TypePcs
  <2>2. TypeSets'
    BY DEF TypeSets
  <2>3. TypeWires'
    BY QueueType DEF TypeWires, Packets
  <2>4. TypeFlags'
    BY DEF TypeFlags
  <2> QED
    BY <2>1, <2>2, <2>3, <2>4
<1>2. CASE InitBuild
  <2> USE <1>2 DEF InitBuild
  <2>1. TypePcs'
    BY DEF TypePcs
  <2>2. TypeSets'
    BY DEF TypeSets
  <2>3. TypeWires'
    BY QueueType DEF TypeWires, Packets
  <2>4. TypeFlags'
    BY DEF TypeFlags
  <2> QED
    BY <2>1, <2>2, <2>3, <2>4
<1>3. CASE InitHookDone
  <2> USE <1>3 DEF InitHookDone
  <2>1. TypePcs'
    BY DEF TypePcs
  <2>2. TypeSets'
    BY DEF TypeSets
  <2>3. TypeWires'
    BY QueueType DEF TypeWires, Packets
  <2>4. TypeFlags'
    BY DEF TypeFlags
  <2> QED
    BY <2>1, <2>2, <2>3, <2>4
<1>4. CASE InitReady
  <2> USE <1>4 DEF InitReady, SendUp
  <2>1. TypePcs'
    BY DEF TypePcs
  <2>2. TypeSets'
    BY DEF TypeSets
  <2>3. TypeWires'
    BY QueueType DEF TypeWires, Packets
  <2>4. TypeFlags'
    BY DEF TypeFlags
  <2> QED
    BY <2>1, <2>2, <2>3, <2>4
<1>5. CASE InitPark
  <2> USE <1>5 DEF InitPark
  <2>1. TypePcs'
    BY DEF TypePcs
  <2>2. TypeSets'
    BY DEF TypeSets
  <2>3. TypeWires'
    BY QueueType DEF TypeWires, Packets
  <2>4. TypeFlags'
    BY DEF TypeFlags
  <2> QED
    BY <2>1, <2>2, <2>3, <2>4
<1>6. CASE InitFail
  <2> USE <1>6 DEF InitFail, ReportFailure, SendUp
  <2>1. TypePcs'
    BY DEF TypePcs
  <2>2. TypeSets'
    BY DEF TypeSets
  <2>3. TypeWires'
    BY QueueType DEF TypeWires, Packets
  <2>4. TypeFlags'
    BY DEF TypeFlags
  <2> QED
    BY <2>1, <2>2, <2>3, <2>4
<1>7. CASE InitExit
  <2> USE <1>7 DEF InitExit
  <2>1. procs' \subseteq procs /\ helper' \in {helper, "dead"} /\ init' = "dead"
    BY DEF InitGone
  <2>2. TypePcs'
    BY <2>1 DEF TypePcs
  <2>3. TypeSets'
    BY <2>1 DEF TypeSets
  <2>4. TypeWires'
    BY DEF TypeWires
  <2>5. TypeFlags'
    BY DEF TypeFlags
  <2> QED
    BY <2>2, <2>3, <2>4, <2>5
<1> QED
  BY <1>1, <1>2, <1>3, <1>4, <1>5, <1>6, <1>7 DEF InitStep

Outside == HelperExit \/ RtCrash \/ SlayInter \/ SlayInit

(* The types, kept by Outside. *)
LEMMA OutsideTypes == ASSUME TypePlaces, TypeFlags, Outside PROVE TypePlaces' /\ TypeFlags'
<1> USE DEF TypePlaces, Early, Asking, Building, Gone, Undoing, Final, rtOwn, kids, wires, group
<1>1. CASE HelperExit
  <2> USE <1>1 DEF HelperExit
  <2>1. TypePcs'
    BY DEF TypePcs
  <2>2. TypeSets'
    BY DEF TypeSets
  <2>3. TypeWires'
    BY QueueType DEF TypeWires, Packets
  <2>4. TypeFlags'
    BY DEF TypeFlags
  <2> QED
    BY <2>1, <2>2, <2>3, <2>4
<1>2. CASE RtCrash
  <2> USE <1>2 DEF RtCrash
  <2>1. TypePcs'
    BY DEF TypePcs
  <2>2. TypeSets'
    BY DEF TypeSets
  <2>3. TypeWires'
    BY QueueType DEF TypeWires, Packets
  <2>4. TypeFlags'
    BY DEF TypeFlags
  <2> QED
    BY <2>1, <2>2, <2>3, <2>4
<1>3. CASE SlayInter
  <2> USE <1>3 DEF SlayInter
  <2>1. TypePcs'
    BY DEF TypePcs
  <2>2. TypeSets'
    BY DEF TypeSets
  <2>3. TypeWires'
    BY QueueType DEF TypeWires, Packets
  <2>4. TypeFlags'
    BY DEF TypeFlags
  <2> QED
    BY <2>1, <2>2, <2>3, <2>4
<1>4. CASE SlayInit
  <2> USE <1>4 DEF SlayInit
  <2>1. procs' \subseteq procs /\ helper' \in {helper, "dead"} /\ init' = "dead"
    BY DEF InitGone
  <2>2. TypePcs'
    BY <2>1 DEF TypePcs
  <2>3. TypeSets'
    BY <2>1 DEF TypeSets
  <2>4. TypeWires'
    BY DEF TypeWires
  <2>5. TypeFlags'
    BY DEF TypeFlags
  <2> QED
    BY <2>2, <2>3, <2>4, <2>5
<1> QED
  BY <1>1, <1>2, <1>3, <1>4 DEF Outside

-----------------------------------------------------------------------------
(* The initial states satisfy the invariant.                               *)
LEMMA InitIInv == Init => IInv
<1> SUFFICES ASSUME Init PROVE IInv
  OBVIOUS
<1> USE DEF Init, Protocol, Safe, BeforeFork, WhileAsking, WhileBuilding,
             WhileUndoing, AfterCrash, Resources, WhileOpen, EofNeedsKill, Undone,
             PlacedBeforeWork, NeverConfused, ClosedMeansKilled, Early, Asking, Building, Gone,
             Undoing, Packets, Final, Waiting, Parking
<1>1. TypePlaces
  BY DEF TypePlaces, TypePcs, TypeSets, TypeWires
<1>2. TypeFlags
  BY DEF TypeFlags
<1>3. Protocol /\ Safe
  OBVIOUS
<1> QED
  BY <1>1, <1>2, <1>3 DEF IInv

(* The steps of the runtime keep the invariant, one case per action.       *)
LEMMA RtStepIInv == IInv /\ RtStep => IInv'
<1> SUFFICES ASSUME IInv, RtStep PROVE IInv'
  OBVIOUS
<1>0. TypePlaces' /\ TypeFlags'
  BY RtTypes DEF IInv
<1> USE Queues, NonEmpty, QueueType, ConfigAssumption
    DEF IInv, TypePlaces, TypeSets, TypeWires, Protocol, Safe, BeforeFork, WhileAsking, WhileBuilding,
             WhileUndoing, AfterCrash, Resources, WhileOpen, EofNeedsKill, Undone,
             PlacedBeforeWork, NeverConfused, ClosedMeansKilled, Early, Asking, Building, Gone,
             Undoing, Packets, Final, Waiting, Parking, rtOwn, kids, wires, group
<1>1. CASE RtMkdir
  <2> USE <1>1 DEF RtMkdir, RtFails
  <2>1. (Protocol /\ Safe)'
    BY DEF TypeFlags
  <2> HIDE DEF TypePlaces, BeforeFork, WhileAsking, WhileBuilding, WhileUndoing, AfterCrash,
               Resources, WhileOpen, EofNeedsKill, Undone, PlacedBeforeWork, NeverConfused,
               ClosedMeansKilled
  <2> QED
    BY <1>0, <2>1
<1>2. CASE RtPlan
  <2> USE <1>2 DEF RtPlan, RtFails
  <2>1. (Protocol /\ Safe)'
    BY DEF TypeFlags
  <2> HIDE DEF TypePlaces, BeforeFork, WhileAsking, WhileBuilding, WhileUndoing, AfterCrash,
               Resources, WhileOpen, EofNeedsKill, Undone, PlacedBeforeWork, NeverConfused,
               ClosedMeansKilled
  <2> QED
    BY <1>0, <2>1
<1>3. CASE RtCgroup
  <2> USE <1>3 DEF RtCgroup, RtFails
  <2>1. (Protocol /\ Safe)'
    BY DEF TypeFlags
  <2> HIDE DEF TypePlaces, BeforeFork, WhileAsking, WhileBuilding, WhileUndoing, AfterCrash,
               Resources, WhileOpen, EofNeedsKill, Undone, PlacedBeforeWork, NeverConfused,
               ClosedMeansKilled
  <2> QED
    BY <1>0, <2>1
<1>4. CASE RtLimits
  <2> USE <1>4 DEF RtLimits, RtFails
  <2>1. (Protocol /\ Safe)'
    BY DEF TypeFlags
  <2> HIDE DEF TypePlaces, BeforeFork, WhileAsking, WhileBuilding, WhileUndoing, AfterCrash,
               Resources, WhileOpen, EofNeedsKill, Undone, PlacedBeforeWork, NeverConfused,
               ClosedMeansKilled
  <2> QED
    BY <1>0, <2>1
<1>5. CASE RtFifo
  <2> USE <1>5 DEF RtFifo, RtFails
  <2>1. (Protocol /\ Safe)'
    BY DEF TypeFlags
  <2> HIDE DEF TypePlaces, BeforeFork, WhileAsking, WhileBuilding, WhileUndoing, AfterCrash,
               Resources, WhileOpen, EofNeedsKill, Undone, PlacedBeforeWork, NeverConfused,
               ClosedMeansKilled
  <2> QED
    BY <1>0, <2>1
<1>6. CASE RtFork
  <2> USE <1>6 DEF RtFork, RtFails
  <2>1. (Protocol /\ Safe)'
    BY DEF TypeFlags
  <2> HIDE DEF TypePlaces, BeforeFork, WhileAsking, WhileBuilding, WhileUndoing, AfterCrash,
               Resources, WhileOpen, EofNeedsKill, Undone, PlacedBeforeWork, NeverConfused,
               ClosedMeansKilled
  <2> QED
    BY <1>0, <2>1
<1>7. CASE RtRecvPid
  <2> USE <1>7 DEF RtRecvPid, RtFails
  <2>1. (BeforeFork /\ WhileAsking)'
    BY DEF TypeFlags
  <2>2. (WhileBuilding /\ WhileUndoing)'
    BY DEF TypeFlags
  <2>3. (AfterCrash /\ Resources /\ WhileOpen)'
    BY DEF TypeFlags
  <2>4. EofNeedsKill'
    BY DEF TypeFlags
  <2>5. Undone'
    BY DEF TypeFlags
  <2>6. Safe'
    <3>1. NeverConfused'
      BY DEF TypeFlags
    <3>2. PlacedBeforeWork'
      BY DEF TypeFlags
    <3>3. ClosedMeansKilled'
      BY DEF TypeFlags
    <3> QED
      BY <3>1, <3>2, <3>3
  <2> HIDE DEF TypePlaces, BeforeFork, WhileAsking, WhileBuilding, WhileUndoing, AfterCrash,
               Resources, WhileOpen, EofNeedsKill, Undone, PlacedBeforeWork, NeverConfused,
               ClosedMeansKilled
  <2> QED
    BY <1>0, <2>1, <2>2, <2>3, <2>4, <2>5, <2>6
<1>8. CASE RtEof
  <2> USE <1>8 DEF RtEof, ChildEnd
  <2>1. (Protocol /\ Safe)'
    BY DEF TypeFlags
  <2> HIDE DEF TypePlaces, BeforeFork, WhileAsking, WhileBuilding, WhileUndoing, AfterCrash,
               Resources, WhileOpen, EofNeedsKill, Undone, PlacedBeforeWork, NeverConfused,
               ClosedMeansKilled
  <2> QED
    BY <1>0, <2>1
<1>9. CASE RtMap
  <2> USE <1>9 DEF RtMap, RtFails
  <2>1. (Protocol /\ Safe)'
    BY DEF TypeFlags
  <2> HIDE DEF TypePlaces, BeforeFork, WhileAsking, WhileBuilding, WhileUndoing, AfterCrash,
               Resources, WhileOpen, EofNeedsKill, Undone, PlacedBeforeWork, NeverConfused,
               ClosedMeansKilled
  <2> QED
    BY <1>0, <2>1
<1>10. CASE RtReap
  <2> USE <1>10 DEF RtReap
  <2>1. (Protocol /\ Safe)'
    BY DEF TypeFlags
  <2> HIDE DEF TypePlaces, BeforeFork, WhileAsking, WhileBuilding, WhileUndoing, AfterCrash,
               Resources, WhileOpen, EofNeedsKill, Undone, PlacedBeforeWork, NeverConfused,
               ClosedMeansKilled
  <2> QED
    BY <1>0, <2>1
<1>11. CASE RtAttach
  <2> USE <1>11 DEF RtAttach, Placed, RtFails
  <2>1. (Protocol /\ Safe)'
    BY DEF TypeFlags
  <2> HIDE DEF TypePlaces, BeforeFork, WhileAsking, WhileBuilding, WhileUndoing, AfterCrash,
               Resources, WhileOpen, EofNeedsKill, Undone, PlacedBeforeWork, NeverConfused,
               ClosedMeansKilled
  <2> QED
    BY <1>0, <2>1
<1>12. CASE RtHooks
  <2> USE <1>12 DEF RtHooks, ChildEnd, RtFails
  <2>1. (Protocol /\ Safe)'
    BY DEF TypeFlags
  <2> HIDE DEF TypePlaces, BeforeFork, WhileAsking, WhileBuilding, WhileUndoing, AfterCrash,
               Resources, WhileOpen, EofNeedsKill, Undone, PlacedBeforeWork, NeverConfused,
               ClosedMeansKilled
  <2> QED
    BY <1>0, <2>1
<1>13. CASE RtRecvReady
  <2> USE <1>13 DEF RtRecvReady, RtFails
  <2>1. (BeforeFork /\ WhileAsking)'
    BY DEF TypeFlags
  <2>2. (WhileBuilding /\ WhileUndoing)'
    BY DEF TypeFlags
  <2>3. (AfterCrash /\ Resources /\ WhileOpen)'
    BY DEF TypeFlags
  <2>4. EofNeedsKill'
    BY DEF TypeFlags
  <2>5. Undone'
    BY DEF TypeFlags
  <2>6. Safe'
    <3>1. NeverConfused'
      BY DEF TypeFlags
    <3>2. PlacedBeforeWork'
      BY DEF TypeFlags
    <3>3. ClosedMeansKilled'
      BY DEF TypeFlags
    <3> QED
      BY <3>1, <3>2, <3>3
  <2> HIDE DEF TypePlaces, BeforeFork, WhileAsking, WhileBuilding, WhileUndoing, AfterCrash,
               Resources, WhileOpen, EofNeedsKill, Undone, PlacedBeforeWork, NeverConfused,
               ClosedMeansKilled
  <2> QED
    BY <1>0, <2>1, <2>2, <2>3, <2>4, <2>5, <2>6
<1>14. CASE RtSave
  <2> USE <1>14 DEF RtSave, RtFails
  <2>1. (Protocol /\ Safe)'
    BY DEF TypeFlags
  <2> HIDE DEF TypePlaces, BeforeFork, WhileAsking, WhileBuilding, WhileUndoing, AfterCrash,
               Resources, WhileOpen, EofNeedsKill, Undone, PlacedBeforeWork, NeverConfused,
               ClosedMeansKilled
  <2> QED
    BY <1>0, <2>1
<1>15. CASE RtPidFile
  <2> USE <1>15 DEF RtPidFile, RtFails
  <2>1. (Protocol /\ Safe)'
    BY DEF TypeFlags
  <2> HIDE DEF TypePlaces, BeforeFork, WhileAsking, WhileBuilding, WhileUndoing, AfterCrash,
               Resources, WhileOpen, EofNeedsKill, Undone, PlacedBeforeWork, NeverConfused,
               ClosedMeansKilled
  <2> QED
    BY <1>0, <2>1
<1>16. CASE RtUndo
  <2> USE <1>16 DEF RtUndo, TeardownReads
  <2>1. (Protocol /\ Safe)'
    BY DEF TypeFlags
  <2> HIDE DEF TypePlaces, BeforeFork, WhileAsking, WhileBuilding, WhileUndoing, AfterCrash,
               Resources, WhileOpen, EofNeedsKill, Undone, PlacedBeforeWork, NeverConfused,
               ClosedMeansKilled
  <2> QED
    BY <1>0, <2>1
<1>17. CASE RtKill
  <2> USE <1>17 DEF RtKill
  <2>1. (Protocol /\ Safe)'
    BY DEF TypeFlags
  <2> HIDE DEF TypePlaces, BeforeFork, WhileAsking, WhileBuilding, WhileUndoing, AfterCrash,
               Resources, WhileOpen, EofNeedsKill, Undone, PlacedBeforeWork, NeverConfused,
               ClosedMeansKilled
  <2> QED
    BY <1>0, <2>1
<1>18. CASE RtDrain
  <2> USE <1>18 DEF RtDrain, EndAfterSpawn
  <2>1. (Protocol /\ Safe)'
    BY DEF TypeFlags
  <2> HIDE DEF TypePlaces, BeforeFork, WhileAsking, WhileBuilding, WhileUndoing, AfterCrash,
               Resources, WhileOpen, EofNeedsKill, Undone, PlacedBeforeWork, NeverConfused,
               ClosedMeansKilled
  <2> QED
    BY <1>0, <2>1
<1>19. CASE RtDestroy
  <2> USE <1>19 DEF RtDestroy
  <2>1. (Protocol /\ Safe)'
    BY DEF TypeFlags
  <2> HIDE DEF TypePlaces, BeforeFork, WhileAsking, WhileBuilding, WhileUndoing, AfterCrash,
               Resources, WhileOpen, EofNeedsKill, Undone, PlacedBeforeWork, NeverConfused,
               ClosedMeansKilled
  <2> QED
    BY <1>0, <2>1
<1>20. CASE RtRmdir
  <2> USE <1>20 DEF RtRmdir
  <2>1. (Protocol /\ Safe)'
    BY DEF TypeFlags
  <2> HIDE DEF TypePlaces, BeforeFork, WhileAsking, WhileBuilding, WhileUndoing, AfterCrash,
               Resources, WhileOpen, EofNeedsKill, Undone, PlacedBeforeWork, NeverConfused,
               ClosedMeansKilled
  <2> QED
    BY <1>0, <2>1
<1> QED
  BY <1>1, <1>2, <1>3, <1>4, <1>5, <1>6, <1>7, <1>8, <1>9, <1>10, <1>11, <1>12, <1>13, <1>14, <1>15, <1>16, <1>17, <1>18, <1>19, <1>20 DEF RtStep

(* The steps of the intermediate keep it.                                  *)
LEMMA InterStepIInv == IInv /\ InterStep => IInv'
<1> SUFFICES ASSUME IInv, InterStep PROVE IInv'
  OBVIOUS
<1>0. TypePlaces' /\ TypeFlags'
  BY InterTypes DEF IInv
<1> USE Queues, NonEmpty, QueueType, ConfigAssumption
    DEF IInv, TypePlaces, TypeSets, TypeWires, Protocol, Safe, BeforeFork, WhileAsking, WhileBuilding,
             WhileUndoing, AfterCrash, Resources, WhileOpen, EofNeedsKill, Undone,
             PlacedBeforeWork, NeverConfused, ClosedMeansKilled, Early, Asking, Building, Gone,
             Undoing, Packets, Final, Waiting, Parking, rtOwn, kids, wires, group
<1>1. CASE InterPrepare
  <2> USE <1>1 DEF InterPrepare, AfterRequest, SendUp
  <2>1. (Protocol /\ Safe)'
    BY DEF TypeFlags
  <2> HIDE DEF TypePlaces, BeforeFork, WhileAsking, WhileBuilding, WhileUndoing, AfterCrash,
               Resources, WhileOpen, EofNeedsKill, Undone, PlacedBeforeWork, NeverConfused,
               ClosedMeansKilled
  <2> QED
    BY <1>0, <2>1
<1>2. CASE InterRecvMap
  <2> USE <1>2 DEF InterRecvMap, ReportFailure, SendUp, RuntimeGone
  <2>1. (BeforeFork /\ WhileAsking)'
    BY DEF TypeFlags
  <2>2. (WhileBuilding /\ WhileUndoing)'
    BY DEF TypeFlags
  <2>3. (AfterCrash /\ Resources /\ WhileOpen)'
    BY DEF TypeFlags
  <2>4. EofNeedsKill'
    BY DEF TypeFlags
  <2>5. Undone'
    BY DEF TypeFlags
  <2>6. Safe'
    BY DEF TypeFlags, TypePcs
  <2> HIDE DEF TypePlaces, BeforeFork, WhileAsking, WhileBuilding, WhileUndoing, AfterCrash,
               Resources, WhileOpen, EofNeedsKill, Undone, PlacedBeforeWork, NeverConfused,
               ClosedMeansKilled
  <2> QED
    BY <1>0, <2>1, <2>2, <2>3, <2>4, <2>5, <2>6
<1>3. CASE InterFork
  <2> USE <1>3 DEF InterFork
  <2>1. (Protocol /\ Safe)'
    BY DEF TypeFlags
  <2> HIDE DEF TypePlaces, BeforeFork, WhileAsking, WhileBuilding, WhileUndoing, AfterCrash,
               Resources, WhileOpen, EofNeedsKill, Undone, PlacedBeforeWork, NeverConfused,
               ClosedMeansKilled
  <2> QED
    BY <1>0, <2>1
<1>4. CASE InterReport
  <2> USE <1>4 DEF InterReport, SendUp
  <2>1. (Protocol /\ Safe)'
    BY DEF TypeFlags
  <2> HIDE DEF TypePlaces, BeforeFork, WhileAsking, WhileBuilding, WhileUndoing, AfterCrash,
               Resources, WhileOpen, EofNeedsKill, Undone, PlacedBeforeWork, NeverConfused,
               ClosedMeansKilled
  <2> QED
    BY <1>0, <2>1
<1>5. CASE InterFail
  <2> USE <1>5 DEF InterFail, ReportFailure, SendUp
  <2>1. (Protocol /\ Safe)'
    BY DEF TypeFlags
  <2> HIDE DEF TypePlaces, BeforeFork, WhileAsking, WhileBuilding, WhileUndoing, AfterCrash,
               Resources, WhileOpen, EofNeedsKill, Undone, PlacedBeforeWork, NeverConfused,
               ClosedMeansKilled
  <2> QED
    BY <1>0, <2>1
<1>6. CASE InterExit
  <2> USE <1>6 DEF InterExit
  <2>1. (BeforeFork /\ WhileAsking)'
    BY DEF TypeFlags
  <2>2. (WhileBuilding /\ WhileUndoing)'
    BY DEF TypeFlags
  <2>3. (AfterCrash /\ Resources /\ WhileOpen)'
    BY DEF TypeFlags
  <2>4. EofNeedsKill'
    BY DEF TypeFlags
  <2>5. Undone'
    BY DEF TypeFlags
  <2>6. Safe'
    BY DEF TypeFlags
  <2> HIDE DEF TypePlaces, BeforeFork, WhileAsking, WhileBuilding, WhileUndoing, AfterCrash,
               Resources, WhileOpen, EofNeedsKill, Undone, PlacedBeforeWork, NeverConfused,
               ClosedMeansKilled
  <2> QED
    BY <1>0, <2>1, <2>2, <2>3, <2>4, <2>5, <2>6
<1> QED
  BY <1>1, <1>2, <1>3, <1>4, <1>5, <1>6 DEF InterStep

(* The steps of the container init keep it.                                *)
LEMMA InitStepIInv == IInv /\ InitStep => IInv'
<1> SUFFICES ASSUME IInv, InitStep PROVE IInv'
  OBVIOUS
<1>0. TypePlaces' /\ TypeFlags'
  BY InitTypes DEF IInv
<1> USE Queues, NonEmpty, QueueType, ConfigAssumption
    DEF IInv, TypePlaces, TypeSets, TypeWires, Protocol, Safe, BeforeFork, WhileAsking, WhileBuilding,
             WhileUndoing, AfterCrash, Resources, WhileOpen, EofNeedsKill, Undone,
             PlacedBeforeWork, NeverConfused, ClosedMeansKilled, Early, Asking, Building, Gone,
             Undoing, Packets, Final, Waiting, Parking, rtOwn, kids, wires, group
<1>1. CASE InitRecv
  <2> USE <1>1 DEF InitRecv, ReportFailure, SendUp, RuntimeGone
  <2>1. (BeforeFork /\ WhileAsking)'
    BY DEF TypeFlags
  <2>2. (WhileBuilding /\ WhileUndoing)'
    BY DEF TypeFlags
  <2>3. (AfterCrash /\ Resources /\ WhileOpen)'
    BY DEF TypeFlags
  <2>4. EofNeedsKill'
    BY DEF TypeFlags
  <2>5. Undone'
    BY DEF TypeFlags
  <2>6. Safe'
    <3>1. NeverConfused'
      BY DEF TypeFlags, TypePcs
    <3>2. PlacedBeforeWork'
      BY DEF TypeFlags, TypePcs
    <3>3. ClosedMeansKilled'
      BY DEF TypeFlags
    <3> QED
      BY <3>1, <3>2, <3>3
  <2> HIDE DEF TypePlaces, BeforeFork, WhileAsking, WhileBuilding, WhileUndoing, AfterCrash,
               Resources, WhileOpen, EofNeedsKill, Undone, PlacedBeforeWork, NeverConfused,
               ClosedMeansKilled
  <2> QED
    BY <1>0, <2>1, <2>2, <2>3, <2>4, <2>5, <2>6
<1>2. CASE InitBuild
  <2> USE <1>2 DEF InitBuild
  <2>1. (Protocol /\ Safe)'
    BY DEF TypeFlags
  <2> HIDE DEF TypePlaces, BeforeFork, WhileAsking, WhileBuilding, WhileUndoing, AfterCrash,
               Resources, WhileOpen, EofNeedsKill, Undone, PlacedBeforeWork, NeverConfused,
               ClosedMeansKilled
  <2> QED
    BY <1>0, <2>1
<1>3. CASE InitHookDone
  <2> USE <1>3 DEF InitHookDone
  <2>1. (Protocol /\ Safe)'
    BY DEF TypeFlags
  <2> HIDE DEF TypePlaces, BeforeFork, WhileAsking, WhileBuilding, WhileUndoing, AfterCrash,
               Resources, WhileOpen, EofNeedsKill, Undone, PlacedBeforeWork, NeverConfused,
               ClosedMeansKilled
  <2> QED
    BY <1>0, <2>1
<1>4. CASE InitReady
  <2> USE <1>4 DEF InitReady, SendUp
  <2>1. (Protocol /\ Safe)'
    BY DEF TypeFlags
  <2> HIDE DEF TypePlaces, BeforeFork, WhileAsking, WhileBuilding, WhileUndoing, AfterCrash,
               Resources, WhileOpen, EofNeedsKill, Undone, PlacedBeforeWork, NeverConfused,
               ClosedMeansKilled
  <2> QED
    BY <1>0, <2>1
<1>5. CASE InitPark
  <2> USE <1>5 DEF InitPark
  <2>1. (Protocol /\ Safe)'
    BY DEF TypeFlags
  <2> HIDE DEF TypePlaces, BeforeFork, WhileAsking, WhileBuilding, WhileUndoing, AfterCrash,
               Resources, WhileOpen, EofNeedsKill, Undone, PlacedBeforeWork, NeverConfused,
               ClosedMeansKilled
  <2> QED
    BY <1>0, <2>1
<1>6. CASE InitFail
  <2> USE <1>6 DEF InitFail, ReportFailure, SendUp
  <2>1. (BeforeFork /\ WhileAsking)'
    BY DEF TypeFlags
  <2>2. (WhileBuilding /\ WhileUndoing)'
    BY DEF TypeFlags
  <2>3. (AfterCrash /\ Resources /\ WhileOpen)'
    BY DEF TypeFlags
  <2>4. EofNeedsKill'
    BY DEF TypeFlags
  <2>5. Undone'
    <3> HIDE DEF TypePlaces, BeforeFork, WhileAsking, WhileBuilding, WhileUndoing, AfterCrash,
                 Resources, WhileOpen, EofNeedsKill, Safe
    <3> QED
      BY DEF TypeFlags
  <2>6. Safe'
    BY DEF TypeFlags
  <2> HIDE DEF TypePlaces, BeforeFork, WhileAsking, WhileBuilding, WhileUndoing, AfterCrash,
               Resources, WhileOpen, EofNeedsKill, Undone, PlacedBeforeWork, NeverConfused,
               ClosedMeansKilled
  <2> QED
    BY <1>0, <2>1, <2>2, <2>3, <2>4, <2>5, <2>6
<1>7. CASE InitExit
  <2> USE <1>7 DEF InitExit, InitGone
  <2>1. (BeforeFork /\ WhileAsking)'
    BY DEF TypeFlags
  <2>2. (WhileBuilding /\ WhileUndoing)'
    BY DEF TypeFlags
  <2>3. (AfterCrash /\ Resources /\ WhileOpen)'
    BY DEF TypeFlags
  <2>4. EofNeedsKill'
    BY DEF TypeFlags
  <2>5. Undone'
    <3> HIDE DEF TypePlaces, BeforeFork, WhileAsking, WhileBuilding, WhileUndoing, AfterCrash,
                 Resources, WhileOpen, EofNeedsKill, Safe
    <3> QED
      BY DEF TypeFlags
  <2>6. Safe'
    BY DEF TypeFlags
  <2> HIDE DEF TypePlaces, BeforeFork, WhileAsking, WhileBuilding, WhileUndoing, AfterCrash,
               Resources, WhileOpen, EofNeedsKill, Undone, PlacedBeforeWork, NeverConfused,
               ClosedMeansKilled
  <2> QED
    BY <1>0, <2>1, <2>2, <2>3, <2>4, <2>5, <2>6
<1> QED
  BY <1>1, <1>2, <1>3, <1>4, <1>5, <1>6, <1>7 DEF InitStep

(* So do the hook's exit, the runtime's crash and kills from outside.      *)
LEMMA OutsideIInv == IInv /\ Outside => IInv'
<1> SUFFICES ASSUME IInv, Outside PROVE IInv'
  OBVIOUS
<1>0. TypePlaces' /\ TypeFlags'
  BY OutsideTypes DEF IInv
<1> USE Queues, NonEmpty, QueueType, ConfigAssumption
    DEF IInv, TypePlaces, TypeSets, TypeWires, Protocol, Safe, BeforeFork, WhileAsking, WhileBuilding,
             WhileUndoing, AfterCrash, Resources, WhileOpen, EofNeedsKill, Undone,
             PlacedBeforeWork, NeverConfused, ClosedMeansKilled, Early, Asking, Building, Gone,
             Undoing, Packets, Final, Waiting, Parking, rtOwn, kids, wires, group
<1>1. CASE HelperExit
  <2> USE <1>1 DEF HelperExit
  <2>1. (BeforeFork /\ WhileAsking)'
    BY DEF TypeFlags
  <2>2. (WhileBuilding /\ WhileUndoing)'
    BY DEF TypeFlags
  <2>3. (AfterCrash /\ Resources /\ WhileOpen)'
    BY DEF TypeFlags
  <2>4. EofNeedsKill'
    BY DEF TypeFlags
  <2>5. Undone'
    <3> HIDE DEF TypePlaces, BeforeFork, WhileAsking, WhileBuilding, WhileUndoing, AfterCrash,
                 Resources, WhileOpen, EofNeedsKill, Safe
    <3> QED
      BY DEF TypeFlags
  <2>6. Safe'
    BY DEF TypeFlags
  <2> HIDE DEF TypePlaces, BeforeFork, WhileAsking, WhileBuilding, WhileUndoing, AfterCrash,
               Resources, WhileOpen, EofNeedsKill, Undone, PlacedBeforeWork, NeverConfused,
               ClosedMeansKilled
  <2> QED
    BY <1>0, <2>1, <2>2, <2>3, <2>4, <2>5, <2>6
<1>2. CASE RtCrash
  <2> USE <1>2 DEF RtCrash
  <2>1. (BeforeFork /\ WhileAsking)'
    BY DEF TypeFlags
  <2>2. (WhileBuilding /\ WhileUndoing)'
    BY DEF TypeFlags
  <2>3. (AfterCrash /\ Resources /\ WhileOpen)'
    BY DEF TypeFlags, TypePcs
  <2>4. EofNeedsKill'
    BY DEF TypeFlags
  <2>5. Undone'
    <3> HIDE DEF TypePlaces, BeforeFork, WhileAsking, WhileBuilding, WhileUndoing, AfterCrash,
                 Resources, WhileOpen, EofNeedsKill, Safe
    <3> QED
      BY DEF TypeFlags
  <2>6. Safe'
    BY DEF TypeFlags
  <2> HIDE DEF TypePlaces, BeforeFork, WhileAsking, WhileBuilding, WhileUndoing, AfterCrash,
               Resources, WhileOpen, EofNeedsKill, Undone, PlacedBeforeWork, NeverConfused,
               ClosedMeansKilled
  <2> QED
    BY <1>0, <2>1, <2>2, <2>3, <2>4, <2>5, <2>6
<1>3. CASE SlayInter
  <2> USE <1>3 DEF SlayInter
  <2>1. (BeforeFork /\ WhileAsking)'
    BY DEF TypeFlags
  <2>2. (WhileBuilding /\ WhileUndoing)'
    BY DEF TypeFlags
  <2>3. (AfterCrash /\ Resources /\ WhileOpen)'
    BY DEF TypeFlags
  <2>4. EofNeedsKill'
    BY DEF TypeFlags
  <2>5. Undone'
    <3> HIDE DEF TypePlaces, BeforeFork, WhileAsking, WhileBuilding, WhileUndoing, AfterCrash,
                 Resources, WhileOpen, EofNeedsKill, Safe
    <3> QED
      BY DEF TypeFlags
  <2>6. Safe'
    BY DEF TypeFlags
  <2> HIDE DEF TypePlaces, BeforeFork, WhileAsking, WhileBuilding, WhileUndoing, AfterCrash,
               Resources, WhileOpen, EofNeedsKill, Undone, PlacedBeforeWork, NeverConfused,
               ClosedMeansKilled
  <2> QED
    BY <1>0, <2>1, <2>2, <2>3, <2>4, <2>5, <2>6
<1>4. CASE SlayInit
  <2> USE <1>4 DEF SlayInit, InitGone
  <2>1. (BeforeFork /\ WhileAsking)'
    BY DEF TypeFlags
  <2>2. (WhileBuilding /\ WhileUndoing)'
    BY DEF TypeFlags
  <2>3. (AfterCrash /\ Resources /\ WhileOpen)'
    BY DEF TypeFlags
  <2>4. EofNeedsKill'
    BY DEF TypeFlags
  <2>5. Undone'
    <3> HIDE DEF TypePlaces, BeforeFork, WhileAsking, WhileBuilding, WhileUndoing, AfterCrash,
                 Resources, WhileOpen, EofNeedsKill, Safe
    <3> QED
      BY DEF TypeFlags
  <2>6. Safe'
    BY DEF TypeFlags
  <2> HIDE DEF TypePlaces, BeforeFork, WhileAsking, WhileBuilding, WhileUndoing, AfterCrash,
               Resources, WhileOpen, EofNeedsKill, Undone, PlacedBeforeWork, NeverConfused,
               ClosedMeansKilled
  <2> QED
    BY <1>0, <2>1, <2>2, <2>3, <2>4, <2>5, <2>6
<1> QED
  BY <1>1, <1>2, <1>3, <1>4 DEF Outside

(* Every step keeps the invariant.                                         *)
LEMMA NextIInv == IInv /\ [Next]_vars => IInv'
<1> SUFFICES ASSUME IInv, [Next]_vars PROVE IInv'
  OBVIOUS
<1>1. CASE RtStep
  BY <1>1, RtStepIInv
<1>2. CASE InterStep
  BY <1>2, InterStepIInv
<1>3. CASE InitStep
  BY <1>3, InitStepIInv
<1>4. CASE HelperExit \/ RtCrash \/ SlayInter \/ SlayInit
  BY <1>4, OutsideIInv DEF Outside
<1>5. CASE UNCHANGED vars
  <2> USE <1>5 DEF vars, rtOwn, kids, wires, group, IInv
  <2>1. TypePlaces' /\ TypeFlags'
    BY DEF TypePlaces, TypePcs, TypeSets, TypeWires, TypeFlags
  <2>2. Protocol'
    BY DEF Protocol, BeforeFork, WhileAsking, WhileBuilding, WhileUndoing, AfterCrash,
           Resources, WhileOpen, EofNeedsKill, Undone
  <2>3. Safe'
    BY DEF Safe, PlacedBeforeWork, NeverConfused, ClosedMeansKilled
  <2> HIDE DEF TypePlaces, BeforeFork, WhileAsking, WhileBuilding, WhileUndoing, AfterCrash,
               Resources, WhileOpen, EofNeedsKill, Undone, PlacedBeforeWork, NeverConfused,
               ClosedMeansKilled
  <2> QED
    BY <2>1, <2>2, <2>3
<1> QED
  BY <1>1, <1>2, <1>3, <1>4, <1>5 DEF Next

(* The invariant holds of every behaviour.                                 *)
LEMMA Inductive == Spec => []IInv
  BY InitIInv, NextIInv, PTL DEF Spec

-----------------------------------------------------------------------------
(* Every variable keeps its type, whatever fails and whoever is killed.    *)
THEOREM TypeCorrect == Spec => []TypeOK
<1>1. IInv => TypeOK
  BY DEF IInv, TypePlaces, TypePcs, TypeSets, TypeWires, TypeFlags, TypeOK, Early, Asking
<1> QED
  BY <1>1, Inductive, PTL

(* mod.rs:304 before mod.rs:315: nothing is set up outside the cgroup.     *)
THEOREM Placement == Spec => []PlacedBeforeWork
<1>1. IInv => PlacedBeforeWork
  BY DEF IInv, Safe
<1> QED
  BY <1>1, Inductive, PTL

(* No packet reaches the wrong one of the two children that share an end,  *)
(* and Error::Sync is unreachable on both sides.                           *)
THEOREM Unconfused == Spec => []NeverConfused
<1>1. IInv => NeverConfused
  BY DEF IInv, Safe
<1> QED
  BY <1>1, Inductive, PTL

(* state.json appears, and create succeeds, only after InitReady.          *)
THEOREM ReadyBeforePublished == Spec => []PublishedOnlyWhenReady
<1>1. IInv => PublishedOnlyWhenReady
  BY DEF IInv, Protocol, WhileBuilding, Resources, PublishedOnlyWhenReady, Parking
<1> QED
  BY <1>1, Inductive, PTL

(* A create that fails cleans up after itself.                             *)
THEOREM CleanFailure == Spec => []ErrLeavesNothing
<1>1. IInv => ErrLeavesNothing
  BY DEF IInv, Protocol, Undone, ErrLeavesNothing
<1> QED
  BY <1>1, Inductive, PTL

(* The failure of a child is reported with its reason.                     *)
THEOREM ReasonReported == Spec => []ClosedMeansKilled
<1>1. IInv => ClosedMeansKilled
  BY DEF IInv, Safe
<1> QED
  BY <1>1, Inductive, PTL

(* No child begins to build once create has decided to fail: an action     *)
(* property, from the invariant and the three steps that enter Building.   *)
THEOREM FailureStops == Spec => NoBuildAfterFailure
<1> DEFINE A == (rt \in Undoing /\ init' \in Building) => init \in Building
<1>1. IInv /\ [Next]_vars => [A]_vars
  <2> SUFFICES ASSUME IInv, Next, rt \in Undoing, init' \in Building PROVE init \in Building
    OBVIOUS
  <2> USE DEF Building, Undoing, Gone
  <2>1. CASE InitRecv
    <3>1. init = "awaitPlaced" /\ toChild = <<>>
      BY <2>1 DEF InitRecv, IInv, Protocol, WhileUndoing
    <3> QED
      BY <2>1, <3>1 DEF InitRecv, RuntimeGone
  <2>2. CASE InitBuild \/ InitHookDone
    BY <2>2 DEF InitBuild, InitHookDone
  <2>3. CASE InitReady \/ InitPark \/ InitFail \/ InitExit \/ SlayInit
    BY <2>3 DEF InitReady, InitPark, InitFail, InitExit, SlayInit, InitGone
  <2>4. CASE RtStep
    BY <2>4 DEF RtStep, kids, RtMkdir, RtPlan, RtCgroup, RtLimits, RtFifo, RtFork, RtRecvPid,
           RtEof, RtMap, RtReap, RtAttach, RtHooks, RtRecvReady, RtSave, RtPidFile, RtUndo,
           RtKill, RtDrain, RtDestroy, RtRmdir
  <2>5. CASE InterStep \/ HelperExit \/ RtCrash \/ SlayInter
    BY <2>5 DEF InterStep, InterPrepare, InterRecvMap, InterFork, InterReport, InterFail,
           InterExit, HelperExit, RtCrash, SlayInter, kids
  <2> QED
    BY <2>1, <2>2, <2>3, <2>4, <2>5 DEF Next, InitStep
<1> QED
  BY <1>1, Inductive, PTL DEF Spec, NoBuildAfterFailure
=============================================================================
