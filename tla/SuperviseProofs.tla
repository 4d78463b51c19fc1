-------------------------- MODULE SuperviseProofs --------------------------
(***************************************************************************)
(* Proofs about Supervise for any signals and any number of adopted        *)
(* processes: the init is reaped by the one step that also ends the wait,  *)
(* so there is no step left that could signal its pid.                     *)
(***************************************************************************)
EXTENDS Supervise, TLAPS

(* The init is reaped exactly when the wait is over.                       *)
ReapedLast ==
  /\ init = "reaped" => rt \in {"cleanup"} \cup Ended
  /\ InitsOutcome

(* TypeOK in two parts: Booleans apart, for the provers.                   *)
TypePlaces ==
  /\ rt \in {"start", "create", "release", "poststart", "wait", "drain", "cleanup", "stuck"}
            \cup Ended
  /\ pending \subseteq FORWARDED \cup {"SIGCHLD"}
  /\ sent \subseteq FORWARDED /\ initSigs \subseteq FORWARDED /\ seen \subseteq FORWARDED
  /\ init \in {"none", "parked", "released", "program", "zombie", "reaped"}
  /\ status \in {"none", "exit", "signal"} /\ outcome \in {"none", "exit", "signal"}
  /\ orphan \in [Orphans -> {"none", "running", "zombie", "reaped"}]
TypeFlags == pidNs \in BOOLEAN /\ detach \in BOOLEAN /\ blocked \in BOOLEAN /\ stray \in BOOLEAN

IInv == TypePlaces /\ TypeFlags /\ ReapedLast /\ NeverStray

(* The initial states satisfy the invariant.                               *)
LEMMA InitIInv == Init => IInv
BY DEF Init, IInv, TypePlaces, TypeFlags, ReapedLast, InitsOutcome, NeverStray, Ended

(* Everything but the flags, one case per action.                          *)
LEMMA NextPlaces == IInv /\ [Next]_vars => TypePlaces' /\ ReapedLast'
<1> SUFFICES ASSUME IInv, [Next]_vars PROVE TypePlaces' /\ ReapedLast'
  OBVIOUS
<1>0. TypePlaces /\ ReapedLast
  BY DEF IInv
<1> USE <1>0, SignalsAssumption DEF TypePlaces, ReapedLast, InitsOutcome, Ended, RaiseChild
<1>1. ASSUME RtStep PROVE TypePlaces' /\ ReapedLast'
  <2>1. CASE Block \/ Create
    BY <2>1 DEF Block, Create
  <2>2. CASE Release \/ Poststart
    BY <2>2 DEF Release, Poststart
  <2>3. CASE Forward
    BY <2>3 DEF Forward, Deliver
  <2>4. CASE ChildChanged \/ Drained \/ Cleanup
    BY <2>4 DEF ChildChanged, Drained, Cleanup
  <2>5. CASE ReapInit
    BY <2>5 DEF ReapInit
  <2>6. ASSUME NEW o \in Orphans, ReapOrphan(o) PROVE TypePlaces' /\ ReapedLast'
    BY <2>6 DEF ReapOrphan
  <2> QED
    BY <1>1, <2>1, <2>2, <2>3, <2>4, <2>5, <2>6 DEF RtStep
<1>2. CASE InitUnblock
  BY <1>2 DEF InitUnblock
<1>3. CASE InitEnds \/ RtKilled
  BY <1>3 DEF InitEnds, RtKilled
<1>4. ASSUME NEW o \in Orphans, Adopt(o) \/ OrphanEnds(o) PROVE TypePlaces' /\ ReapedLast'
  BY <1>4 DEF Adopt, OrphanEnds
<1>5. ASSUME NEW s \in FORWARDED, Send(s) PROVE TypePlaces' /\ ReapedLast'
  BY <1>5 DEF Send
<1>6. CASE UNCHANGED vars
  BY <1>6 DEF vars
<1> QED
  BY <1>1, <1>2, <1>3, <1>4, <1>5, <1>6 DEF Next

(* The flags; only Deliver could set `stray`, and it runs before the reap. *)
LEMMA NextFlags == IInv /\ [Next]_vars => TypeFlags' /\ NeverStray'
<1> SUFFICES ASSUME IInv, [Next]_vars PROVE TypeFlags' /\ NeverStray'
  OBVIOUS
<1>0. TypeFlags /\ NeverStray
  BY DEF IInv
<1> USE <1>0 DEF TypeFlags, NeverStray
<1>1. ASSUME Forward PROVE TypeFlags' /\ NeverStray'
  <2>1. init # "reaped"
    BY <1>1 DEF Forward, IInv, ReapedLast, Ended
  <2> QED
    BY <1>1, <2>1 DEF Forward, Deliver
<1>2. CASE Block
  BY <1>2 DEF Block
<1>3. CASE Create \/ Release \/ Poststart \/ ChildChanged \/ ReapInit \/ Drained \/ Cleanup
  BY <1>3 DEF Create, Release, Poststart, ChildChanged, ReapInit, Drained, Cleanup
<1>4. CASE InitUnblock \/ InitEnds \/ RtKilled
  BY <1>4 DEF InitUnblock, InitEnds, RtKilled
<1>5. ASSUME NEW o \in Orphans, ReapOrphan(o) \/ Adopt(o) \/ OrphanEnds(o)
      PROVE TypeFlags' /\ NeverStray'
  BY <1>5 DEF ReapOrphan, Adopt, OrphanEnds
<1>6. ASSUME NEW s \in FORWARDED, Send(s) PROVE TypeFlags' /\ NeverStray'
  BY <1>6 DEF Send
<1>7. CASE UNCHANGED vars
  BY <1>7 DEF vars
<1> QED
  BY <1>1, <1>2, <1>3, <1>4, <1>5, <1>6, <1>7 DEF Next, RtStep

(* The invariant holds of every behaviour.                                 *)
LEMMA Inductive == Spec => []IInv
<1>1. IInv /\ [Next]_vars => IInv'
  BY NextPlaces, NextFlags DEF IInv
<1> QED
  BY <1>1, InitIInv, PTL DEF Spec

(* The state stays in its types; SIGCHLD is never forwarded.               *)
THEOREM TypeCorrect == Spec => []TypeOK
<1>1. IInv => TypeOK
  BY DEF IInv, TypePlaces, TypeFlags, TypeOK
<1> QED
  BY <1>1, Inductive, PTL

(* run returns the status of the init and cleans up only after reaping it. *)
THEOREM OutcomeIsInits == Spec => []InitsOutcome
<1>1. IInv => InitsOutcome
  BY DEF IInv, ReapedLast
<1> QED
  BY <1>1, Inductive, PTL

(* No signal is forwarded to a recycled pid.                               *)
THEOREM NoStraySignal == Spec => []NeverStray
<1>1. IInv => NeverStray
  BY DEF IInv
<1> QED
  BY <1>1, Inductive, PTL
=============================================================================
