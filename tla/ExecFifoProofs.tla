-------------------------- MODULE ExecFifoProofs --------------------------
(***************************************************************************)
(* Proofs about ExecFifo for any number of starters.  The byte in the pipe *)
(* and the starter past its read are one token: at most one of them is     *)
(* there, and only once the init has written.                              *)
(***************************************************************************)
EXTENDS ExecFifo, TLAPS

Parked == {"ready", "opening", "writing"}

(* The token is in the pipe or with one starter, and exists only after the *)
(* init's one write.                                                       *)
Token ==
  /\ init \in Parked => ~wrote
  /\ bytes = 1 => wrote
  /\ \A s \in Starters : Released(s) => wrote /\ bytes = 0
  /\ OneRelease

(* Who has the pipe open has opened it, and a program that runs was asked  *)
(* for.                                                                    *)
Asked ==
  /\ Readers(pc) \subseteq opened
  /\ init \in {"hooks", "program"} => opened # {}

(* The name is gone only after a release, and for good.                    *)
Name ==
  /\ \A s \in Starters : pc[s] \in {"poststart", "done"} => ~linked
  /\ ~linked => \E s \in Starters : pc[s] \in {"poststart", "done", "crashed"}

(* While nobody is killed the token is not lost: the pipe that holds it    *)
(* has a reader who will take it.                                          *)
Uncrashed == \A s \in Starters : pc[s] # "crashed"
Safekept ==
  Uncrashed =>
    /\ bytes = 1 => \E s \in Starters : pc[s] \in {"opening", "reading"}
    /\ NoLostRelease

IInv == TypeOK /\ Token /\ Asked /\ Name /\ Safekept

(* The initial states satisfy the invariant.                               *)
LEMMA InitIInv == Init => IInv
<1> SUFFICES ASSUME Init PROVE IInv
  OBVIOUS
<1> USE DEF Init, Ended, Released
<1>1. TypeOK
  BY DEF TypeOK
<1>2. Token
  BY DEF Token, OneRelease, Parked
<1>3. Asked /\ Name
  BY DEF Asked, Readers, Name
<1>4. Safekept
  BY DEF Safekept, NoLostRelease
<1> QED
  BY <1>1, <1>2, <1>3, <1>4 DEF IInv

(* TypeOK in two parts: Booleans apart, for the provers.                   *)
TypePlaces ==
  /\ init \in {"ready", "opening", "writing", "hooks", "program", "dead"}
  /\ bytes \in {0, 1}
  /\ pc \in [Starters -> {"idle", "checked", "opening", "reading", "unlink", "poststart"}
                         \cup Ended]
  /\ verdict \in [Starters -> {"none", "ok", "notCreated", "gone", "died"}]
  /\ opened \subseteq Starters
TypeFlags ==
  /\ woken \in [Starters -> BOOLEAN]
  /\ initWoken \in BOOLEAN /\ linked \in BOOLEAN /\ wrote \in BOOLEAN

(* The places stay in range; in particular no step writes while a byte is  *)
(* in the pipe.                                                            *)
LEMMA NextTypePlaces == IInv /\ [Next]_vars => TypePlaces'
<1> SUFFICES ASSUME IInv, [Next]_vars PROVE TypePlaces'
  OBVIOUS
<1>0. TypePlaces
  BY DEF IInv, TypeOK, TypePlaces
<1> USE <1>0 DEF TypePlaces, Ended
<1>1. ASSUME InitStep PROVE TypePlaces'
  <2>1. CASE ParkOpen \/ ParkOpened \/ InitExec
    BY <2>1 DEF ParkOpen, ParkOpened, InitExec
  <2>2. CASE ParkWrite
    <3>1. bytes = 0
      BY <2>2 DEF ParkWrite, IInv, Token, Parked
    <3>2. bytes' \in {0, 1} /\ init' \in {"hooks", "dead"}
      BY <2>2, <3>1 DEF ParkWrite, Announced
    <3> QED
      BY <2>2, <3>2 DEF ParkWrite
  <2> QED
    BY <1>1, <2>1, <2>2 DEF InitStep
<1>2. ASSUME InitDies PROVE TypePlaces'
  BY <1>2 DEF InitDies, Kept
<1>3. ASSUME NEW s \in Starters, StarterStep(s) PROVE TypePlaces'
  <2>1. CASE Check(s)
    BY <2>1 DEF Check, Goto, Return
  <2>2. CASE Open(s)
    BY <2>2 DEF Open, Goto, Return
  <2>3. CASE Opened(s) \/ Poststart(s)
    BY <2>3 DEF Opened, Poststart, Goto, Return
  <2>4. CASE Read(s)
    BY <2>4 DEF Read, Goto, Return
  <2>5. CASE Unlink(s)
    BY <2>5 DEF Unlink, Goto, Return, Kept
  <2> QED
    BY <1>3, <2>1, <2>2, <2>3, <2>4, <2>5 DEF StarterStep
<1>4. ASSUME NEW s \in Starters, Crash(s) PROVE TypePlaces'
  BY <1>4 DEF Crash, Goto, Return, Kept
<1>5. CASE UNCHANGED vars
  BY <1>5 DEF vars
<1> QED
  BY <1>1, <1>2, <1>3, <1>4, <1>5 DEF Next

(* The flags stay Boolean.                                                 *)
LEMMA NextTypeFlags == TypeFlags /\ [Next]_vars => TypeFlags'
<1> SUFFICES ASSUME TypeFlags, [Next]_vars PROVE TypeFlags'
  OBVIOUS
<1> USE DEF TypeFlags
<1>1. ASSUME InitStep \/ InitDies PROVE TypeFlags'
  BY <1>1 DEF InitStep, InitDies, ParkOpen, ParkOpened, ParkWrite, InitExec
<1>2. ASSUME NEW s \in Starters, StarterStep(s) \/ Crash(s) PROVE TypeFlags'
  <2>1. woken' = woken /\ wrote' = wrote
    BY <1>2 DEF StarterStep, Crash, Check, Open, Opened, Read, Unlink, Poststart
  <2>2. linked' = linked \/ linked' = FALSE
    BY <1>2 DEF StarterStep, Crash, Check, Open, Opened, Read, Unlink, Poststart
  <2>3. initWoken' = initWoken \/ initWoken' = (initWoken \/ WakesInit)
    BY <1>2 DEF StarterStep, Crash, Check, Open, Opened, Read, Unlink, Poststart
  <2> QED
    BY <2>1, <2>2, <2>3
<1>3. CASE UNCHANGED vars
  BY <1>3 DEF vars
<1> QED
  BY <1>1, <1>2, <1>3 DEF Next

(* Only ParkWrite makes the byte, only Read hands it on.                   *)
LEMMA NextToken == IInv /\ [Next]_vars => Token'
<1> SUFFICES ASSUME IInv, [Next]_vars PROVE Token'
  OBVIOUS
<1>0. TypePlaces /\ Token
  BY DEF IInv, TypeOK, TypePlaces
<1> USE <1>0 DEF TypePlaces, Token, OneRelease, Released, Parked, Ended
<1>1. ASSUME InitStep PROVE Token'
  <2>1. CASE ParkOpen \/ ParkOpened \/ InitExec
    BY <2>1 DEF ParkOpen, ParkOpened, InitExec
  <2>2. CASE ParkWrite
    BY <2>2 DEF ParkWrite
  <2> QED
    BY <1>1, <2>1, <2>2 DEF InitStep
<1>2. ASSUME InitDies PROVE Token'
  BY <1>2 DEF InitDies, Kept
<1>3. ASSUME NEW s \in Starters, StarterStep(s) PROVE Token'
  <2>1. CASE Check(s)
    BY <2>1 DEF Check, Goto, Return
  <2>2. CASE Open(s)
    BY <2>2 DEF Open, Goto, Return
  <2>3. CASE Opened(s) \/ Poststart(s)
    BY <2>3 DEF Opened, Poststart, Goto, Return
  <2>4. CASE Read(s)
    BY <2>4 DEF Read, Goto, Return
  <2>5. CASE Unlink(s)
    BY <2>5 DEF Unlink, Goto, Return, Kept
  <2> QED
    BY <1>3, <2>1, <2>2, <2>3, <2>4, <2>5 DEF StarterStep
<1>4. ASSUME NEW s \in Starters, Crash(s) PROVE Token'
  BY <1>4 DEF Crash, Goto, Return, Kept
<1>5. CASE UNCHANGED vars
  BY <1>5 DEF vars
<1> QED
  BY <1>1, <1>2, <1>3, <1>4, <1>5 DEF Next

(* A starter is recorded before it counts as a reader.                     *)
LEMMA NextAsked == IInv /\ [Next]_vars => Asked'
<1> SUFFICES ASSUME IInv, [Next]_vars PROVE Asked'
  OBVIOUS
<1>0. TypePlaces /\ Asked
  BY DEF IInv, TypeOK, TypePlaces
<1> USE <1>0 DEF TypePlaces, Asked, Readers, Ended
<1>1. ASSUME InitStep \/ InitDies PROVE Asked'
  BY <1>1 DEF InitStep, InitDies, ParkOpen, ParkOpened, ParkWrite, InitExec
<1>2. ASSUME NEW s \in Starters, StarterStep(s) \/ Crash(s) PROVE Asked'
  <2>1. CASE Open(s)
    BY <2>1 DEF Open, Goto, Return
  <2>2. CASE Check(s) \/ Opened(s) \/ Read(s) \/ Unlink(s) \/ Poststart(s) \/ Crash(s)
    BY <2>2 DEF Check, Opened, Read, Unlink, Poststart, Crash, Goto, Return
  <2> QED
    BY <1>2, <2>1, <2>2 DEF StarterStep
<1>3. CASE UNCHANGED vars
  BY <1>3 DEF vars
<1> QED
  BY <1>1, <1>2, <1>3 DEF Next

(* Only Unlink removes the name, and nothing brings it back.               *)
LEMMA NextName == IInv /\ [Next]_vars => Name'
<1> SUFFICES ASSUME IInv, [Next]_vars PROVE Name'
  OBVIOUS
<1>0. TypePlaces /\ Name
  BY DEF IInv, TypeOK, TypePlaces
<1> USE <1>0 DEF TypePlaces, Name, Ended
<1>1. ASSUME InitStep \/ InitDies PROVE Name'
  BY <1>1 DEF InitStep, InitDies, ParkOpen, ParkOpened, ParkWrite, InitExec
<1>2. ASSUME NEW s \in Starters, StarterStep(s) \/ Crash(s) PROVE Name'
  <2>1. CASE Unlink(s)
    <3>1. CASE linked
      BY <2>1, <3>1 DEF Unlink, Goto
    <3>2. CASE ~linked
      BY <2>1, <3>2 DEF Unlink, Goto, Return
    <3> QED
      BY <3>1, <3>2
  <2>2. CASE Check(s) \/ Open(s) \/ Opened(s) \/ Read(s)
    BY <2>2 DEF Check, Open, Opened, Read, Goto, Return
  <2>3. CASE Poststart(s) \/ Crash(s)
    BY <2>3 DEF Poststart, Crash, Goto, Return
  <2> QED
    BY <1>2, <2>1, <2>2, <2>3 DEF StarterStep
<1>3. CASE UNCHANGED vars
  BY <1>3 DEF vars
<1> QED
  BY <1>1, <1>2, <1>3 DEF Next

(* A killed starter stays killed, so what held without a crash before the  *)
(* step can be used when there is none after it.                           *)
LEMMA NextSafekept == IInv /\ [Next]_vars => Safekept'
<1> SUFFICES ASSUME IInv, [Next]_vars, Uncrashed' PROVE
      /\ bytes' = 1 => \E s \in Starters : pc'[s] \in {"opening", "reading"}
      /\ NoLostRelease'
  BY DEF Safekept
<1>0. TypePlaces /\ Token /\ Name /\ Safekept
  BY DEF IInv, TypeOK, TypePlaces
<1> USE <1>0 DEF TypePlaces, Token, OneRelease, Safekept, Uncrashed, NoLostRelease, Released,
                 Parked, Ended
<1>1. ASSUME InitStep PROVE Safekept'
  <2>1. CASE ParkOpen \/ ParkOpened \/ InitExec
    BY <2>1 DEF ParkOpen, ParkOpened, InitExec
  <2>2. CASE ParkWrite
    BY <2>2 DEF ParkWrite, Announced, Readers
  <2> QED
    BY <1>1, <2>1, <2>2 DEF InitStep
<1>2. ASSUME InitDies PROVE Safekept'
  BY <1>2 DEF InitDies, Kept, Readers
<1>3. ASSUME NEW s \in Starters, StarterStep(s) PROVE Safekept'
  <2>1. CASE Check(s)
    BY <2>1 DEF Check, Goto, Return
  <2>2. CASE Open(s)
    BY <2>2 DEF Open, Goto, Return
  <2>3. CASE Opened(s) \/ Poststart(s)
    BY <2>3 DEF Opened, Poststart, Goto, Return
  <2>4. CASE Read(s)
    BY <2>4 DEF Read, Goto, Return
  <2>5. CASE Unlink(s)
    BY <2>5 DEF Unlink, Goto, Return, Kept, Readers, Name
  <2> QED
    BY <1>3, <2>1, <2>2, <2>3, <2>4, <2>5 DEF StarterStep
<1>4. ASSUME NEW s \in Starters, Crash(s) PROVE FALSE
  BY <1>4 DEF Crash, Goto, Return
<1>5. CASE UNCHANGED vars
  BY <1>5 DEF vars
<1> QED
  BY <1>1, <1>2, <1>3, <1>4, <1>5 DEF Next

(* The invariant holds of every behaviour.                                 *)
LEMMA Inductive == Spec => []IInv
<1>1. IInv /\ [Next]_vars => IInv'
  <2>1. TypePlaces /\ TypeFlags => TypeOK
    BY DEF TypePlaces, TypeFlags, TypeOK
  <2>2. (TypePlaces /\ TypeFlags => TypeOK)'
    BY DEF TypePlaces, TypeFlags, TypeOK
  <2>3. IInv => TypeFlags
    BY DEF IInv, TypeOK, TypeFlags
  <2> QED
    BY <2>2, <2>3, NextTypePlaces, NextTypeFlags, NextToken, NextAsked, NextName, NextSafekept
    DEF IInv
<1> QED
  BY <1>1, InitIInv, PTL DEF Spec

(* The state stays in its types; the pipe never holds more than one byte.  *)
THEOREM TypeCorrect == Spec => []TypeOK
<1>1. IInv => TypeOK
  BY DEF IInv
<1> QED
  BY <1>1, Inductive, PTL

(* The program never runs before somebody opened the fifo to start it.     *)
THEOREM StartedOnRequest == Spec => []NotBeforeStart
<1>1. IInv => NotBeforeStart
  BY DEF IInv, Asked, NotBeforeStart
<1> QED
  BY <1>1, Inductive, PTL

(* However many starters race, one release at most succeeds.               *)
THEOREM SingleRelease == Spec => []OneRelease
<1>1. IInv => OneRelease
  BY DEF IInv, Token
<1> QED
  BY <1>1, Inductive, PTL

(* A start that returns Ok has released the init and removed the fifo.     *)
THEOREM SuccessIsReal == Spec => []OkMeansReleased
<1>1. IInv => OkMeansReleased
  BY DEF IInv, Token, Name, OkMeansReleased, Released
<1> QED
  BY <1>1, Inductive, PTL

(* Without a killed starter the init's release reaches a start that        *)
(* reports it.                                                             *)
THEOREM ReleaseKept == Spec => []NoLostRelease
<1>1. IInv => NoLostRelease
  BY DEF IInv, Safekept, Uncrashed, NoLostRelease
<1> QED
  BY <1>1, Inductive, PTL
=============================================================================
