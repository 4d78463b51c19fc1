---------------------------- MODULE OciLifecycle ----------------------------
(***************************************************************************)
(* What `mars state` may answer about one container id, in which order:    *)
(* the abstract specification that Registry implements.                    *)
(*                                                                         *)
(* none -> created -> running -> stopped -> none is the course of things.  *)
(* A container can also stop before it was started, and be deleted when    *)
(* its init has ended but nobody has reaped it yet (its pid is still       *)
(* there with its start time, so it does not report stopped).  What never  *)
(* happens: a container that reports stopped does not come back to life,   *)
(* none becomes anything but created, and an id whose init has not ended   *)
(* is not forgotten.                                                       *)
(***************************************************************************)

VARIABLES
  status,     (* the derived status; "none" if there is no state.json      *)
  over        (* the init has ended, or been sent a SIGKILL                *)

Init == status = "none" /\ over = FALSE

(* The init may have ended before its state is published.                  *)
Create == status = "none" /\ status' = "created" /\ over' \in BOOLEAN

(* The fifo disappears: by start, run, or a create that gives up.          *)
Start == status = "created" /\ status' = "running" /\ UNCHANGED over

End == status # "none" /\ over' = TRUE /\ UNCHANGED status

Stop == status \in {"created", "running"} /\ over /\ status' = "stopped" /\ UNCHANGED over

Delete == status # "none" /\ over /\ status' = "none" /\ over' = FALSE

Next == Create \/ Start \/ End \/ Stop \/ Delete

Spec == Init /\ [][Next]_<<status, over>>
=============================================================================
