--------------------------- MODULE FileRetrieval ---------------------------
(***************************************************************************)
(* What SFTPClient::startPollGetFile() promises: an operation object that  *)
(* reserves the client while it runs, ends with the file or without it,    *)
(* and starts over at most once in between.                                *)
(***************************************************************************)

VARIABLES
  phase,      \* "idle" without an object, "running", "done" or "failed"
  reserved,   \* the client is reserved
  retried     \* the running operation has started over

fvars == <<phase, reserved, retried>>

Init ==
  /\ phase = "idle"
  /\ ~reserved
  /\ ~retried

\* the client is free, and from now on it is not
Begin ==
  /\ phase = "idle"
  /\ ~reserved
  /\ phase' = "running"
  /\ reserved'
  /\ ~retried'

\* the connection that was adopted is gone
Retry ==
  /\ phase = "running"
  /\ ~retried
  /\ retried'
  /\ UNCHANGED <<phase, reserved>>

\* the retrieval succeeds or fails, or the running object is destroyed
End ==
  /\ phase = "running"
  /\ phase' \in {"done", "failed", "idle"}
  /\ ~reserved'
  /\ ~retried'

\* the object is destroyed after the end
Drop ==
  /\ phase \in {"done", "failed"}
  /\ phase' = "idle"
  /\ UNCHANGED <<reserved, retried>>

Next == Begin \/ Retry \/ End \/ Drop

Spec == Init /\ [][Next]_fvars
=============================================================================
