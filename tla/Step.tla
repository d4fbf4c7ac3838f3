-------------------------------- MODULE Step --------------------------------
(***************************************************************************)
(* What Context promises of a long `wso` step: it is started only while it *)
(* is not at work, whoever started it before is joined, and a wait that    *)
(* returns found it gone.  A call that raises says nothing of the step,    *)
(* which nobody but the bootstrap can end.                                 *)
(***************************************************************************)

VARIABLES
  running,   \* the step is at work on the bootstrap
  state      \* the call: "idle", "calling", "waiting", "returned", "raised"

vars == <<running, state>>

Init == running = FALSE /\ state = "idle"

Call ==
  /\ state \in {"idle", "returned", "raised"} /\ state' = "calling"
  /\ UNCHANGED running

\* start_detached_once on a step that is at work.
Attach ==
  /\ state = "calling" /\ running /\ state' = "waiting"
  /\ UNCHANGED running

Launch ==
  /\ state = "calling" /\ ~running
  /\ state' = "waiting" /\ running' = TRUE

\* The call ends before its wait; a launch whose answer was lost may have run.
Refuse ==
  /\ state = "calling" /\ state' = "raised"
  /\ running' \in {running, TRUE}

\* Fault: the wait ends without having seen the step gone.
ReturnUnverified ==
  /\ state = "waiting" /\ state' = "returned"
  /\ UNCHANGED running

Return ==
  /\ state = "waiting" /\ ~running
  /\ state' = "returned"
  /\ UNCHANGED running

GiveUp ==
  /\ state = "waiting" /\ state' = "raised"
  /\ UNCHANGED running

\* aXs itself is gone.
Abort ==
  /\ state \in {"calling", "waiting"} /\ state' = "idle"
  /\ UNCHANGED running

\* The step ends by itself, is killed, or the bootstrap reboots.
Ends ==
  /\ running /\ running' = FALSE
  /\ UNCHANGED state

Next ==
  \/ Call \/ Attach \/ Launch \/ Refuse \/ Return \/ GiveUp \/ Abort \/ Ends

Spec == Init /\ [][Next]_vars
=============================================================================
