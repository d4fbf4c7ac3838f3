------------------------------- MODULE Deploy -------------------------------
(***************************************************************************)
(* What `axs deploy` promises, whichever front end runs it: a phase is run *)
(* only on phases that are complete at that moment, and a deploy that ends *)
(* green leaves every phase it was asked for complete.                     *)
(***************************************************************************)
EXTENDS Phases

VARIABLES
  live,     \* the phases that are complete on the live system
  target,   \* the phases this deploy is to complete
  status    \* "deploying", "complete" or "stopped"

vars == <<live, target, status>>

Targets == {Phase} \cup {{n} : n \in Phase}

Init ==
  /\ live \in SUBSET Phase
  /\ target \in Targets
  /\ status = "deploying"

Perform(n) ==
  /\ status = "deploying"
  /\ Deps[n] \subseteq live
  /\ live' \in Outcomes(n, live, FALSE)
  /\ status' \in {"deploying", "stopped"}
  /\ UNCHANGED target

Complete ==
  /\ status = "deploying" /\ target \subseteq live
  /\ status' = "complete"
  /\ UNCHANGED <<live, target>>

Stop ==
  /\ status = "deploying" /\ status' = "stopped"
  /\ UNCHANGED <<live, target>>

Restart ==
  /\ status # "deploying" /\ status' = "deploying"
  /\ target' \in Targets
  /\ UNCHANGED live

Next == (\E n \in Phase : Perform(n)) \/ Complete \/ Stop \/ Restart

Spec == Init /\ [][Next]_vars
=============================================================================
