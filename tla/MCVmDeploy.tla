----------------------------- MODULE MCVmDeploy -----------------------------
(* VmDeploy with two processes and two nodes.                              *)
EXTENDS VmDeploy

\* The first node has a namesake that runs, in another folder.
MCElsewhere == <<"on", "none">>

\* One of the two is quit at work.
MCHabits ==
  [p \in Processes |-> IF p = CHOOSE q \in Processes : TRUE
                       THEN {"quit", "interrupt", "kill"} ELSE {"interrupt", "kill"}]
=============================================================================
