-------------------------------- MODULE Walk --------------------------------
(***************************************************************************)
(* What both engines keep while they walk the phase table, and what they   *)
(* do alike: a phase waits for what it needs, runs, and returns or raises. *)
(***************************************************************************)
EXTENDS Phases

VARIABLES
  live,    \* the phases that are complete on the live system
  done,    \* the phases the engine holds for complete
  at,      \* the phase the loop is at
  pc,      \* "probe", "turn", "running", "confirm", "complete", "stopped"
  calm     \* from here on every probe answers and every run succeeds

Ended == pc \in {"complete", "stopped"}

WalkTypeOK ==
  /\ live \subseteq Phase /\ done \subseteq Phase
  /\ at \in Phase
  /\ pc \in {"probe", "turn", "running", "confirm", "complete", "stopped"}
  /\ calm \in BOOLEAN

WalkInit ==
  /\ live \in SUBSET Phase /\ calm = FALSE
  /\ done = {} /\ at = 1 /\ pc = "probe"

\* Fault: the dependencies are not checked.
MissingNothing(n) == {}
\* Fault: the graph walked the wrong way.
MissingDependents(n) == Dependents(n) \ done

\* What n still needs, as far as the engine knows.
Missing(n) == Deps[n] \ done

\* The phase returns, or raises; either way it may have changed the cluster.
RunReturns ==
  /\ pc = "running"
  /\ live' \in Outcomes(at, live, calm)
  /\ pc' \in IF calm THEN {"confirm"} ELSE {"confirm", "stopped"}
  /\ UNCHANGED <<done, at, calm>>

\* How a deploy stands, as Deploy has it.
Status == IF Ended THEN pc ELSE "deploying"
=============================================================================
