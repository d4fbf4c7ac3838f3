------------------------------- MODULE Phases -------------------------------
(***************************************************************************)
(* The phase table both engines walk, and what a phase's probe and run     *)
(* mean to them.  Phases are numbered in the order of the table.           *)
(***************************************************************************)
EXTENDS Naturals

CONSTANTS
  NPhases,   \* the length of the table
  Deps,      \* DEPS: the phases a phase needs
  Disturbs   \* what a phase's run may undo in other phases

Phase == 1..NPhases

\* phases.dependents: whoever depends on n, directly or transitively, that is,
\* whatever every set closed under "needs one of these" contains with n.
Dependents(n) ==
  {m \in Phase \ {n} :
     \A S \in SUBSET Phase :
       n \in S /\ (\A x \in Phase : Deps[x] \cap S # {} => x \in S) => m \in S}

\* A phase needs only phases above it in the table, and its run undoes, at
\* most, phases that depend on it.
ASSUME PhasesAssumption ==
  /\ NPhases \in Nat \ {0}
  /\ Deps \in [Phase -> SUBSET Phase]
  /\ \A n \in Phase : \A d \in Deps[n] : d < n
  /\ Disturbs \in [Phase -> SUBSET Phase]
  /\ \A n \in Phase : Disturbs[n] \subseteq Dependents(n)

\* What the probe of n may say of the live system: never "done" wrongly, but
\* "open" when it could not ask, and it may raise.
Answers(n, live, calm) ==
  IF calm THEN {IF n \in live THEN "done" ELSE "open"}
  ELSE {"open", "raised"} \cup (IF n \in live THEN {"done"} ELSE {})

\* What a run of n may leave behind: n complete or not, and some of what it
\* disturbs undone.
Outcomes(n, live, calm) ==
  LET kept == {live \ lost : lost \in SUBSET Disturbs[n]}
  IN  {k \cup {n} : k \in kept} \cup (IF calm THEN {} ELSE {k \ {n} : k \in kept})
=============================================================================
