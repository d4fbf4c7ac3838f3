---------------------------- MODULE PlainEngine -----------------------------
(***************************************************************************)
(* The plain engine (cli._deploy_locked): probe every phase, then walk the *)
(* table, asking again wherever a phase below one that ran was probed too  *)
(* early.                                                                  *)
(***************************************************************************)
EXTENDS Walk

VARIABLES
  only,    \* --phase, or 0 for the whole table
  force,   \* --force
  stale    \* the phases whose answer predates a run above them

loop      == <<done, stale, at, pc>>
plainVars == <<live, only, force, loop, calm>>

PlainTypeOK ==
  /\ WalkTypeOK
  /\ stale \subseteq Phase
  /\ only \in {0} \cup Phase /\ force \in BOOLEAN

PlainInit ==
  /\ WalkInit
  /\ only \in {0} \cup Phase /\ force \in BOOLEAN
  /\ stale = {}

PlainStop == pc' = "stopped" /\ UNCHANGED <<done, stale, at>>

\* The up-front round asks every phase, whatever --phase says; --force then
\* forgets the answer of the phase the operator named, and of no other.
PlainProbeRound ==
  /\ pc = "probe"
  /\ \E answer \in Answers(at, live, calm) :
       \/ answer = "raised" /\ PlainStop
       \/ /\ answer # "raised"
          /\ LET found == IF answer = "done" THEN done \cup {at} ELSE done
             IN  IF at < NPhases
                 THEN /\ done' = found
                      /\ at' = at + 1 /\ pc' = pc
                 ELSE /\ done' = IF force THEN found \ {only} ELSE found
                      /\ at' = IF only = 0 THEN 1 ELSE only
                      /\ pc' = "turn"
          /\ UNCHANGED stale
  /\ UNCHANGED <<live, only, force, calm>>

\* Fault: a second answer of "open" does not take back the first "done".
RecheckKeepsDone ==
  /\ pc = "turn" /\ at \in stale
  /\ \E answer \in Answers(at, live, calm) :
       \/ answer = "raised" /\ PlainStop
       \/ /\ answer # "raised"
          /\ done' = IF answer = "done" THEN done \cup {at} ELSE done
          /\ stale' = stale \ {at}
          /\ UNCHANGED <<at, pc>>
  /\ UNCHANGED <<live, only, force, calm>>

\* Ask again: the first answer describes a cluster that no longer exists.
Recheck ==
  /\ pc = "turn" /\ at \in stale
  /\ \E answer \in Answers(at, live, calm) :
       \/ answer = "raised" /\ PlainStop
       \/ /\ answer # "raised"
          /\ done' = IF answer = "done" THEN done \cup {at} ELSE done \ {at}
          /\ stale' = stale \ {at}
          /\ UNCHANGED <<at, pc>>
  /\ UNCHANGED <<live, only, force, calm>>

\* Fault: the loop runs past the table.
AdvanceAlways == pc' = "turn" /\ at' = at + 1

\* --phase has a table of one; the end of the table is exit 0.
PlainAdvance ==
  IF only # 0 \/ at = NPhases
  THEN pc' = "complete" /\ at' = at
  ELSE pc' = "turn" /\ at' = at + 1

PlainSkip ==
  /\ pc = "turn" /\ at \notin stale
  /\ at \in done
  /\ PlainAdvance
  /\ UNCHANGED <<live, only, force, done, stale, calm>>

Waits ==
  /\ pc = "turn" /\ at \notin stale
  /\ at \notin done /\ Missing(at) # {}
  /\ PlainStop
  /\ UNCHANGED <<live, only, force, calm>>

PlainBegin ==
  /\ pc = "turn" /\ at \notin stale
  /\ at \notin done /\ Missing(at) = {}
  /\ pc' = "running"
  /\ UNCHANGED <<live, only, force, done, stale, at, calm>>

PlainRunEnds == RunReturns /\ UNCHANGED <<only, force, stale>>

\* Fault: what depends on the phase keeps its early answer.
ConfirmWithoutStale ==
  /\ pc = "confirm"
  /\ \E answer \in Answers(at, live, calm) :
       \/ answer # "done" /\ PlainStop
       \/ /\ answer = "done"
          /\ done' = done \cup {at}
          /\ PlainAdvance
          /\ UNCHANGED stale
  /\ UNCHANGED <<live, only, force, calm>>

\* A run counts once its own probe agrees, and what depends on it was probed
\* too early.
PlainConfirm ==
  /\ pc = "confirm"
  /\ \E answer \in Answers(at, live, calm) :
       \/ answer # "done" /\ PlainStop
       \/ /\ answer = "done"
          /\ done' = done \cup {at}
          /\ stale' = stale \cup Dependents(at)
          /\ PlainAdvance
  /\ UNCHANGED <<live, only, force, calm>>

\* Another `axs deploy`: nothing is remembered but the live system.
PlainRestart ==
  /\ Ended /\ pc' = "probe"
  /\ done' = {} /\ stale' = {} /\ at' = 1
  /\ only' \in IF calm THEN {0} ELSE {0} \cup Phase
  /\ force' \in IF calm THEN {FALSE} ELSE BOOLEAN
  /\ UNCHANGED <<live, calm>>

PlainBecalm ==
  /\ ~calm /\ calm' = TRUE
  /\ UNCHANGED <<live, only, force, loop>>

PlainStep ==
  \/ PlainProbeRound \/ Recheck \/ PlainSkip \/ Waits
  \/ PlainBegin \/ PlainRunEnds \/ PlainConfirm \/ PlainRestart

PlainNext == PlainStep \/ PlainBecalm

PlainSpec == PlainInit /\ [][PlainNext]_plainVars

\* The engine keeps going and the operator runs it again; calm may never come.
PlainFairSpec == PlainSpec /\ WF_plainVars(PlainStep)

-----------------------------------------------------------------------------

\* A deploy that exits 0 has every phase it was asked for complete on the live
\* system at that moment: none was passed over on an answer that a run of this
\* same deploy had made untrue.
GreenMeansLive ==
  pc = "complete" => (IF only = 0 THEN Phase ELSE {only}) \subseteq live

\* A phase runs only while every phase it needs is complete.
RunsOnCompleted == pc = "running" => Deps[at] \subseteq live

\* The plain engine keeps the promise of both front ends.
PlainPromise == INSTANCE Deploy WITH
  target <- IF only = 0 THEN Phase ELSE {only},
  status <- Status
PlainKeepsPromise == PlainPromise!Spec

\* Once nothing fails any more, running the deploy again ends green: a phase
\* never undoes one above it, so every pass gets further than the one before.
PlainConverges == calm ~> (pc = "complete" /\ live = Phase)
=============================================================================
