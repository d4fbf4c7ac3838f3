----------------------------- MODULE TuiEngine ------------------------------
(***************************************************************************)
(* The TUI engine (tui_deploy._engine): probe a phase only when what it    *)
(* needs is complete, ask the others right before their turn.              *)
(***************************************************************************)
EXTENDS Walk

VARIABLES
  unprobed,  \* the phases the probe round did not ask
  broken,    \* the phases whose probe raised
  ran,       \* the phases whose run this engine started
  unchanged  \* the outcome shown says "Nothing was changed"

engine == <<done, unprobed, broken, ran, at, pc, unchanged>>
vars   == <<live, engine, calm>>

TypeOK ==
  /\ WalkTypeOK
  /\ unprobed \subseteq Phase /\ broken \subseteq Phase /\ ran \subseteq Phase
  /\ unchanged \in BOOLEAN

Init ==
  /\ WalkInit
  /\ unprobed = {} /\ broken = {} /\ ran = {} /\ unchanged = FALSE

\* probe_of: a probe that raises is kept apart from one that says "open".
Hear(answer) ==
  /\ done'   = IF answer = "done" THEN done \cup {at} ELSE done
  /\ broken' = IF answer = "raised" THEN broken \cup {at} ELSE broken

NextProbe ==
  IF at < NPhases THEN at' = at + 1 /\ pc' = pc ELSE at' = 1 /\ pc' = "turn"

Postpone ==
  /\ pc = "probe" /\ Missing(at) # {}
  /\ unprobed' = unprobed \cup {at}
  /\ NextProbe
  /\ UNCHANGED <<live, done, broken, ran, unchanged, calm>>

ProbeRound ==
  /\ pc = "probe" /\ Missing(at) = {}
  /\ \E answer \in Answers(at, live, calm) : Hear(answer)
  /\ NextProbe
  /\ UNCHANGED <<live, unprobed, ran, unchanged, calm>>

Advance ==
  IF at = NPhases THEN pc' = "complete" /\ at' = at
                  ELSE pc' = "turn" /\ at' = at + 1

Stop == pc' = "stopped" /\ UNCHANGED <<done, unprobed, ran, at>>

Skip ==
  /\ pc = "turn" /\ at \in done
  /\ Advance
  /\ UNCHANGED <<live, done, unprobed, broken, ran, unchanged, calm>>

\* The resume case: what was not asked yet may be complete already.
LateProbe ==
  /\ pc = "turn" /\ at \notin done /\ Missing(at) = {}
  /\ at \in unprobed /\ unprobed' = unprobed \ {at}
  /\ \E answer \in Answers(at, live, calm) : Hear(answer)
  /\ UNCHANGED <<live, ran, at, pc, unchanged, calm>>

\* Fault: a broken probe is passed over instead of ending the deploy.
BrokenProbePassedOver ==
  /\ pc = "turn" /\ at \notin done /\ Missing(at) = {}
  /\ at \notin unprobed /\ at \in broken
  /\ Advance
  /\ UNCHANGED <<live, done, unprobed, broken, ran, unchanged, calm>>

\* The outcome shown says that nothing was changed.
BrokenProbe ==
  /\ pc = "turn" /\ at \notin done /\ Missing(at) = {}
  /\ at \notin unprobed /\ at \in broken
  /\ Stop /\ unchanged' = TRUE
  /\ UNCHANGED <<live, broken, calm>>

\* Fault: a probe that raised reads as one that said "open".
BeginOnBroken ==
  /\ pc = "turn" /\ at \notin done /\ Missing(at) = {}
  /\ at \notin unprobed
  /\ pc' = "running" /\ ran' = ran \cup {at}
  /\ UNCHANGED <<live, done, unprobed, broken, at, unchanged, calm>>

Begin ==
  /\ pc = "turn" /\ at \notin done /\ Missing(at) = {}
  /\ at \notin unprobed /\ at \notin broken
  /\ pc' = "running" /\ ran' = ran \cup {at}
  /\ UNCHANGED <<live, done, unprobed, broken, at, unchanged, calm>>

RunEnds == RunReturns /\ UNCHANGED <<unprobed, broken, ran, unchanged>>

\* Fault: a run that returned counts, whatever its probe says.
ConfirmUnread ==
  /\ pc = "confirm"
  /\ done' = done \cup {at}
  /\ Advance
  /\ UNCHANGED <<live, unprobed, broken, ran, unchanged, calm>>

Confirm ==
  /\ pc = "confirm"
  /\ \E answer \in Answers(at, live, calm) :
       \/ answer # "done" /\ Stop
       \/ /\ answer = "done"
          /\ done' = done \cup {at}
          /\ Advance
          /\ UNCHANGED <<unprobed, ran>>
  /\ UNCHANGED <<live, broken, unchanged, calm>>

\* Fault: what broke stays broken across Retry.
RestartBroken ==
  /\ Ended /\ pc' = "probe"
  /\ done' = {} /\ unprobed' = {} /\ broken' = broken /\ ran' = {} /\ at' = 1
  /\ unchanged' = FALSE
  /\ UNCHANGED <<live, calm>>

\* Retry, or another `axs deploy`: the new engine remembers nothing.
Restart ==
  /\ Ended /\ pc' = "probe"
  /\ done' = {} /\ unprobed' = {} /\ broken' = {} /\ ran' = {} /\ at' = 1
  /\ unchanged' = FALSE
  /\ UNCHANGED <<live, calm>>

Becalm ==
  /\ ~calm /\ calm' = TRUE
  /\ UNCHANGED <<live, engine>>

Engine ==
  \/ Postpone \/ ProbeRound \/ Skip \/ LateProbe \/ BrokenProbe
  \/ Begin \/ RunEnds \/ Confirm \/ Restart

Next == Engine \/ Becalm

Spec == Init /\ [][Next]_vars

\* The engine keeps going and the operator presses Retry; calm may never come.
FairSpec == Spec /\ WF_vars(Engine)

-----------------------------------------------------------------------------

\* What phases.dependents says makes a second look unnecessary here: a phase
\* the engine holds for complete is complete, whatever ran since it was asked.
DoneIsLive == done \subseteq live

\* The check of DEPS in the run loop never stops it: at its turn a phase finds
\* everything it needs complete, for an open phase above it ended the deploy.
TurnsFindDepsDone == pc = "turn" /\ at \notin done => Missing(at) = {}

\* No phase runs on the strength of a probe that crashed.
NoRunOnBrokenProbe == pc = "running" => at \notin broken

\* The TUI keeps the promise of both front ends.
Promise == INSTANCE Deploy WITH
  target <- Phase,
  status <- Status
KeepsPromise == Promise!Spec

\* Once nothing fails any more, Retry ends green.
Converges == calm ~> (pc = "complete" /\ live = Phase)

\* An outcome that says nothing was changed comes from an engine that ran no
\* phase.
SaidUnchangedIsTrue == unchanged => ran = {}
=============================================================================
