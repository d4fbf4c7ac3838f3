---------------------------- MODULE EngineProofs ----------------------------
(***************************************************************************)
(* Both engines, for every phase table: each keeps the invariants its run  *)
(* checks on five phases, and implements Deploy.                           *)
(***************************************************************************)
EXTENDS PlainEngine, TuiEngine, TLAPS

-----------------------------------------------------------------------------
(* The phase table.                                                        *)

\* An open phase has no dependent among phases that are closed under DEPS:
\* whatever depends on it, however indirectly, is not one of them.
LEMMA DependentsStayOut ==
  ASSUME NEW n \in Phase, NEW C \in SUBSET Phase,
         \A m \in C : Deps[m] \subseteq C,
         n \notin C
  PROVE  Dependents(n) \cap C = {}
<1> DEFINE S == Phase \ C
<1>1. S \in SUBSET Phase /\ n \in S
  OBVIOUS
<1>2. \A x \in Phase : Deps[x] \cap S # {} => x \in S
  OBVIOUS
<1>3. \A m \in Dependents(n) : m \in S
  BY <1>1, <1>2 DEF Dependents
<1> QED BY <1>3

\* Whatever depends on a phase stands below it in the table.
LEMMA DependentsComeLater ==
  ASSUME NEW n \in Phase, NEW m \in Dependents(n)
  PROVE  m \in Phase /\ m > n
<1> DEFINE S == n..NPhases
<1>1. NPhases \in Nat /\ n \in Nat /\ n >= 1 /\ n <= NPhases
  BY PhasesAssumption DEF Phase
<1>2. S \in SUBSET Phase /\ n \in S
  BY <1>1 DEF Phase
<1>3. ASSUME NEW x \in Phase, Deps[x] \cap S # {}
      PROVE  x \in S
  <2>1. PICK d \in Deps[x] : d \in S
    BY <1>3
  <2>2. d < x
    BY PhasesAssumption
  <2> QED BY <1>1, <2>1, <2>2 DEF Phase
<1>4. m \in Phase \ {n} /\ m \in S
  BY <1>2, <1>3 DEF Dependents
<1> QED BY <1>1, <1>4 DEF Phase

\* A run completes or spoils its own phase, and undoes at most its dependents.
LEMMA OutcomesSpareTheRest ==
  ASSUME NEW n \in Phase, NEW l \in SUBSET Phase, NEW c \in BOOLEAN,
         NEW after \in Outcomes(n, l, c)
  PROVE  /\ after \in SUBSET Phase
         /\ l \ after \subseteq Dependents(n) \cup {n}
         /\ after \in Outcomes(n, l, FALSE)
<1>1. PICK lost \in SUBSET Disturbs[n] :
        after = (l \ lost) \cup {n} \/ after = (l \ lost) \ {n}
  BY DEF Outcomes
<1>2. Disturbs[n] \subseteq Dependents(n)
  BY PhasesAssumption
<1>3. after \in Outcomes(n, l, FALSE)
  BY <1>1 DEF Outcomes
<1> QED BY <1>1, <1>2, <1>3

-----------------------------------------------------------------------------
(* The TUI engine.                                                         *)

\* What the engine holds for complete is closed under DEPS, so that no run of
\* an open phase can undo any of it.
DoneIsClosed == \A m \in done : Deps[m] \subseteq done

\* The loop leaves nothing open behind it.
Walked ==
  /\ pc \in {"turn", "running", "confirm"} => 1..(at - 1) \subseteq done
  /\ pc = "complete" => done = Phase

InHandIsOpen == pc \in {"running", "confirm"} => at \notin done

IInv == TypeOK /\ DoneIsLive /\ DoneIsClosed /\ Walked /\ InHandIsOpen

\* Everything the phase at hand needs is behind the loop.
LEMMA DepsAreBehind ==
  ASSUME NEW n \in Phase
  PROVE  Deps[n] \subseteq 1..(n - 1)
BY PhasesAssumption DEF Phase

\* The position and the length of the table are numbers.
LEMMA AtIsNat ==
  WalkTypeOK => at \in Nat /\ at >= 1 /\ at <= NPhases /\ NPhases \in Nat
BY PhasesAssumption DEF WalkTypeOK, Phase

\* A new engine satisfies the invariant.
LEMMA InitIInv == Init => IInv
<1> SUFFICES ASSUME Init PROVE IInv
  OBVIOUS
<1>1. 1 \in Phase
  BY PhasesAssumption DEF Phase
<1>2. TypeOK
  BY <1>1 DEF Init, WalkInit, TypeOK, WalkTypeOK
<1>3. DoneIsLive /\ DoneIsClosed /\ Walked /\ InHandIsOpen
  BY DEF Init, WalkInit, DoneIsLive, DoneIsClosed, Walked, InHandIsOpen
<1> QED BY <1>2, <1>3 DEF IInv

\* Going on to the next phase, or to the end, once the one at hand is done.
LEMMA AdvanceWalks ==
  ASSUME TypeOK, Advance, at \in done', done' \subseteq Phase,
         1..(at - 1) \subseteq done'
  PROVE  /\ at' \in Phase /\ pc' \in {"turn", "complete"}
         /\ Walked' /\ InHandIsOpen'
<1>1. at \in Nat /\ at >= 1 /\ at <= NPhases /\ NPhases \in Nat
  BY AtIsNat DEF TypeOK
<1>2. 1..at \subseteq done'
  BY <1>1
<1>3. CASE at = NPhases
  BY <1>1, <1>2, <1>3 DEF Advance, Walked, InHandIsOpen, Phase
<1>4. CASE at # NPhases
  <2>1. pc' = "turn" /\ at' = at + 1 /\ at' \in Phase /\ at' - 1 = at
    BY <1>1, <1>4 DEF Advance, Phase
  <2> QED BY <1>2, <2>1 DEF Walked, InHandIsOpen
<1> QED BY <1>3, <1>4

\* An answer about a phase with nothing missing keeps what done stands for.
LEMMA HearingIsSafe ==
  ASSUME IInv, Missing(at) = {}, UNCHANGED live,
         NEW answer \in Answers(at, live, calm), Hear(answer)
  PROVE  /\ done' \subseteq Phase /\ broken' \subseteq Phase
         /\ DoneIsLive' /\ DoneIsClosed'
         /\ done' \subseteq done \cup {at} /\ done \subseteq done'
<1>1. at \in Phase /\ live \subseteq Phase
  BY DEF IInv, TypeOK, WalkTypeOK
<1>2. answer = "done" => at \in live
  BY DEF Answers
<1>3. done' \subseteq done \cup {at} /\ done \subseteq done'
  BY DEF Hear
<1>4. DoneIsLive'
  BY <1>2 DEF Hear, IInv, DoneIsLive
<1>5. DoneIsClosed'
  BY DEF Hear, IInv, DoneIsClosed, Missing
<1> QED BY <1>1, <1>3, <1>4, <1>5 DEF Hear, IInv, TypeOK, WalkTypeOK

\* A run of the phase at hand undoes nothing the engine holds for complete.
LEMMA RunIsSafe ==
  ASSUME IInv, RunEnds
  PROVE  live' \subseteq Phase /\ DoneIsLive'
<1>1. at \in Phase /\ live \in SUBSET Phase /\ calm \in BOOLEAN
      /\ done \in SUBSET Phase /\ at \notin done
  BY DEF IInv, TypeOK, WalkTypeOK, RunEnds, RunReturns, InHandIsOpen
<1>2. live' \in Outcomes(at, live, calm) /\ done' = done
  BY DEF RunEnds, RunReturns
<1>3. Dependents(at) \cap done = {}
  BY <1>1, DependentsStayOut DEF IInv, DoneIsClosed
<1>4. live' \in SUBSET Phase /\ live \ live' \subseteq Dependents(at) \cup {at}
  BY <1>1, <1>2, OutcomesSpareTheRest
<1> QED BY <1>1, <1>2, <1>3, <1>4 DEF IInv, DoneIsLive

\* Every step keeps the invariant.
LEMMA NextIInv == IInv /\ [Next]_vars => IInv'
<1> SUFFICES ASSUME IInv, [Next]_vars PROVE IInv'
  OBVIOUS
<1> USE DEF IInv
<1>0. at \in Nat /\ at >= 1 /\ at <= NPhases /\ NPhases \in Nat
  BY AtIsNat DEF TypeOK
<1>1. ASSUME NextProbe
      PROVE  at' \in Phase /\ pc' \in {"probe", "turn"} \cup {pc}
             /\ (pc = "probe" /\ pc' = "turn" => at' = 1)
  BY <1>0, <1>1 DEF NextProbe, Phase
<1>2. CASE Postpone
  <2>1. TypeOK'
    BY <1>1, <1>2 DEF Postpone, TypeOK, WalkTypeOK
  <2>2. DoneIsLive' /\ DoneIsClosed'
    BY <1>2 DEF Postpone, DoneIsLive, DoneIsClosed
  <2>3. Walked' /\ InHandIsOpen'
    BY <1>1, <1>2 DEF Postpone, NextProbe, Walked, InHandIsOpen
  <2> QED BY <2>1, <2>2, <2>3
<1>3. CASE ProbeRound
  <2>1. PICK answer \in Answers(at, live, calm) : Hear(answer)
    BY <1>3 DEF ProbeRound
  <2>2. /\ done' \subseteq Phase /\ broken' \subseteq Phase
        /\ DoneIsLive' /\ DoneIsClosed'
    BY <1>3, <2>1, HearingIsSafe DEF ProbeRound
  <2>3. TypeOK'
    BY <1>1, <1>3, <2>2 DEF ProbeRound, TypeOK, WalkTypeOK
  <2>4. Walked' /\ InHandIsOpen'
    BY <1>1, <1>3 DEF ProbeRound, NextProbe, Walked, InHandIsOpen
  <2> QED BY <2>2, <2>3, <2>4
<1>4. CASE Skip
  <2>1. done' \subseteq Phase /\ 1..(at - 1) \subseteq done' /\ at \in done'
    BY <1>4 DEF Skip, TypeOK, WalkTypeOK, Walked
  <2>2. /\ at' \in Phase /\ pc' \in {"turn", "complete"}
        /\ Walked' /\ InHandIsOpen'
    BY <1>4, <2>1, AdvanceWalks DEF Skip
  <2>3. TypeOK' /\ DoneIsLive' /\ DoneIsClosed'
    BY <1>4, <2>2 DEF Skip, TypeOK, WalkTypeOK, DoneIsLive, DoneIsClosed
  <2> QED BY <2>2, <2>3
<1>5. CASE LateProbe
  <2>1. PICK answer \in Answers(at, live, calm) : Hear(answer)
    BY <1>5 DEF LateProbe
  <2>2. /\ done' \subseteq Phase /\ broken' \subseteq Phase
        /\ DoneIsLive' /\ DoneIsClosed' /\ done \subseteq done'
    BY <1>5, <2>1, HearingIsSafe DEF LateProbe
  <2>3. TypeOK'
    BY <1>5, <2>2 DEF LateProbe, TypeOK, WalkTypeOK
  <2>4. Walked' /\ InHandIsOpen'
    BY <1>5, <2>2 DEF LateProbe, Walked, InHandIsOpen
  <2> QED BY <2>2, <2>3, <2>4
<1>6. CASE BrokenProbe
  BY <1>6 DEF BrokenProbe, Stop, TypeOK, WalkTypeOK, DoneIsLive, DoneIsClosed,
     Walked, InHandIsOpen
<1>7. CASE Begin
  <2>1. TypeOK' /\ DoneIsLive' /\ DoneIsClosed'
    BY <1>7 DEF Begin, TypeOK, WalkTypeOK, DoneIsLive, DoneIsClosed
  <2>2. Walked' /\ InHandIsOpen'
    BY <1>7 DEF Begin, Walked, InHandIsOpen
  <2> QED BY <2>1, <2>2
<1>8. CASE RunEnds
  <2>1. live' \subseteq Phase /\ DoneIsLive'
    BY <1>8, RunIsSafe
  <2>2. TypeOK'
    BY <1>8, <2>1 DEF RunEnds, RunReturns, TypeOK, WalkTypeOK
  <2>3. DoneIsClosed' /\ Walked' /\ InHandIsOpen'
    BY <1>8 DEF RunEnds, RunReturns, DoneIsClosed, Walked, InHandIsOpen
  <2> QED BY <2>1, <2>2, <2>3
<1>9. CASE Confirm
  <2>1. PICK answer \in Answers(at, live, calm) :
          \/ answer # "done" /\ Stop
          \/ /\ answer = "done" /\ done' = done \cup {at}
             /\ Advance /\ UNCHANGED <<unprobed, ran>>
    BY <1>9 DEF Confirm
  <2>2. CASE answer # "done" /\ Stop
    BY <1>9, <2>2 DEF Confirm, Stop, TypeOK, WalkTypeOK, DoneIsLive,
       DoneIsClosed, Walked, InHandIsOpen
  <2>3. CASE /\ answer = "done" /\ done' = done \cup {at}
             /\ Advance /\ UNCHANGED <<unprobed, ran>>
    <3>1. at \in live
      BY <2>1, <2>3 DEF Answers
    <3>2. at \in Phase /\ done' \subseteq Phase /\ at \in done'
          /\ 1..(at - 1) \subseteq done'
      BY <1>9, <2>3 DEF Confirm, TypeOK, WalkTypeOK, Walked
    <3>3. /\ at' \in Phase /\ pc' \in {"turn", "complete"}
          /\ Walked' /\ InHandIsOpen'
      BY <2>3, <3>2, AdvanceWalks
    <3>4. TypeOK'
      BY <1>9, <2>3, <3>2, <3>3 DEF Confirm, TypeOK, WalkTypeOK
    <3>5. DoneIsLive'
      BY <1>9, <2>3, <3>1 DEF Confirm, DoneIsLive
    <3>6. DoneIsClosed'
      <4>1. Deps[at] \subseteq 1..(at - 1)
        BY <3>2, DepsAreBehind
      <4>2. \A m \in done : Deps[m] \subseteq done
        BY DEF DoneIsClosed
      <4> QED BY <2>3, <3>2, <4>1, <4>2 DEF DoneIsClosed
    <3> QED BY <3>3, <3>4, <3>5, <3>6
  <2> QED BY <2>1, <2>2, <2>3
<1>10. CASE Restart
  <2>1. 1 \in Phase
    BY <1>0 DEF Phase
  <2>2. TypeOK'
    BY <1>10, <2>1 DEF Restart, Ended, TypeOK, WalkTypeOK
  <2>3. DoneIsLive' /\ DoneIsClosed' /\ Walked' /\ InHandIsOpen'
    BY <1>10 DEF Restart, Ended, DoneIsLive, DoneIsClosed, Walked, InHandIsOpen
  <2> QED BY <2>2, <2>3
<1>11. CASE Becalm
  BY <1>11 DEF Becalm, engine, TypeOK, WalkTypeOK, DoneIsLive, DoneIsClosed,
     Walked, InHandIsOpen
<1>12. CASE UNCHANGED vars
  BY <1>12 DEF vars, engine, TypeOK, WalkTypeOK, DoneIsLive, DoneIsClosed,
     Walked, InHandIsOpen
<1> QED
  BY <1>2, <1>3, <1>4, <1>5, <1>6, <1>7, <1>8, <1>9, <1>10, <1>11, <1>12 DEF
     Next, Engine

\* What the TUI engine holds for complete is complete, and everything the
\* phase at hand needs is behind it: the invariant the results rest on.
THEOREM Invariance == Spec => []IInv
BY InitIInv, NextIInv, PTL DEF Spec

-----------------------------------------------------------------------------

\* The TUI engine's variables always have their types.
THEOREM TypeCorrect == Spec => []TypeOK
BY Invariance, PTL DEF IInv

\* A phase the TUI engine holds for complete is complete on the live system,
\* for every phase table and whatever its runs undo below them.
THEOREM DoneStaysLive == Spec => []DoneIsLive
BY Invariance, PTL DEF IInv

\* The check of DEPS in the TUI's run loop cannot fail.
THEOREM NothingMissingAtItsTurn == Spec => []TurnsFindDepsDone
<1>1. IInv => TurnsFindDepsDone
  <2> SUFFICES ASSUME IInv, pc = "turn" PROVE Missing(at) = {}
    BY DEF TurnsFindDepsDone
  <2>1. at \in Phase /\ 1..(at - 1) \subseteq done
    BY DEF IInv, TypeOK, WalkTypeOK, Walked
  <2>2. Deps[at] \subseteq 1..(at - 1)
    BY <2>1, DepsAreBehind
  <2> QED BY <2>1, <2>2 DEF Missing
<1> QED BY <1>1, Invariance, PTL

\* No phase runs whose probe raised: such a probe ends the deploy before the
\* run, and none is made while a phase runs.
THEOREM BrokenProbesStop == Spec => []NoRunOnBrokenProbe
<1>1. Init => NoRunOnBrokenProbe
  BY DEF Init, WalkInit, NoRunOnBrokenProbe
<1>2. NoRunOnBrokenProbe /\ [Next]_vars => NoRunOnBrokenProbe'
  <2> SUFFICES ASSUME NoRunOnBrokenProbe, [Next]_vars, pc' = "running"
               PROVE  at' \notin broken'
    BY DEF NoRunOnBrokenProbe
  <2>1. CASE Begin
    BY <2>1 DEF Begin
  <2>2. CASE Becalm \/ UNCHANGED vars
    BY <2>2 DEF Becalm, vars, engine, NoRunOnBrokenProbe
  <2>3. CASE Postpone \/ ProbeRound \/ Skip \/ Confirm
    BY <2>3 DEF Postpone, ProbeRound, NextProbe, Skip, Confirm, Advance, Stop
  <2>4. CASE LateProbe \/ BrokenProbe \/ RunEnds \/ Restart
    BY <2>4 DEF LateProbe, BrokenProbe, Stop, RunEnds, RunReturns, Restart,
       Ended
  <2> QED BY <2>1, <2>2, <2>3, <2>4 DEF Next, Engine
<1> QED BY <1>1, <1>2, PTL DEF Spec

-----------------------------------------------------------------------------
(* The TUI engine implements Deploy.                                       *)

USE DEF Promise!Phase, Phase, Promise!Outcomes, Outcomes, Status, Ended

\* A new engine is a new deploy of the whole table.
LEMMA InitPromised == Init => Promise!Init
BY DEF Init, WalkInit, Promise!Init, Promise!Targets

\* Every step of the engine is a step of Deploy, or none.
LEMMA NextPromised == IInv /\ [Next]_vars => [Promise!Next]_Promise!vars
<1> SUFFICES ASSUME IInv, [Next]_vars PROVE [Promise!Next]_Promise!vars
  OBVIOUS
<1> USE DEF Promise!Next, Promise!vars
<1>1. at \in 1..NPhases /\ done \subseteq live /\ calm \in BOOLEAN
      /\ live \in SUBSET Phase
  BY DEF IInv, TypeOK, WalkTypeOK, DoneIsLive
<1>2. CASE Postpone \/ ProbeRound
  BY <1>2 DEF Postpone, ProbeRound, NextProbe
<1>3. CASE Skip \/ Confirm
  <2>1. UNCHANGED live /\ pc \notin {"complete", "stopped"}
    BY <1>3 DEF Skip, Confirm
  <2>2. CASE pc' \notin {"complete", "stopped"}
    BY <2>1, <2>2
  <2>3. CASE pc' = "stopped"
    BY <2>1, <2>3 DEF Promise!Stop
  <2>4. CASE pc' = "complete"
    <3>1. IInv'
      BY NextIInv
    <3>2. 1..NPhases \subseteq live
      BY <2>1, <2>4, <3>1 DEF IInv, DoneIsLive, Walked
    <3> QED BY <2>1, <2>4, <3>2 DEF Promise!Complete
  <2> QED BY <2>2, <2>3, <2>4
<1>4. CASE LateProbe \/ Begin
  BY <1>4 DEF LateProbe, Begin
<1>5. CASE BrokenProbe
  BY <1>5 DEF BrokenProbe, Stop, Promise!Stop
<1>6. CASE RunEnds
  <2>1. Deps[at] \subseteq live
    <3>1. Deps[at] \subseteq 1..(at - 1)
      BY <1>1, DepsAreBehind
    <3>2. 1..(at - 1) \subseteq done
      BY <1>6 DEF RunEnds, RunReturns, IInv, Walked
    <3> QED BY <1>1, <3>1, <3>2
  <2>2. live' \in Outcomes(at, live, FALSE)
    <3> HIDE DEF Outcomes
    <3> QED BY <1>1, <1>6, OutcomesSpareTheRest DEF RunEnds, RunReturns
  <2>3. Promise!Perform(at)
    BY <1>6, <2>1, <2>2 DEF RunEnds, RunReturns, Promise!Perform
  <2> QED BY <1>1, <2>3
<1>7. CASE Restart
  BY <1>7 DEF Restart, Ended, Promise!Restart, Promise!Targets
<1>8. CASE Becalm \/ UNCHANGED vars
  BY <1>8 DEF Becalm, vars, engine
<1> QED
  BY <1>2, <1>3, <1>4, <1>5, <1>6, <1>7, <1>8 DEF Next, Engine

\* Every behaviour of the TUI engine is one Deploy allows: it runs a phase only
\* on complete ones, and shows "complete" only when every phase is.
THEOREM Implements == Spec => KeepsPromise
BY InitPromised, NextPromised, Invariance, PTL DEF Spec, KeepsPromise,
   Promise!Spec

-----------------------------------------------------------------------------
(* The plain engine.                                                       *)

HIDE DEF Phase, Outcomes, Status, Ended

\* Up front nothing has run yet, so every answer still holds.
RoundIsFresh == pc = "probe" => stale = {} /\ done \subseteq live

\* The loop asks again before it gets to a phase whose answer is too early.
StaleIsAhead ==
  /\ pc = "turn" => \A m \in stale : m >= at
  /\ pc \in {"running", "confirm"} => \A m \in stale : m > at

\* What the engine wrongly holds for complete, it will ask again: the core of
\* the argument.  Between a run and its Confirm the phases that run may have
\* undone are still to be marked.
DoubtsAreStale ==
  /\ pc \in {"turn", "running"} => done \ live \subseteq stale
  /\ pc = "confirm" => done \ live \subseteq stale \cup Dependents(at)

\* The whole table is walked without leaving anything open behind, and
\* --phase stays at its phase.
PlainWalked ==
  pc \in {"turn", "running", "confirm"} =>
    IF only = 0 THEN 1..(at - 1) \subseteq done ELSE at = only

InHand == pc \in {"running", "confirm"} => at \notin done /\ Deps[at] \subseteq done

PlainIInv ==
  /\ PlainTypeOK /\ RoundIsFresh /\ StaleIsAhead /\ DoubtsAreStale /\ PlainWalked
  /\ InHand /\ GreenMeansLive

\* A new engine satisfies the invariant.
LEMMA PlainInitIInv == PlainInit => PlainIInv
<1> SUFFICES ASSUME PlainInit PROVE PlainIInv
  OBVIOUS
<1>1. 1 \in Phase
  BY PhasesAssumption DEF Phase
<1>2. PlainTypeOK
  BY <1>1 DEF PlainInit, WalkInit, PlainTypeOK, WalkTypeOK
<1>3. /\ RoundIsFresh /\ StaleIsAhead /\ DoubtsAreStale /\ PlainWalked /\ InHand
      /\ GreenMeansLive
  BY DEF PlainInit, WalkInit, RoundIsFresh, StaleIsAhead, DoubtsAreStale,
     PlainWalked, InHand, GreenMeansLive
<1> QED BY <1>2, <1>3 DEF PlainIInv

\* Going on from a phase that is complete: what is in doubt lies ahead.
LEMMA AdvanceIsSafe ==
  ASSUME PlainTypeOK, PlainAdvance, UNCHANGED <<live, only>>,
         at \in done', at \in live,
         done' \subseteq Phase,
         stale' \subseteq Phase, \A m \in stale' : m > at,
         done' \ live \subseteq stale',
         IF only = 0 THEN 1..(at - 1) \subseteq done' ELSE at = only
  PROVE  /\ at' \in Phase /\ pc' \in {"turn", "complete"}
         /\ RoundIsFresh' /\ StaleIsAhead' /\ DoubtsAreStale' /\ PlainWalked'
         /\ InHand' /\ GreenMeansLive'
<1>1. at \in Nat /\ at >= 1 /\ at <= NPhases /\ NPhases \in Nat
  BY AtIsNat DEF PlainTypeOK
<1>2. CASE only # 0
  <2>1. pc' = "complete" /\ at' = at
    BY <1>2 DEF PlainAdvance
  <2> QED
    BY <1>2, <2>1 DEF PlainTypeOK, WalkTypeOK, RoundIsFresh, StaleIsAhead,
       DoubtsAreStale, PlainWalked, InHand, GreenMeansLive
<1>3. CASE only = 0 /\ at = NPhases
  <2>1. pc' = "complete" /\ at' = at
    BY <1>3 DEF PlainAdvance
  <2>2. Phase \subseteq done'
    BY <1>1, <1>3 DEF Phase
  <2>3. stale' = {}
    BY <1>1, <1>3 DEF Phase
  <2>4. GreenMeansLive'
    BY <1>3, <2>2, <2>3 DEF GreenMeansLive
  <2> QED
    BY <2>1, <2>4 DEF PlainTypeOK, WalkTypeOK, RoundIsFresh, StaleIsAhead,
       DoubtsAreStale, PlainWalked, InHand
<1>4. CASE only = 0 /\ at # NPhases
  <2>1. pc' = "turn" /\ at' = at + 1 /\ at' \in Phase
    BY <1>1, <1>4 DEF PlainAdvance, Phase
  <2>2. \A m \in stale' : m >= at'
    BY <1>1, <2>1 DEF Phase
  <2>3. 1..(at' - 1) \subseteq done'
    BY <1>1, <1>4, <2>1
  <2> QED
    BY <1>4, <2>1, <2>2, <2>3 DEF RoundIsFresh, StaleIsAhead, DoubtsAreStale,
       PlainWalked, InHand, GreenMeansLive
<1> QED BY <1>2, <1>3, <1>4

\* A deploy that stops promises nothing.
LEMMA StopIsSafe ==
  ASSUME PlainIInv, PlainStop, UNCHANGED <<live, only, force, calm>>
  PROVE  PlainIInv'
BY DEF PlainIInv, PlainStop, PlainTypeOK, WalkTypeOK, RoundIsFresh,
   StaleIsAhead, DoubtsAreStale, PlainWalked, InHand, GreenMeansLive

\* The probe round hears no wrong "done".
LEMMA RoundIsSafe == PlainIInv /\ PlainProbeRound => PlainIInv'
<1> SUFFICES ASSUME PlainIInv, PlainProbeRound PROVE PlainIInv'
  OBVIOUS
<1> DEFINE found(answer) == IF answer = "done" THEN done \cup {at} ELSE done
<1>1. PICK answer \in Answers(at, live, calm) :
        \/ answer = "raised" /\ PlainStop
        \/ /\ answer # "raised"
           /\ IF at < NPhases
              THEN done' = found(answer) /\ at' = at + 1 /\ pc' = pc
              ELSE /\ done' = IF force THEN found(answer) \ {only} ELSE found(answer)
                   /\ at' = IF only = 0 THEN 1 ELSE only
                   /\ pc' = "turn"
           /\ UNCHANGED stale
  BY DEF PlainProbeRound
<1>2. CASE answer = "raised" /\ PlainStop
  BY <1>2, StopIsSafe DEF PlainProbeRound
<1>3. CASE answer # "raised"
  <2>1. at \in Nat /\ at >= 1 /\ at <= NPhases /\ NPhases \in Nat
    BY AtIsNat DEF PlainIInv, PlainTypeOK
  <2>2. /\ pc = "probe" /\ stale = {} /\ done \subseteq live
        /\ UNCHANGED <<live, only, force, calm>>
    BY DEF PlainProbeRound, PlainIInv, RoundIsFresh
  <2>3. found(answer) \subseteq live /\ found(answer) \subseteq Phase
    BY <2>2 DEF Answers, PlainIInv, PlainTypeOK, WalkTypeOK
  <2>4. done' \subseteq found(answer) /\ stale' = {}
    BY <1>1, <1>3, <2>2 DEF PlainStop
  <2>5. at' \in Phase /\ pc' \in {"probe", "turn"}
        /\ (pc' = "turn" => at' = IF only = 0 THEN 1 ELSE only)
    BY <1>1, <1>3, <2>1, <2>2 DEF Phase, PlainIInv, PlainTypeOK, WalkTypeOK
  <2>6. PlainTypeOK'
    BY <2>2, <2>3, <2>4, <2>5 DEF PlainIInv, PlainTypeOK, WalkTypeOK
  <2>7. /\ RoundIsFresh' /\ StaleIsAhead' /\ DoubtsAreStale' /\ PlainWalked'
        /\ InHand' /\ GreenMeansLive'
    BY <2>2, <2>3, <2>4, <2>5 DEF RoundIsFresh, StaleIsAhead, DoubtsAreStale,
       PlainWalked, InHand, GreenMeansLive
  <2> QED BY <2>6, <2>7 DEF PlainIInv
<1> QED BY <1>1, <1>2, <1>3

\* A second look settles what was in doubt about one phase.
LEMMA RecheckIsSafe == PlainIInv /\ Recheck => PlainIInv'
<1> SUFFICES ASSUME PlainIInv, Recheck PROVE PlainIInv'
  OBVIOUS
<1>1. PICK answer \in Answers(at, live, calm) :
        \/ answer = "raised" /\ PlainStop
        \/ /\ answer # "raised"
           /\ done' = IF answer = "done" THEN done \cup {at} ELSE done \ {at}
           /\ stale' = stale \ {at}
           /\ UNCHANGED <<at, pc>>
  BY DEF Recheck
<1>2. CASE answer = "raised" /\ PlainStop
  BY <1>2, StopIsSafe DEF Recheck
<1>3. CASE /\ answer # "raised"
           /\ done' = IF answer = "done" THEN done \cup {at} ELSE done \ {at}
           /\ stale' = stale \ {at}
           /\ UNCHANGED <<at, pc>>
  <2>1. /\ pc = "turn" /\ at \in Phase
        /\ UNCHANGED <<live, only, force, calm, at, pc>>
    BY <1>3 DEF Recheck, PlainIInv, PlainTypeOK, WalkTypeOK
  <2>2. done' \ live \subseteq stale'
    BY <1>3, <2>1 DEF PlainIInv, DoubtsAreStale, Answers
  <2>3. \A m \in stale' : m >= at
    BY <1>3, <2>1 DEF PlainIInv, StaleIsAhead
  <2>4. at \in Nat /\ at \notin 1..(at - 1)
    BY AtIsNat DEF PlainIInv, PlainTypeOK
  <2>5. PlainWalked'
    BY <1>3, <2>1, <2>4 DEF PlainIInv, PlainWalked
  <2>6. PlainTypeOK'
    BY <1>3, <2>1 DEF PlainIInv, PlainTypeOK, WalkTypeOK
  <2>7. /\ RoundIsFresh' /\ StaleIsAhead' /\ DoubtsAreStale' /\ InHand'
        /\ GreenMeansLive'
    BY <2>1, <2>2, <2>3 DEF RoundIsFresh, StaleIsAhead, DoubtsAreStale,
       InHand, GreenMeansLive
  <2> QED BY <2>5, <2>6, <2>7 DEF PlainIInv
<1> QED BY <1>1, <1>2, <1>3

\* A phase that is passed over is complete.
LEMMA SkipIsSafe == PlainIInv /\ PlainSkip => PlainIInv'
<1> SUFFICES ASSUME PlainIInv, PlainSkip PROVE PlainIInv'
  OBVIOUS
<1>1. at \in Nat /\ pc = "turn" /\ at \in done /\ at \notin stale /\ PlainAdvance
      /\ UNCHANGED <<live, only, force, done, stale, calm>>
  BY AtIsNat DEF PlainSkip, PlainIInv, PlainTypeOK
<1>2. at \in live /\ done \ live \subseteq stale
  BY <1>1 DEF PlainIInv, DoubtsAreStale
<1>3. \A m \in stale : m > at
  BY <1>1 DEF PlainIInv, StaleIsAhead, PlainTypeOK, WalkTypeOK, Phase
<1>4. IF only = 0 THEN 1..(at - 1) \subseteq done ELSE at = only
  BY <1>1 DEF PlainIInv, PlainWalked
<1>5. PlainTypeOK /\ done \subseteq Phase /\ stale \subseteq Phase
  BY DEF PlainIInv, PlainTypeOK, WalkTypeOK
<1>6. /\ at' \in Phase /\ pc' \in {"turn", "complete"}
      /\ RoundIsFresh' /\ StaleIsAhead' /\ DoubtsAreStale' /\ PlainWalked'
      /\ InHand' /\ GreenMeansLive'
  BY <1>1, <1>2, <1>3, <1>4, <1>5, AdvanceIsSafe
<1>7. PlainTypeOK'
  BY <1>1, <1>6 DEF PlainIInv, PlainTypeOK, WalkTypeOK
<1> QED BY <1>6, <1>7 DEF PlainIInv

\* A phase begins on what is settled.
LEMMA BeginIsSafe == PlainIInv /\ PlainBegin => PlainIInv'
<1> SUFFICES ASSUME PlainIInv, PlainBegin PROVE PlainIInv'
  OBVIOUS
<1>1. PlainTypeOK'
  BY DEF PlainBegin, PlainIInv, PlainTypeOK, WalkTypeOK
<1>2. \A m \in stale : m > at
  BY DEF PlainBegin, PlainIInv, StaleIsAhead, PlainTypeOK, WalkTypeOK, Phase
<1>3. Deps[at] \subseteq done
  BY DEF PlainBegin, Missing
<1>4. /\ RoundIsFresh' /\ StaleIsAhead' /\ DoubtsAreStale' /\ PlainWalked' /\ InHand'
      /\ GreenMeansLive'
  BY <1>2, <1>3 DEF PlainBegin, PlainIInv, RoundIsFresh, StaleIsAhead,
     DoubtsAreStale, PlainWalked, InHand, GreenMeansLive
<1> QED BY <1>1, <1>4 DEF PlainIInv

\* A run puts in doubt, at most, what depends on it.
LEMMA PlainRunIsSafe == PlainIInv /\ PlainRunEnds => PlainIInv'
<1> SUFFICES ASSUME PlainIInv, PlainRunEnds PROVE PlainIInv'
  OBVIOUS
<1>1. /\ at \in Phase /\ live \in SUBSET Phase /\ calm \in BOOLEAN
      /\ pc = "running" /\ at \notin done /\ done \ live \subseteq stale
      /\ UNCHANGED <<only, force, done, stale, at, calm>>
  BY DEF PlainIInv, PlainTypeOK, WalkTypeOK, PlainRunEnds, RunReturns, InHand,
     DoubtsAreStale
<1>2. /\ live' \in SUBSET Phase
      /\ live \ live' \subseteq Dependents(at) \cup {at}
  BY <1>1, OutcomesSpareTheRest DEF PlainRunEnds, RunReturns
<1>3. done \ live' \subseteq stale \cup Dependents(at)
  BY <1>1, <1>2
<1>4. pc' \in {"confirm", "stopped"}
  BY DEF PlainRunEnds, RunReturns
<1>5. PlainTypeOK'
  BY <1>1, <1>2, <1>4 DEF PlainIInv, PlainTypeOK, WalkTypeOK
<1>6. /\ RoundIsFresh' /\ StaleIsAhead' /\ DoubtsAreStale' /\ PlainWalked' /\ InHand'
      /\ GreenMeansLive'
  BY <1>1, <1>3, <1>4 DEF PlainIInv, RoundIsFresh, StaleIsAhead,
     DoubtsAreStale, PlainWalked, InHand, GreenMeansLive
<1> QED BY <1>5, <1>6 DEF PlainIInv

\* After a run that counts, what depends on it is in doubt.
LEMMA ConfirmIsSafe == PlainIInv /\ PlainConfirm => PlainIInv'
<1> SUFFICES ASSUME PlainIInv, PlainConfirm PROVE PlainIInv'
  OBVIOUS
<1>1. PICK answer \in Answers(at, live, calm) :
        \/ answer # "done" /\ PlainStop
        \/ /\ answer = "done" /\ done' = done \cup {at}
           /\ stale' = stale \cup Dependents(at) /\ PlainAdvance
  BY DEF PlainConfirm
<1>2. CASE answer # "done" /\ PlainStop
  BY <1>2, StopIsSafe DEF PlainConfirm
<1>3. CASE /\ answer = "done" /\ done' = done \cup {at}
           /\ stale' = stale \cup Dependents(at) /\ PlainAdvance
  <2>1. /\ at \in Phase /\ pc = "confirm" /\ UNCHANGED <<live, only, force, calm>>
        /\ PlainTypeOK
    BY DEF PlainConfirm, PlainIInv, PlainTypeOK, WalkTypeOK
  <2>2. at \in live
    BY <1>1, <1>3 DEF Answers
  <2>3. done' \ live \subseteq stale'
    BY <1>3, <2>1, <2>2 DEF PlainIInv, DoubtsAreStale
  <2>4. \A m \in Dependents(at) : m \in Phase /\ m > at
    BY <2>1, DependentsComeLater
  <2>5. stale' \subseteq Phase /\ done' \subseteq Phase
    BY <1>3, <2>1, <2>4 DEF PlainTypeOK, WalkTypeOK
  <2>6. \A m \in stale' : m > at
    BY <1>3, <2>1, <2>4 DEF PlainIInv, StaleIsAhead
  <2>7. IF only = 0 THEN 1..(at - 1) \subseteq done' ELSE at = only
    BY <1>3, <2>1 DEF PlainIInv, PlainWalked
  <2>8. /\ at' \in Phase /\ pc' \in {"turn", "complete"}
        /\ RoundIsFresh' /\ StaleIsAhead' /\ DoubtsAreStale' /\ PlainWalked'
        /\ InHand' /\ GreenMeansLive'
    BY <1>3, <2>1, <2>2, <2>3, <2>5, <2>6, <2>7, AdvanceIsSafe
  <2>9. PlainTypeOK'
    BY <2>1, <2>5, <2>8 DEF PlainTypeOK, WalkTypeOK
  <2> QED BY <2>8, <2>9 DEF PlainIInv
<1> QED BY <1>1, <1>2, <1>3

\* Every step keeps the invariant.
LEMMA PlainNextIInv == PlainIInv /\ [PlainNext]_plainVars => PlainIInv'
<1> SUFFICES ASSUME PlainIInv, [PlainNext]_plainVars PROVE PlainIInv'
  OBVIOUS
<1>1. CASE Waits
  BY <1>1, StopIsSafe DEF Waits
<1>2. CASE PlainRestart
  <2>1. 1 \in Phase
    BY PhasesAssumption DEF Phase
  <2>2. only' \in {0} \cup Phase /\ force' \in BOOLEAN
    BY <1>2 DEF PlainRestart, Ended
  <2>3. PlainTypeOK'
    BY <1>2, <2>1, <2>2 DEF PlainRestart, Ended, PlainIInv, PlainTypeOK,
       WalkTypeOK
  <2>4. /\ RoundIsFresh' /\ StaleIsAhead' /\ DoubtsAreStale' /\ PlainWalked'
        /\ InHand' /\ GreenMeansLive'
    BY <1>2 DEF PlainRestart, Ended, RoundIsFresh, StaleIsAhead,
       DoubtsAreStale, PlainWalked, InHand, GreenMeansLive
  <2> QED BY <2>3, <2>4 DEF PlainIInv
<1>3. CASE PlainBecalm \/ UNCHANGED plainVars
  BY <1>3 DEF PlainBecalm, plainVars, loop, PlainIInv, PlainTypeOK,
     WalkTypeOK, RoundIsFresh, StaleIsAhead, DoubtsAreStale, PlainWalked,
     InHand, GreenMeansLive
<1> QED
  BY <1>1, <1>2, <1>3, RoundIsSafe, RecheckIsSafe, SkipIsSafe, BeginIsSafe,
     PlainRunIsSafe, ConfirmIsSafe DEF PlainNext, PlainStep

\* What the plain engine holds for complete and not for stale is complete:
\* the invariant the results rest on.
THEOREM PlainInvariance == PlainSpec => []PlainIInv
BY PlainInitIInv, PlainNextIInv, PTL DEF PlainSpec

-----------------------------------------------------------------------------

\* The plain engine's variables always have their types.
THEOREM PlainTypeCorrect == PlainSpec => []PlainTypeOK
BY PlainInvariance, PTL DEF PlainIInv

\* Exit 0 means complete, for every phase table and whatever the runs of this
\* deploy undo: no phase is passed over on an answer they made untrue.
THEOREM GreenIsLive == PlainSpec => []GreenMeansLive
BY PlainInvariance, PTL DEF PlainIInv

\* What a running phase needs holds, and is not in doubt.
LEMMA RunsOnLive == PlainIInv => RunsOnCompleted
<1> SUFFICES ASSUME PlainIInv, pc = "running" PROVE Deps[at] \subseteq live
  BY DEF RunsOnCompleted
<1>1. /\ at \in Phase /\ at \in Nat /\ Deps[at] \subseteq done
      /\ done \ live \subseteq stale
      /\ \A m \in stale : m > at
  BY AtIsNat DEF PlainIInv, PlainTypeOK, WalkTypeOK, InHand, DoubtsAreStale,
     StaleIsAhead
<1>2. \A d \in Deps[at] : d < at /\ d \in Nat
  BY <1>1, PhasesAssumption DEF Phase
<1>3. \A d \in Deps[at] : d \notin stale
  BY <1>1, <1>2
<1> QED BY <1>1, <1>3

\* A phase runs only while every phase it needs is complete.
THEOREM RunsOnCompletedOnly == PlainSpec => []RunsOnCompleted
BY PlainInvariance, RunsOnLive, PTL

-----------------------------------------------------------------------------
(* The plain engine implements Deploy.                                     *)

USE DEF PlainPromise!Phase, Phase, PlainPromise!Outcomes, Outcomes, Status,
        Ended

\* A new engine is a new deploy of what it was asked for.
LEMMA PlainInitPromised == PlainInit => PlainPromise!Init
BY DEF PlainInit, WalkInit, PlainPromise!Init, PlainPromise!Targets

\* Every step of the engine is a step of Deploy, or none.
LEMMA PlainNextPromised ==
  PlainIInv /\ [PlainNext]_plainVars => [PlainPromise!Next]_PlainPromise!vars
<1> SUFFICES ASSUME PlainIInv, [PlainNext]_plainVars
             PROVE  [PlainPromise!Next]_PlainPromise!vars
  OBVIOUS
<1> USE DEF PlainPromise!Next, PlainPromise!vars
<1>1. at \in 1..NPhases /\ calm \in BOOLEAN /\ live \in SUBSET Phase
      /\ only \in {0} \cup Phase
  BY DEF PlainIInv, PlainTypeOK, WalkTypeOK
<1>2. CASE \/ PlainProbeRound \/ Recheck \/ PlainSkip \/ Waits
          \/ PlainBegin \/ PlainConfirm
  <2>1. UNCHANGED <<live, only>> /\ pc \notin {"complete", "stopped"}
    BY <1>2 DEF PlainProbeRound, Recheck, PlainSkip, Waits, PlainBegin,
       PlainConfirm
  <2>2. CASE pc' \notin {"complete", "stopped"}
    BY <2>1, <2>2
  <2>3. CASE pc' = "stopped"
    BY <2>1, <2>3 DEF PlainPromise!Stop
  <2>4. CASE pc' = "complete"
    <3>1. GreenMeansLive'
      BY PlainNextIInv DEF PlainIInv
    <3> QED
      BY <2>1, <2>4, <3>1 DEF PlainPromise!Complete, GreenMeansLive
  <2> QED BY <2>2, <2>3, <2>4
<1>3. CASE PlainRunEnds
  <2>1. Deps[at] \subseteq live /\ UNCHANGED only
    BY <1>3, RunsOnLive DEF PlainRunEnds, RunReturns, RunsOnCompleted
  <2>2. live' \in Outcomes(at, live, FALSE)
    <3> HIDE DEF Outcomes
    <3> QED BY <1>1, <1>3, OutcomesSpareTheRest DEF PlainRunEnds, RunReturns
  <2>3. PlainPromise!Perform(at)
    BY <1>3, <2>1, <2>2 DEF PlainRunEnds, RunReturns, PlainPromise!Perform
  <2> QED BY <1>1, <2>3
<1>4. CASE PlainRestart
  <2>1. only' \in {0} \cup Phase
    BY <1>4 DEF PlainRestart, Ended
  <2> QED
    BY <1>4, <2>1 DEF PlainRestart, Ended, PlainPromise!Restart,
       PlainPromise!Targets
<1>5. CASE PlainBecalm \/ UNCHANGED plainVars
  BY <1>5 DEF PlainBecalm, plainVars, loop
<1> QED BY <1>2, <1>3, <1>4, <1>5 DEF PlainNext, PlainStep

\* Every behaviour of the plain engine is one Deploy allows, with --phase and
\* --force or without.
THEOREM PlainImplements == PlainSpec => PlainKeepsPromise
BY PlainInitPromised, PlainNextPromised, PlainInvariance, PTL DEF PlainSpec,
   PlainKeepsPromise, PlainPromise!Spec
=============================================================================
