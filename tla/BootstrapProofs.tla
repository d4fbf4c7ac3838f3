-------------------------- MODULE BootstrapProofs ---------------------------
(***************************************************************************)
(* Theorems about what the phases leave behind on the bootstrap.           *)
(*                                                                         *)
(* Steps that outlive their call (DetachedStep): start_detached_once and   *)
(* wait_while_running, for every set of calls that may go unanswered,      *)
(* every limit, stall window and timeout, keep the promise of Step, stop   *)
(* only what has been quiet, and never have two steps at work where the    *)
(* launch itself is answered.                                              *)
(*                                                                         *)
(* profile.yml (Settings): for any file that grows out of the template by  *)
(* the edits of people, any keys and any values, a patch leaves what is    *)
(* not aXs's as it found it, and what it wrote the comparison finds.       *)
(***************************************************************************)
EXTENDS DetachedStep, Settings, FiniteSetTheorems, SequenceTheorems, TLAPS

-----------------------------------------------------------------------------
(* Types, the flags apart from the rest.                                   *)

Flags ==
  /\ wedged \in BOOLEAN /\ other \in BOOLEAN
  /\ grown \in BOOLEAN /\ answered \in BOOLEAN

Ranges ==
  /\ step \in [Slots -> {"none", "wrapper", "both", "worker"}]
  /\ quiet \in Nat /\ pc \in Points
  /\ verdict \in {"none", "unknown", "busy", "not_started", "ended", "lost",
                  "timeout", "stopped", "wedged"}
  /\ waited \in 0..Timeout + 1 /\ lastChange \in 0..Timeout
  /\ unreachable \in 0..Limit - 1
  /\ tries \in 0..2

\* A flag stays a flag.
LEMMA FlagsNext ==
  ASSUME Flags, Next
  PROVE  Flags'
<1> USE DEF Flags, bootstrap, log, counters, stopping
<1>1. CASE CheckAlive
  BY <1>1, Zenon DEF CheckAlive, StartWait, Raise, ResetWait
<1>2. CASE CheckBusy
  BY <1>2, Zenon DEF CheckBusy, Raise, ResetWait
<1>3. CASE Start
  BY <1>3, Zenon DEF Start, Launch, StartWait, Raise, ResetWait
<1>4. CASE PollTimeout
  BY <1>4, Zenon DEF PollTimeout, Raise, ResetWait
<1>5. CASE PollDead
  BY <1>5, Zenon DEF PollDead, Return, ResetWait
<1>6. CASE PollSilent
  BY <1>6, Zenon DEF PollSilent, Raise, ResetWait, Sleep
<1>7. CASE PollMoving
  BY <1>7, Zenon DEF PollMoving, Sleep
<1>8. CASE PollQuiet
  BY <1>8, Zenon DEF PollQuiet, Sleep
<1>9. CASE StopTerm
  BY <1>9, Zenon DEF StopTerm, LookFor, Terminate
<1>10. CASE StopKill
  BY <1>10, Zenon DEF StopKill, LookFor, Kill
<1>11. CASE Look
  BY <1>11, Zenon DEF Look, Looked, Return, Raise, ResetWait
<1>12. CASE CallStep
  BY <1>12, Zenon DEF CallStep
<1>13. CASE Abort
  BY <1>13, Zenon DEF Abort, ResetWait
<1>14. ASSUME NEW s \in Slots, Spawn(s) PROVE Flags'
  BY <1>14, Zenon DEF Spawn
<1>15. ASSUME NEW s \in Slots, StepEnds(s) PROVE Flags'
  BY <1>15, Zenon DEF StepEnds
<1>16. CASE LogGrows
  BY <1>16, Zenon DEF LogGrows
<1>17. CASE Wedge
  BY <1>17, Zenon DEF Wedge
<1>18. CASE Reboot
  BY <1>18, Zenon DEF Reboot
<1>19. CASE OtherComesAndGoes
  BY <1>19, Zenon DEF OtherComesAndGoes
<1> QED
  BY <1>1, <1>2, <1>3, <1>4, <1>5, <1>6, <1>7, <1>8,
     <1>9, <1>10, <1>11, <1>12, <1>13, <1>14, <1>15, <1>16, <1>17, <1>18, <1>19
     DEF Next, StartOnce, Wait, StopStalled, World

\* Every counter, place and slot stays in its range.
LEMMA RangesNext ==
  ASSUME Ranges, Next
  PROVE  Ranges'
<1> USE DetachedStepAssumption DEF Ranges, Points, bootstrap, log, counters, stopping
<1>1. CASE CheckAlive
  BY <1>1 DEF CheckAlive, StartWait, Raise, ResetWait
<1>2. CASE CheckBusy
  BY <1>2 DEF CheckBusy, Raise, ResetWait
<1>3. CASE Start
  BY <1>3 DEF Start, Launch, StartWait, Raise, ResetWait
<1>4. CASE PollTimeout
  BY <1>4 DEF PollTimeout, Raise, ResetWait
<1>5. CASE PollDead
  BY <1>5 DEF PollDead, Return, ResetWait
<1>6. CASE PollSilent
  BY <1>6 DEF PollSilent, Raise, ResetWait, Sleep
<1>7. CASE PollMoving
  BY <1>7 DEF PollMoving, Sleep
<1>8. CASE PollQuiet
  BY <1>8 DEF PollQuiet, Sleep
<1>9. CASE StopTerm
  BY <1>9 DEF StopTerm, LookFor, Terminate
<1>10. CASE StopKill
  BY <1>10 DEF StopKill, LookFor, Kill
<1>11. CASE Look
  <2>1. CASE Return("stopped")
    BY <1>11, <2>1 DEF Look, Return, ResetWait
  <2>2. ASSUME NEW heard, Looked(heard) PROVE Ranges'
    <3>1. UNCHANGED <<step, quiet>>
      BY <1>11 DEF Look
    <3>2. CASE /\ tries < 2 /\ tries' = tries + 1
               /\ UNCHANGED <<pc, verdict, counters>>
      BY <3>1, <3>2
    <3>3. CASE /\ tries = 2 /\ pc' = "kill"
               /\ UNCHANGED <<verdict, counters, tries>>
      BY <3>1, <3>3
    <3>4. CASE \E how \in {"wedged", "lost"} : Raise(how)
      BY <3>1, <3>4 DEF Raise, ResetWait
    <3> QED
      BY <2>2, <3>2, <3>3, <3>4 DEF Looked
  <2> QED
    BY <1>11, <2>1, <2>2 DEF Look
<1>12. CASE CallStep
  BY <1>12 DEF CallStep
<1>13. CASE Abort
  <2>1. /\ waited' = 0 /\ lastChange' = 0 /\ unreachable' = 0 /\ tries' = 0
        /\ pc' = "idle" /\ verdict' = "none"
    BY <1>13, Zenon DEF Abort, ResetWait
  <2> QED
    BY <1>13, <2>1 DEF Abort
<1>14. ASSUME NEW s \in Slots, Spawn(s) PROVE Ranges'
  BY <1>14 DEF Spawn
<1>15. ASSUME NEW s \in Slots, StepEnds(s) PROVE Ranges'
  BY <1>15 DEF StepEnds
<1>16. CASE LogGrows
  BY <1>16 DEF LogGrows
<1>17. CASE Wedge
  BY <1>17 DEF Wedge
<1>18. CASE Reboot
  BY <1>18 DEF Reboot
<1>19. CASE OtherComesAndGoes
  BY <1>19 DEF OtherComesAndGoes
<1> QED
  BY <1>1, <1>2, <1>3, <1>4, <1>5, <1>6, <1>7, <1>8,
     <1>9, <1>10, <1>11, <1>12, <1>13, <1>14, <1>15, <1>16, <1>17, <1>18, <1>19
     DEF Next, StartOnce, Wait, StopStalled, World

\* Every variable of the call keeps its type, whatever the limits.
THEOREM TypesHold == Spec => []TypeOK
<1> DEFINE Inv == Flags /\ Ranges
<1>1. Init => Inv
  <2> SUFFICES ASSUME Init PROVE Inv
    OBVIOUS
  <2>1. Flags
    BY Zenon DEF Init, Flags
  <2>2. Ranges
    BY DetachedStepAssumption DEF Init, Ranges, Points
  <2> QED
    BY <2>1, <2>2
<1>2. Inv /\ [Next]_vars => Inv'
  <2> SUFFICES ASSUME Flags, Ranges, [Next]_vars PROVE Inv'
    OBVIOUS
  <2>1. CASE UNCHANGED vars
    <3>1. Flags'
      BY <2>1, Zenon DEF Flags, vars, bootstrap, log, counters, stopping
    <3>2. Ranges'
      BY <2>1 DEF Ranges, vars, bootstrap, log, counters, stopping
    <3> QED
      BY <3>1, <3>2
  <2> QED
    BY <2>1, FlagsNext, RangesNext
<1>3. Inv => TypeOK
  BY DEF Flags, Ranges, TypeOK
<1> QED
  BY <1>1, <1>2, <1>3, PTL DEF Spec

-----------------------------------------------------------------------------
(* What is stopped has been quiet.                                         *)

\* While nothing new has been written, the wait counts the quiet as it counts
\* the time since the last change.
CountsTheQuiet ==
  pc = "poll" /\ ~grown => quiet >= waited - lastChange

\* The count keeps up with every poll, answered or not.
LEMMA CountsTheQuietNext ==
  ASSUME Ranges, CountsTheQuiet, Next
  PROVE  CountsTheQuiet'
<1> USE DetachedStepAssumption DEF Ranges, CountsTheQuiet, bootstrap, log, counters, stopping
<1>1. CASE CheckAlive
  BY <1>1 DEF CheckAlive, StartWait, Raise, ResetWait
<1>2. CASE CheckBusy
  BY <1>2 DEF CheckBusy, Raise, ResetWait
<1>3. CASE Start
  BY <1>3 DEF Start, Launch, StartWait, Raise, ResetWait
<1>4. CASE PollTimeout
  BY <1>4 DEF PollTimeout, Raise, ResetWait
<1>5. CASE PollDead
  BY <1>5 DEF PollDead, Return, ResetWait
<1>6. CASE PollSilent
  BY <1>6 DEF PollSilent, Raise, ResetWait, Sleep
<1>7. CASE PollMoving
  BY <1>7 DEF PollMoving, Sleep
<1>8. CASE PollQuiet
  BY <1>8 DEF PollQuiet, Sleep
<1>9. CASE StopTerm
  BY <1>9 DEF StopTerm, LookFor, Terminate
<1>10. CASE StopKill
  BY <1>10 DEF StopKill, LookFor, Kill
<1>11. CASE Look
  BY <1>11 DEF Look, Looked, Return, Raise, ResetWait
<1>12. CASE CallStep
  BY <1>12 DEF CallStep
<1>13. CASE Abort
  BY <1>13 DEF Abort, ResetWait
<1>14. ASSUME NEW s \in Slots, Spawn(s) PROVE CountsTheQuiet'
  BY <1>14 DEF Spawn
<1>15. ASSUME NEW s \in Slots, StepEnds(s) PROVE CountsTheQuiet'
  BY <1>15 DEF StepEnds
<1>16. CASE LogGrows
  BY <1>16 DEF LogGrows
<1>17. CASE Wedge
  BY <1>17 DEF Wedge
<1>18. CASE Reboot
  BY <1>18 DEF Reboot
<1>19. CASE OtherComesAndGoes
  BY <1>19 DEF OtherComesAndGoes
<1> QED
  BY <1>1, <1>2, <1>3, <1>4, <1>5, <1>6, <1>7, <1>8,
     <1>9, <1>10, <1>11, <1>12, <1>13, <1>14, <1>15, <1>16, <1>17, <1>18, <1>19
     DEF Next, StartOnce, Wait, StopStalled, World

\* A step is stopped for being stuck only when its log has stood still for
\* StallAfter polls, whatever the limits and whichever calls go unanswered.
THEOREM QuietIsStopped == Spec => StopsOnlyTheQuiet
<1> DEFINE Inv == Ranges /\ CountsTheQuiet
<1>1. Init => Inv
  BY DetachedStepAssumption DEF Init, Ranges, Points, CountsTheQuiet
<1>2. Inv /\ [Next]_vars => Inv'
  <2> SUFFICES ASSUME Inv, [Next]_vars PROVE Inv'
    OBVIOUS
  <2>1. CASE UNCHANGED vars
    BY <2>1 DEF Ranges, CountsTheQuiet, vars, bootstrap, log, counters, stopping
  <2> QED
    BY <2>1, RangesNext, CountsTheQuietNext
<1>3. Inv /\ [Next]_vars => [pc # "term" /\ pc' = "term" => quiet >= StallAfter]_vars
  <2> SUFFICES ASSUME Inv, Next, pc # "term", pc' = "term"
               PROVE  quiet >= StallAfter
    OBVIOUS
  <2>1. PollQuiet
    BY DEF Next, StartOnce, Wait, StopStalled, World, CheckAlive, CheckBusy,
           Start, StartWait, PollTimeout, PollDead, PollSilent, PollMoving,
           StopTerm, StopKill, Look, Looked, LookFor, CallStep, Abort, Spawn,
           StepEnds, LogGrows, Wedge, Reboot, OtherComesAndGoes, Raise, Return,
           Sleep
  <2> QED
    BY <2>1, DetachedStepAssumption DEF PollQuiet, Ranges, CountsTheQuiet, Sleep
<1> QED
  BY <1>1, <1>2, <1>3, PTL DEF Spec, StopsOnlyTheQuiet

-----------------------------------------------------------------------------
(* What is at work.                                                        *)

\* A launch is decided on only while nothing is at work, and nothing but a
\* launch puts something to work.
StartsAlone == pc \in {"busy", "start"} => AtWork = {}

\* Nothing comes to work between the answer "dead" and the launch.
LEMMA StartsAloneNext ==
  ASSUME Ranges, StartsAlone, Next
  PROVE  StartsAlone'
<1> USE DEF Ranges, StartsAlone, AtWork, bootstrap, log, counters, stopping
<1>1. CASE CheckAlive
  BY <1>1 DEF CheckAlive, StartWait, Raise, Alive
<1>2. CASE CheckBusy
  BY <1>2 DEF CheckBusy, Raise, ResetWait
<1>3. CASE Start
  BY <1>3 DEF Start, StartWait, Raise
<1>4. CASE PollTimeout
  BY <1>4 DEF PollTimeout, Raise, ResetWait
<1>5. CASE PollDead
  BY <1>5 DEF PollDead, Return, ResetWait
<1>6. CASE PollSilent
  BY <1>6 DEF PollSilent, Raise, ResetWait, Sleep
<1>7. CASE PollMoving
  BY <1>7 DEF PollMoving, Sleep
<1>8. CASE PollQuiet
  BY <1>8 DEF PollQuiet, Sleep
<1>9. CASE StopTerm
  BY <1>9 DEF StopTerm, LookFor
<1>10. CASE StopKill
  BY <1>10 DEF StopKill, LookFor
<1>11. CASE Look
  BY <1>11 DEF Look, Looked, Return, Raise, ResetWait
<1>12. CASE CallStep
  BY <1>12 DEF CallStep
<1>13. CASE Abort
  BY <1>13 DEF Abort, ResetWait
<1>14. ASSUME NEW s \in Slots, Spawn(s) PROVE StartsAlone'
  BY <1>14 DEF Spawn
<1>15. ASSUME NEW s \in Slots, StepEnds(s) PROVE StartsAlone'
  BY <1>15 DEF StepEnds
<1>16. CASE LogGrows
  BY <1>16 DEF LogGrows
<1>17. CASE Wedge
  BY <1>17 DEF Wedge
<1>18. CASE Reboot
  BY <1>18 DEF Reboot
<1>19. CASE OtherComesAndGoes
  BY <1>19 DEF OtherComesAndGoes
<1> QED
  BY <1>1, <1>2, <1>3, <1>4, <1>5, <1>6, <1>7, <1>8,
     <1>9, <1>10, <1>11, <1>12, <1>13, <1>14, <1>15, <1>16, <1>17, <1>18, <1>19
     DEF Next, StartOnce, Wait, StopStalled, World

\* The same, for a whole step of the specification.
LEMMA AloneInv == Spec => [](Ranges /\ StartsAlone)
<1> DEFINE Inv == Ranges /\ StartsAlone
<1>1. Init => Inv
  BY DetachedStepAssumption DEF Init, Ranges, Points, StartsAlone
<1>2. Inv /\ [Next]_vars => Inv'
  <2> SUFFICES ASSUME Inv, [Next]_vars PROVE Inv'
    OBVIOUS
  <2>1. CASE UNCHANGED vars
    BY <2>1 DEF Ranges, StartsAlone, AtWork, vars, bootstrap, log, counters, stopping
  <2> QED
    BY <2>1, RangesNext, StartsAloneNext
<1> QED
  BY <1>1, <1>2, PTL DEF Spec

AtMostOne == \A s, t \in AtWork : s = t

\* Only a launch adds to what is at work, and one that is answered adds one.
LEMMA AtMostOneNext ==
  ASSUME "start" \notin Faulty, Ranges, StartsAlone, AtMostOne, Next
  PROVE  AtMostOne'
<1>1. CASE Start
  <2> PICK S \in SUBSET (Slots \ AtWork) : Launch(S) /\ Cardinality(S) = 1
    BY <1>1 DEF Start, Silent
  <2>1. AtWork = {}
    BY <1>1 DEF Start, StartsAlone
  <2>2. AtWork' \subseteq S
    BY <2>1 DEF Launch, AtWork
  <2>3. IsFiniteSet(Slots)
    <3>1. IsFiniteSet({}) /\ {} \cup {1} = {1} /\ {1} \cup {2} = Slots
      BY FS_EmptySet DEF Slots
    <3>2. IsFiniteSet({1})
      BY <3>1, FS_AddElement
    <3> QED
      BY <3>1, <3>2, FS_AddElement
  <2>4. IsFiniteSet(S)
    BY <2>3, FS_Subset
  <2>5. PICK x : S = {x}
    BY <2>4, FS_Singleton
  <2> QED
    BY <2>2, <2>5 DEF AtMostOne
<1>2. ASSUME ~Start PROVE AtWork' \subseteq AtWork
  <2> USE DEF Ranges, AtWork, bootstrap
  <2>1. ASSUME ~StopTerm, ~StopKill, World => FALSE PROVE UNCHANGED step
    BY <1>2, <2>1 DEF Next, StartOnce, Wait, StopStalled, CheckAlive, CheckBusy,
       PollTimeout, PollDead, PollSilent, PollMoving, PollQuiet, Look
  <2>2. CASE StopTerm
    BY <2>2 DEF StopTerm, Terminate, Left
  <2>3. CASE StopKill
    BY <2>3 DEF StopKill, Kill
  <2>4. CASE World
    BY <2>4 DEF World, CallStep, Abort, Spawn, StepEnds, LogGrows, Wedge, Reboot,
                OtherComesAndGoes
  <2> QED
    BY <2>1, <2>2, <2>3, <2>4
<1> QED
  BY <1>1, <1>2 DEF AtMostOne

\* There are never two of the step at work, for every limit and whichever
\* calls go unanswered, provided the launch is answered.
THEOREM NeverTwoSteps ==
  ASSUME "start" \notin Faulty
  PROVE  Spec => []OneStep
<1>1. Init => AtMostOne
  BY DEF Init, AtMostOne, AtWork
<1>2. AtMostOne /\ (Ranges /\ StartsAlone) /\ [Next]_vars => AtMostOne'
  <2> SUFFICES ASSUME AtMostOne, Ranges, StartsAlone, [Next]_vars PROVE AtMostOne'
    OBVIOUS
  <2>1. CASE UNCHANGED vars
    BY <2>1 DEF AtMostOne, AtWork, vars, bootstrap
  <2> QED
    BY <2>1, AtMostOneNext
<1>3. AtMostOne => OneStep
  <2> SUFFICES ASSUME AtMostOne PROVE OneStep
    OBVIOUS
  <2>1. CASE AtWork = {}
    BY <2>1, FS_EmptySet DEF OneStep
  <2>2. CASE AtWork # {}
    <3> PICK x : AtWork = {x}
      BY <2>2 DEF AtMostOne
    <3>1. Cardinality({x}) = 1
      BY FS_Singleton
    <3> QED
      BY <3>1 DEF OneStep
  <2> QED
    BY <2>1, <2>2
<1> QED
  BY <1>1, <1>2, <1>3, AloneInv, PTL DEF Spec

-----------------------------------------------------------------------------
(* The promise.                                                            *)

\* Every step of the call and of the bootstrap is one the promise allows.
LEMMA PromiseNext ==
  ASSUME Ranges, StartsAlone, Next
  PROVE  [Promise!Next]_(Promise!vars)
<1> USE DEF Ranges, Points, StartsAlone, AtWork, Alive, CallState, Promise!Next, Promise!vars,
    bootstrap, log, counters, stopping
<1>1. CASE CheckAlive
  BY <1>1 DEF CheckAlive, StartWait, Raise, ResetWait, Promise!Attach, Promise!Refuse
<1>2. CASE CheckBusy
  BY <1>2 DEF CheckBusy, Raise, ResetWait, Promise!Refuse
<1>3. CASE Start
  <2>1. pc' \in {"poll", "raised"}
    BY <1>3 DEF Start, StartWait, Raise
  <2>2. CASE pc' = "raised"
    BY <1>3, <2>2 DEF Start, StartWait, Raise, Promise!Refuse
  <2>3. CASE pc' = "poll"
    <3>1. PICK S \in SUBSET (Slots \ AtWork) : Launch(S) /\ Cardinality(S) \in {1, 2}
      BY <1>3, <2>3 DEF Start, Raise
    <3>2. PICK x : x \in S
      BY <3>1, FS_EmptySet
    <3>3. step'[x] = "wrapper"
      BY <3>1, <3>2 DEF Launch
    <3> QED
      BY <1>3, <2>3, <3>2, <3>3 DEF Start, Promise!Launch
  <2> QED
    BY <2>1, <2>2, <2>3
<1>4. CASE PollTimeout
  BY <1>4 DEF PollTimeout, Raise, ResetWait, Promise!GiveUp
<1>5. CASE PollDead
  BY <1>5 DEF PollDead, Return, ResetWait, Promise!Return
<1>6. CASE PollSilent
  BY <1>6 DEF PollSilent, Raise, ResetWait, Sleep, Promise!GiveUp
<1>7. CASE PollMoving
  BY <1>7 DEF PollMoving, Sleep
<1>8. CASE PollQuiet
  BY <1>8 DEF PollQuiet, Sleep
<1>9. CASE StopTerm
  BY <1>9 DEF StopTerm, LookFor, Terminate, Left, Promise!Ends
<1>10. CASE StopKill
  BY <1>10 DEF StopKill, LookFor, Kill, Promise!Ends
<1>11. CASE Look
  BY <1>11 DEF Look, Looked, Return, Raise, ResetWait, Promise!Return, Promise!GiveUp
<1>12. CASE CallStep
  BY <1>12 DEF CallStep, Promise!Call
<1>13. CASE Abort
  BY <1>13 DEF Abort, ResetWait, Promise!Abort
<1>14. ASSUME NEW s \in Slots, Spawn(s) PROVE [Promise!Next]_(Promise!vars)
  BY <1>14 DEF Spawn
<1>15. ASSUME NEW s \in Slots, StepEnds(s) PROVE [Promise!Next]_(Promise!vars)
  BY <1>15 DEF StepEnds, Promise!Ends
<1>16. CASE LogGrows
  BY <1>16 DEF LogGrows
<1>17. CASE Wedge
  BY <1>17 DEF Wedge
<1>18. CASE Reboot
  BY <1>18 DEF Reboot, Promise!Ends
<1>19. CASE OtherComesAndGoes
  BY <1>19 DEF OtherComesAndGoes
<1> QED
  BY <1>1, <1>2, <1>3, <1>4, <1>5, <1>6, <1>7, <1>8,
     <1>9, <1>10, <1>11, <1>12, <1>13, <1>14, <1>15, <1>16, <1>17, <1>18, <1>19
     DEF Next, StartOnce, Wait, StopStalled, World

\* start_detached_once, wait_while_running and _stop_stalled together keep the
\* promise the phases build on, whatever goes unanswered.
THEOREM StepIsAsPromised == Spec => KeepsPromise
<1>1. Init => Promise!Init
  BY DEF Init, Promise!Init, Alive, AtWork, CallState
<1>2. (Ranges /\ StartsAlone) /\ [Next]_vars => [Promise!Next]_(Promise!vars)
  <2> SUFFICES ASSUME Ranges, StartsAlone, [Next]_vars
               PROVE  [Promise!Next]_(Promise!vars)
    OBVIOUS
  <2>1. CASE UNCHANGED vars
    BY <2>1 DEF vars, bootstrap, Promise!vars, Alive, AtWork, CallState
  <2> QED
    BY <2>1, PromiseNext
<1> QED
  BY <1>1, <1>2, AloneInv, PTL DEF Spec, KeepsPromise, Promise!Spec

----------------------------------------------------------------------------
(* The elements at the places of a set.                                    *)

\* The places up to i, and how many they are.
UpTo(places, i) == {j \in places : j <= i}
Rank(places, i) == Cardinality(UpTo(places, i))

\* The rank of a place is a number, and grows with the place.
LEMMA RankGrows ==
  ASSUME NEW P \in SUBSET Nat, IsFiniteSet(P), NEW i \in P
  PROVE  /\ Cardinality(P) \in Nat
         /\ Rank(P, i) \in 1..Cardinality(P)
         /\ \A j \in P : i < j => Rank(P, i) < Rank(P, j)
<1>1. \A j \in P : /\ IsFiniteSet(UpTo(P, j)) /\ UpTo(P, j) \in SUBSET P
                   /\ Rank(P, j) \in Nat /\ Rank(P, j) <= Cardinality(P)
  <2>1. \A j \in P : UpTo(P, j) \in SUBSET P
    BY DEF UpTo
  <2> QED BY <2>1, FS_Subset, FS_CardinalityType DEF Rank
<1>2. Cardinality(P) \in Nat
  BY FS_CardinalityType
<1>3. Rank(P, i) # 0
  <2>1. i \in UpTo(P, i)
    BY DEF UpTo
  <2> QED BY <1>1, <2>1, FS_EmptySet DEF Rank
<1>4. ASSUME NEW j \in P, i < j PROVE Rank(P, i) < Rank(P, j)
  <2>0. i \in Nat /\ j \in Nat /\ j <= j /\ ~(j <= i)
        /\ \A x \in P : x <= i => x <= j
    <3>1. \A x \in P : x \in Nat
      OBVIOUS
    <3> QED BY <1>4, <3>1
  <2>1. UpTo(P, i) \in SUBSET UpTo(P, j) /\ j \in UpTo(P, j) /\ j \notin UpTo(P, i)
    BY <2>0, Zenon DEF UpTo
  <2>2. /\ Cardinality(UpTo(P, i)) <= Cardinality(UpTo(P, j))
        /\ Cardinality(UpTo(P, i)) # Cardinality(UpTo(P, j))
    BY <1>1, <2>1, FS_Subset
  <2> QED BY <1>1, <2>2 DEF Rank
<1> QED BY <1>1, <1>2, <1>3, <1>4

\* Nth is the inverse of the rank.
LEMMA NthIs ==
  ASSUME NEW P \in SUBSET Nat, IsFiniteSet(P)
  PROVE  /\ \A n \in 1..Cardinality(P) : Nth(P, n) \in P /\ Rank(P, Nth(P, n)) = n
         /\ \A i \in P : Nth(P, Rank(P, i)) = i
         /\ \A m, n \in 1..Cardinality(P) : m < n => Nth(P, m) < Nth(P, n)
<1> DEFINE N == Cardinality(P)
           r == [i \in P |-> Rank(P, i)]
<1>1. N \in Nat
  BY FS_CardinalityType
<1>2. IsFiniteSet(1..N) /\ Cardinality(1..N) = N
  BY <1>1, FS_Interval
<1>3. \A i, j \in P : Rank(P, i) = Rank(P, j) => i = j
  <2> SUFFICES ASSUME NEW i \in P, NEW j \in P, Rank(P, i) = Rank(P, j), i # j
               PROVE  FALSE
    OBVIOUS
  <2>1. i < j \/ j < i
    OBVIOUS
  <2>2. Rank(P, i) \in Nat /\ Rank(P, j) \in Nat
    BY <1>1, RankGrows
  <2> QED BY <2>1, <2>2, RankGrows
<1>4. r \in Injection(P, 1..N)
  BY <1>3, RankGrows DEF Injection, IsInjective
<1>5. r \in Surjection(P, 1..N)
  <2> HIDE DEF r
  <2> QED BY <1>2, <1>4, FS_Injection
<1>6. \A n \in 1..N : \E i \in P : Rank(P, i) = n
  BY <1>5 DEF Surjection
<1>7. \A n \in 1..N : Nth(P, n) \in P /\ Rank(P, Nth(P, n)) = n
  BY <1>6 DEF Nth, Rank, UpTo
<1>8. \A i \in P : Nth(P, Rank(P, i)) = i
  BY <1>3, <1>7, RankGrows
<1>9. ASSUME NEW m \in 1..N, NEW n \in 1..N, m < n
      PROVE  Nth(P, m) < Nth(P, n)
  <2>1. Nth(P, m) \in P /\ Nth(P, n) \in P
        /\ Rank(P, Nth(P, m)) = m /\ Rank(P, Nth(P, n)) = n
    BY <1>7
  <2>2. ~(Nth(P, n) < Nth(P, m))
    <3> SUFFICES ASSUME Nth(P, n) < Nth(P, m) PROVE FALSE
      OBVIOUS
    <3>1. Rank(P, Nth(P, n)) < Rank(P, Nth(P, m))
      BY <2>1, RankGrows
    <3> QED BY <1>1, <1>9, <2>1, <3>1
  <2>3. Nth(P, n) # Nth(P, m)
    <3>1. m \in Nat /\ n \in Nat /\ m # n
      BY <1>1, <1>9
    <3> QED BY <2>1, <3>1
  <2>4. Nth(P, m) \in Nat /\ Nth(P, n) \in Nat
    BY <2>1
  <2> QED BY <2>2, <2>3, <2>4
<1> QED BY <1>7, <1>8, <1>9

\* Places in a sequence are a finite set of numbers.
LEMMA PlacesAreFinite ==
  ASSUME NEW X, NEW s \in Seq(X), NEW P \in SUBSET DOMAIN s
  PROVE  P \in SUBSET Nat /\ P \in SUBSET (1..Len(s)) /\ IsFiniteSet(P)
         /\ Cardinality(P) \in Nat
<1>1. DOMAIN s = 1..Len(s) /\ Len(s) \in Nat
  BY LenProperties
<1>2. IsFiniteSet(1..Len(s))
  BY <1>1, FS_Interval
<1> QED BY <1>1, <1>2, FS_Subset, FS_CardinalityType

\* What is picked is the elements at the places, in their order.
LEMMA PickedIs ==
  ASSUME NEW X, NEW s \in Seq(X), NEW P \in SUBSET DOMAIN s
  PROVE  /\ Picked(s, P) \in Seq(X)
         /\ Len(Picked(s, P)) = Cardinality(P)
         /\ DOMAIN Picked(s, P) = 1..Cardinality(P)
         /\ \A n \in 1..Cardinality(P) :
              Nth(P, n) \in P /\ Picked(s, P)[n] = s[Nth(P, n)]
         /\ \A i \in P : Rank(P, i) \in 1..Cardinality(P)
                         /\ Picked(s, P)[Rank(P, i)] = s[i]
<1> DEFINE N == Cardinality(P)
           t == [n \in 1..N |-> s[Nth(P, n)]]
<1>1. P \in SUBSET Nat /\ P \in SUBSET (1..Len(s)) /\ IsFiniteSet(P) /\ N \in Nat
  BY PlacesAreFinite
<1>2. \A n \in 1..N : Nth(P, n) \in P /\ s[Nth(P, n)] \in X
  <2>1. \A n \in 1..N : Nth(P, n) \in P
    BY <1>1, NthIs
  <2> QED BY <1>1, <2>1, ElementOfSeq
<1>3. t \in Seq(X) /\ Len(t) = N /\ DOMAIN t = 1..N
  <2>1. t \in [1..N -> X]
    BY <1>2
  <2>2. t \in Seq(X)
    BY <1>1, <2>1, SeqDef
  <2> HIDE DEF t
  <2>3. DOMAIN t = 1..N /\ DOMAIN t = 1..Len(t) /\ Len(t) \in Nat
    BY <2>1, <2>2, LenProperties
  <2> QED BY <1>1, <2>2, <2>3
<1>4. Picked(s, P) = t
  <2>1. Picked(s, P) = <<>> \o t
    BY DEF Picked
  <2> HIDE DEF t
  <2> QED BY <1>3, <2>1, ConcatEmptySeq
<1>5. \A i \in P : Rank(P, i) \in 1..N /\ Nth(P, Rank(P, i)) = i
  BY <1>1, NthIs, RankGrows
<1> QED BY <1>2, <1>3, <1>4, <1>5

\* A map from places to places that keeps their order and leaves none out
\* keeps their ranks, and with them what is picked.
LEMMA Carried ==
  ASSUME NEW X, NEW f \in Seq(X), NEW g \in Seq(X),
         NEW A \in SUBSET DOMAIN f, NEW B \in SUBSET DOMAIN g,
         NEW h \in [A -> B],
         \A a, b \in A : a < b => h[a] < h[b],
         \A a \in A : g[h[a]] = f[a],
         \A a \in A : \A y \in B : y <= h[a] => \E b \in A : h[b] = y
  PROVE  /\ Cardinality(A) <= Cardinality(B)
         /\ \A n \in 1..Cardinality(A) : Picked(g, B)[n] = Picked(f, A)[n]
         /\ (\A y \in B : \E a \in A : h[a] = y) => Picked(g, B) = Picked(f, A)
<1>1. /\ A \in SUBSET Nat /\ IsFiniteSet(A) /\ Cardinality(A) \in Nat
      /\ B \in SUBSET Nat /\ IsFiniteSet(B) /\ Cardinality(B) \in Nat
  BY PlacesAreFinite
<1>2. ASSUME NEW a \in A PROVE h[a] \in B /\ Rank(B, h[a]) = Rank(A, a)
  <2> DEFINE S == UpTo(A, a)
             T == UpTo(B, h[a])
             q == [x \in S |-> h[x]]
  <2>1. \A x, y \in A : /\ x \in Nat /\ y \in Nat /\ h[x] \in Nat /\ h[y] \in Nat
                        /\ x < y => h[x] < h[y]
    BY <1>1
  <2>2. \A x, y \in A : h[x] <= h[y] <=> x <= y
    BY <2>1
  <2>3. \A x, y \in A : h[x] = h[y] => x = y
    BY <2>1
  <2>4. q \in [S -> T]
    BY <2>2 DEF UpTo
  <2>5. \A x, y \in S : q[x] = q[y] => x = y
    BY <2>3 DEF UpTo
  <2>6. \A y \in T : \E x \in S : q[x] = y
    <3> SUFFICES ASSUME NEW y \in T PROVE \E x \in S : q[x] = y
      OBVIOUS
    <3>1. y \in B /\ y <= h[a]
      BY DEF UpTo
    <3>2. PICK x \in A : h[x] = y
      BY <3>1
    <3>3. x \in S
      BY <2>2, <3>1, <3>2 DEF UpTo
    <3> QED BY <3>2, <3>3
  <2>7. IsFiniteSet(S)
    BY <1>1, FS_Subset DEF UpTo
  <2>8. ExistsBijection(S, T)
    <3> HIDE DEF q, S, T
    <3>1. q \in Injection(S, T)
      BY <2>4, <2>5 DEF Injection, IsInjective
    <3>2. q \in Surjection(S, T)
      BY <2>4, <2>6 DEF Surjection
    <3> QED BY <3>1, <3>2 DEF ExistsBijection, Bijection
  <2> HIDE DEF S, T
  <2>9. Cardinality(T) = Cardinality(S)
    BY <2>7, <2>8, FS_Bijection
  <2> QED BY <2>9 DEF Rank, S, T
<1>3. ASSUME NEW n \in 1..Cardinality(A)
      PROVE  n \in 1..Cardinality(B) /\ Nth(B, n) = h[Nth(A, n)] /\ Nth(A, n) \in A
  <2>1. Nth(A, n) \in A /\ Rank(A, Nth(A, n)) = n
    BY <1>1, NthIs
  <2>2. h[Nth(A, n)] \in B /\ Rank(B, h[Nth(A, n)]) = n
    BY <1>2, <2>1
  <2>3. n \in 1..Cardinality(B)
    BY <1>1, <2>2, RankGrows
  <2>4. Nth(B, n) = h[Nth(A, n)]
    BY <1>1, <2>2, NthIs
  <2> QED BY <2>1, <2>3, <2>4
<1>4. Cardinality(A) <= Cardinality(B)
  <2>1. CASE Cardinality(A) = 0
    BY <1>1, <2>1
  <2>2. CASE Cardinality(A) # 0
    <3>1. Cardinality(A) \in 1..Cardinality(A)
      BY <1>1, <2>2
    <3> QED BY <1>1, <1>3, <3>1
  <2> QED BY <2>1, <2>2
<1>5. \A n \in 1..Cardinality(A) : Picked(g, B)[n] = Picked(f, A)[n]
  <2> SUFFICES ASSUME NEW n \in 1..Cardinality(A)
               PROVE  Picked(g, B)[n] = Picked(f, A)[n]
    OBVIOUS
  <2>1. Picked(f, A)[n] = f[Nth(A, n)]
    BY PickedIs
  <2>2. Picked(g, B)[n] = g[Nth(B, n)]
    BY <1>3, PickedIs
  <2> QED BY <1>3, <2>1, <2>2
<1>6. ASSUME \A y \in B : \E a \in A : h[a] = y
      PROVE  Picked(g, B) = Picked(f, A)
  <2>1. Cardinality(B) <= Cardinality(A)
    <3>1. CASE Cardinality(B) = 0
      BY <1>1, <3>1
    <3>2. CASE Cardinality(B) # 0
      <4>1. Cardinality(B) \in 1..Cardinality(B)
        BY <1>1, <3>2
      <4>2. PICK b \in B : Rank(B, b) = Cardinality(B)
        BY <1>1, <4>1, NthIs
      <4>3. PICK a \in A : h[a] = b
        BY <1>6
      <4>4. Rank(A, a) = Cardinality(B)
        BY <1>2, <4>2, <4>3
      <4>5. Rank(A, a) \in 1..Cardinality(A)
        BY <1>1, RankGrows
      <4> QED BY <1>1, <4>4, <4>5
    <3> QED BY <3>1, <3>2
  <2>2. Cardinality(A) = Cardinality(B)
    BY <1>1, <1>4, <2>1
  <2>3. /\ Picked(f, A) \in Seq(X) /\ Len(Picked(f, A)) = Cardinality(A)
        /\ Picked(g, B) \in Seq(X) /\ Len(Picked(g, B)) = Cardinality(B)
    BY PickedIs
  <2> QED BY <1>5, <2>2, <2>3, SeqEqual
<1> QED BY <1>4, <1>5, <1>6

\* h takes the places of A in f, in their order, to all those of B in g, and
\* the elements are the same.
Carries(h, f, A, g, B) ==
  /\ h \in [A -> B]
  /\ \A a, b \in A : a < b => h[a] < h[b]
  /\ \A a \in A : g[h[a]] = f[a]
  /\ \A y \in B : \E a \in A : h[a] = y

\* Then they pick the same.
LEMMA CarriedAll ==
  ASSUME NEW X, NEW f \in Seq(X), NEW g \in Seq(X),
         NEW A \in SUBSET DOMAIN f, NEW B \in SUBSET DOMAIN g,
         NEW h, Carries(h, f, A, g, B)
  PROVE  Picked(g, B) = Picked(f, A)
<1>1. /\ h \in [A -> B]
      /\ \A a, b \in A : a < b => h[a] < h[b]
      /\ \A a \in A : g[h[a]] = f[a]
      /\ \A y \in B : \E a \in A : h[a] = y
  BY Zenon DEF Carries
<1>2. \A a \in A : \A y \in B : y <= h[a] => \E b \in A : h[b] = y
  BY <1>1
<1> QED BY <1>1, <1>2, Carried

\* A set of naturals with an element has a least one.
LEMMA LeastOfNaturals ==
  ASSUME NEW S \in SUBSET Nat, S # {}
  PROVE  Min(S) \in S /\ \A y \in S : Min(S) <= y
<1> DEFINE R == OpToRel(<, Nat)
<1>1. PICK x \in S : \A y \in S : ~(<<y, x>> \in R)
  BY NatLessThanWellFounded, WFMin
<1>2. ASSUME NEW y \in S, y < x PROVE FALSE
  <2>1. <<y, x>> \in Nat \X Nat /\ <<y, x>>[1] < <<y, x>>[2]
    BY <1>2
  <2>2. <<y, x>> \in R
    BY <2>1, Zenon DEF OpToRel
  <2> QED
    BY <1>1, <2>2
<1>3. \A y \in S : x <= y
  BY <1>2
<1> QED
  BY <1>3 DEF Min

\* A set of naturals with an element and a bound has a greatest one.
LEMMA GreatestOfNaturals ==
  ASSUME NEW N \in Nat, NEW S \in SUBSET (0..N), S # {}
  PROVE  Max(S) \in S /\ \A y \in S : Max(S) >= y
<1> DEFINE T == {n \in 0..N : N - n \in S}
           m == Min(T)
<1>1. PICK x \in S : TRUE
  OBVIOUS
<1>2. N - x \in T
  <2>1. x \in 0..N /\ x \in S
    BY <1>1
  <2>2. N - x \in 0..N /\ N - (N - x) = x
    BY <2>1
  <2> QED BY <2>1, <2>2
<1>3. T \in SUBSET Nat /\ T # {}
  <2>1. T \in SUBSET (0..N) /\ \A n \in 0..N : n \in Nat
    OBVIOUS
  <2> HIDE DEF T
  <2> QED BY <1>2, <2>1
<1>4. m \in T /\ \A y \in T : m <= y
  <2> HIDE DEF T
  <2> QED BY <1>3, LeastOfNaturals
<1> HIDE DEF m
<1>5. N - m \in S
  BY <1>4
<1>6. ASSUME NEW y \in S PROVE N - m >= y
  <2>1. N - y \in T
    OBVIOUS
  <2>2. m <= N - y
    BY <1>4, <2>1
  <2> QED BY <1>4, <2>2
<1> QED BY <1>5, <1>6 DEF Max

----------------------------------------------------------------------------
(* Lines of the file, and what an edit keeps of them.                      *)

\* Where the lines of some kinds are.
PlacesOf(f, kinds) == {i \in DOMAIN f : f[i].is \in kinds}

\* What a line can be.
Keys == Scalars \cup {"product", "none", "logging"}

LineType == [is : Kinds, key : Keys, val : Raw, section : Section]

\* Kept is Picked, at those places.
LEMMA KeptIs ==
  ASSUME NEW f, NEW kinds
  PROVE  Kept(f, kinds) = Picked(f, PlacesOf(f, kinds))
BY DEF Kept, PlacesOf

\* Files that agree on the lines of some kinds, place by place.
LEMMA KeptInPlace ==
  ASSUME NEW X, NEW f \in Seq(X), NEW g \in Seq(X), NEW kinds,
         PlacesOf(f, kinds) = PlacesOf(g, kinds),
         \A i \in PlacesOf(f, kinds) : g[i] = f[i]
  PROVE  Kept(g, kinds) = Kept(f, kinds)
<1> DEFINE P == PlacesOf(f, kinds)
<1>1. P \in SUBSET DOMAIN f /\ P \in SUBSET DOMAIN g
  BY DEF PlacesOf
<1>2. Kept(f, kinds) = Picked(f, P) /\ Kept(g, kinds) = Picked(g, P)
  BY KeptIs
<1> HIDE DEF P
<1>3. \A n \in 1..Cardinality(P) : Picked(g, P)[n] = Picked(f, P)[n]
  <2> SUFFICES ASSUME NEW n \in 1..Cardinality(P)
               PROVE  Picked(g, P)[n] = Picked(f, P)[n]
    OBVIOUS
  <2>1. Nth(P, n) \in P /\ Picked(f, P)[n] = f[Nth(P, n)]
    BY <1>1, PickedIs
  <2>2. Picked(g, P)[n] = g[Nth(P, n)]
    BY <1>1, PickedIs
  <2> QED BY <2>1, <2>2 DEF P
<1>4. /\ Picked(f, P) \in Seq(X) /\ Len(Picked(f, P)) = Cardinality(P)
      /\ Picked(g, P) \in Seq(X) /\ Len(Picked(g, P)) = Cardinality(P)
  BY <1>1, PickedIs
<1>5. Picked(g, P) = Picked(f, P)
  BY <1>3, <1>4, SeqEqual
<1> QED BY <1>2, <1>5

\* What remains of a file without some lines: the others, in their order.
LEMMA WithoutIs ==
  ASSUME NEW X, NEW f \in Seq(X), NEW gone
  PROVE  LET K == DOMAIN f \ gone
             w == Without(f, gone)
         IN  /\ w \in Seq(X) /\ DOMAIN w = 1..Cardinality(K)
             /\ \A n \in DOMAIN w : Nth(K, n) \in K /\ w[n] = f[Nth(K, n)]
                                    /\ Rank(K, Nth(K, n)) = n
             /\ \A i \in K : Rank(K, i) \in DOMAIN w /\ w[Rank(K, i)] = f[i]
             /\ \A i, j \in K : i < j => Rank(K, i) < Rank(K, j)
<1> DEFINE K == DOMAIN f \ gone
<1>1. K \in SUBSET DOMAIN f
  OBVIOUS
<1>2. Without(f, gone) = Picked(f, K)
  BY DEF Without
<1> HIDE DEF K
<1>3. K \in SUBSET Nat /\ IsFiniteSet(K)
  BY <1>1, PlacesAreFinite
<1>4. /\ Picked(f, K) \in Seq(X)
      /\ DOMAIN Picked(f, K) = 1..Cardinality(K)
      /\ \A n \in 1..Cardinality(K) : Nth(K, n) \in K /\ Picked(f, K)[n] = f[Nth(K, n)]
      /\ \A i \in K : Rank(K, i) \in 1..Cardinality(K)
                      /\ Picked(f, K)[Rank(K, i)] = f[i]
  BY <1>1, PickedIs
<1>5. \A n \in 1..Cardinality(K) : Rank(K, Nth(K, n)) = n
  BY <1>3, NthIs
<1>6. \A i, j \in K : i < j => Rank(K, i) < Rank(K, j)
  BY <1>3, RankGrows
<1>7. /\ Without(f, gone) \in Seq(X) /\ DOMAIN Without(f, gone) = 1..Cardinality(K)
      /\ \A n \in DOMAIN Without(f, gone) :
            Nth(K, n) \in K /\ Without(f, gone)[n] = f[Nth(K, n)]
            /\ Rank(K, Nth(K, n)) = n
      /\ \A i \in K : Rank(K, i) \in DOMAIN Without(f, gone)
                      /\ Without(f, gone)[Rank(K, i)] = f[i]
  BY <1>2, <1>4, <1>5
<1> QED BY <1>6, <1>7, Zenon DEF K

\* Lines that go take none of the kinds they are not of with them.
LEMMA KeptWithout ==
  ASSUME NEW X, NEW f \in Seq(X), NEW gone, NEW kinds,
         \A i \in PlacesOf(f, kinds) : i \notin gone
  PROVE  Kept(Without(f, gone), kinds) = Kept(f, kinds)
<1> DEFINE K == DOMAIN f \ gone
           w == Without(f, gone)
           A == PlacesOf(f, kinds)
           B == PlacesOf(w, kinds)
           h == [a \in A |-> Rank(K, a)]
<1>1. /\ w \in Seq(X) /\ DOMAIN w = 1..Cardinality(K)
      /\ \A n \in DOMAIN w : Nth(K, n) \in K /\ w[n] = f[Nth(K, n)]
                             /\ Rank(K, Nth(K, n)) = n
      /\ \A i \in K : Rank(K, i) \in DOMAIN w /\ w[Rank(K, i)] = f[i]
      /\ \A i, j \in K : i < j => Rank(K, i) < Rank(K, j)
  BY WithoutIs
<1> HIDE DEF w
<1>2. A \in SUBSET DOMAIN f /\ B \in SUBSET DOMAIN w /\ A \subseteq K
  BY DEF PlacesOf
<1>3. h \in [A -> B]
  BY <1>1, <1>2 DEF PlacesOf
<1>4. \A y \in B : \E a \in A : h[a] = y
  <2> SUFFICES ASSUME NEW y \in B PROVE \E a \in A : h[a] = y
    OBVIOUS
  <2>1. y \in DOMAIN w /\ w[y].is \in kinds
    BY DEF PlacesOf
  <2>2. Nth(K, y) \in A /\ Rank(K, Nth(K, y)) = y
    BY <1>1, <2>1 DEF PlacesOf
  <2> QED BY <2>2
<1>5. /\ \A a, b \in A : a < b => h[a] < h[b]
      /\ \A a \in A : w[h[a]] = f[a]
  BY <1>1, <1>2
<1> HIDE DEF A, B, h
<1>6. w \in Seq(X)
  BY <1>1
<1>7. Carries(h, f, A, w, B)
  BY <1>3, <1>4, <1>5, Zenon DEF Carries
<1>8. Picked(w, B) = Picked(f, A)
  BY <1>2, <1>6, <1>7, CarriedAll
<1> QED BY <1>8, KeptIs DEF w, A, B


\* The prefixes of a file.
LEMMA PrefixIs ==
  ASSUME NEW X, NEW f \in Seq(X), NEW m \in 0..Len(f)
  PROVE  /\ SubSeq(f, 1, m) \in Seq(X) /\ Len(SubSeq(f, 1, m)) = m
         /\ DOMAIN SubSeq(f, 1, m) = 1..m /\ m \in Nat
         /\ 1..m \subseteq DOMAIN f
         /\ \A i \in 1..m : SubSeq(f, 1, m)[i] = f[i]
<1>1. Len(f) \in Nat /\ m \in Nat /\ m <= Len(f) /\ DOMAIN f = 1..Len(f)
  BY LenProperties
<1>2. 1..m \subseteq 1..Len(f)
  BY <1>1
<1>3. \A i \in 1..m : f[i] \in X
  BY <1>2, ElementOfSeq
<1>4. /\ SubSeq(f, 1, m) \in Seq(X)
      /\ Len(SubSeq(f, 1, m)) = IF 1 <= m THEN m - 1 + 1 ELSE 0
      /\ \A i \in 1..m - 1 + 1 : SubSeq(f, 1, m)[i] = f[1 + i - 1]
  BY <1>1, <1>3, SubSeqProperties
<1>5. Len(SubSeq(f, 1, m)) = m
  BY <1>1, <1>4
<1>6. DOMAIN SubSeq(f, 1, m) = 1..m
  BY <1>4, <1>5, LenProperties
<1>7. \A i \in 1..m : SubSeq(f, 1, m)[i] = f[i]
  <2>1. \A i \in 1..m : i \in 1..m - 1 + 1 /\ 1 + i - 1 = i
    BY <1>1
  <2> QED BY <1>4, <2>1
<1> QED BY <1>1, <1>2, <1>4, <1>5, <1>6, <1>7

\* What it takes to be a prefix.
LEMMA PrefixOf ==
  ASSUME NEW X, NEW s \in Seq(X), NEW t \in Seq(X), Len(s) <= Len(t),
         \A n \in 1..Len(s) : t[n] = s[n]
  PROVE  IsPrefix(s, t)
<1>1. Len(s) \in Nat /\ Len(t) \in Nat /\ Len(s) \in 0..Len(t)
  BY LenProperties
<1>2. /\ SubSeq(t, 1, Len(s)) \in Seq(X) /\ Len(SubSeq(t, 1, Len(s))) = Len(s)
      /\ \A i \in 1..Len(s) : SubSeq(t, 1, Len(s))[i] = t[i]
  BY <1>1, PrefixIs
<1>3. SubSeq(s, 1, Len(s)) = s
  BY SubSeqFull
<1>4. SubSeq(t, 1, Len(s)) = s
  BY <1>2, SeqEqual
<1> QED BY <1>3, <1>4 DEF IsPrefix

\* A prefix that holds all lines of some kinds keeps them.
LEMMA KeptOfPrefix ==
  ASSUME NEW X, NEW f \in Seq(X), NEW m \in 0..Len(f), NEW kinds,
         \A i \in PlacesOf(f, kinds) : i <= m
  PROVE  Kept(SubSeq(f, 1, m), kinds) = Kept(f, kinds)
<1> DEFINE g == SubSeq(f, 1, m)
<1>1. /\ g \in Seq(X) /\ DOMAIN g = 1..m /\ 1..m \subseteq DOMAIN f /\ m \in Nat
      /\ \A i \in 1..m : g[i] = f[i]
  BY PrefixIs
<1>2. DOMAIN f = 1..Len(f) /\ Len(f) \in Nat
  BY LenProperties
<1> HIDE DEF g
<1>3. \A i \in PlacesOf(f, kinds) : i \in 1..m
  BY <1>1, <1>2 DEF PlacesOf
<1>4. PlacesOf(f, kinds) = PlacesOf(g, kinds)
  BY <1>1, <1>3 DEF PlacesOf
<1>5. \A i \in PlacesOf(f, kinds) : g[i] = f[i]
  BY <1>1, <1>3
<1> QED BY <1>1, <1>4, <1>5, KeptInPlace DEF g

\* Any prefix keeps a prefix.
LEMMA PrefixOfKept ==
  ASSUME NEW X, NEW f \in Seq(X), NEW m \in 0..Len(f), NEW kinds
  PROVE  IsPrefix(Kept(SubSeq(f, 1, m), kinds), Kept(f, kinds))
<1> DEFINE g == SubSeq(f, 1, m)
           A == PlacesOf(g, kinds)
           B == PlacesOf(f, kinds)
           h == [a \in A |-> a]
<1>1. /\ g \in Seq(X) /\ DOMAIN g = 1..m /\ 1..m \subseteq DOMAIN f /\ m \in Nat
      /\ \A i \in 1..m : g[i] = f[i]
  BY PrefixIs
<1>2. DOMAIN f = 1..Len(f) /\ Len(f) \in Nat
  BY LenProperties
<1> HIDE DEF g
<1>3. /\ A \in SUBSET DOMAIN g /\ B \in SUBSET DOMAIN f
      /\ \A a \in A : a \in B /\ f[a] = g[a] /\ a \in 1..m
      /\ \A b \in B : b <= m => b \in A
  BY <1>1, <1>2 DEF PlacesOf
<1>4. /\ h \in [A -> B]
      /\ \A a, b \in A : a < b => h[a] < h[b]
      /\ \A a \in A : f[h[a]] = g[a]
  BY <1>3
<1>5. \A a \in A : \A y \in B : y <= h[a] => \E b \in A : h[b] = y
  <2> SUFFICES ASSUME NEW a \in A, NEW y \in B, y <= h[a]
               PROVE  \E b \in A : h[b] = y
    OBVIOUS
  <2>1. y <= m
    BY <1>1, <1>2, <1>3
  <2> QED BY <1>3, <2>1
<1>6. Kept(g, kinds) = Picked(g, A) /\ Kept(f, kinds) = Picked(f, B)
  BY KeptIs
<1> HIDE DEF A, B, h
<1>7. /\ Cardinality(A) <= Cardinality(B)
      /\ \A n \in 1..Cardinality(A) : Picked(f, B)[n] = Picked(g, A)[n]
  <2>1. g \in Seq(X) /\ A \in SUBSET DOMAIN g /\ B \in SUBSET DOMAIN f
    BY <1>1, <1>3
  <2> QED BY <1>4, <1>5, <2>1, Carried
<1>8. /\ Picked(g, A) \in Seq(X) /\ Len(Picked(g, A)) = Cardinality(A)
      /\ Picked(f, B) \in Seq(X) /\ Len(Picked(f, B)) = Cardinality(B)
      /\ Cardinality(A) \in Nat /\ Cardinality(B) \in Nat
  BY <1>1, <1>3, PickedIs, PlacesAreFinite
<1> DEFINE s == Picked(g, A)
           t == Picked(f, B)
<1> HIDE DEF s, t
<1>9. s \in Seq(X) /\ t \in Seq(X) /\ Len(s) \in Nat /\ Len(t) \in Nat /\ Len(s) <= Len(t)
      /\ \A n \in 1..Len(s) : t[n] = s[n]
  BY <1>7, <1>8 DEF s, t
<1>10. IsPrefix(s, t)
  BY <1>9, PrefixOf
<1> QED BY <1>6, <1>10 DEF s, t, g

\* Lines of other kinds, put below, leave them as they are.
LEMMA KeptOfFront ==
  ASSUME NEW X, NEW f \in Seq(X), NEW g \in Seq(X), NEW kinds,
         \A i \in DOMAIN g : g[i].is \notin kinds
  PROVE  Kept(f \o g, kinds) = Kept(f, kinds)
<1>1. /\ f \o g \in Seq(X) /\ Len(f \o g) = Len(f) + Len(g)
      /\ \A i \in 1..Len(f) + Len(g) :
           (f \o g)[i] = IF i <= Len(f) THEN f[i] ELSE g[i - Len(f)]
  BY ConcatProperties
<1>2. /\ Len(f) \in Nat /\ Len(g) \in Nat /\ DOMAIN f = 1..Len(f) /\ DOMAIN g = 1..Len(g)
      /\ DOMAIN (f \o g) = 1..Len(f \o g)
  BY <1>1, LenProperties
<1> DEFINE w == f \o g
<1> HIDE DEF w
<1>3. /\ w \in Seq(X) /\ DOMAIN w = 1..(Len(f) + Len(g))
      /\ \A i \in DOMAIN f : i \in DOMAIN w /\ w[i] = f[i]
  BY <1>1, <1>2 DEF w
<1>4. \A i \in DOMAIN w : i \notin DOMAIN f => i - Len(f) \in DOMAIN g /\ w[i] = g[i - Len(f)]
  BY <1>1, <1>2, <1>3 DEF w
<1>5. PlacesOf(f, kinds) = PlacesOf(w, kinds)
  BY <1>3, <1>4 DEF PlacesOf
<1>6. \A i \in PlacesOf(f, kinds) : w[i] = f[i]
  BY <1>3 DEF PlacesOf
<1>7. Kept(w, kinds) = Kept(f, kinds)
  BY <1>3, <1>5, <1>6, KeptInPlace
<1> QED BY <1>7 DEF w


----------------------------------------------------------------------------
(* A scalar is set.                                                        *)

\* The lines that _set_scalar takes for the key.
Of(f, k) == Matches(f, k, {"sample", "live"})

\* The first line of the key says so, and it is the only one that is not
\* commented out.
SetFor(f, k, v) ==
  \E i \in Of(f, k) :
    f[i] = Live(k, v) /\ \A j \in Of(f, k) : i <= j /\ (f[j].is = "live" => j = i)

\* g is f but for the lines of a key.
ButFor(f, g, k) ==
  /\ g \in Seq(LineType)
  /\ \A kinds : "sample" \notin kinds /\ "live" \notin kinds =>
       Kept(g, kinds) = Kept(f, kinds)
  /\ \A q, u : q # k /\ SetFor(f, q, u) => SetFor(g, q, u)

\* What a line is.
LEMMA LinesAre ==
  ASSUME NEW k \in Scalars, NEW v \in Raw
  PROVE  /\ Live(k, v) \in LineType /\ Sample(k) \in LineType /\ Inner(k) \in LineType
         /\ Live(k, v).is = "live" /\ Live(k, v).key = k /\ Live(k, v).val = v
         /\ Sample(k).is = "sample" /\ Inner(k).is = "inner"
<1>1. NoSection \in Section
  <2>1. <<>> \in Seq(Entry)
    BY EmptySeq
  <2> QED BY <2>1 DEF NoSection, Section
<1>2. k \in Keys /\ NoValue \in Raw
  BY DEF Keys, Raw
<1> QED BY <1>1, <1>2 DEF Live, Sample, Inner, Line, LineType, Kinds

\* The other lines.
LEMMA OtherLinesAre ==
  /\ Foreign \in LineType /\ Doc \in LineType /\ Empty \in LineType
  /\ Mark \in LineType /\ DocumentEnd \in LineType
  /\ Foreign.is = "foreign" /\ Doc.is = "doc" /\ Empty.is = "empty"
  /\ Mark.is = "mark" /\ DocumentEnd.is = "end"
  /\ \A s \in Section : Logging(s) \in LineType /\ Logging(s).is = "logging"
                        /\ Logging(s).section = s
<1>1. NoSection \in Section
  <2>1. <<>> \in Seq(Entry)
    BY EmptySeq
  <2> QED BY <2>1 DEF NoSection, Section
<1>2. NoValue \in Raw /\ {"product", "none", "logging"} \subseteq Keys
  BY DEF Keys, Raw
<1> QED
  BY <1>1, <1>2 DEF Foreign, Doc, Empty, Mark, DocumentEnd, Logging, Line,
     LineType, Kinds

\* It is appended, where the file has no line of the key.
LEMMA AppendedIsButFor ==
  ASSUME NEW f \in Seq(LineType), NEW k \in Scalars, NEW v \in Raw
  PROVE  ButFor(f, Append(f, Live(k, v)), k)
<1> DEFINE g == Append(f, Live(k, v))
           N == Len(f)
<1>1. /\ g \in Seq(LineType) /\ Len(g) = N + 1
      /\ \A i \in 1..N : g[i] = f[i]
      /\ g[N + 1] = Live(k, v)
  BY LinesAre, AppendProperties
<1>2. N \in Nat /\ DOMAIN f = 1..N /\ DOMAIN g = 1..(N + 1)
  BY <1>1, LenProperties
<1> HIDE DEF g, N
<1>3. g[N + 1].is = "live" /\ g[N + 1].key = k
  BY <1>1, LinesAre
<1>4. ASSUME NEW kinds, "live" \notin kinds
      PROVE  Kept(g, kinds) = Kept(f, kinds)
  <2>1. PlacesOf(f, kinds) = PlacesOf(g, kinds)
    BY <1>1, <1>2, <1>3, <1>4 DEF PlacesOf
  <2>2. \A i \in PlacesOf(f, kinds) : g[i] = f[i]
    BY <1>1, <1>2 DEF PlacesOf
  <2> QED BY <1>1, <2>1, <2>2, KeptInPlace
<1>6. ASSUME NEW q, NEW u, q # k, SetFor(f, q, u)
      PROVE  SetFor(g, q, u)
  <2>1. \A i \in Of(f, q) : i \in DOMAIN f
    BY DEF Of, Matches
  <2>2. Of(g, q) = Of(f, q)
    BY <1>1, <1>2, <1>3, <1>6 DEF Of, Matches
  <2>3. \A i \in Of(f, q) : g[i] = f[i]
    BY <1>1, <1>2, <2>1
  <2> QED BY <1>6, <2>2, <2>3 DEF SetFor
<1> QED BY <1>1, <1>4, <1>6 DEF ButFor, g

\* One of its lines is replaced.
LEMMA ReplacedIsButFor ==
  ASSUME NEW f \in Seq(LineType), NEW k \in Scalars, NEW v \in Raw, NEW m \in Of(f, k)
  PROVE  ButFor(f, [f EXCEPT ![m] = Live(k, v)], k)
<1> DEFINE g == [f EXCEPT ![m] = Live(k, v)]
<1>1. m \in DOMAIN f /\ f[m].key = k /\ f[m].is \in {"sample", "live"}
  BY DEF Of, Matches
<1>2. DOMAIN f = 1..Len(f) /\ Len(f) \in Nat
  BY LenProperties
<1>3. /\ g \in Seq(LineType) /\ DOMAIN g = DOMAIN f
      /\ \A j \in DOMAIN f : g[j] = IF j = m THEN Live(k, v) ELSE f[j]
  BY <1>1, <1>2, LinesAre, ExceptSeq
<1> HIDE DEF g
<1>4. g[m].is = "live" /\ g[m].key = k
  BY <1>1, <1>3, LinesAre
<1>5. ASSUME NEW kinds, "sample" \notin kinds, "live" \notin kinds
      PROVE  Kept(g, kinds) = Kept(f, kinds)
  <2>1. PlacesOf(f, kinds) = PlacesOf(g, kinds)
    BY <1>1, <1>3, <1>4, <1>5 DEF PlacesOf
  <2>2. \A i \in PlacesOf(f, kinds) : g[i] = f[i]
    BY <1>1, <1>3, <1>5 DEF PlacesOf
  <2> QED BY <1>3, <2>1, <2>2, KeptInPlace
<1>7. ASSUME NEW q, NEW u, q # k, SetFor(f, q, u)
      PROVE  SetFor(g, q, u)
  <2>1. \A i \in Of(f, q) : i \in DOMAIN f /\ i # m
    BY <1>1, <1>7 DEF Of, Matches
  <2>2. Of(g, q) = Of(f, q)
    BY <1>1, <1>3, <1>4, <1>7 DEF Of, Matches
  <2>3. \A i \in Of(f, q) : g[i] = f[i]
    BY <1>3, <2>1
  <2> QED BY <1>7, <2>2, <2>3 DEF SetFor
<1> QED BY <1>3, <1>5, <1>7 DEF ButFor, g

\* Some of its lines go.
LEMMA WithoutIsButFor ==
  ASSUME NEW f \in Seq(LineType), NEW k \in Scalars, NEW gone \in SUBSET Of(f, k)
  PROVE  ButFor(f, Without(f, gone), k)
<1> DEFINE K == DOMAIN f \ gone
           w == Without(f, gone)
<1>1. /\ w \in Seq(LineType) /\ DOMAIN w = 1..Cardinality(K)
      /\ \A n \in DOMAIN w : Nth(K, n) \in K /\ w[n] = f[Nth(K, n)]
                             /\ Rank(K, Nth(K, n)) = n
      /\ \A i \in K : Rank(K, i) \in DOMAIN w /\ w[Rank(K, i)] = f[i]
      /\ \A i, j \in K : i < j => Rank(K, i) < Rank(K, j)
  BY WithoutIs
<1>2. K \in SUBSET DOMAIN f /\ DOMAIN f = 1..Len(f) /\ Len(f) \in Nat
  BY LenProperties
<1>3. K \in SUBSET Nat /\ Cardinality(K) \in Nat
  BY <1>2, PlacesAreFinite
<1>4. \A i \in gone : f[i].key = k /\ f[i].is \in {"sample", "live"}
  BY DEF Of, Matches
<1>5. \A i \in DOMAIN f : f[i].key # k \/ f[i].is \notin {"sample", "live"} => i \in K
  BY <1>4
<1> HIDE DEF w, K
<1>6. ASSUME NEW kinds, "sample" \notin kinds, "live" \notin kinds
      PROVE  Kept(w, kinds) = Kept(f, kinds)
  <2>1. \A i \in PlacesOf(f, kinds) : i \notin gone
    BY <1>4, <1>6 DEF PlacesOf
  <2> QED BY <2>1, KeptWithout DEF w
<1>8. ASSUME NEW q, NEW u, q # k, SetFor(f, q, u)
      PROVE  SetFor(w, q, u)
  <2>1. PICK i \in Of(f, q) :
          f[i] = Live(q, u) /\ \A j \in Of(f, q) : i <= j /\ (f[j].is = "live" => j = i)
    BY <1>8 DEF SetFor
  <2>2. i \in K
    BY <1>5, <1>8 DEF Of, Matches
  <2>3. Rank(K, i) \in Of(w, q) /\ w[Rank(K, i)] = f[i]
    BY <1>1, <2>2 DEF Of, Matches
  <2>4. ASSUME NEW n \in Of(w, q)
        PROVE  Rank(K, i) <= n /\ (w[n].is = "live" => n = Rank(K, i))
    <3>1. n \in DOMAIN w
      BY DEF Of, Matches
    <3>2. /\ Nth(K, n) \in K /\ w[n] = f[Nth(K, n)] /\ Rank(K, Nth(K, n)) = n
      BY <1>1, <3>1
    <3>3. Nth(K, n) \in Of(f, q)
      BY <1>2, <3>2 DEF Of, Matches
    <3>4. i <= Nth(K, n) /\ (w[n].is = "live" => Nth(K, n) = i)
      BY <2>1, <3>2, <3>3
    <3>5. i = Nth(K, n) \/ i < Nth(K, n)
      BY <1>3, <2>2, <3>2, <3>4
    <3>6. Rank(K, i) = n \/ Rank(K, i) < n
      BY <1>1, <2>2, <3>2, <3>5
    <3>7. n \in Nat
      BY <1>1, <1>3, <3>1
    <3>8. Rank(K, i) \in Nat
      BY <1>1, <1>3, <2>2
    <3> QED BY <3>2, <3>4, <3>6, <3>7, <3>8
  <2> QED BY <2>1, <2>3, <2>4 DEF SetFor
<1> QED BY <1>1, <1>6, <1>8 DEF ButFor, w


\* A key that is set: the patch of it, whatever the file was.
LEMMA SetScalarSets ==
  ASSUME NEW f \in Seq(LineType), NEW k \in Scalars, NEW v \in Raw
  PROVE  ButFor(f, SetScalar(f, k, v), k) /\ SetFor(SetScalar(f, k, v), k, v)
<1>1. Of(f, k) \in SUBSET DOMAIN f /\ DOMAIN f = 1..Len(f) /\ Len(f) \in Nat
  BY LenProperties DEF Of, Matches
<1>2. CASE Of(f, k) = {}
  <2> DEFINE g == Append(f, Live(k, v))
             n == Len(f) + 1
  <2>1. SetScalar(f, k, v) = g
    BY <1>2 DEF SetScalar, Of
  <2>2. /\ g \in Seq(LineType) /\ Len(g) = n
        /\ \A i \in 1..Len(f) : g[i] = f[i]
        /\ g[n] = Live(k, v)
    BY LinesAre, AppendProperties
  <2>3. DOMAIN g = 1..n
    BY <2>2, LenProperties
  <2> HIDE DEF g
  <2>4. Of(g, k) = {n}
    <3>1. g[n].is = "live" /\ g[n].key = k
      BY <2>2, LinesAre
    <3>2. \A i \in DOMAIN f : ~(f[i].key = k /\ f[i].is \in {"sample", "live"})
      BY <1>2 DEF Of, Matches
    <3> QED BY <1>1, <2>2, <2>3, <3>1, <3>2 DEF Of, Matches
  <2>5. SetFor(g, k, v)
    BY <1>1, <2>2, <2>4 DEF SetFor
  <2>6. ButFor(f, g, k)
    BY AppendedIsButFor DEF g
  <2> QED BY <2>1, <2>5, <2>6
<1>3. CASE Of(f, k) # {}
  <2> DEFINE m == Min(Of(f, k))
             g == [f EXCEPT ![m] = Live(k, v)]
             gone == Matches(f, k, {"live"}) \ {m}
             w == Without(g, gone)
             K == DOMAIN g \ gone
  <2>1. m \in Of(f, k) /\ \A j \in Of(f, k) : m <= j
    <3>1. Of(f, k) \in SUBSET Nat
      BY <1>1
    <3> QED BY <1>3, <3>1, LeastOfNaturals
  <2>2. SetScalar(f, k, v) = w
    BY <1>3 DEF SetScalar, Of
  <2> HIDE DEF m
  <2>3. ButFor(f, g, k)
    BY <2>1, ReplacedIsButFor
  <2>4. /\ g \in Seq(LineType) /\ DOMAIN g = DOMAIN f
        /\ \A j \in DOMAIN f : g[j] = IF j = m THEN Live(k, v) ELSE f[j]
    BY <1>1, <2>1, LinesAre, ExceptSeq
  <2> HIDE DEF g
  <2>5. g[m].is = "live" /\ g[m].key = k /\ g[m] = Live(k, v) /\ m \in DOMAIN f
    BY <1>1, <2>1, <2>4, LinesAre
  <2>6. Of(g, k) = Of(f, k)
    BY <2>1, <2>4, <2>5 DEF Of, Matches
  <2>7. gone \in SUBSET Of(g, k)
    BY <2>4, <2>6 DEF Of, Matches
  <2>8. ButFor(g, w, k)
    <3> HIDE DEF gone
    <3> QED BY <2>4, <2>7, WithoutIsButFor
  <2>9. /\ w \in Seq(LineType) /\ DOMAIN w = 1..Cardinality(K)
        /\ \A n \in DOMAIN w : Nth(K, n) \in K /\ w[n] = g[Nth(K, n)]
                               /\ Rank(K, Nth(K, n)) = n
        /\ \A i \in K : Rank(K, i) \in DOMAIN w /\ w[Rank(K, i)] = g[i]
        /\ \A i, j \in K : i < j => Rank(K, i) < Rank(K, j)
    <3>1. g \in Seq(LineType)
      BY <2>4
    <3> HIDE DEF gone
    <3> QED BY <3>1, WithoutIs
  <2>10. ButFor(f, w, k)
    BY <2>3, <2>8 DEF ButFor
  <2>11. K \in SUBSET DOMAIN g
    OBVIOUS
  <2>12. m \in K
    BY <2>4, <2>5
  <2>13. \A i \in K : i \in Of(f, k) /\ i # m => f[i].is # "live"
    BY <2>4 DEF Of, Matches
  <2> HIDE DEF w, K, gone
  <2>14. K \in SUBSET Nat /\ Cardinality(K) \in Nat
    BY <2>4, <2>11, PlacesAreFinite
  <2> DEFINE p == Rank(K, m)
  <2>15. p \in Of(w, k) /\ w[p] = Live(k, v) /\ p \in Nat
    <3>1. p \in DOMAIN w /\ w[p] = g[m]
      BY <2>9, <2>12
    <3> QED BY <2>5, <2>9, <2>14, <3>1 DEF Of, Matches
  <2>16. ASSUME NEW n \in Of(w, k)
         PROVE  p <= n /\ (w[n].is = "live" => n = p)
    <3> DEFINE i == Nth(K, n)
    <3>1. n \in DOMAIN w /\ n \in Nat
      BY <2>9, <2>14 DEF Of, Matches
    <3>2. i \in K /\ w[n] = g[i] /\ Rank(K, i) = n
      BY <2>9, <3>1
    <3>3. i \in Of(f, k)
      BY <2>6, <2>11, <3>2 DEF Of, Matches
    <3>4. m <= i /\ m \in Nat /\ i \in Nat
      BY <2>1, <2>12, <2>14, <3>2, <3>3
    <3>5. CASE i = m
      BY <2>15, <3>2, <3>5
    <3>6. CASE i # m
      <4>1. g[i] = f[i]
        BY <2>4, <2>11, <3>2, <3>6
      <4>2. w[n].is # "live"
        BY <2>13, <3>2, <3>3, <3>6, <4>1
      <4>3. p < n
        BY <2>9, <2>12, <3>2, <3>4, <3>6
      <4> QED BY <2>15, <3>1, <4>2, <4>3
    <3> QED BY <3>5, <3>6
  <2> HIDE DEF p
  <2>17. SetFor(w, k, v)
    BY <2>15, <2>16 DEF SetFor
  <2> QED BY <2>2, <2>10, <2>17
<1> QED BY <1>2, <1>3

\* Nothing goes.
LEMMA WithoutNothing ==
  ASSUME NEW X, NEW f \in Seq(X)
  PROVE  Without(f, {}) = f
<1> DEFINE D == DOMAIN f
           w == Picked(f, D)
<1>1. D = 1..Len(f) /\ Len(f) \in Nat
  BY LenProperties
<1>2. Cardinality(D) = Len(f)
  BY <1>1, FS_Interval
<1>3. \A i \in D : Rank(D, i) = i
  <2> SUFFICES ASSUME NEW i \in D PROVE Rank(D, i) = i
    OBVIOUS
  <2>1. UpTo(D, i) = 1..i /\ i \in Nat
    BY <1>1 DEF UpTo
  <2>2. Cardinality(1..i) = i
    BY <2>1, FS_Interval
  <2> QED BY <2>1, <2>2 DEF Rank
<1> HIDE DEF D
<1>4. w \in Seq(X) /\ Len(w) = Len(f) /\ \A i \in D : w[Rank(D, i)] = f[i]
  <2>1. D \in SUBSET DOMAIN f
    BY DEF D
  <2> QED BY <1>2, <2>1, PickedIs
<1>5. \A i \in 1..Len(f) : w[i] = f[i]
  BY <1>1, <1>3, <1>4
<1>6. w = f
  BY <1>4, <1>5, SeqEqual
<1>7. Without(f, {}) = Picked(f, DOMAIN f \ {}) /\ DOMAIN f \ {} = DOMAIN f
  BY DEF Without
<1> QED BY <1>6, <1>7 DEF D

\* It is set once.
LEMMA SetScalarAgain ==
  ASSUME NEW f \in Seq(LineType), NEW k, NEW v, SetFor(f, k, v)
  PROVE  SetScalar(f, k, v) = f
<1>1. PICK i \in Of(f, k) :
        f[i] = Live(k, v) /\ \A j \in Of(f, k) : i <= j /\ (f[j].is = "live" => j = i)
  BY DEF SetFor
<1>2. Of(f, k) \in SUBSET DOMAIN f /\ DOMAIN f = 1..Len(f) /\ Len(f) \in Nat
  BY LenProperties DEF Of, Matches
<1> DEFINE m == Min(Of(f, k))
<1>3. m \in Of(f, k) /\ \A j \in Of(f, k) : m <= j
  <2>1. Of(f, k) \in SUBSET Nat
    BY <1>2
  <2> QED BY <2>1, LeastOfNaturals
<1> HIDE DEF m
<1>4. m = i
  BY <1>1, <1>2, <1>3
<1>5. [f EXCEPT ![m] = Live(k, v)] = f
  BY <1>1, <1>2, <1>4, LenProperties
<1>6. Matches(f, k, {"live"}) \ {m} = {}
  BY <1>1, <1>4 DEF Of, Matches
<1>7. SetScalar(f, k, v)
        = Without([f EXCEPT ![m] = Live(k, v)], Matches(f, k, {"live"}) \ {m})
  BY <1>1 DEF SetScalar, Of, m
<1> QED BY <1>5, <1>6, <1>7, WithoutNothing


----------------------------------------------------------------------------
(* The scalars are set, one after the other.                               *)

\* What config.yml asks for the n-th key, and one round of the loop.
Wish(c, n) == Written(SCALARS[n], Stripped(c.scalar[SCALARS[n]]))

Step(c, n, g) == IF Says(c, SCALARS[n]) THEN SetScalar(g, SCALARS[n], Wish(c, n)) ELSE g

\* The files on the way.
Way(f, c, set) ==
  set = [n \in 0..Len(SCALARS) |-> IF n = 0 THEN f ELSE Step(c, n, set[n - 1])]

\* The recursion has a solution, and SetScalars takes its last file.
LEMMA WayExists ==
  ASSUME NEW f, NEW c
  PROVE  \E set : Way(f, c, set) /\ SetScalars(f, c) = set[Len(SCALARS)]
<1> DEFINE N == Len(SCALARS)
           Some(m, s) == s = [n \in 0..m |-> IF n = 0 THEN f ELSE Step(c, n, s[n - 1])]
           Bad == {m \in 0..N : ~\E s : Some(m, s)}
<1>1. N \in Nat
  BY SettingsAssumption, LenProperties
<1>2. \E s : Some(N, s)
  <2> SUFFICES ASSUME Bad # {} PROVE FALSE
    BY <1>1
  <2>1. Bad \in SUBSET Nat
    BY <1>1
  <2> DEFINE m == Min(Bad)
  <2>2. m \in Bad /\ \A y \in Bad : m <= y
    BY <2>1, LeastOfNaturals
  <2> HIDE DEF m
  <2>3. m \in 0..N /\ m \in Nat /\ ~\E s : Some(m, s)
    BY <1>1, <2>2
  <2>4. CASE m = 0
    <3> DEFINE s == [n \in 0..m |-> f]
    <3>1. s = [n \in 0..m |-> IF n = 0 THEN f ELSE Step(c, n, s[n - 1])]
      BY <2>4
    <3> QED BY <2>3, <3>1
  <2>5. CASE m # 0
    <3>1. m - 1 \in 0..N /\ m - 1 \notin Bad
      <4>1. m - 1 \in 0..N /\ ~(m <= m - 1)
        BY <1>1, <2>3, <2>5
      <4> HIDE DEF Bad
      <4> QED BY <2>2, <4>1
    <3>2. PICK s : Some(m - 1, s)
      BY <3>1
    <3> DEFINE t == [n \in 0..m |-> IF n < m THEN s[n] ELSE Step(c, m, s[m - 1])]
    <3>3. ASSUME NEW n \in 0..m
          PROVE  t[n] = IF n = 0 THEN f ELSE Step(c, n, t[n - 1])
      <4>1. n \in Nat /\ n <= m
        BY <2>3
      <4>2. CASE n = 0
        <5>1. t[n] = s[n] /\ 0 \in 0..(m - 1)
          BY <2>3, <2>5, <4>2
        <5> QED BY <3>2, <4>2, <5>1
      <4>3. CASE n # 0 /\ n < m
        <5>1. t[n] = s[n] /\ t[n - 1] = s[n - 1] /\ n \in 0..(m - 1)
          BY <2>3, <4>1, <4>3
        <5> QED BY <3>2, <4>3, <5>1
      <4>4. CASE n # 0 /\ n = m
        <5>1. t[n] = Step(c, m, s[m - 1]) /\ t[n - 1] = s[n - 1]
          BY <2>3, <4>1, <4>4
        <5> QED BY <4>4, <5>1
      <4>5. n = 0 \/ (n # 0 /\ n < m) \/ (n # 0 /\ n = m)
        BY <2>3, <4>1
      <4> QED BY <4>2, <4>3, <4>4, <4>5
    <3>4. Some(m, t)
      <4>1. t = [n \in 0..m |-> t[n]]
        OBVIOUS
      <4> HIDE DEF t
      <4> QED BY <3>3, <4>1
    <3> QED BY <2>3, <3>4
  <2> QED BY <2>4, <2>5
<1> DEFINE set == CHOOSE s : Way(f, c, s)
<1>3. Way(f, c, set)
  <2>1. \E s : Way(f, c, s)
    BY <1>2 DEF Way
  <2> QED BY <2>1
<1>4. SetScalars(f, c) = set[N]
  BY DEF SetScalars, Way, Step, Wish
<1> QED BY <1>3, <1>4

\* What holds of every file on the way: those before it have been set, and
\* nothing else is touched.
Underway(f, c, n, g) ==
  /\ g \in Seq(LineType)
  /\ \A kinds : "sample" \notin kinds /\ "live" \notin kinds =>
       Kept(g, kinds) = Kept(f, kinds)
  /\ \A m \in 1..n : Says(c, SCALARS[m]) => SetFor(g, SCALARS[m], Wish(c, m))

\* What is asked for the n-th key is one of its values.
LEMMA WishIsRaw ==
  ASSUME NEW c \in Configs, NEW n \in 1..Len(SCALARS)
  PROVE  SCALARS[n] \in Scalars /\ Wish(c, n) \in Raw /\ Says(c, SCALARS[n]) = (Wish(c, n) # NoValue)
<1>1. SCALARS[n] \in Scalars
  BY SettingsAssumption, ElementOfSeq
<1>2. c.scalar \in [Scalars -> Raw]
  BY SettingsAssumption
<1>3. NoValue \in Raw
  BY DEF Raw
<1> DEFINE v == Stripped(c.scalar[SCALARS[n]])
<1>4. v \in Raw /\ Says(c, SCALARS[n]) = (v # NoValue)
  BY <1>1, <1>2, <1>3 DEF Stripped, Says
<1>5. Wish(c, n) = IF SCALARS[n] = "nfs_version" THEN Plain[v] ELSE v
  BY DEF Wish, Written
<1> HIDE DEF v
<1>6. Plain[v] \in Raw /\ (Plain[v] = NoValue <=> v = NoValue)
  BY <1>4, SettingsAssumption
<1> QED BY <1>1, <1>4, <1>5, <1>6

\* One more of them.
LEMMA StepGoesOn ==
  ASSUME NEW f \in Seq(LineType), NEW c \in Configs, NEW n \in 1..Len(SCALARS),
         NEW g, Underway(f, c, n - 1, g)
  PROVE  Underway(f, c, n, Step(c, n, g))
<1> DEFINE k == SCALARS[n]
           v == Wish(c, n)
<1>1. k \in Scalars /\ v \in Raw /\ Len(SCALARS) \in Nat /\ n \in Nat
      /\ DOMAIN SCALARS = 1..Len(SCALARS)
  <2>1. Len(SCALARS) \in Nat /\ DOMAIN SCALARS = 1..Len(SCALARS)
    BY SettingsAssumption, LenProperties
  <2>2. n \in Nat
    BY <2>1
  <2> QED BY <2>1, <2>2, WishIsRaw
<1>2. \A m \in 1..n : m # n => m \in 1..(n - 1) /\ SCALARS[m] # k
  <2> SUFFICES ASSUME NEW m \in 1..n, m # n
               PROVE  m \in 1..(n - 1) /\ SCALARS[m] # SCALARS[n]
    OBVIOUS
  <2>1. m \in 1..(n - 1) /\ m \in DOMAIN SCALARS /\ n \in DOMAIN SCALARS
    BY <1>1
  <2> QED BY <2>1, SettingsAssumption DEF IsInjective
<1>3. g \in Seq(LineType)
  BY DEF Underway
<1>4. CASE Says(c, SCALARS[n])
  <2> DEFINE w == SetScalar(g, k, v)
  <2>1. Step(c, n, g) = w
    BY <1>4 DEF Step
  <2>2. ButFor(g, w, k) /\ SetFor(w, k, v)
    BY <1>1, <1>3, SetScalarSets
  <2> HIDE DEF w
  <2>3. w \in Seq(LineType)
    BY <2>2 DEF ButFor
  <2>4. \A kinds : "sample" \notin kinds /\ "live" \notin kinds =>
          Kept(w, kinds) = Kept(f, kinds)
    BY <2>2 DEF ButFor, Underway
  <2>5. ASSUME NEW m \in 1..n, Says(c, SCALARS[m])
        PROVE  SetFor(w, SCALARS[m], Wish(c, m))
    <3>1. CASE m = n
      BY <2>2, <3>1
    <3>2. CASE m # n
      <4>1. m \in 1..(n - 1) /\ SCALARS[m] # k
        BY <1>2, <3>2
      <4>2. SetFor(g, SCALARS[m], Wish(c, m))
        BY <2>5, <4>1 DEF Underway
      <4> HIDE DEF k
      <4> QED BY <2>2, <4>1, <4>2 DEF ButFor
    <3> QED BY <3>1, <3>2
  <2> QED BY <2>1, <2>3, <2>4, <2>5 DEF Underway
<1>5. CASE ~Says(c, SCALARS[n])
  <2>1. Step(c, n, g) = g
    BY <1>5 DEF Step
  <2>2. ASSUME NEW m \in 1..n, Says(c, SCALARS[m])
        PROVE  SetFor(g, SCALARS[m], Wish(c, m))
    <3>1. m # n
      BY <1>5, <2>2
    <3> QED BY <1>2, <2>2, <3>1 DEF Underway
  <2> QED BY <2>1, <2>2 DEF Underway
<1> QED BY <1>4, <1>5

\* All of them.
LEMMA ScalarsSet ==
  ASSUME NEW f \in Seq(LineType), NEW c \in Configs
  PROVE  Underway(f, c, Len(SCALARS), SetScalars(f, c))
<1> DEFINE N == Len(SCALARS)
<1>1. N \in Nat
  BY SettingsAssumption, LenProperties
<1>2. PICK set : Way(f, c, set) /\ SetScalars(f, c) = set[N]
  BY WayExists
<1>3. \A n \in 0..N : set[n] = IF n = 0 THEN f ELSE Step(c, n, set[n - 1])
  BY <1>2 DEF Way
<1> DEFINE Bad == {n \in 0..N : ~Underway(f, c, n, set[n])}
           m == Min(Bad)
<1>4. Bad = {}
  <2> SUFFICES ASSUME Bad # {} PROVE FALSE
    OBVIOUS
  <2>1. Bad \in SUBSET Nat
    BY <1>1
  <2>2. m \in Bad /\ \A y \in Bad : m <= y
    BY <2>1, LeastOfNaturals
  <2> HIDE DEF m
  <2>3. m \in 0..N /\ m \in Nat /\ ~Underway(f, c, m, set[m])
    BY <1>1, <2>2
  <2>4. CASE m = 0
    <3>1. set[m] = f
      BY <1>3, <2>3, <2>4
    <3>2. 1..m = {}
      BY <2>4
    <3> QED BY <2>3, <3>1, <3>2 DEF Underway
  <2>5. CASE m # 0
    <3>1. m - 1 \in 0..N /\ m - 1 \notin Bad /\ m \in 1..N
      BY <1>1, <2>1, <2>2, <2>3, <2>5
    <3>2. Underway(f, c, m - 1, set[m - 1])
      BY <3>1
    <3>3. set[m] = Step(c, m, set[m - 1])
      BY <1>3, <2>3, <2>5
    <3>4. Underway(f, c, m, Step(c, m, set[m - 1]))
      BY <3>1, <3>2, StepGoesOn
    <3> QED BY <2>3, <3>3, <3>4
  <2> QED BY <2>4, <2>5
<1>5. N \in 0..N
  BY <1>1
<1> QED BY <1>2, <1>4, <1>5

\* Once more changes nothing.
LEMMA ScalarsSetAgain ==
  ASSUME NEW f \in Seq(LineType), NEW c \in Configs,
         \A n \in 1..Len(SCALARS) : Says(c, SCALARS[n]) => SetFor(f, SCALARS[n], Wish(c, n))
  PROVE  SetScalars(f, c) = f
<1> DEFINE N == Len(SCALARS)
<1>1. N \in Nat
  BY SettingsAssumption, LenProperties
<1>2. PICK set : Way(f, c, set) /\ SetScalars(f, c) = set[N]
  BY WayExists
<1>3. \A n \in 0..N : set[n] = IF n = 0 THEN f ELSE Step(c, n, set[n - 1])
  BY <1>2 DEF Way
<1> DEFINE Bad == {n \in 0..N : set[n] # f}
           m == Min(Bad)
<1>4. Bad = {}
  <2> SUFFICES ASSUME Bad # {} PROVE FALSE
    OBVIOUS
  <2>1. Bad \in SUBSET Nat
    BY <1>1
  <2>2. m \in Bad /\ \A y \in Bad : m <= y
    BY <2>1, LeastOfNaturals
  <2> HIDE DEF m
  <2>3. m \in 0..N /\ m \in Nat /\ set[m] # f
    BY <1>1, <2>2
  <2>4. m # 0
    BY <1>3, <2>3
  <2>5. m - 1 \in 0..N /\ m - 1 \notin Bad /\ m \in 1..N
    BY <1>1, <2>1, <2>2, <2>3, <2>4
  <2>6. set[m] = Step(c, m, f)
    BY <1>3, <2>3, <2>4, <2>5
  <2>7. Step(c, m, f) = f
    BY <2>5, SetScalarAgain DEF Step
  <2> QED BY <2>3, <2>6, <2>7
<1>5. N \in 0..N
  BY <1>1
<1> QED BY <1>2, <1>4, <1>5


----------------------------------------------------------------------------
(* The block is dropped, and written.                                      *)

\* A prefix of a prefix.
LEMMA PrefixTwice ==
  ASSUME NEW X, NEW f \in Seq(X), NEW m \in 0..Len(f), NEW n \in 0..m
  PROVE  SubSeq(SubSeq(f, 1, m), 1, n) = SubSeq(f, 1, n) /\ n \in 0..Len(f)
<1> DEFINE g == SubSeq(f, 1, m)
<1>1. Len(f) \in Nat
  BY LenProperties
<1>2. m \in Nat /\ n \in Nat /\ n \in 0..Len(f) /\ 1..n \subseteq 1..m
  BY <1>1
<1>3. /\ g \in Seq(X) /\ Len(g) = m
      /\ \A i \in 1..m : g[i] = f[i]
  BY PrefixIs
<1> HIDE DEF g
<1>4. /\ SubSeq(g, 1, n) \in Seq(X) /\ Len(SubSeq(g, 1, n)) = n
      /\ \A i \in 1..n : SubSeq(g, 1, n)[i] = g[i]
  <2>1. n \in 0..Len(g)
    BY <1>3
  <2> QED BY <1>3, <2>1, PrefixIs
<1>5. /\ SubSeq(f, 1, n) \in Seq(X) /\ Len(SubSeq(f, 1, n)) = n
      /\ \A i \in 1..n : SubSeq(f, 1, n)[i] = f[i]
  BY <1>2, PrefixIs
<1>6. \A i \in 1..n : SubSeq(g, 1, n)[i] = SubSeq(f, 1, n)[i]
  BY <1>2, <1>3, <1>4, <1>5
<1>7. SubSeq(g, 1, n) = SubSeq(f, 1, n)
  BY <1>4, <1>5, <1>6, SeqEqual
<1> QED BY <1>2, <1>7 DEF g

\* The empty lines at the end go.
LEMMA TrimmedIs ==
  ASSUME NEW X, NEW f \in Seq(X)
  PROVE  \E m \in 0..Len(f) :
           Trimmed(f) = SubSeq(f, 1, m) /\ \A i \in DOMAIN f : i > m => f[i].is = "empty"
<1> DEFINE S == {0} \cup {i \in DOMAIN f : f[i].is # "empty"}
           m == Max(S)
<1>1. DOMAIN f = 1..Len(f) /\ Len(f) \in Nat
  BY LenProperties
<1>2. S \in SUBSET (0..Len(f)) /\ S # {}
  BY <1>1
<1>3. m \in S /\ \A y \in S : m >= y
  <2> HIDE DEF S
  <2> QED BY <1>1, <1>2, GreatestOfNaturals
<1>4. Trimmed(f) = SubSeq(f, 1, m)
  BY DEF Trimmed
<1> HIDE DEF m
<1>5. m \in 0..Len(f)
  BY <1>2, <1>3
<1>6. ASSUME NEW i \in DOMAIN f, i > m PROVE f[i].is = "empty"
  <2>1. i \notin S
    BY <1>1, <1>3, <1>5, <1>6
  <2> QED BY <2>1
<1> QED BY <1>4, <1>5, <1>6

\* Where the marks are.
Marks(f) == PlacesOf(f, {"mark"})

\* What is dropped: nothing, or what is from the first mark on, with the empty
\* lines above it, and then no key is there.
LEMMA DropBlockIs ==
  ASSUME NEW f \in Seq(LineType)
  PROVE  \/ /\ DropBlock(f) = f
            /\ Marks(f) = {} \/ \E i, j \in DOMAIN f :
                                  i < j /\ i \in Marks(f) /\ f[j].is \in {"live", "foreign"}
         \/ \E a \in Marks(f), m \in 0..(Len(f)) :
              /\ DropBlock(f) = SubSeq(f, 1, m) /\ m < a
              /\ Above(f) = SubSeq(f, 1, a - 1)
              /\ \A i \in DOMAIN f : m < i /\ i < a => f[i].is = "empty"
              /\ \A i \in DOMAIN f : i > a => f[i].is \notin {"live", "foreign"}
              /\ \A i \in Marks(f) : a <= i
<1> DEFINE at == {i \in DOMAIN f : f[i].is = "mark"}
           a == Min(at)
           below == \E i \in DOMAIN f : i > a /\ f[i].is \in {"live", "foreign"}
<1>1. DOMAIN f = 1..Len(f) /\ Len(f) \in Nat
  BY LenProperties
<1>2. at = Marks(f)
  BY DEF Marks, PlacesOf
<1>3. DropBlock(f) = IF at = {} \/ below THEN f ELSE Trimmed(SubSeq(f, 1, a - 1))
  BY DEF DropBlock
<1>4. Above(f) = IF at = {} THEN f ELSE SubSeq(f, 1, a - 1)
  BY DEF Above
<1>5. at \in SUBSET Nat /\ at \in SUBSET DOMAIN f
  BY <1>1
<1> HIDE DEF at
<1>6. CASE at = {}
  BY <1>2, <1>3, <1>6
<1>7. CASE at # {}
  <2>1. a \in at /\ \A y \in at : a <= y
    BY <1>5, <1>7, LeastOfNaturals
  <2>2. CASE below
    <3>1. PICK j \in DOMAIN f : j > a /\ f[j].is \in {"live", "foreign"}
      BY <2>2
    <3>2. a \in DOMAIN f /\ a \in Marks(f) /\ a < j
      BY <1>1, <1>2, <1>5, <2>1, <3>1
    <3>3. DropBlock(f) = f
      BY <1>3, <2>2
    <3> QED BY <3>1, <3>2, <3>3
  <2>3. CASE ~below
    <3> DEFINE g == SubSeq(f, 1, a - 1)
    <3>1. a \in 1..Len(f) /\ a - 1 \in 0..Len(f) /\ a \in Nat
      <4>1. a \in 1..Len(f)
        BY <1>1, <1>5, <2>1
      <4> HIDE DEF a
      <4> QED BY <1>1, <4>1
    <3>2. /\ g \in Seq(LineType) /\ Len(g) = a - 1 /\ DOMAIN g = 1..(a - 1)
          /\ \A i \in 1..(a - 1) : g[i] = f[i]
      <4> HIDE DEF a
      <4> QED BY <3>1, PrefixIs
    <3> HIDE DEF g
    <3>3. PICK m \in 0..Len(g) :
            Trimmed(g) = SubSeq(g, 1, m) /\ \A i \in DOMAIN g : i > m => g[i].is = "empty"
      BY <3>2, TrimmedIs
    <3>4. m \in 0..(a - 1)
      BY <3>2
    <3>5. SubSeq(g, 1, m) = SubSeq(f, 1, m) /\ m \in 0..Len(f)
      <4> HIDE DEF a
      <4> QED BY <3>1, <3>4, PrefixTwice DEF g
    <3>6. DropBlock(f) = SubSeq(f, 1, m)
      BY <1>3, <1>7, <2>3, <3>3, <3>5 DEF g
    <3>7. Above(f) = SubSeq(f, 1, a - 1)
      BY <1>4, <1>7
    <3>8. \A i \in DOMAIN f : i > a => f[i].is \notin {"live", "foreign"}
      BY <2>3
    <3>9. a \in Marks(f) /\ \A i \in Marks(f) : a <= i
      BY <1>2, <2>1
    <3> HIDE DEF a
    <3>10. \A i \in DOMAIN f : m < i /\ i < a => f[i].is = "empty"
      <4> SUFFICES ASSUME NEW i \in DOMAIN f, m < i, i < a PROVE f[i].is = "empty"
        OBVIOUS
      <4>1. i \in DOMAIN g /\ g[i] = f[i]
        BY <1>1, <3>1, <3>2
      <4> QED BY <3>3, <4>1
    <3>11. m < a
      BY <3>1, <3>4
    <3> QED BY <3>5, <3>6, <3>7, <3>8, <3>9, <3>10, <3>11
  <2> QED BY <2>2, <2>3
<1> QED BY <1>6, <1>7

\* A file that is left alone keeps everything.
LEMMA AboveIsPrefix ==
  ASSUME NEW f \in Seq(LineType)
  PROVE  IsPrefix(Kept(Above(f), {"doc"}), Kept(f, {"doc"}))
<1> DEFINE at == {i \in DOMAIN f : f[i].is = "mark"}
<1>1. DOMAIN f = 1..Len(f) /\ Len(f) \in Nat
  BY LenProperties
<1>2. at \in SUBSET Nat /\ at \in SUBSET DOMAIN f
  BY <1>1
<1>3. Above(f) = IF at = {} THEN f ELSE SubSeq(f, 1, Min(at) - 1)
  BY DEF Above
<1> HIDE DEF at
<1>4. \E m \in 0..Len(f) : Above(f) = SubSeq(f, 1, m)
  <2>1. CASE at = {}
    <3>1. SubSeq(f, 1, Len(f)) = f /\ Len(f) \in 0..Len(f)
      BY <1>1, SubSeqFull
    <3> QED BY <1>3, <2>1, <3>1
  <2>2. CASE at # {}
    <3>1. Min(at) \in 1..Len(f)
      BY <1>1, <1>2, <2>2, LeastOfNaturals
    <3>2. Min(at) - 1 \in 0..Len(f)
      BY <1>1, <3>1
    <3> QED BY <1>3, <2>2, <3>2
  <2> QED BY <2>1, <2>2
<1> QED BY <1>4, PrefixOfKept

\* The keys of others and the comments above the mark are not in the block, and
\* nothing that is indented below a key of its own.
LEMMA DropBlockKeeps ==
  ASSUME NEW f \in Seq(LineType)
  PROVE  /\ DropBlock(f) \in Seq(LineType)
         /\ Kept(DropBlock(f), {"foreign"}) = Kept(f, {"foreign"})
         /\ ~Torn(f) =>
              Kept(DropBlock(f), {"foreign", "inner"}) = Kept(f, {"foreign", "inner"})
         /\ IsPrefix(Kept(Above(f), {"doc"}), Kept(DropBlock(f), {"doc"}))
<1> DEFINE d == DropBlock(f)
<1>1. DOMAIN f = 1..Len(f) /\ Len(f) \in Nat
  BY LenProperties
<1>2. CASE d = f
  BY <1>2, AboveIsPrefix
<1>3. ASSUME NEW a \in Marks(f), NEW m \in 0..Len(f),
             d = SubSeq(f, 1, m), m < a, Above(f) = SubSeq(f, 1, a - 1),
             \A i \in DOMAIN f : m < i /\ i < a => f[i].is = "empty",
             \A i \in DOMAIN f : i > a => f[i].is \notin {"live", "foreign"}
      PROVE  /\ d \in Seq(LineType)
             /\ Kept(d, {"foreign"}) = Kept(f, {"foreign"})
             /\ ~Torn(f) => Kept(d, {"foreign", "inner"}) = Kept(f, {"foreign", "inner"})
             /\ IsPrefix(Kept(Above(f), {"doc"}), Kept(d, {"doc"}))
  <2>1. a \in DOMAIN f /\ f[a].is = "mark" /\ a \in Nat /\ m \in Nat
    BY <1>1 DEF Marks, PlacesOf
  <2>2. d \in Seq(LineType)
    BY <1>3, PrefixIs
  <2>3. ASSUME ~Torn(f) PROVE \A i \in DOMAIN f : i > a => f[i].is # "inner"
    <3> SUFFICES ASSUME NEW i \in DOMAIN f, i > a, f[i].is = "inner" PROVE FALSE
      OBVIOUS
    <3>1. \A n \in DOMAIN f : a < n /\ n < i => f[n].is \notin {"live", "foreign"}
      BY <1>1, <1>3, <2>1
    <3>2. a < i
      BY <1>1, <2>1
    <3> QED BY <2>1, <2>3, <3>1, <3>2 DEF Torn
  <2>4. \A i \in DOMAIN f : i \in Nat /\ (i <= m \/ (m < i /\ i < a) \/ i = a \/ i > a)
    BY <1>1, <2>1
  <2>5. Kept(d, {"foreign"}) = Kept(f, {"foreign"})
    <3>1. \A i \in PlacesOf(f, {"foreign"}) : i <= m
      BY <1>3, <2>1, <2>4 DEF PlacesOf
    <3> QED BY <1>3, <3>1, KeptOfPrefix
  <2>6. ASSUME ~Torn(f) PROVE Kept(d, {"foreign", "inner"}) = Kept(f, {"foreign", "inner"})
    <3>1. \A i \in PlacesOf(f, {"foreign", "inner"}) : i <= m
      BY <1>3, <2>1, <2>3, <2>4, <2>6 DEF PlacesOf
    <3> QED BY <1>3, <3>1, KeptOfPrefix
  <2> DEFINE g == Above(f)
  <2>7. a - 1 \in 0..Len(f) /\ m \in 0..(a - 1)
    BY <1>1, <1>3, <2>1
  <2>8. /\ g \in Seq(LineType) /\ Len(g) = a - 1 /\ DOMAIN g = 1..(a - 1)
        /\ \A i \in 1..(a - 1) : g[i] = f[i] /\ i \in DOMAIN f
    BY <1>3, <2>7, PrefixIs
  <2>9. d = SubSeq(g, 1, m)
    BY <1>3, <2>7, PrefixTwice
  <2> HIDE DEF g, d
  <2>10. \A i \in PlacesOf(g, {"doc"}) : i <= m
    <3> SUFFICES ASSUME NEW i \in 1..(a - 1), g[i].is = "doc", ~(i <= m) PROVE FALSE
      BY <2>8 DEF PlacesOf
    <3>1. i \in DOMAIN f /\ m < i /\ i < a /\ g[i] = f[i]
      BY <2>1, <2>8
    <3> QED BY <1>3, <3>1
  <2>11. m \in 0..Len(g)
    BY <2>7, <2>8
  <2>12. Kept(d, {"doc"}) = Kept(g, {"doc"})
    BY <2>8, <2>9, <2>10, <2>11, KeptOfPrefix
  <2>13. IsPrefix(Kept(g, {"doc"}), Kept(g, {"doc"}))
    <3>1. SubSeq(g, 1, Len(g)) = g /\ Len(g) \in 0..Len(g)
      BY <2>1, <2>8, SubSeqFull
    <3> QED BY <2>8, <3>1, PrefixOfKept
  <2> QED BY <2>2, <2>5, <2>6, <2>12, <2>13 DEF g
<1>4. d = f \/ \E a \in Marks(f), m \in 0..Len(f) :
                 /\ d = SubSeq(f, 1, m) /\ m < a
                 /\ Above(f) = SubSeq(f, 1, a - 1)
                 /\ \A i \in DOMAIN f : m < i /\ i < a => f[i].is = "empty"
                 /\ \A i \in DOMAIN f : i > a => f[i].is \notin {"live", "foreign"}
  BY DropBlockIs, Zenon
<1> HIDE DEF d
<1>5. CASE d # f
  <2>1. /\ d \in Seq(LineType)
        /\ Kept(d, {"foreign"}) = Kept(f, {"foreign"})
        /\ ~Torn(f) => Kept(d, {"foreign", "inner"}) = Kept(f, {"foreign", "inner"})
        /\ IsPrefix(Kept(Above(f), {"doc"}), Kept(d, {"doc"}))
    BY <1>3, <1>4, <1>5, Zenon
  <2> QED BY <2>1 DEF d
<1> QED BY <1>2, <1>5 DEF d


\* The entries of a section that count.
Counted(s) == Named(SyslogEntries(s))

\* The entries that count, and what the block makes of them.
LEMMA NamedIs ==
  ASSUME NEW s \in Section
  PROVE  /\ Counted(s) \in Seq(Entry) /\ Len(Counted(s)) <= 2
         /\ \A i \in 1..Len(Counted(s)) : Counted(s)[i].host # NoValue
<1> DEFINE e == SyslogEntries(s)
           P == {i \in DOMAIN e : e[i].host # NoValue}
<1>1. s.syslog \in Seq(Entry)
  BY DEF Section
<1>2. e \in Seq(Entry) /\ Len(e) \in Nat /\ Len(e) <= 2 /\ DOMAIN e = 1..Len(e)
  <2> DEFINE n == IF Len(s.syslog) < 2 THEN Len(s.syslog) ELSE 2
  <2>1. Len(s.syslog) \in Nat
    BY <1>1, LenProperties
  <2>2. n \in 0..Len(s.syslog) /\ n <= 2 /\ n \in Nat
    BY <2>1
  <2>3. e = SubSeq(s.syslog, 1, n)
    BY DEF SyslogEntries
  <2> HIDE DEF n, e
  <2>4. /\ e \in Seq(Entry) /\ Len(e) = n
    BY <1>1, <2>2, <2>3, PrefixIs
  <2>5. DOMAIN e = 1..Len(e)
    BY <2>4, LenProperties
  <2> QED BY <2>2, <2>4, <2>5
<1>3. Counted(s) = Picked(e, P)
  BY DEF Counted, Named
<1> HIDE DEF e
<1>4. P \in SUBSET DOMAIN e /\ \A i \in P : e[i].host # NoValue
  OBVIOUS
<1> HIDE DEF P
<1>5. /\ Picked(e, P) \in Seq(Entry) /\ Len(Picked(e, P)) = Cardinality(P)
      /\ \A n \in 1..Cardinality(P) : Nth(P, n) \in P /\ Picked(e, P)[n] = e[Nth(P, n)]
  BY <1>2, <1>4, PickedIs
<1>6. Cardinality(P) <= 2
  <2> DEFINE n == Len(e)
  <2>0. n \in Nat
    BY <1>2
  <2> HIDE DEF n
  <2>1. IsFiniteSet(1..n) /\ Cardinality(1..n) = n
    BY <2>0, FS_Interval
  <2>2. P \in SUBSET (1..n) /\ n <= 2
    BY <1>2, <1>4 DEF n
  <2>3. Cardinality(P) <= Cardinality(1..n) /\ Cardinality(P) \in Nat
    BY <2>1, <2>2, FS_Subset, FS_CardinalityType
  <2> QED BY <2>0, <2>1, <2>2, <2>3
<1> QED BY <1>3, <1>4, <1>5, <1>6

\* The port the block writes for one.
PortOf(p) == CASE p = "unset" -> "514" [] p = "word" -> "unset" [] OTHER -> p

\* The block has the entries, and a loki that is whole.
LEMMA LoggingBlockIs ==
  ASSUME NEW s \in Section
  PROVE  LET b == LoggingBlock(s) IN
         /\ b \in Section /\ Len(b.syslog) = Len(Counted(s))
         /\ s.loki = "whole" => b.loki = "whole"
         /\ \A i \in 1..Len(Counted(s)) : /\ b.syslog[i].host = Counted(s)[i].host
                                         /\ b.syslog[i].port = PortOf(Counted(s)[i].port)
<1> DEFINE e == Counted(s)
           N == Len(e)
           t == [i \in 1..N |-> [e[i] EXCEPT !.port = PortOf(@)]]
           b == LoggingBlock(s)
<1>1. e \in Seq(Entry) /\ N \in Nat /\ DOMAIN e = 1..N
  BY NamedIs, LenProperties
<1>2. \A i \in 1..N : e[i] \in Entry
  BY <1>1, ElementOfSeq
<1>3. b = [loki |-> IF s.loki = "whole" THEN "whole" ELSE "absent", syslog |-> t]
  BY <1>1 DEF LoggingBlock, Counted, PortOf
<1> HIDE DEF e, N, b
<1>4. \A i \in 1..N : /\ t[i] \in Entry /\ t[i].host = e[i].host
                      /\ t[i].port = PortOf(e[i].port)
  BY <1>2 DEF Entry, Ports, PortOf
<1>5. t \in [1..N -> Entry]
  BY <1>4
<1>6. t \in Seq(Entry)
  BY <1>1, <1>5, SeqDef
<1>7. Len(t) = N
  <2>1. DOMAIN t = 1..N
    OBVIOUS
  <2> HIDE DEF t
  <2>2. DOMAIN t = 1..Len(t) /\ Len(t) \in Nat
    BY <1>6, LenProperties
  <2> QED BY <1>1, <2>1, <2>2
<1>8. b.syslog = t /\ b.loki \in {"whole", "absent"} /\ (s.loki = "whole" => b.loki = "whole")
      /\ b = [loki |-> b.loki, syslog |-> t]
  BY <1>3
<1> HIDE DEF t
<1>9. b \in Section
  BY <1>6, <1>8 DEF Section
<1> QED BY <1>4, <1>7, <1>8, <1>9 DEF b, e, N

\* The block: nothing, or the mark and the section, with an empty line above.
LEMMA BlockIs ==
  ASSUME NEW c \in Configs
  PROVE  LET b == Logging(LoggingBlock(c.logging)) IN
         /\ c.logging \in Section /\ LoggingBlock(c.logging) \in Section /\ b \in LineType
         /\ b.is = "logging" /\ b.section = LoggingBlock(c.logging)
         /\ Block(c) \in Seq(LineType)
         /\ \A i \in DOMAIN Block(c) : Block(c)[i].is \in {"empty", "mark", "logging"}
         /\ \/ Block(c) = <<>> /\ LoggingBlock(c.logging) = NoSection
            \/ /\ Len(Block(c)) = 3 /\ Block(c)[1] = Empty
               /\ Block(c)[2] = Mark /\ Block(c)[3] = b
<1> DEFINE s == LoggingBlock(c.logging)
           b == Logging(s)
<1>1. c.logging \in Section
  BY SettingsAssumption
<1>2. s \in Section
  BY <1>1, LoggingBlockIs
<1> HIDE DEF s
<1>3. b \in LineType /\ b.is = "logging" /\ b.section = s
  BY <1>2, OtherLinesAre
<1>4. Block(c) = IF s = NoSection THEN <<>> ELSE <<Empty, Mark, b>>
  BY DEF Block, s
<1> HIDE DEF b
<1>5. CASE s = NoSection
  <2>1. Block(c) = <<>> /\ <<>> \in Seq(LineType) /\ DOMAIN Block(c) = {}
    BY <1>4, <1>5, EmptySeq
  <2> QED BY <1>1, <1>2, <1>3, <1>5, <2>1 DEF b, s
<1>6. CASE s # NoSection
  <2>1. Block(c) = <<Empty, Mark, b>>
    BY <1>4, <1>6
  <2>2. /\ Block(c) \in Seq(LineType) /\ Len(Block(c)) = 3 /\ DOMAIN Block(c) = 1..3
        /\ Block(c)[1] = Empty /\ Block(c)[2] = Mark /\ Block(c)[3] = b
    BY <1>3, <2>1, OtherLinesAre
  <2>3. \A i \in DOMAIN Block(c) : Block(c)[i].is \in {"empty", "mark", "logging"}
    <3>1. \A i \in DOMAIN Block(c) : i = 1 \/ i = 2 \/ i = 3
      BY <2>2
    <3> QED BY <1>3, <2>2, <3>1, OtherLinesAre
  <2> QED BY <1>1, <1>2, <1>3, <2>2, <2>3 DEF b, s
<1> QED BY <1>5, <1>6


\* One file below another.
LEMMA BothAreFiles ==
  ASSUME NEW X, NEW f \in Seq(X), NEW g \in Seq(X)
  PROVE  f \o g \in Seq(X)
BY ConcatProperties

\* A piece of a file.
LEMMA PieceIsFile ==
  ASSUME NEW X, NEW f \in Seq(X), NEW a \in Nat, NEW b \in Nat, 1 <= a, b <= Len(f)
  PROVE  SubSeq(f, a, b) \in Seq(X)
<1>1. Len(f) \in Nat
  BY LenProperties
<1>2. \A i \in a..b : f[i] \in X
  BY <1>1, ElementOfSeq
<1> QED BY <1>2, SubSeqProperties

\* What a patch leaves as it finds it.
LEMMA PatchKeeps ==
  ASSUME NEW f \in Seq(LineType), NEW c \in Configs
  PROVE  /\ Patch(f, c) \in Seq(LineType)
         /\ Kept(Patch(f, c), {"foreign"}) = Kept(f, {"foreign"})
         /\ ~Torn(f) => Kept(Patch(f, c), {"foreign", "inner"}) = Kept(f, {"foreign", "inner"})
         /\ IsPrefix(Kept(Above(f), {"doc"}), Kept(Patch(f, c), {"doc"}))
<1> DEFINE d == DropBlock(f)
           s == SetScalars(d, c)
           b == Block(c)
<1>1. /\ d \in Seq(LineType)
      /\ Kept(d, {"foreign"}) = Kept(f, {"foreign"})
      /\ ~Torn(f) => Kept(d, {"foreign", "inner"}) = Kept(f, {"foreign", "inner"})
      /\ IsPrefix(Kept(Above(f), {"doc"}), Kept(d, {"doc"}))
  BY DropBlockKeeps
<1>2. Underway(d, c, Len(SCALARS), s)
  BY <1>1, ScalarsSet
<1>3. /\ b \in Seq(LineType)
      /\ \A i \in DOMAIN b : b[i].is \in {"empty", "mark", "logging"}
  BY BlockIs
<1>4. Patch(f, c) = s \o b
  BY DEF Patch
<1> HIDE DEF d, s, b
<1>5. s \in Seq(LineType)
  BY <1>2 DEF Underway
<1>6. ASSUME NEW kinds, kinds \cap {"sample", "live", "empty", "mark", "logging"} = {}
      PROVE  Kept(s \o b, kinds) = Kept(d, kinds)
  <2>1. "sample" \notin kinds /\ "live" \notin kinds
    BY <1>6
  <2>2. Kept(s, kinds) = Kept(d, kinds)
    BY <1>2, <2>1 DEF Underway
  <2>3. \A i \in DOMAIN b : b[i].is \notin kinds
    BY <1>3, <1>6
  <2> QED BY <1>3, <1>5, <2>2, <2>3, KeptOfFront
<1>7. /\ Kept(s \o b, {"foreign"}) = Kept(d, {"foreign"})
      /\ Kept(s \o b, {"foreign", "inner"}) = Kept(d, {"foreign", "inner"})
      /\ Kept(s \o b, {"doc"}) = Kept(d, {"doc"})
  BY <1>6
<1>8. s \o b \in Seq(LineType)
  BY <1>3, <1>5, BothAreFiles
<1> QED BY <1>1, <1>4, <1>7, <1>8

----------------------------------------------------------------------------
(* What holds in every state.                                              *)

SettingsInv ==
  /\ config \in Configs
  /\ file \in Seq(LineType)

\* The template is a file.
LEMMA SettingsInvInit ==
  SettingsInit => SettingsInv
<1> SUFFICES ASSUME SettingsInit PROVE SettingsInv
  OBVIOUS
<1> DEFINE h == <<Foreign, Doc>>
           t == [i \in DOMAIN Shipped |-> Sample(Shipped[i])]
<1>1. h \in Seq(LineType)
  BY OtherLinesAre
<1>2. t \in Seq(LineType)
  <2>1. DOMAIN Shipped = 1..Len(Shipped) /\ Len(Shipped) \in Nat
    BY SettingsAssumption, LenProperties
  <2>2. \A i \in DOMAIN Shipped : Shipped[i] \in Scalars
    BY <2>1, SettingsAssumption, ElementOfSeq
  <2>3. \A k \in Scalars : Sample(k) \in LineType
    BY LinesAre DEF Raw
  <2>4. t \in [1..Len(Shipped) -> LineType]
    BY <2>1, <2>2, <2>3
  <2> QED BY <2>1, <2>4, SeqDef
<1>3. file = h \o t /\ config \in Configs
  BY DEF SettingsInit, Template
<1> HIDE DEF h, t
<1> QED BY <1>1, <1>2, <1>3, BothAreFiles DEF SettingsInv

\* What somebody adds.
LEMMA ExtrasAre ==
  ASSUME NEW lines \in Extras
  PROVE  lines \in Seq(LineType)
<1>1. \A k \in Tampered : k \in Scalars
  BY SettingsAssumption
<1>2. \A v \in Values : v \in Raw
  BY DEF Raw
<1>3. \A k \in Tampered : Sample(k) \in LineType /\ Inner(k) \in LineType
  BY <1>1, LinesAre DEF Raw
<1>4. \A k \in Tampered, v \in Values : Live(k, v) \in LineType
  BY <1>1, <1>2, LinesAre
<1> DEFINE l == Logging([NoSection EXCEPT !.loki = "whole"])
<1>5. l \in LineType
  <2> DEFINE x == [NoSection EXCEPT !.loki = "whole"]
  <2>1. x \in Section
    BY EmptySeq DEF NoSection, Section
  <2> HIDE DEF x
  <2>2. Logging(x) \in LineType
    BY <2>1, OtherLinesAre
  <2> QED BY <2>2 DEF x
<1>6. lines \in UNION {{<<Live(k, v)>> : k \in Tampered, v \in Values},
                       {<<Foreign, Inner(k)>> : k \in Tampered},
                       {<<Sample(k)>> : k \in Tampered},
                       {<<Doc>>, <<Empty>>, <<DocumentEnd>>}, {<<l>>}}
  BY DEF Extras
<1>7. Foreign \in LineType /\ Doc \in LineType /\ Empty \in LineType /\ DocumentEnd \in LineType
  BY OtherLinesAre
<1> HIDE DEF l, Live, Foreign, Inner, Sample, Doc, Empty, DocumentEnd
<1>8. (\E x \in LineType : lines = <<x>>) \/ (\E x, y \in LineType : lines = <<x, y>>)
  BY <1>3, <1>4, <1>5, <1>6, <1>7
<1>9. \A x, y \in LineType : <<x>> \in Seq(LineType) /\ <<x, y>> \in Seq(LineType)
  OBVIOUS
<1> QED BY <1>8, <1>9

\* The edits of the file.
LEMMA HandEditKeeps ==
  ASSUME file \in Seq(LineType), HandEdit
  PROVE  file' \in Seq(LineType)
<1> DEFINE piece(a, b) == SubSeq(file, a, b)
<1>1. Len(file) \in Nat /\ DOMAIN file = 1..Len(file)
  BY LenProperties
<1>2. \A a, b \in Nat : 1 <= a /\ b <= Len(file) => piece(a, b) \in Seq(LineType)
  BY PieceIsFile
<1>3. \A f, g \in Seq(LineType) : f \o g \in Seq(LineType)
  BY BothAreFiles
<1>4. Doc \in LineType /\ <<Mark>> \in Seq(LineType)
  BY OtherLinesAre
<1> HIDE DEF piece
<1>5. ASSUME NEW i \in 1..(Len(file) + 1), NEW lines \in Extras, Insert(i, lines)
      PROVE  file' \in Seq(LineType)
  <2>1. file' = piece(1, i - 1) \o lines \o piece(i, Len(file))
    BY <1>5 DEF Insert, piece
  <2>2. piece(1, i - 1) \in Seq(LineType) /\ piece(i, Len(file)) \in Seq(LineType)
    <3>1. i \in Nat /\ 1 <= i /\ i - 1 \in Nat /\ i - 1 <= Len(file)
      BY <1>1
    <3> QED BY <1>1, <1>2, <3>1
  <2> QED BY <1>3, <2>1, <2>2, ExtrasAre
<1>6. ASSUME NEW i \in DOMAIN file, RewordMark(i)
      PROVE  file' \in Seq(LineType)
  BY <1>1, <1>4, <1>6, ExceptSeq DEF RewordMark
<1>7. ASSUME NEW i \in DOMAIN file, NEW j \in DOMAIN file, MoveMark(i, j)
      PROVE  file' \in Seq(LineType)
  <2>1. file' = piece(1, j - 1) \o <<Mark>> \o piece(j, i - 1) \o piece(i + 1, Len(file))
    BY <1>7 DEF MoveMark, piece
  <2>2. /\ piece(1, j - 1) \in Seq(LineType) /\ piece(j, i - 1) \in Seq(LineType)
        /\ piece(i + 1, Len(file)) \in Seq(LineType)
    <3>1. /\ j \in Nat /\ i \in Nat /\ 1 <= j /\ j - 1 \in Nat /\ i - 1 \in Nat
          /\ j - 1 <= Len(file) /\ i - 1 <= Len(file) /\ i + 1 \in Nat /\ 1 <= i + 1
      BY <1>1
    <3>2. piece(1, j - 1) \in Seq(LineType)
      BY <1>2, <3>1
    <3>3. piece(j, i - 1) \in Seq(LineType)
      BY <1>2, <3>1
    <3> DEFINE k == i + 1
    <3>4. k \in Nat /\ 1 <= k
      BY <3>1
    <3> HIDE DEF k
    <3>5. piece(k, Len(file)) \in Seq(LineType)
      BY <1>1, <1>2, <3>4
    <3> QED BY <3>2, <3>3, <3>5 DEF k
  <2> QED BY <1>3, <1>4, <2>1, <2>2
<1> QED BY <1>5, <1>6, <1>7 DEF HandEdit

\* Every step keeps it.
LEMMA SettingsInvNext ==
  SettingsInv /\ [SettingsNext]_settings => SettingsInv'
<1> SUFFICES ASSUME SettingsInv, [SettingsNext]_settings PROVE SettingsInv'
  OBVIOUS
<1>1. config \in Configs /\ file \in Seq(LineType)
  BY DEF SettingsInv
<1>2. CASE Apply
  <2>1. config' = config /\ (file' = file \/ file' = Patch(file, config))
    BY <1>2 DEF Apply
  <2>2. Patch(file, config) \in Seq(LineType)
    BY <1>1, PatchKeeps
  <2> QED BY <1>1, <2>1, <2>2 DEF SettingsInv
<1>3. CASE EditConfig
  BY <1>1, <1>3 DEF EditConfig, SettingsInv
<1>4. CASE HandEdit
  <2>1. config' = config
    BY <1>4 DEF HandEdit
  <2> QED BY <1>1, <1>4, <2>1, HandEditKeeps DEF SettingsInv
<1>5. CASE UNCHANGED settings
  BY <1>1, <1>5 DEF settings, SettingsInv
<1> QED BY <1>2, <1>3, <1>4, <1>5 DEF SettingsNext

\* In every state of every behaviour the file is one of lines, and config.yml
\* one that the operator may write.
THEOREM SettingsInvariant == SettingsSpec => []SettingsInv
<1>1. SettingsInit => SettingsInv
  BY SettingsInvInit
<1>2. SettingsInv /\ [SettingsNext]_settings => SettingsInv'
  BY SettingsInvNext
<1> QED BY <1>1, <1>2, PTL DEF SettingsSpec

\* The keys of others and the comments above the mark outlast every patch,
\* refused or applied, and so does what is indented below a key, unless the mark
\* has been put between the two (profile_yml.py:9-15).
THEOREM PatchesKeepTheRest == SettingsSpec => OthersKept
<1> DEFINE Rest == /\ Kept(file', {"foreign"}) = Kept(file, {"foreign"})
                   /\ ~Torn(file) =>
                        Kept(file', {"foreign", "inner"}) = Kept(file, {"foreign", "inner"})
                   /\ IsPrefix(Kept(Above(file), {"doc"}), Kept(file', {"doc"}))
<1>1. SettingsInv /\ [SettingsNext]_settings => [outcome' # "none" => Rest]_settings
  <2> SUFFICES ASSUME SettingsInv, SettingsNext, outcome' # "none" PROVE Rest
    OBVIOUS
  <2>1. config \in Configs /\ file \in Seq(LineType)
    BY DEF SettingsInv
  <2>2. Apply
    BY DEF SettingsNext, EditConfig, HandEdit
  <2>3. file' = file \/ file' = Patch(file, config)
    BY <2>2 DEF Apply
  <2>4. CASE file' = file
    BY <2>1, <2>4, AboveIsPrefix
  <2>5. CASE file' = Patch(file, config)
    BY <2>1, <2>5, PatchKeeps
  <2> QED BY <2>3, <2>4, <2>5
<1> QED BY <1>1, SettingsInvariant, PTL DEF SettingsSpec, OthersKept


----------------------------------------------------------------------------
(* A patch settles.                                                        *)

\* All of a sequence.
LEMMA PickedAll ==
  ASSUME NEW X, NEW f \in Seq(X)
  PROVE  Picked(f, DOMAIN f) = f
<1>1. Without(f, {}) = Picked(f, DOMAIN f \ {}) /\ DOMAIN f \ {} = DOMAIN f
  BY DEF Without
<1> QED BY <1>1, WithoutNothing

\* A key that is set has that value.
LEMMA SetForValue ==
  ASSUME NEW f \in Seq(LineType), NEW k \in Scalars, NEW v \in Raw, SetFor(f, k, v)
  PROVE  LiveValue(f, k) = v
<1> DEFINE at == {i \in DOMAIN f : f[i].is = "live" /\ f[i].key = k}
<1>1. PICK i \in Of(f, k) :
        f[i] = Live(k, v) /\ \A j \in Of(f, k) : i <= j /\ (f[j].is = "live" => j = i)
  BY DEF SetFor
<1>2. i \in DOMAIN f /\ f[i].is = "live" /\ f[i].key = k /\ f[i].val = v
  BY <1>1, LinesAre DEF Of, Matches
<1>3. \A j \in at : j \in Of(f, k) /\ f[j].is = "live"
  BY DEF Of, Matches
<1>4. at = {i}
  BY <1>1, <1>2, <1>3
<1>5. i \in 0..Len(f) /\ Len(f) \in Nat
  BY <1>2, LenProperties
<1>6. LiveValue(f, k) = IF at = {} THEN NoValue ELSE f[Max(at)].val
  BY DEF LiveValue
<1> HIDE DEF at
<1>7. Max(at) \in at
  BY <1>4, <1>5, GreatestOfNaturals
<1> QED BY <1>2, <1>4, <1>6, <1>7

\* Lines of other kinds below, or not there, change nothing in it.
LEMMA SetForFront ==
  ASSUME NEW X, NEW f \in Seq(X), NEW g \in Seq(X), NEW k, NEW v, SetFor(f, k, v),
         \A i \in DOMAIN g : g[i].is \notin {"sample", "live"}
  PROVE  SetFor(f \o g, k, v)
<1> DEFINE w == f \o g
<1>1. /\ w \in Seq(X) /\ Len(w) = Len(f) + Len(g)
      /\ \A i \in 1..Len(f) + Len(g) : w[i] = IF i <= Len(f) THEN f[i] ELSE g[i - Len(f)]
  BY ConcatProperties
<1>2. /\ Len(f) \in Nat /\ Len(g) \in Nat /\ DOMAIN f = 1..Len(f) /\ DOMAIN g = 1..Len(g)
  BY LenProperties
<1> HIDE DEF w
<1>3. DOMAIN w = 1..(Len(f) + Len(g))
  BY <1>1, LenProperties
<1>4. \A i \in DOMAIN f : i \in DOMAIN w /\ w[i] = f[i]
  BY <1>1, <1>2, <1>3
<1>5. \A i \in DOMAIN w : i \notin DOMAIN f => i - Len(f) \in DOMAIN g /\ w[i] = g[i - Len(f)]
  BY <1>1, <1>2, <1>3
<1>6. Of(w, k) = Of(f, k)
  BY <1>4, <1>5 DEF Of, Matches
<1>7. \A i \in Of(f, k) : w[i] = f[i]
  BY <1>4 DEF Of, Matches
<1>8. SetFor(w, k, v)
  BY <1>6, <1>7 DEF SetFor
<1> QED BY <1>8 DEF w

\* A prefix that has all lines of the scalars sets what the file sets.
LEMMA SetForPrefix ==
  ASSUME NEW X, NEW f \in Seq(X), NEW m \in 0..Len(f), NEW k, NEW v, SetFor(f, k, v),
         \A i \in DOMAIN f : i > m => f[i].is \notin {"sample", "live"}
  PROVE  SetFor(SubSeq(f, 1, m), k, v)
<1> DEFINE g == SubSeq(f, 1, m)
<1>1. /\ DOMAIN g = 1..m /\ 1..m \subseteq DOMAIN f /\ m \in Nat
      /\ \A i \in 1..m : g[i] = f[i]
  BY PrefixIs
<1>2. DOMAIN f = 1..Len(f) /\ Len(f) \in Nat
  BY LenProperties
<1> HIDE DEF g
<1>3. \A i \in Of(f, k) : i \in 1..m
  <2> SUFFICES ASSUME NEW i \in Of(f, k) PROVE i \in 1..m
    OBVIOUS
  <2>1. i \in DOMAIN f /\ f[i].is \in {"sample", "live"}
    BY DEF Of, Matches
  <2>2. ~(i > m)
    BY <2>1
  <2> QED BY <1>1, <1>2, <2>1, <2>2
<1>4. Of(g, k) = Of(f, k)
  BY <1>1, <1>3 DEF Of, Matches
<1>5. \A i \in Of(f, k) : g[i] = f[i]
  BY <1>1, <1>3
<1>6. SetFor(g, k, v)
  BY <1>4, <1>5 DEF SetFor
<1> QED BY <1>6 DEF g

\* The entries of a block all count.
LEMMA NamedOfBlock ==
  ASSUME NEW b \in Section, Len(b.syslog) <= 2,
         \A i \in 1..Len(b.syslog) : b.syslog[i].host # NoValue
  PROVE  Counted(b) = b.syslog
<1> DEFINE e == b.syslog
<1>1. e \in Seq(Entry)
  BY DEF Section
<1>2. Len(e) \in Nat /\ DOMAIN e = 1..Len(e)
  BY <1>1, LenProperties
<1>3. SyslogEntries(b) = SubSeq(e, 1, IF Len(e) < 2 THEN Len(e) ELSE 2)
  BY DEF SyslogEntries
<1>4. (IF Len(e) < 2 THEN Len(e) ELSE 2) = Len(e)
  BY <1>2
<1>5. SyslogEntries(b) = e
  BY <1>1, <1>3, <1>4, SubSeqFull
<1>6. {i \in DOMAIN e : e[i].host # NoValue} = DOMAIN e
  BY <1>2
<1>7. Counted(b) = Picked(e, {i \in DOMAIN e : e[i].host # NoValue})
  BY <1>5 DEF Counted, Named
<1> HIDE DEF e
<1>8. Counted(b) = e
  BY <1>1, <1>6, <1>7, PickedAll
<1> QED BY <1>8 DEF e

\* FlattenLogging, of a loki and the entries that count.
Flat(loki, e) ==
  (IF loki = "whole" THEN {<<"loki_url", 0, "whole">>} ELSE {})
    \cup {<<"syslog_host", i, e[i].host>> : i \in DOMAIN e}
    \cup {<<"syslog_port", i, IF e[i].port = "unset" THEN "514" ELSE e[i].port>> :
            i \in {j \in DOMAIN e : e[j].port # "word"}}

\* The comparison finds in the block all that it is written from.
LEMMA BlockSaysAll ==
  ASSUME NEW s \in Section
  PROVE  FlattenLogging(s) \subseteq FlattenLogging(LoggingBlock(s))
<1> DEFINE b == LoggingBlock(s)
           e == Counted(s)
           t == b.syslog
<1>1. /\ e \in Seq(Entry) /\ Len(e) <= 2 /\ \A i \in 1..Len(e) : e[i].host # NoValue
  BY NamedIs
<1>2. /\ b \in Section /\ Len(t) = Len(e) /\ (s.loki = "whole" => b.loki = "whole")
      /\ \A i \in 1..Len(e) : t[i].host = e[i].host /\ t[i].port = PortOf(e[i].port)
  BY LoggingBlockIs
<1> HIDE DEF b
<1>3. Counted(b) = t
  BY <1>1, <1>2, NamedOfBlock
<1>4. FlattenLogging(s) = Flat(s.loki, e) /\ FlattenLogging(b) = Flat(b.loki, t)
  BY <1>3 DEF FlattenLogging, Flat, Counted
<1>5. t \in Seq(Entry)
  BY <1>2 DEF Section
<1> HIDE DEF e, t
<1>6. DOMAIN e = 1..Len(e) /\ DOMAIN t = DOMAIN e
  BY <1>1, <1>2, <1>5, LenProperties
<1>7. \A i \in DOMAIN e : t[i].host = e[i].host
  BY <1>2, <1>6
<1>8. \A i \in DOMAIN e : e[i].port # "word" =>
        /\ t[i].port # "word"
        /\ (IF t[i].port = "unset" THEN "514" ELSE t[i].port)
             = (IF e[i].port = "unset" THEN "514" ELSE e[i].port)
  BY <1>2, <1>6 DEF PortOf
<1>9. Flat(s.loki, e) \subseteq Flat(b.loki, t)
  <2> SUFFICES ASSUME NEW x \in Flat(s.loki, e) PROVE x \in Flat(b.loki, t)
    OBVIOUS
  <2>1. CASE s.loki = "whole" /\ x = <<"loki_url", 0, "whole">>
    BY <1>2, <2>1 DEF Flat
  <2>2. CASE \E i \in DOMAIN e : x = <<"syslog_host", i, e[i].host>>
    BY <1>6, <1>7, <2>2 DEF Flat
  <2>3. CASE \E i \in DOMAIN e : e[i].port # "word" /\
               x = <<"syslog_port", i, IF e[i].port = "unset" THEN "514" ELSE e[i].port>>
    <3>1. PICK i \in DOMAIN e : e[i].port # "word" /\
            x = <<"syslog_port", i, IF e[i].port = "unset" THEN "514" ELSE e[i].port>>
      BY <2>3
    <3>2. i \in DOMAIN t /\ t[i].port # "word" /\
            x = <<"syslog_port", i, IF t[i].port = "unset" THEN "514" ELSE t[i].port>>
      BY <1>6, <1>8, <3>1
    <3> QED BY <3>2 DEF Flat
  <2>4. \/ s.loki = "whole" /\ x = <<"loki_url", 0, "whole">>
        \/ \E i \in DOMAIN e : x = <<"syslog_host", i, e[i].host>>
        \/ \E i \in DOMAIN e : e[i].port # "word" /\
             x = <<"syslog_port", i, IF e[i].port = "unset" THEN "514" ELSE e[i].port>>
    BY DEF Flat
  <2> QED BY <2>1, <2>2, <2>3, <2>4
<1> QED BY <1>4, <1>9 DEF b

\* Where no block is written, there was nothing to write.
LEMMA NoBlockNoLogging ==
  ASSUME NEW s \in Section, LoggingBlock(s) = NoSection
  PROVE  FlattenLogging(s) = {}
<1> DEFINE e == Counted(s)
<1>1. e \in Seq(Entry)
  BY NamedIs
<1>2. Len(NoSection.syslog) = Len(e) /\ (s.loki = "whole" => NoSection.loki = "whole")
  BY LoggingBlockIs
<1>3. FlattenLogging(s) = Flat(s.loki, e)
  BY DEF FlattenLogging, Flat, Counted
<1> HIDE DEF e
<1>4. s.loki # "whole" /\ Len(e) = 0
  BY <1>2 DEF NoSection
<1>5. DOMAIN e = {}
  BY <1>1, <1>4, LenProperties
<1> QED BY <1>3, <1>4, <1>5 DEF Flat


\* A file after a patch: the scalars and the block below them.
LEMMA PatchSets ==
  ASSUME NEW f \in Seq(LineType), NEW c \in Configs
  PROVE  /\ SetScalars(DropBlock(f), c) \in Seq(LineType)
         /\ \A n \in 1..Len(SCALARS) : Says(c, SCALARS[n]) =>
              /\ SetFor(SetScalars(DropBlock(f), c), SCALARS[n], Wish(c, n))
              /\ SetFor(Patch(f, c), SCALARS[n], Wish(c, n))
<1> DEFINE d == DropBlock(f)
           s == SetScalars(d, c)
           b == Block(c)
<1>1. Underway(d, c, Len(SCALARS), s)
  BY DropBlockKeeps, ScalarsSet
<1>2. b \in Seq(LineType) /\ \A i \in DOMAIN b : b[i].is \in {"empty", "mark", "logging"}
  BY BlockIs
<1>3. Patch(f, c) = s \o b
  BY DEF Patch
<1> HIDE DEF s, b, d
<1>4. s \in Seq(LineType)
      /\ \A n \in 1..Len(SCALARS) : Says(c, SCALARS[n]) => SetFor(s, SCALARS[n], Wish(c, n))
  BY <1>1 DEF Underway
<1>5. \A i \in DOMAIN b : b[i].is \notin {"sample", "live"}
  BY <1>2
<1>6. \A n \in 1..Len(SCALARS) : Says(c, SCALARS[n]) => SetFor(s \o b, SCALARS[n], Wish(c, n))
  BY <1>2, <1>4, <1>5, SetForFront
<1> QED BY <1>3, <1>4, <1>6 DEF s, d

\* The last logging section is the block's.
LEMMA BlockIsLast ==
  ASSUME NEW s \in Seq(LineType), NEW c \in Configs, Block(c) # <<>>
  PROVE  LiveSection(s \o Block(c)) = LoggingBlock(c.logging)
<1> DEFINE b == Block(c)
           w == s \o b
           N == Len(s)
           at == {i \in DOMAIN w : w[i].is = "logging"}
<1>1. /\ b \in Seq(LineType) /\ Len(b) = 3
      /\ b[3].is = "logging" /\ b[3].section = LoggingBlock(c.logging)
  BY BlockIs
<1> HIDE DEF b
<1>2. /\ w \in Seq(LineType) /\ Len(w) = N + Len(b)
      /\ \A i \in 1..N + Len(b) : w[i] = IF i <= N THEN s[i] ELSE b[i - N]
  BY <1>1, ConcatProperties
<1>3. N \in Nat
  BY LenProperties
<1>4. LiveSection(w) = IF at = {} THEN NoSection ELSE w[Max(at)].section
  BY DEF LiveSection
<1> HIDE DEF w, N
<1>5. DOMAIN w = 1..(N + 3)
  BY <1>1, <1>2, LenProperties
<1>6. w[N + 3] = b[3] /\ N + 3 \in DOMAIN w
  BY <1>1, <1>2, <1>3, <1>5
<1>7. N + 3 \in at /\ at \in SUBSET (0..(N + 3))
  BY <1>1, <1>3, <1>5, <1>6
<1> DEFINE M == N + 3
<1>8. M \in Nat /\ M \in at /\ at \in SUBSET (0..M)
  BY <1>3, <1>7
<1> HIDE DEF at, M
<1>9. Max(at) \in at /\ Max(at) >= M
  BY <1>8, GreatestOfNaturals
<1>10. Max(at) = M
  <2>1. Max(at) \in 0..M
    BY <1>8, <1>9
  <2> QED BY <1>8, <1>9, <2>1
<1> QED BY <1>1, <1>4, <1>6, <1>8, <1>10 DEF w, b, M

\* The comparison finds all that was asked for.
LEMMA NothingIsLeft ==
  ASSUME NEW f \in Seq(LineType), NEW c \in Configs
  PROVE  ActionableKeys(Patch(f, c), c) = {}
<1> DEFINE s == SetScalars(DropBlock(f), c)
           g == Patch(f, c)
<1>1. s \in Seq(LineType) /\ g \in Seq(LineType)
  BY PatchSets, PatchKeeps
<1>2. g = s \o Block(c)
  BY DEF Patch
<1>3. c.logging \in Section /\ Block(c) \in Seq(LineType)
      /\ (Block(c) = <<>> => LoggingBlock(c.logging) = NoSection)
  BY BlockIs
<1>4. \A n \in 1..Len(SCALARS) : Says(c, SCALARS[n]) => SetFor(g, SCALARS[n], Wish(c, n))
  BY PatchSets
<1> HIDE DEF s, g
<1>5. \A k \in Scalars : Says(c, k) =>
        LiveValue(g, k) # NoValue /\ Plain[LiveValue(g, k)] = Plain[Stripped(c.scalar[k])]
  <2> SUFFICES ASSUME NEW k \in Scalars, Says(c, k)
               PROVE  LiveValue(g, k) # NoValue
                      /\ Plain[LiveValue(g, k)] = Plain[Stripped(c.scalar[k])]
    OBVIOUS
  <2>1. DOMAIN SCALARS = 1..Len(SCALARS)
    BY SettingsAssumption, LenProperties
  <2>2. PICK n \in 1..Len(SCALARS) : SCALARS[n] = k
    BY <2>1 DEF Scalars, Range
  <2>3. SetFor(g, k, Wish(c, n)) /\ Wish(c, n) \in Raw
    BY <1>4, <2>2, WishIsRaw
  <2>4. LiveValue(g, k) = Wish(c, n)
    BY <1>1, <2>3, SetForValue
  <2>5. Wish(c, n) # NoValue
    BY <2>2, WishIsRaw
  <2> DEFINE v == Stripped(c.scalar[k])
  <2>6. v \in Raw
    <3>1. c.scalar[k] \in Raw /\ NoValue \in Raw
      BY SettingsAssumption DEF Raw
    <3> QED BY <3>1 DEF Stripped
  <2>7. Wish(c, n) = v \/ Wish(c, n) = Plain[v]
    BY <2>2 DEF Wish, Written
  <2> HIDE DEF v
  <2>8. Plain[Wish(c, n)] = Plain[v]
    BY <2>6, <2>7, SettingsAssumption
  <2> QED BY <2>4, <2>5, <2>8 DEF v
<1>6. FlattenLogging(c.logging) \subseteq FlattenLogging(LiveSection(g))
  <2>1. CASE Block(c) = <<>>
    BY <1>3, <2>1, NoBlockNoLogging
  <2>2. CASE Block(c) # <<>>
    <3>1. LiveSection(g) = LoggingBlock(c.logging)
      BY <1>1, <1>2, <2>2, BlockIsLast
    <3> QED BY <1>3, <3>1, BlockSaysAll
  <2> QED BY <2>1, <2>2
<1>7. Wanted(c) \subseteq Found(g)
  <2> SUFFICES ASSUME NEW x \in Wanted(c) PROVE x \in Found(g)
    OBVIOUS
  <2>1. CASE x \in FlattenLogging(c.logging)
    BY <1>6, <2>1 DEF Found
  <2>2. CASE \E k \in Scalars : Says(c, k) /\ x = <<k, 0, Plain[Stripped(c.scalar[k])]>>
    <3>1. PICK k \in Scalars : Says(c, k) /\ x = <<k, 0, Plain[Stripped(c.scalar[k])]>>
      BY <2>2
    <3>2. x = <<k, 0, Plain[LiveValue(g, k)]>> /\ LiveValue(g, k) # NoValue
      BY <1>5, <3>1
    <3> QED BY <3>2 DEF Found
  <2> QED BY <2>1, <2>2 DEF Wanted
<1>8. Wanted(c) \ Found(g) = {}
  BY <1>7
<1> QED BY <1>8 DEF ActionableKeys, g

\* Nothing is kept where there is nothing.
LEMMA KeptNothing ==
  ASSUME NEW X, NEW f \in Seq(X), NEW kinds
  PROVE  Kept(f, kinds) = <<>> <=> PlacesOf(f, kinds) = {}
<1> DEFINE P == PlacesOf(f, kinds)
<1>1. P \in SUBSET DOMAIN f
  BY DEF PlacesOf
<1>2. Kept(f, kinds) = Picked(f, P)
  BY KeptIs
<1> HIDE DEF P
<1>3. Picked(f, P) \in Seq(X) /\ Len(Picked(f, P)) = Cardinality(P) /\ IsFiniteSet(P)
  BY <1>1, PickedIs, PlacesAreFinite
<1>4. Picked(f, P) = <<>> <=> Len(Picked(f, P)) = 0
  BY <1>3, EmptySeq
<1>5. Cardinality(P) = 0 <=> P = {}
  BY <1>3, FS_EmptySet
<1> QED BY <1>2, <1>3, <1>4, <1>5 DEF P

\* Where no key was below the mark, no mark is left above the new block.
LEMMA NoMarkLeft ==
  ASSUME NEW f \in Seq(LineType), NEW c \in Configs, InOrder(f)
  PROVE  Marks(SetScalars(DropBlock(f), c)) = {}
<1> DEFINE d == DropBlock(f)
           s == SetScalars(d, c)
<1>1. d \in Seq(LineType) /\ Underway(d, c, Len(SCALARS), s)
  BY DropBlockKeeps, ScalarsSet
<1>2. Marks(d) = {}
  <2>1. CASE d = f /\ Marks(f) = {}
    BY <2>1
  <2>2. CASE \E i, j \in DOMAIN f : i < j /\ i \in Marks(f) /\ f[j].is \in {"live", "foreign"}
    BY <2>2 DEF InOrder, Marks, PlacesOf
  <2>3. ASSUME NEW a \in Marks(f), NEW m \in 0..Len(f), d = SubSeq(f, 1, m), m < a,
               \A i \in Marks(f) : a <= i
        PROVE  Marks(d) = {}
    <3>1. /\ DOMAIN d = 1..m /\ 1..m \subseteq DOMAIN f /\ m \in Nat
          /\ \A i \in 1..m : d[i] = f[i]
      BY <2>3, PrefixIs
    <3>2. DOMAIN f = 1..Len(f) /\ Len(f) \in Nat /\ a \in Nat
      <4>1. DOMAIN f = 1..Len(f) /\ Len(f) \in Nat
        BY LenProperties
      <4> QED BY <4>1 DEF Marks, PlacesOf
    <3> HIDE DEF d
    <3>3. ASSUME NEW i \in Marks(d) PROVE FALSE
      <4>1. i \in 1..m /\ i \in Marks(f)
        BY <3>1 DEF Marks, PlacesOf
      <4> QED BY <2>3, <3>1, <3>2, <4>1
    <3> QED BY <3>3
  <2> HIDE DEF d
  <2>4. \/ d = f /\ (Marks(f) = {} \/ \E i, j \in DOMAIN f :
                       i < j /\ i \in Marks(f) /\ f[j].is \in {"live", "foreign"})
        \/ \E a \in Marks(f), m \in 0..Len(f) :
             d = SubSeq(f, 1, m) /\ m < a /\ \A i \in Marks(f) : a <= i
    BY DropBlockIs, Zenon DEF d
  <2> QED BY <2>1, <2>2, <2>3, <2>4
<1> HIDE DEF d, s
<1>3. s \in Seq(LineType) /\ Kept(s, {"mark"}) = Kept(d, {"mark"})
  BY <1>1 DEF Underway
<1>4. Marks(s) = {}
  BY <1>1, <1>2, <1>3, KeptNothing DEF Marks
<1> QED BY <1>4 DEF s, d


\* Two files that differ in the empty lines above the block.
LEMMA KeptRound ==
  ASSUME NEW s \in Seq(LineType), NEW b \in Seq(LineType), NEW m \in 0..(Len(s) + 1),
         Len(b) = 3, b[1].is = "empty",
         \A i \in DOMAIN (s \o b) : m < i /\ i < Len(s) + 2 => (s \o b)[i].is = "empty"
  PROVE  Kept(SubSeq(s \o b, 1, m) \o b, Kinds \ {"empty"}) = Kept(s \o b, Kinds \ {"empty"})
<1> DEFINE w == s \o b
           N == Len(s)
           p == SubSeq(w, 1, m)
           g == p \o b
           K == Kinds \ {"empty"}
           A == PlacesOf(g, K)
           B == PlacesOf(w, K)
           h == [a \in A |-> IF a <= m THEN a ELSE a - m + N]
<1>1. /\ w \in Seq(LineType) /\ Len(w) = N + Len(b)
      /\ \A i \in 1..N + Len(b) : w[i] = IF i <= N THEN s[i] ELSE b[i - N]
  BY ConcatProperties
<1>2. N \in Nat /\ m \in Nat /\ m <= N + 1
  <2>1. N \in Nat
    BY LenProperties
  <2> QED BY <2>1
<1> HIDE DEF w, N
<1>3. Len(w) = N + 3 /\ DOMAIN w = 1..(N + 3)
      /\ \A i \in 1..(N + 3) : i > N => w[i] = b[i - N]
  <2>1. Len(w) = N + 3
    BY <1>1
  <2>2. DOMAIN w = 1..Len(w)
    BY <1>1, LenProperties
  <2> QED BY <1>1, <1>2, <2>1, <2>2
<1>4. /\ p \in Seq(LineType) /\ Len(p) = m
      /\ \A i \in 1..m : p[i] = w[i]
  <2>1. m \in 0..Len(w)
    BY <1>2, <1>3
  <2> QED BY <1>1, <2>1, PrefixIs
<1> HIDE DEF p
<1>5. /\ g \in Seq(LineType) /\ Len(g) = Len(p) + Len(b)
      /\ \A i \in 1..Len(p) + Len(b) : g[i] = IF i <= Len(p) THEN p[i] ELSE b[i - Len(p)]
  BY <1>4, ConcatProperties
<1> HIDE DEF g
<1>6. /\ DOMAIN g = 1..(m + 3)
      /\ \A i \in 1..(m + 3) : g[i] = IF i <= m THEN w[i] ELSE b[i - m]
  <2>1. Len(g) = m + 3
    BY <1>4, <1>5
  <2>2. DOMAIN g = 1..Len(g)
    BY <1>5, LenProperties
  <2>3. \A i \in 1..(m + 3) : i <= m => i \in 1..m
    BY <1>2
  <2> QED BY <1>4, <1>5, <2>1, <2>2, <2>3
<1>7. \A i \in DOMAIN g : i \in Nat /\ i >= 1 /\ i <= m + 3
  BY <1>2, <1>6
<1>8. \A i \in DOMAIN g : ~(i <= m) =>
        /\ i - m + N \in DOMAIN w /\ w[i - m + N] = g[i] /\ i - m + N > N
  <2> SUFFICES ASSUME NEW i \in DOMAIN g, ~(i <= m)
               PROVE  /\ i - m + N \in DOMAIN w /\ w[i - m + N] = g[i] /\ i - m + N > N
    OBVIOUS
  <2> DEFINE j == i - m + N
  <2>1. j \in 1..(N + 3) /\ j > N /\ j - N = i - m
    BY <1>2, <1>7
  <2> HIDE DEF j
  <2>2. w[j] = b[i - m]
    BY <1>3, <2>1
  <2>3. g[i] = b[i - m]
    BY <1>6
  <2> QED BY <1>3, <2>1, <2>2, <2>3 DEF j
<1>9. \A i \in DOMAIN g : i <= m => i \in DOMAIN w /\ w[i] = g[i]
  BY <1>2, <1>3, <1>6, <1>7
<1>10. w[N + 1].is = "empty" /\ N + 1 \in DOMAIN w
  <2> DEFINE j == N + 1
  <2>1. j \in 1..(N + 3) /\ j > N /\ j - N = 1
    BY <1>2
  <2> HIDE DEF j
  <2>2. w[j] = b[1] /\ j \in DOMAIN w
    BY <1>3, <2>1
  <2> QED BY <2>2 DEF j
<1>11. \A i \in A : i \in DOMAIN g /\ g[i].is \in K
  BY DEF PlacesOf
<1>12. \A i \in B : i \in DOMAIN w /\ w[i].is \in K /\ w[i].is # "empty"
  BY DEF PlacesOf
<1>13. \A i \in DOMAIN w : m < i /\ i < N + 2 => w[i].is = "empty"
  BY DEF w, N
<1>14. ASSUME NEW a \in A
       PROVE  h[a] \in B /\ w[h[a]] = g[a] /\ a \in Nat /\ h[a] \in Nat
              /\ (a <= m => h[a] = a)
              /\ (~(a <= m) => h[a] = a - m + N /\ h[a] > N + 1 /\ a > m + 1)
  <2>1. a \in DOMAIN g /\ g[a].is \in K /\ a \in Nat
    BY <1>7, <1>11
  <2>2. CASE a <= m
    <3>1. h[a] = a /\ a \in DOMAIN w /\ w[a] = g[a]
      BY <1>9, <2>1, <2>2
    <3>2. a \in B
      BY <2>1, <3>1 DEF PlacesOf
    <3> QED BY <2>1, <2>2, <3>1, <3>2
  <2>3. CASE ~(a <= m)
    <3> DEFINE j == a - m + N
    <3>1. h[a] = j
      BY <2>3
    <3>2. j \in DOMAIN w /\ w[j] = g[a] /\ j > N
      BY <1>8, <2>1, <2>3
    <3>3. j \in Nat /\ a - m = j - N
      BY <1>2, <2>1, <3>2
    <3>4. j # N + 1
      <4> HIDE DEF j
      <4> QED BY <1>10, <2>1, <3>2
    <3>5. j > N + 1 /\ a > m + 1
      BY <1>2, <2>1, <3>2, <3>3, <3>4
    <3>6. j \in B
      <4> HIDE DEF j
      <4> QED BY <2>1, <3>2 DEF PlacesOf
    <3> HIDE DEF h
    <3>7. h[a] = a - m + N
      BY <3>1
    <3> HIDE DEF j
    <3>8. h[a] \in B /\ w[h[a]] = g[a] /\ h[a] \in Nat /\ h[a] > N + 1
      BY <3>1, <3>2, <3>3, <3>5, <3>6
    <3> QED BY <2>1, <2>3, <3>5, <3>7, <3>8
  <2> QED BY <2>2, <2>3
<1>15. \A a, c \in A : a < c => h[a] < h[c]
  <2> SUFFICES ASSUME NEW a \in A, NEW c \in A, a < c PROVE h[a] < h[c]
    OBVIOUS
  <2> HIDE DEF h, A, B
  <2>1. /\ a \in Nat /\ c \in Nat /\ h[a] \in Nat /\ h[c] \in Nat
        /\ (a <= m => h[a] = a)
        /\ (~(a <= m) => h[a] = a - m + N)
        /\ (c <= m => h[c] = c)
        /\ (~(c <= m) => h[c] = c - m + N /\ h[c] > N + 1)
    BY <1>14
  <2> QED BY <1>2, <2>1
<1>16. \A y \in B : \E a \in A : h[a] = y
  <2> SUFFICES ASSUME NEW y \in B PROVE \E a \in A : h[a] = y
    OBVIOUS
  <2>1. y \in 1..(N + 3) /\ y \in Nat /\ w[y].is \in K /\ w[y].is # "empty" /\ y \in DOMAIN w
    <3>1. y \in DOMAIN w /\ w[y].is \in K /\ w[y].is # "empty"
      BY <1>12
    <3>2. y \in 1..(N + 3)
      BY <1>3, <3>1
    <3>3. y \in Nat
      BY <1>2, <3>2
    <3> QED BY <3>1, <3>2, <3>3
  <2>2. CASE y <= m
    <3>1. y \in DOMAIN g /\ g[y] = w[y]
      BY <1>2, <1>6, <2>1, <2>2
    <3>2. y \in A
      BY <2>1, <3>1 DEF PlacesOf
    <3>3. h[y] = y
      BY <2>2, <3>2
    <3> QED BY <3>2, <3>3
  <2>3. CASE ~(y <= m)
    <3>1. y >= N + 2
      BY <1>2, <1>13, <2>1, <2>3
    <3> DEFINE a == y - N + m
    <3>2. a \in DOMAIN g /\ ~(a <= m) /\ a - m + N = y
      BY <1>2, <1>6, <2>1, <3>1
    <3> HIDE DEF a
    <3>3. g[a] = w[y]
      BY <1>8, <3>2
    <3>4. a \in A
      BY <2>1, <3>2, <3>3 DEF PlacesOf
    <3>5. h[a] = y
      BY <3>2, <3>4
    <3> QED BY <3>4, <3>5
  <2> QED BY <2>2, <2>3
<1>17. Kept(g, K) = Picked(g, A) /\ Kept(w, K) = Picked(w, B)
  BY KeptIs
<1>18. A \in SUBSET DOMAIN g /\ B \in SUBSET DOMAIN w
  BY DEF PlacesOf
<1>19. h \in [A -> B]
  BY <1>14
<1> HIDE DEF A, B, K
<1>20. \A a \in A : w[h[a]] = g[a]
  BY <1>14
<1> HIDE DEF h
<1>22. g \in Seq(LineType)
  BY <1>5
<1>23. w \in Seq(LineType)
  BY <1>1
<1>21. Carries(h, g, A, w, B)
  BY <1>15, <1>16, <1>19, <1>20, Zenon DEF Carries
<1>24. Picked(w, B) = Picked(g, A)
  BY <1>18, <1>21, <1>22, <1>23, CarriedAll
<1>25. Kept(g, K) = Kept(w, K)
  BY <1>17, <1>24
<1> QED BY <1>25 DEF g, p, w, K

\* Another patch changes nothing but empty lines.
LEMMA PatchAgain ==
  ASSUME NEW f \in Seq(LineType), NEW c \in Configs, InOrder(f)
  PROVE  Kept(Patch(Patch(f, c), c), Kinds \ {"empty"}) = Kept(Patch(f, c), Kinds \ {"empty"})
<1> DEFINE s == SetScalars(DropBlock(f), c)
           b == Block(c)
           w == Patch(f, c)
           N == Len(s)
<1>1. s \in Seq(LineType) /\ Marks(s) = {} /\ w = s \o b
  BY PatchSets, NoMarkLeft DEF Patch
<1>2. /\ \A n \in 1..Len(SCALARS) : Says(c, SCALARS[n]) => SetFor(s, SCALARS[n], Wish(c, n))
      /\ \A n \in 1..Len(SCALARS) : Says(c, SCALARS[n]) => SetFor(w, SCALARS[n], Wish(c, n))
  BY PatchSets
<1>3. /\ b \in Seq(LineType)
      /\ \A i \in DOMAIN b : b[i].is \in {"empty", "mark", "logging"}
      /\ b = <<>> \/ /\ Len(b) = 3 /\ b[1].is = "empty" /\ b[2].is = "mark"
                     /\ b[3].is = "logging"
  BY BlockIs, OtherLinesAre
<1>4. Patch(w, c) = SetScalars(DropBlock(w), c) \o b
  BY DEF Patch
<1> HIDE DEF s, b, w, N
<1>5. CASE b = <<>>
  <2>1. w = s
    BY <1>1, <1>5, ConcatEmptySeq
  <2>2. DropBlock(w) = w
    BY <1>1, <2>1 DEF DropBlock, Marks, PlacesOf
  <2>3. SetScalars(w, c) = w
    BY <1>1, <1>2, <2>1, ScalarsSetAgain
  <2>4. Patch(w, c) = w
    BY <1>1, <1>4, <1>5, <2>1, <2>2, <2>3
  <2> QED BY <2>4 DEF w
<1>6. CASE b # <<>>
  <2>1. N \in Nat /\ DOMAIN s = 1..N
    BY <1>1, LenProperties DEF N
  <2>2. /\ w \in Seq(LineType) /\ Len(w) = N + Len(b)
        /\ \A i \in 1..N + Len(b) : w[i] = IF i <= N THEN s[i] ELSE b[i - N]
    BY <1>1, <1>3, ConcatProperties DEF N
  <2>3. Len(b) = 3 /\ b[1].is = "empty" /\ b[2].is = "mark" /\ b[3].is = "logging"
    BY <1>3, <1>6
  <2>4. DOMAIN w = 1..(N + 3)
    BY <2>2, <2>3, LenProperties
  <2>5. w[N + 1] = b[1] /\ w[N + 2] = b[2] /\ w[N + 3] = b[3]
    <3>1. ASSUME NEW n \in 1..3 PROVE w[N + n] = b[n]
      <4> DEFINE i == N + n
      <4>1. i \in 1..N + Len(b) /\ ~(i <= N) /\ i - N = n
        BY <2>1, <2>3
      <4> HIDE DEF i
      <4>2. w[i] = b[n]
        BY <2>2, <4>1
      <4> QED BY <4>2 DEF i
    <3> QED BY <3>1
  <2>6. \A i \in DOMAIN w : i \in DOMAIN s \/ i = N + 1 \/ i = N + 2 \/ i = N + 3
    BY <2>1, <2>4
  <2>7. \A i \in DOMAIN s : w[i] = s[i] /\ s[i].is # "mark"
    <3>1. \A i \in DOMAIN s : i \in 1..N + Len(b) /\ i <= N
      BY <2>1, <2>3
    <3> QED BY <1>1, <2>2, <3>1 DEF Marks, PlacesOf
  <2>8. Marks(w) = {N + 2}
    <3>1. N + 2 \in DOMAIN w
      BY <2>1, <2>4
    <3> QED BY <2>3, <2>5, <2>6, <2>7, <3>1 DEF Marks, PlacesOf
  <2>9. ~\E i, j \in DOMAIN w : i < j /\ i \in Marks(w) /\ w[j].is \in {"live", "foreign"}
    <3> SUFFICES ASSUME NEW j \in DOMAIN w, N + 2 < j, w[j].is \in {"live", "foreign"}
                 PROVE  FALSE
      BY <2>8
    <3>1. j = N + 3
      BY <2>1, <2>4
    <3> QED BY <2>3, <2>5, <3>1
  <2>10. PICK m \in 0..Len(w) :
           /\ DropBlock(w) = SubSeq(w, 1, m) /\ m < N + 2
           /\ \A i \in DOMAIN w : m < i /\ i < N + 2 => w[i].is = "empty"
    <3>1. \/ DropBlock(w) = w /\ (Marks(w) = {} \/ \E i, j \in DOMAIN w :
                 i < j /\ i \in Marks(w) /\ w[j].is \in {"live", "foreign"})
          \/ \E a \in Marks(w), m \in 0..Len(w) :
               /\ DropBlock(w) = SubSeq(w, 1, m) /\ m < a
               /\ \A i \in DOMAIN w : m < i /\ i < a => w[i].is = "empty"
      BY <2>2, DropBlockIs, Zenon
    <3>2. \E a \in Marks(w), m \in 0..Len(w) :
            /\ DropBlock(w) = SubSeq(w, 1, m) /\ m < a
            /\ \A i \in DOMAIN w : m < i /\ i < a => w[i].is = "empty"
      BY <2>8, <2>9, <3>1
    <3> QED BY <2>8, <3>2
  <2> DEFINE p == SubSeq(w, 1, m)
  <2>11. p \in Seq(LineType)
    BY <2>2, PrefixIs
  <2>12. \A i \in DOMAIN w : i > m => w[i].is \notin {"sample", "live"}
    <3> SUFFICES ASSUME NEW i \in DOMAIN w, i > m PROVE w[i].is \notin {"sample", "live"}
      OBVIOUS
    <3>1. i \in Nat /\ (i < N + 2 \/ i = N + 2 \/ i = N + 3)
      BY <2>1, <2>4
    <3> QED BY <2>3, <2>5, <2>10, <3>1
  <2>13. \A n \in 1..Len(SCALARS) : Says(c, SCALARS[n]) => SetFor(p, SCALARS[n], Wish(c, n))
    BY <1>2, <2>2, <2>12, SetForPrefix
  <2> HIDE DEF p
  <2>14. SetScalars(p, c) = p
    BY <2>11, <2>13, ScalarsSetAgain
  <2>15. Patch(w, c) = p \o b
    BY <1>4, <2>10, <2>14 DEF p
  <2>16. m \in 0..(N + 1)
    BY <2>1, <2>2, <2>3, <2>10
  <2>17. Kept(p \o b, Kinds \ {"empty"}) = Kept(w, Kinds \ {"empty"})
    BY <1>1, <1>3, <2>3, <2>10, <2>16, KeptRound DEF p, N
  <2> QED BY <2>15, <2>17 DEF w
<1> QED BY <1>5, <1>6

\* A patch that is applied can be read, leaves nothing that would be rolled
\* out again, and written once more changes empty lines only, unless somebody
\* had put a key below the mark (p50_cluster_init.py:285-316).
THEOREM PatchesSettle == SettingsSpec => Settles
<1> DEFINE Settled == /\ Readable(file') /\ ActionableKeys(file', config) = {}
                      /\ InOrder(file) => Kept(Patch(file', config), Kinds \ {"empty"})
                                            = Kept(file', Kinds \ {"empty"})
<1>1. SettingsInv /\ [SettingsNext]_settings => [outcome' = "applied" => Settled]_settings
  <2> SUFFICES ASSUME SettingsInv, SettingsNext, outcome' = "applied" PROVE Settled
    OBVIOUS
  <2>1. config \in Configs /\ file \in Seq(LineType)
    BY DEF SettingsInv
  <2>2. Apply
    BY DEF SettingsNext, EditConfig, HandEdit
  <2>3. file' = Patch(file, config) /\ Readable(Patch(file, config))
    BY <2>2 DEF Apply
  <2>4. ActionableKeys(Patch(file, config), config) = {}
    BY <2>1, NothingIsLeft
  <2>5. InOrder(file) => Kept(Patch(Patch(file, config), config), Kinds \ {"empty"})
                           = Kept(Patch(file, config), Kinds \ {"empty"})
    BY <2>1, PatchAgain
  <2>6. Readable(file')
    BY <2>3 DEF Readable
  <2> QED BY <2>3, <2>4, <2>5, <2>6
<1> QED BY <1>1, SettingsInvariant, PTL DEF SettingsSpec, Settles
=============================================================================
