-------------------------- MODULE ServicesProofs ---------------------------
(***************************************************************************)
(* Phase 70, for every set of services, every number of attempts and every *)
(* set of calls that may go unanswered: it does not rewrite what a deploy  *)
(* reads, and says "stuck" only after two deploys have ended.              *)
(***************************************************************************)
EXTENDS Services, TLAPS

-----------------------------------------------------------------------------
(* Types, the flags apart from the rest.                                   *)

Flags ==
  /\ running \in BOOLEAN /\ other \in BOOLEAN
  /\ calm \in BOOLEAN /\ green \in BOOLEAN

Ranges ==
  /\ state \in {"idle", "calling", "waiting", "returned", "raised"}
  /\ svc \in [Service -> {"missing", "starting", "ready"}]
  /\ reached \in Service \cup {NoService} /\ last \in Service \cup {NoService}
  /\ ended \in 0..2
  /\ pc \in {"idle", "alive", "busy", "write", "bootstrap", "step",
             "readiness", "health", "log"}
  /\ asking \in {"probe", "attempt", "settled", "final", "confirm"}
  /\ attempt \in 1..Attempts
  /\ seen \subseteq Kinds \X Core /\ prev \subseteq Kinds \X Core
  /\ verdict \in {"none", "done", "refused", "lost", "red", "stuck",
                  "unconfirmed"}
  /\ suspect \in Service \cup {NoService}

\* A flag stays a flag.
LEMMA FlagsNext ==
  ASSUME Flags, Next
  PROVE  Flags'
<1> USE DEF Flags, ReadinessGreen, cluster, judging
<1>1. CASE StartRun
  BY <1>1, Zenon DEF StartRun, Forget
<1>2. CASE RunAlive
  BY <1>2, Zenon DEF RunAlive, CallStep, Go, Stop, Forget
<1>3. CASE RunBusy
  BY <1>3, Zenon DEF RunBusy, Go, Stop, Forget
<1>4. CASE RunWrite
  BY <1>4, Zenon DEF RunWrite, Go, Stop, Forget
<1>5. CASE RunBootstrap
  BY <1>5, Zenon DEF RunBootstrap, CallStep, Stop, Forget
<1>6. CASE AttemptJoins
  BY <1>6, Zenon DEF AttemptJoins, Job!Attach
<1>7. CASE AttemptLaunches
  BY <1>7, Zenon DEF AttemptLaunches, Job!Launch
<1>8. CASE AttemptRefused
  BY <1>8, Zenon DEF AttemptRefused, Job!Refuse, Stop, Forget
<1>9. CASE AttemptEnds
  BY <1>9, Zenon DEF AttemptEnds, Job!Return, Ask
<1>10. CASE AttemptLost
  BY <1>10, Zenon DEF AttemptLost, Job!GiveUp, Stop, Forget
<1>11. CASE ReadLog
  BY <1>11, Zenon DEF ReadLog, NextAttempt, CallStep
<1>12. CASE AskReadiness
  BY <1>12, Zenon DEF AskReadiness, Blockers
<1>13. CASE AskHealth
  BY <1>13, Zenon DEF AskHealth, Accepted, Refused, Stop, Forget, Ask, Go, Stuck, NextAttempt, CallStep
<1>14. CASE DeployEnds
  BY <1>14, Zenon DEF DeployEnds, Job!Ends
<1>15. CASE Abort
  BY <1>15, Zenon DEF Abort, Job!Abort, Stop, Forget
<1>16. CASE OtherStarts
  BY <1>16, Zenon DEF OtherStarts
<1>17. CASE OtherEnds
  BY <1>17, Zenon DEF OtherEnds
<1>18. CASE Becalm
  BY <1>18, Zenon DEF Becalm
<1>19. ASSUME NEW s \in Service, DeployService(s) PROVE Flags'
  BY <1>19, Zenon DEF DeployService
<1>20. ASSUME NEW s \in Service, Settles(s) PROVE Flags'
  BY <1>20, Zenon DEF Settles
<1>21. ASSUME NEW s \in Service, Fails(s) PROVE Flags'
  BY <1>21, Zenon DEF Fails
<1> QED
  BY <1>1, <1>2, <1>3, <1>4, <1>5, <1>6, <1>7, <1>8,
     <1>9, <1>10, <1>11, <1>12, <1>13, <1>14, <1>15, <1>16, <1>17, <1>18, <1>19, <1>20, <1>21
     DEF Next, Run, Attempt

\* Every place, judgement and service stays in its range.
LEMMA RangesNext ==
  ASSUME Ranges, Next
  PROVE  Ranges'
<1> USE ServicesAssumption DEF Ranges, Kinds, cluster, judging
<1>1. CASE StartRun
  BY <1>1 DEF StartRun, Forget
<1>2. CASE RunAlive
  BY <1>2 DEF RunAlive, CallStep, Go, Stop, Forget
<1>3. CASE RunBusy
  BY <1>3 DEF RunBusy, Go, Stop, Forget
<1>4. CASE RunWrite
  BY <1>4 DEF RunWrite, Go, Stop, Forget
<1>5. CASE RunBootstrap
  BY <1>5 DEF RunBootstrap, CallStep, Stop, Forget
<1>6. CASE AttemptJoins
  BY <1>6 DEF AttemptJoins, Job!Attach
<1>7. CASE AttemptLaunches
  BY <1>7 DEF AttemptLaunches, Job!Launch
<1>8. CASE AttemptRefused
  BY <1>8 DEF AttemptRefused, Job!Refuse, Stop, Forget
<1>9. CASE AttemptEnds
  BY <1>9 DEF AttemptEnds, Job!Return, Ask
<1>10. CASE AttemptLost
  BY <1>10 DEF AttemptLost, Job!GiveUp, Stop, Forget
<1>11. CASE ReadLog
  BY <1>11 DEF ReadLog, NextAttempt, CallStep
<1>12. CASE AskReadiness
  BY <1>12 DEF AskReadiness, Blockers
<1>13. CASE AskHealth
  BY <1>13 DEF AskHealth, Accepted, Refused, Stop, Forget, Ask, Go, Stuck, NextAttempt, CallStep
<1>14. CASE DeployEnds
  BY <1>14 DEF DeployEnds, Job!Ends
<1>15. CASE Abort
  BY <1>15 DEF Abort, Job!Abort, Stop, Forget
<1>16. CASE OtherStarts
  BY <1>16 DEF OtherStarts
<1>17. CASE OtherEnds
  BY <1>17 DEF OtherEnds
<1>18. CASE Becalm
  BY <1>18 DEF Becalm
<1>19. ASSUME NEW s \in Service, DeployService(s) PROVE Ranges'
  BY <1>19 DEF DeployService
<1>20. ASSUME NEW s \in Service, Settles(s) PROVE Ranges'
  BY <1>20 DEF Settles
<1>21. ASSUME NEW s \in Service, Fails(s) PROVE Ranges'
  BY <1>21 DEF Fails
<1> QED
  BY <1>1, <1>2, <1>3, <1>4, <1>5, <1>6, <1>7, <1>8,
     <1>9, <1>10, <1>11, <1>12, <1>13, <1>14, <1>15, <1>16, <1>17, <1>18, <1>19, <1>20, <1>21
     DEF Next, Run, Attempt

\* Every variable of the phase keeps its type, whatever services it deploys.
THEOREM TypesHold == Spec => []TypeOK
<1> DEFINE Inv == Flags /\ Ranges
<1>1. Init => Inv
  <2> SUFFICES ASSUME Init PROVE Inv
    OBVIOUS
  <2>1. Flags
    BY Zenon DEF Init, Flags
  <2>2. Ranges
    BY ServicesAssumption DEF Init, Ranges
  <2> QED
    BY <2>1, <2>2
<1>2. Inv /\ [Next]_vars => Inv'
  <2> SUFFICES ASSUME Flags, Ranges, [Next]_vars PROVE Inv'
    OBVIOUS
  <2>1. CASE UNCHANGED vars
    <3>1. Flags'
      BY <2>1, Zenon DEF Flags, vars, cluster, judging
    <3>2. Ranges'
      BY <2>1 DEF Ranges, vars, cluster, judging
    <3> QED
      BY <3>1, <3>2
  <2> QED
    BY <2>1, FlagsNext, RangesNext
<1>3. Inv => TypeOK
  BY DEF Flags, Ranges, TypeOK
<1> QED
  BY <1>1, <1>2, <1>3, PTL DEF Spec

-----------------------------------------------------------------------------
(* The rewriting.                                                          *)

\* From the answer "not running" to the start of the step nothing runs.
NothingRuns == pc \in {"busy", "write", "bootstrap"} => ~running

\* Only the step itself starts a deploy.
LEMMA NothingRunsNext ==
  ASSUME Ranges, NothingRuns, Next
  PROVE  NothingRuns'
<1> USE ServicesAssumption DEF Ranges, NothingRuns, cluster, judging
<1>1. CASE StartRun
  BY <1>1 DEF StartRun, Forget
<1>2. CASE RunAlive
  BY <1>2 DEF RunAlive, CallStep, Go, Stop, Forget
<1>3. CASE RunBusy
  BY <1>3 DEF RunBusy, Go, Stop, Forget
<1>4. CASE RunWrite
  BY <1>4 DEF RunWrite, Go, Stop, Forget
<1>5. CASE RunBootstrap
  BY <1>5 DEF RunBootstrap, CallStep, Stop, Forget
<1>6. CASE AttemptJoins
  BY <1>6 DEF AttemptJoins, Job!Attach
<1>7. CASE AttemptLaunches
  BY <1>7 DEF AttemptLaunches, Job!Launch
<1>8. CASE AttemptRefused
  BY <1>8 DEF AttemptRefused, Job!Refuse, Stop, Forget
<1>9. CASE AttemptEnds
  BY <1>9 DEF AttemptEnds, Job!Return, Ask
<1>10. CASE AttemptLost
  BY <1>10 DEF AttemptLost, Job!GiveUp, Stop, Forget
<1>11. CASE ReadLog
  BY <1>11 DEF ReadLog, NextAttempt, CallStep
<1>12. CASE AskReadiness
  BY <1>12 DEF AskReadiness, Blockers
<1>13. CASE AskHealth
  BY <1>13 DEF AskHealth, Accepted, Refused, Stop, Forget, Ask, Go, Stuck, NextAttempt, CallStep
<1>14. CASE DeployEnds
  BY <1>14 DEF DeployEnds, Job!Ends
<1>15. CASE Abort
  BY <1>15 DEF Abort, Job!Abort, Stop, Forget
<1>16. CASE OtherStarts
  BY <1>16 DEF OtherStarts
<1>17. CASE OtherEnds
  BY <1>17 DEF OtherEnds
<1>18. CASE Becalm
  BY <1>18 DEF Becalm
<1>19. ASSUME NEW s \in Service, DeployService(s) PROVE NothingRuns'
  BY <1>19 DEF DeployService
<1>20. ASSUME NEW s \in Service, Settles(s) PROVE NothingRuns'
  BY <1>20 DEF Settles
<1>21. ASSUME NEW s \in Service, Fails(s) PROVE NothingRuns'
  BY <1>21 DEF Fails
<1> QED
  BY <1>1, <1>2, <1>3, <1>4, <1>5, <1>6, <1>7, <1>8,
     <1>9, <1>10, <1>11, <1>12, <1>13, <1>14, <1>15, <1>16, <1>17, <1>18, <1>19, <1>20, <1>21
     DEF Next, Run, Attempt

\* access-profile.yml, Vault and Consul are never rewritten while a deploy of
\* ours reads them, whichever calls go unanswered.
THEOREM WritesAlone == Spec => []RewritesAlone
<1> DEFINE Inv == Ranges /\ NothingRuns
<1>1. Init => Inv
  <2> SUFFICES ASSUME Init PROVE Inv
    OBVIOUS
  <2> QED
    BY ServicesAssumption DEF Init, Ranges, NothingRuns
<1>2. Inv /\ [Next]_vars => Inv'
  <2> SUFFICES ASSUME Ranges, NothingRuns, [Next]_vars PROVE Inv'
    OBVIOUS
  <2>1. CASE UNCHANGED vars
    BY <2>1 DEF Ranges, NothingRuns, vars, cluster, judging
  <2> QED
    BY <2>1, RangesNext, NothingRunsNext
<1>3. Inv => RewritesAlone
  BY DEF NothingRuns, RewritesAlone
<1> QED
  BY <1>1, <1>2, <1>3, PTL DEF Spec

-----------------------------------------------------------------------------
(* The verdict.                                                            *)

\* The deploys that have ended keep up with the attempts: one behind while a
\* step may be at work, level with them when it is found gone and judged.
EndedKeepsUp ==
  /\ pc = "step" => ended + 1 >= attempt \/ ended = 2
  /\ pc = "step" /\ state = "waiting" /\ ~running => ended >= attempt \/ ended = 2
  /\ asking \in {"attempt", "settled"} /\ pc \in {"readiness", "health", "log"} =>
       ended >= attempt \/ ended = 2
  /\ pc = "log" => asking = "attempt"
  /\ pc = "step" => asking \in {"probe", "attempt", "settled"}
  /\ pc \in {"alive", "busy", "write", "bootstrap"} => asking = "probe"
  /\ asking = "probe" => attempt = 1
  /\ verdict = "stuck" => ended = 2 /\ pc = "idle"

\* A step that survived its kill is never counted as ended.
LEMMA EndedKeepsUpNext ==
  ASSUME Ranges, EndedKeepsUp, Next
  PROVE  EndedKeepsUp'
<1> USE ServicesAssumption DEF Ranges, EndedKeepsUp, SameBlockers, cluster, judging
<1>1. CASE StartRun
  BY <1>1 DEF StartRun, Forget
<1>2. CASE RunAlive
  BY <1>2 DEF RunAlive, CallStep, Go, Stop, Forget
<1>3. CASE RunBusy
  BY <1>3 DEF RunBusy, Go, Stop, Forget
<1>4. CASE RunWrite
  BY <1>4 DEF RunWrite, Go, Stop, Forget
<1>5. CASE RunBootstrap
  BY <1>5 DEF RunBootstrap, CallStep, Stop, Forget
<1>6. CASE AttemptJoins
  BY <1>6 DEF AttemptJoins, Job!Attach
<1>7. CASE AttemptLaunches
  BY <1>7 DEF AttemptLaunches, Job!Launch
<1>8. CASE AttemptRefused
  BY <1>8 DEF AttemptRefused, Job!Refuse, Stop, Forget
<1>9. CASE AttemptEnds
  BY <1>9 DEF AttemptEnds, Job!Return, Ask
<1>10. CASE AttemptLost
  BY <1>10 DEF AttemptLost, Job!GiveUp, Stop, Forget
<1>11. CASE ReadLog
  BY <1>11 DEF ReadLog, NextAttempt, CallStep
<1>12. CASE AskReadiness
  BY <1>12 DEF AskReadiness, Blockers
<1>13. CASE AskHealth
  BY <1>13 DEF AskHealth, Accepted, Refused, Stop, Forget, Ask, Go, Stuck, NextAttempt, CallStep
<1>14. CASE DeployEnds
  BY <1>14 DEF DeployEnds, Job!Ends
<1>15. CASE Abort
  BY <1>15 DEF Abort, Job!Abort, Stop, Forget
<1>16. CASE OtherStarts
  BY <1>16 DEF OtherStarts
<1>17. CASE OtherEnds
  BY <1>17 DEF OtherEnds
<1>18. CASE Becalm
  BY <1>18 DEF Becalm
<1>19. ASSUME NEW s \in Service, DeployService(s) PROVE EndedKeepsUp'
  BY <1>19 DEF DeployService
<1>20. ASSUME NEW s \in Service, Settles(s) PROVE EndedKeepsUp'
  BY <1>20 DEF Settles
<1>21. ASSUME NEW s \in Service, Fails(s) PROVE EndedKeepsUp'
  BY <1>21 DEF Fails
<1> QED
  BY <1>1, <1>2, <1>3, <1>4, <1>5, <1>6, <1>7, <1>8,
     <1>9, <1>10, <1>11, <1>12, <1>13, <1>14, <1>15, <1>16, <1>17, <1>18, <1>19, <1>20, <1>21
     DEF Next, Run, Attempt

\* "Stuck" is said only after two deploys have ended in this run, for every
\* number of attempts and every set of services.
THEOREM StuckIsEarned == Spec => []StuckAfterTwoDeploys
<1> DEFINE Inv == Ranges /\ EndedKeepsUp
<1>1. Init => Inv
  <2> SUFFICES ASSUME Init PROVE Inv
    OBVIOUS
  <2> QED
    BY ServicesAssumption DEF Init, Ranges, EndedKeepsUp
<1>2. Inv /\ [Next]_vars => Inv'
  <2> SUFFICES ASSUME Ranges, EndedKeepsUp, [Next]_vars PROVE Inv'
    OBVIOUS
  <2>1. CASE UNCHANGED vars
    BY <2>1 DEF Ranges, EndedKeepsUp, vars, cluster, judging
  <2> QED
    BY <2>1, RangesNext, EndedKeepsUpNext
<1>3. Inv => StuckAfterTwoDeploys
  BY DEF EndedKeepsUp, StuckAfterTwoDeploys
<1> QED
  BY <1>1, <1>2, <1>3, PTL DEF Spec
=============================================================================
