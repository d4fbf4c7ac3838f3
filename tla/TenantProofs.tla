---------------------------- MODULE TenantProofs ----------------------------
(***************************************************************************)
(* Phase 80, whichever calls may go unanswered: a phase that is done and   *)
(* does not warn has a tenant.  And where the log can always be read, a    *)
(* tenant that create-tenant said it created is never created again.       *)
(***************************************************************************)
EXTENDS Tenant, TLAPS

-----------------------------------------------------------------------------
(* Types, the flags apart from the rest.                                   *)

Flags ==
  /\ running \in BOOLEAN /\ tenant \in BOOLEAN /\ logged \in BOOLEAN
  /\ other \in BOOLEAN /\ calm \in BOOLEAN
  /\ ran \in BOOLEAN /\ created \in BOOLEAN /\ warned \in BOOLEAN

Ranges ==
  /\ state \in {"idle", "calling", "waiting", "returned", "raised"}
  /\ lb \in {"serving", "maintenance", "unreachable"}
  /\ pc \in {"idle", "log", "http", "step", "check"}
  /\ pc = "step" <=> state \in {"calling", "waiting"}
  /\ verdict \in {"none", "done", "failed"}

\* A flag stays a flag.
LEMMA FlagsNext ==
  ASSUME Flags, Next
  PROVE  Flags'
<1> USE DEF Flags, world, local
<1>1. CASE StartRun
  BY <1>1, Zenon DEF StartRun
<1>2. CASE ProbeLog
  BY <1>2, Zenon DEF ProbeLog, Silent
<1>3. CASE ProbeHttp
  BY <1>3, Zenon DEF ProbeHttp, Silent, Stop
<1>4. CASE RunJoins
  BY <1>4, Zenon DEF RunJoins, Job!Attach
<1>5. CASE RunLaunches
  BY <1>5, Zenon DEF RunLaunches, Job!Launch
<1>6. CASE RunRefused
  BY <1>6, Zenon DEF RunRefused, Job!Refuse, Stop
<1>7. CASE RunWaited
  BY <1>7, Zenon DEF RunWaited, Job!Return
<1>8. CASE RunLost
  BY <1>8, Zenon DEF RunLost, Job!GiveUp, Stop
<1>9. CASE RunChecks
  BY <1>9, Zenon DEF RunChecks, Stop
<1>10. CASE Creates
  BY <1>10, Zenon DEF Creates
<1>11. CASE Logs
  BY <1>11, Zenon DEF Logs
<1>12. CASE StepEnds
  BY <1>12, Zenon DEF StepEnds, Job!Ends
<1>13. CASE LbChanges
  BY <1>13, Zenon DEF LbChanges
<1>14. CASE LbServes
  BY <1>14, Zenon DEF LbServes
<1>15. CASE OtherStarts
  BY <1>15, Zenon DEF OtherStarts
<1>16. CASE OtherEnds
  BY <1>16, Zenon DEF OtherEnds
<1>17. CASE Abort
  BY <1>17, Zenon DEF Abort, Job!Abort, Stop
<1>18. CASE Becalm
  BY <1>18, Zenon DEF Becalm
<1>19. QED
  BY <1>1, <1>2, <1>3, <1>4, <1>5, <1>6, <1>7, <1>8, <1>9, <1>10, <1>11, <1>12, <1>13, <1>14, <1>15, <1>16, <1>17, <1>18 DEF Next, Run

\* The rest stays in its range.
LEMMA RangesNext ==
  ASSUME Ranges, Next
  PROVE  Ranges'
<1> USE DEF Ranges, world, local
<1>1. CASE StartRun
  BY <1>1 DEF StartRun
<1>2. CASE ProbeLog
  BY <1>2 DEF ProbeLog, Silent
<1>3. CASE ProbeHttp
  BY <1>3 DEF ProbeHttp, Silent, Stop
<1>4. CASE RunJoins
  BY <1>4 DEF RunJoins, Job!Attach
<1>5. CASE RunLaunches
  BY <1>5 DEF RunLaunches, Job!Launch
<1>6. CASE RunRefused
  BY <1>6 DEF RunRefused, Job!Refuse, Stop
<1>7. CASE RunWaited
  BY <1>7 DEF RunWaited, Job!Return
<1>8. CASE RunLost
  BY <1>8 DEF RunLost, Job!GiveUp, Stop
<1>9. CASE RunChecks
  BY <1>9 DEF RunChecks, Stop
<1>10. CASE Creates
  BY <1>10 DEF Creates
<1>11. CASE Logs
  BY <1>11 DEF Logs
<1>12. CASE StepEnds
  BY <1>12 DEF StepEnds, Job!Ends
<1>13. CASE LbChanges
  BY <1>13 DEF LbChanges
<1>14. CASE LbServes
  BY <1>14 DEF LbServes
<1>15. CASE OtherStarts
  BY <1>15 DEF OtherStarts
<1>16. CASE OtherEnds
  BY <1>16 DEF OtherEnds
<1>17. CASE Abort
  BY <1>17 DEF Abort, Job!Abort, Stop
<1>18. CASE Becalm
  BY <1>18 DEF Becalm
<1>19. QED
  BY <1>1, <1>2, <1>3, <1>4, <1>5, <1>6, <1>7, <1>8, <1>9, <1>10, <1>11, <1>12, <1>13, <1>14, <1>15, <1>16, <1>17, <1>18 DEF Next, Run

\* Every variable has its type.
THEOREM TypesHold == Spec => []TypeOK
<1>1. Init => Flags /\ Ranges
  BY DEF Init, Flags, Ranges
<1>2. Flags /\ Ranges /\ [Next]_vars => (Flags /\ Ranges)'
  BY FlagsNext, RangesNext DEF vars, world, local, Flags, Ranges
<1>3. Flags /\ Ranges => TypeOK
  BY DEF Flags, Ranges, TypeOK
<1>4. QED
  BY <1>1, <1>2, <1>3, PTL DEF Spec

-----------------------------------------------------------------------------
(* What the log says is so, and what a probe read there stays so.          *)

Witnessed ==
  /\ created => logged
  /\ logged => tenant
  /\ verdict = "done" /\ ~warned => tenant

\* Nothing takes back a tenant or a line of the log.
LEMMA WitnessedNext ==
  ASSUME Witnessed, Flags, Next
  PROVE  Witnessed'
<1> USE DEF Witnessed, Flags, world, local
<1>1. CASE StartRun
  BY <1>1 DEF StartRun
<1>2. CASE ProbeLog
  BY <1>2 DEF ProbeLog, Silent
<1>3. CASE ProbeHttp
  BY <1>3 DEF ProbeHttp, Silent, Stop
<1>4. CASE RunJoins
  BY <1>4 DEF RunJoins, Job!Attach
<1>5. CASE RunLaunches
  BY <1>5 DEF RunLaunches, Job!Launch
<1>6. CASE RunRefused
  BY <1>6 DEF RunRefused, Job!Refuse, Stop
<1>7. CASE RunWaited
  BY <1>7 DEF RunWaited, Job!Return
<1>8. CASE RunLost
  BY <1>8 DEF RunLost, Job!GiveUp, Stop
<1>9. CASE RunChecks
  BY <1>9 DEF RunChecks, Stop
<1>10. CASE Creates
  BY <1>10 DEF Creates
<1>11. CASE Logs
  BY <1>11 DEF Logs
<1>12. CASE StepEnds
  BY <1>12 DEF StepEnds, Job!Ends
<1>13. CASE LbChanges
  BY <1>13 DEF LbChanges
<1>14. CASE LbServes
  BY <1>14 DEF LbServes
<1>15. CASE OtherStarts
  BY <1>15 DEF OtherStarts
<1>16. CASE OtherEnds
  BY <1>16 DEF OtherEnds
<1>17. CASE Abort
  BY <1>17 DEF Abort, Job!Abort, Stop
<1>18. CASE Becalm
  BY <1>18 DEF Becalm
<1>19. QED
  BY <1>1, <1>2, <1>3, <1>4, <1>5, <1>6, <1>7, <1>8, <1>9, <1>10, <1>11, <1>12, <1>13, <1>14, <1>15, <1>16, <1>17, <1>18 DEF Next, Run

\* A phase that is done without a warning has a tenant, whatever answers in
\* the place of the cluster.
THEOREM GreenIsTenant == Spec => []GreenMeansTenant
<1>1. Init => Flags /\ Witnessed
  BY DEF Init, Flags, Witnessed
<1>2. Flags /\ Witnessed /\ [Next]_vars => (Flags /\ Witnessed)'
  BY FlagsNext, WitnessedNext DEF vars, world, local, Flags, Witnessed
<1>3. Witnessed => GreenMeansTenant
  BY DEF Witnessed, GreenMeansTenant
<1>4. QED
  BY <1>1, <1>2, <1>3, PTL DEF Spec

-----------------------------------------------------------------------------
(* Where the log is always read.                                           *)

\* create-tenant said that it succeeded and ended, and no run is past the
\* point where it believes the log.
Settled ==
  /\ logged /\ ~running
  /\ pc \in {"idle", "log", "check"} \/ (pc = "http" /\ created)

\* No step leads out of that.
LEMMA SettledNext ==
  ASSUME "log" \notin Faulty, Settled, Ranges, Flags, Next
  PROVE  Settled'
<1> USE DEF Settled, Ranges, Flags, world, local
<1>1. CASE StartRun
  BY <1>1 DEF StartRun
<1>2. CASE ProbeLog
  BY <1>2 DEF ProbeLog, Silent
<1>3. CASE ProbeHttp
  BY <1>3 DEF ProbeHttp, Silent, Stop
<1>4. CASE RunJoins
  BY <1>4 DEF RunJoins, Job!Attach
<1>5. CASE RunLaunches
  BY <1>5 DEF RunLaunches, Job!Launch
<1>6. CASE RunRefused
  BY <1>6 DEF RunRefused, Job!Refuse, Stop
<1>7. CASE RunWaited
  BY <1>7 DEF RunWaited, Job!Return
<1>8. CASE RunLost
  BY <1>8 DEF RunLost, Job!GiveUp, Stop
<1>9. CASE RunChecks
  BY <1>9 DEF RunChecks, Stop
<1>10. CASE Creates
  BY <1>10 DEF Creates
<1>11. CASE Logs
  BY <1>11 DEF Logs
<1>12. CASE StepEnds
  BY <1>12 DEF StepEnds, Job!Ends
<1>13. CASE LbChanges
  BY <1>13 DEF LbChanges
<1>14. CASE LbServes
  BY <1>14 DEF LbServes
<1>15. CASE OtherStarts
  BY <1>15 DEF OtherStarts
<1>16. CASE OtherEnds
  BY <1>16 DEF OtherEnds
<1>17. CASE Abort
  BY <1>17 DEF Abort, Job!Abort, Stop
<1>18. CASE Becalm
  BY <1>18 DEF Becalm
<1>19. QED
  BY <1>1, <1>2, <1>3, <1>4, <1>5, <1>6, <1>7, <1>8, <1>9, <1>10, <1>11, <1>12, <1>13, <1>14, <1>15, <1>16, <1>17, <1>18 DEF Next, Run

\* Once create-tenant has said that it succeeded, no later run starts it
\* again, if the log can be read: silence there reads as "not created".
THEOREM CreatedOnce ==
  ASSUME "log" \notin Faulty
  PROVE  Spec => CreatedIsNotRerun
<1>1. Init => Flags /\ Ranges
  BY DEF Init, Flags, Ranges
<1>2. Flags /\ Ranges /\ [Next]_vars => (Flags /\ Ranges)'
  BY FlagsNext, RangesNext DEF vars, world, local, Flags, Ranges
<1>3. logged /\ ~running /\ pc = "idle" => Settled
  BY DEF Settled
<1>4. Flags /\ Ranges /\ Settled /\ [Next]_vars => Settled'
  <2> SUFFICES ASSUME Flags, Ranges, Settled, [Next]_vars
               PROVE  Settled'
    OBVIOUS
  <2>1. CASE Next
    BY <2>1, SettledNext
  <2>2. CASE UNCHANGED vars
    BY <2>2 DEF vars, world, local, Settled
  <2>3. QED
    BY <2>1, <2>2
<1>5. Settled => ~running
  BY DEF Settled
<1>6. QED
  BY <1>1, <1>2, <1>3, <1>4, <1>5, PTL DEF Spec, CreatedIsNotRerun
=============================================================================
