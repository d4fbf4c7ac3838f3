--------------------------- MODULE RolloutProofs ----------------------------
(***************************************************************************)
(* What Rollout promises for all settings, configurations and faults.      *)
(*                                                                         *)
(* No rollout is lost between phase 50 and phase 60, and a green run has   *)
(* applied what it loaded, provided the busy check and the hash count are  *)
(* answered and nobody starts `wso cp deploy` by hand.  With one of those  *)
(* relaxed TLC finds the rollout that is lost.                             *)
(***************************************************************************)
EXTENDS Rollout, TLAPS

-----------------------------------------------------------------------------
(* Types.                                                                  *)

\* The initial state has the types.
LEMMA TypeInit == Init => TypeOK
<1> SUFFICES ASSUME Init PROVE TypeOK
  OBVIOUS
<1>1. pc \in Points
  BY DEF Init, Points
<1>2. Flags
  BY DEF Init, Flags
<1>3. Ranges
  BY DEF Init, Ranges
<1>4. Counters
  BY DEF Init, Counters
<1>5. Mappings
  BY DEF Init, Mappings, Template, Of, Keys
<1> QED
  BY <1>1, <1>2, <1>3, <1>4, <1>5 DEF TypeOK

\* Every step ends at one of the points.
LEMMA PointsNext ==
  ASSUME pc \in Points, [Next]_vars
  PROVE  (pc \in Points)'
<1> USE DEF Points, Go, Stop, NoRun, local, operator, files, marker, deploy,
   remote
<1>1. CASE StartRun \/ Finish \/ Probe50Validate \/ Probe50Compare \/
   Probe60Health \/ Probe60Hash \/ Probe60Marker
  BY <1>1 DEF StartRun, Finish, Probe50Validate, Probe50Compare,
     Probe60Health, Probe60Hash, Probe60Marker, Phase50Done, Phase50NotDone,
     Phase60NotDone
<1>2. CASE Run50Busy \/ Run50Read \/ Run50Verify \/ Run50Accept
  BY <1>2 DEF Run50Busy, Run50Read, Run50Verify, Run50Accept, Retrofittable
<1>3. CASE Run50Init \/ Run50Ini \/ Run50Mark
  BY <1>3 DEF Run50Init, Run50Ini, Run50Mark, Template, WriteMarker, WsoInit
<1>4. CASE Run50Patch
  BY <1>4 DEF Run50Patch, Patch, PatchLands
<1>5. CASE Run60Before
  BY <1>5 DEF Run60Before, HashCount
<1>6. CASE Run60Alive \/ Run60Busy \/ Run60Wait
  BY <1>6 DEF Run60Alive, Run60Busy, Run60Wait
<1>7. CASE Run60After \/ Run60Log
  BY <1>7 DEF Run60After, Run60Log, HashCount
<1>8. CASE Run60Start \/ Run60Accept \/ Run60Unseal \/ Run60Clear
  BY <1>8 DEF Run60Start, Run60Accept, Run60Unseal, Run60Clear, ClearMarker,
     Launch
<1>9. CASE CpReads \/ CpApplies \/ CpHasNoChanges \/ CpFails
  BY <1>9 DEF CpReads, CpApplies, CpHasNoChanges, CpFails, CpSays, Of
<1>10. CASE CpExits \/ CpDies
  BY <1>10 DEF CpExits, CpDies, CpGone, Of, Template
<1>11. CASE Abort \/ EditConfig \/ EditProfile \/ OtherStarts \/ OtherEnds
  BY <1>11 DEF Abort, EditConfig, EditProfile, OtherStarts, OtherEnds
<1>12. CASE StartByHand \/ Degrade \/ Heal \/ Becalm
  BY <1>12 DEF StartByHand, Degrade, Heal, Becalm
<1>13. CASE UNCHANGED vars
  BY <1>13 DEF vars
<1> QED
  BY <1>1, <1>2, <1>3, <1>4, <1>5, <1>6, <1>7, <1>8, <1>9, <1>10, <1>11,
     <1>12, <1>13 DEF Next, Run, Phase50, Phase60, CpDeploy, World

\* The flags stay Booleans.
LEMMA FlagsNext ==
  ASSUME Flags, [Next]_vars
  PROVE  Flags'
<1> USE DEF Flags, Go, Stop, NoRun, local, operator, files, marker, deploy,
   remote
<1>1. CASE StartRun \/ Finish \/ Probe50Validate \/ Probe50Compare \/
   Probe60Health \/ Probe60Hash \/ Probe60Marker
  BY <1>1 DEF StartRun, Finish, Probe50Validate, Probe50Compare,
     Probe60Health, Probe60Hash, Probe60Marker, Phase50Done, Phase50NotDone,
     Phase60NotDone
<1>2. CASE Run50Busy \/ Run50Read \/ Run50Verify \/ Run50Accept
  BY <1>2 DEF Run50Busy, Run50Read, Run50Verify, Run50Accept, Retrofittable
<1>3. CASE Run50Init \/ Run50Ini \/ Run50Mark
  BY <1>3 DEF Run50Init, Run50Ini, Run50Mark, Template, WriteMarker, WsoInit
<1>4. CASE Run50Patch
  BY <1>4 DEF Run50Patch, Patch, PatchLands
<1>5. CASE Run60Before
  BY <1>5 DEF Run60Before, HashCount
<1>6. CASE Run60Alive \/ Run60Busy \/ Run60Wait
  BY <1>6 DEF Run60Alive, Run60Busy, Run60Wait
<1>7. CASE Run60After \/ Run60Log
  BY <1>7 DEF Run60After, Run60Log, HashCount
<1>8. CASE Run60Start \/ Run60Accept \/ Run60Unseal \/ Run60Clear
  BY <1>8 DEF Run60Start, Run60Accept, Run60Unseal, Run60Clear, ClearMarker,
     Launch
<1>9. CASE CpReads \/ CpApplies \/ CpHasNoChanges \/ CpFails
  BY <1>9 DEF CpReads, CpApplies, CpHasNoChanges, CpFails, CpSays, Of
<1>10. CASE CpExits \/ CpDies
  BY <1>10 DEF CpExits, CpDies, CpGone, Of, Template
<1>11. CASE Abort \/ EditConfig \/ EditProfile \/ OtherStarts \/ OtherEnds
  BY <1>11 DEF Abort, EditConfig, EditProfile, OtherStarts, OtherEnds
<1>12. CASE StartByHand \/ Degrade \/ Heal \/ Becalm
  BY <1>12 DEF StartByHand, Degrade, Heal, Becalm
<1>13. CASE UNCHANGED vars
  BY <1>13 DEF vars
<1> QED
  BY <1>1, <1>2, <1>3, <1>4, <1>5, <1>6, <1>7, <1>8, <1>9, <1>10, <1>11,
     <1>12, <1>13 DEF Next, Run, Phase50, Phase60, CpDeploy, World

\* The sets and the enumerations keep their ranges.
LEMMA RangesNext ==
  ASSUME Ranges, [Next]_vars
  PROVE  Ranges'
<1> USE DEF Ranges, Go, Stop, NoRun, local, operator, files, marker, deploy,
   remote
<1>1. CASE StartRun \/ Finish \/ Probe50Validate \/ Probe50Compare \/
   Probe60Health \/ Probe60Hash \/ Probe60Marker
  BY <1>1 DEF StartRun, Finish, Probe50Validate, Probe50Compare,
     Probe60Health, Probe60Hash, Probe60Marker, Phase50Done, Phase50NotDone,
     Phase60NotDone
<1>2. CASE Run50Busy \/ Run50Read \/ Run50Verify \/ Run50Accept
  BY <1>2 DEF Run50Busy, Run50Read, Run50Verify, Run50Accept, Retrofittable
<1>3. CASE Run50Init \/ Run50Ini \/ Run50Mark
  BY <1>3 DEF Run50Init, Run50Ini, Run50Mark, Template, WriteMarker, WsoInit
<1>4. CASE Run50Patch
  BY <1>4 DEF Run50Patch, Patch, PatchLands
<1>5. CASE Run60Before
  BY <1>5 DEF Run60Before, HashCount
<1>6. CASE Run60Alive \/ Run60Busy \/ Run60Wait
  BY <1>6 DEF Run60Alive, Run60Busy, Run60Wait
<1>7. CASE Run60After \/ Run60Log
  BY <1>7 DEF Run60After, Run60Log, HashCount
<1>8. CASE Run60Start \/ Run60Accept \/ Run60Unseal \/ Run60Clear
  BY <1>8 DEF Run60Start, Run60Accept, Run60Unseal, Run60Clear, ClearMarker,
     Launch
<1>9. CASE CpReads \/ CpApplies \/ CpHasNoChanges \/ CpFails
  BY <1>9 DEF CpReads, CpApplies, CpHasNoChanges, CpFails, CpSays, Of
<1>10. CASE CpExits \/ CpDies
  BY <1>10 DEF CpExits, CpDies, CpGone, Of, Template
<1>11. CASE Abort \/ EditConfig \/ EditProfile \/ OtherStarts \/ OtherEnds
  BY <1>11 DEF Abort, EditConfig, EditProfile, OtherStarts, OtherEnds
<1>12. CASE StartByHand \/ Degrade \/ Heal \/ Becalm
  BY <1>12 DEF StartByHand, Degrade, Heal, Becalm
<1>13. CASE UNCHANGED vars
  BY <1>13 DEF vars
<1> QED
  BY <1>1, <1>2, <1>3, <1>4, <1>5, <1>6, <1>7, <1>8, <1>9, <1>10, <1>11,
     <1>12, <1>13 DEF Next, Run, Phase50, Phase60, CpDeploy, World

\* How the hash counts move.
LEMMA CountersMove ==
  ASSUME [Next]_vars
  PROVE  hashes' \in {hashes, hashes + 1} /\ before' \in {0, before, hashes}
<1> USE DEF Go, Stop, NoRun, local, operator, files, marker, deploy, remote
<1>1. CASE StartRun \/ Finish \/ Probe50Validate \/ Probe50Compare \/
   Probe60Health \/ Probe60Hash \/ Probe60Marker
  BY <1>1 DEF StartRun, Finish, Probe50Validate, Probe50Compare,
     Probe60Health, Probe60Hash, Probe60Marker, Phase50Done, Phase50NotDone,
     Phase60NotDone
<1>2. CASE Run50Busy \/ Run50Read \/ Run50Verify \/ Run50Accept
  BY <1>2 DEF Run50Busy, Run50Read, Run50Verify, Run50Accept, Retrofittable
<1>3. CASE Run50Init \/ Run50Ini \/ Run50Mark
  BY <1>3 DEF Run50Init, Run50Ini, Run50Mark, Template, WriteMarker, WsoInit
<1>4. CASE Run50Patch
  BY <1>4 DEF Run50Patch, Patch, PatchLands
<1>5. CASE Run60Before
  BY <1>5 DEF Run60Before, HashCount
<1>6. CASE Run60Alive \/ Run60Busy \/ Run60Wait
  BY <1>6 DEF Run60Alive, Run60Busy, Run60Wait
<1>7. CASE Run60After \/ Run60Log
  BY <1>7 DEF Run60After, Run60Log, HashCount
<1>8. CASE Run60Start \/ Run60Accept \/ Run60Unseal \/ Run60Clear
  BY <1>8 DEF Run60Start, Run60Accept, Run60Unseal, Run60Clear, ClearMarker,
     Launch
<1>9. CASE CpReads \/ CpApplies \/ CpHasNoChanges \/ CpFails
  BY <1>9 DEF CpReads, CpApplies, CpHasNoChanges, CpFails, CpSays, Of
<1>10. CASE CpExits \/ CpDies
  BY <1>10 DEF CpExits, CpDies, CpGone, Of, Template
<1>11. CASE Abort \/ EditConfig \/ EditProfile \/ OtherStarts \/ OtherEnds
  BY <1>11 DEF Abort, EditConfig, EditProfile, OtherStarts, OtherEnds
<1>12. CASE StartByHand \/ Degrade \/ Heal \/ Becalm
  BY <1>12 DEF StartByHand, Degrade, Heal, Becalm
<1>13. CASE UNCHANGED vars
  BY <1>13 DEF vars
<1> QED
  BY <1>1, <1>2, <1>3, <1>4, <1>5, <1>6, <1>7, <1>8, <1>9, <1>10, <1>11,
     <1>12, <1>13 DEF Next, Run, Phase50, Phase60, CpDeploy, World

\* The hash counts stay natural numbers.
LEMMA CountersNext == ASSUME Counters, [Next]_vars PROVE Counters'
BY CountersMove DEF Counters

\* The three maps of settings keep their types.
LEMMA MappingsNext ==
  ASSUME Ranges, Mappings, [Next]_vars
  PROVE  Mappings'
<1> USE DEF Ranges, Mappings, Keys, Go, Stop, NoRun, local, operator, files,
   marker, deploy, remote
<1> settings \in [Keys -> Values \cup {NoValue}]
  BY RolloutAssumption
<1>1. CASE StartRun \/ Finish \/ Probe50Validate \/ Probe50Compare \/
   Probe60Health \/ Probe60Hash \/ Probe60Marker
  BY <1>1 DEF StartRun, Finish, Probe50Validate, Probe50Compare,
     Probe60Health, Probe60Hash, Probe60Marker, Phase50Done, Phase50NotDone,
     Phase60NotDone
<1>2. CASE Run50Busy \/ Run50Read \/ Run50Verify \/ Run50Accept
  BY <1>2 DEF Run50Busy, Run50Read, Run50Verify, Run50Accept, Retrofittable
<1>3. CASE Run50Init \/ Run50Ini \/ Run50Mark
  BY <1>3 DEF Run50Init, Run50Ini, Run50Mark, Template, WriteMarker, WsoInit
<1>4. CASE Run50Patch
  BY <1>4 DEF Run50Patch, Patch, PatchLands
<1>5. CASE Run60Before
  BY <1>5 DEF Run60Before, HashCount
<1>6. CASE Run60Alive \/ Run60Busy \/ Run60Wait
  BY <1>6 DEF Run60Alive, Run60Busy, Run60Wait
<1>7. CASE Run60After \/ Run60Log
  BY <1>7 DEF Run60After, Run60Log, HashCount
<1>8. CASE Run60Start \/ Run60Accept \/ Run60Unseal \/ Run60Clear
  BY <1>8 DEF Run60Start, Run60Accept, Run60Unseal, Run60Clear, ClearMarker,
     Launch
<1>9. CASE CpReads \/ CpApplies \/ CpHasNoChanges \/ CpFails
  BY <1>9 DEF CpReads, CpApplies, CpHasNoChanges, CpFails, CpSays, Of
<1>10. CASE CpExits \/ CpDies
  BY <1>10 DEF CpExits, CpDies, CpGone, Of, Template
<1>11. CASE Abort \/ EditConfig \/ EditProfile \/ OtherStarts \/ OtherEnds
  BY <1>11 DEF Abort, EditConfig, EditProfile, OtherStarts, OtherEnds
<1>12. CASE StartByHand \/ Degrade \/ Heal \/ Becalm
  BY <1>12 DEF StartByHand, Degrade, Heal, Becalm
<1>13. CASE UNCHANGED vars
  BY <1>13 DEF vars
<1> QED
  BY <1>1, <1>2, <1>3, <1>4, <1>5, <1>6, <1>7, <1>8, <1>9, <1>10, <1>11,
     <1>12, <1>13 DEF Next, Run, Phase50, Phase60, CpDeploy, World

\* The types are inductive.
LEMMA TypeNext == TypeOK /\ [Next]_vars => TypeOK'
BY PointsNext, FlagsNext, RangesNext, CountersNext, MappingsNext DEF TypeOK

\* The variables always have their types.
THEOREM TypeCorrect == Spec => []TypeOK
BY TypeInit, TypeNext, PTL DEF Spec

-----------------------------------------------------------------------------
(* What the theorems assume, each what it needs: that a call whose silence  *)
(* the code takes for an answer does answer, that a launch is answered, and *)
(* that every `wso cp deploy` is started by aXs.                            *)

BusyAnswered      == "busy" \notin Faulty
HashCountAnswered == "hash_count" \notin Faulty
StartAnswered     == "start" \notin Faulty
LastHashAnswered  == "last_hash" \notin Faulty

-----------------------------------------------------------------------------
(* Each part is kept by every step.                                        *)

-----------------------------------------------------------------------------
(* The inductive invariant, in the order its parts rest on each other.     *)

Writing  == {"50.init", "50.ini", "50.read", "50.mark", "50.patch"}
Phase60s == {"60.health", "60.hash", "60.marker", "60.before", "60.alive",
             "60.busy", "60.start", "60.wait", "60.after", "60.log",
             "60.accept", "60.unseal", "60.clear", "complete"}

\* profile.yml is wso's template until there is an inventory, and phase 50
\* makes one before it patches.
IniFirst ==
  /\ ini = "absent" => profile = Template
  /\ pc \in Writing \ {"50.init"} => ini # "absent"

\* Phase 60 starts a deploy after it has seen that none is running, and nobody
\* else starts one before the run ends.
StartsAlone == pc \in {"60.busy", "60.start"} => proc = "none"

\* Phase 50 passed its busy check, and nothing starts a deploy before it ends.
NoDeployUnderWrite == pc \in Writing => proc = "none"

\* A deploy read the profile.yml that is still there.
SnapIsCurrent == proc = "applying" => snap = Of(profile)

\* The newest segment of the log is one of the deploy that runs, and a deploy
\* that found nothing to do found everything rolled out.
SegmentIsItsOwn ==
  logs /\ (proc # "none" /\ segment = "no changes" => Owed = {})

\* So does the segment a run of phase 60 has waited for.
NoChangesMeansRolled ==
  pc \in {"60.wait", "60.after", "60.log"} /\ segment = "no changes"
    => Owed = {}

\* A hash that was not there before phase 60 is one of this profile.yml.
NewHashMeansRolled ==
  pc \in {"60.alive", "60.busy", "60.start", "60.wait", "60.after"} =>
    before <= hashes /\ (before < hashes => Owed = {})

\* What phase 60 has accepted is rolled out.
AcceptedMeansRolled ==
  pc \in {"60.accept", "60.unseal", "60.clear"} => Owed = {}

\* Phase 50 reaches the patch with the marker written, or with nothing in it
\* for a re-run to apply.
PatchIsAnnounced ==
  pc = "50.patch" =>
    \/ marked
    \/ \A k \in Scalars : settings[k] = NoValue \/ settings[k] = profile[k]

\* Past phase 50 the file carries what the run loaded, unless the run warned.
FileMatches ==
  pc \in Phase60s =>
    \/ warned
    \/ \A k \in Scalars : settings[k] = NoValue \/ settings[k] = profile[k]

\* A run ends green with the marker gone, unless it warned.
GreenIsUnmarked == pc = "complete" => warned \/ ~marked

\* Phase 60 asks for the marker once it has seen a folder hash.
HashBeforeGreen == pc \in {"60.marker", "complete"} => hashes > 0

\* An inventory comes before the first patch.
LEMMA IniFirstNext ==
  ASSUME IniFirst, [Next]_vars
  PROVE  IniFirst'
<1> USE DEF IniFirst, Writing, Go, Stop, NoRun, local, operator, files,
   marker, deploy, remote
<1>1. CASE StartRun \/ Finish \/ Probe50Validate \/ Probe50Compare \/
   Probe60Health \/ Probe60Hash \/ Probe60Marker
  BY <1>1 DEF StartRun, Finish, Probe50Validate, Probe50Compare,
     Probe60Health, Probe60Hash, Probe60Marker, Phase50Done, Phase50NotDone,
     Phase60NotDone
<1>2. CASE Run50Busy \/ Run50Read \/ Run50Verify \/ Run50Accept
  BY <1>2 DEF Run50Busy, Run50Read, Run50Verify, Run50Accept, Retrofittable
<1>3. CASE Run50Init \/ Run50Ini \/ Run50Mark
  BY <1>3 DEF Run50Init, Run50Ini, Run50Mark, Template, WriteMarker, WsoInit
<1>4. CASE Run50Patch
  BY <1>4 DEF Run50Patch, Patch, PatchLands
<1>5. CASE Run60Before
  BY <1>5 DEF Run60Before, HashCount
<1>6. CASE Run60Alive \/ Run60Busy \/ Run60Wait
  BY <1>6 DEF Run60Alive, Run60Busy, Run60Wait
<1>7. CASE Run60After \/ Run60Log
  BY <1>7 DEF Run60After, Run60Log, HashCount
<1>8. CASE Run60Start \/ Run60Accept \/ Run60Unseal \/ Run60Clear
  BY <1>8 DEF Run60Start, Run60Accept, Run60Unseal, Run60Clear, ClearMarker,
     Launch
<1>9. CASE CpReads \/ CpApplies \/ CpHasNoChanges \/ CpFails
  BY <1>9 DEF CpReads, CpApplies, CpHasNoChanges, CpFails, CpSays, Of
<1>10. CASE CpExits \/ CpDies
  BY <1>10 DEF CpExits, CpDies, CpGone, Of, Template
<1>11. CASE Abort \/ EditConfig \/ EditProfile \/ OtherStarts \/ OtherEnds
  BY <1>11 DEF Abort, EditConfig, EditProfile, OtherStarts, OtherEnds
<1>12. CASE StartByHand \/ Degrade \/ Heal \/ Becalm
  BY <1>12 DEF StartByHand, Degrade, Heal, Becalm
<1>13. CASE UNCHANGED vars
  BY <1>13 DEF vars
<1> QED
  BY <1>1, <1>2, <1>3, <1>4, <1>5, <1>6, <1>7, <1>8, <1>9, <1>10, <1>11,
     <1>12, <1>13 DEF Next, Run, Phase50, Phase60, CpDeploy, World

\* Nothing starts a deploy between the check of phase 60 and its start.
LEMMA StartsAloneNext ==
  ASSUME StartsAlone, [Next]_vars
  PROVE  StartsAlone'
<1> USE DEF StartsAlone, Go, Stop, NoRun, local, operator, files, marker,
   deploy, remote
<1>1. CASE StartRun \/ Finish \/ Probe50Validate \/ Probe50Compare \/
   Probe60Health \/ Probe60Hash \/ Probe60Marker
  BY <1>1 DEF StartRun, Finish, Probe50Validate, Probe50Compare,
     Probe60Health, Probe60Hash, Probe60Marker, Phase50Done, Phase50NotDone,
     Phase60NotDone
<1>2. CASE Run50Busy \/ Run50Read \/ Run50Verify \/ Run50Accept
  BY <1>2 DEF Run50Busy, Run50Read, Run50Verify, Run50Accept, Retrofittable
<1>3. CASE Run50Init \/ Run50Ini \/ Run50Mark
  BY <1>3 DEF Run50Init, Run50Ini, Run50Mark, Template, WriteMarker, WsoInit
<1>4. CASE Run50Patch
  BY <1>4 DEF Run50Patch, Patch, PatchLands
<1>5. CASE Run60Before
  BY <1>5 DEF Run60Before, HashCount
<1>6. CASE Run60Alive \/ Run60Busy \/ Run60Wait
  BY <1>6 DEF Run60Alive, Run60Busy, Run60Wait, Alive, Busy
<1>7. CASE Run60After \/ Run60Log
  BY <1>7 DEF Run60After, Run60Log, HashCount
<1>8. CASE Run60Start \/ Run60Accept \/ Run60Unseal \/ Run60Clear
  BY <1>8 DEF Run60Start, Run60Accept, Run60Unseal, Run60Clear, ClearMarker,
     Launch
<1>9. CASE CpReads \/ CpApplies \/ CpHasNoChanges \/ CpFails
  BY <1>9 DEF CpReads, CpApplies, CpHasNoChanges, CpFails, CpSays, Of
<1>10. CASE CpExits \/ CpDies
  BY <1>10 DEF CpExits, CpDies, CpGone, Of, Template
<1>11. CASE Abort \/ EditConfig \/ EditProfile \/ OtherStarts \/ OtherEnds
  BY <1>11 DEF Abort, EditConfig, EditProfile, OtherStarts, OtherEnds
<1>12. CASE StartByHand \/ Degrade \/ Heal \/ Becalm
  BY <1>12 DEF StartByHand, Degrade, Heal, Becalm
<1>13. CASE UNCHANGED vars
  BY <1>13 DEF vars
<1> QED
  BY <1>1, <1>2, <1>3, <1>4, <1>5, <1>6, <1>7, <1>8, <1>9, <1>10, <1>11,
     <1>12, <1>13 DEF Next, Run, Phase50, Phase60, CpDeploy, World

\* A launch that is answered makes one deploy, and none was there.
LEMMA NoSecondDeployNext ==
  ASSUME StartAnswered, StartsAlone, NoSecondDeploy, [Next]_vars
  PROVE  NoSecondDeploy'
<1> USE DEF NoSecondDeploy, StartsAlone, Go, Stop, NoRun, local, operator,
   files, marker, deploy, remote
<1>1. CASE StartRun \/ Finish \/ Probe50Validate \/ Probe50Compare \/
   Probe60Health \/ Probe60Hash \/ Probe60Marker
  BY <1>1 DEF StartRun, Finish, Probe50Validate, Probe50Compare,
     Probe60Health, Probe60Hash, Probe60Marker, Phase50Done, Phase50NotDone,
     Phase60NotDone
<1>2. CASE Run50Busy \/ Run50Read \/ Run50Verify \/ Run50Accept
  BY <1>2 DEF Run50Busy, Run50Read, Run50Verify, Run50Accept, Retrofittable
<1>3. CASE Run50Init \/ Run50Ini \/ Run50Mark
  BY <1>3 DEF Run50Init, Run50Ini, Run50Mark, Template, WriteMarker, WsoInit
<1>4. CASE Run50Patch
  BY <1>4 DEF Run50Patch, Patch, PatchLands
<1>5. CASE Run60Before
  BY <1>5 DEF Run60Before, HashCount
<1>6. CASE Run60Alive \/ Run60Busy \/ Run60Wait
  BY <1>6 DEF Run60Alive, Run60Busy, Run60Wait
<1>7. CASE Run60After \/ Run60Log
  BY <1>7 DEF Run60After, Run60Log, HashCount
<1>8. CASE Run60Accept \/ Run60Unseal \/ Run60Clear
  BY <1>8 DEF Run60Accept, Run60Unseal, Run60Clear, ClearMarker
<1>9. CASE CpReads \/ CpApplies \/ CpHasNoChanges \/ CpFails
  BY <1>9 DEF CpReads, CpApplies, CpHasNoChanges, CpFails, CpSays, Of
<1>10. CASE CpExits \/ CpDies
  BY <1>10 DEF CpExits, CpDies, CpGone, Of, Template
<1>11. CASE Abort \/ EditConfig \/ EditProfile \/ OtherStarts \/ OtherEnds
  BY <1>11 DEF Abort, EditConfig, EditProfile, OtherStarts, OtherEnds
<1>12. CASE StartByHand \/ Degrade \/ Heal \/ Becalm
  BY <1>12 DEF StartByHand, Degrade, Heal, Becalm
<1>13. CASE Run60Start
  <2>1. Launch(1)
    BY <1>13 DEF Run60Start, Silent, StartAnswered
  <2>2. proc = "none" /\ ~(1 > 1)
    BY <1>13 DEF Run60Start
  <2> QED
    BY <2>1, <2>2, Zenon DEF Launch
<1>14. CASE UNCHANGED vars
  BY <1>14 DEF vars
<1> QED
  BY <1>1, <1>2, <1>3, <1>4, <1>5, <1>6, <1>7, <1>8, <1>9, <1>10, <1>11,
     <1>12, <1>13, <1>14 DEF Next, Run, Phase50, Phase60, CpDeploy, World

\* No deploy runs while phase 50 writes.
LEMMA NoDeployUnderWriteNext ==
  ASSUME BusyAnswered, NoDeployUnderWrite, [Next]_vars
  PROVE  NoDeployUnderWrite'
<1> USE DEF NoDeployUnderWrite, Writing, Go, Stop, NoRun, local, operator,
   files, marker, deploy, remote
<1>1. CASE StartRun \/ Finish \/ Probe50Validate \/ Probe50Compare \/
   Probe60Health \/ Probe60Hash \/ Probe60Marker
  BY <1>1 DEF StartRun, Finish, Probe50Validate, Probe50Compare,
     Probe60Health, Probe60Hash, Probe60Marker, Phase50Done, Phase50NotDone,
     Phase60NotDone
<1>2. CASE Run50Busy \/ Run50Read \/ Run50Verify \/ Run50Accept
  BY <1>2 DEF Run50Busy, Run50Read, Run50Verify, Run50Accept, Alive, Busy,
     BusyAnswered, Retrofittable, Silent
<1>3. CASE Run50Init \/ Run50Ini \/ Run50Mark
  BY <1>3 DEF Run50Init, Run50Ini, Run50Mark, Template, WriteMarker, WsoInit
<1>4. CASE Run50Patch
  BY <1>4 DEF Run50Patch, Patch, PatchLands
<1>5. CASE Run60Before
  BY <1>5 DEF Run60Before, HashCount
<1>6. CASE Run60Alive \/ Run60Busy \/ Run60Wait
  BY <1>6 DEF Run60Alive, Run60Busy, Run60Wait
<1>7. CASE Run60After \/ Run60Log
  BY <1>7 DEF Run60After, Run60Log, HashCount
<1>8. CASE Run60Start \/ Run60Accept \/ Run60Unseal \/ Run60Clear
  BY <1>8 DEF Run60Start, Run60Accept, Run60Unseal, Run60Clear, ClearMarker,
     Launch
<1>9. CASE CpReads \/ CpApplies \/ CpHasNoChanges \/ CpFails
  BY <1>9 DEF CpReads, CpApplies, CpHasNoChanges, CpFails, CpSays, Of
<1>10. CASE CpExits \/ CpDies
  BY <1>10 DEF CpExits, CpDies, CpGone, Of, Template
<1>11. CASE Abort \/ EditConfig \/ EditProfile \/ OtherStarts \/ OtherEnds
  BY <1>11 DEF Abort, EditConfig, EditProfile, OtherStarts, OtherEnds
<1>12. CASE StartByHand \/ Degrade \/ Heal \/ Becalm
  BY <1>12 DEF StartByHand, Degrade, Heal, Becalm
<1>13. CASE UNCHANGED vars
  BY <1>13 DEF vars
<1> QED
  BY <1>1, <1>2, <1>3, <1>4, <1>5, <1>6, <1>7, <1>8, <1>9, <1>10, <1>11,
     <1>12, <1>13 DEF Next, Run, Phase50, Phase60, CpDeploy, World

\* A deploy keeps to the profile.yml that is there.
LEMMA SnapIsCurrentNext ==
  ASSUME BusyAnswered, IniFirst, NoDeployUnderWrite, SnapIsCurrent,
     [Next]_vars
  PROVE  SnapIsCurrent'
<1> USE DEF SnapIsCurrent, IniFirst, NoDeployUnderWrite, Writing, Go, Stop,
   NoRun, local, operator, files, marker, deploy, remote
<1>1. CASE StartRun \/ Finish \/ Probe50Validate \/ Probe50Compare \/
   Probe60Health \/ Probe60Hash \/ Probe60Marker
  BY <1>1 DEF StartRun, Finish, Probe50Validate, Probe50Compare,
     Probe60Health, Probe60Hash, Probe60Marker, Phase50Done, Phase50NotDone,
     Phase60NotDone
<1>2. CASE Run50Busy \/ Run50Read \/ Run50Verify \/ Run50Accept
  BY <1>2 DEF Run50Busy, Run50Read, Run50Verify, Run50Accept, Retrofittable
<1>3. CASE Run50Init \/ Run50Ini \/ Run50Mark
  BY <1>3 DEF Run50Init, Run50Ini, Run50Mark, Template, WriteMarker, WsoInit
<1>4. CASE Run50Patch
  BY <1>4 DEF Run50Patch, Patch, PatchLands
<1>5. CASE Run60Before
  BY <1>5 DEF Run60Before, HashCount
<1>6. CASE Run60Alive \/ Run60Busy \/ Run60Wait
  BY <1>6 DEF Run60Alive, Run60Busy, Run60Wait
<1>7. CASE Run60After \/ Run60Log
  BY <1>7 DEF Run60After, Run60Log, HashCount
<1>8. CASE Run60Start \/ Run60Accept \/ Run60Unseal \/ Run60Clear
  BY <1>8 DEF Run60Start, Run60Accept, Run60Unseal, Run60Clear, ClearMarker,
     Launch
<1>9. CASE CpReads \/ CpApplies \/ CpHasNoChanges \/ CpFails
  BY <1>9 DEF CpReads, CpApplies, CpHasNoChanges, CpFails, CpSays, Of
<1>10. CASE CpExits \/ CpDies
  BY <1>10 DEF CpExits, CpDies, CpGone, Of, Template
<1>11. CASE Abort \/ EditConfig \/ EditProfile \/ OtherStarts \/ OtherEnds
  BY <1>11 DEF Abort, EditConfig, EditProfile, OtherStarts, OtherEnds
<1>12. CASE StartByHand \/ Degrade \/ Heal \/ Becalm
  BY <1>12 DEF StartByHand, Degrade, Heal, Becalm
<1>13. CASE UNCHANGED vars
  BY <1>13 DEF vars
<1> QED
  BY <1>1, <1>2, <1>3, <1>4, <1>5, <1>6, <1>7, <1>8, <1>9, <1>10, <1>11,
     <1>12, <1>13 DEF Next, Run, Phase50, Phase60, CpDeploy, World

\* The newest segment belongs to the deploy that runs.
LEMMA SegmentIsItsOwnNext ==
  ASSUME ~ByHand, Mappings, IniFirst, NoDeployUnderWrite, SnapIsCurrent,
     SegmentIsItsOwn, [Next]_vars
  PROVE  SegmentIsItsOwn'
<1> USE DEF SegmentIsItsOwn, SnapIsCurrent, IniFirst, NoDeployUnderWrite,
   Writing, Owed, Of, Go, Stop, NoRun, local, operator, files, marker,
   deploy, remote
<1>1. CASE StartRun \/ Finish \/ Probe50Validate \/ Probe50Compare \/
   Probe60Health \/ Probe60Hash \/ Probe60Marker
  BY <1>1 DEF StartRun, Finish, Probe50Validate, Probe50Compare,
     Probe60Health, Probe60Hash, Probe60Marker, Phase50Done, Phase50NotDone,
     Phase60NotDone
<1>2. CASE Run50Busy \/ Run50Read \/ Run50Verify \/ Run50Accept
  BY <1>2 DEF Run50Busy, Run50Read, Run50Verify, Run50Accept, Retrofittable
<1>3. CASE Run50Init \/ Run50Ini \/ Run50Mark
  BY <1>3 DEF Run50Init, Run50Ini, Run50Mark, Template, WriteMarker, WsoInit
<1>4. CASE Run50Patch
  BY <1>4 DEF Run50Patch, Patch, PatchLands
<1>5. CASE Run60Before
  BY <1>5 DEF Run60Before, HashCount
<1>6. CASE Run60Alive \/ Run60Busy \/ Run60Wait
  BY <1>6 DEF Run60Alive, Run60Busy, Run60Wait
<1>7. CASE Run60After \/ Run60Log
  BY <1>7 DEF Run60After, Run60Log, HashCount
<1>8. CASE Run60Start \/ Run60Accept \/ Run60Unseal \/ Run60Clear
  BY <1>8 DEF Run60Start, Run60Accept, Run60Unseal, Run60Clear, ClearMarker,
     Launch
<1>9. CASE CpReads \/ CpApplies \/ CpHasNoChanges \/ CpFails
  BY <1>9 DEF CpReads, CpApplies, CpHasNoChanges, CpFails, CpSays
<1>10. CASE CpExits \/ CpDies
  BY <1>10 DEF CpExits, CpDies, CpGone, Template
<1>11. CASE Abort \/ EditConfig \/ EditProfile \/ OtherStarts \/ OtherEnds
  BY <1>11 DEF Abort, EditConfig, EditProfile, OtherStarts, OtherEnds
<1>12. CASE StartByHand \/ Degrade \/ Heal \/ Becalm
  BY <1>12 DEF StartByHand, Degrade, Heal, Becalm
<1>13. CASE UNCHANGED vars
  BY <1>13 DEF vars
<1> QED
  BY <1>1, <1>2, <1>3, <1>4, <1>5, <1>6, <1>7, <1>8, <1>9, <1>10, <1>11,
     <1>12, <1>13 DEF Next, Run, Phase50, Phase60, CpDeploy, World

\* What phase 60 waited for is judged by its own segment.
LEMMA NoChangesMeansRolledNext ==
  ASSUME SegmentIsItsOwn, SnapIsCurrent, NoChangesMeansRolled, [Next]_vars
  PROVE  NoChangesMeansRolled'
<1> USE DEF NoChangesMeansRolled, SegmentIsItsOwn, SnapIsCurrent, Owed, Of,
   Go, Stop, NoRun, local, operator, files, marker, deploy, remote
<1>1. CASE StartRun \/ Finish \/ Probe50Validate \/ Probe50Compare \/
   Probe60Health \/ Probe60Hash \/ Probe60Marker
  BY <1>1 DEF StartRun, Finish, Probe50Validate, Probe50Compare,
     Probe60Health, Probe60Hash, Probe60Marker, Phase50Done, Phase50NotDone,
     Phase60NotDone
<1>2. CASE Run50Busy \/ Run50Read \/ Run50Verify \/ Run50Accept
  BY <1>2 DEF Run50Busy, Run50Read, Run50Verify, Run50Accept, Retrofittable
<1>3. CASE Run50Init \/ Run50Ini \/ Run50Mark
  BY <1>3 DEF Run50Init, Run50Ini, Run50Mark, Template, WriteMarker, WsoInit
<1>4. CASE Run50Patch
  BY <1>4 DEF Run50Patch, Patch, PatchLands
<1>5. CASE Run60Before
  BY <1>5 DEF Run60Before, HashCount
<1>6. CASE Run60Alive \/ Run60Busy \/ Run60Wait
  BY <1>6 DEF Run60Alive, Run60Busy, Run60Wait, Alive
<1>7. CASE Run60After \/ Run60Log
  BY <1>7 DEF Run60After, Run60Log, HashCount
<1>8. CASE Run60Start \/ Run60Accept \/ Run60Unseal \/ Run60Clear
  BY <1>8 DEF Run60Start, Run60Accept, Run60Unseal, Run60Clear, ClearMarker,
     Launch
<1>9. CASE CpReads \/ CpApplies \/ CpHasNoChanges \/ CpFails
  BY <1>9 DEF CpReads, CpApplies, CpHasNoChanges, CpFails, CpSays
<1>10. CASE CpExits \/ CpDies
  BY <1>10 DEF CpExits, CpDies, CpGone, Template
<1>11. CASE Abort \/ EditConfig \/ EditProfile \/ OtherStarts \/ OtherEnds
  BY <1>11 DEF Abort, EditConfig, EditProfile, OtherStarts, OtherEnds
<1>12. CASE StartByHand \/ Degrade \/ Heal \/ Becalm
  BY <1>12 DEF StartByHand, Degrade, Heal, Becalm
<1>13. CASE UNCHANGED vars
  BY <1>13 DEF vars
<1> QED
  BY <1>1, <1>2, <1>3, <1>4, <1>5, <1>6, <1>7, <1>8, <1>9, <1>10, <1>11,
     <1>12, <1>13 DEF Next, Run, Phase50, Phase60, CpDeploy, World

\* A new hash is a hash of this profile.yml.
LEMMA NewHashMeansRolledNext ==
  ASSUME HashCountAnswered, Counters, SnapIsCurrent, NewHashMeansRolled,
     [Next]_vars
  PROVE  NewHashMeansRolled'
<1> USE DEF NewHashMeansRolled, Counters, SnapIsCurrent, Owed, Of, Go, Stop,
   NoRun, local, operator, files, marker, deploy, remote
<1>1. CASE StartRun \/ Finish \/ Probe50Validate \/ Probe50Compare \/
   Probe60Health \/ Probe60Hash \/ Probe60Marker
  BY <1>1 DEF StartRun, Finish, Probe50Validate, Probe50Compare,
     Probe60Health, Probe60Hash, Probe60Marker, Phase50Done, Phase50NotDone,
     Phase60NotDone
<1>2. CASE Run50Busy \/ Run50Read \/ Run50Verify \/ Run50Accept
  BY <1>2 DEF Run50Busy, Run50Read, Run50Verify, Run50Accept, Retrofittable
<1>3. CASE Run50Init \/ Run50Ini \/ Run50Mark
  BY <1>3 DEF Run50Init, Run50Ini, Run50Mark, Template, WriteMarker, WsoInit
<1>4. CASE Run50Patch
  BY <1>4 DEF Run50Patch, Patch, PatchLands
<1>5. CASE Run60Before
  BY <1>5 DEF Run60Before, HashCount, HashCountAnswered, Silent
<1>6. CASE Run60Alive \/ Run60Busy \/ Run60Wait
  BY <1>6 DEF Run60Alive, Run60Busy, Run60Wait
<1>7. CASE Run60After \/ Run60Log
  BY <1>7 DEF Run60After, Run60Log, HashCount
<1>8. CASE Run60Start \/ Run60Accept \/ Run60Unseal \/ Run60Clear
  BY <1>8 DEF Run60Start, Run60Accept, Run60Unseal, Run60Clear, ClearMarker,
     Launch
<1>9. CASE CpExits \/ CpDies
  BY <1>9 DEF CpExits, CpDies, CpGone, Template
<1>10. CASE Abort \/ EditConfig \/ EditProfile \/ OtherStarts \/ OtherEnds
  BY <1>10 DEF Abort, EditConfig, EditProfile, OtherStarts, OtherEnds
<1>11. CASE StartByHand \/ Degrade \/ Heal \/ Becalm
  BY <1>11 DEF StartByHand, Degrade, Heal, Becalm
<1>12. CASE CpReads \/ CpHasNoChanges \/ CpFails
  BY <1>12 DEF CpReads, CpHasNoChanges, CpFails, CpSays
<1>13. CASE CpApplies
  BY <1>13 DEF CpApplies, CpSays
<1>14. CASE UNCHANGED vars
  BY <1>14 DEF vars
<1> QED
  BY <1>1, <1>2, <1>3, <1>4, <1>5, <1>6, <1>7, <1>8, <1>9, <1>10, <1>11,
     <1>12, <1>13, <1>14 DEF Next, Run, Phase50, Phase60, CpDeploy, World

\* Phase 60 accepts a new hash or a segment without changes, and both mean
\* rolled out.
LEMMA AcceptedMeansRolledNext ==
  ASSUME HashCountAnswered, Counters, SnapIsCurrent, NoChangesMeansRolled,
     NewHashMeansRolled, AcceptedMeansRolled, [Next]_vars
  PROVE  AcceptedMeansRolled'
<1> USE DEF AcceptedMeansRolled, NoChangesMeansRolled, NewHashMeansRolled,
   SnapIsCurrent, Owed, Of, Go, Stop, NoRun, local, operator, files, marker,
   deploy, remote
<1>1. CASE StartRun \/ Finish \/ Probe50Validate \/ Probe50Compare \/
   Probe60Health \/ Probe60Hash \/ Probe60Marker
  BY <1>1 DEF StartRun, Finish, Probe50Validate, Probe50Compare,
     Probe60Health, Probe60Hash, Probe60Marker, Phase50Done, Phase50NotDone,
     Phase60NotDone
<1>2. CASE Run50Busy \/ Run50Read \/ Run50Verify \/ Run50Accept
  BY <1>2 DEF Run50Busy, Run50Read, Run50Verify, Run50Accept, Retrofittable
<1>3. CASE Run50Init \/ Run50Ini \/ Run50Mark
  BY <1>3 DEF Run50Init, Run50Ini, Run50Mark, Template, WriteMarker, WsoInit
<1>4. CASE Run50Patch
  BY <1>4 DEF Run50Patch, Patch, PatchLands
<1>5. CASE Run60Before
  BY <1>5 DEF Run60Before, HashCount
<1>6. CASE Run60Alive \/ Run60Busy \/ Run60Wait
  BY <1>6 DEF Run60Alive, Run60Busy, Run60Wait
<1>7. CASE Run60After \/ Run60Log
  BY <1>7 DEF Run60After, Run60Log, HashCount, HashCountAnswered, Silent
<1>8. CASE Run60Start \/ Run60Accept \/ Run60Unseal \/ Run60Clear
  BY <1>8 DEF Run60Start, Run60Accept, Run60Unseal, Run60Clear, ClearMarker,
     Launch
<1>9. CASE CpReads \/ CpApplies \/ CpHasNoChanges \/ CpFails
  BY <1>9 DEF CpReads, CpApplies, CpHasNoChanges, CpFails, CpSays
<1>10. CASE CpExits \/ CpDies
  BY <1>10 DEF CpExits, CpDies, CpGone, Template
<1>11. CASE Abort \/ EditConfig \/ EditProfile \/ OtherStarts \/ OtherEnds
  BY <1>11 DEF Abort, EditConfig, EditProfile, OtherStarts, OtherEnds
<1>12. CASE StartByHand \/ Degrade \/ Heal \/ Becalm
  BY <1>12 DEF StartByHand, Degrade, Heal, Becalm
<1>13. CASE UNCHANGED vars
  BY <1>13 DEF vars
<1> QED
  BY <1>1, <1>2, <1>3, <1>4, <1>5, <1>6, <1>7, <1>8, <1>9, <1>10, <1>11,
     <1>12, <1>13 DEF Next, Run, Phase50, Phase60, CpDeploy, World

\* The marker is written before the patch, if there is anything to announce.
LEMMA PatchIsAnnouncedNext ==
  ASSUME PatchIsAnnounced, [Next]_vars
  PROVE  PatchIsAnnounced'
<1> USE DEF PatchIsAnnounced, Go, Stop, NoRun, local, operator, files,
   marker, deploy, remote
<1>1. CASE StartRun \/ Finish \/ Probe50Validate \/ Probe50Compare \/
   Probe60Health \/ Probe60Hash \/ Probe60Marker
  BY <1>1 DEF StartRun, Finish, Probe50Validate, Probe50Compare,
     Probe60Health, Probe60Hash, Probe60Marker, Phase50Done, Phase50NotDone,
     Phase60NotDone
<1>2. CASE Run50Busy \/ Run50Read \/ Run50Verify \/ Run50Accept
  BY <1>2 DEF Run50Busy, Run50Read, Run50Verify, Run50Accept, ActionableKeys,
     Keys, Retrofittable
<1>3. CASE Run50Init \/ Run50Ini \/ Run50Mark
  BY <1>3 DEF Run50Init, Run50Ini, Run50Mark, Template, WriteMarker, WsoInit
<1>4. CASE Run50Patch
  BY <1>4 DEF Run50Patch, Patch, PatchLands
<1>5. CASE Run60Before
  BY <1>5 DEF Run60Before, HashCount
<1>6. CASE Run60Alive \/ Run60Busy \/ Run60Wait
  BY <1>6 DEF Run60Alive, Run60Busy, Run60Wait
<1>7. CASE Run60After \/ Run60Log
  BY <1>7 DEF Run60After, Run60Log, HashCount
<1>8. CASE Run60Start \/ Run60Accept \/ Run60Unseal \/ Run60Clear
  BY <1>8 DEF Run60Start, Run60Accept, Run60Unseal, Run60Clear, ClearMarker,
     Launch
<1>9. CASE CpReads \/ CpApplies \/ CpHasNoChanges \/ CpFails
  BY <1>9 DEF CpReads, CpApplies, CpHasNoChanges, CpFails, CpSays, Of
<1>10. CASE CpExits \/ CpDies
  BY <1>10 DEF CpExits, CpDies, CpGone, Of, Template
<1>11. CASE Abort \/ EditConfig \/ EditProfile \/ OtherStarts \/ OtherEnds
  BY <1>11 DEF Abort, EditConfig, EditProfile, OtherStarts, OtherEnds
<1>12. CASE StartByHand \/ Degrade \/ Heal \/ Becalm
  BY <1>12 DEF StartByHand, Degrade, Heal, Becalm
<1>13. CASE UNCHANGED vars
  BY <1>13 DEF vars
<1> QED
  BY <1>1, <1>2, <1>3, <1>4, <1>5, <1>6, <1>7, <1>8, <1>9, <1>10, <1>11,
     <1>12, <1>13 DEF Next, Run, Phase50, Phase60, CpDeploy, World

\* A step loses no rollout.
LEMMA RolloutNotForgottenNext ==
  ASSUME Mappings, IniFirst, SnapIsCurrent, AcceptedMeansRolled,
     PatchIsAnnounced, RolloutNotForgotten, [Next]_vars
  PROVE  RolloutNotForgotten'
<1> USE DEF Mappings, Keys, RolloutNotForgotten, IniFirst, SnapIsCurrent,
   AcceptedMeansRolled, PatchIsAnnounced, Writing, Owed, Of, Go, Stop, NoRun,
   local, operator, files, marker, deploy, remote
<1>1. CASE StartRun \/ Finish \/ Probe50Validate \/ Probe50Compare \/
   Probe60Health \/ Probe60Hash \/ Probe60Marker
  BY <1>1 DEF StartRun, Finish, Probe50Validate, Probe50Compare,
     Probe60Health, Probe60Hash, Probe60Marker, Phase50Done, Phase50NotDone,
     Phase60NotDone
<1>2. CASE Run50Busy \/ Run50Read \/ Run50Verify \/ Run50Accept
  BY <1>2 DEF Run50Busy, Run50Read, Run50Verify, Run50Accept, Retrofittable
<1>3. CASE Run50Init \/ Run50Ini \/ Run50Mark
  BY <1>3 DEF Run50Init, Run50Ini, Run50Mark, Template, WriteMarker, WsoInit
<1>4. CASE Run50Patch
  BY <1>4 DEF Run50Patch, Patch, PatchLands
<1>5. CASE Run60Before
  BY <1>5 DEF Run60Before, HashCount
<1>6. CASE Run60Alive \/ Run60Busy \/ Run60Wait
  BY <1>6 DEF Run60Alive, Run60Busy, Run60Wait
<1>7. CASE Run60After \/ Run60Log
  BY <1>7 DEF Run60After, Run60Log, HashCount
<1>8. CASE Run60Start \/ Run60Accept \/ Run60Unseal \/ Run60Clear
  BY <1>8 DEF Run60Start, Run60Accept, Run60Unseal, Run60Clear, ClearMarker,
     Launch
<1>9. CASE CpReads \/ CpApplies \/ CpHasNoChanges \/ CpFails
  BY <1>9 DEF CpReads, CpApplies, CpHasNoChanges, CpFails, CpSays
<1>10. CASE CpExits \/ CpDies
  BY <1>10 DEF CpExits, CpDies, CpGone, Template
<1>11. CASE Abort \/ EditConfig \/ EditProfile \/ OtherStarts \/ OtherEnds
  BY <1>11 DEF Abort, EditConfig, EditProfile, OtherStarts, OtherEnds
<1>12. CASE StartByHand \/ Degrade \/ Heal \/ Becalm
  BY <1>12 DEF StartByHand, Degrade, Heal, Becalm
<1>13. CASE UNCHANGED vars
  BY <1>13 DEF vars
<1> QED
  BY <1>1, <1>2, <1>3, <1>4, <1>5, <1>6, <1>7, <1>8, <1>9, <1>10, <1>11,
     <1>12, <1>13 DEF Next, Run, Phase50, Phase60, CpDeploy, World

\* Phase 50 is done once the file carries what the run loaded.
LEMMA FileMatchesNext ==
  ASSUME FileMatches, [Next]_vars
  PROVE  FileMatches'
<1> USE DEF FileMatches, Phase60s, Go, Stop, NoRun, local, operator, files,
   marker, deploy, remote
<1>1. CASE StartRun \/ Finish \/ Probe50Validate \/ Probe50Compare \/
   Probe60Health \/ Probe60Hash \/ Probe60Marker
  BY <1>1 DEF StartRun, Finish, Probe50Validate, Probe50Compare,
     Probe60Health, Probe60Hash, Probe60Marker, ActionableKeys, IsConfigured,
     Keys, Phase50Done, Phase50NotDone, Phase60NotDone, Retrofittable
<1>2. CASE Run50Busy \/ Run50Read \/ Run50Verify \/ Run50Accept
  BY <1>2 DEF Run50Busy, Run50Read, Run50Verify, Run50Accept, Retrofittable
<1>3. CASE Run50Init \/ Run50Ini \/ Run50Mark
  BY <1>3 DEF Run50Init, Run50Ini, Run50Mark, Template, WriteMarker, WsoInit
<1>4. CASE Run50Patch
  BY <1>4 DEF Run50Patch, Patch, PatchLands
<1>5. CASE Run60Before
  BY <1>5 DEF Run60Before, HashCount
<1>6. CASE Run60Alive \/ Run60Busy \/ Run60Wait
  BY <1>6 DEF Run60Alive, Run60Busy, Run60Wait
<1>7. CASE Run60After \/ Run60Log
  BY <1>7 DEF Run60After, Run60Log, HashCount
<1>8. CASE Run60Start \/ Run60Accept \/ Run60Unseal \/ Run60Clear
  BY <1>8 DEF Run60Start, Run60Accept, Run60Unseal, Run60Clear, ClearMarker,
     Launch
<1>9. CASE CpReads \/ CpApplies \/ CpHasNoChanges \/ CpFails
  BY <1>9 DEF CpReads, CpApplies, CpHasNoChanges, CpFails, CpSays, Of
<1>10. CASE CpExits \/ CpDies
  BY <1>10 DEF CpExits, CpDies, CpGone, Of, Template
<1>11. CASE Abort \/ EditConfig \/ EditProfile \/ OtherStarts \/ OtherEnds
  BY <1>11 DEF Abort, EditConfig, EditProfile, OtherStarts, OtherEnds
<1>12. CASE StartByHand \/ Degrade \/ Heal \/ Becalm
  BY <1>12 DEF StartByHand, Degrade, Heal, Becalm
<1>13. CASE UNCHANGED vars
  BY <1>13 DEF vars
<1> QED
  BY <1>1, <1>2, <1>3, <1>4, <1>5, <1>6, <1>7, <1>8, <1>9, <1>10, <1>11,
     <1>12, <1>13 DEF Next, Run, Phase50, Phase60, CpDeploy, World

\* Phase 60 is done once the marker is gone.
LEMMA GreenIsUnmarkedNext ==
  ASSUME GreenIsUnmarked, [Next]_vars
  PROVE  GreenIsUnmarked'
<1> USE DEF GreenIsUnmarked, Go, Stop, NoRun, local, operator, files, marker,
   deploy, remote
<1>1. CASE StartRun \/ Finish \/ Probe50Validate \/ Probe50Compare \/
   Probe60Health \/ Probe60Hash \/ Probe60Marker
  BY <1>1 DEF StartRun, Finish, Probe50Validate, Probe50Compare,
     Probe60Health, Probe60Hash, Probe60Marker, Phase50Done, Phase50NotDone,
     Phase60NotDone
<1>2. CASE Run50Busy \/ Run50Read \/ Run50Verify \/ Run50Accept
  BY <1>2 DEF Run50Busy, Run50Read, Run50Verify, Run50Accept, Retrofittable
<1>3. CASE Run50Init \/ Run50Ini \/ Run50Mark
  BY <1>3 DEF Run50Init, Run50Ini, Run50Mark, Template, WriteMarker, WsoInit
<1>4. CASE Run50Patch
  BY <1>4 DEF Run50Patch, Patch, PatchLands
<1>5. CASE Run60Before
  BY <1>5 DEF Run60Before, HashCount
<1>6. CASE Run60Alive \/ Run60Busy \/ Run60Wait
  BY <1>6 DEF Run60Alive, Run60Busy, Run60Wait
<1>7. CASE Run60After \/ Run60Log
  BY <1>7 DEF Run60After, Run60Log, HashCount
<1>8. CASE Run60Start \/ Run60Accept \/ Run60Unseal \/ Run60Clear
  BY <1>8 DEF Run60Start, Run60Accept, Run60Unseal, Run60Clear, ClearMarker,
     Launch
<1>9. CASE CpReads \/ CpApplies \/ CpHasNoChanges \/ CpFails
  BY <1>9 DEF CpReads, CpApplies, CpHasNoChanges, CpFails, CpSays, Of
<1>10. CASE CpExits \/ CpDies
  BY <1>10 DEF CpExits, CpDies, CpGone, Of, Template
<1>11. CASE Abort \/ EditConfig \/ EditProfile \/ OtherStarts \/ OtherEnds
  BY <1>11 DEF Abort, EditConfig, EditProfile, OtherStarts, OtherEnds
<1>12. CASE StartByHand \/ Degrade \/ Heal \/ Becalm
  BY <1>12 DEF StartByHand, Degrade, Heal, Becalm
<1>13. CASE UNCHANGED vars
  BY <1>13 DEF vars
<1> QED
  BY <1>1, <1>2, <1>3, <1>4, <1>5, <1>6, <1>7, <1>8, <1>9, <1>10, <1>11,
     <1>12, <1>13 DEF Next, Run, Phase50, Phase60, CpDeploy, World

\* Phase 60 asks for the hash before it is done.
LEMMA HashBeforeGreenNext ==
  ASSUME LastHashAnswered, Counters, HashBeforeGreen, [Next]_vars
  PROVE  HashBeforeGreen'
<1> USE DEF HashBeforeGreen, Counters, Go, Stop, NoRun, local, operator,
   files, marker, deploy, remote
<1>1. CASE StartRun \/ Finish \/ Probe50Validate \/ Probe50Compare \/
   Probe60Health \/ Probe60Hash \/ Probe60Marker
  BY <1>1 DEF StartRun, Finish, Probe50Validate, Probe50Compare,
     Probe60Health, Probe60Hash, Probe60Marker, LastHashAnswered,
     Phase50Done, Phase50NotDone, Phase60NotDone, Silent
<1>2. CASE Run50Busy \/ Run50Read \/ Run50Verify \/ Run50Accept
  BY <1>2 DEF Run50Busy, Run50Read, Run50Verify, Run50Accept, Retrofittable
<1>3. CASE Run50Init \/ Run50Ini \/ Run50Mark
  BY <1>3 DEF Run50Init, Run50Ini, Run50Mark, Template, WriteMarker, WsoInit
<1>4. CASE Run50Patch
  BY <1>4 DEF Run50Patch, Patch, PatchLands
<1>5. CASE Run60Before
  BY <1>5 DEF Run60Before, HashCount
<1>6. CASE Run60Alive \/ Run60Busy \/ Run60Wait
  BY <1>6 DEF Run60Alive, Run60Busy, Run60Wait
<1>7. CASE Run60After \/ Run60Log
  BY <1>7 DEF Run60After, Run60Log, HashCount
<1>8. CASE Run60Start \/ Run60Accept \/ Run60Unseal \/ Run60Clear
  BY <1>8 DEF Run60Start, Run60Accept, Run60Unseal, Run60Clear, ClearMarker,
     Launch
<1>9. CASE CpExits \/ CpDies
  BY <1>9 DEF CpExits, CpDies, CpGone, Of, Template
<1>10. CASE Abort \/ EditConfig \/ EditProfile \/ OtherStarts \/ OtherEnds
  BY <1>10 DEF Abort, EditConfig, EditProfile, OtherStarts, OtherEnds
<1>11. CASE StartByHand \/ Degrade \/ Heal \/ Becalm
  BY <1>11 DEF StartByHand, Degrade, Heal, Becalm
<1>12. CASE CpReads \/ CpHasNoChanges \/ CpFails
  BY <1>12 DEF CpReads, CpHasNoChanges, CpFails, CpSays, Of
<1>13. CASE CpApplies
  BY <1>13 DEF CpApplies, CpSays
<1>14. CASE UNCHANGED vars
  BY <1>14 DEF vars
<1> QED
  BY <1>1, <1>2, <1>3, <1>4, <1>5, <1>6, <1>7, <1>8, <1>9, <1>10, <1>11,
     <1>12, <1>13, <1>14 DEF Next, Run, Phase50, Phase60, CpDeploy, World

\* Only the patch and the first `wso access init` write profile.yml.
LEMMA ProfileMoves ==
  ASSUME IniFirst, [Next]_vars
  PROVE  profile' # profile => pc = "50.patch"
<1> USE DEF IniFirst, Go, Stop, NoRun, local, operator, files, marker,
   deploy, remote
<1>1. CASE StartRun \/ Finish \/ Probe50Validate \/ Probe50Compare \/
   Probe60Health \/ Probe60Hash \/ Probe60Marker
  BY <1>1 DEF StartRun, Finish, Probe50Validate, Probe50Compare,
     Probe60Health, Probe60Hash, Probe60Marker, Phase50Done, Phase50NotDone,
     Phase60NotDone
<1>2. CASE Run50Busy \/ Run50Read \/ Run50Verify \/ Run50Accept
  BY <1>2 DEF Run50Busy, Run50Read, Run50Verify, Run50Accept, Retrofittable
<1>3. CASE Run50Init \/ Run50Ini \/ Run50Mark
  BY <1>3 DEF Run50Init, Run50Ini, Run50Mark, Template, WriteMarker, WsoInit
<1>4. CASE Run50Patch
  BY <1>4 DEF Run50Patch, Patch, PatchLands
<1>5. CASE Run60Before
  BY <1>5 DEF Run60Before, HashCount
<1>6. CASE Run60Alive \/ Run60Busy \/ Run60Wait
  BY <1>6 DEF Run60Alive, Run60Busy, Run60Wait
<1>7. CASE Run60After \/ Run60Log
  BY <1>7 DEF Run60After, Run60Log, HashCount
<1>8. CASE Run60Start \/ Run60Accept \/ Run60Unseal \/ Run60Clear
  BY <1>8 DEF Run60Start, Run60Accept, Run60Unseal, Run60Clear, ClearMarker,
     Launch
<1>9. CASE CpReads \/ CpApplies \/ CpHasNoChanges \/ CpFails
  BY <1>9 DEF CpReads, CpApplies, CpHasNoChanges, CpFails, CpSays, Of
<1>10. CASE CpExits \/ CpDies
  BY <1>10 DEF CpExits, CpDies, CpGone, Of, Template
<1>11. CASE Abort \/ EditConfig \/ EditProfile \/ OtherStarts \/ OtherEnds
  BY <1>11 DEF Abort, EditConfig, EditProfile, OtherStarts, OtherEnds
<1>12. CASE StartByHand \/ Degrade \/ Heal \/ Becalm
  BY <1>12 DEF StartByHand, Degrade, Heal, Becalm
<1>13. CASE UNCHANGED vars
  BY <1>13 DEF vars
<1> QED
  BY <1>1, <1>2, <1>3, <1>4, <1>5, <1>6, <1>7, <1>8, <1>9, <1>10, <1>11,
     <1>12, <1>13 DEF Next, Run, Phase50, Phase60, CpDeploy, World

-----------------------------------------------------------------------------
(* The theorems.                                                           *)

\* The invariant that is inductive when the busy check and the hash count are
\* answered and nobody starts a deploy by hand.
IInv ==
  /\ TypeOK /\ IniFirst /\ NoDeployUnderWrite /\ SnapIsCurrent
  /\ SegmentIsItsOwn /\ NoChangesMeansRolled /\ NewHashMeansRolled
  /\ AcceptedMeansRolled /\ PatchIsAnnounced /\ RolloutNotForgotten

\* The initial state has it.
LEMMA IInvInit == Init => IInv
<1> SUFFICES ASSUME Init PROVE IInv
  OBVIOUS
<1>1. TypeOK
  BY TypeInit
<1>2. IniFirst /\ NoDeployUnderWrite
  BY DEF Init, IniFirst, NoDeployUnderWrite, Writing
<1>3. Owed = {}
  BY DEF Init, Owed, Of, Template, Keys
<1>4. SnapIsCurrent /\ SegmentIsItsOwn /\ NoChangesMeansRolled
  BY DEF Init, SnapIsCurrent, SegmentIsItsOwn, NoChangesMeansRolled
<1>5. NewHashMeansRolled /\ AcceptedMeansRolled /\ PatchIsAnnounced
  BY DEF Init, NewHashMeansRolled, AcceptedMeansRolled, PatchIsAnnounced
<1> QED
  BY <1>1, <1>2, <1>3, <1>4, <1>5 DEF IInv, RolloutNotForgotten

\* Every step keeps it.
LEMMA IInvNext ==
  ASSUME BusyAnswered, HashCountAnswered, ~ByHand, IInv, [Next]_vars
  PROVE  IInv'
<1> USE DEF IInv, TypeOK
<1>1. TypeOK'
  BY TypeNext
<1>2. IniFirst' /\ NoDeployUnderWrite'
  BY IniFirstNext, NoDeployUnderWriteNext
<1>3. SnapIsCurrent' /\ SegmentIsItsOwn'
  BY SnapIsCurrentNext, SegmentIsItsOwnNext
<1>4. NoChangesMeansRolled' /\ NewHashMeansRolled' /\ AcceptedMeansRolled'
  BY NoChangesMeansRolledNext, NewHashMeansRolledNext, AcceptedMeansRolledNext
<1>5. PatchIsAnnounced' /\ RolloutNotForgotten'
  BY PatchIsAnnouncedNext, RolloutNotForgottenNext
<1> QED
  BY <1>1, <1>2, <1>3, <1>4, <1>5

\* A profile.yml the platform has not been deployed with is always announced
\* by the marker, whatever fails, is aborted or goes unanswered otherwise.
THEOREM NoRolloutForgotten ==
  ASSUME BusyAnswered, HashCountAnswered, ~ByHand
  PROVE  Spec => []RolloutNotForgotten
<1>1. Init => IInv
  BY IInvInit
<1>2. IInv /\ [Next]_vars => IInv'
  BY IInvNext
<1>3. IInv => RolloutNotForgotten
  BY DEF IInv
<1> QED
  BY <1>1, <1>2, <1>3, PTL DEF Spec

\* A run that ends green without a warning has every scalar setting it loaded
\* on the platform.
THEOREM GreenIsApplied ==
  ASSUME BusyAnswered, HashCountAnswered, ~ByHand
  PROVE  Spec => []GreenMeansApplied
<1> DEFINE Inv == FileMatches /\ GreenIsUnmarked
<1>1. Init => Inv
  BY DEF Init, FileMatches, GreenIsUnmarked, Phase60s
<1>2. Inv /\ [Next]_vars => Inv'
  BY FileMatchesNext, GreenIsUnmarkedNext
<1>3. Inv /\ RolloutNotForgotten => GreenMeansApplied
  BY DEF FileMatches, GreenIsUnmarked, RolloutNotForgotten, Owed,
         GreenMeansApplied, Phase60s
<1> QED
  BY <1>1, <1>2, <1>3, NoRolloutForgotten, PTL DEF Spec

\* profile.yml is never rewritten under a running `wso cp deploy`, also one
\* that was started by hand.
THEOREM WritesKeepClear ==
  ASSUME BusyAnswered
  PROVE  Spec => NoWriteUnderDeploy
<1> DEFINE Inv == IniFirst /\ NoDeployUnderWrite
<1>1. Init => Inv
  BY DEF Init, IniFirst, NoDeployUnderWrite, Writing
<1>2. Inv /\ [Next]_vars => Inv'
  BY IniFirstNext, NoDeployUnderWriteNext
<1>3. Inv /\ [Next]_vars => [profile' # profile => proc = "none"]_vars
  BY ProfileMoves DEF NoDeployUnderWrite, Writing
<1> QED
  BY <1>1, <1>2, <1>3, PTL DEF Spec, NoWriteUnderDeploy

\* Only one `wso cp deploy` at a time, provided the launch is answered: the
\* three answers of probe_alive are enough, whatever else goes unanswered.
THEOREM OneDeployAtATime ==
  ASSUME StartAnswered
  PROVE  Spec => []NoSecondDeploy
<1> DEFINE Inv == StartsAlone /\ NoSecondDeploy
<1>1. Init => Inv
  BY DEF Init, StartsAlone, NoSecondDeploy
<1>2. Inv /\ [Next]_vars => Inv'
  BY StartsAloneNext, NoSecondDeployNext
<1> QED
  BY <1>1, <1>2, PTL DEF Spec

\* A platform is accepted only after a deploy wrote a folder hash, provided
\* the question for the last hash is answered.
THEOREM GreenIsDeployed ==
  ASSUME LastHashAnswered
  PROVE  Spec => []GreenMeansDeployed
<1> DEFINE Inv == Counters /\ HashBeforeGreen
<1>1. Init => Inv
  BY DEF Init, Counters, HashBeforeGreen
<1>2. Inv /\ [Next]_vars => Inv'
  BY CountersNext, HashBeforeGreenNext
<1>3. Inv => GreenMeansDeployed
  BY DEF HashBeforeGreen, GreenMeansDeployed
<1> QED
  BY <1>1, <1>2, <1>3, PTL DEF Spec
=============================================================================
