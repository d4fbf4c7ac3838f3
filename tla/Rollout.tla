------------------------------ MODULE Rollout ------------------------------
(***************************************************************************)
(* How a setting in config.yml reaches the running platform.               *)
(*                                                                         *)
(* Phase 50 compares config.yml with profile.yml on the bootstrap, writes  *)
(* the pending-rollout marker and then patches the file; phase 60 runs     *)
(* `wso cp deploy` detached, judges it by the folder hash, and removes the *)
(* marker.  The operator may edit config.yml, interrupt a run and start    *)
(* another one at any moment; the remote deploy survives all of it.  Every *)
(* remote call may go unanswered, executed or not.                         *)
(***************************************************************************)
EXTENDS Naturals, FiniteSets

CONSTANTS
  Scalars,     \* keys a re-run can apply (ntp_server, nfs_host, ...)
  Logging,     \* logging.* keys, which need a redeployment of the cluster
  Values,      \* the values a key can be given
  NoValue,     \* the key is not set
  Configs,     \* the config.yml contents the operator may choose from
  Faulty,      \* the remote calls that may go unanswered
  ByHand,      \* whether someone may start `wso cp deploy` by hand
  HashBound    \* bound on the folder hashes one behaviour writes

Keys == Scalars \cup Logging

\* Every remote call of the two phases, by the name Faulty uses for it.
Calls == {"validate", "cat", "busy", "init", "write", "marker", "health",
          "last_hash", "hash_count", "alive", "start", "wait", "log",
          "unseal", "clear"}

ASSUME RolloutAssumption ==
  /\ Scalars \cap Logging = {}
  /\ NoValue \notin Values
  /\ Configs \subseteq [Keys -> Values \cup {NoValue}]
  /\ Configs # {}
  /\ Faulty \subseteq Calls
  /\ ByHand \in BOOLEAN
  /\ HashBound \in Nat

VARIABLES
  \* the operator's machine
  config,      \* config.yml
  settings,    \* ctx.deployment_settings: config.yml as this run loaded it
  pc,          \* the next remote call of the run, or "idle" / "complete"
  ran,         \* the running phase has run, so its probe is the confirming one
  warned,      \* a probe of this run warned that it could not compare or ask
  apply,       \* apply_now: the keys phase 50 set out to write
  before,      \* the hash count phase 60 read before the deploy
  \* the bootstrap
  ini,         \* cp-cluster.ini: "absent", "sample" (wso's own) or "written"
  profile,     \* the values profile.yml carries
  garbled,     \* profile.yml does not parse
  marked,      \* .axs-profile-pending exists
  markKeys,    \* the keys it names
  proc,        \* `wso cp deploy`: "none", "launched", "applying", "exiting"
  doubled,     \* a second one was started next to it
  logs,        \* that process writes cp-deploy.log (aXs started it)
  snap,        \* the profile.yml that process read
  hashes,      \* the "New Folder Hash:" lines in control_plane.log
  segment,     \* what the newest segment of cp-deploy.log says
  other,       \* another wso step is running (phase 70's, or by hand)
  \* the platform
  rolled,      \* the scalar settings the last successful deploy carried
  health,      \* what `wso healthcheck` finds
  calm         \* from here on nothing fails and nobody interferes

operator == <<config, calm, other>>
files    == <<ini, profile, garbled>>
marker   == <<marked, markKeys>>
deploy   == <<proc, doubled, logs, snap, hashes, segment, rolled, health>>
local    == <<settings, ran, warned, apply, before>>
remote   == <<files, marker, deploy>>
vars     == <<operator, local, pc, remote>>

Points == {"idle", "50.validate", "50.compare", "50.busy", "50.init",
           "50.ini", "50.read", "50.mark", "50.patch", "50.verify",
           "50.accept",
           "60.health", "60.hash", "60.marker", "60.before", "60.alive",
           "60.busy", "60.start", "60.wait", "60.after", "60.log",
           "60.accept", "60.unseal", "60.clear", "complete"}

Template == [k \in Keys |-> NoValue]
Of(p) == [k \in Scalars |-> p[k]]

Flags ==
  /\ ran \in BOOLEAN /\ warned \in BOOLEAN
  /\ calm \in BOOLEAN /\ other \in BOOLEAN
  /\ garbled \in BOOLEAN /\ marked \in BOOLEAN
  /\ doubled \in BOOLEAN /\ logs \in BOOLEAN

Ranges ==
  /\ config \in Configs /\ settings \in Configs
  /\ apply \subseteq Scalars /\ markKeys \subseteq Scalars
  /\ ini \in {"absent", "sample", "written"}
  /\ proc \in {"none", "launched", "applying", "exiting"}
  /\ segment \in {"empty", "hash", "no changes", "failed"}
  /\ health \in {"ok", "sealed", "down"}

Counters == before \in Nat /\ hashes \in Nat

Mappings ==
  /\ profile \in [Keys -> Values \cup {NoValue}]
  /\ snap \in [Scalars -> Values \cup {NoValue}]
  /\ rolled \in [Scalars -> Values \cup {NoValue}]

TypeOK == pc \in Points /\ Flags /\ Ranges /\ Counters /\ Mappings

Init ==
  /\ config \in Configs /\ settings = config
  /\ pc = "idle" /\ ran = FALSE /\ warned = FALSE
  /\ calm = FALSE /\ other = FALSE
  /\ apply = {} /\ before = 0
  /\ ini = "absent" /\ profile = Template /\ garbled = FALSE
  /\ marked = FALSE /\ markKeys = {}
  /\ proc = "none" /\ doubled = FALSE /\ logs = TRUE /\ snap = Of(Template)
  /\ hashes = 0 /\ segment = "empty"
  /\ rolled = Of(Template) /\ health = "down"

-----------------------------------------------------------------------------
(* profile_yml: what differs, who can apply it, and what patch writes.     *)

IsConfigured(s) == \E k \in Keys : s[k] # NoValue

\* Fault: a key only the bootstrap has counts as drift.
DifferingKeys(p, s) == {k \in Keys : s[k] # p[k]}

\* Keys that differ and that config.yml asks for; the others are orphans,
\* which patch never removes.
ActionableKeys(p, s) == {k \in Keys : s[k] # NoValue /\ s[k] # p[k]}

\* Neither drift nor orphans.
SameFiles(p, s) == \A k \in Keys : s[k] = p[k]

\* Fault: a logging key taken for one a re-run can apply.
AnyKey(keys) == keys

\* classify: the keys a re-run can apply; the rest needs a rebuild.
Retrofittable(keys) == keys \cap Scalars

\* A scalar is only ever replaced; aXs's own logging block is dropped and
\* rewritten from config.yml.
Patch(p, s) ==
  [k \in Keys |-> IF k \in Scalars /\ s[k] = NoValue THEN p[k] ELSE s[k]]

-----------------------------------------------------------------------------
(* Remote calls.  bootstrap_run answers, or it does not: the connection     *)
(* dropped before the command ran, or after it did.                        *)

Silent(call) == ~calm /\ call \in Faulty

\* The run's own memory: its config.yml and what its steps remember.
NoRun ==
  /\ settings' = config
  /\ ran' = FALSE /\ warned' = FALSE
  /\ apply' = {} /\ before' = 0

Go(point) == pc' = point /\ UNCHANGED local
\* The run ends, in a failure the operator is told about or done.
Stop == pc' = "idle" /\ NoRun

\* Fault: the pattern finds the shell that was started, not what it runs.
AliveWhenLaunched == proc = "launched"

\* What the pgrep of phase 60 finds, and what WSO_BUSY finds.
Alive == proc # "none"
Busy  == Alive \/ other

-----------------------------------------------------------------------------
(* The probes.  A probe that says "not done" starts the phase, unless it    *)
(* is the one that confirms a run: then the engine stops.                   *)

StartRun ==
  /\ pc = "idle" /\ pc' = "50.validate"
  /\ NoRun
  /\ UNCHANGED <<operator, remote>>

Phase50NotDone == IF ran THEN Stop ELSE Go("50.busy")

Phase50Done(warning) ==
  /\ pc' = "60.health"
  /\ warned' = (warned \/ warning)
  /\ ran' = FALSE
  /\ UNCHANGED <<settings, apply, before>>

Probe50Validate ==
  /\ pc = "50.validate"
  /\ \/ ini = "written" /\ Go("50.compare")
     \/ (ini # "written" \/ Silent("validate")) /\ Phase50NotDone
  /\ UNCHANGED <<operator, remote>>

\* _drift_check: only keys a re-run can apply make the phase red.  With the
\* files in agreement it asks for the marker, to say what is still owed.
Probe50Compare ==
  /\ pc = "50.compare"
  /\ \/ ~IsConfigured(settings) /\ Phase50Done(FALSE)
     \/ IsConfigured(settings) /\ (Silent("cat") \/ garbled) /\ Phase50Done(TRUE)
     \/ /\ IsConfigured(settings) /\ ~garbled
        /\ Retrofittable(ActionableKeys(profile, settings)) = {}
        /\ \/ Phase50Done(FALSE)
           \/ SameFiles(profile, settings) /\ Silent("marker") /\ Phase50Done(TRUE)
     \/ /\ IsConfigured(settings) /\ ~garbled
        /\ Retrofittable(ActionableKeys(profile, settings)) # {}
        /\ Phase50NotDone
  /\ UNCHANGED <<operator, remote>>

Phase60NotDone == IF ran THEN Stop ELSE Go("60.before")

Probe60Health ==
  /\ pc = "60.health"
  /\ \/ health = "ok" /\ Go("60.hash")
     \/ (health # "ok" \/ Silent("health")) /\ Phase60NotDone
  /\ UNCHANGED <<operator, remote>>

\* Fault: a green healthcheck is enough.
Probe60HashUnasked ==
  /\ pc = "60.hash" /\ Go("60.marker")
  /\ UNCHANGED <<operator, remote>>

\* _last_hash returns whatever the call printed: ssh's own error is text too,
\* and a connection that drops without a word prints nothing.
Probe60Hash ==
  /\ pc = "60.hash"
  /\ \/ (hashes > 0 \/ Silent("last_hash")) /\ Go("60.marker")
     \/ (hashes = 0 \/ Silent("last_hash")) /\ Phase60NotDone
  /\ UNCHANGED <<operator, remote>>

\* Fault: "could not ask" read as "no marker".
Probe60MarkerSilentIsClean ==
  /\ pc = "60.marker"
  /\ \/ marked /\ Phase60NotDone
     \/ (~marked \/ Silent("marker")) /\ Go("complete")
  /\ UNCHANGED <<operator, remote>>

\* Could not ask about the marker: done, with a warning.
Probe60Marker ==
  /\ pc = "60.marker"
  /\ \/ marked /\ Phase60NotDone
     \/ ~marked /\ Go("complete")
     \/ /\ Silent("marker") /\ pc' = "complete"
        /\ warned' = TRUE /\ UNCHANGED <<settings, ran, apply, before>>
  /\ UNCHANGED <<operator, remote>>

-----------------------------------------------------------------------------
(* Phase 50.  A call that is not answered ends the phase; what it did on   *)
(* the bootstrap stays done.                                               *)

\* Fault: phase 50 does not ask whether a wso step is running.
Run50BusyUnasked ==
  /\ pc = "50.busy" /\ Go("50.init")
  /\ UNCHANGED <<operator, remote>>

\* The guard asks for an answer of "running"; silence passes it.
Run50Busy ==
  /\ pc = "50.busy"
  /\ \/ Busy /\ Stop
     \/ (~Busy \/ Silent("busy")) /\ Go("50.init")
  /\ UNCHANGED <<operator, remote>>

\* `wso access init`, only while there is no inventory yet.
WsoInit ==
  /\ ini' = IF ini = "absent" THEN "sample" ELSE ini
  /\ profile' = IF ini = "absent" THEN Template ELSE profile
  /\ garbled' = IF ini = "absent" THEN FALSE ELSE garbled

Run50Init ==
  /\ pc = "50.init"
  /\ \/ WsoInit /\ Go("50.ini")
     \/ Silent("init") /\ Stop /\ (WsoInit \/ UNCHANGED files)
  /\ UNCHANGED <<operator, marker, deploy>>

\* SSH trust, host keys and the private key come first; a failure there
\* leaves the inventory as it was.
Run50Ini ==
  /\ pc = "50.ini"
  /\ \/ ini' = "written" /\ Go("50.read")
     \/ Silent("write") /\ Stop /\ ini' \in {ini, "written"}
  /\ UNCHANGED <<operator, profile, garbled, marker, deploy>>

\* _apply_profile up to the marker.
Run50Read ==
  /\ pc = "50.read"
  /\ \/ ~IsConfigured(settings) /\ Go("50.accept")
     \/ /\ IsConfigured(settings)
        /\ apply' = IF garbled THEN {}
                    ELSE Retrofittable(ActionableKeys(profile, settings))
        /\ pc' = IF garbled \/ apply' # {} THEN "50.mark" ELSE "50.patch"
        /\ UNCHANGED <<settings, ran, warned, before>>
     \/ IsConfigured(settings) /\ Silent("cat") /\ Stop
  /\ UNCHANGED <<operator, remote>>

WriteMarker == marked' = TRUE /\ markKeys' = apply

\* Fault: a marker that could not be written does not stop the phase.
Run50MarkUnchecked ==
  /\ pc = "50.mark"
  /\ \/ WriteMarker /\ Go("50.patch")
     \/ Silent("write") /\ Go("50.patch") /\ UNCHANGED marker
  /\ UNCHANGED <<operator, files, deploy>>

\* pending.mark, before the file changes.
Run50Mark ==
  /\ pc = "50.mark"
  /\ \/ WriteMarker /\ Go("50.patch")
     \/ Silent("write") /\ Stop /\ (WriteMarker \/ UNCHANGED marker)
  /\ UNCHANGED <<operator, files, deploy>>

\* Never a file that does not parse: what broke it may sit in aXs's own block,
\* which is rewritten, or elsewhere, and then nothing is written.
PatchLands == profile' = Patch(profile, settings) /\ garbled' = FALSE

Run50Patch ==
  /\ pc = "50.patch"
  /\ \/ PatchLands /\ Go("50.verify")
     \/ garbled /\ Stop /\ UNCHANGED <<profile, garbled>>
     \/ /\ Silent("write") /\ Stop
        /\ PatchLands \/ UNCHANGED <<profile, garbled>>
  /\ UNCHANGED <<operator, ini, marker, deploy>>

\* Read the file back: the keys this phase promised must have landed.
Run50Verify ==
  /\ pc = "50.verify"
  /\ \/ /\ ~garbled
        /\ apply \cap ActionableKeys(profile, settings) = {}
        /\ Go("50.accept")
     \/ /\ \/ Silent("cat")
           \/ garbled
           \/ apply \cap ActionableKeys(profile, settings) # {}
        /\ Stop
  /\ UNCHANGED <<operator, remote>>

\* The closing `wso access validate`; then the engine probes again.
Run50Accept ==
  /\ pc = "50.accept"
  /\ \/ /\ pc' = "50.validate" /\ ran' = TRUE
        /\ UNCHANGED <<settings, warned, apply, before>>
     \/ Silent("validate") /\ Stop
  /\ UNCHANGED <<operator, remote>>

-----------------------------------------------------------------------------
(* Phase 60.  What it reads from the marker only decides what it reports.   *)

\* _hash_count: an answer that is not a number counts as zero.
HashCount(n) == n = hashes \/ (Silent("hash_count") /\ n = 0)

Run60Before ==
  /\ pc = "60.before" /\ pc' = "60.alive"
  /\ \E n \in {0, hashes} : HashCount(n) /\ before' = n
  /\ UNCHANGED <<operator, settings, ran, warned, apply, remote>>

\* probe_alive has three answers: re-attach, go on, or refuse.
Run60Alive ==
  /\ pc = "60.alive"
  /\ \/ Alive /\ Go("60.wait")
     \/ ~Alive /\ Go("60.busy")
     \/ Silent("alive") /\ Stop
  /\ UNCHANGED <<operator, remote>>

Run60Busy ==
  /\ pc = "60.busy"
  /\ \/ Busy /\ Stop
     \/ (~Busy \/ Silent("busy")) /\ Go("60.start")
  /\ UNCHANGED <<operator, remote>>

\* A new segment in the log, and n detached processes behind it.
Launch(n) ==
  /\ proc' = IF proc = "none" THEN "launched" ELSE proc
  /\ doubled' = (n > 1 \/ proc # "none")
  /\ logs' = TRUE /\ segment' = "empty"

\* node_run repeats a call that failed over the password login: when only the
\* answer was lost, the deploy is started twice.
Run60Start ==
  /\ pc = "60.start"
  /\ \/ Launch(1) /\ Go("60.wait")
     \/ Silent("start") /\ Launch(2) /\ Go("60.wait")
     \/ /\ Silent("start") /\ Stop
        /\ \/ \E n \in 1..2 : Launch(n)
           \/ UNCHANGED <<proc, doubled, logs, segment>>
  /\ UNCHANGED <<operator, files, marker, snap, hashes, rolled, health>>

\* Only an answer of "dead" ends the wait; too much silence, or six hours,
\* end the run.
Run60Wait ==
  /\ pc = "60.wait"
  /\ \/ ~Alive /\ Go("60.after")
     \/ Silent("wait") /\ Stop
  /\ UNCHANGED <<operator, remote>>

Run60After ==
  /\ pc = "60.after"
  /\ \E n \in {0, hashes} :
       /\ HashCount(n)
       /\ Go(IF n > before THEN "60.accept" ELSE "60.log")
  /\ UNCHANGED <<operator, remote>>

\* No new hash is a success only when this run's segment says so.
Run60Log ==
  /\ pc = "60.log"
  /\ \/ /\ segment = "no changes"
        /\ hashes > 0 \/ Silent("last_hash")
        /\ Go("60.accept")
     \/ /\ \/ segment # "no changes" \/ hashes = 0
           \/ Silent("log") \/ Silent("last_hash")
        /\ Stop
  /\ UNCHANGED <<operator, remote>>

\* _confirm_health, with one attempt to unseal Vault.
Run60Accept ==
  /\ pc = "60.accept"
  /\ \/ health = "ok" /\ Go("60.clear") /\ UNCHANGED health
     \/ /\ health = "sealed" /\ Go("60.unseal")
        /\ health' \in IF calm THEN {"ok"} ELSE {"sealed", "ok"}
     \/ (health = "down" \/ Silent("health")) /\ Stop /\ UNCHANGED health
  /\ UNCHANGED <<operator, files, marker, proc, doubled, logs, snap, hashes,
                 segment, rolled>>

Run60Unseal ==
  /\ pc = "60.unseal"
  /\ \/ health = "ok" /\ Go("60.clear")
     \/ (health # "ok" \/ Silent("health")) /\ Stop
  /\ UNCHANGED <<operator, remote>>

ClearMarker == marked' = FALSE /\ markKeys' = {}

\* pending.clear; then the engine probes again.
Run60Clear ==
  /\ pc = "60.clear"
  /\ \/ /\ ClearMarker /\ pc' = "60.health" /\ ran' = TRUE
        /\ UNCHANGED <<settings, warned, apply, before>>
     \/ Silent("clear") /\ Stop /\ (ClearMarker \/ UNCHANGED marker)
  /\ UNCHANGED <<operator, files, deploy>>

\* The engine has every phase done and exits 0.
Finish ==
  /\ pc = "complete" /\ Stop
  /\ UNCHANGED <<operator, remote>>

-----------------------------------------------------------------------------
(* `wso cp deploy` on the bootstrap, which no run of aXs can stop.         *)

CpReads ==
  /\ proc = "launched"
  /\ proc' = "applying" /\ snap' = Of(profile)
  /\ UNCHANGED <<operator, local, pc, files, marker, doubled, logs, hashes,
                 segment, rolled, health>>

CpSays(line) == segment' = IF logs THEN line ELSE segment

CpApplies ==
  /\ proc = "applying" /\ ~garbled
  /\ snap # rolled \/ hashes = 0
  /\ calm \/ hashes < HashBound
  /\ proc' = "exiting" /\ CpSays("hash") /\ hashes' = hashes + 1
  /\ rolled' = snap /\ health' = "ok"
  /\ UNCHANGED <<operator, local, pc, files, marker, doubled, logs, snap>>

\* Idempotent: the same folder is not deployed twice.
CpHasNoChanges ==
  /\ proc = "applying" /\ ~garbled
  /\ snap = rolled /\ hashes > 0
  /\ proc' = "exiting" /\ CpSays("no changes")
  /\ UNCHANGED <<operator, local, pc, files, marker, doubled, logs, snap,
                 hashes, rolled, health>>

\* A failed play may leave a platform that answers, or one that does not.
CpFails ==
  /\ proc = "applying" /\ ~calm
  /\ proc' = "exiting" /\ CpSays("failed")
  /\ health' \in {"ok", "down"}
  /\ UNCHANGED <<operator, local, pc, files, marker, doubled, logs, snap,
                 hashes, rolled>>

CpGone == doubled' = FALSE /\ logs' = TRUE /\ snap' = Of(Template)

\* Two at once are taken to do their work one after the other.
CpExits ==
  /\ proc = "exiting" /\ CpGone
  /\ proc' = IF doubled THEN "launched" ELSE "none"
  /\ UNCHANGED <<operator, local, pc, files, marker, hashes, segment, rolled,
                 health>>

\* The bootstrap reboots, or what runs there is killed by hand.
CpDies ==
  /\ proc # "none" /\ ~calm /\ CpGone
  /\ proc' = "none"
  /\ UNCHANGED <<operator, local, pc, files, marker, hashes, segment, rolled,
                 health>>

-----------------------------------------------------------------------------
(* The operator and the world.                                             *)

\* Ctrl-C, a crash, the terminal closed: whatever was sent stays sent.
Abort ==
  /\ pc \notin {"idle", "complete"} /\ ~calm /\ Stop
  /\ UNCHANGED <<operator, remote>>

EditConfig ==
  /\ ~calm /\ config' \in Configs
  /\ UNCHANGED <<calm, other, local, pc, remote>>

\* Someone breaks profile.yml by hand between two runs, or repairs it.
EditProfile ==
  /\ pc = "idle" /\ ini # "absent" /\ ~calm
  /\ garbled' = ~garbled
  /\ UNCHANGED <<operator, local, pc, ini, profile, marker, deploy>>

\* Another wso step: started by hand, or left over from an aborted phase 70.
OtherStarts ==
  /\ ~calm /\ ~other /\ other' = TRUE
  /\ UNCHANGED <<config, calm, local, pc, remote>>

OtherEnds ==
  /\ other /\ other' = FALSE
  /\ UNCHANGED <<config, calm, local, pc, remote>>

\* `wso cp deploy` by hand between two runs writes nothing into cp-deploy.log.
StartByHand ==
  /\ ByHand /\ ~calm /\ pc = "idle" /\ ini # "absent"
  /\ proc = "none" /\ proc' = "launched" /\ logs' = FALSE
  /\ UNCHANGED <<operator, local, pc, files, marker, doubled, snap, hashes,
                 segment, rolled, health>>

\* A node reboots with Vault sealed, or a service stops.
Degrade ==
  /\ ~calm /\ health = "ok" /\ health' \in {"sealed", "down"}
  /\ UNCHANGED <<operator, local, pc, files, marker, proc, doubled, logs, snap,
                 hashes, segment, rolled>>

\* A deployed platform comes back by itself; Vault does not unseal itself.
Heal ==
  /\ hashes > 0 /\ health = "down" /\ health' = "ok"
  /\ UNCHANGED <<operator, local, pc, files, marker, proc, doubled, logs, snap,
                 hashes, segment, rolled>>

\* From here on every call is answered and nobody interferes.
Becalm ==
  /\ ~calm /\ ~garbled /\ calm' = TRUE
  /\ UNCHANGED <<config, other, local, pc, remote>>

-----------------------------------------------------------------------------

Phase50 ==
  \/ Probe50Validate \/ Probe50Compare
  \/ Run50Busy \/ Run50Init \/ Run50Ini \/ Run50Read \/ Run50Mark
  \/ Run50Patch \/ Run50Verify \/ Run50Accept

Phase60 ==
  \/ Probe60Health \/ Probe60Hash \/ Probe60Marker
  \/ Run60Before \/ Run60Alive \/ Run60Busy \/ Run60Start \/ Run60Wait
  \/ Run60After \/ Run60Log \/ Run60Accept \/ Run60Unseal \/ Run60Clear

Run == StartRun \/ Phase50 \/ Phase60 \/ Finish

CpDeploy == CpReads \/ CpApplies \/ CpHasNoChanges \/ CpFails \/ CpExits \/ CpDies

World ==
  \/ Abort \/ EditConfig \/ EditProfile \/ OtherStarts \/ OtherEnds
  \/ StartByHand \/ Degrade \/ Heal \/ Becalm

Next == Run \/ CpDeploy \/ World

Spec == Init /\ [][Next]_vars

\* The operator runs aXs until it is green, each run goes on while it has a
\* call to make, remote processes are scheduled, and the platform recovers.
\* Nothing is assumed of edits, aborts, failures or of calm ever coming.
FairSpec ==
  Spec /\ WF_vars(Run) /\ WF_vars(CpDeploy) /\ WF_vars(OtherEnds) /\ WF_vars(Heal)

-----------------------------------------------------------------------------
(* Properties.                                                             *)

Owed == {k \in Scalars : profile[k] # rolled[k]}

\* A profile.yml the platform has not been deployed with is always announced
\* by the marker: whatever fails, is aborted or goes unanswered, phase 50 and
\* phase 60 never lose a rollout between them.
RolloutNotForgotten == Owed # {} => marked

\* A run that ends green has every scalar setting it loaded on the platform,
\* unless one of its probes said it could not compare or could not ask.
GreenMeansApplied ==
  pc = "complete" =>
    \/ warned
    \/ \A k \in Scalars : settings[k] # NoValue => rolled[k] = settings[k]

\* profile.yml is never rewritten under a running `wso cp deploy`.
NoWriteUnderDeploy == [][profile' # profile => proc = "none"]_vars

\* Only one `wso cp deploy` at a time: phase 60 starts none next to another.
NoSecondDeploy == ~doubled

\* A platform is accepted only after a deploy wrote a folder hash.
GreenMeansDeployed == pc = "complete" => hashes > 0

\* A marker that names keys names every key the platform is still owed.
MarkerNamesWhatIsOwed == marked /\ markKeys # {} => Owed \subseteq markKeys

\* Once things stay quiet, running aXs again brings config.yml to the platform.
RolledOut ==
  \A k \in Scalars : config[k] # NoValue => rolled[k] = config[k]
RolloutHappens == calm ~> (pc = "complete" /\ RolledOut)
====
