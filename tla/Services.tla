------------------------------ MODULE Services ------------------------------
(***************************************************************************)
(* Phase 70 (p70_services.py): `wso services deploy` in up to three        *)
(* attempts, each judged by two live gates, given up early when the same   *)
(* services block twice.                                                   *)
(*                                                                         *)
(* The step itself is what Step promises, and DetachedStep keeps.          *)
(***************************************************************************)
EXTENDS Naturals, FiniteSets

CONSTANTS
  Core,       \* ACCESS_CORE: services readiness must list
  Advisory,   \* services is_advisory tolerates
  Infra,      \* services readiness never lists; healthcheck sees them
  NoService,  \* no service
  Attempts,   \* _DEPLOY_ATTEMPTS
  Faulty      \* the remote calls that may go unanswered

Service == Core \cup Advisory \cup Infra
Calls == {"alive", "busy", "write", "bootstrap", "start", "wait",
          "readiness", "health", "log"}

ASSUME ServicesAssumption ==
  /\ Core \cap Advisory = {} /\ (Core \cup Advisory) \cap Infra = {}
  /\ NoService \notin Service
  /\ Attempts \in Nat \ {0}
  /\ Faulty \subseteq Calls

VARIABLES
  \* the bootstrap and the cluster
  running,   \* `wso services deploy` is at work
  svc,       \* per service: "missing", "starting" or "ready"
  reached,   \* the last "Deploying service" of the newest log segment
  other,     \* another wso step is at work
  ended,     \* the deploys that ended since this run began, up to two
  calm,      \* from here on nothing fails and nobody interferes
  \* the run
  pc, state, \* the next call; the state of the step's own call
  asking,    \* what the acceptance is asked for
  attempt,   \* the number of the attempt
  seen,      \* its blockers, as <<kind, service>>
  green,     \* readiness found nothing to say
  prev,      \* prev_blockers
  last,      \* how far the attempt got, read from its log
  verdict,   \* how the last run ended
  suspect    \* the service it accused, when it was stuck

cluster == <<svc, reached, other, ended, calm>>
judging == <<asking, attempt, seen, green, prev, last, verdict, suspect>>
vars    == <<running, state, cluster, pc, judging>>

Job == INSTANCE Step

Kinds == {"missing", "not_ready"}

TypeOK ==
  /\ running \in BOOLEAN
  /\ state \in {"idle", "calling", "waiting", "returned", "raised"}
  /\ svc \in [Service -> {"missing", "starting", "ready"}]
  /\ reached \in Service \cup {NoService} /\ last \in Service \cup {NoService}
  /\ other \in BOOLEAN /\ calm \in BOOLEAN /\ green \in BOOLEAN
  /\ ended \in 0..2
  /\ pc \in {"idle", "alive", "busy", "write", "bootstrap", "step",
             "readiness", "health", "log"}
  /\ asking \in {"probe", "attempt", "settled", "final", "confirm"}
  /\ attempt \in 1..Attempts
  /\ seen \subseteq Kinds \X Core /\ prev \subseteq Kinds \X Core
  /\ verdict \in {"none", "done", "refused", "lost", "red", "stuck",
                  "unconfirmed"}
  /\ suspect \in Service \cup {NoService}

Init ==
  /\ running = FALSE /\ state = "idle"
  /\ svc = [s \in Service |-> "missing"] /\ reached = NoService
  /\ other \in BOOLEAN /\ ended = 0 /\ calm = FALSE
  /\ pc = "idle" /\ asking = "probe" /\ attempt = 1
  /\ seen = {} /\ green = FALSE /\ prev = {} /\ last = NoService
  /\ verdict = "none" /\ suspect = NoService

-----------------------------------------------------------------------------
(* The two gates.                                                          *)

Silent(call) == ~calm /\ call \in Faulty

\* parse_readiness, less the services it lists that are advisory.
Blockers ==
  {<<"missing", s>> : s \in {t \in Core : svc[t] = "missing"}} \cup
  {<<"not_ready", s>> : s \in {t \in Core : svc[t] = "starting"}}

\* Its ok: every core service READY, and so is every other one it lists.
ReadinessGreen ==
  Blockers = {} /\ \A s \in Advisory : svc[s] # "starting"

InfraHealthy == \A s \in Infra : svc[s] = "ready"

SameBlockers == attempt > 1 /\ seen # {} /\ seen = prev

-----------------------------------------------------------------------------
(* Where a run goes next.                                                  *)

Go(point) ==
  /\ pc' = point
  /\ UNCHANGED <<state, judging>>

Ask(what) ==
  /\ pc' = "readiness" /\ asking' = what
  /\ UNCHANGED <<attempt, seen, green, prev, last, verdict, suspect>>

Forget ==
  /\ asking' = "probe" /\ attempt' = 1
  /\ green' = FALSE /\ prev' = {} /\ last' = NoService

Stop(how) ==
  /\ pc' = "idle" /\ verdict' = how
  /\ Forget /\ seen' = {} /\ suspect' = NoService

\* What the message names: where the deploy stopped outranks what is not READY.
Stuck ==
  /\ pc' = "idle" /\ verdict' = "stuck"
  /\ suspect' = IF last \in {b[2] : b \in seen} THEN NoService ELSE last
  /\ Forget /\ UNCHANGED seen

CallStep == pc' = "step" /\ state' = "calling"

\* Fault: one attempt too many.
NextAttemptTooMany ==
  /\ prev' = seen
  /\ \/ /\ attempt <= Attempts /\ attempt' = attempt + 1
        /\ CallStep /\ UNCHANGED asking
     \/ /\ attempt > Attempts
        /\ pc' = "readiness" /\ asking' = "final"
        /\ UNCHANGED <<attempt, state>>
  /\ UNCHANGED <<seen, green, verdict, suspect>>

\* The retry, or the last look after the last attempt.
NextAttempt ==
  /\ prev' = seen
  /\ \/ /\ attempt < Attempts /\ attempt' = attempt + 1
        /\ CallStep /\ UNCHANGED asking
     \/ /\ attempt = Attempts
        /\ pc' = "readiness" /\ asking' = "final"
        /\ UNCHANGED <<attempt, state>>
  /\ UNCHANGED <<seen, green, verdict, suspect>>

-----------------------------------------------------------------------------
(* The acceptance, asked by the probes, after an attempt and at the end.   *)

AskReadiness ==
  /\ pc = "readiness" /\ pc' = "health"
  /\ \/ seen' = Blockers /\ green' = ReadinessGreen
     \/ Silent("readiness") /\ seen' = {} /\ green' = FALSE
  /\ UNCHANGED <<running, cluster, state, asking, attempt, prev, last,
                 verdict, suspect>>

Accepted ==
  \/ asking \in {"probe", "confirm"} /\ Stop("done") /\ UNCHANGED state
  \/ asking \in {"attempt", "settled"} /\ Ask("final") /\ UNCHANGED state
  \/ asking = "final" /\ Ask("confirm") /\ UNCHANGED state

Refused ==
  \/ asking = "probe" /\ Go("alive")
  \/ asking = "attempt" /\ Go("log")
  \/ asking = "settled" /\ SameBlockers /\ Stuck /\ UNCHANGED state
  \/ asking = "settled" /\ ~SameBlockers /\ NextAttempt /\ UNCHANGED last
  \/ asking = "final" /\ Stop("red") /\ UNCHANGED state
  \/ asking = "confirm" /\ Stop("unconfirmed") /\ UNCHANGED state

AskHealth ==
  /\ pc = "health"
  /\ \/ green /\ InfraHealthy /\ Accepted
     \/ ~(green /\ InfraHealthy) /\ Refused
     \/ Silent("health") /\ Refused
  /\ UNCHANGED <<running, cluster>>

-----------------------------------------------------------------------------
(* run()                                                                   *)

StartRun ==
  /\ pc = "idle" /\ pc' = "readiness"
  /\ Forget /\ seen' = {} /\ suspect' = NoService /\ verdict' = "none"
  /\ ended' = 0
  /\ UNCHANGED <<running, state, svc, reached, other, calm>>

\* Fault: no answer is taken for "not running".
RunAliveSilentIsDead ==
  /\ pc = "alive"
  /\ \/ running /\ CallStep /\ UNCHANGED judging
     \/ (~running \/ Silent("alive")) /\ Go("busy")
  /\ UNCHANGED <<running, cluster>>

\* A deploy of ours that is at work is joined, and nothing is touched.
RunAlive ==
  /\ pc = "alive"
  /\ \/ running /\ CallStep /\ UNCHANGED judging
     \/ ~running /\ Go("busy")
     \/ Silent("alive") /\ Stop("refused") /\ UNCHANGED state
  /\ UNCHANGED <<running, cluster>>

\* Fault: the pattern finds its own command line.
RunBusyFindsItself ==
  /\ pc = "busy" /\ Stop("refused")
  /\ UNCHANGED <<running, state, cluster>>

RunBusy ==
  /\ pc = "busy"
  /\ \/ other /\ Stop("refused") /\ UNCHANGED state
     \/ (~other \/ Silent("busy")) /\ Go("write")
  /\ UNCHANGED <<running, cluster>>

\* The certificates and access-profile.yml.
RunWrite ==
  /\ pc = "write"
  /\ \/ Go("bootstrap")
     \/ Silent("write") /\ Stop("lost") /\ UNCHANGED state
  /\ UNCHANGED <<running, cluster>>

\* `wso access bootstrap` loads them into Vault and Consul.
RunBootstrap ==
  /\ pc = "bootstrap"
  /\ \/ CallStep /\ UNCHANGED judging
     \/ Silent("bootstrap") /\ Stop("lost") /\ UNCHANGED state
  /\ UNCHANGED <<running, cluster>>

AttemptJoins ==
  /\ pc = "step" /\ Job!Attach
  /\ UNCHANGED <<cluster, pc, judging>>

\* A new segment in the log.
AttemptLaunches ==
  /\ pc = "step" /\ Job!Launch
  /\ ~other \/ Silent("busy")
  /\ reached' = NoService
  /\ UNCHANGED <<svc, other, ended, calm, pc, judging>>

AttemptRefused ==
  /\ pc = "step"
  /\ \/ (other \/ Silent("alive")) /\ UNCHANGED <<running, reached>>
     \/ Silent("start") /\ reached' \in {reached, NoService}
  /\ Job!Refuse /\ Stop("refused")
  /\ UNCHANGED <<svc, other, ended, calm>>

\* The step was found gone; one that stalled was stopped first.
AttemptEnds ==
  /\ pc = "step" /\ Job!Return
  /\ Ask("attempt")
  /\ UNCHANGED cluster

AttemptLost ==
  /\ pc = "step" /\ Job!GiveUp /\ Silent("wait")
  /\ Stop("lost")
  /\ UNCHANGED cluster

\* _last_service; then the same blockers get a settle window and a second look.
ReadLog ==
  /\ pc = "log"
  /\ \E name \in {reached} \cup (IF Silent("log") THEN {NoService} ELSE {}) :
       /\ last' = name
       /\ \/ /\ SameBlockers /\ pc' = "readiness" /\ asking' = "settled"
             /\ UNCHANGED <<state, attempt, seen, green, prev, verdict, suspect>>
          \/ ~SameBlockers /\ NextAttempt
  /\ UNCHANGED <<running, cluster>>

-----------------------------------------------------------------------------
(* The deploy, the services, the operator.                                 *)

\* The deploy walks its list; a service may come up, hang or not be placed,
\* and one that is up is passed by.
DeployService(s) ==
  /\ running /\ reached' = s
  /\ svc' \in {[svc EXCEPT ![s] = to] :
                 to \in CASE svc[s] = "missing" -> {"starting", "ready"} \cup
                               (IF calm THEN {} ELSE {"missing"})
                          [] svc[s] = "starting" -> {"starting", "ready"}
                          [] OTHER -> {"ready"}}
  /\ UNCHANGED <<running, state, other, ended, calm, pc, judging>>

Settles(s) ==
  /\ svc[s] = "starting" /\ svc' = [svc EXCEPT ![s] = "ready"]
  /\ UNCHANGED <<running, state, reached, other, ended, calm, pc, judging>>

Fails(s) ==
  /\ svc[s] = "ready" /\ ~calm /\ svc' = [svc EXCEPT ![s] = "starting"]
  /\ UNCHANGED <<running, state, reached, other, ended, calm, pc, judging>>

\* It walked its list, or broke off, or was killed.
DeployEnds ==
  /\ Job!Ends
  /\ calm => \A s \in Service : svc[s] # "missing"
  /\ ended' = IF ended < 2 THEN ended + 1 ELSE 2
  /\ UNCHANGED <<svc, reached, other, calm, pc, judging>>

Abort ==
  /\ pc # "idle" /\ ~calm
  /\ IF state \in {"calling", "waiting"} THEN Job!Abort
                                         ELSE UNCHANGED <<running, state>>
  /\ Stop("none")
  /\ UNCHANGED cluster

OtherStarts ==
  /\ ~calm /\ ~other /\ other' = TRUE
  /\ UNCHANGED <<running, state, svc, reached, ended, calm, pc, judging>>

OtherEnds ==
  /\ other /\ other' = FALSE
  /\ UNCHANGED <<running, state, svc, reached, ended, calm, pc, judging>>

Becalm ==
  /\ ~calm /\ calm' = TRUE
  /\ UNCHANGED <<running, state, svc, reached, other, ended, pc, judging>>

-----------------------------------------------------------------------------

Attempt == AttemptJoins \/ AttemptLaunches \/ AttemptRefused \/ AttemptEnds
           \/ AttemptLost \/ ReadLog

Run ==
  \/ StartRun \/ RunAlive \/ RunBusy \/ RunWrite \/ RunBootstrap
  \/ Attempt \/ AskReadiness \/ AskHealth

Next ==
  \/ Run \/ DeployEnds \/ Abort \/ OtherStarts \/ OtherEnds \/ Becalm
  \/ \E s \in Service : DeployService(s) \/ Settles(s) \/ Fails(s)

Spec == Init /\ [][Next]_vars

\* The operator runs the phase until it is done; the deploy comes to every
\* service and ends, what was deployed settles, and other steps end.
FairSpec ==
  /\ Spec /\ WF_vars(Run) /\ WF_vars(DeployEnds) /\ WF_vars(OtherEnds)
  /\ \A s \in Service :
       WF_vars(svc[s] = "missing" /\ DeployService(s)) /\ WF_vars(Settles(s))

-----------------------------------------------------------------------------

\* access-profile.yml, Vault and Consul are never rewritten while a deploy of
\* ours reads them.
RewritesAlone == pc \in {"write", "bootstrap"} => ~running

\* "Stuck" is said only after two deploys have ended in this run: a step that
\* survived its kill is not judged twice.
StuckAfterTwoDeploys == verdict = "stuck" => ended = 2

\* Once nothing fails any more, running the phase again gets it done.
Recovers == calm ~> (verdict = "done" /\ \A s \in Core \cup Infra : svc[s] = "ready")

\* The service a stuck deploy accuses is not one that is READY.
AccusedIsNotReady ==
  [][verdict # "stuck" /\ verdict' = "stuck" /\ suspect' # NoService
       => svc[suspect'] # "ready"]_vars

\* "They deployed but never became READY" is said of deployed services only.
SaidDeployedIsTrue ==
  verdict = "stuck" /\ suspect = NoService => \A b \in seen : b[1] = "not_ready"

\* Advisory services alone do not keep the phase from being accepted.
AdvisoryIsTolerated ==
  [][verdict # "red" /\ verdict' = "red" => seen # {} \/ ~InfraHealthy]_vars
=============================================================================
