------------------------------- MODULE Tenant -------------------------------
(***************************************************************************)
(* Phase 80 (p80_tenant.py): `wso access create-tenant`, believed done on  *)
(* its log or on the login page, and the step itself as Step promises it.  *)
(***************************************************************************)

CONSTANT Faulty   \* the remote calls that may go unanswered

Calls == {"log", "http", "alive", "busy", "start", "wait"}

ASSUME TenantAssumption == Faulty \subseteq Calls

VARIABLES
  \* the bootstrap, the cluster and the load balancer
  running,   \* `wso access create-tenant` is at work
  tenant,    \* the tenant exists
  logged,    \* create-tenant.log says "created successfully"
  lb,        \* "serving" the cluster, in "maintenance", or "unreachable"
  other,     \* another wso step is at work
  calm,      \* from here on nothing fails and nobody interferes
  \* the run
  pc, state, \* the next call; the state of the step's own call
  ran,       \* the probe is the one that confirms a run
  created,   \* what the probe read in the log
  verdict,   \* how the last run ended
  warned     \* its probe warned

world == <<tenant, logged, lb, other, calm>>
local == <<ran, created, verdict, warned>>
vars  == <<running, state, world, pc, local>>

Job == INSTANCE Step

TypeOK ==
  /\ running \in BOOLEAN
  /\ state \in {"idle", "calling", "waiting", "returned", "raised"}
  /\ tenant \in BOOLEAN /\ logged \in BOOLEAN
  /\ lb \in {"serving", "maintenance", "unreachable"}
  /\ other \in BOOLEAN /\ calm \in BOOLEAN
  /\ pc \in {"idle", "log", "http", "step", "check"}
  /\ pc = "step" <=> state \in {"calling", "waiting"}
  /\ ran \in BOOLEAN /\ created \in BOOLEAN /\ warned \in BOOLEAN
  /\ verdict \in {"none", "done", "failed"}

Init ==
  /\ running = FALSE /\ state = "idle"
  /\ tenant = FALSE /\ logged = FALSE
  /\ lb \in {"serving", "maintenance", "unreachable"}
  /\ other \in BOOLEAN /\ calm = FALSE
  /\ pc = "idle" /\ ran = FALSE /\ created = FALSE
  /\ verdict = "none" /\ warned = FALSE

Silent(call) == ~calm /\ call \in Faulty

\* A maintenance page answers 200 as well.
Http200 == lb = "maintenance" \/ (lb = "serving" /\ tenant)

-----------------------------------------------------------------------------
(* is_done                                                                 *)

Stop(how, warning) ==
  /\ pc' = "idle" /\ verdict' = how /\ warned' = warning
  /\ ran' = FALSE /\ created' = FALSE

StartRun ==
  /\ pc = "idle" /\ pc' = "log"
  /\ ran' = FALSE /\ created' = FALSE /\ verdict' = "none" /\ warned' = FALSE
  /\ UNCHANGED <<running, state, world>>

\* _tenant_created: silence reads as "not created".
ProbeLog ==
  /\ pc = "log" /\ pc' = "http"
  /\ created' \in {logged} \cup (IF Silent("log") THEN {FALSE} ELSE {})
  /\ UNCHANGED <<running, state, world, ran, verdict, warned>>

\* Fault: a log whose tenant does not answer is not enough.
ProbeHttpOnly ==
  /\ pc = "http"
  /\ \E ok \in {Http200} \cup (IF Silent("http") THEN {FALSE} ELSE {}) :
       \/ ok /\ Stop("done", ~created) /\ UNCHANGED state
       \/ ~ok /\ ran /\ Stop("failed", FALSE) /\ UNCHANGED state
       \/ /\ ~ok /\ ~ran
          /\ pc' = "step" /\ state' = "calling" /\ UNCHANGED local
  /\ UNCHANGED <<running, world>>

\* Fault: 200 alone is done, without a word.
ProbeHttpUnwarned ==
  /\ pc = "http"
  /\ \/ (Http200 \/ created) /\ Stop("done", FALSE) /\ UNCHANGED state
     \/ ~(Http200 \/ created) /\ ran /\ Stop("failed", FALSE) /\ UNCHANGED state
     \/ /\ ~(Http200 \/ created) /\ ~ran
        /\ pc' = "step" /\ state' = "calling" /\ UNCHANGED local
  /\ UNCHANGED <<running, world>>

\* The log decides; 200 alone counts too, with a warning, and so does a log
\* whose tenant does not answer.
ProbeHttp ==
  /\ pc = "http"
  /\ \E ok \in {Http200} \cup (IF Silent("http") THEN {FALSE} ELSE {}) :
       \/ (ok \/ created) /\ Stop("done", ~(ok /\ created)) /\ UNCHANGED state
       \/ ~(ok \/ created) /\ ran /\ Stop("failed", FALSE) /\ UNCHANGED state
       \/ /\ ~(ok \/ created) /\ ~ran
          /\ pc' = "step" /\ state' = "calling" /\ UNCHANGED local
  /\ UNCHANGED <<running, world>>

-----------------------------------------------------------------------------
(* run                                                                     *)

RunJoins ==
  /\ pc = "step" /\ Job!Attach
  /\ UNCHANGED <<world, pc, local>>

\* Fault: the look for another step finds its own command line.
RunLaunchesBusy ==
  /\ pc = "step" /\ ~running /\ Job!Refuse /\ Stop("failed", FALSE)
  /\ UNCHANGED <<running, world>>

RunLaunches ==
  /\ pc = "step" /\ (~other \/ Silent("busy"))
  /\ Job!Launch
  /\ UNCHANGED <<world, pc, local>>

\* Fault: the refusal is not raised.
RunRefusedUnraised ==
  /\ pc = "step"
  /\ (other \/ Silent("alive")) /\ UNCHANGED running
  /\ Job!Refuse
  /\ UNCHANGED <<world, pc, local>>

RunRefused ==
  /\ pc = "step"
  /\ \/ (other \/ Silent("alive")) /\ UNCHANGED running
     \/ Silent("start")
  /\ Job!Refuse /\ Stop("failed", FALSE)
  /\ UNCHANGED world

RunWaited ==
  /\ pc = "step" /\ Job!Return
  /\ pc' = "check"
  /\ UNCHANGED <<world, local>>

RunLost ==
  /\ pc = "step" /\ Silent("wait") /\ Job!GiveUp
  /\ Stop("failed", FALSE)
  /\ UNCHANGED world

\* The log must say so; then the engine probes again.
RunChecks ==
  /\ pc = "check"
  /\ \/ /\ logged /\ pc' = "log" /\ ran' = TRUE
        /\ UNCHANGED <<created, verdict, warned>>
     \/ (~logged \/ Silent("log")) /\ Stop("failed", FALSE)
  /\ UNCHANGED <<running, state, world>>

-----------------------------------------------------------------------------
(* create-tenant, the load balancer, the operator.                         *)

Creates ==
  /\ running /\ tenant' = TRUE
  /\ UNCHANGED <<running, state, logged, lb, other, calm, pc, local>>

Logs ==
  /\ running /\ tenant /\ logged' = TRUE
  /\ UNCHANGED <<running, state, tenant, lb, other, calm, pc, local>>

\* It may die before it created, and before it said so.
StepEnds ==
  /\ Job!Ends
  /\ calm => logged
  /\ UNCHANGED <<world, pc, local>>

LbChanges ==
  /\ ~calm
  /\ lb' \in {"serving", "maintenance", "unreachable"} \ {lb}
  /\ UNCHANGED <<running, state, tenant, logged, other, calm, pc, local>>

LbServes ==
  /\ lb # "serving" /\ lb' = "serving"
  /\ UNCHANGED <<running, state, tenant, logged, other, calm, pc, local>>

OtherStarts ==
  /\ ~calm /\ ~other /\ other' = TRUE
  /\ UNCHANGED <<running, state, tenant, logged, lb, calm, pc, local>>

OtherEnds ==
  /\ other /\ other' = FALSE
  /\ UNCHANGED <<running, state, tenant, logged, lb, calm, pc, local>>

Abort ==
  /\ pc # "idle" /\ ~calm
  /\ IF state \in {"calling", "waiting"} THEN Job!Abort
                                         ELSE UNCHANGED <<running, state>>
  /\ Stop("none", FALSE)
  /\ UNCHANGED world

Becalm ==
  /\ ~calm /\ calm' = TRUE
  /\ UNCHANGED <<running, state, tenant, logged, lb, other, pc, local>>

-----------------------------------------------------------------------------

Run == StartRun \/ ProbeLog \/ ProbeHttp \/ RunJoins \/ RunLaunches
       \/ RunRefused \/ RunWaited \/ RunLost \/ RunChecks

Next ==
  \/ Run \/ Creates \/ Logs \/ StepEnds
  \/ LbChanges \/ LbServes \/ OtherStarts \/ OtherEnds \/ Abort \/ Becalm

Spec == Init /\ [][Next]_vars

\* The operator runs the phase until it is done; create-tenant does its work,
\* other steps end, and the load balancer comes to serve the cluster.
FairSpec ==
  /\ Spec /\ WF_vars(Run) /\ WF_vars(Creates) /\ WF_vars(Logs)
  /\ WF_vars(StepEnds) /\ WF_vars(LbServes) /\ WF_vars(OtherEnds)

-----------------------------------------------------------------------------

\* A phase that is done without a warning has a tenant, whatever the load
\* balancer answers in its place.
GreenMeansTenant == verdict = "done" /\ ~warned => tenant

\* Once create-tenant has said that it succeeded, no later run starts it
\* again, whatever the load balancer lets the bootstrap see.
CreatedIsNotRerun ==
  [](logged /\ ~running /\ pc = "idle" => []~running)

\* Once nothing fails any more, running the phase again creates the tenant.
TenantComes == calm ~> (verdict = "done" /\ tenant)
=============================================================================
