---------------------------- MODULE DetachedStep ----------------------------
(***************************************************************************)
(* A long `wso` step on the bootstrap, as phases 60, 70 and 80 start it    *)
(* and wait for it: start_detached_once, wait_while_running and            *)
(* _stop_stalled of context.py.                                            *)
(*                                                                         *)
(* The step is a CLI wrapper and the worker it starts, which outlives it.  *)
(* Time is counted in polls of the wait.                                   *)
(***************************************************************************)
EXTENDS Naturals, FiniteSets

CONSTANTS
  Faulty,      \* the remote calls that may go unanswered
  Limit,       \* _UNREACHABLE_LIMIT
  StallAfter,  \* stall_after, or 0 where the phase sets none
  Timeout      \* timeout

Calls == {"alive", "busy", "start", "poll", "term", "kill", "gone"}

ASSUME DetachedStepAssumption ==
  /\ Faulty \subseteq Calls
  /\ Limit \in Nat \ {0} /\ StallAfter \in Nat /\ Timeout \in Nat

\* Two places for the step: one more than there should ever be.
Slots == {1, 2}

VARIABLES
  \* the bootstrap
  step,         \* per slot: "none", "wrapper", "both", "worker"
  wedged,       \* the step hangs in the kernel and takes no signal
  other,        \* another wso step is at work
  grown,        \* the log has grown since the wait read it last
  quiet,        \* the polls slept since the log grew last
  \* the call
  pc,           \* where the call is; the points of the wait are below
  verdict,      \* how it ended
  waited, lastChange, unreachable,   \* the counters of wait_while_running
  tries, answered                    \* those of _stop_stalled

bootstrap == <<step, wedged, other>>
log       == <<grown, quiet>>
counters  == <<waited, lastChange, unreachable>>
stopping  == <<tries, answered>>
vars      == <<bootstrap, log, pc, verdict, counters, stopping>>

Points == {"idle", "alive", "busy", "start", "poll", "term", "gone.term",
           "kill", "gone.kill", "returned", "raised"}

TypeOK ==
  /\ step \in [Slots -> {"none", "wrapper", "both", "worker"}]
  /\ wedged \in BOOLEAN /\ other \in BOOLEAN
  /\ grown \in BOOLEAN /\ quiet \in Nat
  /\ pc \in Points
  /\ verdict \in {"none", "unknown", "busy", "not_started", "ended", "lost",
                  "timeout", "stopped", "wedged"}
  /\ waited \in 0..Timeout + 1 /\ lastChange \in 0..Timeout
  /\ unreachable \in 0..Limit - 1
  /\ tries \in 0..2 /\ answered \in BOOLEAN

Init ==
  /\ step = [s \in Slots |-> "none"] /\ wedged = FALSE /\ other \in BOOLEAN
  /\ grown = FALSE /\ quiet = 0
  /\ pc = "idle" /\ verdict = "none"
  /\ waited = 0 /\ lastChange = 0 /\ unreachable = 0
  /\ tries = 0 /\ answered = FALSE

-----------------------------------------------------------------------------
(* What pgrep sees.                                                        *)

AtWork == {s \in Slots : step[s] # "none"}

\* Fault: only the wrapper is looked for.
AliveWrapper == \E s \in Slots : step[s] \in {"wrapper", "both"}

Alive == AtWork # {}
Busy  == Alive \/ other

Silent(call) == call \in Faulty

ResetWait ==
  /\ waited' = 0 /\ lastChange' = 0 /\ unreachable' = 0
  /\ tries' = 0 /\ answered' = FALSE

Return(how) ==
  /\ pc' = "returned" /\ verdict' = how
  /\ ResetWait

Raise(what) ==
  /\ pc' = "raised" /\ verdict' = what
  /\ ResetWait

-----------------------------------------------------------------------------
(* start_detached_once                                                     *)

CallStep ==
  /\ pc \in {"idle", "returned", "raised"}
  /\ pc' = "alive" /\ verdict' = "none"
  /\ UNCHANGED <<bootstrap, log, counters, stopping>>

\* The first reading of the log always counts as new.
StartWait == pc' = "poll" /\ grown' = TRUE /\ quiet' = 0

\* Re-attach, go on, or refuse: silence is not an answer here.
CheckAlive ==
  /\ pc = "alive"
  /\ \/ Alive /\ StartWait /\ UNCHANGED <<verdict, counters, stopping>>
     \/ /\ ~Alive /\ pc' = "busy"
        /\ UNCHANGED <<log, verdict, counters, stopping>>
     \/ Silent("alive") /\ Raise("unknown") /\ UNCHANGED log
  /\ UNCHANGED bootstrap

CheckBusy ==
  /\ pc = "busy"
  /\ \/ Busy /\ Raise("busy")
     \/ /\ ~Busy \/ Silent("busy")
        /\ pc' = "start" /\ UNCHANGED <<verdict, counters, stopping>>
  /\ UNCHANGED <<bootstrap, log>>

Launch(S) == step' = [s \in Slots |-> IF s \in S THEN "wrapper" ELSE step[s]]

\* node_run repeats an unanswered launch over the password login.
Start ==
  /\ pc = "start"
  /\ \E S \in SUBSET (Slots \ AtWork) :
       /\ Launch(S)
       /\ \/ /\ Cardinality(S) = 1 \/ (Silent("start") /\ Cardinality(S) = 2)
             /\ StartWait /\ UNCHANGED <<verdict, counters, stopping>>
          \/ Silent("start") /\ Raise("not_started") /\ UNCHANGED log
  /\ UNCHANGED <<wedged, other>>

-----------------------------------------------------------------------------
(* wait_while_running: one poll, with the sleep that follows it.           *)

Sleep == waited' = waited + 1 /\ quiet' = quiet + 1 /\ pc' = "poll"

PollTimeout ==
  /\ pc = "poll" /\ waited > Timeout
  /\ Raise("timeout")
  /\ UNCHANGED <<bootstrap, log>>

PollDead ==
  /\ pc = "poll" /\ waited <= Timeout
  /\ ~Alive /\ Return("ended")
  /\ UNCHANGED <<bootstrap, log>>

\* Fault: one poll too many before silence is given up on.
PollSilentOnceMore ==
  /\ pc = "poll" /\ waited <= Timeout
  /\ Silent("poll")
  /\ \/ /\ unreachable >= Limit
        /\ Raise("lost") /\ UNCHANGED log
     \/ /\ unreachable < Limit
        /\ unreachable' = unreachable + 1 /\ Sleep
        /\ UNCHANGED <<grown, verdict, lastChange, stopping>>
  /\ UNCHANGED bootstrap

PollSilent ==
  /\ pc = "poll" /\ waited <= Timeout
  /\ Silent("poll")
  /\ \/ /\ unreachable + 1 >= Limit
        /\ Raise("lost") /\ UNCHANGED log
     \/ /\ unreachable + 1 < Limit
        /\ unreachable' = unreachable + 1 /\ Sleep
        /\ UNCHANGED <<grown, verdict, lastChange, stopping>>
  /\ UNCHANGED bootstrap

\* Fault: the moment of the change is not noted.
PollMovingUnnoted ==
  /\ pc = "poll" /\ waited <= Timeout
  /\ Alive /\ grown
  /\ grown' = FALSE /\ lastChange' = lastChange /\ unreachable' = 0
  /\ Sleep
  /\ UNCHANGED <<bootstrap, verdict, stopping>>

\* Fault: a step that keeps talking is waited for without counting.
PollMovingUncounted ==
  /\ pc = "poll" /\ waited <= Timeout
  /\ Alive /\ grown
  /\ grown' = FALSE /\ lastChange' = waited /\ unreachable' = 0
  /\ quiet' = quiet + 1
  /\ UNCHANGED <<bootstrap, pc, verdict, waited, stopping>>

PollMoving ==
  /\ pc = "poll" /\ waited <= Timeout
  /\ Alive /\ grown
  /\ grown' = FALSE /\ lastChange' = waited /\ unreachable' = 0
  /\ Sleep
  /\ UNCHANGED <<bootstrap, verdict, stopping>>

PollQuiet ==
  /\ pc = "poll" /\ waited <= Timeout
  /\ Alive /\ ~grown
  /\ unreachable' = 0
  /\ IF StallAfter > 0 /\ waited - lastChange >= StallAfter
     THEN pc' = "term" /\ UNCHANGED <<quiet, waited>>
     ELSE Sleep
  /\ UNCHANGED <<bootstrap, grown, verdict, lastChange, stopping>>

-----------------------------------------------------------------------------
(* _stop_stalled                                                           *)

\* SIGTERM leaves any part of the step behind, SIGKILL leaves none; neither
\* ends what hangs in the kernel.
Left(s) == CASE step[s] = "both" -> {"none", "wrapper", "worker", "both"}
             [] OTHER -> {"none", step[s]}
Terminate ==
  IF wedged THEN UNCHANGED step
  ELSE step' \in [Slots -> {"none", "wrapper", "both", "worker"}]
       /\ \A s \in Slots : step'[s] \in Left(s)
Kill == step' = IF wedged THEN step ELSE [s \in Slots |-> "none"]

LookFor(point) == pc' = point /\ tries' = 0

StopTerm ==
  /\ pc = "term" /\ LookFor("gone.term") /\ answered' = FALSE
  /\ Terminate \/ (Silent("term") /\ UNCHANGED step)
  /\ UNCHANGED <<wedged, other, log, verdict, counters>>

StopKill ==
  /\ pc = "kill" /\ LookFor("gone.kill")
  /\ Kill \/ (Silent("kill") /\ UNCHANGED step)
  /\ UNCHANGED <<wedged, other, log, verdict, counters, answered>>

\* Three looks after each signal; the last one that fails is the verdict.
Looked(heard) ==
  \/ /\ tries < 2 /\ tries' = tries + 1 /\ answered' = heard
     /\ UNCHANGED <<pc, verdict, counters>>
  \/ /\ tries = 2 /\ pc = "gone.term"
     /\ pc' = "kill" /\ answered' = heard
     /\ UNCHANGED <<verdict, counters, tries>>
  \/ /\ tries = 2 /\ pc = "gone.kill"
     /\ Raise(IF heard THEN "wedged" ELSE "lost")

\* Fault: whatever is not an answer of "alive" counts as gone.
LookSilentIsGone ==
  /\ pc \in {"gone.term", "gone.kill"}
  /\ \/ (~Alive \/ Silent("gone")) /\ Return("stopped")
     \/ Alive /\ Looked(TRUE)
  /\ UNCHANGED <<bootstrap, log>>

\* Only an answer of "dead" counts.
Look ==
  /\ pc \in {"gone.term", "gone.kill"}
  /\ \/ ~Alive /\ Return("stopped")
     \/ Alive /\ Looked(TRUE)
     \/ Silent("gone") /\ Looked(answered)
  /\ UNCHANGED <<bootstrap, log>>

-----------------------------------------------------------------------------
(* The bootstrap, and the run that is interrupted.                         *)

Abort ==
  /\ pc \notin {"idle", "returned", "raised"}
  /\ pc' = "idle" /\ verdict' = "none" /\ ResetWait
  /\ UNCHANGED <<bootstrap, log>>

Spawn(s) ==
  /\ step[s] = "wrapper" /\ ~wedged
  /\ step' = [step EXCEPT ![s] = "both"]
  /\ UNCHANGED <<wedged, other, log, pc, verdict, counters, stopping>>

\* The worker ends first, as a rule; killed by hand, the wrapper does.
StepEnds(s) ==
  /\ step[s] # "none" /\ ~wedged
  /\ step' = [step EXCEPT ![s] = IF @ = "both" THEN "worker" ELSE "none"]
  /\ UNCHANGED <<wedged, other, log, pc, verdict, counters, stopping>>

LogGrows ==
  /\ Alive /\ ~wedged
  /\ grown' = TRUE /\ quiet' = 0
  /\ UNCHANGED <<bootstrap, pc, verdict, counters, stopping>>

Wedge ==
  /\ Alive /\ ~wedged /\ wedged' = TRUE
  /\ UNCHANGED <<step, other, log, pc, verdict, counters, stopping>>

Reboot ==
  /\ step' = [s \in Slots |-> "none"] /\ wedged' = FALSE /\ other' = FALSE
  /\ UNCHANGED <<log, pc, verdict, counters, stopping>>

OtherComesAndGoes ==
  /\ other' = ~other
  /\ UNCHANGED <<step, wedged, log, pc, verdict, counters, stopping>>

-----------------------------------------------------------------------------

StartOnce == CheckAlive \/ CheckBusy \/ Start
Wait == PollTimeout \/ PollDead \/ PollSilent \/ PollMoving \/ PollQuiet
StopStalled == StopTerm \/ StopKill \/ Look

World ==
  \/ CallStep \/ Abort
  \/ \E s \in Slots : Spawn(s) \/ StepEnds(s)
  \/ LogGrows \/ Wedge \/ Reboot \/ OtherComesAndGoes

Next == StartOnce \/ Wait \/ StopStalled \/ World

Spec == Init /\ [][Next]_vars

\* The run goes on; nothing is assumed of the bootstrap, the step or ssh but
\* that a call comes back, which run_with_key's time limit sees to.
FairSpec == Spec /\ WF_vars(StartOnce \/ Wait \/ StopStalled)

-----------------------------------------------------------------------------

\* aXs never has two of the step at work, whatever survives a stopped wait, a
\* kill or an aborted run.
OneStep == Cardinality(AtWork) <= 1

\* A step is stopped for being stuck only when its log has stood still for
\* StallAfter polls, those that went unanswered included.
StopsOnlyTheQuiet ==
  [][pc # "term" /\ pc' = "term" => quiet >= StallAfter]_vars

\* "It survived SIGTERM and SIGKILL" is said only of a step that did.
SaidWedgedIsTrue ==
  [][verdict # "wedged" /\ verdict' = "wedged" => wedged]_vars

\* Whatever the bootstrap does, the phase is told something in the end.
CallEnds == pc = "alive" ~> pc \in {"idle", "returned", "raised"}

\* The phase's view of the call.
CallState ==
  CASE pc \in {"alive", "busy", "start"} -> "calling"
    [] pc \in {"poll", "term", "gone.term", "kill", "gone.kill"} -> "waiting"
    [] OTHER -> pc

\* The promise the phases build on.
Promise == INSTANCE Step WITH running <- Alive, state <- CallState
KeepsPromise == Promise!Spec
=============================================================================
