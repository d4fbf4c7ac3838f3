------------------------------- MODULE Prepare -------------------------------
(***************************************************************************)
(* The phases that only wait and look, 00, 20 and 30, and phase 40, which  *)
(* puts the asset bundle, the wso CLI and the images on the bootstrap:     *)
(* what one deploy asks and does, call by call, while nodes boot and drop, *)
(* the disk fills, and what an earlier run left goes on.                   *)
(***************************************************************************)
EXTENDS Naturals, FiniteSets

CONSTANTS
  Nodes,     \* how many nodes; the first one is the bootstrap
  Polls,     \* bound: the polls of a waiting phase (80 in the code)
  Room,      \* the disk of the bootstrap, in blocks
  Loads,     \* bound: the `wso configure` whose caller is gone
  Troubles   \* bound: the things that go wrong

Node == 1..Nodes
Boot == 1
Need == 2    \* blocks of the bundle
After == 1   \* blocks it unpacks to

ASSUME PrepareAssumption ==
  /\ Nodes \in Nat \ {0} /\ Polls \in Nat \ {0}
  /\ Room \in Nat /\ Room >= Need + After
  /\ Loads \in Nat /\ Troubles \in Nat

VARIABLES
  \* the operator's side
  here,      \* the preflight checks that hold
  \* the nodes
  answers,   \* per node: ssh answers
  reports,   \* per node: what it says of its network, next to the configuration
  record,    \* the bootstrap resolves the tenant to the load balancer
  \* the bootstrap
  home,      \* the bundle in the staging directory: "none", "part" or "whole"
  assets,    \* what <cluster>/assets holds
  others,    \* the blocks that something else takes
  dfReads,   \* what `df` prints can be read
  wso,       \* the CLI is installed
  images,    \* the images loaded, of two
  loads,     \* `wso configure` at work whose caller is gone
  busy,      \* a step of WSO_BUSY at work
  \* the run
  pc,        \* the call it makes next
  at, silent, faulty,  \* a collection: the node it is at, and what it found
  polls,
  blind,     \* its busy check went unanswered
  mine,      \* the `wso configure` it waits for
  green,     \* the phases it found done
  told,      \* what runs have asked of the operator
  troubles

nodes     == <<answers, reports, record>>
disk      == <<home, assets, others, dfReads>>
bootstrap == <<disk, wso, images, loads, busy>>
walk      == <<at, silent, faulty, polls>>
run       == <<pc, walk, blind, mine, green>>
vars      == <<here, nodes, bootstrap, run, told, troubles>>

Checks == {"ova", "ovftool", "vcenter", "dns"}
Asks   == {"checks", "nodes", "record", "space"}
Collecting == {"20.ask", "20.poll", "20.check", "20.confirm"}
Looking    == {"30.ask", "30.poll", "30.confirm"}
Writing    == {"40.mkdir", "40.space", "40.room", "40.upload", "40.move", "40.unzip",
               "40.install", "40.version", "40.eula", "40.configure", "40.load",
               "40.again"}
Pcs == Collecting \cup Looking \cup Writing
         \cup {"idle", "00.ask", "40.ask", "40.busy", "40.confirm"}

TypeOK ==
  /\ here \subseteq Checks
  /\ answers \in [Node -> BOOLEAN]
  /\ reports \in [Node -> {"right", "wrong", "missing"}] /\ record \in BOOLEAN
  /\ home \in {"none", "part", "whole"} /\ assets \subseteq {"zip", "files"}
  /\ others \in 0..Room /\ dfReads \in BOOLEAN
  /\ wso \in BOOLEAN /\ images \in 0..2 /\ loads \in 0..Loads /\ busy \in BOOLEAN
  /\ pc \in Pcs /\ at \in 1..(Nodes + 1)
  /\ silent \subseteq Node /\ faulty \subseteq Node /\ polls \in 0..(Polls - 1)
  /\ blind \in BOOLEAN /\ mine \in {"none", "runs", "ok", "failed"}
  /\ green \subseteq {0, 20, 30, 40} /\ told \subseteq Asks
  /\ troubles \in 0..Troubles

Init ==
  /\ here \in {{}, {"ova", "ovftool", "vcenter"}, Checks}
  /\ answers = [n \in Node |-> FALSE]
  /\ reports \in [Node -> {"right", "wrong", "missing"}] /\ record = FALSE
  /\ home = "none" /\ assets = {} /\ others \in 0..Room /\ dfReads \in BOOLEAN
  /\ wso = FALSE /\ images = 0 /\ loads = 0 /\ busy = FALSE
  /\ pc = "idle" /\ at = 1 /\ silent = {} /\ faulty = {} /\ polls = 0
  /\ blind = FALSE /\ mine = "none" /\ green = {} /\ told = {} /\ troubles = 0

----------------------------------------------------------------------------
(* The run, from one phase to the next.                                    *)

Trouble == troubles < Troubles /\ troubles' = troubles + 1
Smooth  == UNCHANGED troubles

Goes(where) ==
  /\ pc' = where /\ at' = 1 /\ silent' = {} /\ faulty' = {}
  /\ polls' = IF where \in {"20.poll", "30.poll"} /\ pc = where THEN polls + 1 ELSE 0

\* A phase that is done, whether its run did it or nothing had to be done.
Done(phase, next) ==
  /\ green' = green \cup {phase} /\ Goes(next) /\ UNCHANGED <<blind, mine, told>>

\* A phase that raises or stays open ends the run, which says what is missing.
Fails(asked) ==
  /\ Goes("idle") /\ told' = told \cup asked
  /\ mine' = "none" /\ blind' = FALSE /\ green' = {}

Continues(where) == Goes(where) /\ UNCHANGED <<blind, mine, green, told>>

\* A call to a node that does not answer fails, and so may any other. A command
\* may have run all the same.
Answered(n)   == answers[n] /\ Smooth
Unanswered(n) == IF answers[n] THEN Trouble ELSE Smooth

Start ==
  /\ pc = "idle" /\ Goes("00.ask") /\ green' = {} /\ blind' = FALSE
  /\ UNCHANGED <<here, nodes, bootstrap, mine, told, troubles>>

\* Phase 00, whose probe and run make the same checks.
Preflight ==
  /\ pc = "00.ask"
  /\ IF here = Checks THEN Done(0, "20.ask") ELSE Fails({"checks"})
  /\ UNCHANGED <<here, nodes, bootstrap, troubles>>

----------------------------------------------------------------------------
(* Phase 20.                                                               *)

\* Mutant of Problem: compared only when both sides say something.
ProblemIfSaid(n) == reports[n] = "wrong"

\* compare: a value the node does not report is a problem as well.
Problem(n) == reports[n] \in {"wrong", "missing"}

\* collect_node, one node of _states; one that is not reached has no problems.
CollectNode ==
  /\ pc \in Collecting /\ at <= Nodes /\ at' = at + 1
  /\ \/ /\ Answered(at) /\ UNCHANGED silent
        /\ faulty' = IF Problem(at) THEN faulty \cup {at} ELSE faulty
     \/ Unanswered(at) /\ silent' = silent \cup {at} /\ UNCHANGED faulty
  /\ UNCHANGED <<here, nodes, bootstrap, pc, polls, blind, mine, green, told>>

Collected(where) == pc = where /\ at > Nodes

\* Mutant of Fit: what run looks at, the problems.
FitSoFar == faulty = {}

\* is_done: every node reached, no problem on any.
Fit == silent = {} /\ faulty = {}

Ask20 ==
  /\ Collected("20.ask")
  /\ IF Fit THEN Done(20, "30.ask") ELSE Continues("20.poll")
  /\ UNCHANGED <<here, nodes, bootstrap, troubles>>

\* Mutant of Poll20: one poll more.
Poll20OneMore ==
  /\ Collected("20.poll")
  /\ IF silent = {} THEN Continues("20.check")
     ELSE IF polls < Polls THEN Continues("20.poll") ELSE Fails({"nodes"})
  /\ UNCHANGED <<here, nodes, bootstrap, troubles>>

\* The wait of run: until every node is reached, ...
Poll20 ==
  /\ Collected("20.poll")
  /\ IF silent = {} THEN Continues("20.check")
     ELSE IF polls + 1 < Polls THEN Continues("20.poll") ELSE Fails({"nodes"})
  /\ UNCHANGED <<here, nodes, bootstrap, troubles>>

\* ... and the problems of a second collection.
Check20 ==
  /\ Collected("20.check")
  /\ IF faulty = {} THEN Continues("20.confirm") ELSE Fails({"nodes"})
  /\ UNCHANGED <<here, nodes, bootstrap, troubles>>

Confirm20 ==
  /\ Collected("20.confirm")
  /\ IF Fit THEN Done(20, "30.ask") ELSE Fails({"nodes"})
  /\ UNCHANGED <<here, nodes, bootstrap, troubles>>

----------------------------------------------------------------------------
(* Phase 30.                                                               *)

\* Mutant of Look: without the bootstrap, the answer of the operator's resolver.
LookAnyway(done) ==
  \/ Answered(Boot) /\ done = record
  \/ Unanswered(Boot) /\ done = ("dns" \in here)

\* _probe: the bootstrap's answer, and without one an advisory look from here
\* that never makes the phase done.
Look(done) ==
  \/ Answered(Boot) /\ done = record
  \/ Unanswered(Boot) /\ done = FALSE

Look30 ==
  /\ pc \in Looking
  /\ \E done \in BOOLEAN :
       /\ Look(done)
       /\ \/ done /\ pc = "30.poll" /\ Continues("30.confirm")
          \/ done /\ pc # "30.poll" /\ Done(30, "40.ask")
          \/ ~done /\ pc = "30.ask" /\ Continues("30.poll")
          \/ ~done /\ pc = "30.poll" /\ polls + 1 < Polls /\ Continues("30.poll")
          \/ /\ ~done /\ Fails({"record"})
             /\ pc = "30.confirm" \/ (pc = "30.poll" /\ polls + 1 = Polls)
  /\ UNCHANGED <<here, nodes, bootstrap>>

----------------------------------------------------------------------------
(* Phase 40.                                                               *)

\* Mutant of Loaded: one line is enough.
LoadedSome == wso /\ images >= 1

\* `wso version` prints a line per image that is loaded.
Loaded == wso /\ images >= 2

Ask40 ==
  /\ pc = "40.ask"
  /\ \/ /\ Answered(Boot)
        /\ IF Loaded THEN Done(40, "idle") ELSE Continues("40.busy")
     \/ Unanswered(Boot) /\ Continues("40.busy")
  /\ UNCHANGED <<here, nodes, bootstrap>>

\* Mutant of Busy40: the bundle is staged without asking.
Busy40Unasked ==
  /\ pc = "40.busy" /\ Continues("40.mkdir")
  /\ UNCHANGED <<here, nodes, bootstrap, troubles>>

\* WSO_BUSY; no answer reads as "not busy".
Busy40 ==
  /\ pc = "40.busy"
  /\ \/ Answered(Boot) /\ IF busy THEN Fails({}) ELSE Continues("40.mkdir")
     \/ /\ Unanswered(Boot) /\ blind' = TRUE /\ Goes("40.mkdir")
        /\ UNCHANGED <<mine, green, told>>
  /\ UNCHANGED <<here, nodes, bootstrap>>

\* bootstrap_step: a call that fails raises, whether or not the command ran.
StepOf40(where, next, effect, undone) ==
  /\ pc = where
  /\ \/ Answered(Boot) /\ effect /\ Continues(next)
     \/ Unanswered(Boot) /\ (effect \/ undone) /\ Fails({})
  /\ UNCHANGED <<here, nodes, loads, busy, images, others, dfReads>>

Mkdir40 == StepOf40("40.mkdir", "40.space",
                    UNCHANGED <<home, assets, wso>>, UNCHANGED <<home, assets, wso>>)

Size(h) == CASE h = "none" -> 0 [] h = "part" -> 1 [] h = "whole" -> Need

Free == Room - others - Size(home)
          - (IF "zip" \in assets THEN Need ELSE 0)
          - (IF "files" \in assets THEN After ELSE 0)

\* Mutant of Refuses: what could not be read is taken for a full disk.
RefusesUnread == ~dfReads \/ Free < Need

\* _check_space: refuses only what certainly cannot land, ...
Refuses == dfReads /\ Free < Need

Df(where, next) ==
  /\ pc = where
  /\ \/ Answered(Boot) /\ IF Refuses THEN Fails({"space"}) ELSE Continues(next)
     \/ Unanswered(Boot) /\ Continues(next)
  /\ UNCHANGED <<here, nodes, bootstrap>>

\* ... in the staging directory or in the cluster's, which are on one disk here.
Space40 == Df("40.space", "40.room") \/ Df("40.room", "40.upload")

\* scp writes over what lies there; a transfer that breaks leaves a part.
Upload40 ==
  /\ pc = "40.upload"
  /\ \/ /\ Answered(Boot) /\ Free + Size(home) >= Need
        /\ home' = "whole" /\ Continues("40.move")
     \/ /\ Answered(Boot) /\ Free + Size(home) < Need
        /\ home' = (IF Free + Size(home) >= 1 THEN "part" ELSE "none")
        /\ Fails({"space"})
     \/ /\ Unanswered(Boot) /\ Fails({})
        /\ home' \in {home} \cup IF Free + Size(home) >= 1 THEN {"part"} ELSE {}
  /\ UNCHANGED <<here, nodes, assets, others, dfReads, wso, images, loads, busy>>

Move40 == StepOf40("40.move", "40.unzip",
                   home' = "none" /\ assets' = assets \cup {"zip"} /\ UNCHANGED wso,
                   UNCHANGED <<home, assets, wso>>)

\* unzip -o, over what an earlier run unpacked.
Unzip40 ==
  /\ "files" \in assets \/ Free >= After
  /\ StepOf40("40.unzip", "40.install",
              assets' = assets \cup {"files"} /\ UNCHANGED <<home, wso>>,
              UNCHANGED <<home, assets, wso>>)

DiskFull40 ==
  /\ pc = "40.unzip" /\ "files" \notin assets /\ Free < After
  /\ Fails({"space"}) /\ UNCHANGED <<here, nodes, bootstrap, troubles>>

Install40 == StepOf40("40.install", "40.version",
                      wso' = TRUE /\ UNCHANGED <<home, assets>>,
                      UNCHANGED <<home, assets, wso>>)

Version40 == StepOf40("40.version", "40.eula",
                      UNCHANGED <<home, assets, wso>>, UNCHANGED <<home, assets, wso>>)

Eula40 == StepOf40("40.eula", "40.configure",
                   UNCHANGED <<home, assets, wso>>, UNCHANGED <<home, assets, wso>>)

\* `wso configure`, over the key.
Configure40 ==
  /\ pc = "40.configure"
  /\ \/ Answered(Boot) /\ mine' = "runs"
     \/ Unanswered(Boot) /\ mine' = "failed"
  /\ Goes("40.load") /\ UNCHANGED <<here, nodes, bootstrap, blind, green, told>>

\* A call given up on, by run_timeout or a lost connection, leaves its command
\* at work, or ends it.
LetGo ==
  \/ mine # "runs" /\ UNCHANGED loads
  \/ mine = "runs" /\ loads < Loads /\ loads' = loads + 1
  \/ mine = "runs" /\ UNCHANGED loads

GiveUp40 ==
  /\ pc \in {"40.load", "40.again"} /\ mine = "runs"
  /\ IF answers[Boot] THEN Trouble ELSE Smooth
  /\ LetGo /\ mine' = "failed"
  /\ UNCHANGED <<here, nodes, disk, wso, images, busy, pc, walk, blind, green, told>>

\* node_run: whatever failed over the key is sent again over the password login.
Again40 ==
  /\ pc = "40.load" /\ mine = "failed" /\ Goes("40.again")
  /\ \/ Answered(Boot) /\ mine' = "runs"
     \/ Unanswered(Boot) /\ mine' = "failed"
  /\ UNCHANGED <<here, nodes, bootstrap, blind, green, told>>

Return40 ==
  /\ pc \in {"40.load", "40.again"}
  /\ \/ /\ mine = "ok" /\ mine' = "none" /\ Goes("40.confirm")
        /\ UNCHANGED <<blind, green, told>>
     \/ mine = "failed" /\ pc = "40.again" /\ Fails({})
  /\ UNCHANGED <<here, nodes, bootstrap, troubles>>

Confirm40 ==
  /\ pc = "40.confirm"
  /\ \/ Answered(Boot) /\ IF Loaded THEN Done(40, "idle") ELSE Fails({})
     \/ Unanswered(Boot) /\ Fails({})
  /\ UNCHANGED <<here, nodes, bootstrap>>

Run ==
  \/ Start \/ Preflight
  \/ CollectNode \/ Ask20 \/ Poll20 \/ Check20 \/ Confirm20
  \/ Look30
  \/ Ask40 \/ Busy40 \/ Mkdir40 \/ Space40 \/ Upload40 \/ Move40 \/ Unzip40
  \/ DiskFull40 \/ Install40 \/ Version40 \/ Eula40 \/ Configure40 \/ Again40
  \/ Return40 \/ Confirm40

----------------------------------------------------------------------------
(* The operator and the machines.                                          *)

\* The run is stopped, or its process ends.
Abort ==
  /\ pc # "idle" /\ Trouble /\ LetGo /\ Fails({})
  /\ home' \in {home} \cup IF pc = "40.upload" /\ Free + Size(home) >= 1
                           THEN {"part"} ELSE {}
  /\ UNCHANGED <<here, nodes, assets, others, dfReads, wso, images, busy>>

\* `wso configure` loads one image after the other, ...
Load ==
  /\ mine = "runs" \/ loads > 0
  /\ images < 2 /\ images' = images + 1
  /\ UNCHANGED <<here, nodes, disk, wso, loads, busy, run, told, troubles>>

\* ... and ends when both are, or when something is wrong.
LoadEnds ==
  /\ IF images = 2 THEN Smooth ELSE Trouble
  /\ \/ /\ mine = "runs" /\ mine' = (IF images = 2 THEN "ok" ELSE "failed")
        /\ UNCHANGED loads
     \/ loads > 0 /\ loads' = loads - 1 /\ UNCHANGED mine
  /\ UNCHANGED <<here, nodes, disk, wso, images, busy, pc, walk, blind, green, told>>

Boots ==
  /\ \E n \in Node : ~answers[n] /\ answers' = [answers EXCEPT ![n] = TRUE]
  /\ UNCHANGED <<here, reports, record, bootstrap, run, told, troubles>>

Drops ==
  /\ \E n \in Node : answers[n] /\ answers' = [answers EXCEPT ![n] = FALSE]
  /\ Trouble /\ UNCHANGED <<here, reports, record, bootstrap, run, told>>

\* The operator does what a run asked for.
FixChecks ==
  /\ "checks" \in told /\ told' = told \ {"checks"} /\ here' = Checks
  /\ UNCHANGED <<nodes, bootstrap, run, troubles>>

FixNodes ==
  /\ "nodes" \in told /\ told' = told \ {"nodes"}
  /\ reports' = [n \in Node |-> "right"]
  /\ UNCHANGED <<here, answers, record, bootstrap, run, troubles>>

FixRecord ==
  /\ "record" \in told /\ told' = told \ {"record"} /\ record' = TRUE
  /\ UNCHANGED <<here, answers, reports, bootstrap, run, troubles>>

\* Space for the bundle and what the warning adds to it: old archives go, or
\* whatever else takes it.
FreeSpace ==
  /\ "space" \in told /\ pc = "idle" /\ told' = told \ {"space"}
  /\ home' = "none" /\ assets' \in SUBSET assets /\ others' \in {0, others}
  /\ Free' >= Need + After
  /\ UNCHANGED <<here, nodes, dfReads, wso, images, loads, busy, run, troubles>>

\* A step of an aborted run, or by hand, on a cluster that had its images.
BusyBegins ==
  /\ pc = "idle" /\ images = 2 /\ ~busy /\ Trouble /\ busy' = TRUE
  /\ UNCHANGED <<here, nodes, disk, wso, images, loads, run, told>>

BusyEnds ==
  /\ busy /\ busy' = FALSE
  /\ UNCHANGED <<here, nodes, disk, wso, images, loads, run, told, troubles>>

Machines == Load \/ LoadEnds \/ BusyEnds

Next ==
  \/ Run \/ GiveUp40 \/ Abort \/ Machines \/ Boots \/ Drops
  \/ FixChecks \/ FixNodes \/ FixRecord \/ FreeSpace \/ BusyBegins

Spec == Init /\ [][Next]_vars

\* The operator runs the deploy until it is green and does what it asks for;
\* nodes come up, and what runs on the bootstrap ends. Space is freed between two
\* runs (as often as that is open, hence SF). A call to a bootstrap
\* that has gone is given up on.
FairSpec ==
  /\ Spec
  /\ WF_vars(Run) /\ WF_vars(Machines) /\ WF_vars(Boots)
  /\ WF_vars(~answers[Boot] /\ GiveUp40)
  /\ WF_vars(FixChecks) /\ WF_vars(FixNodes) /\ WF_vars(FixRecord)
  /\ SF_vars(FreeSpace)

----------------------------------------------------------------------------
(* Properties.                                                             *)

\* A phase that reads done is: the nodes are configured as asked for, on every
\* one of them and not where one of two collections reached it (p20_nodes_ready
\* .py:103-138), the bootstrap resolves the tenant, whatever the operator's
\* resolver says (p30_lb.py:155), and both images are there (p40:40-45).
GreenMeansPrepared ==
  /\ 20 \in green => \A n \in Node : reports[n] = "right"
  /\ 30 \in green => record
  /\ 40 \in green => wso /\ images = 2

\* Phase 40 does not stage its bundle next to a step of wso's that was at work
\* when it began, whatever made it look open (p40_bootstrap.py:51-55); a busy
\* check that goes unanswered is the exception.
NoSecondWriter == pc \in Writing /\ busy => blind

\* Nor where the check goes unanswered. Not so: see the README.
NoWriteBesideAnother == pc \in Writing => ~busy

\* One `wso configure` at a time. Not so: see the README.
OneConfigure == loads + (IF mine = "runs" THEN 1 ELSE 0) <= 1

\* Running it again gets the cluster prepared, as often as that is, a disk that
\* was too small, a `df` nobody can read and a half-loaded pair of images
\* included.
Prepared == []<>(40 \in green)
=============================================================================
