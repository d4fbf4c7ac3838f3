------------------------------ MODULE VmDeploy ------------------------------
(***************************************************************************)
(* Phase 10 (p10_vms.py): one ovftool after the other writes the node VMs  *)
(* into vCenter, under the engines, lock and front ends of Session, with   *)
(* the exit hook that stops an upload whose process ends.                  *)
(***************************************************************************)
EXTENDS Session

CONSTANTS
  Nodes,      \* how many nodes the configuration names
  Folders,    \* how vcenter.folder may be given: not at all, by its name, or by
              \* an inventory path
  Filters,    \* vCenter honours folders= when it lists the VMs
  Elsewhere,  \* per node: the VM of its name in another folder of the datacenter
  Troubles    \* bound: the things that go wrong

Node == 1..Nodes
NoVm == 0  \* no node

VmState == {"none", "half", "off", "on"}

ASSUME VmDeployAssumption ==
  /\ Nodes \in Nat \ {0}
  /\ Folders \subseteq {"none", "name", "path"}
  /\ Filters \in BOOLEAN
  /\ Elsewhere \in [Node -> VmState]
  /\ Troubles \in Nat

VARIABLES
  \* vCenter
  folder,   \* how the folder is given, and how many folders bear its name
  vm,       \* per node: "none", "half" written, "off" or "on"
  \* per engine
  pc,       \* where it is
  at,       \* the node it is at
  seen,     \* already: what the listing of its run said
  tool,     \* its ovftool: "none", "opening", "uploading", "ok", "failed"
  \* per process: what the exit hook saw, and what of it is still to be stopped
  looked, owed,
  orphans,  \* the ovftools whose process is gone
  \* what runs asked of the operator: a node they refused to touch, the folder
  named, wanted,
  troubles  \* how many things went wrong

vcenter == <<folder, vm>>
engine  == <<pc, at, seen, tool>>
hook    == <<looked, owed>>
asked   == <<named, wanted>>
vars    == <<session, vcenter, engine, hook, orphans, asked, troubles>>

AtWork  == {"opening", "uploading"}
Pcs     == {"idle", "probe", "folder", "list", "next", "spawned", "reading",
            "confirm"}

TypeOK ==
  /\ SessionTypeOK
  /\ folder \in [given : Folders, count : 0..2] /\ vm \in [Node -> VmState]
  /\ pc \in [Thread -> Pcs] /\ at \in [Thread -> 1..(Nodes + 1)]
  /\ seen \in [Thread -> [Node -> VmState]]
  /\ tool \in [Thread -> AtWork \cup {"none", "ok", "failed"}]
  /\ looked \in [Processes -> SUBSET (Slots \X Node)]
  /\ owed \in [Processes -> SUBSET (Slots \X Node)]
  /\ orphans \subseteq [vm : Node, tool : AtWork,
                        why : {"killed", "missed", "survived", "left"}]
  /\ named \in Node \cup {NoVm} /\ wanted \in BOOLEAN
  /\ troubles \in 0..Troubles

Init ==
  /\ SessionInit
  /\ \E given \in Folders :
       folder = [given |-> given, count |-> IF given = "none" THEN 1 ELSE 0]
  /\ vm = [v \in Node |-> "none"]
  /\ pc = [t \in Thread |-> "idle"] /\ at = [t \in Thread |-> 1]
  /\ seen = [t \in Thread |-> [v \in Node |-> "none"]]
  /\ tool = [t \in Thread |-> "none"]
  /\ looked = [p \in Processes |-> {}] /\ owed = [p \in Processes |-> {}]
  /\ orphans = {} /\ named = NoVm /\ wanted = FALSE /\ troubles = 0

----------------------------------------------------------------------------
(* ovftool and vCenter, as far as the code depends on them.                *)

Trouble == troubles < Troubles /\ troubles' = troubles + 1
Smooth  == UNCHANGED troubles

\* Two VM folders of the name of the configuration.
Ambiguous == folder.count = 2

\* A name is taken once per folder, from the moment the upload starts; of two
\* folders of one name ovftool may not know which.
ToolAdvances(v, old, new) ==
  \/ /\ old = "opening" /\ vm[v] = "none" /\ new = "uploading" /\ Smooth
     /\ vm' = [vm EXCEPT ![v] = "half"]
  \/ /\ old = "opening" /\ new = "failed" /\ UNCHANGED vm
     /\ IF vm[v] = "none" /\ ~Ambiguous THEN Trouble ELSE Smooth
  \/ /\ old = "uploading" /\ new = "ok" /\ Smooth
     /\ vm' = [vm EXCEPT ![v] = "on"]
  \/ /\ old = "uploading" /\ new = "failed" /\ Trouble
     /\ \E s \in {"none", "half", "off"} : vm' = [vm EXCEPT ![v] = s]

\* Ending on SIGTERM it drops its lease and vCenter removes what it wrote;
\* ended by SIGKILL it leaves that behind.
ToolDies(v, old) ==
  vm' \in IF old = "uploading"
          THEN {[vm EXCEPT ![v] = s] : s \in {"none", "half"}} ELSE {vm}

\* Mutant of Stop: the signal is fired and nobody waits.
StopUnawaited(v, old, new) ==
  \/ new = "failed" /\ ToolDies(v, old)
  \/ new = old /\ UNCHANGED vm

\* _stop: SIGTERM, ten seconds, SIGKILL, and the end awaited. That it gives up
\* on one that does not die of SIGKILL is left out: it writes nothing more.
Stop(v, old, new) == new = "failed" /\ ToolDies(v, old)

\* What a list of the whole datacenter may say of a node: the last VM of its
\* name in the list is the one that counts.
Anywhere(v) ==
  IF {vm[v], Elsewhere[v]} = {"none"} THEN {"none"}
  ELSE {vm[v], Elsewhere[v]} \ {"none"}

\* Mutants of Reported: the folder is not asked for; a name that is not there
\* is reported rather than left out.
ReportedUnscoped(v) == Anywhere(v)

ReportedMissing(v) == {IF vm[v] = "none" THEN "missing" ELSE vm[v]}

\* The list is limited to the folder of the configuration.
Scoped == folder.given # "none" /\ Filters

\* power_states, of one node: in the folder of the configuration if it has one,
\* nothing if no VM folder bears that name (which a path never is), ...
Reported(v) ==
  IF folder.given = "path" \/ folder.count = 0 THEN {"none"}
  ELSE IF Scoped THEN {vm[v]} ELSE Anywhere(v)

\* ... and of all of them.
Listing ==
  {l \in [Node -> UNION {Reported(v) : v \in Node}] :
     \A v \in Node : l[v] \in Reported(v)}

Nothing == [v \in Node |-> "none"]

AllOn(l) == \A v \in Node : l[v] = "on"

\* What is_done may say: done; open, because it is, because it raised over two
\* folders of the name, or because vCenter did not answer with a list.
SaysDone == ~Ambiguous /\ (\E l \in Listing : AllOn(l)) /\ Smooth

SaysOpen ==
  IF Ambiguous \/ \E l \in Listing : ~AllOn(l) THEN Smooth ELSE Trouble

----------------------------------------------------------------------------
(* The engine, in phase 10.                                                *)

At(t, where) == t \in alive /\ pc[t] = where
Goes(t, where) == pc' = [pc EXCEPT ![t] = where] /\ UNCHANGED session

\* The engine ends, and nothing of it is remembered.
Leave(t, ok) ==
  /\ Ends(t, ok)
  /\ pc' = [pc EXCEPT ![t] = "idle"] /\ at' = [at EXCEPT ![t] = 1]
  /\ seen' = [seen EXCEPT ![t] = [v \in Node |-> "none"]]
  /\ tool' = [tool EXCEPT ![t] = "none"]

\* is_done before the run.
Probe(t) ==
  /\ At(t, "probe")
  /\ \/ SaysDone /\ Leave(t, TRUE)
     \/ SaysOpen /\ Goes(t, "folder") /\ UNCHANGED <<at, seen, tool>>
  /\ UNCHANGED <<vcenter, hook, orphans, asked>>

\* _ensure_folder: nothing to do without one; one that is not there is created,
\* and the answer to that may be what gets lost.
EnsureFolder(t) ==
  /\ At(t, "folder") /\ folder.given # "path"
  /\ \/ /\ folder' = [folder EXCEPT !.count = IF @ = 0 THEN 1 ELSE @]
        /\ Goes(t, "list") /\ UNCHANGED <<at, seen, tool>> /\ Smooth
     \/ /\ Trouble /\ folder.given = "name"
        /\ folder' \in {folder, [folder EXCEPT !.count = IF @ = 0 THEN 1 ELSE @]}
        /\ Leave(t, FALSE)
  /\ UNCHANGED <<vm, hook, orphans, asked>>

\* No folder is named like a path: it "does not exist", and the run asks for it.
RefuseFolder(t) ==
  /\ At(t, "folder") /\ folder.given = "path"
  /\ wanted' = TRUE /\ Leave(t, FALSE)
  /\ UNCHANGED <<vcenter, hook, orphans, named, troubles>>

\* run asks once, before the first node; an answer that is no list is read as
\* nothing there.
List(t) ==
  /\ At(t, "list") /\ ~Ambiguous
  /\ \/ /\ \/ \E l \in Listing : seen' = [seen EXCEPT ![t] = l] /\ Smooth
           \/ seen' = [seen EXCEPT ![t] = Nothing] /\ Trouble
        /\ Goes(t, "next") /\ UNCHANGED <<at, tool>>
     \/ Trouble /\ Leave(t, FALSE)
  /\ UNCHANGED <<vcenter, hook, orphans, asked>>

\* Of two folders of the name it asks to rename one.
RefuseAmbiguous(t) ==
  /\ At(t, "list") /\ Ambiguous
  /\ wanted' = TRUE /\ Leave(t, FALSE)
  /\ UNCHANGED <<vcenter, hook, orphans, named, troubles>>

\* Mutant of Skip: whatever exists is passed over.
SkipExisting(t) ==
  /\ At(t, "next") /\ at[t] <= Nodes /\ seen[t][at[t]] # "none"
  /\ at' = [at EXCEPT ![t] = @ + 1]
  /\ UNCHANGED <<session, vcenter, pc, seen, tool, hook, orphans, asked, troubles>>

\* A node that is up is passed over, ...
Skip(t) ==
  /\ At(t, "next") /\ at[t] <= Nodes /\ seen[t][at[t]] = "on"
  /\ at' = [at EXCEPT ![t] = @ + 1]
  /\ UNCHANGED <<session, vcenter, pc, seen, tool, hook, orphans, asked, troubles>>

\* ... one that exists and is not up stops the run, which says so, ...
Refuse(t) ==
  /\ At(t, "next") /\ at[t] <= Nodes /\ seen[t][at[t]] \in {"half", "off"}
  /\ named' = at[t] /\ Leave(t, FALSE)
  /\ UNCHANGED <<vcenter, hook, orphans, wanted, troubles>>

\* ... and for one that does not exist ovftool is started, ...
Spawn(t) ==
  /\ At(t, "next") /\ at[t] <= Nodes /\ seen[t][at[t]] = "none"
  /\ tool' = [tool EXCEPT ![t] = "opening"] /\ Goes(t, "spawned")
  /\ UNCHANGED <<vcenter, at, seen, hook, orphans, asked, troubles>>

\* ... entered into _CHILDREN (those are the ovftools of engines that read), ...
Register(t) ==
  /\ At(t, "spawned") /\ Goes(t, "reading")
  /\ UNCHANGED <<vcenter, at, seen, tool, hook, orphans, asked, troubles>>

\* ... and read to its end.
Read(t) ==
  /\ At(t, "reading")
  /\ \/ /\ tool[t] = "ok"
        /\ at' = [at EXCEPT ![t] = @ + 1] /\ tool' = [tool EXCEPT ![t] = "none"]
        /\ Goes(t, "next") /\ UNCHANGED seen
     \/ tool[t] = "failed" /\ Leave(t, FALSE)
  /\ UNCHANGED <<vcenter, hook, orphans, asked, troubles>>

LastNode(t) ==
  /\ At(t, "next") /\ at[t] > Nodes /\ Goes(t, "confirm")
  /\ UNCHANGED <<vcenter, at, seen, tool, hook, orphans, asked, troubles>>

\* is_done after the run.
Confirm(t) ==
  /\ At(t, "confirm")
  /\ \/ SaysDone /\ Leave(t, TRUE)
     \/ SaysOpen /\ Leave(t, FALSE)
  /\ UNCHANGED <<vcenter, hook, orphans, asked>>

Step(t) ==
  \/ Probe(t) \/ EnsureFolder(t) \/ RefuseFolder(t) \/ List(t)
  \/ RefuseAmbiguous(t) \/ Skip(t) \/ Refuse(t) \/ Spawn(t) \/ Register(t)
  \/ Read(t) \/ LastNode(t) \/ Confirm(t)

ToolRuns(t) ==
  /\ \E new \in AtWork \cup {"ok", "failed"} :
       ToolAdvances(at[t], tool[t], new) /\ tool' = [tool EXCEPT ![t] = new]
  /\ UNCHANGED <<session, folder, pc, at, seen, hook, orphans, asked>>

OrphanRuns ==
  /\ \E o \in orphans, new \in AtWork \cup {"ok", "failed"} :
       /\ ToolAdvances(o.vm, o.tool, new)
       /\ orphans' = (orphans \ {o})
                       \cup IF new \in AtWork THEN {[o EXCEPT !.tool = new]} ELSE {}
  /\ UNCHANGED <<session, folder, engine, hook, asked>>

----------------------------------------------------------------------------
(* Processes that come and go.                                             *)

Begins == pc' = [t \in Thread |-> IF t \in alive' \ alive THEN "probe" ELSE pc[t]]

Start(p) ==
  /\ Launch(p) /\ Begins
  /\ UNCHANGED <<vcenter, at, seen, tool, hook, orphans, asked, troubles>>

PressButton(p) ==
  /\ Press(p)
  /\ UNCHANGED <<vcenter, engine, hook, orphans, asked, troubles>>

HandlePress(p) ==
  /\ \E s \in Slots : Handle(p, s)
  /\ Begins
  /\ UNCHANGED <<vcenter, at, seen, tool, hook, orphans, asked, troubles>>

\* What an engine does not take along when its process ends.
Orphaned(p, why(_)) ==
  {[vm |-> at[t], tool |-> tool[t], why |-> why(t)] :
     t \in {u \in Thread : u[1] = p /\ tool[u] \in AtWork}}

\* The engines of a process end with it.
Die(p) ==
  /\ pc' = [t \in Thread |-> IF t[1] = p THEN "idle" ELSE pc[t]]
  /\ at' = [t \in Thread |-> IF t[1] = p THEN 1 ELSE at[t]]
  /\ seen' = [t \in Thread |-> IF t[1] = p THEN [v \in Node |-> "none"] ELSE seen[t]]
  /\ tool' = [t \in Thread |-> IF t[1] = p THEN "none" ELSE tool[t]]

Disturbs(p, habit) == habit \in Habits[p] /\ Trouble

\* A TUI with nothing at work and nothing left to press.
Idle(p) == Of(p) = {} /\ ~button[p] /\ pressed[p] = 0

\* The exit button, or Ctrl-C, which the TUI sees as a key.
QuitTui(p) ==
  /\ Quit(p)
  /\ Disturbs(p, "quit") \/ (Idle(p) /\ Smooth)
  /\ UNCHANGED <<vcenter, engine, hook, orphans, asked>>

\* Ctrl-C on the plain path: KeyboardInterrupt wherever the engine is. In the
\* loop that reads, the finally stops ovftool before the lock is released; one
\* just started has the signal of the terminal only.
Interrupt(p) ==
  LET t == <<p, First>> IN
  /\ Disturbs(p, "interrupt") /\ front[p] = "plain"
  /\ \/ /\ ~(tool[t] \in AtWork) /\ UNCHANGED <<vm, orphans>>
     \/ /\ tool[t] \in AtWork /\ pc[t] = "reading"
        /\ Stop(at[t], tool[t], "failed") /\ UNCHANGED orphans
     \/ /\ tool[t] \in AtWork /\ pc[t] = "spawned"
        /\ \/ ToolDies(at[t], tool[t]) /\ UNCHANGED orphans
           \/ /\ orphans' = orphans \cup Orphaned(p, LAMBDA u : "missed")
              /\ UNCHANGED vm
  /\ Leave(t, FALSE)
  /\ UNCHANGED <<folder, hook, asked>>

\* _terminate_children: a snapshot of the ovftools registered and running, ...
HookLooks(p) ==
  /\ Hook(p)
  /\ looked' = [looked EXCEPT ![p] =
                  {<<t[2], at[t]>> : t \in {u \in Of(p) : pc[u] = "reading"
                                                          /\ tool[u] \in AtWork}}]
  /\ owed' = [owed EXCEPT ![p] = looked'[p]]
  /\ UNCHANGED <<vcenter, engine, orphans, asked, troubles>>

\* ... stopped one after the other ...
HookStops(p) ==
  /\ front[p] = "stopping"
  /\ \E sv \in owed[p] :
       LET t == <<p, sv[1]>> IN
       /\ owed' = [owed EXCEPT ![p] = @ \ {sv}]
       /\ \/ /\ at[t] = sv[2] /\ tool[t] \in AtWork
             /\ \E new \in {"failed"} \cup AtWork :
                  Stop(at[t], tool[t], new) /\ tool' = [tool EXCEPT ![t] = new]
          \/ ~(at[t] = sv[2] /\ tool[t] \in AtWork) /\ UNCHANGED <<vm, tool>>
  /\ UNCHANGED <<session, folder, pc, at, seen, looked, orphans, asked, troubles>>

\* ... and the interpreter ends.
ProcessExits(p) ==
  LET why(t) == IF <<t[2], at[t]>> \in looked[p] THEN "survived"
                ELSE IF t \in alive /\ pc[t] \in {"spawned", "reading"} THEN "missed"
                ELSE "left" IN
  /\ owed[p] = {} /\ Exit(p)
  /\ orphans' = orphans \cup Orphaned(p, why) /\ Die(p)
  /\ looked' = [looked EXCEPT ![p] = {}]
  /\ UNCHANGED <<vcenter, owed, asked, troubles>>

ProcessKilled(p) ==
  /\ Disturbs(p, "kill") /\ Kill(p)
  /\ orphans' = orphans \cup Orphaned(p, LAMBDA t : "killed") /\ Die(p)
  /\ looked' = [looked EXCEPT ![p] = {}] /\ owed' = [owed EXCEPT ![p] = {}]
  /\ UNCHANGED <<vcenter, asked>>

\* The operator does what the run asked for: deletes the VM it named, under
\* whoever may be writing it, or powers it on if it is whole; a VM of another
\* folder that a run took for the node is not his to touch.
Repair ==
  /\ named # NoVm /\ named' = NoVm
  /\ \/ /\ vm[named] \in {"half", "off"}
        /\ vm' = [vm EXCEPT ![named] = "none"]
        /\ tool' = [t \in Thread |-> IF at[t] = named /\ tool[t] = "uploading"
                                     THEN "failed" ELSE tool[t]]
        /\ orphans' = {o \in orphans : ~(o.vm = named /\ o.tool = "uploading")}
     \/ /\ vm[named] = "off" /\ vm' = [vm EXCEPT ![named] = "on"]
        /\ UNCHANGED <<tool, orphans>>
     \/ vm[named] \in {"none", "on"} /\ UNCHANGED <<vm, tool, orphans>>
  /\ UNCHANGED <<session, folder, pc, at, seen, hook, wanted, troubles>>

\* He creates the path a run asked for, or renames the other folder.
MendFolder ==
  /\ wanted /\ wanted' = FALSE /\ folder' = [folder EXCEPT !.count = 1]
  /\ UNCHANGED <<session, vm, engine, hook, orphans, named, troubles>>

\* Somebody creates a folder of the name.
NewFolder ==
  /\ Trouble /\ folder.given = "name" /\ ~Ambiguous
  /\ folder' = [folder EXCEPT !.count = @ + 1]
  /\ UNCHANGED <<session, vm, engine, hook, orphans, asked>>

\* Somebody shuts a VM down.
PowerOff(v) ==
  /\ Trouble /\ vm[v] = "on" /\ vm' = [vm EXCEPT ![v] = "off"]
  /\ UNCHANGED <<session, folder, engine, hook, orphans, asked>>

Operate(p) == Start(p) \/ PressButton(p) \/ QuitTui(p) \/ Interrupt(p)
Close(p)   == HookLooks(p) \/ HookStops(p) \/ ProcessExits(p)
World      == Repair \/ MendFolder \/ NewFolder \/ \E v \in Node : PowerOff(v)

Next ==
  \/ \E t \in Thread : Step(t) \/ ToolRuns(t)
  \/ \E p \in Processes : Operate(p) \/ HandlePress(p) \/ Close(p) \/ ProcessKilled(p)
  \/ OrphanRuns \/ World

Spec == Init /\ [][Next]_vars

\* Threads, tools, message pumps and exit handlers are scheduled. The operator
\* runs aXs until it is green, presses the button a failed run leaves, ends a
\* TUI that has nothing left to press, and does what a run asks for. Nothing
\* is assumed of what goes wrong but the bound.
FairSpec ==
  /\ Spec
  /\ \A t \in Thread : WF_vars(Step(t) \/ ToolRuns(t))
  /\ WF_vars(\E p \in Processes : HandlePress(p) \/ Close(p) \/ PressButton(p))
  /\ WF_vars(\E p \in Processes : Start(p) \/ (Idle(p) /\ QuitTui(p)))
  /\ WF_vars(OrphanRuns) /\ WF_vars(Repair) /\ WF_vars(MendFolder)

----------------------------------------------------------------------------
(* Properties.                                                             *)

\* One deploy per cluster (cli.py:135, runlock.py:1): an engine is at work in
\* the process that holds the lock, and one only, unless its process is on its
\* way out (the TUI releases the lock before its threads end) or a button was
\* pressed twice.
OneDeploy ==
  /\ \A t \in alive : lock = t[1] \/ front[t[1]] \in {"closing", "stopping"}
  /\ \A p \in Processes : "press_twice" \notin Habits[p] => Cardinality(Of(p)) <= 1

\* Held for the whole run, both paths (cli.py:135, runlock.py:1): no two engines
\* at work on the cluster, whatever becomes of the front ends.
OneEngine == Cardinality(alive) <= 1

\* No process leaves an upload behind (p10_vms.py:44): what the exit hook saw
\* is gone, what an engine stopped reading was stopped first. Left over is an
\* upload of a process that was killed, or one the hook could not know of.
UploadsAreStopped == \A o \in orphans : o.why \in {"killed", "missed"}

\* An ovftool is registered while it runs, so that the exit handler can reach it
\* (p10_vms.py:187): none is missed by a process that ends by itself.
NoneIsMissed == \A o \in orphans : o.why # "missed"

\* An engine ends green only when every node is up (p10_vms.py:8): in its own
\* folder if the list is limited to it; without a folder in the configuration a
\* VM of the name that runs anywhere in the datacenter passes for the node.
GreenMeansUp ==
  [][\A t \in alive \ alive' : outcome' = "green" =>
       \A v \in Node : vm[v] = "on" \/ (~Scoped /\ Elsewhere[v] = "on")]_vars

\* Stated of every configuration, the same: the phase is done only when every
\* VM of the configuration exists and is on (p10_vms.py:8).
GreenMeansBuilt ==
  [][\A t \in alive \ alive' : outcome' = "green" =>
       \A v \in Node : vm[v] = "on"]_vars

\* A run asks for the folder (p10_vms.py:269, vcenter.py:120) only while there
\* is not the one folder that is meant.
FolderIsAskedForOnce == [][~wanted /\ wanted' => folder.count # 1]_vars

\* No other VM can pass for a node, and the folder is one aXs can find.
OwnListing ==
  /\ folder.given # "path"
  /\ Scoped \/ \A v \in Node : Elsewhere[v] = "none"

\* After half-written VMs, orphans that still write, folders of the same name
\* and VMs shut down, the operator who follows what the runs say gets every
\* node up again, where nothing else can pass for one.
AllVmsUp == OwnListing => []<>(\A v \in Node : vm[v] = "on")
=============================================================================
