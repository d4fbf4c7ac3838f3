--------------------------- MODULE VmDeployProofs ---------------------------
(***************************************************************************)
(* The run lock and phase 10, for every number of processes, nodes and     *)
(* things that go wrong.                                                   *)
(***************************************************************************)
EXTENDS VmDeploy, FiniteSetTheorems, TLAPS

-----------------------------------------------------------------------------
(* The session: the lock, the front ends and the engines.                  *)

\* What any step does to the session: one of its operations, or nothing. Only
\* an engine at work ends, or the one that is the plain path.
Moves ==
  \/ UNCHANGED session
  \/ \E p \in Processes :
       Launch(p) \/ Press(p) \/ Quit(p) \/ Hook(p) \/ Exit(p) \/ Kill(p)
  \/ \E p \in Processes, s \in Slots : Handle(p, s)
  \/ \E t \in Thread, ok \in BOOLEAN :
       (t \in alive \/ front[t[1]] = "plain") /\ Ends(t, ok)

\* Every action of phase 10 is one of these for the session.
LEMMA NextMoves ==
  ASSUME Next
  PROVE  Moves
<1>1. ASSUME NEW t \in Thread, Probe(t) PROVE Moves
  BY <1>1 DEF Probe, Goes, Leave, At, Moves
<1>2. ASSUME NEW t \in Thread, EnsureFolder(t) PROVE Moves
  BY <1>2 DEF EnsureFolder, Goes, Leave, At, Moves
<1>3. ASSUME NEW t \in Thread, List(t) PROVE Moves
  BY <1>3 DEF List, Goes, Leave, At, Moves
<1>4. ASSUME NEW t \in Thread, Skip(t) PROVE Moves
  BY <1>4 DEF Skip, Moves
<1>5. ASSUME NEW t \in Thread, Refuse(t) PROVE Moves
  BY <1>5 DEF Refuse, Leave, At, Moves
<1>6. ASSUME NEW t \in Thread, Spawn(t) PROVE Moves
  BY <1>6 DEF Spawn, Goes, Moves
<1>7. ASSUME NEW t \in Thread, Register(t) PROVE Moves
  BY <1>7 DEF Register, Goes, Moves
<1>8. ASSUME NEW t \in Thread, Read(t) PROVE Moves
  BY <1>8 DEF Read, Goes, Leave, At, Moves
<1>9. ASSUME NEW t \in Thread, LastNode(t) PROVE Moves
  BY <1>9 DEF LastNode, Goes, Moves
<1>10. ASSUME NEW t \in Thread, Confirm(t) PROVE Moves
  BY <1>10 DEF Confirm, Leave, At, Moves
<1>11. ASSUME NEW t \in Thread, ToolRuns(t) PROVE Moves
  BY <1>11 DEF ToolRuns, Moves
<1>12. ASSUME NEW p \in Processes, Start(p) PROVE Moves
  BY <1>12 DEF Start, Moves
<1>13. ASSUME NEW p \in Processes, PressButton(p) PROVE Moves
  BY <1>13 DEF PressButton, Moves
<1>14. ASSUME NEW p \in Processes, QuitTui(p) PROVE Moves
  BY <1>14 DEF QuitTui, Moves
<1>15. ASSUME NEW p \in Processes, Interrupt(p) PROVE Moves
  BY <1>15, SessionAssumption DEF Interrupt, Leave, Thread, Moves
<1>16. ASSUME NEW p \in Processes, HandlePress(p) PROVE Moves
  BY <1>16 DEF HandlePress, Moves
<1>17. ASSUME NEW p \in Processes, HookLooks(p) PROVE Moves
  BY <1>17 DEF HookLooks, Moves
<1>18. ASSUME NEW p \in Processes, HookStops(p) PROVE Moves
  BY <1>18 DEF HookStops, Moves
<1>19. ASSUME NEW p \in Processes, ProcessExits(p) PROVE Moves
  BY <1>19 DEF ProcessExits, Moves
<1>20. ASSUME NEW p \in Processes, ProcessKilled(p) PROVE Moves
  BY <1>20 DEF ProcessKilled, Moves
<1>21. CASE OrphanRuns
  BY <1>21 DEF OrphanRuns, Moves
<1>22. CASE Repair
  BY <1>22 DEF Repair, Moves
<1>23. ASSUME NEW v \in Node, PowerOff(v) PROVE Moves
  BY <1>23 DEF PowerOff, Moves
<1>24. ASSUME NEW t \in Thread, RefuseFolder(t) PROVE Moves
  BY <1>24 DEF RefuseFolder, Leave, At, Moves
<1>25. ASSUME NEW t \in Thread, RefuseAmbiguous(t) PROVE Moves
  BY <1>25 DEF RefuseAmbiguous, Leave, At, Moves
<1>26. CASE MendFolder
  BY <1>26 DEF MendFolder, Moves
<1>27. CASE NewFolder
  BY <1>27 DEF NewFolder, Moves
<1> QED
  BY <1>1, <1>2, <1>3, <1>4, <1>5, <1>6, <1>7, <1>8, <1>9, <1>10, <1>11,
     <1>12, <1>13, <1>14, <1>15, <1>16, <1>17, <1>18, <1>19, <1>20, <1>21,
     <1>22, <1>23, <1>24, <1>25, <1>26, <1>27
     DEF Next, Step, Operate, Close, World

\* A thread is a process and a slot.
LEMMA ThreadPairs ==
  \A t \in Thread : t[1] \in Processes /\ t[2] \in Slots /\ t = <<t[1], t[2]>>
BY DEF Thread

EnginesAreIn == \A t \in alive : front[t[1]] # "off"

\* Whoever shows a board or runs on the plain path holds the lock.
LockIsHeld ==
  \A p \in Processes : front[p] \in {"plain", "tui"} => lock = p

\* Without a second press: no two engines in a process, and a button is only
\* there, and pressed, while none is at work.
Alone(p) ==
  /\ \A t, u \in alive : t[1] = p /\ u[1] = p => t = u
  /\ pressed[p] > 0 => button[p]
  /\ button[p] => /\ front[p] = "tui" /\ pressed[p] <= 1
                  /\ \A t \in alive : t[1] # p

Single == \A p \in Processes : "press_twice" \notin Habits[p] => Alone(p)

SessionInv == SessionTypeOK /\ EnginesAreIn /\ LockIsHeld /\ Single


\* Types.
LEMMA SessionTypes ==
  ASSUME SessionTypeOK, Moves
  PROVE  SessionTypeOK'
<1> USE SessionAssumption DEF SessionTypeOK, Thread
<1>1. CASE UNCHANGED session
  BY <1>1 DEF session
<1>2. ASSUME NEW p \in Processes, Launch(p) PROVE SessionTypeOK'
  <2>1. lock' = p /\ pressed' = pressed /\ outcome' \in {outcome, "none"}
    BY <1>2 DEF Launch
  <2>2. alive' \in {alive, alive \cup {<<p, First>>}}
    BY <1>2 DEF Launch
  <2>3. front' \in {[front EXCEPT ![p] = "tui"], [front EXCEPT ![p] = "plain"]}
    BY <1>2 DEF Launch
  <2>4. button' \in {button, [button EXCEPT ![p] = TRUE]}
    BY <1>2 DEF Launch
  <2>5. lock' \in Processes \cup {Nobody} /\ alive' \subseteq Processes \X Slots
    BY <2>1, <2>2
  <2>6. front' \in [Processes -> {"off", "plain", "tui", "closing", "stopping"}]
    BY <2>3
  <2>7. button' \in [Processes -> BOOLEAN]
    BY <2>4
  <2> QED
    BY <2>1, <2>5, <2>6, <2>7
<1>3. ASSUME NEW p \in Processes, Press(p) PROVE SessionTypeOK'
  BY <1>3 DEF Press
<1>4. ASSUME NEW p \in Processes, Quit(p) PROVE SessionTypeOK'
  BY <1>4 DEF Quit
<1>5. ASSUME NEW p \in Processes, Hook(p) PROVE SessionTypeOK'
  BY <1>5 DEF Hook
<1>6. ASSUME NEW p \in Processes, Exit(p) PROVE SessionTypeOK'
  BY <1>6 DEF Exit, Of
<1>7. ASSUME NEW p \in Processes, Kill(p) PROVE SessionTypeOK'
  BY <1>7 DEF Kill, Of
<1>8. ASSUME NEW p \in Processes, NEW s \in Slots, Handle(p, s) PROVE SessionTypeOK'
  BY <1>8 DEF Handle
<1>9. ASSUME NEW t \in Thread, NEW ok \in BOOLEAN, Ends(t, ok),
             t \in alive \/ front[t[1]] = "plain"
      PROVE  SessionTypeOK'
  BY <1>9, ThreadPairs DEF Ends
<1> QED
  BY <1>1, <1>2, <1>3, <1>4, <1>5, <1>6, <1>7, <1>8, <1>9 DEF Moves

\* A process that leaves takes its engines with it.
LEMMA EnginesAreInNext ==
  ASSUME SessionTypeOK, EnginesAreIn, Moves
  PROVE  EnginesAreIn'
<1> USE ThreadPairs, SessionAssumption DEF SessionTypeOK, EnginesAreIn
<1>1. CASE UNCHANGED session
  BY <1>1 DEF session
<1>2. ASSUME NEW p \in Processes, Launch(p) PROVE EnginesAreIn'
  BY <1>2 DEF Launch
<1>3. ASSUME NEW p \in Processes, Press(p) PROVE EnginesAreIn'
  BY <1>3 DEF Press
<1>4. ASSUME NEW p \in Processes, Quit(p) PROVE EnginesAreIn'
  BY <1>4 DEF Quit
<1>5. ASSUME NEW p \in Processes, Hook(p) PROVE EnginesAreIn'
  BY <1>5 DEF Hook
<1>6. ASSUME NEW p \in Processes, Exit(p) PROVE EnginesAreIn'
  BY <1>6 DEF Exit, Of
<1>7. ASSUME NEW p \in Processes, Kill(p) PROVE EnginesAreIn'
  BY <1>7 DEF Kill, Of
<1>8. ASSUME NEW p \in Processes, NEW s \in Slots, Handle(p, s) PROVE EnginesAreIn'
  BY <1>8 DEF Handle
<1>9. ASSUME NEW t \in Thread, NEW ok \in BOOLEAN, Ends(t, ok),
             t \in alive \/ front[t[1]] = "plain"
      PROVE  EnginesAreIn'
  BY <1>9, ThreadPairs DEF Ends
<1> QED
  BY <1>1, <1>2, <1>3, <1>4, <1>5, <1>6, <1>7, <1>8, <1>9 DEF Moves

\* The lock is taken before the board is shown, and given back with it.
LEMMA LockIsHeldNext ==
  ASSUME SessionTypeOK, LockIsHeld, Moves
  PROVE  LockIsHeld'
<1> USE ThreadPairs, SessionAssumption DEF SessionTypeOK, LockIsHeld
<1>1. CASE UNCHANGED session
  BY <1>1 DEF session
<1>2. ASSUME NEW p \in Processes, Launch(p) PROVE LockIsHeld'
  BY <1>2 DEF Launch
<1>3. ASSUME NEW p \in Processes, Press(p) PROVE LockIsHeld'
  BY <1>3 DEF Press
<1>4. ASSUME NEW p \in Processes, Quit(p) PROVE LockIsHeld'
  BY <1>4 DEF Quit
<1>5. ASSUME NEW p \in Processes, Hook(p) PROVE LockIsHeld'
  BY <1>5 DEF Hook
<1>6. ASSUME NEW p \in Processes, Exit(p) PROVE LockIsHeld'
  BY <1>6 DEF Exit, Of
<1>7. ASSUME NEW p \in Processes, Kill(p) PROVE LockIsHeld'
  BY <1>7 DEF Kill, Of
<1>8. ASSUME NEW p \in Processes, NEW s \in Slots, Handle(p, s) PROVE LockIsHeld'
  BY <1>8 DEF Handle
<1>9. ASSUME NEW t \in Thread, NEW ok \in BOOLEAN, Ends(t, ok),
             t \in alive \/ front[t[1]] = "plain"
      PROVE  LockIsHeld'
  BY <1>9, ThreadPairs DEF Ends
<1> QED
  BY <1>1, <1>2, <1>3, <1>4, <1>5, <1>6, <1>7, <1>8, <1>9 DEF Moves

\* A button comes with the end of the engine and goes with its start.
LEMMA SingleNext ==
  ASSUME SessionTypeOK, EnginesAreIn, Single, Moves
  PROVE  Single'
<1> USE ThreadPairs, SessionAssumption DEF SessionTypeOK, EnginesAreIn, Single, Alone
<1>1. CASE UNCHANGED session
  BY <1>1 DEF session
<1>2. ASSUME NEW p \in Processes, Launch(p) PROVE Single'
  <2>1. front[p] = "off" /\ pressed' = pressed
    BY <1>2 DEF Launch
  <2> SUFFICES ASSUME NEW q \in Processes, "press_twice" \notin Habits[q]
               PROVE  Alone(q)'
    OBVIOUS
  <2>2. \A t \in alive : t[1] # p
    BY <2>1
  <2>3. Alone(q)
    OBVIOUS
  <2>4. CASE q # p
    BY <1>2, <2>1, <2>3, <2>4 DEF Launch
  <2>5. CASE /\ q = p /\ alive' = alive /\ button' = [button EXCEPT ![p] = TRUE]
             /\ front' = [front EXCEPT ![p] = "tui"]
    <3>1. pressed[p] <= 1
      BY <2>1, <2>3, <2>5
    <3> QED
      BY <2>1, <2>2, <2>5, <3>1
  <2>6. CASE /\ q = p /\ alive' = alive \cup {<<p, First>>} /\ button' = button
             /\ front' = [front EXCEPT ![p] = "plain"]
    <3>1. ~button[p]
      BY <2>1, <2>3, <2>6
    <3> QED
      BY <2>1, <2>2, <2>3, <2>6, <3>1
  <2> QED
    BY <1>2, <2>4, <2>5, <2>6 DEF Launch
<1>3. ASSUME NEW p \in Processes, Press(p) PROVE Single'
  BY <1>3 DEF Press
<1>4. ASSUME NEW p \in Processes, Quit(p) PROVE Single'
  BY <1>4 DEF Quit
<1>5. ASSUME NEW p \in Processes, Hook(p) PROVE Single'
  BY <1>5 DEF Hook
<1>6. ASSUME NEW p \in Processes, Exit(p) PROVE Single'
  BY <1>6 DEF Exit, Of
<1>7. ASSUME NEW p \in Processes, Kill(p) PROVE Single'
  BY <1>7 DEF Kill, Of
<1>8. ASSUME NEW p \in Processes, NEW s \in Slots, Handle(p, s) PROVE Single'
  BY <1>8 DEF Handle
<1>9. ASSUME NEW t \in Thread, NEW ok \in BOOLEAN, Ends(t, ok),
             t \in alive \/ front[t[1]] = "plain"
      PROVE  Single'
  BY <1>9, ThreadPairs DEF Ends
<1> QED
  BY <1>1, <1>2, <1>3, <1>4, <1>5, <1>6, <1>7, <1>8, <1>9 DEF Moves

-----------------------------------------------------------------------------
(* Types of phase 10.                                                      *)

Engines ==
  /\ pc \in [Thread -> Pcs] /\ at \in [Thread -> 1..(Nodes + 1)]
  /\ seen \in [Thread -> [Node -> VmState]]
  /\ tool \in [Thread -> AtWork \cup {"none", "ok", "failed"}]

Vcenter ==
  /\ vm \in [Node -> VmState]
  /\ named \in Node \cup {NoVm} /\ troubles \in 0..Troubles

Uploads ==
  /\ looked \in [Processes -> SUBSET (Slots \X Node)]
  /\ owed \in [Processes -> SUBSET (Slots \X Node)]
  /\ orphans \subseteq [vm : Node, tool : AtWork,
                        why : {"killed", "missed", "survived", "left"}]

\* An ovftool has an engine that started it and has not read its end, at a node.
ToolHasEngine ==
  \A t \in Thread :
    tool[t] # "none" => /\ t \in alive /\ pc[t] \in {"spawned", "reading"}
                        /\ at[t] \in Node


\* An engine that ends leaves the types alone, and what the world says, too.
LEMMA LeaveKeepsEngines ==
  ASSUME Engines, NEW t \in Thread, NEW ok \in BOOLEAN, Leave(t, ok)
  PROVE  Engines'
<1>1. 1 \in 1..(Nodes + 1)
  BY VmDeployAssumption
<1>2. pc' \in [Thread -> Pcs] /\ at' \in [Thread -> 1..(Nodes + 1)]
  BY <1>1 DEF Engines, Leave, Pcs
<1>3. seen' \in [Thread -> [Node -> VmState]]
  BY DEF Engines, Leave, VmState
<1>4. tool' \in [Thread -> AtWork \cup {"none", "ok", "failed"}]
  BY DEF Engines, Leave
<1> QED
  BY <1>2, <1>3, <1>4 DEF Engines

\* A list says of every node something a VM can be.
LEMMA ListingIsOfNodes ==
  ASSUME Vcenter
  PROVE  Listing \subseteq [Node -> VmState]
<1>1. ASSUME NEW v \in Node PROVE Anywhere(v) \subseteq VmState
  BY VmDeployAssumption DEF Anywhere, Vcenter, VmState
<1>2. ASSUME NEW v \in Node PROVE Reported(v) \subseteq VmState
  BY <1>1 DEF Reported, Vcenter, VmState
<1> QED
  BY <1>2 DEF Listing

\* The places of the engines and the nodes they are at.
LEMMA EnginesNext ==
  ASSUME Engines, Vcenter, ToolHasEngine, Next
  PROVE  Engines'
<1> USE VmDeployAssumption, SessionAssumption DEF Engines, Pcs, VmState, AtWork,
     Node, engine, vars
<1>1. ASSUME NEW t \in Thread, Probe(t) PROVE Engines'
  <2>1. CASE Leave(t, TRUE)
    BY <2>1, LeaveKeepsEngines
  <2>2. CASE Goes(t, "folder") /\ UNCHANGED <<at, seen, tool>>
    BY <2>2 DEF Goes
  <2> QED
    BY <1>1, <2>1, <2>2 DEF Probe
<1>2. ASSUME NEW t \in Thread, EnsureFolder(t) PROVE Engines'
  <2>1. CASE Leave(t, FALSE)
    BY <2>1, LeaveKeepsEngines
  <2>2. CASE Goes(t, "list") /\ UNCHANGED <<at, seen, tool>>
    BY <2>2 DEF Goes
  <2> QED
    BY <1>2, <2>1, <2>2 DEF EnsureFolder
<1>3. ASSUME NEW t \in Thread, List(t) PROVE Engines'
  <2>1. CASE Leave(t, FALSE)
    BY <2>1, LeaveKeepsEngines
  <2>2. CASE /\ \/ \E l \in Listing : seen' = [seen EXCEPT ![t] = l]
                \/ seen' = [seen EXCEPT ![t] = Nothing]
             /\ Goes(t, "next") /\ UNCHANGED <<at, tool>>
    <3>1. Listing \subseteq [Node -> VmState]
      BY ListingIsOfNodes
    <3>3. Nothing \in [Node -> VmState]
      BY DEF Nothing
    <3>2. seen' \in [Thread -> [Node -> VmState]]
      BY <2>2, <3>1, <3>3
    <3> QED
      BY <2>2, <3>2 DEF Goes
  <2> QED
    BY <1>3, <2>1, <2>2 DEF List
<1>4. ASSUME NEW t \in Thread, Skip(t) PROVE Engines'
  BY <1>4 DEF Skip, At
<1>5. ASSUME NEW t \in Thread, Refuse(t) PROVE Engines'
  BY <1>5, LeaveKeepsEngines DEF Refuse
<1>6. ASSUME NEW t \in Thread, Spawn(t) PROVE Engines'
  BY <1>6 DEF Spawn, Goes, At
<1>7. ASSUME NEW t \in Thread, Register(t) PROVE Engines'
  BY <1>7 DEF Register, Goes, At
<1>8. ASSUME NEW t \in Thread, Read(t) PROVE Engines'
  <2>1. CASE Leave(t, FALSE)
    BY <2>1, LeaveKeepsEngines
  <2>2. CASE /\ tool[t] = "ok" /\ at' = [at EXCEPT ![t] = at[t] + 1]
             /\ tool' = [tool EXCEPT ![t] = "none"]
             /\ Goes(t, "next") /\ UNCHANGED seen
    <3>0. tool[t] # "none"
      BY <2>2
    <3>a. at[t] \in 1..Nodes
      BY <3>0 DEF ToolHasEngine
    <3>1. at' = [at EXCEPT ![t] = at[t] + 1] /\ at[t] \in 1..Nodes
      BY <2>2, <3>a
    <3>2. at' \in [Thread -> 1..(Nodes + 1)]
      BY <3>1
    <3>3. pc' = [pc EXCEPT ![t] = "next"]
      BY <2>2 DEF Goes
    <3>4. pc' \in [Thread -> Pcs]
      BY <3>3
    <3>5. tool' \in [Thread -> AtWork \cup {"none", "ok", "failed"}]
      BY <2>2
    <3> QED
      BY <2>2, <3>2, <3>4, <3>5
  <2> QED
    BY <1>8, <2>1, <2>2 DEF Read
<1>9. ASSUME NEW t \in Thread, LastNode(t) PROVE Engines'
  BY <1>9 DEF LastNode, Goes, At
<1>10. ASSUME NEW t \in Thread, Confirm(t) PROVE Engines'
  BY <1>10, LeaveKeepsEngines DEF Confirm
<1>11. ASSUME NEW t \in Thread, ToolRuns(t) PROVE Engines'
  BY <1>11 DEF ToolRuns, ToolAdvances
<1>12. ASSUME NEW p \in Processes, Start(p) PROVE Engines'
  BY <1>12 DEF Start, Begins
<1>13. ASSUME NEW p \in Processes, PressButton(p) PROVE Engines'
  BY <1>13 DEF PressButton
<1>14. ASSUME NEW p \in Processes, QuitTui(p) PROVE Engines'
  BY <1>14 DEF QuitTui
<1>15. ASSUME NEW p \in Processes, Interrupt(p) PROVE Engines'
  BY <1>15, SessionAssumption, LeaveKeepsEngines DEF Interrupt, Thread
<1>16. ASSUME NEW p \in Processes, HandlePress(p) PROVE Engines'
  BY <1>16 DEF HandlePress, Begins
<1>17. ASSUME NEW p \in Processes, HookLooks(p) PROVE Engines'
  BY <1>17 DEF HookLooks, Of
<1>18. ASSUME NEW p \in Processes, HookStops(p) PROVE Engines'
  <2>1. PICK sv \in owed[p], new \in AtWork \cup {"failed"} :
          tool' \in {tool, [tool EXCEPT ![<<p, sv[1]>>] = new]}
    BY <1>18 DEF HookStops
  <2>2. tool' \in [Thread -> AtWork \cup {"none", "ok", "failed"}]
    BY <2>1
  <2> QED
    BY <1>18, <2>2 DEF HookStops
<1>19. ASSUME NEW p \in Processes, ProcessExits(p) PROVE Engines'
  BY <1>19 DEF ProcessExits, Die, Orphaned
<1>20. ASSUME NEW p \in Processes, ProcessKilled(p) PROVE Engines'
  BY <1>20 DEF ProcessKilled, Die, Orphaned
<1>21. CASE OrphanRuns
  BY <1>21 DEF OrphanRuns, ToolAdvances
<1>22. CASE Repair
  BY <1>22 DEF Repair
<1>23. ASSUME NEW v \in Node, PowerOff(v) PROVE Engines'
  BY <1>23 DEF PowerOff
<1>24. ASSUME NEW t \in Thread, RefuseFolder(t) PROVE Engines'
  BY <1>24, LeaveKeepsEngines DEF RefuseFolder
<1>25. ASSUME NEW t \in Thread, RefuseAmbiguous(t) PROVE Engines'
  BY <1>25, LeaveKeepsEngines DEF RefuseAmbiguous
<1>26. CASE MendFolder
  BY <1>26 DEF MendFolder
<1>27. CASE NewFolder
  BY <1>27 DEF NewFolder
<1> QED
  BY <1>1, <1>2, <1>3, <1>4, <1>5, <1>6, <1>7, <1>8, <1>9, <1>10, <1>11,
     <1>12, <1>13, <1>14, <1>15, <1>16, <1>17, <1>18, <1>19, <1>20, <1>21,
     <1>22, <1>23, <1>24, <1>25, <1>26, <1>27
     DEF Next, Step, Operate, Close, World

\* The types of what is in vCenter.
LEMMA VcenterNext ==
  ASSUME Engines, Vcenter, Uploads, ToolHasEngine, Next
  PROVE  Vcenter'
<1> USE VmDeployAssumption DEF Vcenter, VmState, AtWork, Node, vcenter, asked
<1>1. ASSUME NEW t \in Thread, Probe(t) PROVE Vcenter'
  <2>1. UNCHANGED <<vcenter, named>> /\ (Trouble \/ Smooth)
    BY <1>1 DEF Probe, SaysDone, SaysOpen
  <2> QED
    BY <2>1 DEF Trouble, Smooth
<1>2. ASSUME NEW t \in Thread, EnsureFolder(t) PROVE Vcenter'
  <2>1. UNCHANGED <<vm, named>> /\ (Trouble \/ Smooth)
    BY <1>2 DEF EnsureFolder
  <2> QED
    BY <2>1 DEF Trouble, Smooth
<1>3. ASSUME NEW t \in Thread, List(t) PROVE Vcenter'
  <2>1. UNCHANGED <<vcenter, named>> /\ (Trouble \/ Smooth)
    BY <1>3 DEF List
  <2> QED
    BY <2>1 DEF Trouble, Smooth
<1>4. ASSUME NEW t \in Thread, Skip(t) PROVE Vcenter'
  BY <1>4 DEF Skip
<1>5. ASSUME NEW t \in Thread, Refuse(t) PROVE Vcenter'
  <2>1. named' = at[t] /\ at[t] \in 1..Nodes /\ UNCHANGED <<vcenter, troubles>>
    BY <1>5 DEF Refuse, Engines
  <2> QED
    BY <2>1
<1>6. ASSUME NEW t \in Thread, Spawn(t) PROVE Vcenter'
  BY <1>6 DEF Spawn
<1>7. ASSUME NEW t \in Thread, Register(t) PROVE Vcenter'
  BY <1>7 DEF Register
<1>8. ASSUME NEW t \in Thread, Read(t) PROVE Vcenter'
  BY <1>8 DEF Read
<1>9. ASSUME NEW t \in Thread, LastNode(t) PROVE Vcenter'
  BY <1>9 DEF LastNode
<1>10. ASSUME NEW t \in Thread, Confirm(t) PROVE Vcenter'
  <2>1. UNCHANGED <<vcenter, named>> /\ (Trouble \/ Smooth)
    BY <1>10 DEF Confirm, SaysDone, SaysOpen
  <2> QED
    BY <2>1 DEF Trouble, Smooth
<1>11. ASSUME NEW t \in Thread, ToolRuns(t) PROVE Vcenter'
  BY <1>11 DEF ToolRuns, ToolAdvances, Trouble, Smooth
<1>12. ASSUME NEW p \in Processes, Start(p) PROVE Vcenter'
  BY <1>12 DEF Start
<1>13. ASSUME NEW p \in Processes, PressButton(p) PROVE Vcenter'
  BY <1>13 DEF PressButton
<1>14. ASSUME NEW p \in Processes, QuitTui(p) PROVE Vcenter'
  <2>1. (Trouble \/ Smooth) /\ UNCHANGED <<vcenter, named>>
    BY <1>14 DEF QuitTui, Disturbs
  <2> QED
    BY <2>1 DEF Trouble, Smooth
<1>15. ASSUME NEW p \in Processes, Interrupt(p) PROVE Vcenter'
  <2>1. troubles < Troubles /\ troubles' = troubles + 1 /\ UNCHANGED named
    BY <1>15 DEF Interrupt, Disturbs, Trouble
  <2>2. PICK s \in {"none", "half"} : vm' \in {vm, [vm EXCEPT ![at[<<p, First>>]] = s]}
    BY <1>15 DEF Interrupt, Stop, ToolDies
  <2>3. vm' \in [Node -> VmState]
    BY <2>2
  <2>4. named' \in Node \cup {NoVm} /\ troubles' \in 0..Troubles
    BY <2>1
  <2> QED
    BY <2>3, <2>4
<1>16. ASSUME NEW p \in Processes, HandlePress(p) PROVE Vcenter'
  BY <1>16 DEF HandlePress
<1>17. ASSUME NEW p \in Processes, HookLooks(p) PROVE Vcenter'
  BY <1>17 DEF HookLooks
<1>18. ASSUME NEW p \in Processes, HookStops(p) PROVE Vcenter'
  <2>1. PICK v \in Int, s \in {"none", "half"} : vm' \in {vm, [vm EXCEPT ![v] = s]}
    <3>1. PICK sv \in owed[p] :
            \/ \E new \in {"failed"} \cup AtWork :
                 Stop(at[<<p, sv[1]>>], tool[<<p, sv[1]>>], new)
            \/ UNCHANGED vm
      BY <1>18 DEF HookStops
    <3>2. CASE UNCHANGED vm
      BY <3>2
    <3>3. CASE ToolDies(at[<<p, sv[1]>>], tool[<<p, sv[1]>>])
      <4>1. sv[1] \in Slots
        BY DEF Uploads
      <4>2. at[<<p, sv[1]>>] \in Int
        BY <4>1 DEF Engines, Thread
      <4> QED
        BY <3>3, <4>2 DEF ToolDies
    <3> QED
      BY <3>1, <3>2, <3>3 DEF Stop
  <2>2. UNCHANGED <<asked, troubles>>
    BY <1>18 DEF HookStops
  <2> QED
    BY <2>1, <2>2
<1>19. ASSUME NEW p \in Processes, ProcessExits(p) PROVE Vcenter'
  BY <1>19 DEF ProcessExits
<1>20. ASSUME NEW p \in Processes, ProcessKilled(p) PROVE Vcenter'
  <2>1. Trouble /\ UNCHANGED <<vcenter, named>>
    BY <1>20 DEF ProcessKilled, Disturbs
  <2> QED
    BY <2>1 DEF Trouble
<1>21. CASE OrphanRuns
  BY <1>21 DEF OrphanRuns, ToolAdvances, Trouble, Smooth
<1>22. CASE Repair
  BY <1>22 DEF Repair
<1>23. ASSUME NEW v \in Node, PowerOff(v) PROVE Vcenter'
  BY <1>23 DEF PowerOff, Trouble
<1>24. ASSUME NEW t \in Thread, RefuseFolder(t) PROVE Vcenter'
  BY <1>24 DEF RefuseFolder
<1>25. ASSUME NEW t \in Thread, RefuseAmbiguous(t) PROVE Vcenter'
  BY <1>25 DEF RefuseAmbiguous
<1>26. CASE MendFolder
  BY <1>26 DEF MendFolder
<1>27. CASE NewFolder
  BY <1>27 DEF NewFolder, Trouble
<1> QED
  BY <1>1, <1>2, <1>3, <1>4, <1>5, <1>6, <1>7, <1>8, <1>9, <1>10, <1>11,
     <1>12, <1>13, <1>14, <1>15, <1>16, <1>17, <1>18, <1>19, <1>20, <1>21,
     <1>22, <1>23, <1>24, <1>25, <1>26, <1>27
     DEF Next, Step, Operate, Close, World

FolderKnown == folder \in [given : Folders, count : 0..2] /\ wanted \in BOOLEAN

\* The type of the folder, and of what is asked of it.
LEMMA FolderNext ==
  ASSUME FolderKnown, Next
  PROVE  FolderKnown'
<1> USE DEF FolderKnown, vcenter, asked
<1>1. ASSUME NEW t \in Thread, Probe(t) PROVE FolderKnown'
  BY <1>1 DEF Probe
<1>2. ASSUME NEW t \in Thread, EnsureFolder(t) PROVE FolderKnown'
  <2>1. /\ folder' \in {folder, [folder EXCEPT !.count =
                                  IF folder.count = 0 THEN 1 ELSE folder.count]}
        /\ UNCHANGED wanted
    BY <1>2 DEF EnsureFolder
  <2> QED
    BY <2>1
<1>3. ASSUME NEW t \in Thread, List(t) PROVE FolderKnown'
  BY <1>3 DEF List
<1>4. ASSUME NEW t \in Thread, Skip(t) PROVE FolderKnown'
  BY <1>4 DEF Skip
<1>5. ASSUME NEW t \in Thread, Refuse(t) PROVE FolderKnown'
  BY <1>5 DEF Refuse
<1>6. ASSUME NEW t \in Thread, Spawn(t) PROVE FolderKnown'
  BY <1>6 DEF Spawn
<1>7. ASSUME NEW t \in Thread, Register(t) PROVE FolderKnown'
  BY <1>7 DEF Register
<1>8. ASSUME NEW t \in Thread, Read(t) PROVE FolderKnown'
  BY <1>8 DEF Read
<1>9. ASSUME NEW t \in Thread, LastNode(t) PROVE FolderKnown'
  BY <1>9 DEF LastNode
<1>10. ASSUME NEW t \in Thread, Confirm(t) PROVE FolderKnown'
  BY <1>10 DEF Confirm
<1>11. ASSUME NEW t \in Thread, ToolRuns(t) PROVE FolderKnown'
  BY <1>11 DEF ToolRuns
<1>12. ASSUME NEW p \in Processes, Start(p) PROVE FolderKnown'
  BY <1>12 DEF Start
<1>13. ASSUME NEW p \in Processes, PressButton(p) PROVE FolderKnown'
  BY <1>13 DEF PressButton
<1>14. ASSUME NEW p \in Processes, QuitTui(p) PROVE FolderKnown'
  BY <1>14 DEF QuitTui
<1>15. ASSUME NEW p \in Processes, Interrupt(p) PROVE FolderKnown'
  BY <1>15 DEF Interrupt
<1>16. ASSUME NEW p \in Processes, HandlePress(p) PROVE FolderKnown'
  BY <1>16 DEF HandlePress
<1>17. ASSUME NEW p \in Processes, HookLooks(p) PROVE FolderKnown'
  BY <1>17 DEF HookLooks
<1>18. ASSUME NEW p \in Processes, HookStops(p) PROVE FolderKnown'
  BY <1>18 DEF HookStops
<1>19. ASSUME NEW p \in Processes, ProcessExits(p) PROVE FolderKnown'
  BY <1>19 DEF ProcessExits
<1>20. ASSUME NEW p \in Processes, ProcessKilled(p) PROVE FolderKnown'
  BY <1>20 DEF ProcessKilled
<1>21. CASE OrphanRuns
  BY <1>21 DEF OrphanRuns
<1>22. CASE Repair
  BY <1>22 DEF Repair
<1>23. ASSUME NEW v \in Node, PowerOff(v) PROVE FolderKnown'
  BY <1>23 DEF PowerOff
<1>24. ASSUME NEW t \in Thread, RefuseFolder(t) PROVE FolderKnown'
  BY <1>24 DEF RefuseFolder
<1>25. ASSUME NEW t \in Thread, RefuseAmbiguous(t) PROVE FolderKnown'
  BY <1>25 DEF RefuseAmbiguous
<1>26. CASE MendFolder
  <2>1. folder' = [folder EXCEPT !.count = 1] /\ wanted' \in BOOLEAN
    BY <1>26 DEF MendFolder
  <2>2. folder' \in [given : Folders, count : 0..2]
    BY <2>1
  <2> QED
    BY <2>1, <2>2
<1>27. CASE NewFolder
  <2>1. /\ folder' = [folder EXCEPT !.count = folder.count + 1]
        /\ folder.count # 2 /\ UNCHANGED wanted
    BY <1>27 DEF NewFolder, Ambiguous
  <2> QED
    BY <2>1
<1> QED
  BY <1>1, <1>2, <1>3, <1>4, <1>5, <1>6, <1>7, <1>8, <1>9, <1>10, <1>11,
     <1>12, <1>13, <1>14, <1>15, <1>16, <1>17, <1>18, <1>19, <1>20, <1>21,
     <1>22, <1>23, <1>24, <1>25, <1>26, <1>27
     DEF Next, Step, Operate, Close, World

\* The types of the ovftools and of what the hook keeps of them.
LEMMA UploadsNext ==
  ASSUME SessionTypeOK, Engines, Uploads, ToolHasEngine, Next
  PROVE  Uploads'
<1> USE DEF Uploads, hook
<1>1. ASSUME NEW t \in Thread, Probe(t) PROVE Uploads'
  BY <1>1 DEF Probe
<1>2. ASSUME NEW t \in Thread, EnsureFolder(t) PROVE Uploads'
  BY <1>2 DEF EnsureFolder
<1>3. ASSUME NEW t \in Thread, List(t) PROVE Uploads'
  BY <1>3 DEF List
<1>4. ASSUME NEW t \in Thread, Skip(t) PROVE Uploads'
  BY <1>4 DEF Skip
<1>5. ASSUME NEW t \in Thread, Refuse(t) PROVE Uploads'
  BY <1>5 DEF Refuse
<1>6. ASSUME NEW t \in Thread, Spawn(t) PROVE Uploads'
  BY <1>6 DEF Spawn
<1>7. ASSUME NEW t \in Thread, Register(t) PROVE Uploads'
  BY <1>7 DEF Register
<1>8. ASSUME NEW t \in Thread, Read(t) PROVE Uploads'
  BY <1>8 DEF Read
<1>9. ASSUME NEW t \in Thread, LastNode(t) PROVE Uploads'
  BY <1>9 DEF LastNode
<1>10. ASSUME NEW t \in Thread, Confirm(t) PROVE Uploads'
  BY <1>10 DEF Confirm
<1>11. ASSUME NEW t \in Thread, ToolRuns(t) PROVE Uploads'
  BY <1>11 DEF ToolRuns
<1>12. ASSUME NEW p \in Processes, Start(p) PROVE Uploads'
  BY <1>12 DEF Start
<1>13. ASSUME NEW p \in Processes, PressButton(p) PROVE Uploads'
  BY <1>13 DEF PressButton
<1>14. ASSUME NEW p \in Processes, QuitTui(p) PROVE Uploads'
  BY <1>14 DEF QuitTui
<1>15. ASSUME NEW p \in Processes, Interrupt(p) PROVE Uploads'
  <2>1. \A t \in Thread : tool[t] \in AtWork => at[t] \in Node
    BY DEF ToolHasEngine, AtWork
  <2>2. Orphaned(p, LAMBDA u : "missed") \subseteq
          [vm : Node, tool : AtWork, why : {"killed", "missed", "survived", "left"}]
    BY <2>1 DEF Orphaned
  <2>3. /\ \/ UNCHANGED orphans
           \/ orphans' = orphans \cup Orphaned(p, LAMBDA u : "missed")
        /\ UNCHANGED hook
    BY <1>15 DEF Interrupt
  <2> QED
    BY <2>2, <2>3
<1>16. ASSUME NEW p \in Processes, HandlePress(p) PROVE Uploads'
  BY <1>16 DEF HandlePress
<1>17. ASSUME NEW p \in Processes, HookLooks(p) PROVE Uploads'
  <2>1. looked' = [looked EXCEPT ![p] =
                  {<<t[2], at[t]>> : t \in {u \in Of(p) : pc[u] = "reading"
                                                          /\ tool[u] \in AtWork}}]
    BY <1>17 DEF HookLooks
  <2>2. \A t \in Of(p) : tool[t] \in AtWork => t[2] \in Slots /\ at[t] \in Node
    BY ThreadPairs DEF Of, ToolHasEngine, SessionTypeOK, AtWork
  <2>3. looked' \in [Processes -> SUBSET (Slots \X Node)]
    BY <2>1, <2>2
  <2>4. owed' = [owed EXCEPT ![p] = looked'[p]] /\ UNCHANGED orphans
    BY <1>17 DEF HookLooks
  <2> QED
    BY <2>3, <2>4
<1>18. ASSUME NEW p \in Processes, HookStops(p) PROVE Uploads'
  <2>1. PICK sv \in owed[p] : owed' = [owed EXCEPT ![p] = owed[p] \ {sv}]
    BY <1>18 DEF HookStops
  <2> QED
    BY <1>18, <2>1 DEF HookStops
<1>19. ASSUME NEW p \in Processes, ProcessExits(p) PROVE Uploads'
  <2> DEFINE why(t) == IF <<t[2], at[t]>> \in looked[p] THEN "survived"
                       ELSE IF t \in alive /\ pc[t] \in {"spawned", "reading"}
                            THEN "missed" ELSE "left"
  <2>1. \A t \in Thread : tool[t] \in AtWork => at[t] \in Node
    BY DEF ToolHasEngine, AtWork
  <2>2. \A t : why(t) \in {"killed", "missed", "survived", "left"}
    OBVIOUS
  <2> HIDE DEF why
  <2>4. Orphaned(p, why) \subseteq
          [vm : Node, tool : AtWork, why : {"killed", "missed", "survived", "left"}]
    BY <2>1, <2>2 DEF Orphaned
  <2> USE DEF why
  <2>3. /\ orphans' = orphans \cup Orphaned(p, why)
        /\ looked' = [looked EXCEPT ![p] = {}] /\ UNCHANGED owed
    BY <1>19 DEF ProcessExits
  <2> HIDE DEF why
  <2> QED
    BY <2>4, <2>3
<1>20. ASSUME NEW p \in Processes, ProcessKilled(p) PROVE Uploads'
  <2>1. \A t \in Thread : tool[t] \in AtWork => at[t] \in Node
    BY DEF ToolHasEngine, AtWork
  <2>2. Orphaned(p, LAMBDA t : "killed") \subseteq
          [vm : Node, tool : AtWork, why : {"killed", "missed", "survived", "left"}]
    BY <2>1 DEF Orphaned
  <2> QED
    BY <1>20, <2>2 DEF ProcessKilled
<1>21. CASE OrphanRuns
  <2>1. PICK o \in orphans, new \in AtWork \cup {"ok", "failed"} :
          orphans' = (orphans \ {o})
                       \cup IF new \in AtWork THEN {[o EXCEPT !.tool = new]} ELSE {}
    BY <1>21 DEF OrphanRuns
  <2>2. new \in AtWork =>
          [o EXCEPT !.tool = new] \in
            [vm : Node, tool : AtWork, why : {"killed", "missed", "survived", "left"}]
    OBVIOUS
  <2> QED
    BY <1>21, <2>1, <2>2 DEF OrphanRuns
<1>22. CASE Repair
  BY <1>22 DEF Repair
<1>23. ASSUME NEW v \in Node, PowerOff(v) PROVE Uploads'
  BY <1>23 DEF PowerOff
<1>24. ASSUME NEW t \in Thread, RefuseFolder(t) PROVE Uploads'
  BY <1>24 DEF RefuseFolder
<1>25. ASSUME NEW t \in Thread, RefuseAmbiguous(t) PROVE Uploads'
  BY <1>25 DEF RefuseAmbiguous
<1>26. CASE MendFolder
  BY <1>26 DEF MendFolder
<1>27. CASE NewFolder
  BY <1>27 DEF NewFolder
<1> QED
  BY <1>1, <1>2, <1>3, <1>4, <1>5, <1>6, <1>7, <1>8, <1>9, <1>10, <1>11,
     <1>12, <1>13, <1>14, <1>15, <1>16, <1>17, <1>18, <1>19, <1>20, <1>21,
     <1>22, <1>23, <1>24, <1>25, <1>26, <1>27
     DEF Next, Step, Operate, Close, World

\* An ovftool is registered with its engine, and its end is read there.
LEMMA ToolHasEngineNext ==
  ASSUME SessionTypeOK, Engines, ToolHasEngine, Next
  PROVE  ToolHasEngine'
<1> USE ThreadPairs, SessionAssumption, VmDeployAssumption
    DEF Engines, AtWork, Node, ToolHasEngine, session, engine
<1>1. ASSUME NEW t \in Thread, Probe(t) PROVE ToolHasEngine'
  BY <1>1 DEF Probe, Goes, Leave, At, Ends
<1>2. ASSUME NEW t \in Thread, EnsureFolder(t) PROVE ToolHasEngine'
  BY <1>2 DEF EnsureFolder, Goes, Leave, At, Ends
<1>3. ASSUME NEW t \in Thread, List(t) PROVE ToolHasEngine'
  BY <1>3 DEF List, Goes, Leave, At, Ends
<1>4. ASSUME NEW t \in Thread, Skip(t) PROVE ToolHasEngine'
  BY <1>4 DEF Skip, At
<1>5. ASSUME NEW t \in Thread, Refuse(t) PROVE ToolHasEngine'
  BY <1>5 DEF Refuse, Leave, At, Ends
<1>6. ASSUME NEW t \in Thread, Spawn(t) PROVE ToolHasEngine'
  BY <1>6 DEF Spawn, Goes, At
<1>7. ASSUME NEW t \in Thread, Register(t) PROVE ToolHasEngine'
  BY <1>7 DEF Register, Goes, At
<1>8. ASSUME NEW t \in Thread, Read(t) PROVE ToolHasEngine'
  BY <1>8 DEF Read, Goes, Leave, At, Ends
<1>9. ASSUME NEW t \in Thread, LastNode(t) PROVE ToolHasEngine'
  BY <1>9 DEF LastNode, Goes, At
<1>10. ASSUME NEW t \in Thread, Confirm(t) PROVE ToolHasEngine'
  BY <1>10 DEF Confirm, Leave, At, Ends
<1>11. ASSUME NEW t \in Thread, ToolRuns(t) PROVE ToolHasEngine'
  BY <1>11 DEF ToolRuns, ToolAdvances
<1>12. ASSUME NEW p \in Processes, Start(p) PROVE ToolHasEngine'
  BY <1>12 DEF Start, Begins, Launch
<1>13. ASSUME NEW p \in Processes, PressButton(p) PROVE ToolHasEngine'
  BY <1>13 DEF PressButton, Press
<1>14. ASSUME NEW p \in Processes, QuitTui(p) PROVE ToolHasEngine'
  BY <1>14 DEF QuitTui, Quit
<1>15. ASSUME NEW p \in Processes, Interrupt(p) PROVE ToolHasEngine'
  BY <1>15 DEF Interrupt, Leave, Stop, Ends
<1>16. ASSUME NEW p \in Processes, HandlePress(p) PROVE ToolHasEngine'
  BY <1>16 DEF HandlePress, Begins, Handle
<1>17. ASSUME NEW p \in Processes, HookLooks(p) PROVE ToolHasEngine'
  BY <1>17 DEF HookLooks, Of, Hook
<1>18. ASSUME NEW p \in Processes, HookStops(p) PROVE ToolHasEngine'
  BY <1>18 DEF HookStops, Stop
<1>19. ASSUME NEW p \in Processes, ProcessExits(p) PROVE ToolHasEngine'
  BY <1>19 DEF ProcessExits, Die, Exit, Of
<1>20. ASSUME NEW p \in Processes, ProcessKilled(p) PROVE ToolHasEngine'
  BY <1>20 DEF ProcessKilled, Die, Kill, Of
<1>21. CASE OrphanRuns
  BY <1>21 DEF OrphanRuns, ToolAdvances
<1>22. CASE Repair
  BY <1>22 DEF Repair
<1>23. ASSUME NEW v \in Node, PowerOff(v) PROVE ToolHasEngine'
  BY <1>23 DEF PowerOff
<1>24. ASSUME NEW t \in Thread, RefuseFolder(t) PROVE ToolHasEngine'
  BY <1>24 DEF RefuseFolder, Leave, At, Ends
<1>25. ASSUME NEW t \in Thread, RefuseAmbiguous(t) PROVE ToolHasEngine'
  BY <1>25 DEF RefuseAmbiguous, Leave, At, Ends
<1>26. CASE MendFolder
  BY <1>26 DEF MendFolder
<1>27. CASE NewFolder
  BY <1>27 DEF NewFolder
<1> QED
  BY <1>1, <1>2, <1>3, <1>4, <1>5, <1>6, <1>7, <1>8, <1>9, <1>10, <1>11,
     <1>12, <1>13, <1>14, <1>15, <1>16, <1>17, <1>18, <1>19, <1>20, <1>21,
     <1>22, <1>23, <1>24, <1>25, <1>26, <1>27
     DEF Next, Step, Operate, Close, World

\* The hook of a process looks before it stops anything, and stops what it saw.
HookOrder ==
  \A p \in Processes :
    /\ front[p] # "stopping" => looked[p] = {} /\ owed[p] = {}
    /\ owed[p] \subseteq looked[p]

\* An engine whose ovftool the hook saw at a node reads it, or is past the node.
HookSees ==
  \A t \in alive : \A v \in Node :
    <<t[2], v>> \in looked[t[1]] =>
      /\ at[t] >= v
      /\ at[t] = v => pc[t] = "reading"

\* What the hook saw at work and has not stopped is still owed.
HookOwes ==
  \A t \in Thread :
    tool[t] \in AtWork /\ <<t[2], at[t]>> \in looked[t[1]] =>
      <<t[2], at[t]>> \in owed[t[1]]

\* An engine that ends takes its place in this with it.
LEMMA LeaveKeepsHook ==
  ASSUME SessionTypeOK, Engines, ToolHasEngine, NEW t \in Thread, NEW ok \in BOOLEAN,
         Leave(t, ok)
  PROVE  /\ HookSees /\ UNCHANGED looked => HookSees'
         /\ HookOwes /\ UNCHANGED <<looked, owed>> => HookOwes'
<1>1. alive' \subseteq alive \ {t}
  BY DEF Leave, Ends
<1>2. \A u \in Thread : u # t => pc'[u] = pc[u] /\ at'[u] = at[u] /\ tool'[u] = tool[u]
  BY DEF Leave, Engines
<1>3. tool'[t] = "none"
  BY DEF Leave, Engines
<1>4. ASSUME HookSees, UNCHANGED looked PROVE HookSees'
  BY <1>1, <1>2, <1>4 DEF HookSees, SessionTypeOK
<1>5. ASSUME HookOwes, UNCHANGED <<looked, owed>> PROVE HookOwes'
  BY <1>2, <1>3, <1>5 DEF HookOwes, AtWork
<1> QED
  BY <1>4, <1>5

\* The hook of a process that is closing goes on in its order.
LEMMA HookOrderNext ==
  ASSUME SessionTypeOK, Uploads, HookOrder, Next
  PROVE  HookOrder'
<1> USE ThreadPairs, SessionAssumption DEF SessionTypeOK, Uploads, HookOrder,
     session, hook
<1>1. ASSUME NEW t \in Thread, Probe(t) PROVE HookOrder'
  BY <1>1 DEF Probe, Goes, Leave, Ends
<1>2. ASSUME NEW t \in Thread, EnsureFolder(t) PROVE HookOrder'
  BY <1>2 DEF EnsureFolder, Goes, Leave, Ends
<1>3. ASSUME NEW t \in Thread, List(t) PROVE HookOrder'
  BY <1>3 DEF List, Goes, Leave, Ends
<1>4. ASSUME NEW t \in Thread, Skip(t) PROVE HookOrder'
  BY <1>4 DEF Skip
<1>5. ASSUME NEW t \in Thread, Refuse(t) PROVE HookOrder'
  BY <1>5 DEF Refuse, Leave, Ends
<1>6. ASSUME NEW t \in Thread, Spawn(t) PROVE HookOrder'
  BY <1>6 DEF Spawn, Goes
<1>7. ASSUME NEW t \in Thread, Register(t) PROVE HookOrder'
  BY <1>7 DEF Register, Goes
<1>8. ASSUME NEW t \in Thread, Read(t) PROVE HookOrder'
  BY <1>8 DEF Read, Goes, Leave, Ends
<1>9. ASSUME NEW t \in Thread, LastNode(t) PROVE HookOrder'
  BY <1>9 DEF LastNode, Goes
<1>10. ASSUME NEW t \in Thread, Confirm(t) PROVE HookOrder'
  BY <1>10 DEF Confirm, Leave, Ends
<1>11. ASSUME NEW t \in Thread, ToolRuns(t) PROVE HookOrder'
  BY <1>11 DEF ToolRuns
<1>12. ASSUME NEW p \in Processes, Start(p) PROVE HookOrder'
  BY <1>12 DEF Start, Launch
<1>13. ASSUME NEW p \in Processes, PressButton(p) PROVE HookOrder'
  BY <1>13 DEF PressButton, Press
<1>14. ASSUME NEW p \in Processes, QuitTui(p) PROVE HookOrder'
  BY <1>14 DEF QuitTui, Quit
<1>15. ASSUME NEW p \in Processes, Interrupt(p) PROVE HookOrder'
  BY <1>15 DEF Interrupt, Leave, Ends
<1>16. ASSUME NEW p \in Processes, HandlePress(p) PROVE HookOrder'
  BY <1>16 DEF HandlePress, Handle
<1>17. ASSUME NEW p \in Processes, HookLooks(p) PROVE HookOrder'
  BY <1>17 DEF HookLooks, Hook
<1>18. ASSUME NEW p \in Processes, HookStops(p) PROVE HookOrder'
  BY <1>18 DEF HookStops
<1>19. ASSUME NEW p \in Processes, ProcessExits(p) PROVE HookOrder'
  BY <1>19 DEF ProcessExits, Exit
<1>20. ASSUME NEW p \in Processes, ProcessKilled(p) PROVE HookOrder'
  BY <1>20 DEF ProcessKilled, Kill
<1>21. CASE OrphanRuns
  BY <1>21 DEF OrphanRuns
<1>22. CASE Repair
  BY <1>22 DEF Repair
<1>23. ASSUME NEW v \in Node, PowerOff(v) PROVE HookOrder'
  BY <1>23 DEF PowerOff
<1>24. ASSUME NEW t \in Thread, RefuseFolder(t) PROVE HookOrder'
  BY <1>24 DEF RefuseFolder, Leave, Ends
<1>25. ASSUME NEW t \in Thread, RefuseAmbiguous(t) PROVE HookOrder'
  BY <1>25 DEF RefuseAmbiguous, Leave, Ends
<1>26. CASE MendFolder
  BY <1>26 DEF MendFolder
<1>27. CASE NewFolder
  BY <1>27 DEF NewFolder
<1> QED
  BY <1>1, <1>2, <1>3, <1>4, <1>5, <1>6, <1>7, <1>8, <1>9, <1>10, <1>11,
     <1>12, <1>13, <1>14, <1>15, <1>16, <1>17, <1>18, <1>19, <1>20, <1>21,
     <1>22, <1>23, <1>24, <1>25, <1>26, <1>27
     DEF Next, Step, Operate, Close, World

\* What the hook saw stays read, or is left behind by its engine.
LEMMA HookSeesNext ==
  ASSUME SessionTypeOK, Engines, Uploads, ToolHasEngine, HookOrder, HookSees, Next
  PROVE  HookSees'
<1> USE ThreadPairs, SessionAssumption, VmDeployAssumption
    DEF SessionTypeOK, Engines, Uploads, HookOrder, HookSees, Node, session, engine, hook
<1>1. ASSUME NEW t \in Thread, Probe(t) PROVE HookSees'
  BY <1>1 DEF Probe, Goes, Leave, At, Ends
<1>2. ASSUME NEW t \in Thread, EnsureFolder(t) PROVE HookSees'
  <2>1. UNCHANGED looked /\ pc[t] = "folder"
    BY <1>2 DEF EnsureFolder, At
  <2>2. CASE Leave(t, FALSE)
    BY <2>1, <2>2, LeaveKeepsHook
  <2>3. CASE Goes(t, "list") /\ UNCHANGED <<at, seen, tool>>
    BY <2>1, <2>3 DEF Goes
  <2> QED
    BY <1>2, <2>2, <2>3 DEF EnsureFolder
<1>3. ASSUME NEW t \in Thread, List(t) PROVE HookSees'
  BY <1>3 DEF List, Goes, Leave, At, Ends
<1>4. ASSUME NEW t \in Thread, Skip(t) PROVE HookSees'
  BY <1>4 DEF Skip, At
<1>5. ASSUME NEW t \in Thread, Refuse(t) PROVE HookSees'
  BY <1>5 DEF Refuse, Leave, At, Ends
<1>6. ASSUME NEW t \in Thread, Spawn(t) PROVE HookSees'
  BY <1>6 DEF Spawn, Goes, At
<1>7. ASSUME NEW t \in Thread, Register(t) PROVE HookSees'
  BY <1>7 DEF Register, Goes, At
<1>8. ASSUME NEW t \in Thread, Read(t) PROVE HookSees'
  <2>1. CASE Leave(t, FALSE)
    BY <1>8, <2>1 DEF Read, Leave, Ends
  <2>2. CASE at' = [at EXCEPT ![t] = at[t] + 1] /\ Goes(t, "next")
    BY <1>8, <2>2 DEF Read, Goes
  <2> QED
    BY <1>8, <2>1, <2>2 DEF Read
<1>9. ASSUME NEW t \in Thread, LastNode(t) PROVE HookSees'
  BY <1>9 DEF LastNode, Goes, At
<1>10. ASSUME NEW t \in Thread, Confirm(t) PROVE HookSees'
  BY <1>10 DEF Confirm, Leave, At, Ends
<1>11. ASSUME NEW t \in Thread, ToolRuns(t) PROVE HookSees'
  BY <1>11 DEF ToolRuns
<1>12. ASSUME NEW p \in Processes, Start(p) PROVE HookSees'
  <2>1. UNCHANGED <<at, looked>> /\ alive \subseteq alive'
    BY <1>12 DEF Start, Launch
  <2>2. \A t \in alive : pc'[t] = pc[t]
    BY <1>12 DEF Start, Begins
  <2>3. \A t \in alive' \ alive : looked[t[1]] = {}
    <3>1. looked[p] = {} /\ alive' \subseteq alive \cup {<<p, First>>}
      BY <1>12 DEF Start, Launch
    <3> QED
      BY <3>1
  <2>4. alive' \subseteq Thread
    BY <1>12 DEF Start, Launch, Thread
  <2> QED
    BY <2>1, <2>2, <2>3, <2>4
<1>13. ASSUME NEW p \in Processes, PressButton(p) PROVE HookSees'
  BY <1>13 DEF PressButton, Press
<1>14. ASSUME NEW p \in Processes, QuitTui(p) PROVE HookSees'
  BY <1>14 DEF QuitTui, Quit
<1>15. ASSUME NEW p \in Processes, Interrupt(p) PROVE HookSees'
  <2>1. <<p, First>> \in Thread /\ UNCHANGED looked /\ Leave(<<p, First>>, FALSE)
    BY <1>15 DEF Interrupt, Thread
  <2> QED
    BY <2>1, LeaveKeepsHook
<1>16. ASSUME NEW p \in Processes, HandlePress(p) PROVE HookSees'
  <2>1. UNCHANGED <<at, looked>>
    BY <1>16 DEF HandlePress
  <2>2. \A t \in alive : pc'[t] = pc[t]
    BY <1>16 DEF HandlePress, Begins
  <2>3. PICK s \in Slots : Handle(p, s)
    BY <1>16 DEF HandlePress
  <2>4. looked[p] = {} /\ alive' \subseteq alive \cup {<<p, s>>}
    BY <2>3 DEF Handle
  <2>5. \A t \in alive' \ alive : looked'[t[1]] = {}
    BY <2>1, <2>4
  <2> QED
    BY <2>1, <2>2, <2>5
<1>17. ASSUME NEW p \in Processes, HookLooks(p) PROVE HookSees'
  <2>1. UNCHANGED <<pc, at, alive>> /\ p \in DOMAIN looked
    BY <1>17 DEF HookLooks, Hook
  <2>2. looked' = [looked EXCEPT ![p] =
                  {<<t[2], at[t]>> : t \in {u \in Of(p) : pc[u] = "reading"
                                                          /\ tool[u] \in AtWork}}]
    BY <1>17 DEF HookLooks
  <2>3. ASSUME NEW t \in alive, NEW v \in Node, <<t[2], v>> \in looked'[t[1]], t[1] = p
        PROVE  at[t] = v /\ pc[t] = "reading"
    <3>1. PICK u \in Of(p) : pc[u] = "reading" /\ <<t[2], v>> = <<u[2], at[u]>>
      BY <2>1, <2>2, <2>3
    <3>2. u \in alive /\ u[1] = p /\ t[2] = u[2] /\ v = at[u]
      BY <3>1 DEF Of
    <3>4. t \in Thread /\ u \in Thread
      BY <3>2
    <3>5. t = <<t[1], t[2]>> /\ u = <<u[1], u[2]>>
      BY <3>4
    <3>3. t = u
      BY <2>3, <3>2, <3>5
    <3> QED
      BY <3>1, <3>2, <3>3
  <2>4. ASSUME NEW t \in alive, t[1] # p PROVE looked'[t[1]] = looked[t[1]]
    BY <2>2, <2>4
  <2> QED
    BY <2>1, <2>3, <2>4
<1>18. ASSUME NEW p \in Processes, HookStops(p) PROVE HookSees'
  BY <1>18 DEF HookStops
<1>19. ASSUME NEW p \in Processes, ProcessExits(p) PROVE HookSees'
  BY <1>19 DEF ProcessExits, Die, Exit, Of
<1>20. ASSUME NEW p \in Processes, ProcessKilled(p) PROVE HookSees'
  <2>1. alive' = {t \in alive : t[1] # p} /\ looked' = [looked EXCEPT ![p] = {}]
    BY <1>20 DEF ProcessKilled, Kill, Of
  <2>2. \A t \in alive' : pc'[t] = pc[t] /\ at'[t] = at[t]
    BY <1>20, <2>1 DEF ProcessKilled, Die
  <2> QED
    BY <2>1, <2>2
<1>21. CASE OrphanRuns
  BY <1>21 DEF OrphanRuns
<1>22. CASE Repair
  BY <1>22 DEF Repair
<1>23. ASSUME NEW v \in Node, PowerOff(v) PROVE HookSees'
  BY <1>23 DEF PowerOff
<1>24. ASSUME NEW t \in Thread, RefuseFolder(t) PROVE HookSees'
  BY <1>24 DEF RefuseFolder, Leave, At, Ends
<1>25. ASSUME NEW t \in Thread, RefuseAmbiguous(t) PROVE HookSees'
  BY <1>25 DEF RefuseAmbiguous, Leave, At, Ends
<1>26. CASE MendFolder
  BY <1>26 DEF MendFolder
<1>27. CASE NewFolder
  BY <1>27 DEF NewFolder
<1> QED
  BY <1>1, <1>2, <1>3, <1>4, <1>5, <1>6, <1>7, <1>8, <1>9, <1>10, <1>11,
     <1>12, <1>13, <1>14, <1>15, <1>16, <1>17, <1>18, <1>19, <1>20, <1>21,
     <1>22, <1>23, <1>24, <1>25, <1>26, <1>27
     DEF Next, Step, Operate, Close, World

\* Nothing the hook saw is dropped before it is stopped.
LEMMA HookOwesNext ==
  ASSUME SessionTypeOK, Engines, Uploads, ToolHasEngine, HookOrder, HookSees,
         HookOwes, Next
  PROVE  HookOwes'
<1> USE ThreadPairs, SessionAssumption, VmDeployAssumption
    DEF SessionTypeOK, Engines, Uploads, AtWork, ToolHasEngine, HookOwes, session, engine, hook
<1>1. ASSUME NEW t \in Thread, Probe(t) PROVE HookOwes'
  BY <1>1 DEF Probe, Goes, Leave, At, Ends
<1>2. ASSUME NEW t \in Thread, EnsureFolder(t) PROVE HookOwes'
  <2>1. UNCHANGED <<looked, owed>>
    BY <1>2 DEF EnsureFolder
  <2>2. CASE Leave(t, FALSE)
    BY <2>1, <2>2, LeaveKeepsHook
  <2>3. CASE Goes(t, "list") /\ UNCHANGED <<at, seen, tool>>
    BY <2>1, <2>3
  <2> QED
    BY <1>2, <2>2, <2>3 DEF EnsureFolder
<1>3. ASSUME NEW t \in Thread, List(t) PROVE HookOwes'
  BY <1>3 DEF List, Goes, Leave, At, Ends
<1>4. ASSUME NEW t \in Thread, Skip(t) PROVE HookOwes'
  BY <1>4 DEF Skip, At
<1>5. ASSUME NEW t \in Thread, Refuse(t) PROVE HookOwes'
  BY <1>5 DEF Refuse, Leave, At, Ends
<1>6. ASSUME NEW t \in Thread, Spawn(t) PROVE HookOwes'
  <2>1. /\ t \in alive /\ pc[t] = "next" /\ at[t] \in Node
        /\ tool' = [tool EXCEPT ![t] = "opening"] /\ UNCHANGED <<at, hook>>
    BY <1>6 DEF Spawn, At, Node
  <2>2. <<t[2], at[t]>> \notin looked[t[1]]
    BY <2>1 DEF HookSees
  <2> QED
    BY <2>1, <2>2
<1>7. ASSUME NEW t \in Thread, Register(t) PROVE HookOwes'
  BY <1>7 DEF Register, Goes, At
<1>8. ASSUME NEW t \in Thread, Read(t) PROVE HookOwes'
  BY <1>8 DEF Read, Goes, Leave, At, Ends
<1>9. ASSUME NEW t \in Thread, LastNode(t) PROVE HookOwes'
  BY <1>9 DEF LastNode, Goes, At
<1>10. ASSUME NEW t \in Thread, Confirm(t) PROVE HookOwes'
  <2>1. UNCHANGED <<looked, owed>>
    BY <1>10 DEF Confirm
  <2>2. CASE Leave(t, FALSE)
    BY <2>1, <2>2, LeaveKeepsHook
  <2>3. CASE Leave(t, TRUE)
    BY <2>1, <2>3, LeaveKeepsHook
  <2> QED
    BY <1>10, <2>2, <2>3 DEF Confirm
<1>11. ASSUME NEW t \in Thread, ToolRuns(t) PROVE HookOwes'
  BY <1>11 DEF ToolRuns, ToolAdvances
<1>12. ASSUME NEW p \in Processes, Start(p) PROVE HookOwes'
  BY <1>12 DEF Start, Begins, Launch
<1>13. ASSUME NEW p \in Processes, PressButton(p) PROVE HookOwes'
  BY <1>13 DEF PressButton, Press
<1>14. ASSUME NEW p \in Processes, QuitTui(p) PROVE HookOwes'
  BY <1>14 DEF QuitTui, Quit
<1>15. ASSUME NEW p \in Processes, Interrupt(p) PROVE HookOwes'
  BY <1>15 DEF Interrupt, Leave, Stop, Ends
<1>16. ASSUME NEW p \in Processes, HandlePress(p) PROVE HookOwes'
  BY <1>16 DEF HandlePress, Begins, Handle
<1>17. ASSUME NEW p \in Processes, HookLooks(p) PROVE HookOwes'
  BY <1>17 DEF HookLooks, Of, Hook
<1>18. ASSUME NEW p \in Processes, HookStops(p) PROVE HookOwes'
  <2>1. PICK sv \in owed[p] :
          /\ owed' = [owed EXCEPT ![p] = owed[p] \ {sv}]
          /\ \/ tool' = [tool EXCEPT ![<<p, sv[1]>>] = "failed"]
             \/ /\ ~(at[<<p, sv[1]>>] = sv[2] /\ tool[<<p, sv[1]>>] \in AtWork)
                /\ UNCHANGED tool
    BY <1>18 DEF HookStops, Stop
  <2>2. UNCHANGED <<at, looked>>
    BY <1>18 DEF HookStops
  <2>3. sv \in Slots \X Node
    OBVIOUS
  <2>4. ASSUME NEW u \in Thread, tool'[u] \in AtWork, u[1] = p
        PROVE  <<u[2], at[u]>> # sv
    <3> SUFFICES ASSUME <<u[2], at[u]>> = sv PROVE FALSE
      OBVIOUS
    <3>1. u = <<p, sv[1]>> /\ at[u] = sv[2]
      BY <2>4
    <3> QED
      BY <2>1, <2>4, <3>1
  <2>5. ASSUME NEW u \in Thread, tool'[u] \in AtWork
        PROVE  tool[u] \in AtWork
    BY <2>1, <2>3, <2>5 DEF Thread
  <2> QED
    BY <2>1, <2>2, <2>4, <2>5
<1>19. ASSUME NEW p \in Processes, ProcessExits(p) PROVE HookOwes'
  BY <1>19 DEF ProcessExits, Die, Exit, Of
<1>20. ASSUME NEW p \in Processes, ProcessKilled(p) PROVE HookOwes'
  BY <1>20 DEF ProcessKilled, Die, Kill, Of
<1>21. CASE OrphanRuns
  BY <1>21 DEF OrphanRuns
<1>22. CASE Repair
  BY <1>22 DEF Repair
<1>23. ASSUME NEW v \in Node, PowerOff(v) PROVE HookOwes'
  BY <1>23 DEF PowerOff
<1>24. ASSUME NEW t \in Thread, RefuseFolder(t) PROVE HookOwes'
  BY <1>24 DEF RefuseFolder, Leave, At, Ends
<1>25. ASSUME NEW t \in Thread, RefuseAmbiguous(t) PROVE HookOwes'
  BY <1>25 DEF RefuseAmbiguous, Leave, At, Ends
<1>26. CASE MendFolder
  BY <1>26 DEF MendFolder
<1>27. CASE NewFolder
  BY <1>27 DEF NewFolder
<1> QED
  BY <1>1, <1>2, <1>3, <1>4, <1>5, <1>6, <1>7, <1>8, <1>9, <1>10, <1>11,
     <1>12, <1>13, <1>14, <1>15, <1>16, <1>17, <1>18, <1>19, <1>20, <1>21,
     <1>22, <1>23, <1>24, <1>25, <1>26, <1>27
     DEF Next, Step, Operate, Close, World

-----------------------------------------------------------------------------
(* What is left over, and what a green end means.                          *)

\* A process that has left has no upload but one the hook could not know of.
LEMMA UploadsAreStoppedNext ==
  ASSUME SessionTypeOK, Engines, Uploads, ToolHasEngine, HookOwes,
         UploadsAreStopped, Next
  PROVE  UploadsAreStopped'
<1> USE DEF UploadsAreStopped, hook, engine
<1>1. ASSUME NEW t \in Thread, Probe(t) PROVE UploadsAreStopped'
  BY <1>1 DEF Probe
<1>2. ASSUME NEW t \in Thread, EnsureFolder(t) PROVE UploadsAreStopped'
  BY <1>2 DEF EnsureFolder
<1>3. ASSUME NEW t \in Thread, List(t) PROVE UploadsAreStopped'
  BY <1>3 DEF List
<1>4. ASSUME NEW t \in Thread, Skip(t) PROVE UploadsAreStopped'
  BY <1>4 DEF Skip
<1>5. ASSUME NEW t \in Thread, Refuse(t) PROVE UploadsAreStopped'
  BY <1>5 DEF Refuse
<1>6. ASSUME NEW t \in Thread, Spawn(t) PROVE UploadsAreStopped'
  BY <1>6 DEF Spawn
<1>7. ASSUME NEW t \in Thread, Register(t) PROVE UploadsAreStopped'
  BY <1>7 DEF Register
<1>8. ASSUME NEW t \in Thread, Read(t) PROVE UploadsAreStopped'
  BY <1>8 DEF Read
<1>9. ASSUME NEW t \in Thread, LastNode(t) PROVE UploadsAreStopped'
  BY <1>9 DEF LastNode
<1>10. ASSUME NEW t \in Thread, Confirm(t) PROVE UploadsAreStopped'
  BY <1>10 DEF Confirm
<1>11. ASSUME NEW t \in Thread, ToolRuns(t) PROVE UploadsAreStopped'
  BY <1>11 DEF ToolRuns
<1>12. ASSUME NEW p \in Processes, Start(p) PROVE UploadsAreStopped'
  BY <1>12 DEF Start
<1>13. ASSUME NEW p \in Processes, PressButton(p) PROVE UploadsAreStopped'
  BY <1>13 DEF PressButton
<1>14. ASSUME NEW p \in Processes, QuitTui(p) PROVE UploadsAreStopped'
  BY <1>14 DEF QuitTui
<1>15. ASSUME NEW p \in Processes, Interrupt(p) PROVE UploadsAreStopped'
  <2>1. \/ UNCHANGED orphans
        \/ orphans' = orphans \cup Orphaned(p, LAMBDA u : "missed")
    BY <1>15 DEF Interrupt
  <2>2. \A o \in Orphaned(p, LAMBDA u : "missed") : o.why = "missed"
    BY DEF Orphaned
  <2> QED
    BY <2>1, <2>2
<1>16. ASSUME NEW p \in Processes, HandlePress(p) PROVE UploadsAreStopped'
  BY <1>16 DEF HandlePress
<1>17. ASSUME NEW p \in Processes, HookLooks(p) PROVE UploadsAreStopped'
  BY <1>17 DEF HookLooks
<1>18. ASSUME NEW p \in Processes, HookStops(p) PROVE UploadsAreStopped'
  BY <1>18 DEF HookStops
<1>19. ASSUME NEW p \in Processes, ProcessExits(p) PROVE UploadsAreStopped'
  <2> DEFINE why(t) == IF <<t[2], at[t]>> \in looked[p] THEN "survived"
                       ELSE IF t \in alive /\ pc[t] \in {"spawned", "reading"}
                            THEN "missed" ELSE "left"
  <2>1. \A t \in Thread : t[1] = p /\ tool[t] \in AtWork => why(t) = "missed"
    <3>1. owed[p] = {}
      BY <1>19 DEF ProcessExits
    <3> SUFFICES ASSUME NEW t \in Thread, t[1] = p, tool[t] \in AtWork
                 PROVE  why(t) = "missed"
      OBVIOUS
    <3>2. <<t[2], at[t]>> \notin looked[p]
      BY <3>1 DEF HookOwes
    <3>3. t \in alive /\ pc[t] \in {"spawned", "reading"}
      BY DEF ToolHasEngine, AtWork
    <3> QED
      BY <3>2, <3>3
  <2> HIDE DEF why
  <2>2. \A o \in Orphaned(p, why) : o.why = "missed"
    BY <2>1 DEF Orphaned
  <2> USE DEF why
  <2>3. orphans' = orphans \cup Orphaned(p, why)
    BY <1>19 DEF ProcessExits
  <2> HIDE DEF why
  <2> QED
    BY <2>2, <2>3
<1>20. ASSUME NEW p \in Processes, ProcessKilled(p) PROVE UploadsAreStopped'
  <2>1. orphans' = orphans \cup Orphaned(p, LAMBDA t : "killed")
    BY <1>20 DEF ProcessKilled
  <2>2. \A o \in Orphaned(p, LAMBDA t : "killed") : o.why = "killed"
    BY DEF Orphaned
  <2> QED
    BY <2>1, <2>2
<1>21. CASE OrphanRuns
  <2>1. PICK o \in orphans, new \in AtWork \cup {"ok", "failed"} :
          orphans' = (orphans \ {o})
                       \cup IF new \in AtWork THEN {[o EXCEPT !.tool = new]} ELSE {}
    BY <1>21 DEF OrphanRuns
  <2>2. o \in [vm : Node, tool : AtWork, why : {"killed", "missed", "survived", "left"}]
    BY DEF Uploads
  <2>3. [o EXCEPT !.tool = new].why = o.why
    BY <2>2
  <2> QED
    BY <2>1, <2>3
<1>22. CASE Repair
  BY <1>22 DEF Repair
<1>23. ASSUME NEW v \in Node, PowerOff(v) PROVE UploadsAreStopped'
  BY <1>23 DEF PowerOff
<1>24. ASSUME NEW t \in Thread, RefuseFolder(t) PROVE UploadsAreStopped'
  BY <1>24 DEF RefuseFolder
<1>25. ASSUME NEW t \in Thread, RefuseAmbiguous(t) PROVE UploadsAreStopped'
  BY <1>25 DEF RefuseAmbiguous
<1>26. CASE MendFolder
  BY <1>26 DEF MendFolder
<1>27. CASE NewFolder
  BY <1>27 DEF NewFolder
<1> QED
  BY <1>1, <1>2, <1>3, <1>4, <1>5, <1>6, <1>7, <1>8, <1>9, <1>10, <1>11,
     <1>12, <1>13, <1>14, <1>15, <1>16, <1>17, <1>18, <1>19, <1>20, <1>21,
     <1>22, <1>23, <1>24, <1>25, <1>26, <1>27
     DEF Next, Step, Operate, Close, World

UpOrNamesake(v) == vm[v] = "on" \/ (~Scoped /\ Elsewhere[v] = "on")

\* Said to be done, every node is on, or a namesake is where the list sees it.
LEMMA DoneMeansUp ==
  ASSUME SaysDone
  PROVE  \A v \in Node : UpOrNamesake(v)
<1>1. PICK l \in Listing : AllOn(l)
  BY DEF SaysDone
<1>2. ASSUME NEW v \in Node PROVE UpOrNamesake(v)
  <2>1. "on" \in Reported(v)
    BY <1>1 DEF AllOn, Listing
  <2> QED
    BY <2>1 DEF UpOrNamesake, Reported, Anywhere
<1> QED
  BY <1>2

UpIfGreen ==
  \A t \in alive \ alive' : outcome' = "green" => \A v \in Node : UpOrNamesake(v)

\* An engine ends phase 10 green only on a look that finds every node on.
LEMMA GreenNext ==
  ASSUME Next
  PROVE  UpIfGreen
<1> USE DEF UpIfGreen, session
<1>1. ASSUME NEW t \in Thread, Probe(t) PROVE UpIfGreen
  <2>1. CASE SaysDone /\ Leave(t, TRUE)
    BY <2>1, DoneMeansUp
  <2>2. CASE Goes(t, "folder")
    BY <2>2 DEF Goes, session
  <2> QED
    BY <1>1, <2>1, <2>2 DEF Probe
<1>2. ASSUME NEW t \in Thread, EnsureFolder(t) PROVE UpIfGreen
  <2>1. CASE Leave(t, FALSE)
    BY <2>1 DEF Leave, Ends
  <2>2. CASE Goes(t, "list")
    BY <2>2 DEF Goes, session
  <2> QED
    BY <1>2, <2>1, <2>2 DEF EnsureFolder
<1>3. ASSUME NEW t \in Thread, List(t) PROVE UpIfGreen
  <2>1. CASE Leave(t, FALSE)
    BY <2>1 DEF Leave, Ends
  <2>2. CASE Goes(t, "next")
    BY <2>2 DEF Goes, session
  <2> QED
    BY <1>3, <2>1, <2>2 DEF List
<1>4. ASSUME NEW t \in Thread, Skip(t) PROVE UpIfGreen
  BY <1>4 DEF Skip
<1>5. ASSUME NEW t \in Thread, Refuse(t) PROVE UpIfGreen
  BY <1>5 DEF Refuse, Leave, Ends
<1>6. ASSUME NEW t \in Thread, Spawn(t) PROVE UpIfGreen
  BY <1>6 DEF Spawn, Goes
<1>7. ASSUME NEW t \in Thread, Register(t) PROVE UpIfGreen
  BY <1>7 DEF Register, Goes
<1>8. ASSUME NEW t \in Thread, Read(t) PROVE UpIfGreen
  <2>1. CASE Leave(t, FALSE)
    BY <2>1 DEF Leave, Ends
  <2>2. CASE Goes(t, "next")
    BY <2>2 DEF Goes, session
  <2> QED
    BY <1>8, <2>1, <2>2 DEF Read
<1>9. ASSUME NEW t \in Thread, LastNode(t) PROVE UpIfGreen
  BY <1>9 DEF LastNode, Goes
<1>10. ASSUME NEW t \in Thread, Confirm(t) PROVE UpIfGreen
  <2>1. CASE SaysDone /\ Leave(t, TRUE)
    BY <2>1, DoneMeansUp
  <2>2. CASE Leave(t, FALSE)
    BY <2>2 DEF Leave, Ends
  <2> QED
    BY <1>10, <2>1, <2>2 DEF Confirm
<1>11. ASSUME NEW t \in Thread, ToolRuns(t) PROVE UpIfGreen
  BY <1>11 DEF ToolRuns
<1>12. ASSUME NEW p \in Processes, Start(p) PROVE UpIfGreen
  BY <1>12 DEF Start, Launch
<1>13. ASSUME NEW p \in Processes, PressButton(p) PROVE UpIfGreen
  BY <1>13 DEF PressButton, Press
<1>14. ASSUME NEW p \in Processes, QuitTui(p) PROVE UpIfGreen
  BY <1>14 DEF QuitTui, Quit
<1>15. ASSUME NEW p \in Processes, Interrupt(p) PROVE UpIfGreen
  BY <1>15 DEF Interrupt, Leave, Ends
<1>16. ASSUME NEW p \in Processes, HandlePress(p) PROVE UpIfGreen
  BY <1>16 DEF HandlePress, Handle
<1>17. ASSUME NEW p \in Processes, HookLooks(p) PROVE UpIfGreen
  BY <1>17 DEF HookLooks, Of, Hook
<1>18. ASSUME NEW p \in Processes, HookStops(p) PROVE UpIfGreen
  BY <1>18 DEF HookStops
<1>19. ASSUME NEW p \in Processes, ProcessExits(p) PROVE UpIfGreen
  BY <1>19 DEF ProcessExits, Exit, Of
<1>20. ASSUME NEW p \in Processes, ProcessKilled(p) PROVE UpIfGreen
  BY <1>20 DEF ProcessKilled, Kill, Of
<1>21. CASE OrphanRuns
  BY <1>21 DEF OrphanRuns
<1>22. CASE Repair
  BY <1>22 DEF Repair
<1>23. ASSUME NEW v \in Node, PowerOff(v) PROVE UpIfGreen
  BY <1>23 DEF PowerOff
<1>24. ASSUME NEW t \in Thread, RefuseFolder(t) PROVE UpIfGreen
  BY <1>24 DEF RefuseFolder, Leave, Ends
<1>25. ASSUME NEW t \in Thread, RefuseAmbiguous(t) PROVE UpIfGreen
  BY <1>25 DEF RefuseAmbiguous, Leave, Ends
<1>26. CASE MendFolder
  BY <1>26 DEF MendFolder
<1>27. CASE NewFolder
  BY <1>27 DEF NewFolder
<1> QED
  BY <1>1, <1>2, <1>3, <1>4, <1>5, <1>6, <1>7, <1>8, <1>9, <1>10, <1>11,
     <1>12, <1>13, <1>14, <1>15, <1>16, <1>17, <1>18, <1>19, <1>20, <1>21,
     <1>22, <1>23, <1>24, <1>25, <1>26, <1>27
     DEF Next, Step, Operate, Close, World

-----------------------------------------------------------------------------
(* The theorems.                                                           *)

Inv ==
  /\ SessionInv
  /\ FolderKnown /\ Engines /\ Vcenter /\ Uploads
  /\ ToolHasEngine /\ HookOrder /\ HookSees /\ HookOwes
  /\ UploadsAreStopped

\* The inductive invariant holds of a host without processes,
LEMMA InvInit ==
  ASSUME Init
  PROVE  Inv
<1> USE SessionAssumption, VmDeployAssumption DEF Init, SessionInit
<1>1. SessionInv
  BY DEF SessionInv, SessionTypeOK, EnginesAreIn, LockIsHeld, Single, Alone
<1>2. FolderKnown /\ Vcenter
  <2>1. FolderKnown
    <3>1. PICK given \in Folders :
            folder = [given |-> given, count |-> IF given = "none" THEN 1 ELSE 0]
      OBVIOUS
    <3>2. (IF given = "none" THEN 1 ELSE 0) \in 0..2
      OBVIOUS
    <3>3. folder \in [given : Folders, count : 0..2]
      BY <3>1, <3>2
    <3> QED
      BY <3>3 DEF FolderKnown
  <2>2. Vcenter
    BY DEF Vcenter, VmState, NoVm
  <2> QED
    BY <2>1, <2>2
<1>5. Uploads /\ HookOrder
  <2>1. Uploads
    BY DEF Uploads
  <2>2. HookOrder
    BY DEF HookOrder
  <2> QED
    BY <2>1, <2>2
<1>3. Engines
  BY DEF Engines, Pcs, VmState
<1>4. ToolHasEngine /\ HookSees /\ HookOwes /\ UploadsAreStopped
  BY DEF ToolHasEngine, HookSees, HookOwes, UploadsAreStopped, AtWork
<1> QED
  BY <1>1, <1>2, <1>3, <1>4, <1>5 DEF Inv

\* of what an action makes of it,
LEMMA InvNext ==
  ASSUME Inv, Next
  PROVE  Inv'
<1> USE DEF Inv, SessionInv
<1>1. Moves
  BY NextMoves
<1>2. SessionTypeOK' /\ EnginesAreIn' /\ LockIsHeld' /\ Single'
  BY <1>1, SessionTypes, EnginesAreInNext, LockIsHeldNext, SingleNext
<1>3. FolderKnown' /\ Engines' /\ Vcenter' /\ Uploads'
  BY FolderNext, EnginesNext, VcenterNext, UploadsNext
<1>4. ToolHasEngine' /\ HookOrder' /\ HookSees' /\ HookOwes'
  BY ToolHasEngineNext, HookOrderNext, HookSeesNext, HookOwesNext
<1>5. UploadsAreStopped'
  BY UploadsAreStoppedNext
<1> QED
  BY <1>2, <1>3, <1>4, <1>5

\* and of a step that changes nothing.
LEMMA InvStutter ==
  ASSUME Inv, UNCHANGED vars
  PROVE  Inv'
<1> USE DEF vars, session, vcenter, engine, hook, asked
<1>1. SessionInv'
  BY DEF Inv, SessionInv, SessionTypeOK, EnginesAreIn, LockIsHeld, Single, Alone
<1>2. FolderKnown' /\ Engines' /\ Vcenter' /\ Uploads'
  BY DEF Inv, FolderKnown, Engines, Vcenter, Uploads
<1>3. ToolHasEngine' /\ HookOrder' /\ HookSees' /\ HookOwes' /\ UploadsAreStopped'
  BY DEF Inv, ToolHasEngine, HookOrder, HookSees, HookOwes, UploadsAreStopped
<1> QED
  BY <1>1, <1>2, <1>3 DEF Inv

\* The inductive invariant of phase 10.
THEOREM Invariance == Spec => []Inv
<1>1. Init => Inv
  BY InvInit
<1>2. Inv /\ [Next]_vars => Inv'
  BY InvNext, InvStutter
<1> QED
  BY <1>1, <1>2, PTL DEF Spec

\* The types, of the session and of phase 10.
THEOREM TypesHold == Spec => []TypeOK
<1>1. Inv => TypeOK
  BY DEF Inv, SessionInv, FolderKnown, Engines, Vcenter, Uploads, TypeOK
<1> QED
  BY <1>1, Invariance, PTL

\* One deploy per cluster, whatever the number of processes and of threads.
THEOREM OneDeployPerCluster == Spec => []OneDeploy
<1>1. ASSUME Inv PROVE OneDeploy
  <2> USE <1>1 DEF Inv, SessionInv
  <2>1. ASSUME NEW t \in alive
        PROVE  lock = t[1] \/ front[t[1]] \in {"closing", "stopping"}
    <3>1. t[1] \in Processes
      BY ThreadPairs DEF SessionTypeOK
    <3> QED
      BY <3>1 DEF EnginesAreIn, LockIsHeld, SessionTypeOK
  <2>2. ASSUME NEW p \in Processes, "press_twice" \notin Habits[p]
        PROVE  Cardinality(Of(p)) <= 1
    <3>1. CASE Of(p) = {}
      BY <3>1, FS_EmptySet
    <3>2. CASE Of(p) # {}
      <4>1. PICK t : t \in Of(p)
        BY <3>2
      <4>2. Of(p) = {t}
        BY <2>2, <4>1 DEF Of, Single, Alone
      <4>3. Cardinality({t}) = 1
        BY FS_Singleton, Zenon
      <4> QED
        BY <4>2, <4>3
    <3> QED
      BY <3>1, <3>2
  <2> QED
    BY <2>1, <2>2 DEF OneDeploy
<1> QED
  BY <1>1, Invariance, PTL

\* No upload outlives its process but after a kill, or one the hook could not
\* know of, however many engines a process has and however the hook runs
\* beside them.
THEOREM UploadsStopped == Spec => []UploadsAreStopped
<1>1. Inv => UploadsAreStopped
  BY DEF Inv
<1> QED
  BY <1>1, Invariance, PTL

\* A green end of phase 10: every node of the configuration is up, or, where the
\* list is not limited to a folder, a VM of its name is up elsewhere.
THEOREM GreenIsUp == Spec => GreenMeansUp
<1>1. [Next]_vars => [UpIfGreen]_vars
  BY GreenNext
<1> QED
  BY <1>1, PTL DEF Spec, GreenMeansUp, UpIfGreen, UpOrNamesake

\* With a folder in the configuration, and a vCenter that honours it, every node
\* is up.
THEOREM GreenIsBuilt ==
  ASSUME Filters, "none" \notin Folders
  PROVE  Spec => GreenMeansBuilt
<1> DEFINE Built ==
      \A t \in alive \ alive' : outcome' = "green" => \A v \in Node : vm[v] = "on"
<1>1. Inv /\ [Next]_vars => [Built]_vars
  <2> SUFFICES ASSUME Inv, Next PROVE Built
    OBVIOUS
  <2>1. Scoped
    BY DEF Inv, FolderKnown, Scoped
  <2> QED
    BY <2>1, GreenNext DEF UpIfGreen, UpOrNamesake
<1> QED
  BY <1>1, Invariance, PTL DEF Spec, GreenMeansBuilt
=============================================================================
