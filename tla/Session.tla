------------------------------ MODULE Session ------------------------------
(***************************************************************************)
(* One `axs deploy`: the lock of the cluster (runlock.py), the two front   *)
(* ends (cli.cmd_deploy) and the threads the engine runs in (tui_deploy).  *)
(*                                                                         *)
(* What an engine does is left to the module that extends this one.        *)
(***************************************************************************)
EXTENDS Naturals, FiniteSets

CONSTANTS
  Processes,  \* the aXs processes on the tool host
  Nobody,     \* no process
  Slots,      \* bound: the engines one process can have at a time
  First,      \* the slot of the plain path, whose engine is the main thread
  Presses,    \* bound: the presses of a button that wait to be handled
  Habits      \* what the operator of each process does besides waiting

Thread == Processes \X Slots

ASSUME SessionAssumption ==
  /\ Nobody \notin Processes
  /\ First \in Slots
  /\ Presses \in Nat \ {0}
  /\ Habits \in [Processes -> SUBSET {"press_twice", "quit", "interrupt", "kill"}]

VARIABLES
  lock,     \* the process that holds clusters/<name>/.lock
  front,    \* per process: "off", "plain", "tui", "closing", "stopping"
  button,   \* per process: a button that starts an engine is on the screen
  pressed,  \* per process: the presses of it not handled yet
  alive,    \* the engines at work
  outcome   \* what the last engine to end said: "none", "failed" or "green"

session == <<lock, front, button, pressed, alive, outcome>>

Of(p) == {t \in alive : t[1] = p}

SessionTypeOK ==
  /\ lock \in Processes \cup {Nobody}
  /\ front \in [Processes -> {"off", "plain", "tui", "closing", "stopping"}]
  /\ button \in [Processes -> BOOLEAN]
  /\ pressed \in [Processes -> 0..Presses]
  /\ alive \subseteq Thread
  /\ outcome \in {"none", "failed", "green"}

SessionInit ==
  /\ lock = Nobody
  /\ front = [p \in Processes |-> "off"]
  /\ button = [p \in Processes |-> FALSE]
  /\ pressed = [p \in Processes |-> 0]
  /\ alive = {}
  /\ outcome = "none"

\* Mutant of Launch: the plain path does not ask for the lock.
LaunchPlainUnlocked(p) ==
  /\ front[p] = "off"
  /\ \/ /\ lock = Nobody /\ lock' = p
        /\ front' = [front EXCEPT ![p] = "tui"]
        /\ button' = [button EXCEPT ![p] = TRUE]
        /\ UNCHANGED <<alive, outcome>>
     \/ /\ front' = [front EXCEPT ![p] = "plain"]
        /\ alive' = alive \cup {<<p, First>>}
        /\ outcome' = "none"
        /\ UNCHANGED <<lock, button>>
  /\ UNCHANGED pressed

\* ClusterLock.acquire: who finds the lock taken ends at once and is not seen
\* here. The TUI asks for the passwords first; the plain path is the engine.
Launch(p) ==
  /\ front[p] = "off" /\ lock = Nobody
  /\ lock' = p
  /\ \/ /\ front' = [front EXCEPT ![p] = "tui"]
        /\ button' = [button EXCEPT ![p] = TRUE]
        /\ UNCHANGED <<alive, outcome>>
     \/ /\ front' = [front EXCEPT ![p] = "plain"]
        /\ alive' = alive \cup {<<p, First>>}
        /\ outcome' = "none"
        /\ UNCHANGED button
  /\ UNCHANGED pressed

\* Start on the credentials screen or Retry on the board. The message is
\* queued; until it is handled the button can be pressed again.
Press(p) ==
  /\ front[p] = "tui" /\ button[p] /\ pressed[p] < Presses
  /\ pressed[p] > 0 => "press_twice" \in Habits[p]
  /\ pressed' = [pressed EXCEPT ![p] = @ + 1]
  /\ UNCHANGED <<lock, front, button, alive, outcome>>

\* _start_engine hides the buttons and starts a thread, whoever is at work.
Handle(p, s) ==
  /\ front[p] = "tui" /\ pressed[p] > 0 /\ <<p, s>> \notin alive
  /\ s = First \/ <<p, First>> \in alive
  /\ pressed' = [pressed EXCEPT ![p] = @ - 1]
  /\ button' = [button EXCEPT ![p] = FALSE]
  /\ alive' = alive \cup {<<p, s>>}
  /\ outcome' = "none"
  /\ UNCHANGED <<lock, front>>

\* The engine returns. The plain path then releases the lock; the board shows
\* Retry unless the deploy is complete, if there still is a board.
Ends(t, ok) ==
  /\ alive' = alive \ {t}
  /\ outcome' = IF ok THEN "green" ELSE "failed"
  /\ IF front[t[1]] = "plain"
     THEN /\ front' = [front EXCEPT ![t[1]] = "closing"] /\ lock' = Nobody
          /\ UNCHANGED button
     ELSE /\ button' = [button EXCEPT ![t[1]] = front[t[1]] = "tui" /\ ~ok]
          /\ UNCHANGED <<front, lock>>
  /\ UNCHANGED pressed

\* App.exit: DeployApp.run returns and cmd_deploy releases the lock. The
\* engines are daemon threads: they go on until the interpreter ends.
Quit(p) ==
  /\ front[p] = "tui"
  /\ front' = [front EXCEPT ![p] = "closing"]
  /\ button' = [button EXCEPT ![p] = FALSE]
  /\ pressed' = [pressed EXCEPT ![p] = 0]
  /\ lock' = Nobody
  /\ UNCHANGED <<alive, outcome>>

\* The exit handlers begin, the engines still at work beside them ...
Hook(p) ==
  /\ front[p] = "closing"
  /\ front' = [front EXCEPT ![p] = "stopping"]
  /\ UNCHANGED <<lock, button, pressed, alive, outcome>>

\* ... and are done: the interpreter ends.
Exit(p) ==
  /\ front[p] = "stopping"
  /\ front' = [front EXCEPT ![p] = "off"]
  /\ alive' = alive \ Of(p)
  /\ outcome' = IF Of(p) = {} THEN outcome ELSE "none"
  /\ UNCHANGED <<lock, button, pressed>>

\* SIGKILL, a crash: no handler runs, and the kernel drops the lock.
Kill(p) ==
  /\ front[p] # "off"
  /\ front' = [front EXCEPT ![p] = "off"]
  /\ button' = [button EXCEPT ![p] = FALSE]
  /\ pressed' = [pressed EXCEPT ![p] = 0]
  /\ alive' = alive \ Of(p)
  /\ lock' = IF lock = p THEN Nobody ELSE lock
  /\ outcome' = "none"
=============================================================================
