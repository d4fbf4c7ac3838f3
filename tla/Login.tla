------------------------------- MODULE Login -------------------------------
(***************************************************************************)
(* One remote command over ssh (ssh.py): by key, or by the password typed  *)
(* into ssh's own prompt over a pty. What the command does is left to the  *)
(* module that extends this one.                                           *)
(***************************************************************************)
EXTENDS Naturals, Sequences, SequencesExt

CONSTANTS
  Keyed,   \* whether the node may know the key: a set of BOOLEANs
  Right,   \* whether the password may be right, likewise
  Unread   \* bound: pieces of output the pty holds

ASSUME LoginAssumption ==
  /\ Keyed \subseteq BOOLEAN /\ Keyed # {}
  /\ Right \subseteq BOOLEAN /\ Right # {}
  /\ Unread \in Nat /\ Unread >= 2

VARIABLES
  keyed, right,  \* this node takes the key; the password is right
  call,     \* "none", "key" or "login": the call in progress
  ssh,      \* its ssh: "asks", "asks_again", "runs", "zero", "nonzero",
            \* "denied", "lost" or, without one, "none"
  typed,    \* passwords typed into it
  tty,      \* what the pty holds, in pieces
  tail,     \* the pieces of the sentinel at the end of what was read
  authed,   \* the sentinel was seen
  late,     \* auth_window is over
  answer    \* of the last call: "none", "ok", "failed" or "denied"

node  == <<keyed, right>>
pty   == <<typed, tty, tail, authed, late>>
login == <<node, call, ssh, pty, answer>>

\* What a read can return: ssh's prompt, the sentinel or its two halves, and
\* output of the command, which may look like a prompt (profile.yml does).
Piece   == {"prompt", "mark", "mark_1", "mark_2", "text", "password_key"}
Prompts == {"prompt", "password_key"}  \* PASSWORD_PROMPT matches it

LoginTypeOK ==
  /\ keyed \in BOOLEAN /\ right \in BOOLEAN
  /\ call \in {"none", "key", "login"}
  /\ ssh \in {"none", "asks", "asks_again", "runs", "zero", "nonzero", "denied", "lost"}
  /\ typed \in 0..1
  /\ tty \in Seq(Piece) /\ Len(tty) <= Unread
  /\ tail \in {<<>>, <<"mark_1">>}
  /\ authed \in BOOLEAN /\ late \in BOOLEAN
  /\ answer \in {"none", "ok", "failed", "denied"}

LoginInit ==
  /\ keyed \in Keyed /\ right \in Right
  /\ call = "none" /\ ssh = "none" /\ answer = "none"
  /\ typed = 0 /\ tty = <<>> /\ tail = <<>> /\ authed = FALSE /\ late = FALSE

----------------------------------------------------------------------------
(* The calls begin. Whether the command runs shows in ssh' = "runs".       *)

\* BatchMode: the key or nothing.
RunWithKey ==
  /\ call' = "key" /\ answer' = "none"
  /\ ssh' = IF keyed THEN "runs" ELSE "denied"
  /\ UNCHANGED <<node, pty>>

RunWithPassword ==
  /\ call' = "login" /\ answer' = "none" /\ ssh' = "asks"
  /\ typed' = 0 /\ tty' = <<"prompt">>
  /\ tail' = <<>> /\ authed' = FALSE /\ late' = FALSE
  /\ UNCHANGED node

\* The caller goes on with an answer in hand.
Settled == call # "none" /\ answer # "none"

\* An answer of the call; with it the local ssh is gone.
Answers(a) ==
  /\ answer' = a /\ ssh' = "none"
  /\ typed' = 0 /\ tty' = <<>> /\ tail' = <<>> /\ authed' = FALSE /\ late' = FALSE
  /\ UNCHANGED <<node, call>>

\* The exit status of ssh as the answer. 255 with ssh's own words is "denied".
Status(s) == CASE s = "zero" -> "ok" [] s = "denied" -> "denied" [] OTHER -> "failed"

Over == {"zero", "nonzero", "denied", "lost"}

\* run_with_key returns: the command ended, the connection was refused or lost,
KeyReturns ==
  /\ call = "key" /\ ssh \in Over /\ Answers(Status(ssh))

\* or run_timeout is over, whatever the command is at.
KeyTimesOut ==
  /\ call = "key" /\ ssh = "runs" /\ Answers("failed")

----------------------------------------------------------------------------
(* run_with_password: the dialogue.                                        *)

Dialogue == call = "login" /\ ssh # "none"

\* The node takes the password, asks again in other words or hangs up. The
\* command's shell prints the sentinel first; the network may tear it apart.
NodeChecks ==
  /\ Dialogue /\ ssh = "asks" /\ typed = 1
  /\ \/ /\ right /\ ssh' = "runs"
        /\ tty' \in {tty \o <<"mark">>, tty \o <<"mark_1", "mark_2">>}
     \/ ~right /\ ssh' = "asks_again" /\ tty' = Append(tty, "prompt")
     \/ ~right /\ ssh' = "denied" /\ tty' = Append(tty, "text")
  /\ UNCHANGED <<node, call, typed, tail, authed, late, answer>>

\* Mutant of SentinelSeen: this read only.
SentinelInRead(data) ==
  \E i \in DOMAIN data :
    \/ data[i] = "mark"
    \/ data[i] = "mark_1" /\ i < Len(data) /\ data[i + 1] = "mark_2"

\* _sentinel_seen: in what was carried over and the new data.
SentinelSeen(data) ==
  LET hay == tail \o data IN
  \E i \in DOMAIN hay :
    \/ hay[i] = "mark"
    \/ hay[i] = "mark_1" /\ i < Len(hay) /\ hay[i + 1] = "mark_2"

\* Mutant of ReadPty: every prompt is answered.
ReadPtyAnsweringAll ==
  /\ Dialogue
  /\ \E n \in 1..Len(tty) :
       LET data  == SubSeq(tty, 1, n)
           asked == \E i \in DOMAIN data : data[i] \in Prompts
           seen  == authed \/ SentinelSeen(data) IN
       /\ authed' = seen
       /\ tail' = IF ~seen /\ Last(data) = "mark_1" THEN <<"mark_1">> ELSE <<>>
       /\ typed' = IF asked /\ ~seen /\ ~late THEN typed + 1 ELSE typed
       /\ tty' = SubSeq(tty, n + 1, Len(tty))
       /\ UNCHANGED <<node, call, ssh, late, answer>>

\* One read of the pty takes the next pieces, one or several. Before the
\* sentinel and within the window, the first prompt is answered and the second
\* one is a refusal.
ReadPty ==
  /\ Dialogue
  /\ \E n \in 1..Len(tty) :
       LET data  == SubSeq(tty, 1, n)
           asked == \E i \in DOMAIN data : data[i] \in Prompts
           seen  == authed \/ SentinelSeen(data) IN
       IF asked /\ ~seen /\ ~late /\ typed = 1
       THEN Answers("denied")
       ELSE /\ authed' = seen
            /\ tail' = IF ~seen /\ Last(data) = "mark_1" THEN <<"mark_1">> ELSE <<>>
            /\ typed' = IF asked /\ ~seen /\ ~late THEN 1 ELSE typed
            /\ tty' = SubSeq(tty, n + 1, Len(tty))
            /\ UNCHANGED <<node, call, ssh, late, answer>>

WindowCloses ==
  /\ Dialogue /\ ~late /\ late' = TRUE
  /\ UNCHANGED <<node, call, ssh, typed, tty, tail, authed, answer>>

\* Mutant of IdleTooLong: the deadline begins with the command.
IdleOnceRunning ==
  /\ Dialogue /\ tty = <<>> /\ ssh = "runs" /\ Answers("failed")

\* idle_timeout without a word.
IdleTooLong ==
  /\ Dialogue /\ tty = <<>> /\ ssh \notin Over /\ Answers("failed")

\* The pty is drained and ssh has ended: its exit status, from _reap or waitpid.
ChildExits ==
  /\ Dialogue /\ tty = <<>> /\ ssh \in Over /\ Answers(Status(ssh))

\* The connection goes away under either call.
Drop ==
  /\ call # "none" /\ ssh \in {"asks", "asks_again", "runs"}
  /\ ssh' = "lost"
  /\ UNCHANGED <<node, call, pty, answer>>

LoginStep ==
  \/ KeyReturns \/ KeyTimesOut \/ NodeChecks \/ ReadPty \/ WindowCloses
  \/ IdleTooLong \/ ChildExits \/ Drop

\* What the code does by itself, its clocks included.
Client == KeyReturns \/ KeyTimesOut \/ ReadPty \/ IdleTooLong \/ ChildExits
=============================================================================
