----------------------------- MODULE RemoteFile -----------------------------
(***************************************************************************)
(* A file on the bootstrap, read and replaced from the tool host           *)
(* (context.py: write_file, node_run): the shells that the calls of Login  *)
(* start there, the temp file they share, and connections that drop.       *)
(***************************************************************************)
EXTENDS Login, FiniteSetsExt

CONSTANTS
  Contents,    \* what can be written
  NoContent,   \* no content
  Length,      \* per content: its size, in blocks
  HasKey,      \* the contents with a line that looks like a password prompt
  Shells,      \* bound: the remote shells at work at a time
  Lingers      \* a shell may outlive the call it was started by

Shell == 1..Shells
Inode == 1..(Shells + 2)
NoInode == 0

ASSUME RemoteFileAssumption ==
  /\ NoContent \notin Contents
  /\ Length \in [Contents -> Nat \ {0}]
  /\ HasKey \subseteq Contents
  /\ Shells \in Nat \ {0}
  /\ Lingers \in BOOLEAN
  /\ Unread >= 3

VARIABLES
  \* the bootstrap
  dest, tmp,  \* the inodes of the file and of <file>.axs-tmp
  body,       \* per inode: its blocks, each of some content or a "hole"
  shell,      \* per shell: what it runs and how far it is
  \* the tool host
  mine,       \* the shell of the call in progress
  doing,      \* "none", "read", "stdin" or "argv"
  todo,       \* the content of the write
  heard,      \* what the command of the call printed
  said, got   \* how the last operation ended; what the last read returned

files  == <<dest, tmp, body>>
caller == <<doing, todo, said, got>>
vars   == <<login, files, shell, mine, caller, heard>>

Full(c) == [i \in 1..Length[c] |-> c]

\* What the file holds, or that it is cut short or mixed.
Broken == "broken"
Held == IF \E c \in Contents : body[dest] = Full(c)
        THEN CHOOSE c \in Contents : body[dest] = Full(c) ELSE Broken

Idle == [pc |-> "none", op |-> "none", what |-> NoContent, fd |-> NoInode, off |-> 0]

ShellType ==
  [pc : {"none", "start", "write", "check", "move", "clean"},
   op : {"none", "read", "stdin", "argv"},
   what : Contents \cup {NoContent}, fd : Inode \cup {NoInode}, off : Nat]

TypeOK ==
  /\ LoginTypeOK
  /\ dest \in Inode /\ tmp \in Inode \cup {NoInode}
  /\ body \in [Inode -> Seq(Contents \cup {"hole"})]
  /\ shell \in [Shell -> ShellType]
  /\ mine \in Shell \cup {0}
  /\ doing \in {"none", "read", "stdin", "argv"}
  /\ todo \in Contents \cup {NoContent}
  /\ heard \in Contents \cup {NoContent, Broken}
  /\ said \in {"none", "ok", "raised"}
  /\ got \in Contents \cup {NoContent, Broken}

Init ==
  /\ LoginInit
  /\ dest = 1 /\ tmp = NoInode
  /\ \E c \in Contents : body = [i \in Inode |-> IF i = 1 THEN Full(c) ELSE <<>>]
  /\ shell = [s \in Shell |-> Idle]
  /\ mine = 0 /\ doing = "none" /\ todo = NoContent
  /\ heard = NoContent /\ said = "none" /\ got = NoContent

----------------------------------------------------------------------------
(* The tool host.                                                          *)

\* A command that begins to run is a new shell, once those of earlier calls
\* are gone, unless they linger.
Spawns(op, c) ==
  IF ssh' # "runs" THEN UNCHANGED <<shell, mine>>
  ELSE \E s \in Shell :
         /\ shell[s] = Idle
         /\ Lingers \/ \A r \in Shell : shell[r] = Idle
         /\ shell' = [shell EXCEPT ![s] = [Idle EXCEPT !.pc = "start", !.op = op, !.what = c]]
         /\ mine' = s

BeginRead ==
  /\ doing = "none" /\ doing' = "read" /\ said' = "none"
  /\ RunWithKey /\ Spawns("read", NoContent)
  /\ UNCHANGED <<files, todo, got, heard>>

\* _write_via_stdin goes over the key only.
BeginWrite(c) ==
  /\ doing = "none" /\ doing' = "stdin" /\ todo' = c /\ said' = "none"
  /\ RunWithKey /\ Spawns("stdin", c)
  /\ UNCHANGED <<files, got, heard>>

\* node_run: whatever failed over the key is repeated over the password login,
\* unless it was fed over stdin.
FallBack ==
  /\ Settled /\ call = "key" /\ answer # "ok" /\ doing \in {"read", "argv"}
  /\ RunWithPassword
  /\ UNCHANGED <<files, shell, mine, caller, heard>>

\* write_file: a refused login, and nothing else, is answered with the
\* transport that has the content in the command line.
ToArgv ==
  /\ Settled /\ doing = "stdin" /\ answer = "denied" /\ doing' = "argv"
  /\ RunWithKey /\ Spawns("argv", todo)
  /\ UNCHANGED <<files, todo, said, got, heard>>

Finishes(how) ==
  /\ doing' = "none" /\ todo' = NoContent /\ said' = how
  /\ call' = "none" /\ answer' = "none" /\ mine' = 0 /\ heard' = NoContent
  /\ UNCHANGED <<node, ssh, pty, files, shell>>

Return ==
  /\ Settled /\ answer = "ok" /\ Finishes("ok")
  /\ got' = IF doing = "read" THEN heard ELSE got

Raise ==
  /\ Settled /\ answer # "ok" /\ UNCHANGED got
  /\ call = "login" \/ (doing = "stdin" /\ answer = "failed")
  /\ Finishes("raised")

Transport ==
  /\ LoginStep
  /\ IF ssh # "runs" THEN Spawns(doing, todo) ELSE UNCHANGED <<shell, mine>>
  /\ UNCHANGED <<files, caller, heard>>

----------------------------------------------------------------------------
(* The shells on the bootstrap.                                            *)

Linked(s) == mine = s /\ ssh = "runs"

\* A shell ends; whoever still listens learns its status.
ShellEnds(s, status) ==
  /\ shell' = [shell EXCEPT ![s] = Idle]
  /\ ssh' = IF Linked(s) THEN status ELSE ssh
  /\ UNCHANGED <<node, call, typed, tail, authed, late, answer, mine, caller>>

Goes(s, where) ==
  /\ shell' = [shell EXCEPT ![s].pc = where]
  /\ UNCHANGED <<login, mine, caller, heard>>

\* cat: the output comes before the status.
Cats(s) ==
  /\ shell[s].pc = "start" /\ shell[s].op = "read" /\ ShellEnds(s, "zero")
  /\ IF Linked(s)
     THEN /\ heard' = Held
          /\ tty' = IF call # "login" THEN tty
                    ELSE Append(tty, IF Held \in HasKey THEN "password_key" ELSE "text")
     ELSE UNCHANGED <<heard, tty>>
  /\ UNCHANGED files

\* sudo, install: the command fails before it touches anything.
Fails(s) ==
  /\ shell[s].pc = "start" /\ ShellEnds(s, "nonzero")
  /\ UNCHANGED <<files, heard, tty>>

\* > opens the temp file, truncated, or makes it.
Opens(s) ==
  /\ shell[s].pc = "start" /\ shell[s].op \in {"stdin", "argv"}
  /\ LET used == {dest, tmp} \cup {shell[r].fd : r \in Shell}
         i    == IF tmp # NoInode THEN tmp ELSE Min(Inode \ used) IN
       /\ tmp' = i /\ body' = [body EXCEPT ![i] = <<>>]
       /\ shell' = [shell EXCEPT ![s].pc = "write", ![s].fd = i]
  /\ UNCHANGED <<dest, login, mine, caller, heard>>

PutAt(b, off, c) ==
  [i \in 1..Max({Len(b), off + 1}) |->
     IF i = off + 1 THEN c ELSE IF i <= Len(b) THEN b[i] ELSE "hole"]

Writes(s) ==
  LET sh == shell[s] IN
  /\ sh.pc = "write" /\ sh.off < Length[sh.what]
  /\ body' = [body EXCEPT ![sh.fd] = PutAt(@, sh.off, sh.what)]
  /\ shell' = [shell EXCEPT ![s].off = @ + 1]
  /\ UNCHANGED <<dest, tmp, login, mine, caller, heard>>

\* cat ends well on any EOF, that of a connection that dropped included.
Closes(s) ==
  LET sh == shell[s] IN
  /\ sh.pc = "write"
  /\ sh.off = Length[sh.what] \/ (sh.op = "stdin" /\ ~Linked(s))
  /\ Goes(s, IF sh.op = "stdin" THEN "check" ELSE "move")
  /\ UNCHANGED files

\* A full disk.
WriteFails(s) ==
  /\ shell[s].pc = "write" /\ Goes(s, "clean") /\ UNCHANGED files

\* Mutant of Checks: a temp file is all it takes.
ChecksPresence(s) ==
  /\ shell[s].pc = "check"
  /\ Goes(s, IF tmp # NoInode THEN "move" ELSE "clean")
  /\ UNCHANGED files

Checks(s) ==
  /\ shell[s].pc = "check"
  /\ Goes(s, IF tmp # NoInode /\ Len(body[tmp]) = Length[shell[s].what]
             THEN "move" ELSE "clean")
  /\ UNCHANGED files

Moves(s) ==
  /\ shell[s].pc = "move"
  /\ IF tmp # NoInode
     THEN dest' = tmp /\ tmp' = NoInode /\ UNCHANGED <<body, heard, tty>> /\ ShellEnds(s, "zero")
     ELSE Goes(s, "clean") /\ UNCHANGED files

\* trap ... EXIT
Cleans(s) ==
  /\ shell[s].pc = "clean" /\ tmp' = NoInode /\ ShellEnds(s, "nonzero")
  /\ UNCHANGED <<dest, body, heard, tty>>

\* The node goes down, or its shell is killed: no trap runs.
Dies(s) ==
  /\ shell[s] # Idle /\ ShellEnds(s, "lost")
  /\ UNCHANGED <<files, heard, tty>>

ShellStep(s) ==
  \/ Cats(s) \/ Fails(s) \/ Opens(s) \/ Writes(s) \/ Closes(s) \/ WriteFails(s)
  \/ Checks(s) \/ Moves(s) \/ Cleans(s) \/ Dies(s)

Next ==
  \/ BeginRead \/ \E c \in Contents : BeginWrite(c)
  \/ FallBack \/ ToArgv \/ Return \/ Raise \/ Transport
  \/ \E s \in Shell : ShellStep(s)

Spec == Init /\ [][Next]_vars

\* The tool host runs and its clocks go off; a shell that cannot go on dies.
FairSpec ==
  /\ Spec
  /\ WF_vars(FallBack) /\ WF_vars(ToArgv) /\ WF_vars(Return) /\ WF_vars(Raise)
  /\ WF_vars(Transport /\ Client)
  /\ \A s \in Shell : WF_vars(ShellStep(s))

----------------------------------------------------------------------------
(* Properties.                                                             *)

\* The writes that may still land, as AtomicFile counts them.
Pending ==
  {shell[s].what : s \in {r \in Shell : shell[r].op \in {"stdin", "argv"}}}
    \cup IF doing \in {"stdin", "argv"} THEN {todo} ELSE {}

Promise == INSTANCE AtomicFile WITH
  file <- Held, pending <- Pending,
  doing <- IF doing \in {"stdin", "argv"} THEN "write" ELSE doing

\* write_file and `cat` keep the promise of an atomic file, whatever drops,
\* fails or dies on the way: no part of a content is ever installed or read.
IsAtomic == Promise!Spec

\* "Permission denied" is said of a login only if the node refused it: output
\* of the command that looks like a prompt is not a second prompt (ssh.py:184).
DeniedIsDenied ==
  answer = "denied" => IF call = "login" THEN ~right ELSE ~keyed

\* Every operation ends, a node that says nothing any more included.
OperationEnds == doing # "none" ~> doing = "none"
=============================================================================
