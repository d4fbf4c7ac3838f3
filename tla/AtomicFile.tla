----------------------------- MODULE AtomicFile -----------------------------
(***************************************************************************)
(* What write_file (context.py) promises of a file on the bootstrap: it    *)
(* holds the old content or the new one, never a part, and a write that    *)
(* returned is in it. A write that raised may still land for a while.      *)
(***************************************************************************)
CONSTANTS Contents, NoContent

VARIABLES
  file,     \* what the file holds
  doing,    \* "none", "read" or "write"
  todo,     \* the content of the write in progress
  pending,  \* contents that may still land
  said,     \* how the last operation ended: "none", "ok" or "raised"
  got       \* what the last read returned

vars == <<file, doing, todo, pending, said, got>>

Init ==
  /\ file \in Contents /\ doing = "none" /\ todo = NoContent
  /\ pending = {} /\ said = "none" /\ got = NoContent

Read ==
  /\ doing = "none" /\ doing' = "read" /\ said' = "none"
  /\ UNCHANGED <<file, todo, pending, got>>

Write(c) ==
  /\ doing = "none" /\ doing' = "write" /\ todo' = c /\ said' = "none"
  /\ pending' = pending \cup {c}
  /\ UNCHANGED <<file, got>>

Lands == file' \in pending /\ UNCHANGED <<doing, todo, pending, said, got>>

\* A write that will not land any more.
Dies ==
  /\ pending' \subseteq pending /\ (doing = "write" => todo \in pending')
  /\ UNCHANGED <<file, doing, todo, said, got>>

\* A write that landed may be over as it lands.
LandsAndDies ==
  /\ file' \in pending /\ pending' \subseteq pending
  /\ doing = "write" => todo \in pending'
  /\ UNCHANGED <<doing, todo, said, got>>

Ends(how) == doing' = "none" /\ todo' = NoContent /\ said' = how

Return ==
  /\ doing # "none" /\ Ends("ok")
  /\ \/ doing = "read" /\ got' = file
     \/ doing = "write" /\ file = todo /\ UNCHANGED got
  /\ pending' \subseteq pending /\ UNCHANGED file

Raise ==
  /\ doing # "none" /\ Ends("raised")
  /\ pending' \subseteq pending /\ UNCHANGED <<file, got>>

Next ==
  \/ Read \/ \E c \in Contents : Write(c)
  \/ Lands \/ Dies \/ LandsAndDies \/ Return \/ Raise

Spec == Init /\ [][Next]_vars
=============================================================================
