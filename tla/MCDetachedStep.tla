--------------------------- MODULE MCDetachedStep ---------------------------
(* DetachedStep with phase 70's order of limits: silence ends a wait before *)
(* a stall does, and a stall long before the timeout.                       *)
EXTENDS DetachedStep

\* Every call but the launch, whose loss MCRolloutLaunchTwice.cfg shows.
MCFaulty == Calls \ {"start"}
=============================================================================
