------------------------------ MODULE MCTenant ------------------------------
(* Tenant with every call unanswered at times but the reading of the log.   *)
EXTENDS Tenant

MCFaulty == Calls \ {"log"}
=============================================================================
