--------------------------- MODULE MCPlainEngine ----------------------------
(* PlainEngine on five phases with the shape of the table: two branches     *)
(* below preflight that meet in the services.                               *)
EXTENDS PlainEngine, TLC

\* 1 preflight, 2 VMs to bootstrap, 3 load balancer, 4 platform, 5 services
MCDeps == 1 :> {} @@ 2 :> {1} @@ 3 :> {1} @@ 4 :> {2} @@ 5 :> {3, 4}
MCDisturbs == 1 :> {} @@ 2 :> {4, 5} @@ 3 :> {5} @@ 4 :> {5} @@ 5 :> {}
=============================================================================
