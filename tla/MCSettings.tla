----------------------------- MODULE MCSettings -----------------------------
(* A small instance of Settings for TLC. *)
EXTENDS Settings

MCScalars == <<"ntp_server", "nfs_host", "nfs_path", "nfs_version">>
MCShipped == <<"nfs_host", "nfs_version">>

MCPlain == [v \in Raw |-> IF v = "04" THEN "4" ELSE v]

Scalar(ntp, host, path, version) ==
  [k \in Scalars |->
     CASE k = "ntp_server" -> ntp [] k = "nfs_host" -> host
       [] k = "nfs_path" -> path [] k = "nfs_version" -> version]

Server(host, port) == [host |-> host, port |-> port]
Syslog(entries)    == [loki |-> "absent", syslog |-> entries]

Loki == [loki |-> "whole", syslog |-> <<Server("h", "unset")>>]

\* Each key set, changed and dropped, alone and with others, and what the
\* validation turns away.
MCConfigs ==
  {[scalar |-> Scalar("v", NoValue, NoValue, NoValue), logging |-> Loki],
   [scalar |-> Scalar("04", "v", "v", "4"),
    logging |-> Syslog(<<Server("h", "514"), Server("g", "6514")>>)],
   [scalar |-> Scalar(NoValue, "v", "4", NoValue), logging |-> NoSection],
   [scalar |-> Scalar("v", "v", Colon, "04"),
    logging |-> Syslog(<<Server(NoValue, "514"), Server("h", "word")>>)]}

\* With white space for a host.
MCBlank == {[scalar |-> Scalar("v", Blank, "v", NoValue), logging |-> NoSection]}
=============================================================================
