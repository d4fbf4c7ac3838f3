----------------------------- MODULE MCRollout -----------------------------
(* Rollout with two settings a re-run applies and one it cannot.            *)
EXTENDS Rollout

MCScalars == {"ntp_server", "nfs_host"}
MCLogging == {"logging.loki_server.url"}
MCKeys    == MCScalars \cup MCLogging

Setting(ntp, nfs, log) ==
  [k \in MCKeys |-> CASE k = "ntp_server" -> ntp
                      [] k = "nfs_host" -> nfs
                      [] OTHER -> log]

\* A first configuration, one that changes a value, adds a key and drops the
\* log server, and one that configures nothing.
MCConfigs ==
  {Setting("a", "unset", "a"), Setting("b", "a", "unset"),
   Setting("unset", "unset", "unset")}
MCTwoConfigs == {Setting("a", "unset", "a"), Setting("b", "a", "unset")}
MCFewConfigs == {Setting("a", "unset", "unset"), Setting("b", "a", "unset")}

\* Every call but the three whose silence the code takes for an answer.
MCFaulty == Calls \ {"busy", "hash_count", "last_hash"}

\* For the run with deploys started by hand: nothing holds a second launch
\* back once a launch went unanswered.
StartAnswered == MCFaulty \ {"start"}

\* For the run that asks for the rollout in the end as well: the calls that
\* change something, and those whose silence ends a run late.
LateFaulty == {"write", "marker", "start", "wait", "log", "clear"}
====
