--------------------------- MODULE MCTrafficAlerts ---------------------------
(* Two replicas, two executions of the hourly job at a time, three hours in  *)
(* two days of the site, one failure of the lock service or restart.         *)
EXTENDS TrafficAlerts
CONSTANTS r1, r2, j1, j2
MCReplica == {r1, r2}
MCRun == {j1, j2}
=============================================================================
