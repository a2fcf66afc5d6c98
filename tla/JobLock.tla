------------------------------- MODULE JobLock -------------------------------
(***************************************************************************)
(* One scheduled job on several replicas: the wrapper that AddJob of       *)
(* pkg/scheduler/manager.go puts around it, and the advisory lock of       *)
(* internal/store/postgresql/lock.go that every replica tries to take for  *)
(* it.  The lock belongs to a database connection.  What the job does is   *)
(* left open: TrafficAlerts is one such job.                               *)
(***************************************************************************)
EXTENDS Naturals, FiniteSets

CONSTANTS Replica,     \* the processes of the deployment
          Run,         \* executions of the wrapper under way at the same time
          None,
          LastHour,    \* bound: the clock stops there
          MaxFaults    \* bound on failures of the lock service and restarts

\* What the module using this one has to assume of the constants.
JobConstants ==
  /\ None \notin Run \cup Replica /\ Run \cap Replica = {}
  /\ LastHour \in Nat /\ MaxFaults \in Nat

VARIABLES now,      \* the hour on the clock
          fired,    \* the hour for which each replica's cron fired last
          run,      \* [phase, replica] of each execution
          holder,   \* the execution whose connection holds the lock, or
                    \* the replica if this is one in its connection pool
          outages,  \* failures of the lock service so far
          restarts

jobVars == <<now, fired, run, holder, outages, restarts>>

Hour == 0..LastHour
Working(j) == run[j].phase = "work"
Idle == [phase |-> "idle", replica |-> None]

Init ==
  /\ now = 0
  /\ fired = [r \in Replica |-> 0]
  /\ run = [j \in Run |-> Idle]
  /\ holder = None
  /\ outages = 0 /\ restarts = 0

-----------------------------------------------------------------------------
Tick ==
  /\ now < LastHour
  /\ now' = now + 1
  /\ UNCHANGED <<fired, run, holder, outages, restarts>>

\* The cron of a replica fires once for an hour, late if its host is.  Nothing
\* waits for the execution of an earlier hour.
Fire(r, j) ==
  /\ fired[r] < now /\ run[j].phase = "idle"
  /\ fired' = [fired EXCEPT ![r] = now]
  /\ run' = [run EXCEPT ![j] = [phase |-> "lock", replica |-> r]]
  /\ UNCHANGED <<now, holder, outages, restarts>>

\* A bug: who does not get the lock works as well.
TryLockAnyway(j) ==
  /\ run[j].phase = "lock"
  /\ holder' = IF holder = None THEN j ELSE holder
  /\ run' = [run EXCEPT ![j].phase = "work"]
  /\ UNCHANGED <<now, fired, outages, restarts>>

\* pg_try_advisory_lock on a connection out of the pool: who does not get the
\* lock skips.  On the very connection that holds it already, it is granted.
TryLock(j) ==
  /\ run[j].phase = "lock"
  /\ \/ /\ holder = None
        /\ holder' = j /\ run' = [run EXCEPT ![j].phase = "work"]
     \/ /\ holder # None
        /\ run' = [run EXCEPT ![j] = Idle] /\ UNCHANGED holder
     \/ /\ holder = run[j].replica
        /\ run' = [run EXCEPT ![j].phase = "work"] /\ UNCHANGED holder
  /\ UNCHANGED <<now, fired, outages, restarts>>

\* No connection, an error or no answer in five seconds: the job runs all the
\* same, without the lock.
LockUnavailable(j) ==
  /\ run[j].phase = "lock" /\ outages + restarts < MaxFaults
  /\ run' = [run EXCEPT ![j].phase = "work"]
  /\ outages' = outages + 1
  /\ UNCHANGED <<now, fired, holder, restarts>>

\* PostgreSQL frees the lock of a connection that breaks, or that the pool closes;
\* the job goes on.
ConnectionLost ==
  /\ holder # None /\ outages + restarts < MaxFaults
  /\ holder' = None
  /\ outages' = outages + 1
  /\ UNCHANGED <<now, fired, run, restarts>>

\* The job returns, or panics (cron.Recover): release is deferred.
Finish(j) ==
  /\ Working(j)
  /\ run' = [run EXCEPT ![j].phase = "release"]
  /\ UNCHANGED <<now, fired, holder, outages, restarts>>

\* A bug: the job's goroutine ends without the release.
ReleaseForgotten(j) ==
  /\ run[j].phase = "release"
  /\ run' = [run EXCEPT ![j] = Idle]
  /\ UNCHANGED <<now, fired, holder, outages, restarts>>

\* release: the unlock is sent on the connection that took the lock.  It takes
\* back one of the grants that the connection has.
Release(j) ==
  /\ run[j].phase = "release"
  /\ holder' = IF holder = j THEN None ELSE holder
  /\ run' = [run EXCEPT ![j] = Idle]
  /\ UNCHANGED <<now, fired, outages, restarts>>

\* The unlock fails, an error that nobody looks at, and the connection lives: Close
\* returns it to the pool with the lock.
UnlockFails(j) ==
  /\ run[j].phase = "release" /\ outages + restarts < MaxFaults
  /\ holder' = IF holder = j THEN run[j].replica ELSE holder
  /\ run' = [run EXCEPT ![j] = Idle]
  /\ outages' = outages + 1
  /\ UNCHANGED <<now, fired, restarts>>

\* A process dies with its executions and connections; the next one fires from
\* the next hour on.
Restart(r) ==
  /\ outages + restarts < MaxFaults
  /\ restarts' = restarts + 1
  /\ fired' = [fired EXCEPT ![r] = now]
  /\ run' = [j \in Run |-> IF run[j].replica = r THEN Idle ELSE run[j]]
  /\ holder' = IF holder = r \/ (holder \in Run /\ run[holder].replica = r)
               THEN None ELSE holder
  /\ UNCHANGED <<now, outages>>

Next ==
  \/ Tick \/ ConnectionLost
  \/ \E r \in Replica : Restart(r) \/ \E j \in Run : Fire(r, j)
  \/ \E j \in Run : \/ TryLock(j) \/ LockUnavailable(j)
                   \/ Finish(j) \/ Release(j) \/ UnlockFails(j)

Spec == Init /\ [][Next]_jobVars

-----------------------------------------------------------------------------
TypeOK ==
  /\ now \in Hour /\ fired \in [Replica -> Hour]
  /\ run \in [Run -> [phase : {"lock", "work", "release"}, replica : Replica] \cup {Idle}]
  /\ holder \in Run \cup Replica \cup {None}
  /\ outages \in 0..MaxFaults /\ restarts \in 0..MaxFaults

\* As long as the lock service has not failed, the job is executed by one
\* replica at a time, whatever the delays, restarts and panics: what the
\* comment of TryAdvisoryLock promises.
OneRunner ==
  outages = 0 =>
    \A j, k \in Run : run[j].phase \in {"work", "release"}
                      /\ run[k].phase \in {"work", "release"} => j = k
=============================================================================
