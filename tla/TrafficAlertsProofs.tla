-------------------------- MODULE TrafficAlertsProofs --------------------------
(***************************************************************************)
(* For every set of replicas and executions and every number of restarts:  *)
(* one replica at a time executes a job while the lock service works; the  *)
(* traffic alerts, as one such job, keep to that, and a process mails at   *)
(* most once about an hour or a day.                                       *)
(***************************************************************************)
EXTENDS TrafficAlerts, TLAPS

-----------------------------------------------------------------------------
(* The lock, for any job                                                    *)

Executing(j) == run[j].phase \in {"work", "release"}

\* What makes Job!OneRunner inductive: an execution past the lock is its holder,
\* and no pooled connection has kept the lock.
JobIInv ==
  /\ Job!TypeOK
  /\ outages = 0 => holder \notin Replica /\ \A j \in Run : Executing(j) => holder = j

LEMMA JobInitIInv == Job!JobConstants /\ Job!Init => JobIInv
BY DEF Job!JobConstants, Job!Init, JobIInv, Job!TypeOK, Executing, Job!Idle, Job!Hour

LEMMA JobFireIInv ==
  ASSUME Job!JobConstants, JobIInv, NEW r \in Replica, NEW j \in Run, Job!Fire(r, j)
  PROVE  JobIInv'
<1>1. run' = [run EXCEPT ![j] = [phase |-> "lock", replica |-> r]]
      /\ UNCHANGED <<now, holder, outages, restarts>>
  BY DEF Job!Fire
<1>2. Job!TypeOK'
  <2>1. fired' \in [Replica -> Job!Hour]
    BY DEF JobIInv, Job!TypeOK, Job!Fire
  <2>2. run' \in [Run -> [phase : {"lock", "work", "release"}, replica : Replica] \cup {Job!Idle}]
    BY <1>1 DEF JobIInv, Job!TypeOK
  <2>3. QED BY <1>1, <2>1, <2>2 DEF JobIInv, Job!TypeOK, Job!Idle
<1>3. ASSUME NEW k \in Run, Executing(k)' PROVE Executing(k)
  BY <1>1, <1>3 DEF JobIInv, Job!TypeOK, Executing
<1>4. QED BY <1>1, <1>2, <1>3 DEF JobIInv

LEMMA JobTryLockIInv ==
  ASSUME Job!JobConstants, JobIInv, NEW j \in Run, Job!TryLock(j)
  PROVE  JobIInv'
<1>1. UNCHANGED <<now, fired, outages, restarts>>
  BY DEF Job!TryLock
<1>2. CASE holder' = j /\ run' = [run EXCEPT ![j].phase = "work"] /\ holder = None
  <2>1. holder' = j /\ run' = [run EXCEPT ![j].phase = "work"] /\ run[j].phase = "lock"
    BY <1>2 DEF Job!TryLock
  <2>2. run' \in [Run -> [phase : {"lock", "work", "release"}, replica : Replica] \cup {Job!Idle}]
    BY <2>1 DEF JobIInv, Job!TypeOK, Job!Idle
  <2>3. Job!TypeOK'
    BY <1>1, <2>1, <2>2 DEF JobIInv, Job!TypeOK, Job!Idle
  <2>4. ASSUME outages' = 0, NEW k \in Run, Executing(k)' PROVE holder' = k
    <3>1. k # j => Executing(k)
      BY <2>1, <2>4 DEF JobIInv, Job!TypeOK, Executing
    <3>2. k # j => holder = k
      BY <1>1, <2>4, <3>1 DEF JobIInv
    <3>3. QED BY <1>2, <2>1, <3>2 DEF Job!JobConstants
  <2>5. holder' \notin Replica
    BY <2>1 DEF Job!JobConstants
  <2>6. QED BY <2>3, <2>4, <2>5 DEF JobIInv
<1>3. CASE run' = [run EXCEPT ![j] = Job!Idle] /\ holder' = holder
  <2>1. run' = [run EXCEPT ![j] = Job!Idle] /\ holder' = holder
    BY <1>3
  <2>2. Job!TypeOK'
    BY <1>1, <2>1 DEF JobIInv, Job!TypeOK, Job!Idle
  <2>3. ASSUME NEW k \in Run, Executing(k)' PROVE Executing(k)
    BY <2>1, <2>3 DEF JobIInv, Job!TypeOK, Executing, Job!Idle
  <2>4. QED BY <1>1, <2>1, <2>2, <2>3 DEF JobIInv
<1>4. CASE holder = run[j].replica /\ run' = [run EXCEPT ![j].phase = "work"] /\ holder' = holder
  <2>1. run[j].replica \in Replica /\ run[j].phase = "lock"
    BY DEF JobIInv, Job!TypeOK, Job!TryLock, Job!Idle
  <2>2. outages # 0
    BY <1>4, <2>1 DEF JobIInv
  <2>3. run' \in [Run -> [phase : {"lock", "work", "release"}, replica : Replica] \cup {Job!Idle}]
    BY <1>4, <2>1 DEF JobIInv, Job!TypeOK, Job!Idle
  <2>4. QED BY <1>1, <1>4, <2>2, <2>3 DEF JobIInv, Job!TypeOK, Job!Idle
<1>5. QED BY <1>2, <1>3, <1>4 DEF Job!TryLock

LEMMA JobLockUnavailableIInv ==
  ASSUME Job!JobConstants, JobIInv, NEW j \in Run, Job!LockUnavailable(j)
  PROVE  JobIInv'
<1>1. /\ run' = [run EXCEPT ![j].phase = "work"] /\ run[j].phase = "lock"
      /\ outages' = outages + 1 /\ outages + restarts < MaxFaults
      /\ UNCHANGED <<now, fired, holder, restarts>>
  BY DEF Job!LockUnavailable
<1>2. run' \in [Run -> [phase : {"lock", "work", "release"}, replica : Replica] \cup {Job!Idle}]
  BY <1>1 DEF JobIInv, Job!TypeOK, Job!Idle
<1>3. outages' \in 0..MaxFaults /\ outages' # 0
  BY <1>1 DEF JobIInv, Job!TypeOK, Job!JobConstants
<1>4. QED BY <1>1, <1>2, <1>3 DEF JobIInv, Job!TypeOK, Job!Idle

LEMMA JobConnectionLostIInv ==
  ASSUME Job!JobConstants, JobIInv, Job!ConnectionLost
  PROVE  JobIInv'
<1>1. /\ holder' = None /\ outages' = outages + 1 /\ outages + restarts < MaxFaults
      /\ UNCHANGED <<now, fired, run, restarts>>
  BY DEF Job!ConnectionLost
<1>2. outages' \in 0..MaxFaults /\ outages' # 0
  BY <1>1 DEF JobIInv, Job!TypeOK, Job!JobConstants
<1>3. QED BY <1>1, <1>2 DEF JobIInv, Job!TypeOK, Job!Idle

LEMMA JobFinishIInv ==
  ASSUME Job!JobConstants, JobIInv, NEW j \in Run, Job!Finish(j)
  PROVE  JobIInv'
<1>1. /\ run' = [run EXCEPT ![j].phase = "release"] /\ run[j].phase = "work"
      /\ UNCHANGED <<now, fired, holder, outages, restarts>>
  BY DEF Job!Finish, Job!Working
<1>2. run' \in [Run -> [phase : {"lock", "work", "release"}, replica : Replica] \cup {Job!Idle}]
  BY <1>1 DEF JobIInv, Job!TypeOK, Job!Idle
<1>3. ASSUME NEW k \in Run, Executing(k)' PROVE Executing(k)
  BY <1>1, <1>3 DEF JobIInv, Job!TypeOK, Executing
<1>4. Job!TypeOK'
  BY <1>1, <1>2 DEF JobIInv, Job!TypeOK, Job!Idle
<1>5. QED BY <1>1, <1>3, <1>4 DEF JobIInv

LEMMA JobReleaseIInv ==
  ASSUME Job!JobConstants, JobIInv, NEW j \in Run, Job!Release(j)
  PROVE  JobIInv'
<1>1. /\ run' = [run EXCEPT ![j] = Job!Idle]
      /\ holder' = IF holder = j THEN None ELSE holder
      /\ UNCHANGED <<now, fired, outages, restarts>>
  BY DEF Job!Release
<1>2. Job!TypeOK'
  BY <1>1 DEF JobIInv, Job!TypeOK, Job!Idle
<1>3. ASSUME NEW k \in Run, Executing(k)' PROVE Executing(k) /\ k # j
  BY <1>1, <1>3 DEF JobIInv, Job!TypeOK, Executing, Job!Idle
<1>4. holder' \in Replica => holder \in Replica
  BY <1>1 DEF Job!JobConstants
<1>5. QED BY <1>1, <1>2, <1>3, <1>4 DEF JobIInv

LEMMA JobUnlockFailsIInv ==
  ASSUME Job!JobConstants, JobIInv, NEW j \in Run, Job!UnlockFails(j)
  PROVE  JobIInv'
<1>1. /\ run' = [run EXCEPT ![j] = Job!Idle] /\ run[j].phase = "release"
      /\ holder' = IF holder = j THEN run[j].replica ELSE holder
      /\ outages' = outages + 1 /\ outages + restarts < MaxFaults
      /\ UNCHANGED <<now, fired, restarts>>
  BY DEF Job!UnlockFails
<1>2. outages' \in 0..MaxFaults /\ outages' # 0
  BY <1>1 DEF JobIInv, Job!TypeOK, Job!JobConstants
<1>3. run[j].replica \in Replica
  BY <1>1 DEF JobIInv, Job!TypeOK, Job!Idle
<1>4. QED BY <1>1, <1>2, <1>3 DEF JobIInv, Job!TypeOK, Job!Idle

LEMMA JobRestartIInv ==
  ASSUME Job!JobConstants, JobIInv, NEW r \in Replica, Job!Restart(r)
  PROVE  JobIInv'
<1>1. /\ run' = [j \in Run |-> IF run[j].replica = r THEN Job!Idle ELSE run[j]]
      /\ holder' = IF holder = r \/ (holder \in Run /\ run[holder].replica = r)
                   THEN None ELSE holder
      /\ fired' = [fired EXCEPT ![r] = now]
      /\ restarts' = restarts + 1 /\ outages + restarts < MaxFaults
      /\ UNCHANGED <<now, outages>>
  BY DEF Job!Restart
<1>2. Job!TypeOK'
  <2>1. fired' \in [Replica -> Job!Hour] /\ restarts' \in 0..MaxFaults
    BY <1>1 DEF JobIInv, Job!TypeOK, Job!JobConstants
  <2>2. run' \in [Run -> [phase : {"lock", "work", "release"}, replica : Replica] \cup {Job!Idle}]
    BY <1>1 DEF JobIInv, Job!TypeOK
  <2>3. holder' \in Run \cup Replica \cup {None}
    BY <1>1 DEF JobIInv, Job!TypeOK
  <2>4. QED BY <1>1, <2>1, <2>2, <2>3 DEF JobIInv, Job!TypeOK, Job!Idle
<1>3. ASSUME NEW k \in Run, Executing(k)' PROVE Executing(k) /\ run[k].replica # r
  BY <1>1, <1>3 DEF Executing, Job!Idle
<1>4. holder' \in Replica => holder \in Replica
  BY <1>1 DEF Job!JobConstants
<1>5. ASSUME holder \notin Replica, NEW k \in Run, holder = k, Executing(k)' PROVE holder' = k
  BY <1>1, <1>3, <1>5 DEF Job!JobConstants
<1>6. QED BY <1>1, <1>2, <1>3, <1>4, <1>5 DEF JobIInv

LEMMA JobNextIInv ==
  Job!JobConstants /\ JobIInv /\ [Job!Next]_Job!jobVars => JobIInv'
<1>1. SUFFICES ASSUME Job!JobConstants, JobIInv, [Job!Next]_Job!jobVars PROVE JobIInv'
  OBVIOUS
<1>2. CASE Job!Tick
  BY <1>1, <1>2 DEF Job!Tick, JobIInv, Job!TypeOK, Executing, Job!Hour, Job!JobConstants, Job!Idle
<1>3. CASE UNCHANGED Job!jobVars
  BY <1>1, <1>3 DEF Job!jobVars, JobIInv, Job!TypeOK, Executing, Job!Idle
<1>4. QED
  BY <1>1, <1>2, <1>3, JobFireIInv, JobTryLockIInv, JobLockUnavailableIInv, JobConnectionLostIInv,
     JobFinishIInv, JobReleaseIInv, JobUnlockFailsIInv, JobRestartIInv DEF Job!Next

\* One replica at a time (OneRunner), for any job, any number of replicas,
\* delays, restarts and panics, as long as the lock service has not failed.
THEOREM OneRunnerOfAnyJob == Job!Spec => []Job!OneRunner
<1>0. Job!JobConstants
  BY AlertAssumption
<1>1. Job!Init => JobIInv
  BY <1>0, JobInitIInv
<1>2. JobIInv /\ [Job!Next]_Job!jobVars => JobIInv'
  BY <1>0, JobNextIInv
<1>3. JobIInv => Job!OneRunner
  BY DEF JobIInv, Job!OneRunner, Executing
<1>4. QED BY <1>1, <1>2, <1>3, PTL DEF Job!Spec

-----------------------------------------------------------------------------
(* The traffic alerts: what their steps do to the lock                      *)

LEMMA DayOrder ==
  ASSUME NEW g \in Nat, NEW h \in Nat, g <= h
  PROVE  Day(g) \in Nat /\ Day(h) \in Nat /\ Day(g) <= Day(h)
BY AlertAssumption, SMT DEF Day

LEMMA StepOfJob == [Next]_vars => [Job!Next]_Job!jobVars
BY DEF Next, vars, jobVars, Job!jobVars, Job!Next, Tick, Fire, Lock, ConnectionLost,
   Release, Restart, Step, Check, Begin, Detect, CheckFails, Send, Return, Goto

-----------------------------------------------------------------------------
(* The inductive invariant                                                  *)

\* Hours to come are normal; the hours of a day that have passed are alike.
Signals ==
  /\ \A h \in Hour : h > now => signal[h] = "normal"
  /\ interval = "daily" =>
       \A g, h \in Hour : g <= now /\ h <= now /\ Day(g) = Day(h) => signal[g] = signal[h]

\* A process looks at hours in their order.
InTime ==
  /\ \A r \in Replica : \A h \in checked[r] : h <= now
  /\ \A j \in Run : check[j].pc \in {"detect", "send"} =>
       /\ check[j].hour <= now
       /\ \A h \in checked[run[j].replica] : h <= check[j].hour
  /\ \A j \in Run : check[j].pc = "send" => check[j].hour \in checked[run[j].replica]

\* activeHourly is about the last hour that was looked at.
HourlyMemory(r) ==
  interval = "hourly" =>
    \A h \in checked[r] : (\A g \in checked[r] : g <= h) => active[r] = signal[h]

\* lastDailyEval is the last day that was looked at, and a day is looked at once.
DailyMemory(r) ==
  interval = "daily" =>
    /\ checked[r] = {} => evaluated[r] = None
    /\ \A h \in checked[r] : /\ evaluated[r] \in Nat
                             /\ Day(h) <= evaluated[r] /\ evaluated[r] <= Day(now)
    /\ \A j \in Run : check[j].pc = "detect" /\ run[j].replica = r =>
         \A h \in checked[r] : Day(h) # Day(check[j].hour)

Sending(r, p) ==
  \E j \in Run : check[j].pc = "send" /\ run[j].replica = r /\ PeriodOf(check[j].hour) = p

\* Mails are about hours that were looked at, and none is out yet for the one
\* that is about to be sent.
Mailed(r) ==
  \A p \in Period :
    /\ mails[r][p] <= 1
    /\ mails[r][p] = 1 => \E h \in checked[r] : PeriodOf(h) = p
    /\ Sending(r, p) => mails[r][p] = 0

\* What a process has looked at it has told, or is itself about to tell.
DailyTold(r) ==
  interval = "daily" =>
    \A h \in Hour : signal[h] # "normal" /\ Day(h) = evaluated[r] =>
      Day(h) \in told \/ Sending(r, Day(h))

HourlyTold(r) ==
  interval = "hourly" =>
    \A h \in Hour : {h, h + 1} \subseteq checked[r] /\ signal[h + 1] \notin {"normal", signal[h]} =>
      h + 1 \in told \/ Sending(r, h + 1)

Account(r) == HourlyMemory(r) /\ DailyMemory(r) /\ Mailed(r) /\ DailyTold(r) /\ HourlyTold(r)

IInv ==
  /\ JobIInv /\ TypeOK /\ Signals
  /\ outages = 0 => InTime /\ \A r \in Replica : Account(r)

-----------------------------------------------------------------------------
LEMMA PeriodOfHour == \A h \in Hour : PeriodOf(h) \in Period /\ Day(h) \in Period
BY DEF PeriodOf, Period

LEMMA InitIInv == Init => IInv
<1> SUFFICES ASSUME Init PROVE IInv
  OBVIOUS
<1>1. JobIInv
  BY AlertAssumption, JobInitIInv DEF Init
<1>2. TypeOK
  <2>1. 0 \in Hour
    BY AlertAssumption DEF Job!JobConstants, Hour
  <2>2. \A j \in Run : check[j].pc = "idle" /\ run[j].phase = "idle"
    BY DEF Init, Unstarted, Job!Init, Job!Idle
  <2>3. check \in [Run -> [pc : {"idle", "begin", "detect", "send"}, hour : Hour]]
    BY <2>1 DEF Init, Unstarted
  <2>4. QED BY <1>1, <2>2, <2>3 DEF Init, TypeOK, JobIInv, Direction
<1>3. Signals
  BY DEF Init, Signals
<1>4. \A j \in Run : check[j].pc = "idle"
  BY DEF Init, Unstarted
<1>5. InTime
  BY <1>4 DEF Init, InTime
<1>6. \A r \in Replica : Account(r)
  BY <1>4 DEF Init, Account, HourlyMemory, DailyMemory, Mailed, Sending, DailyTold, HourlyTold
<1>7. QED BY <1>1, <1>2, <1>3, <1>5, <1>6 DEF IInv

\* The lock's part of the invariant, for every step.
LEMMA JobPart == IInv /\ [Next]_vars => JobIInv'
BY AlertAssumption, StepOfJob, JobNextIInv DEF IInv

\* A step of which no process remembers anything: at most an execution begins, or
\* ends, without having anything to send.
LEMMA Unmoved ==
  ASSUME TypeOK, InTime, \A r \in Replica : Account(r),
         UNCHANGED <<now, interval, signal, evaluated, active, checked, mails, told>>,
         \A j \in Run : check[j].pc = "send" \/ check'[j].pc \in {"detect", "send"} =>
           check'[j] = check[j] /\ run'[j].replica = run[j].replica
  PROVE  InTime' /\ \A r \in Replica : Account(r)'
<1>1. ASSUME NEW r, NEW p PROVE Sending(r, p)' <=> Sending(r, p)
  BY DEF Sending, PeriodOf
<1>2. InTime'
  BY DEF InTime
<1>3. ASSUME NEW r \in Replica PROVE Account(r)'
  <2>1. HourlyMemory(r)'
    BY DEF Account, HourlyMemory
  <2>2. DailyMemory(r)'
    BY DEF Account, DailyMemory
  <2>3. Mailed(r)'
    BY <1>1 DEF Account, Mailed, PeriodOf
  <2>4. DailyTold(r)' /\ HourlyTold(r)'
    BY <1>1 DEF Account, DailyTold, HourlyTold
  <2>5. QED BY <2>1, <2>2, <2>3, <2>4 DEF Account
<1>4. QED BY <1>2, <1>3

CheckState == [pc : {"idle", "begin", "detect", "send"}, hour : Hour]

LEMMA CheckerIsReplica ==
  ASSUME IInv, NEW j \in Run, check[j].pc # "idle"
  PROVE  run[j].replica \in Replica /\ run[j].phase = "work"
<1>1. run[j].phase = "work"
  BY DEF IInv, TypeOK
<1>2. run[j] # Job!Idle
  BY <1>1 DEF Job!Idle
<1>3. QED BY <1>1, <1>2 DEF IInv, TypeOK, Job!TypeOK

\* What is left to show of a step that leaves clock and traffic as they are.
LEMMA Kept ==
  ASSUME IInv, JobIInv', TypeOK', UNCHANGED <<now, interval, signal>>,
         outages' = 0 => outages = 0,
         outages = 0 => InTime' /\ \A r \in Replica : Account(r)'
  PROVE  IInv'
<1>1. Signals'
  BY DEF IInv, Signals
<1>2. QED BY <1>1 DEF IInv

LEMMA FireIInv ==
  ASSUME IInv, JobIInv', NEW r \in Replica, NEW j \in Run, Fire(r, j)
  PROVE  IInv'
<1>1. /\ run[j].phase = "idle" /\ run' = [run EXCEPT ![j] = [phase |-> "lock", replica |-> r]]
      /\ UNCHANGED <<now, holder, outages, restarts, alertVars>>
  BY DEF Fire, Job!Fire
<1>2. check[j].pc = "idle"
  BY <1>1 DEF IInv, TypeOK
<1>3. \A k \in Run : k # j => run'[k] = run[k]
  BY <1>1 DEF IInv, TypeOK, Job!TypeOK
<1>4. run'[j].phase = "lock"
  BY <1>1 DEF IInv, TypeOK, Job!TypeOK
<1>5. TypeOK'
  BY <1>1, <1>2, <1>3, <1>4 DEF IInv, TypeOK, JobIInv, alertVars
<1>6. outages = 0 => InTime' /\ \A q \in Replica : Account(q)'
  BY <1>1, <1>2, <1>3, Unmoved DEF IInv, alertVars
<1>7. QED BY <1>1, <1>5, <1>6, Kept DEF alertVars

LEMMA LockIInv ==
  ASSUME IInv, JobIInv', NEW j \in Run, Lock(j)
  PROVE  IInv'
<1>1. /\ run[j].phase = "lock"
      /\ \/ run' = [run EXCEPT ![j] = Job!Idle]
         \/ run' = [run EXCEPT ![j].phase = "work"]
      /\ outages' = outages \/ outages' = outages + 1
      /\ UNCHANGED <<now, interval, signal, evaluated, active, checked, mails, told>>
      /\ check' = IF run'[j].phase = "work" THEN [check EXCEPT ![j].pc = "begin"] ELSE check
  BY DEF Lock, Job!TryLock, Job!LockUnavailable
<1>2. check[j].pc = "idle"
  BY <1>1 DEF IInv, TypeOK
<1>3. \A k \in Run : k # j => run'[k] = run[k] /\ check'[k] = check[k]
  BY <1>1 DEF IInv, TypeOK, Job!TypeOK
<1>4. check'[j].pc \in {"idle", "begin"} /\ (check'[j].pc # "idle" <=> run'[j].phase = "work")
  <2>1. CASE run' = [run EXCEPT ![j] = Job!Idle]
    <3>1. run'[j].phase = "idle"
      BY <2>1 DEF IInv, TypeOK, Job!TypeOK, Job!Idle
    <3>2. QED BY <1>1, <1>2, <3>1
  <2>2. CASE run' = [run EXCEPT ![j].phase = "work"]
    <3>1. run'[j].phase = "work"
      BY <2>2 DEF IInv, TypeOK, Job!TypeOK, Job!Idle
    <3>2. check'[j].pc = "begin"
      BY <1>1, <3>1 DEF IInv, TypeOK
    <3>3. QED BY <3>1, <3>2
  <2>3. QED BY <1>1, <2>1, <2>2
<1>5. TypeOK'
  <2>1. check' \in [Run -> CheckState]
    BY <1>1 DEF IInv, TypeOK, CheckState
  <2>2. \A k \in Run : check'[k].pc # "idle" <=> run'[k].phase = "work"
    BY <1>3, <1>4 DEF IInv, TypeOK
  <2>3. QED BY <1>1, <2>1, <2>2 DEF IInv, TypeOK, JobIInv, CheckState
<1>6. outages = 0 => InTime' /\ \A q \in Replica : Account(q)'
  BY <1>1, <1>2, <1>3, <1>4, Unmoved DEF IInv
<1>7. outages' = 0 => outages = 0
  BY <1>1 DEF IInv, TypeOK, Job!TypeOK
<1>8. QED BY <1>1, <1>5, <1>6, <1>7, Kept

LEMMA ConnectionLostIInv ==
  ASSUME IInv, JobIInv', ConnectionLost
  PROVE  IInv'
<1>1. outages' = outages + 1 /\ UNCHANGED <<now, run, alertVars>>
  BY DEF ConnectionLost, Job!ConnectionLost
<1>2. TypeOK'
  BY <1>1 DEF IInv, TypeOK, JobIInv, alertVars
<1>3. outages' # 0
  BY <1>1 DEF IInv, TypeOK, Job!TypeOK
<1>4. Signals'
  BY <1>1 DEF IInv, Signals, alertVars
<1>5. QED BY <1>2, <1>3, <1>4 DEF IInv

LEMMA ReleaseIInv ==
  ASSUME IInv, JobIInv', NEW j \in Run, Release(j)
  PROVE  IInv'
<1>1. /\ run[j].phase = "release" /\ run' = [run EXCEPT ![j] = Job!Idle]
      /\ outages' = outages \/ outages' = outages + 1
      /\ UNCHANGED <<now, alertVars>>
  BY DEF Release, Job!Release, Job!UnlockFails
<1>2. check[j].pc = "idle"
  BY <1>1 DEF IInv, TypeOK
<1>3. \A k \in Run : k # j => run'[k] = run[k]
  BY <1>1 DEF IInv, TypeOK, Job!TypeOK
<1>4. run'[j].phase = "idle"
  BY <1>1 DEF IInv, TypeOK, Job!TypeOK, Job!Idle
<1>5. TypeOK'
  BY <1>1, <1>2, <1>3, <1>4 DEF IInv, TypeOK, JobIInv, alertVars
<1>6. outages = 0 => InTime' /\ \A q \in Replica : Account(q)'
  BY <1>1, <1>2, <1>3, Unmoved DEF IInv, alertVars
<1>7. outages' = 0 => outages = 0
  BY <1>1 DEF IInv, TypeOK, Job!TypeOK
<1>8. QED BY <1>1, <1>5, <1>6, <1>7, Kept DEF alertVars

\* The job returns, having nothing to send.
LEMMA ReturnIInv ==
  ASSUME IInv, JobIInv', NEW j \in Run, Return(j), check[j].pc \in {"begin", "detect"},
         UNCHANGED <<interval, signal, evaluated, active, checked, mails, told>>
  PROVE  IInv'
<1>1. /\ check' = [check EXCEPT ![j] = Unstarted]
      /\ run' = [run EXCEPT ![j].phase = "release"]
      /\ UNCHANGED <<now, outages>>
  BY DEF Return, Job!Finish
<1>2. 0 \in Hour
  BY AlertAssumption DEF Job!JobConstants, Hour
<1>3. check' \in [Run -> CheckState] /\ check'[j].pc = "idle"
  BY <1>1, <1>2 DEF IInv, TypeOK, CheckState, Unstarted
<1>4. run'[j].phase = "release"
  BY <1>1 DEF IInv, TypeOK, Job!TypeOK
<1>5. \A k \in Run : k # j => run'[k] = run[k] /\ check'[k] = check[k]
  BY <1>1 DEF IInv, TypeOK, Job!TypeOK
<1>6. TypeOK'
  BY <1>3, <1>4, <1>5 DEF IInv, TypeOK, JobIInv, CheckState
<1>7. outages = 0 => InTime' /\ \A q \in Replica : Account(q)'
  BY <1>1, <1>3, <1>5, Unmoved DEF IInv
<1>8. QED BY <1>1, <1>6, <1>7, Kept

LEMMA RestartIInv ==
  ASSUME IInv, JobIInv', NEW r \in Replica, Restart(r)
  PROVE  IInv'
<1>1. /\ evaluated' = [evaluated EXCEPT ![r] = None]
      /\ active' = [active EXCEPT ![r] = "normal"]
      /\ check' = [j \in Run |-> IF run[j].replica = r THEN Unstarted ELSE check[j]]
      /\ run' = [j \in Run |-> IF run[j].replica = r THEN Job!Idle ELSE run[j]]
      /\ checked' = [checked EXCEPT ![r] = {}]
      /\ mails' = [mails EXCEPT ![r] = [p \in Period |-> 0]]
      /\ UNCHANGED <<now, outages, interval, signal, told>>
  BY DEF Restart, Job!Restart
<1>2. 0 \in Hour
  BY AlertAssumption DEF Job!JobConstants, Hour
<1>3. TypeOK'
  <2>1. check' \in [Run -> CheckState]
    BY <1>1, <1>2 DEF IInv, TypeOK, CheckState, Unstarted
  <2>2. \A j \in Run : check'[j].pc # "idle" <=> run'[j].phase = "work"
    BY <1>1 DEF IInv, TypeOK, Unstarted, Job!Idle
  <2>3. mails' \in [Replica -> [Period -> Nat]] /\ checked' \in [Replica -> SUBSET Hour]
    BY <1>1 DEF IInv, TypeOK
  <2>4. evaluated' \in [Replica -> Period \cup {None}] /\ active' \in [Replica -> Direction]
    BY <1>1 DEF IInv, TypeOK, Direction
  <2>5. QED BY <1>1, <2>1, <2>2, <2>3, <2>4 DEF IInv, TypeOK, JobIInv, CheckState
<1>4. \A j \in Run :
        /\ check'[j].pc # "idle" => run[j].replica # r
        /\ run[j].replica # r => check'[j] = check[j] /\ run'[j] = run[j]
  BY <1>1 DEF Unstarted
<1>5. ASSUME outages = 0 PROVE InTime' /\ \A q \in Replica : Account(q)'
  <2>1. \A q \in Replica : checked'[q] \subseteq checked[q]
    BY <1>1 DEF IInv, TypeOK
  <2>2. ASSUME NEW q \in Replica, q # r
        PROVE  /\ checked'[q] = checked[q] /\ evaluated'[q] = evaluated[q]
               /\ active'[q] = active[q] /\ mails'[q] = mails[q]
    BY <1>1, <2>2 DEF IInv, TypeOK
  <2>3. checked'[r] = {} /\ evaluated'[r] = None /\ mails'[r] = [p \in Period |-> 0]
    BY <1>1 DEF IInv, TypeOK
  <2>4. InTime'
    <3>1. \A q \in Replica : \A h \in checked'[q] : h <= now'
      BY <1>1, <1>5, <2>1 DEF IInv, InTime
    <3>2. ASSUME NEW j \in Run, check'[j].pc \in {"detect", "send"}
          PROVE  /\ check'[j] = check[j] /\ run'[j] = run[j]
                 /\ checked'[run[j].replica] = checked[run[j].replica]
      <4>1. check'[j] = check[j] /\ run'[j] = run[j] /\ run[j].replica # r
        BY <1>4, <3>2
      <4>2. run[j].replica \in Replica
        BY <4>1, <3>2, CheckerIsReplica
      <4>3. QED BY <2>2, <4>1, <4>2
    <3>3. QED BY <1>1, <1>5, <3>1, <3>2 DEF IInv, InTime
  <2>5. ASSUME NEW q \in Replica, q # r PROVE Account(q)'
    <3>1. ASSUME NEW p PROVE Sending(q, p)' <=> Sending(q, p)
      BY <1>1, <1>4, <2>5 DEF Sending, PeriodOf
    <3>2. HourlyMemory(q)'
      BY <1>1, <1>5, <2>2, <2>5 DEF IInv, Account, HourlyMemory
    <3>3. DailyMemory(q)'
      BY <1>1, <1>4, <1>5, <2>2, <2>5 DEF IInv, Account, DailyMemory
    <3>4. Mailed(q)'
      BY <1>1, <1>5, <2>2, <2>5, <3>1 DEF IInv, Account, Mailed, PeriodOf
    <3>5. DailyTold(q)' /\ HourlyTold(q)'
      BY <1>1, <1>5, <2>2, <2>5, <3>1 DEF IInv, Account, DailyTold, HourlyTold
    <3>6. QED BY <3>2, <3>3, <3>4, <3>5 DEF Account
  <2>6. Account(r)'
    <3>1. \A j \in Run : run'[j].replica = r => check'[j].pc = "idle"
      BY <1>4 
    <3>2. \A h \in Hour : Day(h) # None
      BY AlertAssumption, PeriodOfHour
    <3>3. HourlyMemory(r)' /\ DailyMemory(r)'
      BY <2>3, <3>1 DEF HourlyMemory, DailyMemory
    <3>4. Mailed(r)'
      BY <2>3, <3>1 DEF Mailed, Sending
    <3>5. DailyTold(r)' /\ HourlyTold(r)'
      BY <2>3, <3>2 DEF DailyTold, HourlyTold
    <3>6. QED BY <3>3, <3>4, <3>5 DEF Account
  <2>7. QED BY <2>4, <2>5, <2>6
<1>6. QED BY <1>1, <1>3, <1>5, Kept

LEMMA TickIInv ==
  ASSUME IInv, JobIInv', Tick
  PROVE  IInv'
<1>1. /\ now < LastHour /\ now' = now + 1 /\ now \in Nat /\ now + 1 \in Hour /\ now \in Hour
      /\ UNCHANGED <<outages, run, interval, evaluated, active, check, checked, mails, told>>
  BY AlertAssumption DEF Tick, Job!Tick, IInv, TypeOK, Job!TypeOK, Job!Hour, Hour, Job!JobConstants
<1>2. PICK d \in Direction :
        /\ interval = "daily" /\ Day(now) = Day(now + 1) => d = signal[now]
        /\ signal' = [signal EXCEPT ![now + 1] = d]
  BY DEF Tick
<1>3. /\ signal'[now + 1] = d
      /\ \A h \in Hour : h # now + 1 => signal'[h] = signal[h]
      /\ signal' \in [Hour -> Direction]
  BY <1>1, <1>2 DEF IInv, TypeOK
<1>4. TypeOK'
  BY <1>1, <1>3 DEF IInv, TypeOK, JobIInv
<1>5. \A h \in Hour : h \in Nat
  BY DEF Hour
<1>6. interval = "daily" => \A g \in Hour : g <= now /\ Day(g) = Day(now + 1) =>
        signal[g] = d /\ Day(now) = Day(now + 1)
  <2>1. SUFFICES ASSUME interval = "daily", NEW g \in Hour, g <= now, Day(g) = Day(now + 1)
                 PROVE  signal[g] = d /\ Day(now) = Day(now + 1)
    OBVIOUS
  <2>2. Day(now) = Day(now + 1)
    <3>1. Day(g) <= Day(now) /\ Day(g) \in Nat /\ Day(now) \in Nat
      BY <1>1, <1>5, <2>1, DayOrder
    <3>2. Day(now) <= Day(now + 1)
      BY <1>1, DayOrder
    <3>3. QED BY <2>1, <3>1, <3>2
  <2>3. signal[g] = signal[now]
    BY <1>1, <2>1, <2>2 DEF IInv, Signals
  <2>4. QED BY <1>2, <2>1, <2>2, <2>3
<1>7. Signals'
  <2>1. \A h \in Hour : h > now + 1 => signal'[h] = "normal"
    BY <1>1, <1>3, <1>5 DEF IInv, Signals
  <2>2. ASSUME interval = "daily", NEW g \in Hour, NEW h \in Hour,
               g <= now + 1, h <= now + 1, Day(g) = Day(h)
        PROVE  signal'[g] = signal'[h]
    <3>1. CASE g # now + 1 /\ h # now + 1
      BY <1>1, <1>3, <1>5, <2>2, <3>1 DEF IInv, Signals
    <3>2. CASE g = now + 1 \/ h = now + 1
      BY <1>1, <1>3, <1>5, <1>6, <2>2, <3>2
    <3>3. QED BY <3>1, <3>2
  <2>3. QED BY <1>1, <2>1, <2>2 DEF Signals
<1>8. ASSUME outages = 0 PROVE InTime' /\ \A r \in Replica : Account(r)'
  <2>1. \A r \in Replica : \A h \in checked[r] : h \in Nat /\ h \in Hour /\ h <= now
    BY <1>5, <1>8 DEF IInv, TypeOK, InTime
  <2>2. InTime'
    <3>1. \A j \in Run : check[j].hour \in Nat
      BY <1>5 DEF IInv, TypeOK
    <3>2. QED BY <1>1, <1>8, <2>1, <3>1 DEF IInv, InTime
  <2>3. ASSUME NEW r \in Replica PROVE Account(r)'
    <3>1. ASSUME NEW p PROVE Sending(r, p)' <=> Sending(r, p)
      BY <1>1 DEF Sending, PeriodOf
    <3>2. \A h \in checked[r] : signal'[h] = signal[h]
      BY <1>1, <1>3, <2>1
    <3>3. HourlyMemory(r)'
      BY <1>1, <1>8, <3>2 DEF IInv, Account, HourlyMemory
    <3>4. DailyMemory(r)'
      <4>1. Day(now) \in Nat /\ Day(now + 1) \in Nat /\ Day(now) <= Day(now + 1)
        BY <1>1, DayOrder
      <4>2. ASSUME interval = "daily", NEW h \in checked[r] PROVE evaluated[r] <= Day(now + 1)
        <5>1. evaluated[r] \in Nat /\ evaluated[r] <= Day(now)
          BY <1>8, <4>2 DEF IInv, Account, DailyMemory
        <5>2. QED BY <4>1, <5>1
      <4>3. QED BY <1>1, <1>8, <4>2 DEF IInv, Account, DailyMemory
    <3>5. Mailed(r)'
      BY <1>1, <1>8, <3>1 DEF IInv, Account, Mailed, PeriodOf
    <3>6. HourlyTold(r)'
      BY <1>1, <1>8, <3>1, <3>2 DEF IInv, Account, HourlyTold
    <3>7. DailyTold(r)'
      <4>1. SUFFICES ASSUME interval = "daily", NEW h \in Hour,
                            signal'[h] # "normal", Day(h) = evaluated[r]
                     PROVE  Day(h) \in told \/ Sending(r, Day(h))
        BY <1>1, <3>1 DEF DailyTold
      <4>2. CASE h # now + 1
        BY <1>3, <1>8, <4>1, <4>2 DEF IInv, Account, DailyTold
      <4>3. CASE h = now + 1
        <5>1. checked[r] # {}
          BY <1>8, <4>1, AlertAssumption, PeriodOfHour DEF IInv, Account, DailyMemory
        <5>2. evaluated[r] \in Nat /\ evaluated[r] <= Day(now)
          BY <1>8, <4>1, <5>1 DEF IInv, Account, DailyMemory
        <5>3. Day(now) \in Nat /\ Day(now) <= Day(now + 1)
          BY <1>1, DayOrder
        <5>4. Day(now) = Day(h)
          BY <4>1, <4>3, <5>2, <5>3
        <5>5. signal[now] # "normal"
          BY <1>1, <1>3, <1>6, <4>1, <4>3, <5>4
        <5>6. QED BY <1>1, <1>8, <4>1, <5>4, <5>5 DEF IInv, Account, DailyTold
      <4>4. QED BY <4>2, <4>3
    <3>8. QED BY <3>3, <3>4, <3>5, <3>6, <3>7 DEF Account
  <2>4. QED BY <2>2, <2>3
<1>9. QED BY <1>1, <1>4, <1>7, <1>8 DEF IInv

\* While the lock service works, the execution that checks is the only one.
LEMMA Alone ==
  ASSUME IInv, outages = 0, NEW j \in Run, check[j].pc # "idle"
  PROVE  \A k \in Run : k # j => check[k].pc = "idle"
<1>1. SUFFICES ASSUME NEW k \in Run, check[k].pc # "idle" PROVE k = j
  OBVIOUS
<1>2. Executing(j) /\ Executing(k)
  BY <1>1, CheckerIsReplica DEF Executing
<1>3. QED BY <1>2 DEF IInv, JobIInv

\* The period is looked at: the clock is read.
LEMMA BeginIInv ==
  ASSUME IInv, JobIInv', NEW j \in Run, Begin(j)
  PROVE  IInv'
<1>1. /\ check[j].pc = "begin"
      /\ UNCHANGED <<interval, signal, evaluated, active, checked, mails, told>>
  BY DEF Begin
<1>2. CASE Return(j)
  BY <1>1, <1>2, ReturnIInv
<1>3. CASE /\ ~(interval = "daily" /\ evaluated[run[j].replica] = Day(now))
           /\ check' = [check EXCEPT ![j] = [pc |-> "detect", hour |-> now]]
           /\ UNCHANGED jobVars
  <2>1. now \in Hour /\ now \in Nat
    BY AlertAssumption DEF IInv, TypeOK, Job!TypeOK, Job!Hour, Hour, Job!JobConstants
  <2>2. UNCHANGED <<now, run, outages>>
    BY <1>3 DEF jobVars
  <2>3. /\ check' \in [Run -> CheckState] /\ check'[j] = [pc |-> "detect", hour |-> now]
        /\ \A k \in Run : k # j => check'[k] = check[k]
    BY <1>3, <2>1 DEF IInv, TypeOK, CheckState
  <2>4. TypeOK'
    BY <1>1, <2>2, <2>3 DEF IInv, TypeOK, JobIInv, CheckState
  <2>5. ASSUME outages = 0 PROVE InTime' /\ \A r \in Replica : Account(r)'
    <3>1. \A k \in Run : k # j => check'[k].pc = "idle"
      BY <1>1, <2>3, <2>5, Alone
    <3>2. run[j].replica \in Replica
      BY <1>1, CheckerIsReplica
    <3>3. InTime'
      <4>1. \A r \in Replica : \A h \in checked[r] : h <= now
        BY <2>5 DEF IInv, InTime
      <4>2. ASSUME NEW k \in Run, check'[k].pc \in {"detect", "send"}
            PROVE  k = j /\ check'[k].pc = "detect" /\ check'[k].hour = now
        BY <2>3, <3>1, <4>2
      <4>3. now <= now
        BY <2>1
      <4>4. QED BY <1>1, <2>2, <3>2, <4>1, <4>2, <4>3 DEF InTime
    <3>4. ASSUME NEW r \in Replica PROVE Account(r)'
      <4>1. ASSUME NEW p PROVE ~Sending(r, p)'
        BY <2>3, <3>1 DEF Sending
      <4>2. HourlyMemory(r)'
        BY <1>1, <2>5 DEF IInv, Account, HourlyMemory
      <4>3. ASSUME interval = "daily", r = run[j].replica, NEW h \in checked[r]
            PROVE  Day(h) # Day(now)
        <5>1. h \in Hour /\ h \in Nat /\ h <= now
          BY <2>5 DEF IInv, InTime, TypeOK, Hour
        <5>2. evaluated[r] \in Nat /\ Day(h) <= evaluated[r] /\ evaluated[r] <= Day(now)
          BY <2>5, <4>3 DEF IInv, Account, DailyMemory
        <5>3. Day(h) \in Nat /\ Day(now) \in Nat /\ evaluated[r] # Day(now)
          BY <1>3, <2>1, <4>3, <5>1, DayOrder
        <5>4. QED BY <5>2, <5>3
      <4>4. DailyMemory(r)'
        BY <1>1, <2>2, <2>3, <2>5, <3>1, <4>3 DEF IInv, Account, DailyMemory
      <4>5. Mailed(r)'
        BY <1>1, <2>5, <4>1 DEF IInv, Account, Mailed, PeriodOf
      <4>6. ASSUME NEW p PROVE ~Sending(r, p)
        BY <1>1, <2>5, Alone DEF Sending
      <4>7. DailyTold(r)' /\ HourlyTold(r)'
        BY <1>1, <2>5, <4>6 DEF IInv, Account, DailyTold, HourlyTold
      <4>8. QED BY <4>2, <4>4, <4>5, <4>7 DEF Account
    <3>5. QED BY <3>3, <3>4
  <2>6. QED BY <1>1, <2>2, <2>4, <2>5, Kept
<1>4. QED BY <1>2, <1>3 DEF Begin

\* The alert goes out.
LEMMA SendIInv ==
  ASSUME IInv, JobIInv', NEW j \in Run, Send(j)
  PROVE  IInv'
<1> DEFINE r == run[j].replica
           p == PeriodOf(check[j].hour)
<1>1. /\ check[j].pc = "send"
      /\ told' = told \cup {p}
      /\ UNCHANGED <<interval, signal, evaluated, active, checked, now, outages>>
      /\ check' = [check EXCEPT ![j] = Unstarted]
      /\ run' = [run EXCEPT ![j].phase = "release"]
  BY DEF Send, Return, Job!Finish
<1>2. r \in Replica /\ p \in Period
  BY <1>1, CheckerIsReplica, PeriodOfHour DEF IInv, TypeOK
<1>3. \/ mails' = [mails EXCEPT ![r][p] = @ + 1]
      \/ mails' = mails
  BY DEF Send
<1> HIDE DEF r, p
<1>4. /\ mails' \in [Replica -> [Period -> Nat]]
      /\ mails'[r][p] \in {mails[r][p], mails[r][p] + 1}
      /\ \A q \in Replica, o \in Period : q # r \/ o # p => mails'[q][o] = mails[q][o]
  <2>1. CASE mails' = mails
    BY <1>2, <2>1 DEF IInv, TypeOK
  <2>2. CASE mails' = [mails EXCEPT ![r][p] = @ + 1]
    <3>1. mails' = [mails EXCEPT ![r] = [mails[r] EXCEPT ![p] = mails[r][p] + 1]]
      BY <2>2
    <3>2. mails[r] \in [Period -> Nat] /\ mails \in [Replica -> [Period -> Nat]]
      BY <1>2 DEF IInv, TypeOK
    <3>3. mails'[r] = [mails[r] EXCEPT ![p] = mails[r][p] + 1]
      BY <1>2, <3>1, <3>2
    <3>4. \A q \in Replica : q # r => mails'[q] = mails[q]
      BY <3>1, <3>2
    <3>5. mails'[r] \in [Period -> Nat] /\ mails'[r][p] = mails[r][p] + 1
          /\ \A o \in Period : o # p => mails'[r][o] = mails[r][o]
      BY <1>2, <3>2, <3>3
    <3>6. mails' \in [Replica -> [Period -> Nat]]
      BY <3>1, <3>2, <3>3, <3>5
    <3>7. QED BY <3>4, <3>5, <3>6
  <2>3. QED BY <1>3, <2>1, <2>2
<1>5. 0 \in Hour
  BY AlertAssumption DEF Job!JobConstants, Hour
<1>6. check' \in [Run -> CheckState] /\ check'[j].pc = "idle"
  BY <1>1, <1>5 DEF IInv, TypeOK, CheckState, Unstarted
<1>7. run'[j].phase = "release"
  BY <1>1 DEF IInv, TypeOK, Job!TypeOK
<1>8. \A k \in Run : k # j => run'[k] = run[k] /\ check'[k] = check[k]
  BY <1>1 DEF IInv, TypeOK, Job!TypeOK
<1>9. TypeOK'
  BY <1>1, <1>2, <1>4, <1>6, <1>7, <1>8 DEF IInv, TypeOK, JobIInv, CheckState
<1>10. ASSUME outages = 0 PROVE InTime' /\ \A q \in Replica : Account(q)'
  <2>1. \A k \in Run : check'[k].pc = "idle"
    BY <1>1, <1>6, <1>8, <1>10, Alone
  <2>2. InTime'
    BY <1>1, <1>10, <2>1 DEF IInv, InTime
  <2>3. ASSUME NEW q \in Replica PROVE Account(q)'
    <3>1. ASSUME NEW o PROVE ~Sending(q, o)'
      BY <2>1 DEF Sending
    <3>2. ASSUME NEW o, Sending(q, o) PROVE q = r /\ o = p
      BY <1>1, <1>10, <3>2, Alone DEF Sending, r, p
    <3>3. HourlyMemory(q)'
      BY <1>1, <1>10 DEF IInv, Account, HourlyMemory
    <3>4. DailyMemory(q)'
      BY <1>1, <1>10, <2>1 DEF IInv, Account, DailyMemory
    <3>5. Mailed(q)'
      <4>1. Sending(r, p) /\ check[j].hour \in checked[r]
        BY <1>1, <1>10 DEF IInv, InTime, Sending, r, p
      <4>2. mails[r][p] = 0
        BY <1>2, <1>10, <4>1 DEF IInv, Account, Mailed
      <4>3. ASSUME NEW o \in Period
            PROVE  /\ mails'[q][o] <= 1
                   /\ mails'[q][o] = 1 => \E h \in checked[q] : PeriodOf(h) = o
        <5>1. CASE q = r /\ o = p
          BY <1>4, <4>1, <4>2, <5>1 DEF p
        <5>2. CASE q # r \/ o # p
          BY <1>4, <1>10, <5>2 DEF IInv, Account, Mailed
        <5>3. QED BY <5>1, <5>2
      <4>4. QED BY <1>1, <3>1, <4>3 DEF Mailed, PeriodOf
    <3>6. DailyTold(q)' /\ HourlyTold(q)'
      BY <1>1, <1>10, <3>2 DEF IInv, Account, DailyTold, HourlyTold
    <3>7. QED BY <3>3, <3>4, <3>5, <3>6 DEF Account
  <2>4. QED BY <2>2, <2>3
<1>11. QED BY <1>1, <1>9, <1>10, Kept

\* Whether the execution, whose comparison is made, goes on to send.
Alerts(j) ==
  /\ Detected(j) # "normal"
  /\ interval = "hourly" => active[run[j].replica] # Detected(j)

\* The comparison is made and remembered.
LEMMA DetectIInv ==
  ASSUME IInv, JobIInv', NEW j \in Run, Detect(j)
  PROVE  IInv'
<1>a. check[j].pc = "detect" /\ run[j].replica \in Replica /\ check[j].hour \in Hour
  BY CheckerIsReplica DEF Detect, IInv, TypeOK
<1>b. PICK r \in Replica, c \in Hour : r = run[j].replica /\ c = check[j].hour
  BY <1>a
<1>1. /\ check[j].pc = "detect"
      /\ checked' = [checked EXCEPT ![r] = @ \cup {c}]
      /\ UNCHANGED <<interval, signal, mails, told>>
  BY <1>b DEF Detect
<1>2. interval \in {"daily", "hourly"}
  BY DEF IInv, TypeOK
<1>3. IF interval = "daily"
      THEN evaluated' = [evaluated EXCEPT ![r] = Day(c)] /\ UNCHANGED active
      ELSE active' = [active EXCEPT ![r] = signal[c]] /\ UNCHANGED evaluated
  BY <1>b DEF Detect, Detected
<1>4. IF Alerts(j) THEN Goto(j, "send") ELSE Return(j)
  <2>1. CASE interval = "daily"
    BY <2>1 DEF Detect, Alerts
  <2>2. CASE interval # "daily"
    <3>1. ShouldSendHourly(r, Detected(j)) <=> Alerts(j)
      BY <1>2, <1>b, <2>2 DEF ShouldSendHourly, Alerts
    <3>2. QED BY <1>b, <2>2, <3>1 DEF Detect
  <2>3. QED BY <2>1, <2>2
<1>5. /\ UNCHANGED <<now, outages>>
      /\ check' = IF Alerts(j) THEN [check EXCEPT ![j].pc = "send"]
                   ELSE [check EXCEPT ![j] = Unstarted]
      /\ run' = IF Alerts(j) THEN run ELSE [run EXCEPT ![j].phase = "release"]
  BY <1>4 DEF Goto, Return, Job!Finish, jobVars
<1>6. 0 \in Hour
  BY AlertAssumption DEF Job!JobConstants, Hour
<1>7. /\ check' \in [Run -> CheckState]
      /\ check'[j].pc = IF Alerts(j) THEN "send" ELSE "idle"
      /\ Alerts(j) => check'[j].hour = c
  BY <1>b, <1>5, <1>6 DEF IInv, TypeOK, CheckState, Unstarted
<1>8. run[j].phase = "work"
  BY <1>1, CheckerIsReplica
<1>9. /\ run'[j].replica = r
      /\ run'[j].phase = IF Alerts(j) THEN "work" ELSE "release"
  BY <1>b, <1>5, <1>8 DEF IInv, TypeOK, Job!TypeOK
<1>10. \A k \in Run : k # j => run'[k] = run[k] /\ check'[k] = check[k]
  BY <1>5 DEF IInv, TypeOK, Job!TypeOK
<1>11. /\ checked' \in [Replica -> SUBSET Hour] /\ checked'[r] = checked[r] \cup {c}
       /\ \A q \in Replica : q # r => checked'[q] = checked[q]
  BY <1>1, <1>2 DEF IInv, TypeOK
<1>12. /\ evaluated' \in [Replica -> Period \cup {None}]
       /\ evaluated'[r] = IF interval = "daily" THEN Day(c) ELSE evaluated[r]
       /\ \A q \in Replica : q # r => evaluated'[q] = evaluated[q]
  BY <1>2, <1>3, PeriodOfHour DEF IInv, TypeOK
<1>13. /\ active' \in [Replica -> Direction]
       /\ active'[r] = IF interval = "hourly" THEN signal[c] ELSE active[r]
       /\ \A q \in Replica : q # r => active'[q] = active[q]
  BY <1>2, <1>3 DEF IInv, TypeOK
<1>14. TypeOK'
  <2>1. \A k \in Run : check'[k].pc # "idle" <=> run'[k].phase = "work"
    BY <1>7, <1>9, <1>10 DEF IInv, TypeOK
  <2>2. QED BY <1>1, <1>7, <1>11, <1>12, <1>13, <2>1 DEF IInv, TypeOK, JobIInv, CheckState
<1>15. ASSUME outages = 0 PROVE InTime' /\ \A q \in Replica : Account(q)'
  <2>1. \A k \in Run : k # j => check'[k].pc = "idle"
    BY <1>1, <1>10, <1>15, Alone
  <2>2. c <= now /\ c \in Nat /\ \A h \in checked[r] : h <= c /\ h \in Nat /\ h \in Hour
    BY <1>b, <1>1, <1>2, <1>15 DEF IInv, InTime, TypeOK, Hour
  <2>3. InTime'
    <3>1. \A q \in Replica : \A h \in checked'[q] : h <= now
      BY <1>11, <1>15, <2>2 DEF IInv, InTime
    <3>2. ASSUME NEW k \in Run, check'[k].pc \in {"detect", "send"}
          PROVE  /\ check'[k].hour = c /\ run'[k].replica = r
                 /\ c <= now /\ c \in checked'[r]
                 /\ \A h \in checked'[r] : h <= c
      BY <1>7, <1>9, <1>11, <2>1, <2>2, <3>2
    <3>3. QED BY <1>5, <3>1, <3>2 DEF InTime
  <2>4. ASSUME NEW q, NEW o PROVE ~Sending(q, o)
    BY <1>1, <1>15, Alone DEF Sending
  <2>5. ASSUME NEW q, NEW o
        PROVE  Sending(q, o)' <=> Alerts(j) /\ q = r /\ o = PeriodOf(c)
    BY <1>1, <1>7, <1>9, <2>1 DEF Sending, PeriodOf
  <2>6. ASSUME NEW q \in Replica, q # r PROVE Account(q)'
    <3>1. HourlyMemory(q)'
      BY <1>1, <1>11, <1>13, <1>15, <2>6 DEF IInv, Account, HourlyMemory
    <3>2. DailyMemory(q)'
      BY <1>1, <1>5, <1>7, <1>11, <1>12, <1>15, <2>1, <2>6 DEF IInv, Account, DailyMemory
    <3>3. Mailed(q)'
      BY <1>1, <1>11, <1>15, <2>5, <2>6 DEF IInv, Account, Mailed, PeriodOf
    <3>4. DailyTold(q)' /\ HourlyTold(q)'
      BY <1>1, <1>11, <1>12, <1>15, <2>4, <2>6 DEF IInv, Account, DailyTold, HourlyTold
    <3>5. QED BY <3>1, <3>2, <3>3, <3>4 DEF Account
  <2>7. Account(r)'
    <3>1. HourlyMemory(r)'
      <4>1. SUFFICES ASSUME interval = "hourly", NEW h \in checked'[r],
                            \A g \in checked'[r] : g <= h
                     PROVE  signal[c] = signal[h]
        BY <1>1, <1>13 DEF HourlyMemory
      <4>2. h = c
        BY <1>11, <2>2, <4>1
      <4>3. QED BY <4>2
    <3>2. DailyMemory(r)'
      <4>1. \A k \in Run : check'[k].pc # "detect"
        BY <1>7, <2>1
      <4>2. ASSUME interval = "daily", NEW h \in checked'[r]
            PROVE  Day(c) \in Nat /\ Day(h) <= Day(c) /\ Day(c) <= Day(now)
        <5>1. h <= c /\ h \in Nat
          BY <1>11, <2>2, <4>2
        <5>2. now \in Nat
          BY AlertAssumption DEF IInv, TypeOK, Job!TypeOK, Job!Hour, Job!JobConstants
        <5>3. QED BY <2>2, <5>1, <5>2, DayOrder
      <4>3. checked'[r] # {}
        BY <1>11
      <4>4. QED BY <1>1, <1>5, <1>12, <4>1, <4>2, <4>3 DEF DailyMemory
    <3>3. ASSUME Alerts(j), NEW h \in checked[r] PROVE PeriodOf(h) # PeriodOf(c)
      <4>1. CASE interval = "daily"
        BY <1>b, <1>1, <1>2, <1>15, <3>3, <4>1 DEF IInv, Account, DailyMemory, PeriodOf
      <4>2. CASE interval = "hourly"
        <5>1. h # c
          BY <1>b, <1>2, <1>15, <2>2, <3>3, <4>2
             DEF IInv, Account, HourlyMemory, Alerts, Detected
        <5>2. QED BY <4>2, <5>1 DEF PeriodOf
      <4>3. QED BY <1>2, <4>1, <4>2
    <3>4. Mailed(r)'
      <4>1. SUFFICES ASSUME NEW o \in Period
                     PROVE  /\ mails[r][o] <= 1
                            /\ mails[r][o] = 1 => \E h \in checked'[r] : PeriodOf(h) = o
                            /\ Alerts(j) /\ o = PeriodOf(c) => mails[r][o] = 0
        BY <1>1, <2>5 DEF Mailed, PeriodOf
      <4>2. /\ mails[r][o] <= 1 /\ mails[r][o] \in Nat
            /\ mails[r][o] = 1 => \E h \in checked[r] : PeriodOf(h) = o
        BY <1>2, <1>15 DEF IInv, TypeOK, Account, Mailed
      <4>3. Alerts(j) /\ o = PeriodOf(c) => mails[r][o] # 1
        BY <3>3, <4>2
      <4>4. QED BY <1>11, <4>2, <4>3
    <3>5. DailyTold(r)'
      <4>1. SUFFICES ASSUME interval = "daily", NEW h \in Hour, signal[h] # "normal", Day(h) = Day(c)
                     PROVE  Alerts(j) /\ Day(h) = PeriodOf(c)
        BY <1>1, <1>12, <2>5 DEF DailyTold, PeriodOf
      <4>2. h <= now
        <5>1. h \in Nat /\ now \in Nat
          BY AlertAssumption DEF IInv, TypeOK, Job!TypeOK, Job!Hour, Hour, Job!JobConstants
        <5>2. QED BY <4>1, <5>1 DEF IInv, Signals
      <4>3. signal[c] = signal[h]
        BY <1>2, <2>2, <4>1, <4>2 DEF IInv, Signals
      <4>4. QED BY <1>b, <4>1, <4>3 DEF Alerts, Detected, PeriodOf
    <3>6. HourlyTold(r)'
      <4>1. SUFFICES ASSUME interval = "hourly", NEW h \in Hour,
                            {h, h + 1} \subseteq checked'[r],
                            signal[h + 1] \notin {"normal", signal[h]},
                            h + 1 \notin told
                     PROVE  Alerts(j) /\ h + 1 = PeriodOf(c)
        BY <1>1, <2>5 DEF HourlyTold, PeriodOf
      <4>2. h \in Nat
        BY <4>1 DEF Hour
      <4>3. h + 1 = c /\ h \in checked[r] /\ c \notin checked[r]
        <5>1. ~({h, h + 1} \subseteq checked[r])
          BY <1>2, <1>15, <2>4, <4>1 DEF IInv, Account, HourlyTold
        <5>2. QED BY <1>11, <2>2, <4>1, <4>2, <5>1
      <4>4. active[r] = signal[h]
        <5>1. \A g \in checked[r] : g <= h
          BY <2>2, <4>2, <4>3
        <5>2. QED BY <1>2, <1>15, <4>1, <4>3, <5>1 DEF IInv, Account, HourlyMemory
      <4>5. QED BY <1>b, <4>1, <4>3, <4>4 DEF Alerts, Detected, PeriodOf
    <3>7. QED BY <3>1, <3>2, <3>4, <3>5, <3>6 DEF Account
  <2>8. QED BY <2>3, <2>6, <2>7
<1>16. QED BY <1>1, <1>5, <1>14, <1>15, Kept

-----------------------------------------------------------------------------
LEMMA NextIInv == IInv /\ [Next]_vars => IInv'
<1> SUFFICES ASSUME IInv, [Next]_vars PROVE IInv'
  OBVIOUS
<1>1. JobIInv'
  BY JobPart
<1>2. ASSUME NEW j \in Run, CheckFails(j) PROVE IInv'
  BY <1>1, <1>2, ReturnIInv DEF CheckFails
<1>3. CASE UNCHANGED vars
  <2>1. UNCHANGED <<jobVars, alertVars>> /\ UNCHANGED <<now, run, outages>>
    BY <1>3 DEF vars, jobVars
  <2>2. TypeOK'
    BY <1>1, <2>1 DEF IInv, TypeOK, JobIInv, alertVars
  <2>3. outages = 0 => InTime' /\ \A r \in Replica : Account(r)'
    BY <2>1, Unmoved DEF IInv, alertVars
  <2>4. QED BY <1>1, <2>1, <2>2, <2>3, Kept DEF alertVars
<1>4. ASSUME NEW j \in Run, Step(j) PROVE IInv'
  BY <1>1, <1>2, <1>4, LockIInv, ReleaseIInv, BeginIInv, DetectIInv, SendIInv DEF Step, Check
<1>5. QED
  BY <1>1, <1>3, <1>4, TickIInv, ConnectionLostIInv, RestartIInv, FireIInv DEF Next

LEMMA Invariance == Spec => []IInv
BY InitIInv, NextIInv, PTL DEF Spec

\* The check keeps to the wrapper of AddJob: seen through the lock and the phases
\* of its executions, every step of it is one of the wrapper's, or none.
THEOREM ImplementsJobLock == Spec => Job!Spec
<1>1. Init => Job!Init
  BY DEF Init
<1>2. QED BY <1>1, StepOfJob, PTL DEF Spec, Job!Spec

\* Types; an execution checks exactly while it works.
THEOREM TypeCorrect == Spec => []TypeOK
<1>1. IInv => TypeOK
  BY DEF IInv
<1>2. QED BY <1>1, Invariance, PTL

\* The alerts keep to the lock: one replica at a time (TryAdvisoryLock).
THEOREM OneReplicaChecks == Spec => []OneRunner
<1>1. IInv => OneRunner
  BY DEF IInv, JobIInv, OneRunner, Job!OneRunner, Executing
<1>2. QED BY <1>1, Invariance, PTL

\* However executions are delayed, a process mails at most once about an hour or
\* a day: activeHourly and lastDailyEval are enough (alertState).
THEOREM AtMostOneMail == Spec => []OncePerProcess
<1>1. IInv => OncePerProcess
  BY DEF IInv, OncePerProcess, Account, Mailed
<1>2. QED BY <1>1, Invariance, PTL

\* What a process has remembered as evaluated it has told, or is about to tell.
THEOREM NothingEvaluatedIsForgotten == Spec => []AlertIsMade
<1>1. ASSUME NEW r \in Replica, NEW p, Sending(r, p) PROVE p \in Pending
  BY <1>1 DEF Sending, Pending
<1>2. ASSUME IInv, interval = "daily", outages = 0, NEW h \in Hour, NEW r \in Replica,
             signal[h] # "normal", Day(h) = evaluated[r]
      PROVE  Day(h) \in told \cup Pending
  BY <1>1, <1>2 DEF IInv, Account, DailyTold
<1>3. ASSUME IInv, interval = "hourly", outages = 0, NEW r \in Replica, NEW h \in Hour,
             {h, h + 1} \subseteq checked[r], signal[h + 1] \notin {"normal", signal[h]}
      PROVE  h + 1 \in told \cup Pending
  BY <1>1, <1>3 DEF IInv, Account, HourlyTold
<1>4. IInv => AlertIsMade
  BY <1>2, <1>3 DEF AlertIsMade, EvaluatedIsTold, BeginningIsTold
<1>5. QED BY <1>4, Invariance, PTL
=============================================================================
