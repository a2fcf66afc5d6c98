---------------------------- MODULE TrafficAlerts ----------------------------
(***************************************************************************)
(* The traffic alerts of internal/service/traffic_alert.go for one site:   *)
(* a job that every replica's cron starts every hour, under the lock of    *)
(* JobLock.  Which alerts have been mailed is remembered in the memory of  *)
(* each process.                                                           *)
(*                                                                         *)
(* An hourly site compares the last full hour with the week before, and    *)
(* mails when an anomaly begins or changes direction.  A daily site        *)
(* compares yesterday, once per day of its own time zone.                  *)
(***************************************************************************)
EXTENDS Naturals, FiniteSets

CONSTANTS Replica, Run, None, LastHour, MaxFaults, \* as in JobLock
          HoursPerDay, \* 24 in the code
          Offset       \* of the site's time zone from UTC, in hours

VARIABLES now, fired, run, holder, outages, restarts,
          interval,  \* the site's TrafficAlertInterval
          signal,    \* what the comparison made in each hour comes to
          evaluated, \* lastDailyEval of each process, for the site
          active,    \* activeHourly of each process
          check,     \* of each execution: [pc, hour]
          checked,   \* the hours each process has evaluated since it started
          mails,     \* mails of each process since it started, per hour or day
          told       \* the hours or days an alert was mailed for, or tried to

jobVars == <<now, fired, run, holder, outages, restarts>>
alertVars == <<interval, signal, evaluated, active, check, checked, mails, told>>
vars == <<jobVars, alertVars>>

Job == INSTANCE JobLock WITH
  now <- now, fired <- fired, run <- run, holder <- holder,
  outages <- outages, restarts <- restarts

Direction == {"normal", "spike", "drop"}
Hour == 0..LastHour
Day(h) == (h + Offset) \div HoursPerDay
Period == Hour \cup {Day(h) : h \in Hour}

ASSUME AlertAssumption ==
  /\ Job!JobConstants
  /\ HoursPerDay \in Nat \ {0} /\ Offset \in Nat
  /\ None \notin Period

\* What an alert raised in hour h is about.
PeriodOf(h) == IF interval = "daily" THEN Day(h) ELSE h

Unstarted == [pc |-> "idle", hour |-> 0]

\* The job goes on at pc; or it returns, which is the end of JobLock's "work".
Goto(j, pc) == check' = [check EXCEPT ![j].pc = pc] /\ UNCHANGED jobVars

Return(j) == check' = [check EXCEPT ![j] = Unstarted] /\ Job!Finish(j)

Init ==
  /\ Job!Init
  /\ interval \in {"hourly", "daily"}
  /\ signal = [h \in Hour |-> "normal"]
  /\ evaluated = [r \in Replica |-> None]
  /\ active = [r \in Replica |-> "normal"]
  /\ check = [j \in Run |-> Unstarted]
  /\ checked = [r \in Replica |-> {}]
  /\ mails = [r \in Replica |-> [p \in Period |-> 0]]
  /\ told = {}

-----------------------------------------------------------------------------
(* Around the job                                                           *)

\* An hour passes, and with it perhaps an anomaly; yesterday stays the same
\* until the day ends.
Tick ==
  /\ Job!Tick
  /\ \E d \in Direction :
       /\ interval = "daily" /\ Day(now) = Day(now + 1) => d = signal[now]
       /\ signal' = [signal EXCEPT ![now + 1] = d]
  /\ UNCHANGED <<interval, evaluated, active, check, checked, mails, told>>

Fire(r, j) == Job!Fire(r, j) /\ UNCHANGED alertVars

\* checkAndAlertSite starts once the execution may work.
Lock(j) ==
  /\ Job!TryLock(j) \/ Job!LockUnavailable(j)
  /\ check' = IF run'[j].phase = "work"
              THEN [check EXCEPT ![j].pc = "begin"] ELSE check
  /\ UNCHANGED <<interval, signal, evaluated, active, checked, mails, told>>

ConnectionLost == Job!ConnectionLost /\ UNCHANGED alertVars

Release(j) == (Job!Release(j) \/ Job!UnlockFails(j)) /\ UNCHANGED alertVars

\* A bug: the job outlives its process.
RestartKeeping(r) ==
  /\ Job!Restart(r)
  /\ UNCHANGED alertVars

\* A process starts with an empty alertState.
Restart(r) ==
  /\ Job!Restart(r)
  /\ evaluated' = [evaluated EXCEPT ![r] = None]
  /\ active' = [active EXCEPT ![r] = "normal"]
  /\ check' = [j \in Run |-> IF run[j].replica = r THEN Unstarted ELSE check[j]]
  /\ checked' = [checked EXCEPT ![r] = {}]
  /\ mails' = [mails EXCEPT ![r] = [p \in Period |-> 0]]
  /\ UNCHANGED <<interval, signal, told>>

-----------------------------------------------------------------------------
(* checkAndAlertSite                                                        *)

\* A bug: the day is evaluated every hour.
BeginAlways(j) ==
  /\ check[j].pc = "begin"
  /\ check' = [check EXCEPT ![j] = [pc |-> "detect", hour |-> now]] /\ UNCHANGED jobVars
  /\ UNCHANGED <<interval, signal, evaluated, active, checked, mails, told>>

\* The clock is read here, not when the cron fired; shouldEvalDaily.
Begin(j) ==
  /\ check[j].pc = "begin"
  /\ IF interval = "daily" /\ evaluated[run[j].replica] = Day(now)
     THEN Return(j)
     ELSE check' = [check EXCEPT ![j] = [pc |-> "detect", hour |-> now]] /\ UNCHANGED jobVars
  /\ UNCHANGED <<interval, signal, evaluated, active, checked, mails, told>>

Detected(j) == signal[check[j].hour]

\* A bug: an anomaly of the other direction is taken for the one under way.
ShouldSendHourlyOnce(r, direction) == direction # "normal" /\ active[r] = "normal"

\* shouldSendHourly; in the code an absent entry of activeHourly is "normal".
ShouldSendHourly(r, direction) == direction # "normal" /\ active[r] # direction

\* detectAnomalyAt succeeds: markDailyEvaluated, or shouldSendHourly, which also
\* moves activeHourly.
Detect(j) ==
  LET r == run[j].replica IN
  /\ check[j].pc = "detect"
  /\ checked' = [checked EXCEPT ![r] = @ \cup {check[j].hour}]
  /\ IF interval = "daily"
     THEN /\ evaluated' = [evaluated EXCEPT ![r] = Day(check[j].hour)]
          /\ IF Detected(j) # "normal" THEN Goto(j, "send") ELSE Return(j)
          /\ UNCHANGED active
     ELSE /\ active' = [active EXCEPT ![r] = Detected(j)]
          /\ IF ShouldSendHourly(r, Detected(j)) THEN Goto(j, "send") ELSE Return(j)
          /\ UNCHANGED evaluated
  /\ UNCHANGED <<interval, signal, mails, told>>

\* SMTP is not configured, the sites, the owner or the statistics cannot be
\* read, or reading them panics: nothing is remembered, the next hour tries again.
CheckFails(j) ==
  /\ check[j].pc \in {"begin", "detect"}
  /\ Return(j)
  /\ UNCHANGED <<interval, signal, evaluated, active, checked, mails, told>>

\* sendAlert to every recipient; an error is logged and forgotten.
Send(j) ==
  LET p == PeriodOf(check[j].hour) IN
  /\ check[j].pc = "send"
  /\ told' = told \cup {p}
  /\ \/ mails' = [mails EXCEPT ![run[j].replica][p] = @ + 1]
     \/ UNCHANGED mails
  /\ Return(j)
  /\ UNCHANGED <<interval, signal, evaluated, active, checked>>

Check(j) == Begin(j) \/ Detect(j) \/ CheckFails(j) \/ Send(j)

\* One execution goes on: it takes or skips the lock, checks, and lets go.
Step(j) == Lock(j) \/ Check(j) \/ Release(j)

Next ==
  \/ Tick \/ ConnectionLost
  \/ \E r \in Replica : Restart(r) \/ \E j \in Run : Fire(r, j)
  \/ \E j \in Run : Step(j)

\* An execution under way goes on: queries and mails have timeouts.
Fairness == \A j \in Run : WF_vars(Step(j))

Spec == Init /\ [][Next]_vars /\ Fairness

-----------------------------------------------------------------------------
\* Types; an execution checks exactly while it works.
TypeOK ==
  /\ Job!TypeOK
  /\ interval \in {"hourly", "daily"} /\ signal \in [Hour -> Direction]
  /\ evaluated \in [Replica -> Period \cup {None}]
  /\ active \in [Replica -> Direction]
  /\ check \in [Run -> [pc : {"idle", "begin", "detect", "send"}, hour : Hour]]
  /\ \A j \in Run : check[j].pc # "idle" <=> run[j].phase = "work"
  /\ checked \in [Replica -> SUBSET Hour]
  /\ mails \in [Replica -> [Period -> Nat]]
  /\ told \subseteq Period

\* One replica at a time, as long as the lock service works.
OneRunner == Job!OneRunner

\* The periods an execution is about to mail an alert for.
Pending == {PeriodOf(check[j].hour) : j \in {k \in Run : check[k].pc = "send"}}

\* As long as the lock service works, a process mails at most once about one
\* day, or about one hour, however its executions are delayed: what the comment
\* on alertState concedes to each replica is all there is.
OncePerProcess ==
  outages = 0 => \A r \in Replica, p \in Period : mails[r][p] <= 1

\* A day is not set aside as evaluated unless its alert has been mailed, is
\* about to be, or could not be: a failed comparison is tried again.
EvaluatedIsTold ==
  interval = "daily" /\ outages = 0 =>
    \A h \in Hour : signal[h] # "normal" /\ Day(h) \in {evaluated[r] : r \in Replica}
                    => Day(h) \in told \cup Pending

\* A process that has evaluated two hours in a row, of different directions,
\* has alerted about the second one unless it was normal.
BeginningIsTold ==
  interval = "hourly" /\ outages = 0 =>
    \A r \in Replica, h \in Hour :
      {h, h + 1} \subseteq checked[r] /\ signal[h + 1] \notin {"normal", signal[h]}
        => h + 1 \in told \cup Pending

\* Nothing that was evaluated is forgotten before its alert was made.
AlertIsMade == EvaluatedIsTold /\ BeginningIsTold

\* No execution keeps the lock: every one that took it gives it back, also when
\* the job panics.  (A connection whose unlock failed may take it to the pool,
\* where nothing in the code bounds how long it stays.)
LockIsReleased == \A j \in Run : holder = j ~> holder # j

\* What the comment on alertState says of an anomaly, for the deployment as a
\* whole: its first hour is alerted, since the hour before it "came back
\* normal".
NewAnomalyIsTold ==
  interval = "hourly" /\ outages = 0 =>
    \A h \in Hour :
      /\ h \in UNION {checked[r] : r \in Replica}
      /\ h + 1 \in UNION {checked[r] : r \in Replica}
      /\ signal[h] = "normal" /\ signal[h + 1] # "normal"
      => h + 1 \in told \cup Pending
=============================================================================
