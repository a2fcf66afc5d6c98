---------------------------- MODULE MonthlyQuota ----------------------------
(***************************************************************************)
(* The monthly event quota of internal/event/quota.go, for one user (users *)
(* share the month and nothing else).  Events are counted in memory under  *)
(* a mutex; a goroutine writes the count to PostgreSQL every hour, every   *)
(* change of the month starts a goroutine that writes the closed month,    *)
(* and the server flushes when it stops.  Writers hold no lock and ignore  *)
(* errors.  The table has a unique index on user, year and month.          *)
(***************************************************************************)
EXTENDS Integers

CONSTANTS Limit,     \* events per month of the user's group; -1 is unlimited
          LastMonth, \* bound: the clock stops in this month
          MaxEvents, \* bound on the events counted in one month
          Failures   \* whether the database may fail

ASSUME LimitAssumption == Limit \in Nat \cup {-1}
ASSUME BoundAssumption == LastMonth \in Nat \ {0} /\ MaxEvents \in Nat
ASSUME FailuresAssumption == Failures \in BOOLEAN

VARIABLES now,       \* the month on the clock
          month,     \* q.year and q.month
          count,     \* q.counts[user]
          stored,    \* the rows of the user: 0 is no row
          writer,    \* the flushes under way
          phase,     \* of the process
          granted,   \* events admitted in each month, by any process
          forgotten  \* of those, the ones the last start did not find in the table

vars == <<now, month, count, stored, writer, phase, granted, forgotten>>

Month == 1..LastMonth
Hourly == -1              \* startFlusher
Main == 0                 \* the shutdown
Writer == {Hourly, Main} \cup Month \* a month: the goroutine that closes it
Idle == [pc |-> "idle", month |-> 1, count |-> 0, again |-> FALSE]

Init ==
  /\ now = 1 /\ month = 1 /\ count = 0
  /\ stored = [m \in Month |-> 0]
  /\ writer = [w \in Writer |-> Idle]
  /\ phase = "up"
  /\ granted = [m \in Month |-> 0] /\ forgotten = [m \in Month |-> 0]

\* flushSnapshot is a loop over the users that have a count.  With again, a
\* snapshot of the current month is flushed next.
FlushSnapshot(m, c, again) ==
  [pc |-> IF c # 0 THEN "query" ELSE IF again THEN "snapshot" ELSE "idle",
   month |-> m, count |-> c, again |-> again]

\* A bug: the counts go on in the new month.
CurrentKept == count

\* checkAndRotate: a new month begins at 0.
Current == IF now = month THEN count ELSE 0

-----------------------------------------------------------------------------
\* The caller of checkAndRotate that changes the month has the old one written
\* by a goroutine of its own.
CheckAndRotate ==
  /\ month' = now
  /\ writer' = IF now = month THEN writer
               ELSE [writer EXCEPT ![month] = FlushSnapshot(month, count, FALSE)]

Grant ==
  /\ count' = Current + 1
  /\ granted' = [granted EXCEPT ![now] = @ + 1]

Serving == phase \in {"up", "stopping", "flushing"}

\* A bug: the count is compared with the limit before the mutex is taken.
TryIncrementUnlocked ==
  /\ Serving /\ CheckAndRotate
  /\ \/ \E seen \in 0..Current :
          /\ Limit < 0 \/ seen < Limit
          /\ granted[now] < MaxEvents
          /\ Grant
     \/ /\ Limit >= 0 /\ Current >= Limit
        /\ count' = Current /\ UNCHANGED granted
  /\ UNCHANGED <<now, stored, phase, forgotten>>

\* TryIncrement; Increment is the case without a limit.  Requests that outlive
\* the deadline of the shutdown are counted as well.
TryIncrement ==
  /\ Serving /\ CheckAndRotate
  /\ \/ /\ Limit < 0 \/ Current < Limit
        /\ granted[now] < MaxEvents
        /\ Grant
     \/ /\ Limit >= 0 /\ Current >= Limit
        /\ count' = Current /\ UNCHANGED granted
  /\ UNCHANGED <<now, stored, phase, forgotten>>

\* Flush, and a tick of startFlusher: the old month first if it is over, then
\* the current one, both in this goroutine.
Flush(w) ==
  /\ writer[w].pc = "idle"
  /\ month' = now /\ count' = Current
  /\ writer' = [writer EXCEPT ![w] =
       FlushSnapshot(month, IF now = month THEN 0 ELSE count, TRUE)]
  /\ UNCHANGED <<now, stored, granted, forgotten>>

Tick == phase = "up" /\ Flush(Hourly) /\ UNCHANGED phase

\* A bug: the month of the snapshot is taken from the clock.
TakeSnapshotNow(w) ==
  /\ writer[w].pc = "snapshot"
  /\ writer' = [writer EXCEPT ![w] = FlushSnapshot(now, count, FALSE)]
  /\ UNCHANGED <<now, month, count, stored, phase, granted, forgotten>>

\* flushToDB: count and month under the read lock.
TakeSnapshot(w) ==
  /\ writer[w].pc = "snapshot"
  /\ writer' = [writer EXCEPT ![w] = FlushSnapshot(month, count, FALSE)]
  /\ UNCHANGED <<now, month, count, stored, phase, granted, forgotten>>

\* A bug: the row is not looked for.
QueryNothing(w) ==
  /\ writer[w].pc = "query"
  /\ writer' = [writer EXCEPT ![w].pc = "create"]
  /\ UNCHANGED <<now, month, count, stored, phase, granted, forgotten>>

\* The row is looked for; an error counts as no row.
Query(w) ==
  /\ writer[w].pc = "query"
  /\ writer' = [writer EXCEPT ![w].pc =
                  IF stored[writer[w].month] = 0 THEN "create" ELSE "update"]
  /\ UNCHANGED <<now, month, count, stored, phase, granted, forgotten>>

QueryFails(w) ==
  /\ Failures /\ writer[w].pc = "query"
  /\ writer' = [writer EXCEPT ![w].pc = "create"]
  /\ UNCHANGED <<now, month, count, stored, phase, granted, forgotten>>

Done(w) == writer' = [writer EXCEPT ![w].pc = IF writer[w].again THEN "snapshot" ELSE "idle"]

\* An update overwrites the row; a second row is refused by the unique index.
Save(w) ==
  /\ writer[w].pc \in {"update", "create"}
  /\ stored' = IF writer[w].pc = "update" \/ stored[writer[w].month] = 0
               THEN [stored EXCEPT ![writer[w].month] = writer[w].count]
               ELSE stored
  /\ Done(w)
  /\ UNCHANGED <<now, month, count, phase, granted, forgotten>>

SaveFails(w) ==
  /\ Failures /\ writer[w].pc \in {"update", "create"}
  /\ Done(w)
  /\ UNCHANGED <<now, month, count, stored, phase, granted, forgotten>>

Write(w) == TakeSnapshot(w) \/ Query(w) \/ QueryFails(w) \/ Save(w) \/ SaveFails(w)

-----------------------------------------------------------------------------
NewMonth ==
  /\ now < LastMonth
  /\ now' = now + 1
  /\ UNCHANGED <<month, count, stored, writer, phase, granted, forgotten>>

\* Stop ends the flusher's loop, not the flush it may be in the middle of.
Stop ==
  /\ phase = "up" /\ phase' = "stopping"
  /\ UNCHANGED <<now, month, count, stored, writer, granted, forgotten>>

FlushAtShutdown == phase = "stopping" /\ Flush(Main) /\ phase' = "flushing"

\* The connections are closed and the process exits, when main has flushed.
Release ==
  /\ phase = "flushing" /\ writer[Main].pc = "idle"
  /\ phase' = "released"
  /\ UNCHANGED <<now, month, count, stored, writer, granted, forgotten>>

Crash ==
  /\ Serving /\ phase' = "crashed"
  /\ UNCHANGED <<now, month, count, stored, writer, granted, forgotten>>

\* loadFromDB; its error leaves the counts empty.
Start ==
  /\ phase \in {"released", "crashed"} /\ phase' = "up"
  /\ month' = now
  /\ \/ count' = stored[now]
     \/ Failures /\ count' = 0
  /\ writer' = [w \in Writer |-> Idle]
  /\ forgotten' = [forgotten EXCEPT ![now] = granted[now] - count']
  /\ UNCHANGED <<now, stored, granted>>

Next ==
  \/ TryIncrement \/ Tick
  \/ \E w \in Writer : Serving /\ Write(w)
  \/ NewMonth \/ Stop \/ FlushAtShutdown \/ Release \/ Crash \/ Start

\* The flusher ticks and goroutines go on; a database that is asked again and
\* again answers in the end.
Fairness ==
  /\ WF_vars(Tick)
  /\ WF_vars(Serving /\ Write(Hourly))
  /\ SF_vars(Serving /\ Query(Hourly))
  /\ SF_vars(Serving /\ writer[Hourly].pc = "update" /\ Save(Hourly))
  /\ SF_vars(Serving /\ writer[Hourly].pc = "create" /\ Save(Hourly))

Spec == Init /\ [][Next]_vars /\ Fairness

-----------------------------------------------------------------------------
\* Types; while the process runs, what it has in memory and what it could not
\* find at its start are together the events admitted this month.
TypeOK ==
  /\ now \in Month /\ month \in Month /\ count \in Nat
  /\ stored \in [Month -> Nat] /\ granted \in [Month -> Nat]
  /\ forgotten \in [Month -> Nat]
  /\ writer \in [Writer -> [pc : {"idle", "snapshot", "query", "create", "update"},
                            month : Month, count : Nat, again : BOOLEAN]]
  /\ phase \in {"up", "stopping", "flushing", "released", "crashed"}
  /\ Serving => count + forgotten[month] = granted[month]

\* No user is charged for events that were not admitted in that month: whatever
\* flushes overlap a change of the month, a restart or each other, a row never
\* shows more.
NeverOvercounted == \A m \in Month : stored[m] <= granted[m]

\* A month's limit is kept, but for the events a start did not find stored.
GrantedWithinLimit ==
  Limit >= 0 => \A m \in Month : granted[m] <= Limit + forgotten[m]

\* The count that main flushes at shutdown is in the table when the database is
\* released.
ShutdownKeepsCount ==
  phase = "released" => stored[writer[Main].month] >= writer[Main].count

\* While the process runs, every count of the current month reaches the table.
StoredCatchesUp ==
  \A m \in Month, n \in 1..MaxEvents :
    (phase = "up" /\ month = m /\ count = n)
      ~> (stored[m] >= n \/ phase # "up" \/ now # m)
=============================================================================
