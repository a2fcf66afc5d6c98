----------------------------- MODULE SessionStore -----------------------------
(***************************************************************************)
(* Session aggregation of one visitor on one site: SessionManager of       *)
(* internal/session/session.go, its WriteBuffer (buffer.go) and the table  *)
(* sessions of ClickHouse.                                                 *)
(*                                                                         *)
(* Every event is handled by the one balancer worker of its user.  A       *)
(* session is updated by two rows: a tombstone (sign -1) of the version    *)
(* that was current and the new version (sign 1).  The table is a          *)
(* VersionedCollapsingMergeTree: a row and its tombstone cancel.  The      *)
(* current version is looked up in the cache, then in the rows still in    *)
(* memory, then in ClickHouse; flushes move rows to ClickHouse meanwhile.  *)
(***************************************************************************)
EXTENDS Integers, FiniteSets, Bags

CONSTANTS Time,       \* the timestamps of events; late events stay within an hour
          Inactivity, \* sessionCacheTTL, 30 minutes, in the unit of Time
          Name,       \* a subset of pageview, goal (interactive), passive, engagement
          Slot,       \* the places of flushSem: maxConcurrentFlushes = 8
          Worker,     \* the flush worker
          BatchSize,  \* rows that make Add start a flush
          MaxEvents, MaxEvictions, \* bounds of the model
          None

\* A row of the table sessions: a version of a session (sign 1) or its tombstone.
Row == [session : Nat, version : Nat, sign : {-1, 1}, start : Time, timestamp : Time,
        events : Nat, pageviews : Nat, bounce : BOOLEAN]

ASSUME SessionAssumption ==
  /\ Time \subseteq Nat /\ Inactivity \in Nat
  /\ Name \subseteq {"pageview", "goal", "passive", "engagement"}
  /\ Worker \notin Slot /\ BatchSize \in Nat \ {0} /\ None \notin Row

Flusher == Slot \cup {Worker}

VARIABLES cache,      \* s.cache at this visitor's key
          version,    \* s.versionCounter
          task,       \* the event in the balancer worker, and the session found for it
          buffer,     \* wb.buffer, a bag of rows
          flusher,    \* the goroutines that flush, wb.inflight being their batches
          clickhouse, \* the table sessions, a bag of rows
          attributed, \* every event handled, with its session and its number
          damaged,    \* sessions with a row in a batch that was given up
          received, evicted \* counters of the bounds

vars == <<cache, version, task, buffer, flusher, clickhouse, attributed, damaged,
          received, evicted>>

Idle == [pc |-> "idle", event |-> None, found |-> None]
Free == [pc |-> "free", batch |-> EmptyBag, landed |-> FALSE]
Called == [pc |-> "take", batch |-> EmptyBag, landed |-> FALSE]

Init ==
  /\ cache = None /\ version = 0 /\ task = Idle
  /\ buffer = EmptyBag /\ clickhouse = EmptyBag /\ attributed = {}
  /\ flusher = [f \in Flusher |-> Free]
  /\ damaged = {} /\ received = 0 /\ evicted = 0

-----------------------------------------------------------------------------
(* Sessions                                                                 *)

Tombstone(s) == [s EXCEPT !.sign = -1]

\* sessionContainsEvent
Contains(s, t) ==
  s # None /\ s.start <= t /\ t <= s.timestamp + Inactivity

NewSession(e) ==
  [session |-> version + 1, version |-> version + 1, sign |-> 1,
   start |-> e.time, timestamp |-> e.time, events |-> 1,
   pageviews |-> IF e.name = "pageview" THEN 1 ELSE 0,
   bounce |-> e.name \in {"pageview", "passive"}]

\* A bug: the bounce flag looks at the page views before this event.
UpdatedLate(s, e) ==
  [s EXCEPT !.version = version + 1,
            !.timestamp = IF e.time > @ THEN e.time ELSE @,
            !.events = @ + 1,
            !.pageviews = IF e.name = "pageview" THEN @ + 1 ELSE @,
            !.bounce = @ /\ s.pageviews <= 1 /\ e.name # "goal"]

Updated(s, e) ==
  LET pageviews == s.pageviews + (IF e.name = "pageview" THEN 1 ELSE 0)
  IN  [session |-> s.session, version |-> version + 1, sign |-> 1, start |-> s.start,
       timestamp |-> IF e.time > s.timestamp THEN e.time ELSE s.timestamp,
       events |-> s.events + 1, pageviews |-> pageviews,
       bounce |-> s.bounce /\ pageviews <= 1 /\ e.name # "goal"]

\* The order of both lookups: the latest start, then the latest version.
Newest(rows) ==
  CHOOSE r \in rows : \A q \in rows :
    q.start < r.start \/ (q.start = r.start /\ q.version <= r.version)

\* As many copies of r as a bag of rows holds.
Copies(r, bag) == IF BagIn(r, bag) THEN bag[r] ELSE 0

\* The row versions a query with FINAL sees: those without their tombstone.
Collapsed(bag) ==
  {r \in BagToSet(bag) : r.sign = 1 /\ Copies(r, bag) > Copies(Tombstone(r), bag)}

\* The rows in memory: the buffer and the batches under way.
Pending == BagToSet(buffer) \cup UNION {BagToSet(flusher[f].batch) : f \in Flusher}

\* A bug: batches under way are forgotten.
FindPendingInBuffer(t) ==
  LET states == {r \in BagToSet(buffer) : r.sign = 1}
      latest == {r \in states : \A q \in states :
                   q.session = r.session => q.version <= r.version}
  IN  {r \in latest : Contains(r, t)}

\* FindPendingAt: the latest pending version of each session, if it is active at t.
FindPendingAt(t) ==
  LET states == {r \in Pending : r.sign = 1}
      latest == {r \in states : \A q \in states :
                   q.session = r.session => q.version <= r.version}
  IN  {r \in latest : Contains(r, t)}

\* A bug: the condition sign = 1 is missing.
GetActiveSessionAtAnySign(t) ==
  {r \in BagToSet(clickhouse) :
     Contains(r, t) /\ (r.sign = 1 => r \in Collapsed(clickhouse))}

\* GetActiveSessionAt: the current versions in ClickHouse that are active at t.
GetActiveSessionAt(t) == {r \in Collapsed(clickhouse) : Contains(r, t)}

-----------------------------------------------------------------------------
(* handleEvent, in the balancer worker                                      *)

Goto(pc, event, found) == task' = [pc |-> pc, event |-> event, found |-> found]

\* The cached session is taken when the event falls into its window.
OnEvent(t, n) ==
  /\ task.pc = "idle" /\ received < MaxEvents
  /\ received' = received + 1
  /\ LET event == [time |-> t, name |-> n]
     IN  IF Contains(cache, t) THEN Goto("tombstone", event, cache)
                               ELSE Goto("pending", event, None)
  /\ UNCHANGED <<cache, version, buffer, flusher, clickhouse, attributed, damaged, evicted>>

LookUpPending ==
  /\ task.pc = "pending"
  /\ LET rows == FindPendingAt(task.event.time)
     IN  IF rows = {} THEN Goto("query", task.event, None)
                      ELSE Goto("tombstone", task.event, Newest(rows))
  /\ UNCHANGED <<cache, version, buffer, flusher, clickhouse, attributed, damaged,
                 received, evicted>>

\* Without a session, an engagement event is ignored.
LookUpClickHouse ==
  /\ task.pc = "query"
  /\ LET rows == GetActiveSessionAt(task.event.time)
     IN  IF rows # {} THEN Goto("tombstone", task.event, Newest(rows))
         ELSE IF task.event.name = "engagement" THEN task' = Idle
         ELSE Goto("create", task.event, None)
  /\ UNCHANGED <<cache, version, buffer, flusher, clickhouse, attributed, damaged,
                 received, evicted>>

\* The query fails or takes longer than dbLookupTimeout: the event is dropped.
LookUpFails ==
  /\ task.pc = "query"
  /\ task' = Idle
  /\ UNCHANGED <<cache, version, buffer, flusher, clickhouse, attributed, damaged,
                 received, evicted>>

\* A bug: without room for a flush the row that fills the batch is dropped.
AddUnlessBusy(row) ==
  IF BagCardinality(buffer) + 1 < BatchSize
  THEN buffer' = buffer (+) SetToBag({row}) /\ UNCHANGED flusher
  ELSE \/ /\ \A f \in Slot : flusher[f].pc # "free"
          /\ UNCHANGED <<buffer, flusher>>
       \/ \E f \in Slot : /\ flusher[f].pc = "free"
                          /\ buffer' = buffer (+) SetToBag({row})
                          /\ flusher' = [flusher EXCEPT ![f] = Called]

\* WriteBuffer.Add: a full batch starts a flush if flushSem has room.
Add(row) ==
  /\ buffer' = buffer (+) SetToBag({row})
  /\ LET busy == BagCardinality(buffer) + 1 < BatchSize
                 \/ \A f \in Slot : flusher[f].pc # "free"
     IN  \/ busy /\ UNCHANGED flusher
         \/ /\ ~busy
            /\ \E f \in Slot : /\ flusher[f].pc = "free"
                               /\ flusher' = [flusher EXCEPT ![f] = Called]

\* A bug: only a later event refreshes the cache.
UpdateCacheIfLater(s) ==
  cache' = IF cache = None \/ s.timestamp > cache.timestamp THEN s ELSE cache

\* updateSessionCache: a late event for an earlier session does not evict.
UpdateCache(s) ==
  cache' = IF cache = None \/ cache.session = s.session \/ s.timestamp >= cache.timestamp
           THEN s ELSE cache

\* The row s is what becomes of the session after this event.
Finish(s) ==
  /\ Add(s) /\ UpdateCache(s)
  /\ version' = version + 1
  /\ attributed' = attributed \cup {[session |-> s.session, number |-> version + 1,
                                     time |-> task.event.time, name |-> task.event.name]}
  /\ task' = Idle
  /\ UNCHANGED <<clickhouse, damaged, received, evicted>>

Create == task.pc = "create" /\ Finish(NewSession(task.event))

AddTombstone ==
  /\ task.pc = "tombstone"
  /\ Add(Tombstone(task.found))
  /\ Goto("update", task.event, task.found)
  /\ UNCHANGED <<cache, version, clickhouse, attributed, damaged, received, evicted>>

AddUpdated == task.pc = "update" /\ Finish(Updated(task.found, task.event))

\* The LRU list is full of other visitors, or the entry is older than its TTL.
Evict ==
  /\ cache # None /\ evicted < MaxEvictions
  /\ cache' = None /\ evicted' = evicted + 1
  /\ UNCHANGED <<version, task, buffer, flusher, clickhouse, attributed, damaged, received>>

-----------------------------------------------------------------------------
(* flushWorker, flushAndWrite, writeBatch                                   *)

Tick ==
  /\ flusher[Worker].pc = "free"
  /\ flusher' = [flusher EXCEPT ![Worker] = Called]
  /\ UNCHANGED <<cache, version, task, buffer, clickhouse, attributed, damaged,
                 received, evicted>>

\* Under wb.mu the buffer becomes a batch that is registered as in flight.
Take(f) ==
  /\ flusher[f].pc = "take"
  /\ flusher' = [flusher EXCEPT ![f] =
       IF buffer = EmptyBag THEN Free
       ELSE [pc |-> "write", batch |-> buffer, landed |-> FALSE]]
  /\ buffer' = EmptyBag
  /\ UNCHANGED <<cache, version, task, clickhouse, attributed, damaged, received, evicted>>

\* A bug: an attempt after an unacknowledged commit inserts again.
CommitAgain(f) == clickhouse' = clickhouse (+) flusher[f].batch

\* Attempts of a batch share a deduplication token: it is committed once.
Commit(f) ==
  clickhouse' = IF flusher[f].landed THEN clickhouse ELSE clickhouse (+) flusher[f].batch

InsertOk(f) ==
  /\ flusher[f].pc = "write"
  /\ Commit(f)
  /\ flusher' = [flusher EXCEPT ![f] = Free]
  /\ UNCHANGED <<cache, version, task, buffer, attributed, damaged, received, evicted>>

\* The batch is committed but BatchInsert reports an error.  An attempt that
\* fails without a commit changes nothing.
InsertUnacknowledged(f) ==
  /\ flusher[f].pc = "write" /\ ~flusher[f].landed
  /\ Commit(f)
  /\ flusher' = [flusher EXCEPT ![f] = [pc |-> "write", batch |-> flusher[f].batch,
                                      landed |-> TRUE]]
  /\ UNCHANGED <<cache, version, task, buffer, attributed, damaged, received, evicted>>

\* The last of three attempts failed: the rows are dropped.
GiveUp(f) ==
  /\ flusher[f].pc = "write"
  /\ flusher' = [flusher EXCEPT ![f] = Free]
  /\ damaged' = IF flusher[f].landed THEN damaged
                ELSE damaged \cup {r.session : r \in BagToSet(flusher[f].batch)}
  /\ UNCHANGED <<cache, version, task, buffer, clickhouse, attributed, received, evicted>>

Flush(f) == Take(f) \/ InsertOk(f) \/ InsertUnacknowledged(f) \/ GiveUp(f)

-----------------------------------------------------------------------------
HandleEvent ==
  LookUpPending \/ LookUpClickHouse \/ LookUpFails \/ Create \/ AddTombstone \/ AddUpdated

Next ==
  \/ \E t \in Time, n \in Name : OnEvent(t, n)
  \/ HandleEvent
  \/ Evict \/ Tick
  \/ \E f \in Flusher : Flush(f)

\* Goroutines that can proceed do, the ticker keeps ticking, inserts and
\* queries return (dbLookupTimeout, the timeouts of the driver).
Fairness ==
  WF_vars(HandleEvent) /\ WF_vars(Tick) /\ \A f \in Flusher : WF_vars(Flush(f))

Spec == Init /\ [][Next]_vars /\ Fairness

-----------------------------------------------------------------------------
\* Every row written and not given up, in memory or in ClickHouse.
Written ==
  [r \in Pending \cup BagToSet(clickhouse) |->
     Copies(r, buffer) + Copies(r, clickhouse)
     + Cardinality(UNION {{f} \X (1..Copies(r, flusher[f].batch)) :
                            f \in {g \in Flusher : ~flusher[g].landed}})]

Sessions == {e.session : e \in attributed} \ damaged

\* Types; a cached or found session is a current state, never a tombstone.
TypeOK ==
  /\ cache \in Row \cup {None} /\ version \in Nat
  /\ cache # None => cache.sign = 1
  /\ task \in [pc : {"idle", "pending", "query", "create", "tombstone", "update"},
               event : [time : Time, name : Name] \cup {None}, found : Row \cup {None}]
  /\ task.pc \in {"tombstone", "update"} => task.found \in Row /\ task.found.sign = 1
  /\ attributed \subseteq [session : Nat, number : Nat, time : Time, name : Name]
  /\ \A b \in {buffer, clickhouse} \cup {flusher[f].batch : f \in Flusher} :
       IsABag(b) /\ BagToSet(b) \subseteq Row
  /\ \A f \in Flusher : \/ flusher[f] \in {Free, Called}
                        \/ flusher[f].pc = "write" /\ flusher[f].landed \in BOOLEAN

\* Between events, the rows written for a session cancel down to one version: no
\* version has two tombstones, and no session splits into two current versions.
OneCurrentVersion ==
  task.pc = "idle" => \A s \in Sessions :
    Cardinality({r \in Collapsed(Written) : r.session = s}) = 1
    /\ \A r \in BagToSet(Written) : r.session = s =>
         Copies(r, Written) = 1 /\ Copies([r EXCEPT !.sign = 1], Written) = 1

\* The current version accounts for every event attributed to its session, in
\* whatever order the events came: how many, how many page views, from when to
\* when, and whether the visit bounced.
AccountsForItsEvents ==
  task.pc = "idle" => \A r \in Collapsed(Written) : r.session \in Sessions =>
    LET of == {e \in attributed : e.session = r.session}
        Count(names) == Cardinality({e \in of : e.name \in names})
    IN  /\ r.events = Count(Name)
        /\ r.pageviews = Count({"pageview"})
        /\ \A e \in of : r.start <= e.time /\ e.time <= r.timestamp
        /\ \E e \in of : e.time = r.start
        /\ \E e \in of : e.time = r.timestamp
        /\ r.bounce <=> (r.pageviews <= 1 /\ Count({"goal"}) = 0)

\* A cached session is the current version, so that the next event continues it.
CacheIsCurrent ==
  task.pc = "idle" /\ cache # None /\ cache.session \in Sessions =>
    cache \in Collapsed(Written)

\* Once the visitor pauses, ClickHouse comes to show each session exactly once, as
\* its current version, although batches arrive there in any order.
TableCatchesUp ==
  <>[](\A s \in Sessions :
        LET shown == {r \in Collapsed(clickhouse) : r.session = s}
        IN  Cardinality(shown) = 1 /\ shown \subseteq Collapsed(Written))

\* At no moment does a query see a session twice.
NeverSeenTwice ==
  \A r, q \in Collapsed(clickhouse) :
    r.session = q.session /\ r.session \notin damaged => r = q
=============================================================================
