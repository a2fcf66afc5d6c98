---------------------------- MODULE LocationNames ----------------------------
(***************************************************************************)
(* The identifier that an event carries instead of the name of its city,   *)
(* continent or country, in internal/store/clickhouse/repository/          *)
(* locationdata.go: looked up by type and name, created when it is not     *)
(* there.  Queries of statistics translate it back through a dictionary    *)
(* over the same table.  This is one type and name; tasks of the event     *)
(* worker ask for it at the same time.  The table keeps whatever is        *)
(* inserted: it has no unique key.                                         *)
(***************************************************************************)
EXTENDS Naturals, Sequences

CONSTANTS Task,
          Id,          \* identifiers; random.String(16) never repeats one
          None,        \* no cache entry, no task, no identifier
          MaxFailures  \* bound on queries that fail

VARIABLES given,    \* GetOrCreateById brings the identifier; None is GetOrCreate
          rows,     \* the identifiers in the rows of the name, oldest first
          entry,    \* the cache entry, or None
          holder,   \* the task that holds the lock of the key, or None
          task,     \* of each task: [pc, id]
          returned, \* the identifiers that calls have returned
          misled    \* queries that failed and were taken for "no row"

vars == <<given, rows, entry, holder, task, returned, misled>>

NameConstants == None \notin Task /\ MaxFailures \in Nat

Init ==
  /\ given \in Id \cup {None}
  /\ rows = <<>> /\ entry = None /\ holder = None
  /\ task = [t \in Task |-> [pc |-> "idle", id |-> None]]
  /\ returned = {} /\ misled = 0

InTable == {rows[i] : i \in DOMAIN rows}

Goto(t, pc, id) == task' = [task EXCEPT ![t] = [pc |-> pc, id |-> id]]

\* GetOrCreate returns: the deferred Unlock.  The event takes the identifier; of a
\* country it takes the ISO code in any case.
Return(t, id) ==
  /\ Goto(t, "idle", None)
  /\ holder' = IF holder = t THEN None ELSE holder
  /\ returned' = IF id = None THEN returned ELSE returned \cup {id}

-----------------------------------------------------------------------------
\* The cache, without a lock.
LookUp(t) ==
  /\ task[t].pc = "idle"
  /\ IF entry # None
     THEN Return(t, entry)
     ELSE Goto(t, "lock", None) /\ UNCHANGED <<holder, returned>>
  /\ UNCHANGED <<given, rows, entry, misled>>

\* A bug: the cache is not looked at again, nor the table, once the lock is held.
LockAndCreate(t) ==
  /\ task[t].pc = "lock" /\ holder = None
  /\ holder' = t /\ Goto(t, "create", None)
  /\ UNCHANGED <<given, rows, entry, returned, misled>>

\* The lock of the key, and the cache again.
Lock(t) ==
  /\ task[t].pc = "lock" /\ holder = None
  /\ IF entry # None
     THEN Return(t, entry)
     ELSE holder' = t /\ Goto(t, "query", None) /\ UNCHANGED returned
  /\ UNCHANGED <<given, rows, entry, misled>>

\* getByName; any of the rows of the name.
Query(t) ==
  /\ task[t].pc = "query"
  /\ \/ rows = <<>> /\ Goto(t, "create", None)
     \/ \E id \in InTable : Goto(t, "add", id)
  /\ UNCHANGED <<given, rows, entry, holder, returned, misled>>

\* An error is no different from "no row".
QueryFails(t) ==
  /\ task[t].pc = "query" /\ misled < MaxFailures
  /\ misled' = misled + 1
  /\ Goto(t, "create", None)
  /\ UNCHANGED <<given, rows, entry, holder, returned>>

\* The identifier of a new row.
NewId == IF given # None THEN {given} ELSE Id \ InTable

Insert(t) ==
  /\ task[t].pc = "create"
  /\ \E id \in NewId : rows' = Append(rows, id) /\ Goto(t, "reread", id)
  /\ UNCHANGED <<given, entry, holder, returned, misled>>

\* A bug: the error of the insert is dropped.
InsertUnchecked(t) ==
  /\ task[t].pc = "create"
  /\ \E id \in NewId : Return(t, id)
  /\ UNCHANGED <<given, rows, entry, misled>>

\* The insert reports an error, after its commit or before: the event goes
\* without an identifier.
InsertFails(t) ==
  /\ task[t].pc = "create"
  /\ \/ UNCHANGED rows
     \/ \E id \in NewId : rows' = Append(rows, id)
  /\ Return(t, None)
  /\ UNCHANGED <<given, entry, misled>>

\* The row that was just written, or another of the name; or an error.
Reread(t) ==
  /\ task[t].pc = "reread"
  /\ \/ /\ \E id \in InTable : Goto(t, "add", id)
        /\ UNCHANGED <<holder, returned>>
     \/ Return(t, None)
  /\ UNCHANGED <<given, rows, entry, misled>>

Add(t) ==
  /\ task[t].pc = "add"
  /\ entry' = task[t].id
  /\ Return(t, task[t].id)
  /\ UNCHANGED <<given, rows, misled>>

GetOrCreate(t) ==
  \/ LookUp(t) \/ Lock(t) \/ Query(t) \/ QueryFails(t)
  \/ Insert(t) \/ InsertFails(t) \/ Reread(t) \/ Add(t)

\* After thirty minutes, or ten thousand other names.
Expire ==
  /\ entry # None
  /\ entry' = None
  /\ UNCHANGED <<given, rows, holder, task, returned, misled>>

Next == Expire \/ \E t \in Task : GetOrCreate(t)

Spec == Init /\ [][Next]_vars

-----------------------------------------------------------------------------
\* Types; whoever works on the table holds the lock.
TypeOK ==
  /\ given \in Id \cup {None} /\ entry \in Id \cup {None}
  /\ rows \in Seq(Id) /\ returned \subseteq Id
  /\ misled \in 0..MaxFailures
  /\ task \in [Task -> [pc : {"idle", "lock", "query", "create", "reread", "add"},
                        id : Id \cup {None}]]
  /\ \A t \in Task : task[t].pc \in {"query", "create", "reread", "add"} <=> holder = t

\* However tasks race for a name that is new, and whatever the cache forgets, the
\* name gets one row; a second one takes a query whose error was taken for "no
\* row".  So all events of a city carry the same identifier.
OneRow == Len(rows) <= 1 + misled

\* Every identifier that an event was given, or will be given from the cache, can
\* be translated back: its row is there, also when inserts failed.
Translatable == returned \cup {entry} \subseteq InTable \cup {None}

\* Events and the table of names fit together.
NamesResolve == OneRow /\ Translatable
=============================================================================
