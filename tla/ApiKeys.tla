------------------------------- MODULE ApiKeys -------------------------------
(***************************************************************************)
(* One API key of one user, in internal/service/apikey.go.  The key and    *)
(* the status of its owner are in PostgreSQL; every replica keeps a cache  *)
(* entry with both for ten minutes.  A call that misses reads the key, then*)
(* the status, then stores an entry; suspending the user or deleting the   *)
(* key clears the cache of the replica that does it.  A goroutine of each  *)
(* replica writes last uses back and evicts.  What lastUsedAt is does not  *)
(* matter here, only whether an entry still has one to write.              *)
(***************************************************************************)
EXTENDS Naturals, FiniteSets

CONSTANTS Replica,
          Call,        \* calls of ValidateAPIKey under way
          Admin,       \* requests that suspend, resume or delete
          None,
          MaxChanges,  \* bound on changes of the user's status
          MaxFailures  \* bound on queries of the status that fail

ASSUME ApiKeysAssumption ==
  None \notin Replica /\ MaxChanges \in Nat /\ MaxFailures \in Nat

VARIABLES key,      \* the row: absent, live or deleted
          expired,  \* the key's own expiry date has passed
          status,   \* of the user
          cache,    \* the entry of each replica, or None
          call,     \* where each call is
          admin,    \* where each request is
          evict,    \* replicas whose flush has found the entry evictable
          cleared,  \* replicas whose cache was cleared after the key was revoked
          changes, failures

vars == <<key, expired, status, cache, call, admin, evict, cleared, changes, failures>>

Revoked == status = "suspended" \/ key = "deleted"

Free == [pc |-> "idle", at |-> None, suspended |-> FALSE, raced |-> FALSE]
Rest == [pc |-> "idle", at |-> None]

\* aged is the end of the ten minutes; raced says that the call that stored the
\* entry was under way when the cache was cleared, or got no status.
Entry == [suspended : BOOLEAN, dirty : BOOLEAN, aged : BOOLEAN, raced : BOOLEAN]

Init ==
  /\ key = "absent" /\ expired = FALSE /\ status = "active"
  /\ cache = [r \in Replica |-> None]
  /\ call = [c \in Call |-> Free]
  /\ admin = [a \in Admin |-> Rest]
  /\ evict = {} /\ cleared = {}
  /\ changes = 0 /\ failures = 0

-----------------------------------------------------------------------------
(* ValidateAPIKey                                                           *)

Fresh(e) == e # None /\ ~e.aged

\* The cache: an entry that has aged, or whose key has expired, is deleted; a
\* hit is answered, and marked as used unless the user is suspended.
Load(c, r) ==
  LET e == cache[r] IN
  /\ call[c].pc = "idle"
  /\ IF Fresh(e)
     THEN /\ cache' = [cache EXCEPT ![r] =
               IF expired THEN None ELSE [e EXCEPT !.dirty = @ \/ ~e.suspended]]
          /\ UNCHANGED call
     ELSE /\ cache' = [cache EXCEPT ![r] = None]
          /\ call' = [call EXCEPT ![c] =
               [pc |-> "key", at |-> r, suspended |-> FALSE, raced |-> FALSE]]
  /\ UNCHANGED <<key, expired, status, admin, evict, cleared, changes, failures>>

\* The row: an unknown or expired key, or an error, is refused and not cached.
QueryKey(c) ==
  /\ call[c].pc = "key"
  /\ \/ /\ key = "live" /\ ~expired
        /\ call' = [call EXCEPT ![c].pc = "status"]
     \/ call' = [call EXCEPT ![c] = Free]
  /\ UNCHANGED <<key, expired, status, cache, admin, evict, cleared, changes, failures>>

\* The call has an entry to store.
Found(c, suspended, raced) ==
  call' = [call EXCEPT ![c] = [pc |-> "store", at |-> call[c].at,
                               suspended |-> suspended, raced |-> raced]]

\* GetUserStatus: an error counts as active.
QueryStatus(c) ==
  /\ call[c].pc = "status"
  /\ \/ Found(c, status = "suspended", call[c].raced) /\ UNCHANGED failures
     \/ /\ failures < MaxFailures /\ failures' = failures + 1
        /\ Found(c, call[c].suspended, TRUE)
  /\ UNCHANGED <<key, expired, status, cache, admin, evict, cleared, changes>>

\* The entry replaces whatever has come since, and counts as used; the ten
\* minutes run from its making, and may be over when it is stored.
Store(c) ==
  /\ call[c].pc = "store"
  /\ \E late \in BOOLEAN :
       cache' = [cache EXCEPT ![call[c].at] =
         [suspended |-> call[c].suspended, dirty |-> TRUE, aged |-> late,
          raced |-> call[c].raced]]
  /\ call' = [call EXCEPT ![c] = Free]
  /\ UNCHANGED <<key, expired, status, admin, evict, cleared, changes, failures>>

Validate(c) == QueryKey(c) \/ QueryStatus(c) \/ Store(c)

-----------------------------------------------------------------------------
(* CreateAPIKey, DeleteAPIKey, UpdateUserStatus                             *)

CreateAPIKey ==
  /\ key = "absent" /\ key' = "live"
  /\ UNCHANGED <<expired, status, cache, call, admin, evict, cleared, changes, failures>>

\* After the row has changed; the request may die or see an error before it
\* clears the cache.
Committed(a, r) ==
  admin' = [admin EXCEPT ![a] = [pc |-> "clear", at |-> r]] \/ UNCHANGED admin

DeleteAPIKey(a, r) ==
  /\ admin[a].pc = "idle" /\ key = "live"
  /\ key' = "deleted" /\ cleared' = {}
  /\ Committed(a, r)
  /\ UNCHANGED <<expired, status, cache, call, evict, changes, failures>>

\* The status changes; a request for the status it has already would only clear
\* the cache once more.  Clearings are remembered while they serve a revocation.
UpdateUserStatus(a, r) ==
  /\ admin[a].pc = "idle" /\ changes < MaxChanges
  /\ changes' = changes + 1
  /\ status' = IF status = "active" THEN "suspended" ELSE "active"
  /\ cleared' = IF key = "deleted" THEN cleared ELSE {}
  /\ Committed(a, r)
  /\ UNCHANGED <<key, expired, cache, call, evict, failures>>

\* A bug: the entries of the user are kept.
ClearNothing(a) ==
  /\ admin[a].pc = "clear"
  /\ cleared' = IF Revoked THEN cleared \cup {admin[a].at} ELSE cleared
  /\ call' = [c \in Call |-> IF call[c].at = admin[a].at
                             THEN [call[c] EXCEPT !.raced = TRUE] ELSE call[c]]
  /\ admin' = [admin EXCEPT ![a] = Rest]
  /\ UNCHANGED <<key, expired, status, cache, evict, changes, failures>>

\* InvalidateUser, cache.Delete: this replica's entry; the calls under way on
\* this replica may still store what they read before.
Clear(a) ==
  /\ admin[a].pc = "clear"
  /\ cache' = [cache EXCEPT ![admin[a].at] = None]
  /\ cleared' = IF Revoked THEN cleared \cup {admin[a].at} ELSE cleared
  /\ call' = [c \in Call |-> IF call[c].at = admin[a].at
                             THEN [call[c] EXCEPT !.raced = TRUE] ELSE call[c]]
  /\ admin' = [admin EXCEPT ![a] = Rest]
  /\ UNCHANGED <<key, expired, status, evict, changes, failures>>

-----------------------------------------------------------------------------
(* Time, and flushDirty                                                     *)

KeyExpires ==
  /\ ~expired /\ expired' = TRUE
  /\ UNCHANGED <<key, status, cache, call, admin, evict, cleared, changes, failures>>

\* Ten minutes after the entry was made.
Age(r) ==
  /\ Fresh(cache[r])
  /\ cache' = [cache EXCEPT ![r].aged = TRUE]
  /\ UNCHANGED <<key, expired, status, call, admin, evict, cleared, changes, failures>>

\* A bug: an entry with a use to write stays dirty.
FlushScanKeeping(r) ==
  /\ r \notin evict /\ cache[r] # None
  /\ cache[r].aged /\ ~cache[r].dirty
  /\ evict' = evict \cup {r}
  /\ UNCHANGED <<key, expired, status, cache, call, admin, cleared, changes, failures>>

\* The scan: a use to write is taken (and written to the row later, whether or
\* not that fails), or an aged entry is noted.
FlushScan(r) ==
  /\ r \notin evict /\ cache[r] # None
  /\ \/ /\ cache[r].dirty
        /\ cache' = [cache EXCEPT ![r].dirty = FALSE]
        /\ UNCHANGED evict
     \/ /\ ~cache[r].dirty /\ cache[r].aged
        /\ evict' = evict \cup {r}
        /\ UNCHANGED cache
  /\ UNCHANGED <<key, expired, status, call, admin, cleared, changes, failures>>

\* The noted entry is deleted by its key: another one may have taken its place.
FlushEvict(r) ==
  /\ r \in evict
  /\ evict' = evict \ {r}
  /\ cache' = [cache EXCEPT ![r] = None]
  /\ UNCHANGED <<key, expired, status, call, admin, cleared, changes, failures>>

Flush(r) == FlushScan(r) \/ FlushEvict(r)

\* A replica starts again, with an empty cache.
Restart(r) ==
  /\ cache' = [cache EXCEPT ![r] = None]
  /\ call' = [c \in Call |-> IF call[c].at = r THEN Free ELSE call[c]]
  /\ admin' = [a \in Admin |-> IF admin[a].at = r THEN Rest ELSE admin[a]]
  /\ evict' = evict \ {r}
  /\ UNCHANGED <<key, expired, status, cleared, changes, failures>>

Next ==
  \/ CreateAPIKey \/ KeyExpires
  \/ \E r \in Replica :
       \/ Age(r) \/ Flush(r) \/ Restart(r)
       \/ \E c \in Call : Load(c, r)
       \/ \E a \in Admin : DeleteAPIKey(a, r) \/ UpdateUserStatus(a, r)
  \/ \E c \in Call : Validate(c)
  \/ \E a \in Admin : Clear(a)

\* Calls under way end, time passes for entries, and every replica flushes.
Fairness ==
  /\ \A c \in Call : WF_vars(Validate(c))
  /\ \A r \in Replica : WF_vars(Age(r)) /\ WF_vars(Flush(r))

Spec == Init /\ [][Next]_vars /\ Fairness

-----------------------------------------------------------------------------
\* Types; a call that has begun is somewhere.
TypeOK ==
  /\ key \in {"absent", "live", "deleted"} /\ expired \in BOOLEAN
  /\ status \in {"active", "suspended"}
  /\ cache \in [Replica -> Entry \cup {None}]
  /\ call \in [Call -> [pc : {"idle", "key", "status", "store"}, at : Replica \cup {None},
                        suspended : BOOLEAN, raced : BOOLEAN]]
  /\ \A c \in Call : call[c].pc = "idle" <=> call[c].at = None
  /\ admin \in [Admin -> [pc : {"idle", "clear"}, at : Replica \cup {None}]]
  /\ evict \subseteq Replica /\ cleared \subseteq Replica
  /\ changes \in 0..MaxChanges /\ failures \in 0..MaxFailures

\* Once the request that suspended the user, or deleted the key, has cleared its
\* replica's cache, that replica does not accept the key from its cache: but for
\* a call that was under way just then, and one that could not read the status.
RevokedAtOnce ==
  \A r \in cleared :
    cache[r] # None /\ ~cache[r].suspended => cache[r].raced

\* Whatever raced, and on the replicas that were never told: the cache comes to
\* agree with the tables, and forgets a deleted key altogether.
CacheCatchesUp ==
  \A r \in Replica :
    /\ <>[](key = "deleted") => <>[](cache[r] = None)
    /\ <>[](status = "suspended") => <>[](cache[r] = None \/ cache[r].suspended)
    /\ <>[](status = "active") => <>[](cache[r] = None \/ ~cache[r].suspended)
=============================================================================
