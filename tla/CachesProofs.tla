----------------------------- MODULE CachesProofs -----------------------------
(***************************************************************************)
(* What holds of the caches for every set of replicas, goroutines, sites,  *)
(* rules, identifiers and tasks: one section for each component, and at    *)
(* the end the four together.                                              *)
(***************************************************************************)
EXTENDS MCCaches, FiniteSetTheorems, SequenceTheorems, TLAPS

-----------------------------------------------------------------------------
(* ApiKeys                                                                  *)

CallState == [pc : {"idle", "key", "status", "store"}, at : Replica \cup {None},
              suspended : BOOLEAN, raced : BOOLEAN]

\* The part of the types that the argument needs.
Typed ==
  /\ status \in {"active", "suspended"}
  /\ cache \in [Replica -> Entry \cup {None}]
  /\ call \in [Call -> CallState]
  /\ admin \in [Admin -> [pc : {"idle", "clear"}, at : Replica \cup {None}]]
  /\ \A a \in Admin : admin[a].pc = "clear" => admin[a].at \in Replica
  /\ cleared \subseteq Replica

\* An entry, or a call about to store one, that the clearing need not fear.
Harmless(e) == e.raced \/ e.suspended

\* A call of a cleared replica that was not under way at the clearing has not
\* read the key before a deletion, nor the status before a suspension.
CallHarmless(c) ==
  /\ call[c].pc = "status" => call[c].raced \/ key # "deleted"
  /\ call[c].pc = "store" => Harmless(call[c])

\* What makes RevokedAtOnce inductive.
KeyInv ==
  /\ Typed
  /\ cleared # {} => Revoked
  /\ \A r \in cleared : cache[r] # None => Harmless(cache[r])
  /\ \A c \in Call : call[c].at \in cleared => CallHarmless(c)

LEMMA InitKeyInv == Init => KeyInv
BY DEF Init, KeyInv, Typed, CallState, Free, Rest, CallHarmless

LEMMA LoadKeyInv ==
  ASSUME KeyInv, NEW c \in Call, NEW r \in Replica, Load(c, r)
  PROVE  KeyInv'
<1>1. UNCHANGED <<key, status, admin, cleared>> /\ call[c].pc = "idle"
  BY DEF Load
<1>2. CASE Fresh(cache[r])
  <2>1. /\ cache' = [cache EXCEPT ![r] =
             IF expired THEN None ELSE [cache[r] EXCEPT !.dirty = @ \/ ~cache[r].suspended]]
        /\ UNCHANGED call
    BY <1>2 DEF Load
  <2>2. cache[r] \in Entry
    BY <1>2 DEF KeyInv, Typed, Fresh
  <2>3. [cache[r] EXCEPT !.dirty = @ \/ ~cache[r].suspended] \in Entry
    BY <2>2 DEF Entry
  <2>4. cache' \in [Replica -> Entry \cup {None}]
    BY <2>1, <2>3 DEF KeyInv, Typed
  <2>5. ASSUME NEW q \in cleared, cache'[q] # None
        PROVE  Harmless(cache'[q])
    <3>1. q # r => cache'[q] = cache[q]
      BY <2>1 DEF KeyInv, Typed
    <3>2. q = r => cache[q] # None /\ cache'[q].raced = cache[q].raced
                   /\ cache'[q].suspended = cache[q].suspended
      BY <1>2, <2>1, <2>2, <2>5 DEF KeyInv, Typed, Fresh, Entry
    <3>3. QED BY <2>5, <3>1, <3>2 DEF KeyInv, Harmless
  <2>6. QED BY <1>1, <2>1, <2>4, <2>5 DEF KeyInv, Typed, CallHarmless, Revoked
<1>3. CASE ~Fresh(cache[r])
  <2>1. /\ cache' = [cache EXCEPT ![r] = None]
        /\ call' = [call EXCEPT ![c] =
                     [pc |-> "key", at |-> r, suspended |-> FALSE, raced |-> FALSE]]
    BY <1>3 DEF Load
  <2>3. call' \in [Call -> CallState]
    BY <2>1 DEF KeyInv, Typed, CallState
  <2>5. \A d \in Call : d # c => call'[d] = call[d]
    BY <2>1 DEF KeyInv, Typed
  <2>6. CallHarmless(c)'
    BY <2>1 DEF KeyInv, Typed, CallHarmless
  <2>7. /\ cache' \in [Replica -> Entry \cup {None}]
        /\ \A q \in cleared : cache'[q] # None => cache'[q] = cache[q]
    BY <2>1 DEF KeyInv, Typed
  <2>8. QED BY <1>1, <2>3, <2>5, <2>6, <2>7
    DEF KeyInv, Typed, CallHarmless, Harmless, Revoked
<1>4. QED BY <1>2, <1>3

LEMMA QueryKeyKeyInv ==
  ASSUME KeyInv, NEW c \in Call, QueryKey(c)
  PROVE  KeyInv'
<1>1. UNCHANGED <<key, status, cache, admin, cleared>> /\ call[c].pc = "key"
  BY DEF QueryKey
<1>2. CASE key = "live" /\ call' = [call EXCEPT ![c].pc = "status"]
  <2>1. call' \in [Call -> CallState]
    BY <1>2 DEF KeyInv, Typed, CallState
  <2>2. \A d \in Call : d # c => call'[d] = call[d]
    BY <1>2 DEF KeyInv, Typed
  <2>3. CallHarmless(c)'
    BY <1>1, <1>2 DEF KeyInv, Typed, CallState, CallHarmless
  <2>4. QED BY <1>1, <2>1, <2>2, <2>3 DEF KeyInv, Typed, CallHarmless, Harmless, Revoked
<1>3. CASE call' = [call EXCEPT ![c] = Free]
  <2>1. call' \in [Call -> CallState]
    BY <1>3 DEF KeyInv, Typed, CallState, Free
  <2>2. \A d \in Call : d # c => call'[d] = call[d]
    BY <1>3 DEF KeyInv, Typed
  <2>3. CallHarmless(c)'
    BY <1>3 DEF KeyInv, Typed, CallHarmless, Free
  <2>4. QED BY <1>1, <2>1, <2>2, <2>3 DEF KeyInv, Typed, CallHarmless, Harmless, Revoked
<1>4. QED BY <1>2, <1>3 DEF QueryKey

LEMMA QueryStatusKeyInv ==
  ASSUME KeyInv, NEW c \in Call, QueryStatus(c)
  PROVE  KeyInv'
<1>1. UNCHANGED <<key, status, cache, admin, cleared>> /\ call[c].pc = "status"
  BY DEF QueryStatus
<1>2. PICK s \in BOOLEAN, f \in BOOLEAN :
        /\ call' = [call EXCEPT ![c] =
                     [pc |-> "store", at |-> call[c].at, suspended |-> s, raced |-> f]]
        /\ call[c].raced => f
        /\ ~f => s = (status = "suspended")
  <2>1. call[c] \in CallState
    BY DEF KeyInv, Typed
  <2>2. call[c].raced \in BOOLEAN /\ call[c].suspended \in BOOLEAN
    BY <2>1 DEF CallState
  <2>3. (status = "suspended") \in BOOLEAN
    OBVIOUS
  <2>4. \/ Found(c, status = "suspended", call[c].raced)
        \/ Found(c, call[c].suspended, TRUE)
    BY DEF QueryStatus
  <2>5. QED BY <2>2, <2>3, <2>4 DEF Found
<1>3. call' \in [Call -> CallState]
  BY <1>2 DEF KeyInv, Typed, CallState
<1>4. \A d \in Call : d # c => call'[d] = call[d]
  BY <1>2 DEF KeyInv, Typed
<1>5. call'[c].at = call[c].at /\ call'[c].pc = "store"
      /\ call'[c].suspended = s /\ call'[c].raced = f
  BY <1>2 DEF KeyInv, Typed
<1>6. ASSUME call[c].at \in cleared PROVE f \/ s
  <2>1. status = "suspended" \/ key = "deleted"
    BY <1>6 DEF KeyInv, Revoked
  <2>2. key = "deleted" => call[c].raced
    BY <1>1, <1>6 DEF KeyInv, CallHarmless
  <2>3. QED BY <1>2, <2>1, <2>2
<1>7. QED BY <1>1, <1>3, <1>4, <1>5, <1>6 DEF KeyInv, Typed, CallHarmless, Harmless, Revoked

LEMMA StoreKeyInv ==
  ASSUME KeyInv, NEW c \in Call, Store(c)
  PROVE  KeyInv'
<1>1. UNCHANGED <<key, status, admin, cleared>> /\ call[c].pc = "store"
      /\ call' = [call EXCEPT ![c] = Free]
  BY DEF Store
<1>2. PICK late \in BOOLEAN :
        cache' = [cache EXCEPT ![call[c].at] =
          [suspended |-> call[c].suspended, dirty |-> TRUE, aged |-> late,
           raced |-> call[c].raced]]
  BY DEF Store
<1>3. call[c] \in CallState
  BY DEF KeyInv, Typed
<1>4. cache' \in [Replica -> Entry \cup {None}]
  BY <1>2, <1>3 DEF KeyInv, Typed, CallState, Entry
<1>5. call' \in [Call -> CallState] /\ \A d \in Call : d # c => call'[d] = call[d]
  BY <1>1 DEF KeyInv, Typed, CallState, Free
<1>6. CallHarmless(c)'
  BY <1>1 DEF KeyInv, Typed, CallHarmless, Free
<1>7. ASSUME NEW r \in cleared, cache'[r] # None PROVE Harmless(cache'[r])
  <2>1. r # call[c].at => cache'[r] = cache[r]
    BY <1>2 DEF KeyInv, Typed
  <2>2. r = call[c].at => Harmless(call[c])
    BY <1>1, <1>7 DEF KeyInv, CallHarmless
  <2>3. r = call[c].at => cache'[r].raced = call[c].raced
                          /\ cache'[r].suspended = call[c].suspended
    BY <1>2, <1>7 DEF KeyInv, Typed
  <2>4. QED BY <1>7, <2>1, <2>2, <2>3 DEF KeyInv, Harmless
<1>8. QED BY <1>1, <1>4, <1>5, <1>6, <1>7 DEF KeyInv, Typed, CallHarmless, Harmless, Revoked

LEMMA CommittedTyped ==
  ASSUME Typed, NEW a \in Admin, NEW r \in Replica, Committed(a, r)
  PROVE  /\ admin' \in [Admin -> [pc : {"idle", "clear"}, at : Replica \cup {None}]]
         /\ \A b \in Admin : admin'[b].pc = "clear" => admin'[b].at \in Replica
<1>1. CASE admin' = [admin EXCEPT ![a] = [pc |-> "clear", at |-> r]]
  BY <1>1 DEF Typed
<1>2. CASE UNCHANGED admin
  BY <1>2 DEF Typed
<1>3. QED BY <1>1, <1>2 DEF Committed

LEMMA DeleteKeyInv ==
  ASSUME KeyInv, NEW a \in Admin, NEW r \in Replica, DeleteAPIKey(a, r)
  PROVE  KeyInv'
<1>1. UNCHANGED <<status, cache, call>> /\ cleared' = {} /\ Committed(a, r)
  BY DEF DeleteAPIKey
<1>2. QED BY <1>1, CommittedTyped DEF KeyInv, Typed, CallHarmless

LEMMA UpdateKeyInv ==
  ASSUME KeyInv, NEW a \in Admin, NEW r \in Replica, UpdateUserStatus(a, r)
  PROVE  KeyInv'
<1>1. /\ status' \in {"active", "suspended"} /\ UNCHANGED <<key, cache, call>>
      /\ cleared' = IF key = "deleted" THEN cleared ELSE {}
      /\ Committed(a, r)
  BY DEF UpdateUserStatus
<1>2. Typed'
  BY <1>1, CommittedTyped DEF KeyInv, Typed
<1>3. QED BY <1>1, <1>2 DEF KeyInv, CallHarmless, Harmless, Revoked

LEMMA ClearKeyInv ==
  ASSUME KeyInv, NEW a \in Admin, Clear(a)
  PROVE  KeyInv'
<1> DEFINE r == admin[a].at
<1>1. /\ UNCHANGED <<key, status>> /\ admin[a].pc = "clear"
      /\ cache' = [cache EXCEPT ![r] = None]
      /\ cleared' = IF Revoked THEN cleared \cup {r} ELSE cleared
      /\ call' = [c \in Call |-> IF call[c].at = r
                                 THEN [call[c] EXCEPT !.raced = TRUE] ELSE call[c]]
      /\ admin' = [admin EXCEPT ![a] = Rest]
  BY DEF Clear
<1>2. r \in Replica
  BY <1>1 DEF KeyInv, Typed
<1> HIDE DEF r
<1>3. /\ admin' \in [Admin -> [pc : {"idle", "clear"}, at : Replica \cup {None}]]
      /\ \A b \in Admin : admin'[b].pc = "clear" => admin'[b].at \in Replica
  BY <1>1 DEF KeyInv, Typed, Rest
<1>4. call' \in [Call -> CallState]
  <2>1. ASSUME NEW x \in CallState PROVE [x EXCEPT !.raced = TRUE] \in CallState
    BY DEF CallState
  <2>2. \A c \in Call : call[c] \in CallState
    BY DEF KeyInv, Typed
  <2>3. QED BY <1>1, <2>1, <2>2
<1>5. cache' \in [Replica -> Entry \cup {None}] /\ cleared' \subseteq Replica
  BY <1>1, <1>2 DEF KeyInv, Typed
<1>6. ASSUME NEW q \in cleared', cache'[q] # None PROVE Harmless(cache'[q])
  <2>1. cache'[r] = None /\ \A p \in Replica : p # r => cache'[p] = cache[p]
    BY <1>1, <1>2 DEF KeyInv, Typed
  <2>2. q # r /\ q \in cleared /\ q \in Replica
    BY <1>1, <1>5, <1>6, <2>1
  <2>3. QED BY <1>6, <2>1, <2>2 DEF KeyInv, Harmless
<1>7. ASSUME NEW c \in Call, call'[c].at \in cleared' PROVE CallHarmless(c)'
  <2>1. CASE call[c].at = r
    <3>1. call'[c] = [call[c] EXCEPT !.raced = TRUE] /\ call[c] \in CallState
      BY <1>1, <2>1 DEF KeyInv, Typed
    <3>2. call'[c].raced
      BY <3>1 DEF CallState
    <3>3. QED BY <3>2 DEF CallHarmless, Harmless
  <2>2. CASE call[c].at # r
    <3>1. call'[c] = call[c] /\ call[c].at \in cleared
      BY <1>1, <1>7, <2>2
    <3>2. QED BY <1>1, <3>1 DEF KeyInv, CallHarmless, Harmless
  <2>3. QED BY <2>1, <2>2
<1>8. cleared' # {} => Revoked'
  BY <1>1 DEF KeyInv, Revoked
<1>9. QED BY <1>1, <1>3, <1>4, <1>5, <1>6, <1>7, <1>8 DEF KeyInv, Typed

LEMMA AgeKeyInv ==
  ASSUME KeyInv, NEW r \in Replica, Age(r)
  PROVE  KeyInv'
<1>1. UNCHANGED <<key, status, call, admin, cleared>>
      /\ cache' = [cache EXCEPT ![r].aged = TRUE] /\ cache[r] # None
  BY DEF Age, Fresh
<1>2. cache[r] \in Entry
  BY <1>1 DEF KeyInv, Typed
<1>3. [cache[r] EXCEPT !.aged = TRUE] \in Entry
  BY <1>2 DEF Entry
<1>4. cache' \in [Replica -> Entry \cup {None}]
  BY <1>1, <1>3 DEF KeyInv, Typed
<1>5. /\ \A q \in Replica : q # r => cache'[q] = cache[q]
      /\ cache'[r].raced = cache[r].raced /\ cache'[r].suspended = cache[r].suspended
  BY <1>1, <1>2 DEF KeyInv, Typed, Entry
<1>6. ASSUME NEW q \in cleared, cache'[q] # None PROVE Harmless(cache'[q])
  BY <1>1, <1>5, <1>6 DEF KeyInv, Typed, Harmless
<1>7. QED BY <1>1, <1>4, <1>6 DEF KeyInv, Typed, CallHarmless, Revoked

LEMMA FlushKeyInv ==
  ASSUME KeyInv, NEW r \in Replica, Flush(r)
  PROVE  KeyInv'
<1>1. UNCHANGED <<key, status, call, admin, cleared>>
  BY DEF Flush, FlushScan, FlushEvict
<1>2. \/ cache' = [cache EXCEPT ![r].dirty = FALSE] /\ cache[r] # None
      \/ cache' = [cache EXCEPT ![r] = None]
      \/ cache' = cache
  BY DEF Flush, FlushScan, FlushEvict
<1>3. CASE cache' = [cache EXCEPT ![r].dirty = FALSE] /\ cache[r] # None
  <2>1. cache[r] \in Entry
    BY <1>3 DEF KeyInv, Typed
  <2>2. [cache[r] EXCEPT !.dirty = FALSE] \in Entry
    BY <2>1 DEF Entry
  <2>3. cache' \in [Replica -> Entry \cup {None}]
    BY <1>3, <2>2 DEF KeyInv, Typed
  <2>4. /\ \A q \in Replica : q # r => cache'[q] = cache[q]
        /\ cache'[r].raced = cache[r].raced /\ cache'[r].suspended = cache[r].suspended
    BY <1>3, <2>1 DEF KeyInv, Typed, Entry
  <2>5. ASSUME NEW q \in cleared, cache'[q] # None PROVE Harmless(cache'[q])
    BY <1>3, <2>4, <2>5 DEF KeyInv, Typed, Harmless
  <2>6. QED BY <1>1, <2>3, <2>5 DEF KeyInv, Typed, CallHarmless, Revoked
<1>4. CASE cache' = [cache EXCEPT ![r] = None] \/ cache' = cache
  <2>1. cache' \in [Replica -> Entry \cup {None}]
    BY <1>4 DEF KeyInv, Typed
  <2>2. \A q \in cleared : cache'[q] # None => cache'[q] = cache[q]
    BY <1>4 DEF KeyInv, Typed
  <2>3. QED BY <1>1, <2>1, <2>2 DEF KeyInv, Typed, CallHarmless, Revoked
<1>5. QED BY <1>2, <1>3, <1>4

LEMMA RestartKeyInv ==
  ASSUME KeyInv, NEW r \in Replica, Restart(r)
  PROVE  KeyInv'
<1>1. /\ UNCHANGED <<key, status, cleared>>
      /\ cache' = [cache EXCEPT ![r] = None]
      /\ call' = [c \in Call |-> IF call[c].at = r THEN Free ELSE call[c]]
      /\ admin' = [a \in Admin |-> IF admin[a].at = r THEN Rest ELSE admin[a]]
  BY DEF Restart
<1>2. Typed'
  BY <1>1 DEF KeyInv, Typed, CallState, Free, Rest
<1>3. \A q \in Replica : cache'[q] # None => cache'[q] = cache[q]
  BY <1>1 DEF KeyInv, Typed
<1>4. ASSUME NEW c \in Call PROVE CallHarmless(c)' \/ call'[c] = call[c]
  BY <1>1 DEF Free, CallHarmless
<1>5. QED BY <1>1, <1>2, <1>3, <1>4 DEF KeyInv, Typed, CallHarmless, Harmless, Revoked

LEMMA NextKeyInv == KeyInv /\ [Next]_vars => KeyInv'
<1>1. SUFFICES ASSUME KeyInv, [Next]_vars PROVE KeyInv'
  OBVIOUS
<1>2. CASE CreateAPIKey
  BY <1>1, <1>2 DEF CreateAPIKey, KeyInv, Typed, CallHarmless, Harmless, Revoked
<1>3. CASE KeyExpires
  BY <1>1, <1>3 DEF KeyExpires, KeyInv, Typed, CallHarmless, Harmless, Revoked
<1>4. CASE UNCHANGED vars
  BY <1>1, <1>4 DEF vars, KeyInv, Typed, CallHarmless, Harmless, Revoked
<1>5. QED
  BY <1>1, <1>2, <1>3, <1>4, LoadKeyInv, QueryKeyKeyInv, QueryStatusKeyInv,
     StoreKeyInv, DeleteKeyInv,
     UpdateKeyInv, ClearKeyInv, AgeKeyInv, FlushKeyInv, RestartKeyInv DEF Next, Validate

\* A revoked key is refused at once where its revocation was seen
\* (RevokedAtOnce), for any number of replicas, calls and requests.
THEOREM RevokedAtOnceAlways == Spec => []RevokedAtOnce
<1>1. KeyInv => RevokedAtOnce
  BY DEF KeyInv, RevokedAtOnce, Harmless
<1> QED
  BY <1>1, InitKeyInv, NextKeyInv, PTL DEF Spec

\* What TypeOK says beyond Typed.
KeyTypes ==
  /\ key \in {"absent", "live", "deleted"} /\ expired \in BOOLEAN
  /\ \A c \in Call : call[c].pc = "idle" <=> call[c].at = None
  /\ evict \subseteq Replica
  /\ changes \in 0..MaxChanges /\ failures \in 0..MaxFailures

LEMMA KeyTypesStep == KeyInv /\ KeyTypes /\ [Next]_vars => KeyTypes'
<1> SUFFICES ASSUME KeyInv, KeyTypes, [Next]_vars PROVE KeyTypes'
  OBVIOUS
<1> USE ApiKeysAssumption DEF KeyTypes
<1>1. call \in [Call -> CallState]
  BY DEF KeyInv, Typed
<1>2. CASE CreateAPIKey \/ KeyExpires \/ UNCHANGED vars
  BY <1>2 DEF CreateAPIKey, KeyExpires, vars
<1>3. ASSUME NEW r \in Replica, Age(r) \/ Flush(r) PROVE KeyTypes'
  BY <1>3 DEF Age, Flush, FlushScan, FlushEvict
<1>4. ASSUME NEW r \in Replica, Restart(r) PROVE KeyTypes'
  BY <1>4 DEF Restart, Free
<1>5. ASSUME NEW r \in Replica, NEW c \in Call, Load(c, r) PROVE KeyTypes'
  <2>1. /\ UNCHANGED <<key, expired, evict, changes, failures>>
        /\ \/ UNCHANGED call
           \/ call' = [call EXCEPT ![c] =
                [pc |-> "key", at |-> r, suspended |-> FALSE, raced |-> FALSE]]
    BY <1>5 DEF Load
  <2> QED
    BY <1>1, <2>1
<1>6. ASSUME NEW r \in Replica, NEW a \in Admin, DeleteAPIKey(a, r) \/ UpdateUserStatus(a, r)
      PROVE  KeyTypes'
  BY <1>6 DEF DeleteAPIKey, UpdateUserStatus
<1>7. ASSUME NEW c \in Call, QueryKey(c) PROVE KeyTypes'
  <2>1. CASE call' = [call EXCEPT ![c].pc = "status"]
    <3>1. /\ call'[c].pc = "status" /\ call'[c].at = call[c].at
          /\ \A d \in Call : d # c => call'[d] = call[d]
      BY <1>1, <2>1 DEF CallState
    <3> QED
      BY <1>7, <3>1 DEF QueryKey
  <2>2. CASE call' = [call EXCEPT ![c] = Free]
    BY <1>1, <1>7, <2>2 DEF QueryKey, Free
  <2> QED
    BY <1>7, <2>1, <2>2 DEF QueryKey
<1>8. ASSUME NEW c \in Call, QueryStatus(c) PROVE KeyTypes'
  <2>1. /\ call'[c].pc = "store" /\ call'[c].at = call[c].at
        /\ \A d \in Call : d # c => call'[d] = call[d]
    BY <1>1, <1>8 DEF QueryStatus, Found
  <2>2. UNCHANGED <<key, expired, evict, changes>>
        /\ (UNCHANGED failures \/ (failures < MaxFailures /\ failures' = failures + 1))
    BY <1>8, Zenon DEF QueryStatus
  <2>3. call[c].pc = "status"
    BY <1>8 DEF QueryStatus
  <2> QED
    BY <2>1, <2>2, <2>3
<1>9. ASSUME NEW c \in Call, Store(c) PROVE KeyTypes'
  BY <1>1, <1>9 DEF Store, Free
<1>10. ASSUME NEW a \in Admin, Clear(a) PROVE KeyTypes'
  <2>1. ASSUME NEW c \in Call
        PROVE  call'[c].pc = call[c].pc /\ call'[c].at = call[c].at
    <3>1. call[c] \in CallState
      BY <1>1
    <3>2. call'[c] \in {call[c], [call[c] EXCEPT !.raced = TRUE]}
      BY <1>10 DEF Clear
    <3> QED
      BY <3>1, <3>2 DEF CallState
  <2> QED
    BY <1>10, <2>1 DEF Clear
<1> QED
  BY <1>2, <1>3, <1>4, <1>5, <1>6, <1>7, <1>8, <1>9, <1>10 DEF Next, Validate

LEMMA InitKeyTypes == Init => KeyTypes
<1> SUFFICES ASSUME Init PROVE KeyTypes
  OBVIOUS
<1>1. \A c \in Call : call[c].pc = "idle" /\ call[c].at = None
  BY DEF Init, Free
<1>2. changes \in 0..MaxChanges /\ failures \in 0..MaxFailures
  BY ApiKeysAssumption DEF Init
<1>3. key \in {"absent", "live", "deleted"} /\ expired \in BOOLEAN /\ evict \subseteq Replica
  BY DEF Init
<1> QED
  BY <1>1, <1>2, <1>3 DEF KeyTypes

LEMMA KeyTypeOK == KeyInv /\ KeyTypes => TypeOK
BY DEF KeyInv, Typed, CallState, KeyTypes, TypeOK

-----------------------------------------------------------------------------
(* ShieldRules                                                              *)

\* What a reader is about to put into the cache is the table as it is.
QueriedIsCurrent == \A p \in Proc : pc[p] = "fill" => got[p] = rules

ShieldInv == Shields!TypeOK /\ Shields!CacheIsCurrent /\ QueriedIsCurrent

LEMMA ShieldInit == Shields!Init => ShieldInv
BY
  DEF Shields!Init, ShieldInv, Shields!TypeOK, Shields!CacheIsCurrent, QueriedIsCurrent,
      Shields!Readers, Shields!Writers

\* A reader that moves on, with the table and the cache as they were.
LEMMA ReaderMoves ==
  ASSUME ShieldInv, NEW p \in Proc, NEW q \in {"idle", "look", "query"},
         Shields!Goto(p, q), pc[p] \in {"idle", "look", "query"},
         pc[p] = "idle" => Shields!Writers = {},
         UNCHANGED <<rules, cached, got, unreported>>
  PROVE  ShieldInv'
<1> USE DEF ShieldInv, Shields!TypeOK, Shields!Goto
<1>1. pc' \in [Proc -> {"idle", "look", "query", "fill", "write", "remove"}]
  OBVIOUS
<1>2. Shields!Writers' = Shields!Writers
  BY DEF Shields!Writers
<1>3. Shields!Writers = {} \/ Shields!Readers' = {}
  BY DEF Shields!Writers, Shields!Readers
<1>4. Shields!TypeOK'
  BY <1>1, <1>2, <1>3
<1>5. Shields!CacheIsCurrent'
  BY DEF Shields!CacheIsCurrent
<1>6. QueriedIsCurrent'
  BY DEF QueriedIsCurrent
<1> QED
  BY <1>4, <1>5, <1>6

LEMMA QueryStep == ASSUME ShieldInv, NEW p \in Proc, Shields!Query(p) PROVE ShieldInv'
<1> USE DEF ShieldInv, Shields!TypeOK, Shields!Goto, Shields!Query
<1>1. pc' \in [Proc -> {"idle", "look", "query", "fill", "write", "remove"}]
  OBVIOUS
<1>2. got' \in [Proc -> SUBSET Rule]
  OBVIOUS
<1>3. Shields!Writers' = Shields!Writers /\ Shields!Readers' = Shields!Readers
  BY DEF Shields!Writers, Shields!Readers
<1>4. Shields!TypeOK'
  BY <1>1, <1>2, <1>3
<1>5. Shields!CacheIsCurrent'
  BY DEF Shields!CacheIsCurrent
<1>6. QueriedIsCurrent'
  BY DEF QueriedIsCurrent
<1> QED
  BY <1>4, <1>5, <1>6

LEMMA FillStep == ASSUME ShieldInv, NEW p \in Proc, Shields!Fill(p) PROVE ShieldInv'
<1> USE DEF ShieldInv, Shields!TypeOK, Shields!Goto, Shields!Fill
<1>1. pc' \in [Proc -> {"idle", "look", "query", "fill", "write", "remove"}]
  OBVIOUS
<1>2. Shields!Writers' = Shields!Writers /\ Shields!Readers' \subseteq Shields!Readers
  BY DEF Shields!Writers, Shields!Readers
<1>3. got[p] = rules /\ got[p] \subseteq Rule
  BY DEF QueriedIsCurrent
<1>4. Shields!TypeOK'
  BY <1>1, <1>2, <1>3
<1>5. Shields!CacheIsCurrent'
  BY <1>3 DEF Shields!CacheIsCurrent
<1>6. QueriedIsCurrent'
  BY DEF QueriedIsCurrent
<1> QED
  BY <1>4, <1>5, <1>6

\* A lock for writing is granted to one goroutine, with no reader inside.
LEMMA LockStep == ASSUME ShieldInv, NEW p \in Proc, Shields!Lock(p) PROVE ShieldInv'
<1> USE DEF ShieldInv, Shields!TypeOK, Shields!Goto, Shields!Lock
<1>1. pc' \in [Proc -> {"idle", "look", "query", "fill", "write", "remove"}]
  OBVIOUS
<1>2. Shields!Readers' = {}
  BY DEF Shields!Readers
<1>3. Shields!Writers' = {p}
  BY DEF Shields!Writers
<1>4. Shields!TypeOK'
  BY <1>1, <1>2, <1>3
<1>5. Shields!CacheIsCurrent'
  BY DEF Shields!CacheIsCurrent
<1>6. QueriedIsCurrent'
  BY <1>2 DEF QueriedIsCurrent, Shields!Readers
<1> QED
  BY <1>4, <1>5, <1>6

\* In a writer's section nothing is about to fill the cache.
LEMMA WriterAlone ==
  ASSUME ShieldInv, NEW p \in Shields!Writers
  PROVE  Shields!Readers = {} /\ Shields!Writers = {p} /\ \A q \in Proc : pc[q] # "fill"
BY DEF ShieldInv, Shields!TypeOK, Shields!Writers, Shields!Readers

LEMMA WriterStep ==
  ASSUME ShieldInv, NEW p \in Proc,
         Shields!Write(p) \/ Shields!WriteFails(p) \/ Shields!RemoveEntry(p)
  PROVE  ShieldInv'
<1> USE DEF ShieldInv, Shields!TypeOK, Shields!Goto
<1>1. p \in Shields!Writers
  BY DEF Shields!Write, Shields!WriteFails, Shields!RemoveEntry, Shields!Writers
<1>2. Shields!Readers = {} /\ Shields!Writers = {p} /\ \A q \in Proc : pc[q] # "fill"
  BY <1>1, WriterAlone
<1>3. PICK q \in {"idle", "remove"} : pc' = [pc EXCEPT ![p] = q]
  BY DEF Shields!Write, Shields!WriteFails, Shields!RemoveEntry
<1>4. pc' \in [Proc -> {"idle", "look", "query", "fill", "write", "remove"}]
  BY <1>3
<1>5. Shields!Readers' = {} /\ Shields!Writers' \subseteq {p}
  BY <1>2, <1>3 DEF Shields!Readers, Shields!Writers
<1>6. \A r \in Proc : pc'[r] # "fill"
  BY <1>2, <1>3
<1>7. rules' \subseteq Rule
  BY DEF Shields!Write, Shields!WriteFails, Shields!RemoveEntry, Shields!Change
<1>8. unreported' \in BOOLEAN
  BY DEF Shields!Write, Shields!WriteFails, Shields!RemoveEntry
<1>9. (cached' = None \/ cached' \subseteq Rule) /\ got' = got
  BY DEF Shields!Write, Shields!WriteFails, Shields!RemoveEntry
<1>10. Shields!TypeOK'
  BY <1>4, <1>5, <1>7, <1>8, <1>9
<1>11. Shields!CacheIsCurrent'
  <2>1. CASE Shields!Write(p)
    BY <2>1 DEF Shields!Write, Shields!CacheIsCurrent
  <2>2. CASE Shields!WriteFails(p)
    <3>1. \A r \in Proc : pc[r] # "remove"
      BY <2>2, <1>2 DEF Shields!WriteFails, Shields!Writers
    <3> QED
      BY <2>2, <3>1 DEF Shields!WriteFails, Shields!CacheIsCurrent
  <2>3. CASE Shields!RemoveEntry(p)
    BY <2>3 DEF Shields!RemoveEntry, Shields!CacheIsCurrent
  <2> QED
    BY <2>1, <2>2, <2>3
<1>12. QueriedIsCurrent'
  BY <1>6 DEF QueriedIsCurrent
<1> QED
  BY <1>10, <1>11, <1>12

LEMMA ShieldStep == ShieldInv /\ [Shields!Next]_(Shields!vars) => ShieldInv'
<1> SUFFICES ASSUME ShieldInv, [Shields!Next]_(Shields!vars) PROVE ShieldInv'
  OBVIOUS
<1>1. CASE Shields!Expire
  BY <1>1
    DEF Shields!Expire, ShieldInv, Shields!TypeOK, Shields!CacheIsCurrent,
        QueriedIsCurrent, Shields!Readers, Shields!Writers
<1>2. ASSUME NEW p \in Proc, Shields!RLock(p) \/ Shields!Look(p) \/ Shields!QueryFails(p)
      PROVE  ShieldInv'
  BY <1>2, ReaderMoves DEF Shields!RLock, Shields!Look, Shields!QueryFails
<1>3. ASSUME NEW p \in Proc, Shields!Query(p) \/ Shields!Fill(p) PROVE ShieldInv'
  BY <1>3, QueryStep, FillStep
<1>4. ASSUME NEW p \in Proc, Shields!Lock(p) PROVE ShieldInv'
  BY <1>4, LockStep
<1>5. ASSUME NEW p \in Proc, Shields!Write(p) \/ Shields!WriteFails(p) \/ Shields!RemoveEntry(p)
      PROVE  ShieldInv'
  BY <1>5, WriterStep
<1>6. CASE UNCHANGED Shields!vars
  BY <1>6
    DEF Shields!vars, ShieldInv, Shields!TypeOK, Shields!CacheIsCurrent,
        QueriedIsCurrent, Shields!Readers, Shields!Writers
<1> QED
  BY <1>1, <1>2, <1>3, <1>4, <1>5, <1>6 DEF Shields!Next, Shields!List, Shields!Mutate

LEMMA ShieldInvariance == Shields!Spec => []ShieldInv
BY ShieldInit, ShieldStep, PTL DEF Shields!Spec

\* The event worker never applies rules from before a change that succeeded.
THEOREM RulesInForce == Shields!Spec => []CacheIsCurrent
<1>1. ShieldInv => CacheIsCurrent
  BY DEF ShieldInv, CacheIsCurrent
<1> QED
  BY <1>1, ShieldInvariance, PTL

-----------------------------------------------------------------------------
(* SiteRegistry                                                             *)

\* Requests and lookups as functions, for TypeOK says only what they hold.
SiteShape ==
  /\ request \in [Request -> [pc : {"idle", "check", "fetch", "invalidate"},
                              site : Site \cup {None}]]
  /\ lookup \in [Ingest -> [pc : {"idle", "query", "requery", "add"},
                            row : Sites!CachedRow,
                            answer : {"none", "accepted", "refused", "failed"}]]

\* A lookup is steady in what is verified still; one that is about to cache an
\* unverified site has seen no verified one.
SitesSeen ==
  \A i \in Ingest :
    /\ steady[i] \subseteq Sites!Verified
    /\ lookup[i].pc = "add" /\ ~lookup[i].row.verified => steady[i] = {}

SiteInv == Sites!TypeOK /\ SiteShape /\ SitesSeen /\ VerifiedIsAccepted

LEMMA SiteInit == Sites!Init => SiteInv
<1> SUFFICES ASSUME Sites!Init PROVE SiteInv
  OBVIOUS
<1> USE CachesAssumption DEF Sites!RegistryConstants, Sites!Init
<1>1. Sites!TypeOK
  BY DEF Sites!TypeOK, Sites!CachedRow
<1>2. SiteShape
  BY DEF SiteShape, Sites!CachedRow
<1>3. SitesSeen /\ VerifiedIsAccepted
  BY DEF SitesSeen, VerifiedIsAccepted, Sites!VerifiedIsAccepted
<1> QED
  BY <1>1, <1>2, <1>3 DEF SiteInv

\* A request goes somewhere, with a site exactly when it needs one.
LEMMA RequestMoves ==
  ASSUME SiteInv, NEW r \in Request,
         NEW w \in {"idle", "check", "fetch", "invalidate"}, NEW s \in Site \cup {None},
         w \in {"check", "fetch"} <=> s # None, Sites!Goto(r, w, s)
  PROVE  /\ request' \in [Request -> [pc : {"idle", "check", "fetch", "invalidate"},
                                      site : Site \cup {None}]]
         /\ \A q \in Request :
              /\ request'[q].pc \in {"idle", "check", "fetch", "invalidate"}
              /\ request'[q].site \in Site \cup {None}
              /\ request'[q].pc \in {"check", "fetch"} <=> request'[q].site # None
<1> USE DEF SiteInv, SiteShape, Sites!TypeOK, Sites!Goto
<1>1. request' \in [Request -> [pc : {"idle", "check", "fetch", "invalidate"},
                                site : Site \cup {None}]]
  OBVIOUS
<1>2. request'[r].pc = w /\ request'[r].site = s
  OBVIOUS
<1>3. \A q \in Request : q # r => request'[q] = request[q]
  OBVIOUS
<1> QED
  BY <1>1, <1>2, <1>3

\* The table has changed at one site, and a request has moved.
LEMMA TableMoves ==
  ASSUME SiteInv, NEW s \in Site, NEW v \in {"unverified", "verified", "deleted"},
         Sites!SetSite(s, v), v = "unverified" => table[s] = "absent",
         UNCHANGED lookup,
         domain' \in Sites!CachedRow,
         request' \in [Request -> [pc : {"idle", "check", "fetch", "invalidate"},
                                   site : Site \cup {None}]],
         \A q \in Request :
              /\ request'[q].pc \in {"idle", "check", "fetch", "invalidate"}
              /\ request'[q].site \in Site \cup {None}
              /\ request'[q].pc \in {"check", "fetch"} <=> request'[q].site # None
  PROVE  SiteInv'
<1>1. table' \in [Site -> {"absent", "unverified", "verified", "deleted"}]
  BY DEF SiteInv, Sites!TypeOK, Sites!SetSite
<1>2. steady' \in [Ingest -> SUBSET Site]
  BY DEF SiteInv, Sites!TypeOK, Sites!SetSite
<1>3. Sites!TypeOK'
  BY <1>1, <1>2 DEF SiteInv, Sites!TypeOK, Sites!CachedRow
<1>4. SiteShape'
  BY DEF SiteInv, SiteShape, Sites!CachedRow
<1>5. \A i \in Ingest : steady'[i] \subseteq steady[i]
  BY DEF SiteInv, Sites!TypeOK, Sites!SetSite
<1>6. ASSUME NEW i \in Ingest PROVE steady'[i] \subseteq Sites!Verified'
  BY DEF SiteInv, SitesSeen, Sites!TypeOK, Sites!SetSite, Sites!Verified
<1>7. SitesSeen' /\ VerifiedIsAccepted'
  BY <1>5, <1>6 DEF SiteInv, SitesSeen, VerifiedIsAccepted, Sites!VerifiedIsAccepted
<1> QED
  BY <1>3, <1>4, <1>7 DEF SiteInv

LEMMA CommitMoves ==
  ASSUME SiteInv, NEW r \in Request, NEW s \in Site, NEW v \in {"verified", "deleted"},
         Sites!SetSite(s, v), Sites!Committed(r), UNCHANGED <<domain, lookup>>
  PROVE  SiteInv'
<1>1. PICK w \in {"idle", "invalidate"} : Sites!Goto(r, w, None)
  BY DEF Sites!Committed
<1>2. domain' \in Sites!CachedRow
  BY DEF SiteInv, Sites!TypeOK, Sites!CachedRow
<1> QED
  BY <1>1, <1>2, RequestMoves, TableMoves

\* Only a request has moved, or the cache entry gone.
LEMMA OnlyRequest ==
  ASSUME SiteInv, NEW r \in Request,
         NEW w \in {"idle", "check", "fetch", "invalidate"}, NEW s \in Site \cup {None},
         w \in {"check", "fetch"} <=> s # None, Sites!Goto(r, w, s),
         domain' \in {domain, None}, UNCHANGED <<table, lookup, steady>>
  PROVE  SiteInv'
<1>1. SiteShape'
  BY RequestMoves DEF SiteInv, SiteShape, Sites!CachedRow
<1>2. Sites!TypeOK'
  BY RequestMoves DEF SiteInv, Sites!TypeOK, Sites!CachedRow
<1>3. SitesSeen' /\ VerifiedIsAccepted'
  BY DEF SiteInv, SitesSeen, Sites!Verified, VerifiedIsAccepted, Sites!VerifiedIsAccepted
<1> QED
  BY <1>1, <1>2, <1>3 DEF SiteInv

LEMMA ManageStep == ASSUME SiteInv, NEW r \in Request, Sites!Manage(r) PROVE SiteInv'
<1>1. None \notin Site
  BY CachesAssumption DEF Sites!RegistryConstants
<1>2. request[r].site \in Site \cup {None}
      /\ (request[r].pc \in {"check", "fetch"} => request[r].site \in Site)
  BY DEF SiteInv, Sites!TypeOK
<1>3. CASE Sites!VerifyRead(r)
  <2>1. PICK s \in Site : Sites!Goto(r, "check", s)
    BY <1>3 DEF Sites!VerifyRead
  <2> QED
    BY <1>1, <1>3, <2>1, OnlyRequest DEF Sites!VerifyRead
<1>4. CASE Sites!VerifyCheck(r)
  <2>1. \/ Sites!Goto(r, "fetch", request[r].site) /\ request[r].site \in Site
        \/ Sites!Goto(r, "idle", None)
    BY <1>2, <1>4 DEF Sites!VerifyCheck, Sites!Rollback
  <2> QED
    BY <1>1, <1>4, <2>1, OnlyRequest DEF Sites!VerifyCheck
<1>5. CASE Sites!VerifyFails(r)
  BY <1>5, OnlyRequest DEF Sites!VerifyFails, Sites!Rollback
<1>6. CASE Sites!VerifyCommit(r)
  <2>1. CASE table[request[r].site] = "deleted"
    BY <1>6, <2>1, OnlyRequest DEF Sites!VerifyCommit, Sites!Rollback
  <2>2. CASE table[request[r].site] # "deleted"
    <3>1. request[r].site \in Site
      BY <1>2, <1>6 DEF Sites!VerifyCommit
    <3> QED
      BY <1>6, <2>2, <3>1, CommitMoves DEF Sites!VerifyCommit
  <2> QED
    BY <2>1, <2>2
<1>7. CASE Sites!DeleteSite(r)
  <2>1. PICK s \in Site : Sites!SetSite(s, "deleted")
    BY <1>7 DEF Sites!DeleteSite
  <2> QED
    BY <1>7, <2>1, CommitMoves DEF Sites!DeleteSite
<1>8. CASE Sites!Invalidate(r)
  BY <1>8, OnlyRequest DEF Sites!Invalidate, Sites!Rollback
<1> QED
  BY <1>3, <1>4, <1>5, <1>6, <1>7, <1>8 DEF Sites!Manage

\* A lookup has moved to a state that respects what it saw; the cache entry may
\* have become the row it held.
LEMMA LookupMoves ==
  ASSUME SiteInv, NEW i \in Ingest,
         NEW n \in [pc : {"idle", "query", "requery", "add"}, row : Sites!CachedRow,
                    answer : {"none", "accepted", "refused", "failed"}],
         lookup' = [lookup EXCEPT ![i] = n],
         n.pc \in {"requery", "add"} <=> n.row # None,
         n.pc = "add" /\ ~n.row.verified => steady'[i] = {},
         n.answer = "refused" => steady'[i] = {},
         steady' \in {steady, [steady EXCEPT ![i] = Sites!Verified]},
         domain' \in Sites!CachedRow, UNCHANGED <<table, request>>
  PROVE  SiteInv'
<1>1. lookup'[i] = n /\ \A j \in Ingest : j # i => lookup'[j] = lookup[j]
  BY DEF SiteInv, SiteShape
<1>2. /\ steady' \in [Ingest -> SUBSET Site]
      /\ \A j \in Ingest : j # i => steady'[j] = steady[j]
      /\ steady'[i] \in {steady[i], Sites!Verified}
  BY DEF SiteInv, Sites!TypeOK, Sites!Verified
<1>3. SiteShape'
  BY <1>1 DEF SiteInv, SiteShape, Sites!CachedRow
<1>4. Sites!TypeOK'
  <2>1. \A j \in Ingest : /\ lookup'[j].pc \in {"idle", "query", "requery", "add"}
                          /\ lookup'[j].row \in Sites!CachedRow
                          /\ lookup'[j].pc \in {"requery", "add"} <=> lookup'[j].row # None
                          /\ lookup'[j].answer \in {"none", "accepted", "refused", "failed"}
    BY <1>1 DEF SiteInv, Sites!TypeOK
  <2> QED
    BY <1>2, <2>1 DEF SiteInv, Sites!TypeOK, Sites!CachedRow
<1>5. SitesSeen'
  BY <1>1, <1>2 DEF SiteInv, SitesSeen, Sites!Verified
<1>6. VerifiedIsAccepted'
  BY <1>1, <1>2 DEF SiteInv, VerifiedIsAccepted, Sites!VerifiedIsAccepted
<1> QED
  BY <1>3, <1>4, <1>5, <1>6 DEF SiteInv

\* An answer is "refused" for a row that is not verified, or for none.
LEMMA AnswerStep ==
  ASSUME SiteInv, NEW i \in Ingest, NEW row \in Sites!CachedRow, Sites!Answer(i, row),
         (row # None /\ row.verified) \/ steady'[i] = {},
         steady' \in {steady, [steady EXCEPT ![i] = Sites!Verified]},
         domain' \in Sites!CachedRow, UNCHANGED <<table, request>>
  PROVE  SiteInv'
<1>1. PICK n : n = [pc |-> "idle", row |-> None,
                    answer |-> IF row # None /\ row.verified THEN "accepted" ELSE "refused"]
  OBVIOUS
<1>2. n \in [pc : {"idle", "query", "requery", "add"}, row : Sites!CachedRow,
             answer : {"none", "accepted", "refused", "failed"}]
  BY <1>1 DEF Sites!CachedRow
<1>3. lookup' = [lookup EXCEPT ![i] = n]
  BY <1>1 DEF Sites!Answer
<1>4. n.pc = "idle" /\ n.row = None /\ (n.answer = "refused" => ~(row # None /\ row.verified))
  BY <1>1
<1> QED
  BY <1>2, <1>3, <1>4, LookupMoves

LEMMA RowTyped ==
  ASSUME SiteInv, NEW s \in Site
  PROVE  /\ Sites!Row(s) \in [site : Site, verified : BOOLEAN] /\ Sites!Row(s) # None
         /\ Sites!Row(s).verified <=> s \in Sites!Verified
<1>1. Sites!Row(s) = [site |-> s, verified |-> table[s] = "verified"]
  BY DEF Sites!Row
<1>2. (table[s] = "verified") \in BOOLEAN
  OBVIOUS
<1>3. Sites!Row(s) \in [site : Site, verified : BOOLEAN]
  BY <1>1, <1>2
<1>4. None \notin [site : Site, verified : BOOLEAN]
  BY CachesAssumption DEF Sites!RegistryConstants
<1>5. Sites!Row(s).verified = (table[s] = "verified")
  BY <1>1
<1> QED
  BY <1>3, <1>4, <1>5 DEF Sites!Verified

\* A row that was found is taken along.
LEMMA FoundStep ==
  ASSUME SiteInv, NEW i \in Ingest, NEW s \in Site, Sites!Found(i, Sites!Row(s)),
         s \in Sites!Verified \/ Sites!Verified = {},
         UNCHANGED <<table, domain, request, steady>>
  PROVE  SiteInv'
<1>1. PICK n : n = [pc |-> "add", row |-> Sites!Row(s), answer |-> "none"]
  OBVIOUS
<1>2. lookup' = [lookup EXCEPT ![i] = n]
  BY <1>1 DEF Sites!Found
<1>3. n \in [pc : {"idle", "query", "requery", "add"}, row : Sites!CachedRow,
             answer : {"none", "accepted", "refused", "failed"}]
  BY <1>1, RowTyped DEF Sites!CachedRow
<1>4. n.pc = "add" /\ n.row # None /\ n.answer = "none"
  BY <1>1, RowTyped
<1>5. ~n.row.verified => steady[i] = {}
  <2>1. ~n.row.verified => s \notin Sites!Verified
    BY <1>1, RowTyped
  <2> QED
    BY <2>1 DEF SiteInv, SitesSeen
<1>6. domain' \in Sites!CachedRow
  BY DEF SiteInv, Sites!TypeOK
<1> QED
  BY <1>2, <1>3, <1>4, <1>5, <1>6, LookupMoves

LEMMA LookupStep == ASSUME SiteInv, NEW i \in Ingest, Sites!Lookup(i) PROVE SiteInv'
<1>1. domain \in Sites!CachedRow /\ UNCHANGED <<table, domain, request>>
      /\ steady' = [steady EXCEPT ![i] = Sites!Verified]
  BY DEF SiteInv, Sites!TypeOK, Sites!Lookup
<1>2. CASE domain # None /\ domain.verified
  BY <1>1, <1>2, AnswerStep DEF Sites!Lookup
<1>3. CASE ~(domain # None /\ domain.verified)
  <2>1. PICK n : n = [pc |-> IF domain = None THEN "query" ELSE "requery",
                      row |-> domain, answer |-> "none"]
    OBVIOUS
  <2>2. n \in [pc : {"idle", "query", "requery", "add"}, row : Sites!CachedRow,
               answer : {"none", "accepted", "refused", "failed"}]
    BY <1>1, <2>1
  <2>3. lookup' = [lookup EXCEPT ![i] = n]
    BY <1>3, <2>1 DEF Sites!Lookup
  <2>4. n.pc # "add" /\ n.answer = "none" /\ (n.pc \in {"requery", "add"} <=> n.row # None)
    BY <2>1
  <2> QED
    BY <1>1, <2>2, <2>3, <2>4, LookupMoves
<1> QED
  BY <1>2, <1>3

LEMMA GetVerifiedSiteStep ==
  ASSUME SiteInv, NEW i \in Ingest, Sites!GetVerifiedSite(i)
  PROVE  SiteInv'
<1>1. /\ domain \in Sites!CachedRow /\ lookup[i].row \in Sites!CachedRow
      /\ None \in Sites!CachedRow
      /\ Sites!Verified = {} => steady[i] = {}
  BY DEF SiteInv, Sites!TypeOK, SitesSeen, Sites!CachedRow
<1>2. CASE Sites!Requery(i)
  <2>1. CASE Sites!Verified = {}
    BY <1>1, <1>2, <2>1, AnswerStep DEF Sites!Requery
  <2>2. CASE Sites!Verified # {}
    <3>1. PICK s \in Sites!Verified : Sites!Found(i, Sites!Row(s))
      BY <1>2, <2>2 DEF Sites!Requery
    <3>2. s \in Site
      BY DEF Sites!Verified
    <3> QED
      BY <1>2, <3>1, <3>2, FoundStep DEF Sites!Requery
  <2> QED
    BY <2>1, <2>2
<1>3. CASE Sites!Query(i)
  <2>1. CASE Sites!Rows = {}
    <3>1. Sites!Verified = {}
      BY <2>1 DEF Sites!Rows, Sites!Verified
    <3> QED
      BY <1>1, <1>3, <2>1, <3>1, AnswerStep DEF Sites!Query
  <2>2. CASE Sites!Rows # {}
    <3>1. PICK row \in Sites!Rows :
            /\ row.verified \/ Sites!Verified = {}
            /\ Sites!Found(i, row)
      BY <1>3, <2>2 DEF Sites!Query
    <3>2. PICK s \in Site : row = Sites!Row(s)
      BY DEF Sites!Rows
    <3>3. s \in Sites!Verified \/ Sites!Verified = {}
      BY <3>1, <3>2, RowTyped
    <3> QED
      BY <1>3, <3>1, <3>2, <3>3, FoundStep DEF Sites!Query
  <2> QED
    BY <2>1, <2>2
<1>4. CASE Sites!QueryFails(i)
  <2>1. PICK n : n = [pc |-> "idle", row |-> None, answer |-> "failed"]
    OBVIOUS
  <2>2. n \in [pc : {"idle", "query", "requery", "add"}, row : Sites!CachedRow,
               answer : {"none", "accepted", "refused", "failed"}]
    BY <1>1, <2>1
  <2>3. n.pc = "idle" /\ n.answer = "failed" /\ n.row = None
    BY <2>1
  <2> QED
    BY <1>1, <1>4, <2>1, <2>2, <2>3, LookupMoves DEF Sites!QueryFails
<1>5. CASE Sites!Add(i)
  <2>1. lookup[i].row # None
    BY <1>5 DEF SiteInv, Sites!TypeOK, Sites!Add
  <2>2. lookup[i].row.verified \/ steady[i] = {}
    BY <1>5 DEF SiteInv, SitesSeen, Sites!Add
  <2> QED
    BY <1>1, <1>5, <2>1, <2>2, AnswerStep DEF Sites!Add
<1> QED
  BY <1>2, <1>3, <1>4, <1>5, LookupStep DEF Sites!GetVerifiedSite

LEMMA SiteStep == SiteInv /\ [Sites!Next]_(Sites!vars) => SiteInv'
<1> SUFFICES ASSUME SiteInv, [Sites!Next]_(Sites!vars) PROVE SiteInv'
  OBVIOUS
<1>1. ASSUME NEW s \in Site, Sites!CreateSite(s) PROVE SiteInv'
  <2>1. domain' \in Sites!CachedRow
    BY <1>1 DEF SiteInv, Sites!TypeOK, Sites!CreateSite, Sites!CachedRow
  <2>2. request' = request
    BY <1>1 DEF Sites!CreateSite
  <2> QED
    BY <1>1, <2>1, <2>2, TableMoves DEF SiteInv, Sites!TypeOK, SiteShape, Sites!CreateSite
<1>2. CASE Sites!Expire \/ UNCHANGED Sites!vars
  <2>1. domain' \in {domain, None} /\ UNCHANGED <<table, request, lookup, steady>>
    BY <1>2 DEF Sites!Expire, Sites!vars
  <2> QED
    BY <2>1 DEF SiteInv, Sites!TypeOK, SiteShape, SitesSeen, Sites!Verified,
                Sites!CachedRow, VerifiedIsAccepted, Sites!VerifiedIsAccepted
<1> QED
  BY <1>1, <1>2, ManageStep, GetVerifiedSiteStep DEF Sites!Next

\* Events of a domain are not refused while it has a verified site, for any number
\* of sites, management requests and lookups.
THEOREM AcceptedWhileVerified == Sites!Spec => []VerifiedIsAccepted
<1>1. SiteInv => VerifiedIsAccepted
  BY DEF SiteInv
<1> QED
  BY <1>1, SiteInit, SiteStep, PTL DEF Sites!Spec

-----------------------------------------------------------------------------
\* With one management request at a time: it found nothing verified when it went
\* to fetch the file, and nothing has been verified since.
OneVerified ==
  /\ OneVerifiedSite
  /\ \A r \in Request : request[r].pc = "fetch" => Sites!Verified = {}

LEMMA OneVerifiedStep ==
  ASSUME NEW m, Request = {m}, SiteInv, OneVerified, [Sites!Next]_(Sites!vars)
  PROVE  OneVerified'
<1> USE DEF OneVerifiedSite, Sites!OneVerifiedSite
<1>1. ASSUME NEW s \in Site, NEW v \in {"unverified", "deleted"}, Sites!SetSite(s, v),
             \A r \in Request : request'[r].pc = "fetch" => request[r].pc = "fetch"
      PROVE  OneVerified'
  <2>1. Sites!Verified' \subseteq Sites!Verified
    BY <1>1 DEF SiteInv, Sites!TypeOK, Sites!SetSite, Sites!Verified
  <2> QED
    BY <1>1, <2>1 DEF OneVerified
<1>2. ASSUME NEW r \in Request,
             NEW w \in {"idle", "check", "invalidate"}, NEW s, Sites!Goto(r, w, s)
      PROVE  \A q \in Request : request'[q].pc # "fetch"
  BY <1>2 DEF SiteInv, SiteShape, Sites!Goto
<1>3. ASSUME NEW s \in Site, Sites!CreateSite(s) PROVE OneVerified'
  BY <1>1, <1>3 DEF Sites!CreateSite
<1>4. ASSUME NEW r \in Request, Sites!Manage(r) PROVE OneVerified'
  <2>1. CASE Sites!VerifyRead(r) \/ Sites!VerifyFails(r) \/ Sites!Invalidate(r)
    <3>1. \A q \in Request : request'[q].pc # "fetch"
      BY <2>1, <1>2
      DEF Sites!VerifyRead, Sites!VerifyFails, Sites!Invalidate, Sites!Rollback
    <3>2. table' = table
      BY <2>1 DEF Sites!VerifyRead, Sites!VerifyFails, Sites!Invalidate
    <3> QED
      BY <3>1, <3>2 DEF OneVerified, Sites!Verified
  <2>2. CASE Sites!VerifyCheck(r)
    <3>1. table' = table
      BY <2>2 DEF Sites!VerifyCheck
    <3>2. CASE Sites!Verified = {}
      BY <3>1, <3>2 DEF OneVerified, Sites!Verified
    <3>3. CASE Sites!Verified # {}
      <4>1. \A q \in Request : request'[q].pc # "fetch"
        BY <2>2, <3>3, <1>2 DEF Sites!VerifyCheck, Sites!Rollback
      <4> QED
        BY <3>1, <4>1 DEF OneVerified, Sites!Verified
    <3> QED
      BY <3>2, <3>3
  <2>3. CASE Sites!VerifyCommit(r)
    <3>1. \A q \in Request : request'[q].pc # "fetch"
      BY <2>3, <1>2 DEF Sites!VerifyCommit, Sites!Rollback, Sites!Committed
    <3>2. Sites!Verified = {}
      BY <2>3 DEF OneVerified, Sites!VerifyCommit
    <3>3. Sites!Verified' \subseteq {request[r].site}
      BY <2>3, <3>2
      DEF SiteInv, Sites!TypeOK, Sites!VerifyCommit, Sites!SetSite, Sites!Verified
    <3> QED
      BY <3>1, <3>3 DEF OneVerified
  <2>4. CASE Sites!DeleteSite(r)
    <3>1. \A q \in Request : request'[q].pc # "fetch"
      BY <2>4, <1>2 DEF Sites!DeleteSite, Sites!Committed
    <3> QED
      BY <2>4, <3>1, <1>1 DEF Sites!DeleteSite
  <2> QED
    BY <1>4, <2>1, <2>2, <2>3, <2>4 DEF Sites!Manage
<1>5. ASSUME UNCHANGED <<table, request>> PROVE OneVerified'
  BY <1>5 DEF OneVerified, Sites!Verified
<1>6. ASSUME NEW i \in Ingest, Sites!GetVerifiedSite(i) PROVE UNCHANGED <<table, request>>
  BY <1>6 DEF Sites!GetVerifiedSite, Sites!Lookup, Sites!Requery, Sites!Query,
              Sites!QueryFails, Sites!Add
<1>7. CASE Sites!Expire \/ UNCHANGED Sites!vars
  BY <1>5, <1>7 DEF Sites!Expire, Sites!vars
<1> QED
  BY <1>3, <1>4, <1>5, <1>6, <1>7 DEF Sites!Next

\* As long as one request at a time manages the sites of a domain, at most one of
\* them is verified.  (Two requests can break it: the run sites_twice.)
THEOREM OneRequestOneVerified ==
  ASSUME NEW m, Request = {m}
  PROVE  Sites!Spec => []OneVerifiedSite
<1>1. Sites!Init => SiteInv /\ OneVerified
  BY SiteInit DEF Sites!Init, OneVerified, OneVerifiedSite, Sites!OneVerifiedSite,
                  Sites!Verified
<1>2. SiteInv /\ OneVerified /\ [Sites!Next]_(Sites!vars) => (SiteInv /\ OneVerified)'
  BY SiteStep, OneVerifiedStep
<1>3. OneVerified => OneVerifiedSite
  BY DEF OneVerified
<1> QED
  BY <1>1, <1>2, <1>3, PTL DEF Sites!Spec

-----------------------------------------------------------------------------
(* LocationNames                                                            *)

\* Whoever is about to insert has a failed query to show for every row there is;
\* whoever is about to cache an identifier has it from the table.
NamesAhead ==
  \A t \in Task :
    /\ task[t].pc = "create" => Len(rows) <= misled
    /\ task[t].pc = "add" => task[t].id \in Names!InTable

NameInv == Names!TypeOK /\ NamesAhead /\ NamesResolve

LEMMA NameInit == Names!Init => NameInv
<1> SUFFICES ASSUME Names!Init PROVE NameInv
  OBVIOUS
<1>1. None \notin Task /\ MaxFailures \in Nat
  BY CachesAssumption DEF Names!NameConstants
<1>2. Names!TypeOK
  BY <1>1 DEF Names!Init, Names!TypeOK
<1>3. NamesAhead
  BY DEF Names!Init, NamesAhead
<1>4. NamesResolve
  BY DEF Names!Init, NamesResolve, Names!NamesResolve, Names!OneRow, Names!Translatable
<1> QED
  BY <1>2, <1>3, <1>4 DEF NameInv

\* A task goes somewhere, without or with the lock.
LEMMA TaskMoves ==
  ASSUME Names!TypeOK, NEW t \in Task,
         NEW w \in {"idle", "lock", "query", "create", "reread", "add"},
         NEW x \in Id \cup {None}, Names!Goto(t, w, x),
         w \in {"query", "create", "reread", "add"} =>
           /\ holder' = t
           /\ holder \in {None, t},
         w \in {"idle", "lock"} => holder' = (IF holder = t THEN None ELSE holder)
  PROVE  /\ task' \in [Task -> [pc : {"idle", "lock", "query", "create", "reread", "add"},
                                id : Id \cup {None}]]
         /\ \A s \in Task :
              task'[s].pc \in {"query", "create", "reread", "add"} <=> holder' = s
         /\ task'[t].pc = w /\ task'[t].id = x
         /\ \A s \in Task : s # t => task'[s] = task[s]
<1> USE DEF Names!TypeOK, Names!Goto
<1>1. None \notin Task
  BY CachesAssumption DEF Names!NameConstants
<1>2. task' \in [Task -> [pc : {"idle", "lock", "query", "create", "reread", "add"},
                          id : Id \cup {None}]]
  OBVIOUS
<1>3. task'[t].pc = w /\ task'[t].id = x
  OBVIOUS
<1>4. \A s \in Task : s # t => task'[s] = task[s]
  OBVIOUS
<1>5. ASSUME NEW s \in Task
      PROVE  task'[s].pc \in {"query", "create", "reread", "add"} <=> holder' = s
  <2>1. CASE s = t
    BY <1>1, <1>3, <2>1
  <2>2. CASE s # t
    BY <1>1, <1>4, <2>2
  <2> QED
    BY <2>1, <2>2
<1> QED
  BY <1>2, <1>3, <1>4, <1>5

\* Nobody but the holder of the lock works on the table.
LEMMA OneHolder ==
  ASSUME Names!TypeOK, NEW t \in Task, holder = t, NEW s \in Task, s # t
  PROVE  task[s].pc \in {"idle", "lock"}
BY DEF Names!TypeOK

\* A call ends, and what it returns is in the table, or nothing.
LEMMA ReturnStep ==
  ASSUME NameInv, NEW t \in Task, NEW x \in Id \cup {None}, Names!Return(t, x),
         x \in Names!InTable \cup {None}, entry' \in {entry, x},
         UNCHANGED <<given, rows, misled>>
  PROVE  NameInv'
<1> USE DEF NameInv
<1>1. Names!Goto(t, "idle", None) /\ holder' = (IF holder = t THEN None ELSE holder)
  BY DEF Names!Return
<1>2. Names!TypeOK'
  <2>1. /\ task' \in [Task -> [pc : {"idle", "lock", "query", "create", "reread", "add"},
                              id : Id \cup {None}]]
        /\ \A s \in Task :
             task'[s].pc \in {"query", "create", "reread", "add"} <=> holder' = s
    BY <1>1, TaskMoves
  <2>2. returned' \subseteq Id
    BY DEF Names!TypeOK, Names!Return
  <2> QED
    BY <2>1, <2>2 DEF Names!TypeOK
<1>3. NamesAhead'
  <2>1. task'[t].pc = "idle" /\ \A s \in Task : s # t => task'[s] = task[s]
    BY <1>1, TaskMoves
  <2> QED
    BY <2>1 DEF NamesAhead, Names!InTable
<1>4. NamesResolve'
  BY DEF NamesResolve, Names!NamesResolve, Names!OneRow, Names!Translatable,
         Names!InTable, Names!Return
<1> QED
  BY <1>2, <1>3, <1>4

\* The holder of the lock, or whoever waits for it, goes on; the table stays.
LEMMA GoesOn ==
  ASSUME NameInv, NEW t \in Task, NEW w \in {"lock", "query", "create", "add"},
         NEW x \in Id \cup {None}, Names!Goto(t, w, x),
         w = "lock" => UNCHANGED holder /\ holder # t,
         w # "lock" => holder' = t /\ holder \in {None, t},
         w = "create" => Len(rows) <= misled',
         w = "add" => x \in Names!InTable,
         misled' \in 0..MaxFailures, misled <= misled',
         UNCHANGED <<given, rows, entry, returned>>
  PROVE  NameInv'
<1> USE DEF NameInv
<1>1. /\ task' \in [Task -> [pc : {"idle", "lock", "query", "create", "reread", "add"},
                            id : Id \cup {None}]]
      /\ \A s \in Task :
           task'[s].pc \in {"query", "create", "reread", "add"} <=> holder' = s
      /\ task'[t].pc = w /\ task'[t].id = x
      /\ \A s \in Task : s # t => task'[s] = task[s]
  BY TaskMoves
<1>2. Names!TypeOK'
  BY <1>1 DEF Names!TypeOK
<1>3. Len(rows) \in Nat /\ misled \in Nat /\ misled' \in Nat
  <2>1. MaxFailures \in Nat
    BY CachesAssumption DEF Names!NameConstants
  <2> QED
    BY <2>1 DEF Names!TypeOK
<1>4. NamesAhead'
  BY <1>1, <1>3 DEF NamesAhead, Names!InTable
<1>5. NamesResolve'
  <2>1. Names!OneRow'
    BY <1>3 DEF NamesResolve, Names!NamesResolve, Names!OneRow
  <2>2. Names!Translatable'
    BY DEF NamesResolve, Names!NamesResolve, Names!Translatable, Names!InTable
  <2> QED
    BY <2>1, <2>2 DEF NamesResolve, Names!NamesResolve
<1> QED
  BY <1>2, <1>4, <1>5

LEMMA AppendedRows ==
  ASSUME Names!TypeOK, NEW x \in Id, rows' = Append(rows, x)
  PROVE  /\ rows' \in Seq(Id) /\ Len(rows') = Len(rows) + 1
         /\ Names!InTable \subseteq Names!InTable'
<1>1. rows \in Seq(Id)
  BY DEF Names!TypeOK
<1>2. rows' \in Seq(Id) /\ Len(rows') = Len(rows) + 1
  BY <1>1
<1>3. DOMAIN rows \subseteq DOMAIN rows' /\ \A i \in DOMAIN rows : rows'[i] = rows[i]
  BY <1>1
<1> QED
  BY <1>2, <1>3 DEF Names!InTable

\* A row is appended by a task that was about to, which then rereads or gives up.
LEMMA InsertedStep ==
  ASSUME NameInv, NEW t \in Task, task[t].pc = "create",
         NEW x \in Id, rows' = Append(rows, x),
         NEW w \in {"idle", "reread"}, NEW y \in Id \cup {None}, Names!Goto(t, w, y),
         holder' = (IF w = "idle" /\ holder = t THEN None ELSE holder),
         UNCHANGED <<given, entry, returned, misled>>
  PROVE  NameInv'
<1> USE DEF NameInv
<1>1. holder = t
  BY DEF Names!TypeOK
<1>2. /\ task' \in [Task -> [pc : {"idle", "lock", "query", "create", "reread", "add"},
                            id : Id \cup {None}]]
      /\ \A s \in Task :
           task'[s].pc \in {"query", "create", "reread", "add"} <=> holder' = s
      /\ task'[t].pc = w
      /\ \A s \in Task : s # t => task'[s] = task[s]
  BY <1>1, TaskMoves
<1>3. /\ rows' \in Seq(Id) /\ Len(rows') = Len(rows) + 1
      /\ Names!InTable \subseteq Names!InTable'
  BY AppendedRows
<1>4. Names!TypeOK'
  BY <1>2, <1>3 DEF Names!TypeOK
<1>5. NamesAhead'
  <2>1. ASSUME NEW s \in Task PROVE task'[s].pc \notin {"create", "add"}
    BY <1>1, <1>2, OneHolder
  <2> QED
    BY <2>1 DEF NamesAhead
<1>6. NamesResolve'
  <2>1. Len(rows) \in Nat /\ misled \in Nat /\ Len(rows) <= misled
    <3>1. MaxFailures \in Nat
      BY CachesAssumption DEF Names!NameConstants
    <3> QED
      BY <3>1 DEF Names!TypeOK, NamesAhead
  <2>2. Len(rows') <= 1 + misled'
    BY <1>3, <2>1
  <2>3. returned' \cup {entry'} \subseteq Names!InTable' \cup {None}
    BY <1>3 DEF NamesResolve, Names!NamesResolve, Names!Translatable
  <2> QED
    BY <2>2, <2>3 DEF NamesResolve, Names!NamesResolve, Names!OneRow, Names!Translatable
<1> QED
  BY <1>4, <1>5, <1>6

LEMMA GetOrCreateStep == ASSUME NameInv, NEW t \in Task, Names!GetOrCreate(t) PROVE NameInv'
<1> USE DEF NameInv
<1>1. MaxFailures \in Nat
  BY CachesAssumption DEF Names!NameConstants
<1>2. /\ entry \in Id \cup {None} /\ entry \in Names!InTable \cup {None}
      /\ misled \in 0..MaxFailures
      /\ \A s \in Task : task[s].pc \in {"query", "create", "reread", "add"} <=> holder = s
  BY DEF Names!TypeOK, NamesResolve, Names!NamesResolve, Names!Translatable
<1>3. Names!InTable \subseteq Id
  BY DEF Names!TypeOK, Names!InTable
<1>4. Names!NewId \subseteq Id
  BY DEF Names!TypeOK, Names!NewId
<1>5. CASE Names!LookUp(t)
  <2>1. CASE entry # None
    BY <1>2, <1>5, <2>1, ReturnStep DEF Names!LookUp
  <2>2. CASE entry = None
    <3>1. Names!Goto(t, "lock", None) /\ UNCHANGED holder /\ holder # t
          /\ UNCHANGED <<given, rows, entry, returned, misled>>
      BY <1>2, <1>5, <2>2 DEF Names!LookUp
    <3> QED
      BY <1>1, <1>2, <3>1, GoesOn
  <2> QED
    BY <2>1, <2>2
<1>6. CASE Names!Lock(t)
  <2>1. CASE entry # None
    BY <1>2, <1>6, <2>1, ReturnStep DEF Names!Lock
  <2>2. CASE entry = None
    BY <1>1, <1>2, <1>6, <2>2, GoesOn DEF Names!Lock
  <2> QED
    BY <2>1, <2>2
<1>7. CASE Names!Query(t)
  <2>1. holder = t /\ UNCHANGED <<given, rows, entry, holder, returned, misled>>
    BY <1>2, <1>7 DEF Names!Query
  <2>2. CASE rows = <<>> /\ Names!Goto(t, "create", None)
    BY <1>1, <1>2, <2>1, <2>2, GoesOn
  <2>3. ASSUME NEW x \in Names!InTable, Names!Goto(t, "add", x) PROVE NameInv'
    BY <1>1, <1>2, <1>3, <2>1, <2>3, GoesOn
  <2> QED
    BY <1>7, <2>2, <2>3 DEF Names!Query
<1>8. CASE Names!QueryFails(t)
  <2>1. Len(rows) <= misled' /\ misled' \in 0..MaxFailures /\ misled <= misled'
    BY <1>1, <1>2, <1>8
    DEF Names!QueryFails, NamesResolve, Names!NamesResolve, Names!OneRow
  <2> QED
    BY <1>2, <1>8, <2>1, GoesOn DEF Names!QueryFails
<1>9. CASE Names!Insert(t)
  <2>1. PICK x \in Names!NewId : rows' = Append(rows, x) /\ Names!Goto(t, "reread", x)
    BY <1>9 DEF Names!Insert
  <2> QED
    BY <1>4, <1>9, <2>1, InsertedStep DEF Names!Insert
<1>10. CASE Names!InsertFails(t)
  <2>1. CASE rows' = rows
    BY <1>10, <2>1, ReturnStep DEF Names!InsertFails
  <2>2. ASSUME NEW x \in Names!NewId, rows' = Append(rows, x) PROVE NameInv'
    <3>1. Names!Goto(t, "idle", None) /\ holder' = (IF holder = t THEN None ELSE holder)
          /\ UNCHANGED <<given, entry, returned, misled>> /\ task[t].pc = "create"
      BY <1>10 DEF Names!InsertFails, Names!Return
    <3> QED
      BY <1>4, <2>2, <3>1, InsertedStep
  <2> QED
    BY <1>10, <2>1, <2>2 DEF Names!InsertFails
<1>11. CASE Names!Reread(t)
  <2>1. ASSUME NEW x \in Names!InTable, Names!Goto(t, "add", x), UNCHANGED <<holder, returned>>
        PROVE  NameInv'
    BY <1>1, <1>2, <1>3, <1>11, <2>1, GoesOn DEF Names!Reread
  <2>2. CASE Names!Return(t, None)
    BY <1>11, <2>2, ReturnStep DEF Names!Reread
  <2> QED
    BY <1>11, <2>1, <2>2 DEF Names!Reread
<1>12. CASE Names!Add(t)
  <2>1. task[t].id \in Names!InTable
    BY <1>12 DEF NamesAhead, Names!Add
  <2> QED
    BY <1>3, <1>12, <2>1, ReturnStep DEF Names!Add
<1> QED
  BY <1>5, <1>6, <1>7, <1>8, <1>9, <1>10, <1>11, <1>12 DEF Names!GetOrCreate

LEMMA NameStep == NameInv /\ [Names!Next]_(Names!vars) => NameInv'
<1> SUFFICES ASSUME NameInv, [Names!Next]_(Names!vars) PROVE NameInv'
  OBVIOUS
<1>1. CASE Names!Expire \/ UNCHANGED Names!vars
  <2>1. entry' \in {entry, None} /\ UNCHANGED <<given, rows, holder, task, returned, misled>>
    BY <1>1 DEF Names!Expire, Names!vars
  <2> QED
    BY <2>1 DEF NameInv, Names!TypeOK, NamesAhead, NamesResolve, Names!NamesResolve,
                Names!OneRow, Names!Translatable, Names!InTable
<1> QED
  BY <1>1, GetOrCreateStep DEF Names!Next

\* A location has one row for however many tasks ask for it, but for queries whose
\* error was taken for "no row", and every identifier given to an event is in one.
THEOREM NamesAlwaysResolve == Names!Spec => []NamesResolve
<1>1. NameInv => NamesResolve
  BY DEF NameInv
<1> QED
  BY <1>1, NameInit, NameStep, PTL DEF Names!Spec

-----------------------------------------------------------------------------
(* The four caches of a process                                             *)

\* The components share no variable: each moves or rests.
LEMMA EachMovesOrRests ==
  [MCNext]_<<subject, vars, siteVars, shieldVars, nameVars>> =>
    /\ [Next]_vars
    /\ [Sites!Next]_(Sites!vars)
    /\ [Shields!Next]_(Shields!vars)
    /\ [Names!Next]_(Names!vars)
BY DEF MCNext, siteVars, shieldVars, nameVars, Sites!vars, Shields!vars, Names!vars

\* The types of all four caches, for any sets of what uses them.
THEOREM TypesAlwaysOK == MCSpec => []TypesOK
<1> DEFINE Inv == KeyInv /\ KeyTypes /\ SiteInv /\ ShieldInv /\ NameInv
<1>1. MCInit => Inv
  BY InitKeyInv, InitKeyTypes, SiteInit, ShieldInit, NameInit DEF MCInit
<1>2. Inv /\ [MCNext]_<<subject, vars, siteVars, shieldVars, nameVars>> => Inv'
  BY EachMovesOrRests, NextKeyInv, KeyTypesStep, SiteStep, ShieldStep, NameStep
<1>3. Inv => TypesOK
  BY KeyTypeOK DEF SiteInv, ShieldInv, NameInv, TypesOK
<1> QED
  BY <1>1, <1>2, <1>3, PTL DEF MCSpec
=============================================================================
