-------------------------- MODULE SessionStoreProofs --------------------------
(***************************************************************************)
(* For every set of timestamps and events, every inactivity and batch size *)
(* and any number of cache misses and flushing goroutines: the session     *)
(* store keeps its types, and as long as no lookup returns a version that  *)
(* has been superseded, every session keeps exactly one current version,   *)
(* which accounts for its events and is the one in the cache.  No lookup   *)
(* does while one goroutine flushes, so that batches arrive in the order   *)
(* in which they were cut, and then no query sees a session twice; nor for *)
(* any number of them while the cache keeps the visitor and his events     *)
(* come in the order of their time.                                        *)
(***************************************************************************)
EXTENDS MCSessionTable, FiniteSetTheorems, WellFoundedInduction, TLAPS
LEMMA Greatest ==
  ASSUME NEW n \in Nat, NEW S, S \subseteq 0..n, S # {}
  PROVE  \E m \in S : \A k \in S : k <= m
<1> DEFINE T == {i \in Nat : n - i \in S}
           R == OpToRel(<, Nat)
<1>1. T \subseteq Nat /\ T # {}
  <2>1. PICK k \in S : TRUE
    OBVIOUS
  <2>2. n - k \in Nat /\ n - (n - k) = k
    OBVIOUS
  <2> QED
    BY <2>2
<1>2. IsWellFoundedOn(R, Nat)
  BY NatLessThanWellFounded
<1>3. \A x, y \in Nat : <<x, y>> \in R <=> x < y
  BY DEF OpToRel
<1>4. \A i \in T : i \in Nat /\ n - i \in S
  OBVIOUS
<1>5. \A k \in S : n - k \in T
  <2> SUFFICES ASSUME NEW k \in S PROVE n - k \in Nat /\ n - (n - k) \in S
    OBVIOUS
  <2>1. n - k \in Nat /\ n - (n - k) = k
    OBVIOUS
  <2> QED
    BY <2>1
<1> HIDE DEF T, R
<1>6. PICK x \in T : \A y \in T : ~ (<<y, x>> \in R)
  BY <1>1, <1>2, WFMin
<1>7. \A y \in T : x <= y
  <2> SUFFICES ASSUME NEW y \in T PROVE x <= y
    OBVIOUS
  <2>1. x \in Nat /\ y \in Nat /\ ~ (<<y, x>> \in R)
    BY <1>1, <1>6
  <2> QED
    BY <1>3, <2>1
<1>8. \A k \in S : k <= n - x
  BY <1>1, <1>5, <1>7
<1> QED
  BY <1>4, <1>8
-----------------------------------------------------------------------------
(* Bags                                                                     *)

IsBagOf(b, S) == IsABag(b) /\ BagToSet(b) \subseteq S

LEMMA NoRows ==
  ASSUME NEW S
  PROVE  /\ IsBagOf(EmptyBag, S) /\ BagToSet(EmptyBag) = {}
         /\ \A r : Copies(r, EmptyBag) = 0
BY DEF IsBagOf, IsABag, EmptyBag, SetToBag, BagToSet, Copies, BagIn

\* The copies in a bag: a number, which is not zero exactly for what is in it.
LEMMA CopiesCount ==
  ASSUME NEW S, NEW b, IsBagOf(b, S), NEW r
  PROVE  /\ Copies(r, b) \in Nat
         /\ r \in BagToSet(b) <=> Copies(r, b) > 0
BY DEF IsBagOf, IsABag, BagToSet, Copies, BagIn

\* Putting two bags together.
LEMMA TogetherAt ==
  ASSUME NEW S, NEW a, NEW b, IsBagOf(a, S), IsBagOf(b, S), NEW r
  PROVE  /\ r \in DOMAIN (a (+) b) <=> r \in DOMAIN a \/ r \in DOMAIN b
         /\ Copies(r, a (+) b) = Copies(r, a) + Copies(r, b)
         /\ r \in DOMAIN (a (+) b) => (a (+) b)[r] \in {n \in Nat : n > 0}
<1>1. DOMAIN (a (+) b) = DOMAIN a \cup DOMAIN b
  BY DEF (+)
<1>2. ASSUME r \in DOMAIN a \cup DOMAIN b
      PROVE  /\ (a (+) b)[r] = (IF r \in DOMAIN a THEN a[r] ELSE 0)
                               + (IF r \in DOMAIN b THEN b[r] ELSE 0)
             /\ (a (+) b)[r] \in {n \in Nat : n > 0}
  BY <1>2 DEF IsBagOf, IsABag, (+)
<1> QED
  BY <1>1, <1>2 DEF Copies, BagIn, BagToSet

LEMMA TogetherRows ==
  ASSUME NEW S, NEW a, NEW b, IsBagOf(a, S), IsBagOf(b, S)
  PROVE  BagToSet(a (+) b) = BagToSet(a) \cup BagToSet(b)
BY DEF (+), BagToSet

LEMMA TogetherBag ==
  ASSUME NEW S, NEW a, NEW b, IsBagOf(a, S), IsBagOf(b, S)
  PROVE  IsBagOf(a (+) b, S)
<1>1. DOMAIN (a (+) b) = DOMAIN a \cup DOMAIN b
  BY DEF (+)
<1>2. \A r \in DOMAIN (a (+) b) : (a (+) b)[r] \in {n \in Nat : n > 0}
  BY TogetherAt
<1>3. a (+) b = [r \in DOMAIN (a (+) b) |-> (a (+) b)[r]]
  BY DEF (+)
<1>4. a (+) b \in [DOMAIN (a (+) b) -> {n \in Nat : n > 0}]
  BY <1>2, <1>3
<1> QED
  BY <1>1, <1>4 DEF IsBagOf, IsABag, BagToSet

\* Adding one row.
LEMMA OneMore ==
  ASSUME NEW S, NEW b, IsBagOf(b, S), NEW x \in S
  PROVE  /\ IsBagOf(b (+) SetToBag({x}), S)
         /\ BagToSet(b (+) SetToBag({x})) = BagToSet(b) \cup {x}
         /\ \A r : Copies(r, b (+) SetToBag({x})) = Copies(r, b) + (IF r = x THEN 1 ELSE 0)
<1> DEFINE c == SetToBag({x})
<1>1. /\ IsBagOf(c, S) /\ BagToSet(c) = {x}
      /\ \A r : Copies(r, c) = IF r = x THEN 1 ELSE 0
  BY DEF IsBagOf, IsABag, SetToBag, BagToSet, Copies, BagIn
<1> HIDE DEF c
<1>2. IsBagOf(b (+) c, S) /\ BagToSet(b (+) c) = BagToSet(b) \cup BagToSet(c)
  BY <1>1, TogetherBag, TogetherRows
<1>3. \A r : Copies(r, b (+) c) = Copies(r, b) + Copies(r, c)
  BY <1>1, TogetherAt
<1>4. /\ IsBagOf(b (+) c, S) /\ BagToSet(b (+) c) = BagToSet(b) \cup {x}
      /\ \A r : Copies(r, b (+) c) = Copies(r, b) + (IF r = x THEN 1 ELSE 0)
  BY <1>1, <1>2, <1>3
<1> QED
  BY <1>4 DEF c

-----------------------------------------------------------------------------
(* Types                                                                    *)

Table == BagToSet(clickhouse)

Rows == Pending \cup Table

\* The places of rows; what a lookup chooses from has a greatest element.
Stores ==
  /\ IsBagOf(buffer, Row) /\ IsBagOf(clickhouse, Row)
  /\ flusher = [f \in Flusher |-> flusher[f]]
  /\ \A f \in Flusher : /\ IsBagOf(flusher[f].batch, Row)
                        /\ \/ flusher[f] \in {Free, Called}
                           \/ flusher[f].pc = "write" /\ flusher[f].landed \in BOOLEAN
  /\ \E n \in Nat : \A r \in Rows : r.start <= n /\ r.version <= n

Event == [time : Time, name : Name]

Handling ==
  /\ cache \in Row \cup {None} /\ version \in Nat
  /\ cache # None => cache.sign = 1
  /\ task \in [pc : {"idle", "pending", "query", "create", "tombstone", "update"},
               event : Event \cup {None}, found : Row \cup {None}]
  /\ task.pc # "idle" => task.event \in Event
  /\ task.pc \in {"tombstone", "update"} => task.found \in Row /\ task.found.sign = 1
  /\ attributed \subseteq [session : Nat, number : Nat, time : Time, name : Name]
  /\ IsFiniteSet(attributed)

TypeInv == Stores /\ Handling

LEMMA TypeInvOK == TypeInv => TypeOK
BY DEF TypeInv, Stores, Handling, Event, TypeOK, IsBagOf

LEMMA RowsTyped == Stores => Rows \subseteq Row /\ Pending \subseteq Rows /\ Table \subseteq Rows
BY DEF Stores, Rows, Pending, Table, IsBagOf

LEMMA InitTypeInv == Init => TypeInv
<1> SUFFICES ASSUME Init PROVE TypeInv
  OBVIOUS
<1>1. Rows = {}
  BY NoRows DEF Init, Rows, Pending, Table, Free
<1>2. Stores
  BY <1>1, NoRows DEF Init, Stores, Free
<1>3. Handling
  BY FS_EmptySet DEF Init, Handling, Idle
<1> QED
  BY <1>2, <1>3 DEF TypeInv

\* A lookup that finds anything returns one of the rows it found.
LEMMA NewestIsOne ==
  ASSUME Stores, NEW rows \in SUBSET Rows, rows # {}
  PROVE  Newest(rows) \in rows
<1>1. PICK n \in Nat : \A r \in Rows : r.start <= n /\ r.version <= n
  BY DEF Stores
<1>2. \A r \in rows : r.start \in Nat /\ r.version \in Nat
  BY RowsTyped, SessionAssumption DEF Row
<1>3. \A r \in rows : r.start <= n /\ r.version <= n
  BY <1>1
<1>4. PICK start \in {r.start : r \in rows} : \A k \in {r.start : r \in rows} : k <= start
  <2>1. {r.start : r \in rows} \subseteq 0..n /\ {r.start : r \in rows} # {}
    BY <1>2, <1>3
  <2> QED
    BY <2>1, Greatest
<1>5. PICK number \in {r.version : r \in {q \in rows : q.start = start}} :
        \A k \in {r.version : r \in {q \in rows : q.start = start}} : k <= number
  <2>1. /\ {r.version : r \in {q \in rows : q.start = start}} \subseteq 0..n
        /\ {r.version : r \in {q \in rows : q.start = start}} # {}
    BY <1>2, <1>3
  <2> QED
    BY <2>1, Greatest
<1>6. PICK r \in rows : r.start = start /\ r.version = number
  OBVIOUS
<1>7. \A q \in rows : q.start < r.start \/ (q.start = r.start /\ q.version <= r.version)
  <2> SUFFICES ASSUME NEW q \in rows, q.start # r.start
               PROVE  q.start < r.start
    BY <1>5, <1>6
  <2>1. q.start <= r.start
    BY <1>4, <1>6
  <2> QED
    BY <1>2, <2>1
<1> QED
  BY <1>7 DEF Newest

\* Add puts a row into the buffer and may call a goroutine that is free.
LEMMA AddFacts ==
  ASSUME Stores, NEW row \in Row, Add(row), UNCHANGED clickhouse
  PROVE  /\ Stores' /\ Rows' = Rows \cup {row}
         /\ buffer' = buffer (+) SetToBag({row})
         /\ \A f \in Flusher : /\ flusher'[f].batch = flusher[f].batch
                               /\ flusher'[f].landed = flusher[f].landed
                               /\ \/ flusher'[f] = flusher[f]
                                  \/ f \in Slot /\ flusher'[f] = Called
<1>1. /\ IsBagOf(buffer', Row) /\ BagToSet(buffer') = BagToSet(buffer) \cup {row}
      /\ buffer' = buffer (+) SetToBag({row})
  BY OneMore DEF Stores, Add
<1>2. \A f \in Flusher : flusher[f].pc = "free" => flusher[f] = Free
  BY DEF Stores, Free, Called
<1>3. /\ flusher' = [f \in Flusher |-> flusher'[f]]
      /\ \A f \in Flusher : \/ flusher'[f] = flusher[f]
                            \/ f \in Slot /\ flusher[f] = Free /\ flusher'[f] = Called
  <2>1. CASE UNCHANGED flusher
    BY <2>1 DEF Stores
  <2>2. CASE \E f \in Slot : flusher[f].pc = "free" /\ flusher' = [flusher EXCEPT ![f] = Called]
    BY <1>2, <2>2 DEF Stores, Flusher
  <2> QED
    BY <2>1, <2>2 DEF Add
<1>4. \A f \in Flusher : /\ flusher'[f].batch = flusher[f].batch
                         /\ flusher'[f].landed = flusher[f].landed
  <2>1. Free.batch = Called.batch /\ Free.landed = Called.landed
    BY DEF Free, Called
  <2> QED
    BY <1>3, <2>1
<1>5. Rows' = Rows \cup {row}
  BY <1>1, <1>4 DEF Rows, Pending, Table
<1>6. \E n \in Nat : \A r \in Rows' : r.start <= n /\ r.version <= n
  <2>1. PICK n \in Nat : \A r \in Rows : r.start <= n /\ r.version <= n
    BY DEF Stores
  <2>2. /\ row.start \in Nat /\ row.version \in Nat
        /\ \A r \in Rows : r.start \in Nat /\ r.version \in Nat
    BY RowsTyped, SessionAssumption DEF Row
  <2>3. n + row.start + row.version \in Nat
    BY <2>2
  <2>4. \A r \in Rows' : /\ r.start <= n + row.start + row.version
                         /\ r.version <= n + row.start + row.version
    BY <1>5, <2>1, <2>2
  <2> QED
    BY <2>3, <2>4
<1>7. Stores'
  BY <1>1, <1>3, <1>4, <1>6 DEF Stores
<1> QED
  BY <1>1, <1>3, <1>4, <1>5, <1>7

\* The flushes move rows to the table or drop them.
LEMMA FlushFacts ==
  ASSUME Stores, NEW f \in Flusher, Flush(f) \/ (f = Worker /\ Tick)
  PROVE  /\ Stores' /\ Rows' \subseteq Rows
         /\ \A g \in Flusher : g # f => flusher'[g] = flusher[g]
<1>1. IsBagOf(flusher[f].batch, Row) /\ IsBagOf(buffer, Row) /\ IsBagOf(clickhouse, Row)
  BY DEF Stores
<1>2. \A r \in BagToSet(flusher[f].batch) \cup BagToSet(buffer) \cup Table : r \in Rows
  BY DEF Rows, Pending, Flusher
<1>3. /\ IsBagOf(clickhouse', Row)
      /\ \/ clickhouse' = clickhouse
         \/ flusher[f].pc = "write" /\ clickhouse' = clickhouse (+) flusher[f].batch
  <2>1. CASE clickhouse' = clickhouse
    BY <1>1, <2>1
  <2>2. CASE flusher[f].pc = "write" /\ clickhouse' = clickhouse (+) flusher[f].batch
    BY <1>1, <2>2, TogetherBag
  <2> QED
    BY <2>1, <2>2 DEF Flush, Tick, Take, InsertOk, InsertUnacknowledged, GiveUp, Commit
<1>4. Table' \subseteq Table \cup BagToSet(flusher[f].batch)
  <2>1. CASE clickhouse' = clickhouse
    BY <2>1 DEF Table
  <2>2. CASE clickhouse' = clickhouse (+) flusher[f].batch
    BY <1>1, <2>2, TogetherRows DEF Table
  <2> QED
    BY <1>3, <2>1, <2>2
<1>5. buffer' \in {buffer, EmptyBag}
  BY DEF Flush, Tick, Take, InsertOk, InsertUnacknowledged, GiveUp
<1>6. PICK v : /\ flusher' = [flusher EXCEPT ![f] = v]
               /\ \/ v \in {Free, Called}
                  \/ v.pc = "write" /\ v.landed \in BOOLEAN
               /\ v.batch \in {EmptyBag, buffer, flusher[f].batch}
  <2>1. Free.batch = EmptyBag /\ Called.batch = EmptyBag
    BY DEF Free, Called
  <2>2. CASE Take(f)
    <3>1. PICK u : u = [pc |-> "write", batch |-> buffer, landed |-> FALSE]
      OBVIOUS
    <3>2. flusher' = [flusher EXCEPT ![f] = IF buffer = EmptyBag THEN Free ELSE u]
      BY <2>2, <3>1 DEF Take
    <3>3. u.pc = "write" /\ u.landed \in BOOLEAN /\ u.batch = buffer
      BY <3>1
    <3>4. CASE buffer = EmptyBag
      BY <2>1, <3>2, <3>4
    <3>5. CASE buffer # EmptyBag
      BY <3>2, <3>3, <3>5
    <3> QED
      BY <3>4, <3>5
  <2>3. CASE InsertOk(f) \/ GiveUp(f)
    BY <2>1, <2>3 DEF InsertOk, GiveUp
  <2>4. CASE InsertUnacknowledged(f)
    <3>1. PICK v : v = [pc |-> "write", batch |-> flusher[f].batch, landed |-> TRUE]
      OBVIOUS
    <3>2. flusher' = [flusher EXCEPT ![f] = v]
      BY <2>4, <3>1 DEF InsertUnacknowledged
    <3>3. v.pc = "write" /\ v.landed \in BOOLEAN /\ v.batch = flusher[f].batch
      BY <3>1
    <3> QED
      BY <3>2, <3>3
  <2>5. CASE f = Worker /\ Tick
    BY <2>1, <2>5 DEF Tick
  <2> QED
    BY <2>2, <2>3, <2>4, <2>5 DEF Flush
<1>7. /\ flusher' = [g \in Flusher |-> flusher'[g]]
      /\ \A g \in Flusher : g # f => flusher'[g] = flusher[g]
      /\ flusher'[f] = v
  BY <1>6 DEF Stores
<1>8. IsBagOf(buffer', Row) /\ IsBagOf(v.batch, Row)
  BY <1>1, <1>5, <1>6, NoRows
<1>9. \A g \in Flusher : /\ IsBagOf(flusher'[g].batch, Row)
                         /\ \/ flusher'[g] \in {Free, Called}
                            \/ flusher'[g].pc = "write" /\ flusher'[g].landed \in BOOLEAN
  BY <1>6, <1>7, <1>8 DEF Stores
<1>10. Rows' \subseteq Rows
  <2>1. BagToSet(buffer') \subseteq Rows /\ BagToSet(v.batch) \subseteq Rows
    BY <1>2, <1>5, <1>6, NoRows
  <2>2. \A g \in Flusher : BagToSet(flusher'[g].batch) \subseteq Rows
    BY <1>7, <2>1 DEF Rows, Pending
  <2>3. Table' \subseteq Rows
    BY <1>2, <1>4
  <2> QED
    BY <2>1, <2>2, <2>3 DEF Rows, Pending
<1>11. \E n \in Nat : \A r \in Rows' : r.start <= n /\ r.version <= n
  BY <1>10 DEF Stores
<1> QED
  BY <1>3, <1>7, <1>8, <1>9, <1>10, <1>11 DEF Stores

LEMMA FoundTyped ==
  ASSUME TypeInv
  PROVE  /\ \A t : FindPendingAt(t) \subseteq {r \in Rows : r.sign = 1 /\ Contains(r, t)}
         /\ \A t : GetActiveSessionAt(t) \subseteq {r \in Rows : r.sign = 1 /\ Contains(r, t)}
BY DEF FindPendingAt, GetActiveSessionAt, Collapsed, Rows, Table

\* The steps of the task, other than Add.
LEMMA LookUpTypes ==
  ASSUME TypeInv,
         \/ \E t \in Time, n \in Name : OnEvent(t, n)
         \/ LookUpPending \/ LookUpClickHouse \/ LookUpFails \/ Evict
  PROVE  Handling'
<1>1. /\ cache' \in {cache, None}
      /\ UNCHANGED <<version, attributed>>
  BY DEF OnEvent, LookUpPending, LookUpClickHouse, LookUpFails, Evict
<1>2. ASSUME NEW p \in {"tombstone"}, NEW e \in Event, NEW s \in Row, s.sign = 1, Goto(p, e, s)
      PROVE  Handling'
  BY <1>1, <1>2 DEF TypeInv, Handling, Goto
<1>3. ASSUME NEW p \in {"pending", "query", "create"}, NEW e \in Event, Goto(p, e, None)
      PROVE  Handling'
  BY <1>1, <1>3 DEF TypeInv, Handling, Goto
<1>4. CASE task' = Idle
  BY <1>1, <1>4 DEF TypeInv, Handling, Idle
<1>5. CASE UNCHANGED task
  BY <1>1, <1>5 DEF TypeInv, Handling
<1>6. ASSUME NEW t \in Time, NEW n \in Name, OnEvent(t, n)
      PROVE  Handling'
  <2>1. [time |-> t, name |-> n] \in Event
    BY DEF Event
  <2>2. Contains(cache, t) => cache \in Row /\ cache.sign = 1
    BY DEF Contains, TypeInv, Handling
  <2> QED
    BY <1>2, <1>3, <1>6, <2>1, <2>2 DEF OnEvent
<1>7. ASSUME NEW rows \in SUBSET Rows, rows # {}, \A r \in rows : r.sign = 1
      PROVE  Newest(rows) \in Row /\ Newest(rows).sign = 1
  BY <1>7, NewestIsOne, RowsTyped DEF TypeInv
<1>8. CASE LookUpPending
  <2>1. task.event \in Event
    BY <1>8 DEF LookUpPending, TypeInv, Handling
  <2>2. /\ FindPendingAt(task.event.time) \in SUBSET Rows
        /\ \A r \in FindPendingAt(task.event.time) : r.sign = 1
    BY FoundTyped
  <2> QED
    BY <1>2, <1>3, <1>7, <1>8, <2>1, <2>2 DEF LookUpPending
<1>9. CASE LookUpClickHouse
  <2>1. task.event \in Event
    BY <1>9 DEF LookUpClickHouse, TypeInv, Handling
  <2>2. /\ GetActiveSessionAt(task.event.time) \in SUBSET Rows
        /\ \A r \in GetActiveSessionAt(task.event.time) : r.sign = 1
    BY FoundTyped
  <2> QED
    BY <1>2, <1>3, <1>4, <1>7, <1>9, <2>1, <2>2 DEF LookUpClickHouse
<1> QED
  BY <1>4, <1>5, <1>6, <1>8, <1>9 DEF LookUpFails, Evict

\* A session that is started or continued.
LEMMA SessionTyped ==
  ASSUME TypeInv, task.event \in Event
  PROVE  /\ NewSession(task.event) \in Row /\ NewSession(task.event).sign = 1
         /\ task.found \in Row /\ task.found.sign = 1 =>
              /\ Tombstone(task.found) \in Row
              /\ Updated(task.found, task.event) \in Row
              /\ Updated(task.found, task.event).sign = 1
<1>1. /\ task.event.time \in Time /\ task.event.time \in Nat /\ task.event.name \in Name
      /\ version \in Nat
  BY SessionAssumption DEF Event, TypeInv, Handling
<1>2. NewSession(task.event) \in Row /\ NewSession(task.event).sign = 1
  BY <1>1 DEF NewSession, Row
<1>3. ASSUME task.found \in Row, task.found.sign = 1
      PROVE  Tombstone(task.found) \in Row
  BY <1>3 DEF Tombstone, Row
<1>4. ASSUME task.found \in Row, task.found.sign = 1
      PROVE  /\ Updated(task.found, task.event) \in Row
             /\ Updated(task.found, task.event).sign = 1
  BY <1>1, <1>4 DEF Updated, Row
<1> QED
  BY <1>2, <1>3, <1>4

\* The end of an event.
LEMMA FinishTypes ==
  ASSUME TypeInv, task.event \in Event, NEW s \in Row, s.sign = 1, Finish(s)
  PROVE  TypeInv'
<1>1. Stores'
  BY AddFacts DEF Finish, TypeInv
<1>2. cache' \in {cache, s} /\ version' = version + 1 /\ task' = Idle
  BY DEF Finish, UpdateCache
<1>3. /\ attributed' \subseteq [session : Nat, number : Nat, time : Time, name : Name]
      /\ IsFiniteSet(attributed')
  <2>1. PICK e : /\ e = [session |-> s.session, number |-> version + 1,
                         time |-> task.event.time, name |-> task.event.name]
                 /\ attributed' = attributed \cup {e}
    BY DEF Finish
  <2>2. e \in [session : Nat, number : Nat, time : Time, name : Name]
    BY <2>1 DEF Event, Row, TypeInv, Handling
  <2> QED
    BY <2>1, <2>2, FS_AddElement DEF TypeInv, Handling
<1>4. Handling'
  BY <1>2, <1>3 DEF TypeInv, Handling, Idle
<1> QED
  BY <1>1, <1>4 DEF TypeInv

LEMMA StepTypeInv == TypeInv /\ [Next]_vars => TypeInv'
<1> SUFFICES ASSUME TypeInv, [Next]_vars PROVE TypeInv'
  OBVIOUS
<1>1. CASE \/ \E t \in Time, n \in Name : OnEvent(t, n)
           \/ LookUpPending \/ LookUpClickHouse \/ LookUpFails \/ Evict
  <2>1. UNCHANGED <<buffer, flusher, clickhouse>>
    BY <1>1 DEF OnEvent, LookUpPending, LookUpClickHouse, LookUpFails, Evict
  <2>2. Stores'
    BY <2>1 DEF TypeInv, Stores, Rows, Pending, Table
  <2> QED
    BY <1>1, <2>2, LookUpTypes DEF TypeInv
<1>2. CASE Create
  BY <1>2, SessionTyped, FinishTypes DEF Create, TypeInv, Handling
<1>3. CASE AddTombstone
  <2>1. task.event \in Event /\ task.found \in Row /\ task.found.sign = 1
    BY <1>3 DEF AddTombstone, TypeInv, Handling
  <2>2. Stores'
    BY <1>3, <2>1, SessionTyped, AddFacts DEF AddTombstone, TypeInv
  <2>3. Handling'
    BY <1>3, <2>1 DEF AddTombstone, Goto, TypeInv, Handling
  <2> QED
    BY <2>2, <2>3 DEF TypeInv
<1>4. CASE AddUpdated
  BY <1>4, SessionTyped, FinishTypes DEF AddUpdated, TypeInv, Handling
<1>5. ASSUME NEW f \in Flusher, Flush(f) \/ (f = Worker /\ Tick) PROVE TypeInv'
  <2>1. UNCHANGED <<cache, version, task, attributed>>
    BY <1>5 DEF Flush, Tick, Take, InsertOk, InsertUnacknowledged, GiveUp
  <2> QED
    BY <1>5, <2>1, FlushFacts DEF TypeInv, Handling
<1>6. CASE UNCHANGED vars
  BY <1>6 DEF vars, TypeInv, Stores, Handling, Rows, Pending, Table
<1> QED
  BY <1>1, <1>2, <1>3, <1>4, <1>5, <1>6 DEF Next, HandleEvent, Flusher

LEMMA TypesInvariant == Spec => []TypeInv
BY InitTypeInv, StepTypeInv, PTL DEF Spec

\* The types, for any number of goroutines that flush in any order; what was found or
\* is cached is a version of a session, never a tombstone.
THEOREM TypeCorrect == Spec => []TypeOK
BY TypeInvOK, TypesInvariant, PTL

-----------------------------------------------------------------------------
(* The invariant.  The versions of a session form a chain in which each has  *)
(* its tombstone but the last, and each row was written once.  Flushes that  *)
(* overtake each other leave that alone: it takes a lookup that returns an   *)
(* older version to break it.                                                *)

Buffer == BagToSet(buffer)

Held(f) == BagToSet(flusher[f].batch)

Intact(r) == r.session \notin damaged

\* The version that a tombstone cancels.
State(r) == [r EXCEPT !.sign = 1]

Current(r) ==
  /\ r \in Rows /\ r.sign = 1 /\ Intact(r)
  /\ \A q \in Rows : q.session = r.session => q.version <= r.version

\* A row is in the buffer, in one batch, or in the table; a batch that has been
\* committed is in both until its insert is acknowledged.
OnePlace(r) ==
  /\ Copies(r, buffer) <= 1 /\ Copies(r, clickhouse) <= 1
  /\ r \in Buffer => r \notin Table
  /\ \A f \in Flusher : /\ Copies(r, flusher[f].batch) <= 1
                        /\ r \in Held(f) => /\ r \notin Buffer
                                            /\ r \in Table <=> flusher[f].landed
  /\ \A f, g \in Flusher : r \in Held(f) /\ r \in Held(g) => f = g

Placed == \A r \in Rows : Intact(r) => OnePlace(r)

\* The counter is ahead of every version, and gave each of them to one row.
Numbered ==
  /\ \A r \in Rows : r.version <= version /\ r.session <= version
  /\ \A p, q \in Rows : p.sign = 1 /\ q.sign = 1 /\ p.version = q.version => p = q
  /\ \A e \in attributed : e.number <= version /\ e.session <= version

\* A session is a chain: every version but the last has its tombstone, versions
\* start at one time and never end earlier.
Chained ==
  /\ \A r \in Rows : Intact(r) => State(r) \in Rows /\ r.session \in Sessions
  /\ \A r \in Rows : r.sign = 1 /\ Intact(r) =>
       (Tombstone(r) \in Rows <=> ~Current(r) \/ (task.pc = "update" /\ task.found = r))
  /\ \A p, q \in Rows : Intact(p) /\ p.session = q.session /\ p.version <= q.version =>
       p.start = q.start /\ p.timestamp <= q.timestamp
  /\ \A s \in Sessions : \E r \in Rows : r.session = s /\ Current(r)

\* What the cache or a lookup returned.
Known(s) == s.version <= version /\ s.session <= version /\ (Intact(s) => Current(s))

\* What was not found in memory is not there.
Looked ==
  /\ cache # None => Known(cache)
  /\ task.pc \in {"tombstone", "update"} =>
       Known(task.found) /\ Contains(task.found, task.event.time)
  /\ task.pc = "query" => \A r \in Pending : Current(r) => ~Contains(r, task.event.time)
  /\ task.pc = "create" => task.event.name # "engagement"

EventsOf(s) == {e \in attributed : e.session = s}

Count(s, names) == Cardinality({e \in EventsOf(s) : e.name \in names})

Accounts(r) ==
  /\ r.events = Count(r.session, Name)
  /\ r.pageviews = Count(r.session, {"pageview"})
  /\ \A e \in EventsOf(r.session) : r.start <= e.time /\ e.time <= r.timestamp
  /\ \E e \in EventsOf(r.session) : e.time = r.start
  /\ \E e \in EventsOf(r.session) : e.time = r.timestamp
  /\ r.bounce <=> (r.pageviews <= 1 /\ Count(r.session, {"goal"}) = 0)

Accounted == \A r \in Rows : Current(r) => Accounts(r)

SessionInv == Placed /\ Numbered /\ Chained /\ Looked /\ Accounted

Inv == TypeInv /\ SessionInv

\* What the lookup under way has to choose from.
Found ==
  CASE task.pc = "pending" -> FindPendingAt(task.event.time)
    [] task.pc = "query"   -> GetActiveSessionAt(task.event.time)
    [] OTHER               -> {}

\* The lookup under way does not return a version that has been superseded.
FindsCurrent == Found # {} /\ Intact(Newest(Found)) => Current(Newest(Found))

LEMMA RowFacts ==
  ASSUME NEW r \in Row
  PROVE  /\ r.session \in Nat /\ r.version \in Nat /\ r.sign \in {-1, 1}
         /\ r.start \in Nat /\ r.timestamp \in Nat /\ r.start \in Time
BY SessionAssumption DEF Row

\* A version and its tombstone.
LEMMA TombstoneFacts ==
  ASSUME NEW r \in Row
  PROVE  /\ Tombstone(r) \in Row /\ Tombstone(r).sign = -1
         /\ Tombstone(r).session = r.session /\ Tombstone(r).version = r.version
         /\ Tombstone(r).start = r.start /\ Tombstone(r).timestamp = r.timestamp
         /\ State(r) \in Row /\ State(r).sign = 1
         /\ State(r).session = r.session /\ State(r).version = r.version
         /\ State(r).start = r.start /\ State(r).timestamp = r.timestamp
         /\ State(Tombstone(r)) = State(r)
         /\ r.sign = 1 => State(r) = r
         /\ r.sign = -1 => Tombstone(State(r)) = r
BY DEF Tombstone, State, Row

\* The rows as the invariant sees them.
LEMMA RowsOf ==
  ASSUME TypeInv
  PROVE  /\ \A r \in Rows : r \in Row /\ Tombstone(r) \in Row /\ State(r) \in Row
         /\ \A r \in Rows : /\ r.session \in Nat /\ r.version \in Nat /\ r.sign \in {-1, 1}
                            /\ r.start \in Nat /\ r.timestamp \in Nat
         /\ \A r : Current(r) => r \in Rows /\ r.sign = 1 /\ Intact(r)
<1>1. Rows \subseteq Row
  BY RowsTyped DEF TypeInv
<1> QED
  BY <1>1, RowFacts, TombstoneFacts DEF Current

\* The places of a row.
LEMMA PlacesOf ==
  ASSUME TypeInv
  PROVE  /\ \A r : r \in Rows <=> r \in Buffer \/ r \in Table \/ \E f \in Flusher : r \in Held(f)
         /\ \A r : r \in Pending <=> r \in Buffer \/ \E f \in Flusher : r \in Held(f)
         /\ \A r : Copies(r, buffer) \in Nat /\ (r \in Buffer <=> Copies(r, buffer) > 0)
         /\ \A r : Copies(r, clickhouse) \in Nat /\ (r \in Table <=> Copies(r, clickhouse) > 0)
         /\ \A r : \A f \in Flusher : /\ Copies(r, flusher[f].batch) \in Nat
                                      /\ r \in Held(f) <=> Copies(r, flusher[f].batch) > 0
<1>1. /\ IsBagOf(buffer, Row) /\ IsBagOf(clickhouse, Row)
      /\ \A f \in Flusher : IsBagOf(flusher[f].batch, Row)
  BY DEF TypeInv, Stores
<1>2. \A r : Copies(r, buffer) \in Nat /\ (r \in Buffer <=> Copies(r, buffer) > 0)
  BY <1>1, CopiesCount DEF Buffer
<1>3. \A r : Copies(r, clickhouse) \in Nat /\ (r \in Table <=> Copies(r, clickhouse) > 0)
  BY <1>1, CopiesCount DEF Table
<1>4. \A r : \A f \in Flusher : /\ Copies(r, flusher[f].batch) \in Nat
                                /\ r \in Held(f) <=> Copies(r, flusher[f].batch) > 0
  BY <1>1, CopiesCount DEF Held
<1> QED
  BY <1>2, <1>3, <1>4 DEF Rows, Pending, Buffer, Held

LEMMA InitInv == Init => Inv
<1> SUFFICES ASSUME Init PROVE Inv
  OBVIOUS
<1>1. TypeInv
  BY InitTypeInv
<1>2. Rows = {}
  BY NoRows DEF Init, Rows, Pending, Table, Free
<1>3. attributed = {} /\ cache = None /\ task.pc = "idle"
  BY DEF Init, Idle
<1>4. Placed /\ Numbered /\ Accounted
  BY <1>2, <1>3 DEF Placed, Numbered, Accounted
<1>5. Sessions = {}
  BY <1>3 DEF Sessions
<1>6. Chained /\ Looked
  BY <1>2, <1>3, <1>5 DEF Chained, Looked
<1> QED
  BY <1>1, <1>4, <1>6 DEF Inv, SessionInv

\* A step that adds no row and drops rows of damaged sessions only.
LEMMA Moved ==
  ASSUME TypeInv, SessionInv, Rows' \subseteq Rows, damaged \subseteq damaged',
         \A r \in Rows : Intact(r)' => r \in Rows', Pending' \subseteq Pending,
         UNCHANGED <<cache, version, task, attributed>>
  PROVE  (Numbered /\ Chained /\ Looked /\ Accounted)'
<1>1. \A r : Intact(r)' => Intact(r)
  BY DEF Intact
<1>2. \A r, q : r.session = q.session => (Intact(r)' <=> Intact(q)')
  BY DEF Intact
<1>3. \A r : Current(r)' <=> Current(r) /\ Intact(r)'
  BY <1>1, <1>2 DEF Current
<1>4. \A r \in Rows : /\ State(r).session = r.session
                      /\ Tombstone(r).session = r.session
  BY RowsOf, TombstoneFacts
<1>5. Numbered'
  BY DEF SessionInv, Numbered
<1>6. Sessions' = Sessions \ damaged'
  BY DEF Sessions
<1>7. ASSUME NEW r \in Rows', Intact(r)' PROVE State(r) \in Rows' /\ r.session \in Sessions'
  <2>1. State(r) \in Rows /\ r.session \in Sessions
    BY <1>1, <1>7 DEF SessionInv, Chained
  <2> QED
    BY <1>2, <1>4, <1>6, <1>7, <2>1 DEF Intact
<1>8. ASSUME NEW r \in Rows', r.sign = 1, Intact(r)'
      PROVE  Tombstone(r) \in Rows' <=> ~Current(r)' \/ (task'.pc = "update" /\ task'.found = r)
  <2>1. Tombstone(r) \in Rows <=> ~Current(r) \/ (task.pc = "update" /\ task.found = r)
    BY <1>1, <1>8 DEF SessionInv, Chained
  <2>2. Tombstone(r) \in Rows' <=> Tombstone(r) \in Rows
    BY <1>2, <1>4, <1>8
  <2> QED
    BY <1>3, <1>8, <2>1, <2>2
<1>9. ASSUME NEW p \in Rows', NEW q \in Rows', Intact(p)', p.session = q.session,
             p.version <= q.version
      PROVE  p.start = q.start /\ p.timestamp <= q.timestamp
  BY <1>1, <1>9 DEF SessionInv, Chained
<1>10. ASSUME NEW s \in Sessions' PROVE \E r \in Rows' : r.session = s /\ Current(r)'
  <2>1. PICK r \in Rows : r.session = s /\ Current(r)
    BY <1>6 DEF SessionInv, Chained
  <2>2. Intact(r)'
    BY <1>6, <2>1 DEF Intact
  <2> QED
    BY <1>3, <2>1, <2>2
<1>11. Chained'
  BY <1>7, <1>8, <1>9, <1>10 DEF Chained, Tombstone, State
<1>12. \A s : Known(s) => Known(s)'
  BY <1>1, <1>3 DEF Known
<1>13. Looked'
  BY <1>3, <1>12 DEF SessionInv, Looked, Contains
<1>14. \A r : Accounts(r) => Accounts(r)'
  BY DEF Accounts, Count, EventsOf
<1>15. Accounted'
  BY <1>3, <1>14 DEF SessionInv, Accounted
<1> QED
  BY <1>5, <1>11, <1>13, <1>15

\* A flush cuts the buffer into a batch, or moves a batch to the table, or drops it.
LEMMA FlusherMoves ==
  ASSUME TypeInv, NEW f \in Flusher, Flush(f) \/ (f = Worker /\ Tick)
  PROVE  /\ \A g \in Flusher : g # f => flusher'[g] = flusher[g]
         /\ \/ /\ UNCHANGED <<buffer, clickhouse, damaged>>
               /\ flusher'[f].batch = flusher[f].batch /\ flusher'[f].landed = flusher[f].landed
            \/ /\ flusher[f].batch = EmptyBag /\ UNCHANGED <<clickhouse, damaged>>
               /\ buffer' = EmptyBag /\ flusher'[f].batch = buffer /\ ~flusher'[f].landed
            \/ /\ UNCHANGED <<buffer, clickhouse, damaged>>
               /\ flusher[f].landed /\ flusher'[f].batch = EmptyBag /\ ~flusher'[f].landed
            \/ /\ UNCHANGED <<buffer, damaged>> /\ clickhouse' = clickhouse (+) flusher[f].batch
               /\ ~flusher[f].landed /\ flusher'[f].batch = EmptyBag /\ ~flusher'[f].landed
            \/ /\ UNCHANGED <<buffer, damaged>> /\ clickhouse' = clickhouse (+) flusher[f].batch
               /\ ~flusher[f].landed
               /\ flusher'[f].batch = flusher[f].batch /\ flusher'[f].landed
            \/ /\ UNCHANGED <<buffer, clickhouse>>
               /\ damaged' = damaged \cup {r.session : r \in Held(f)}
               /\ flusher'[f].batch = EmptyBag /\ ~flusher'[f].landed
<1>1. /\ Free.batch = EmptyBag /\ Free.landed = FALSE /\ Free.pc = "free"
      /\ Called.batch = EmptyBag /\ Called.landed = FALSE /\ Called.pc = "take"
  BY DEF Free, Called
<1>2. flusher = [g \in Flusher |-> flusher[g]]
  BY DEF TypeInv, Stores
<1>3. flusher[f] \in {Free, Called} \/ flusher[f].pc = "write"
  BY DEF TypeInv, Stores
<1>4. ASSUME NEW v, flusher' = [flusher EXCEPT ![f] = v]
      PROVE  flusher'[f] = v /\ \A g \in Flusher : g # f => flusher'[g] = flusher[g]
  BY <1>2, <1>4
<1>5. CASE f = Worker /\ Tick
  <2>1. flusher' = [flusher EXCEPT ![f] = Called] /\ flusher[f] = Free
    BY <1>1, <1>3, <1>5 DEF Tick
  <2>2. flusher'[f] = Called /\ \A g \in Flusher : g # f => flusher'[g] = flusher[g]
    BY <1>4, <2>1
  <2> QED
    BY <1>1, <1>5, <2>1, <2>2 DEF Tick
<1>6. CASE Take(f)
  <2>1. flusher[f].batch = EmptyBag
    BY <1>1, <1>3, <1>6 DEF Take
  <2>2. PICK u : u = [pc |-> "write", batch |-> buffer, landed |-> FALSE]
    OBVIOUS
  <2>3. PICK v : v = IF buffer = EmptyBag THEN Free ELSE u
    OBVIOUS
  <2>4. flusher' = [flusher EXCEPT ![f] = v]
    BY <1>6, <2>2, <2>3 DEF Take
  <2>5. v.batch = buffer /\ ~v.landed
    BY <1>1, <2>2, <2>3
  <2>6. flusher'[f] = v /\ \A g \in Flusher : g # f => flusher'[g] = flusher[g]
    BY <1>4, <2>4
  <2> QED
    BY <1>6, <2>1, <2>5, <2>6 DEF Take
<1>7. CASE InsertOk(f)
  <2>1. flusher'[f] = Free /\ \A g \in Flusher : g # f => flusher'[g] = flusher[g]
    BY <1>4, <1>7 DEF InsertOk
  <2> QED
    BY <1>1, <1>7, <2>1 DEF InsertOk, Commit
<1>8. CASE InsertUnacknowledged(f)
  <2>1. PICK u : u = [pc |-> "write", batch |-> flusher[f].batch, landed |-> TRUE]
    OBVIOUS
  <2>2. flusher'[f] = u /\ \A g \in Flusher : g # f => flusher'[g] = flusher[g]
    BY <1>4, <1>8, <2>1 DEF InsertUnacknowledged
  <2>3. u.batch = flusher[f].batch /\ u.landed
    BY <2>1
  <2> QED
    BY <1>8, <2>2, <2>3 DEF InsertUnacknowledged, Commit
<1>9. CASE GiveUp(f)
  <2>1. flusher'[f] = Free /\ \A g \in Flusher : g # f => flusher'[g] = flusher[g]
    BY <1>4, <1>9 DEF GiveUp
  <2> QED
    BY <1>1, <1>9, <2>1 DEF GiveUp, Held
<1> QED
  BY <1>5, <1>6, <1>7, <1>8, <1>9 DEF Flush

\* A flush of another goroutine does not touch a batch; none writes a row twice.
LEMMA FlushKeepsPlaces ==
  ASSUME TypeInv, SessionInv, TypeInv', NEW f \in Flusher, Flush(f) \/ (f = Worker /\ Tick)
  PROVE  /\ Placed' /\ damaged \subseteq damaged'
         /\ \A r \in Rows : Intact(r)' => r \in Rows'
         /\ Pending' \subseteq Pending /\ Rows' \subseteq Rows
<1> DEFINE batch == flusher[f].batch
           batchNext == flusher'[f].batch
<1>1. /\ \A r : r \in Rows <=> r \in Buffer \/ r \in Table \/ \E g \in Flusher : r \in Held(g)
      /\ \A r : r \in Pending <=> r \in Buffer \/ \E g \in Flusher : r \in Held(g)
      /\ \A r : Copies(r, buffer) \in Nat /\ (r \in Buffer <=> Copies(r, buffer) > 0)
      /\ \A r : Copies(r, clickhouse) \in Nat /\ (r \in Table <=> Copies(r, clickhouse) > 0)
  BY PlacesOf
<1>2. \A r : Copies(r, batch) \in Nat /\ (r \in Held(f) <=> Copies(r, batch) > 0)
  BY PlacesOf
<1>3. /\ \A r : r \in Rows' <=> r \in Buffer' \/ r \in Table' \/ \E g \in Flusher : r \in Held(g)'
      /\ \A r : r \in Pending' <=> r \in Buffer' \/ \E g \in Flusher : r \in Held(g)'
  BY DEF Rows, Pending, Buffer, Held
<1>4. /\ Buffer' = BagToSet(buffer') /\ Table' = BagToSet(clickhouse')
      /\ Held(f)' = BagToSet(batchNext)
      /\ Buffer = BagToSet(buffer) /\ Table = BagToSet(clickhouse) /\ Held(f) = BagToSet(batch)
  BY DEF Buffer, Table, Held
<1>5. BagToSet(EmptyBag) = {} /\ \A r : Copies(r, EmptyBag) = 0
  BY NoRows
<1>6. /\ BagToSet(clickhouse (+) batch) = Table \cup Held(f)
      /\ \A r : Copies(r, clickhouse (+) batch) = Copies(r, clickhouse) + Copies(r, batch)
  <2>1. IsBagOf(clickhouse, Row) /\ IsBagOf(batch, Row)
    BY DEF TypeInv, Stores
  <2> HIDE DEF batch
  <2>2. BagToSet(clickhouse (+) batch) = BagToSet(clickhouse) \cup BagToSet(batch)
    BY <2>1, TogetherRows
  <2>3. \A r : Copies(r, clickhouse (+) batch) = Copies(r, clickhouse) + Copies(r, batch)
    BY <2>1, TogetherAt
  <2> QED
    BY <1>4, <2>2, <2>3
<1>7. \A g \in Flusher : g # f => flusher'[g] = flusher[g]
  BY FlusherMoves
<1>8. \A g \in Flusher : g # f => /\ Held(g)' = Held(g) /\ flusher'[g].batch = flusher[g].batch
                                  /\ flusher'[g].landed = flusher[g].landed
  BY <1>7 DEF Held
<1>9. ASSUME NEW r \in Rows, Intact(r)
      PROVE  /\ Copies(r, buffer) <= 1 /\ Copies(r, clickhouse) <= 1
             /\ r \in Buffer => r \notin Table
             /\ \A g \in Flusher : /\ Copies(r, flusher[g].batch) <= 1
                                   /\ r \in Held(g) => /\ r \notin Buffer
                                                       /\ r \in Table <=> flusher[g].landed
             /\ \A g, h \in Flusher : r \in Held(g) /\ r \in Held(h) => g = h
  BY <1>9 DEF SessionInv, Placed, OnePlace
<1>10. ASSUME NEW r \in Rows, Intact(r), ~flusher[f].landed
       PROVE  Copies(r, clickhouse (+) batch) <= 1
  BY <1>1, <1>2, <1>6, <1>9, <1>10
<1>11. damaged \subseteq damaged'
  BY FlusherMoves
<1>12. Pending' \subseteq Pending /\ Rows' \subseteq Rows
  <2>1. \A r \in Held(f)' : r \in Held(f) \/ r \in Buffer
    BY <1>4, <1>5, FlusherMoves
  <2>2. \A r \in Buffer' : r \in Buffer
    BY <1>4, <1>5, FlusherMoves
  <2>3. \A r \in Table' : r \in Table \/ r \in Held(f)
    BY <1>4, <1>6, FlusherMoves
  <2> QED
    BY <1>1, <1>3, <1>8, <2>1, <2>2, <2>3
<1>13. ASSUME NEW r \in Rows, Intact(r)'
       PROVE  r \in Rows' /\ OnePlace(r)'
  <2>1. r.session \notin damaged' /\ Intact(r)
    BY <1>11, <1>13 DEF Intact
  <2>2. SUFFICES /\ r \in Buffer' \/ r \in Table' \/ \E g \in Flusher : r \in Held(g)'
                 /\ Copies(r, buffer') <= 1 /\ Copies(r, clickhouse') <= 1
                 /\ r \in Buffer' => r \notin Table'
                 /\ \A g \in Flusher :
                      /\ Copies(r, flusher'[g].batch) <= 1
                      /\ r \in Held(g)' => r \notin Buffer' /\ (r \in Table' <=> flusher'[g].landed)
                 /\ \A g, h \in Flusher : r \in Held(g)' /\ r \in Held(h)' => g = h
    BY <1>3 DEF OnePlace, Copies
  <2>3. /\ r \in Buffer \/ r \in Table \/ \E g \in Flusher : r \in Held(g)
        /\ Copies(r, buffer) <= 1 /\ Copies(r, clickhouse) <= 1
        /\ r \in Buffer => r \notin Table
        /\ \A g \in Flusher : /\ Copies(r, flusher[g].batch) <= 1
                              /\ r \in Held(g) => /\ r \notin Buffer
                                                  /\ r \in Table <=> flusher[g].landed
        /\ \A g, h \in Flusher : r \in Held(g) /\ r \in Held(h) => g = h
    BY <1>1, <1>9, <2>1
  <2>4. CASE /\ UNCHANGED <<buffer, clickhouse, damaged>>
             /\ batchNext = batch /\ flusher'[f].landed = flusher[f].landed
    BY <1>4, <1>8, <2>3, <2>4
  <2>5. CASE /\ batch = EmptyBag /\ UNCHANGED <<clickhouse, damaged>>
             /\ buffer' = EmptyBag /\ batchNext = buffer /\ ~flusher'[f].landed
    <3>1. Buffer' = {} /\ Held(f)' = Buffer /\ Table' = Table /\ Held(f) = {}
      BY <1>4, <1>5, <2>5
    <3>2. Copies(r, buffer') <= 1 /\ Copies(r, clickhouse') <= 1 /\ Copies(r, batchNext) <= 1
      BY <1>5, <2>3, <2>5
    <3> QED
      BY <1>8, <2>3, <2>5, <3>1, <3>2
  <2>6. CASE /\ UNCHANGED <<buffer, clickhouse, damaged>>
             /\ flusher[f].landed /\ batchNext = EmptyBag /\ ~flusher'[f].landed
    <3>1. Buffer' = Buffer /\ Held(f)' = {} /\ Table' = Table
      BY <1>4, <1>5, <2>6
    <3>2. Copies(r, buffer') <= 1 /\ Copies(r, clickhouse') <= 1 /\ Copies(r, batchNext) <= 1
      BY <1>5, <2>3, <2>6
    <3> QED
      BY <1>8, <2>3, <2>6, <3>1, <3>2
  <2>7. CASE /\ UNCHANGED <<buffer, damaged>> /\ clickhouse' = clickhouse (+) batch
             /\ ~flusher[f].landed /\ batchNext = EmptyBag /\ ~flusher'[f].landed
    <3>1. Buffer' = Buffer /\ Held(f)' = {} /\ Table' = Table \cup Held(f)
      BY <1>4, <1>5, <1>6, <2>7
    <3>2. Copies(r, buffer') <= 1 /\ Copies(r, clickhouse') <= 1 /\ Copies(r, batchNext) <= 1
      BY <1>5, <1>10, <2>1, <2>3, <2>7
    <3> QED
      BY <1>8, <2>3, <2>7, <3>1, <3>2
  <2>8. CASE /\ UNCHANGED <<buffer, damaged>> /\ clickhouse' = clickhouse (+) batch
             /\ ~flusher[f].landed /\ batchNext = batch /\ flusher'[f].landed
    <3>1. Buffer' = Buffer /\ Held(f)' = Held(f) /\ Table' = Table \cup Held(f)
      BY <1>4, <1>6, <2>8
    <3>2. Copies(r, buffer') <= 1 /\ Copies(r, clickhouse') <= 1 /\ Copies(r, batchNext) <= 1
      BY <1>10, <2>1, <2>3, <2>8
    <3> QED
      BY <1>8, <2>3, <2>8, <3>1, <3>2
  <2>9. CASE /\ UNCHANGED <<buffer, clickhouse>>
             /\ damaged' = damaged \cup {p.session : p \in Held(f)}
             /\ batchNext = EmptyBag /\ ~flusher'[f].landed
    <3>1. Buffer' = Buffer /\ Held(f)' = {} /\ Table' = Table /\ r \notin Held(f)
      BY <1>4, <1>5, <2>1, <2>9
    <3>2. Copies(r, buffer') <= 1 /\ Copies(r, clickhouse') <= 1 /\ Copies(r, batchNext) <= 1
      BY <1>5, <2>3, <2>9
    <3> QED
      BY <1>8, <2>3, <2>9, <3>1, <3>2
  <2> QED
    BY <2>4, <2>5, <2>6, <2>7, <2>8, <2>9, FlusherMoves
<1>14. Placed'
  BY <1>12, <1>13 DEF Placed
<1> QED
  BY <1>11, <1>12, <1>13, <1>14

LEMMA FlushStep ==
  ASSUME TypeInv, SessionInv, TypeInv', NEW f \in Flusher, Flush(f) \/ (f = Worker /\ Tick)
  PROVE  SessionInv'
<1>1. UNCHANGED <<cache, version, task, attributed>>
  BY DEF Flush, Tick, Take, InsertOk, InsertUnacknowledged, GiveUp
<1> QED
  BY <1>1, FlushKeepsPlaces, Moved DEF SessionInv

\* A row that is new is added once.
LEMMA AddKeepsPlaces ==
  ASSUME TypeInv, SessionInv, NEW row \in Row, Add(row), UNCHANGED <<clickhouse, damaged>>,
         Intact(row) => row \notin Rows
  PROVE  /\ Placed' /\ Rows' = Rows \cup {row}
         /\ \A r : Intact(r)' <=> Intact(r)
<1>1. /\ Rows' = Rows \cup {row} /\ buffer' = buffer (+) SetToBag({row})
      /\ \A f \in Flusher : /\ flusher'[f].batch = flusher[f].batch
                            /\ flusher'[f].landed = flusher[f].landed
  BY AddFacts DEF TypeInv
<1>2. IsBagOf(buffer, Row)
  BY DEF TypeInv, Stores
<1>3. Buffer' = Buffer \cup {row}
  BY <1>1, <1>2, OneMore DEF Buffer
<1>4. \A r : Copies(r, buffer (+) SetToBag({row})) = Copies(r, buffer) + (IF r = row THEN 1 ELSE 0)
  BY <1>2, OneMore
<1>5. Table' = Table /\ \A f \in Flusher : Held(f)' = Held(f)
  BY <1>1 DEF Table, Held
<1>6. \A r : Intact(r)' <=> Intact(r)
  BY DEF Intact
<1>7. /\ \A r : r \in Rows <=> r \in Buffer \/ r \in Table \/ \E f \in Flusher : r \in Held(f)
      /\ \A r : Copies(r, buffer) \in Nat /\ (r \in Buffer <=> Copies(r, buffer) > 0)
      /\ \A r : Copies(r, clickhouse) \in Nat /\ (r \in Table <=> Copies(r, clickhouse) > 0)
  BY PlacesOf
<1>8. \A r : \A f \in Flusher : /\ Copies(r, flusher[f].batch) \in Nat
                                /\ r \in Held(f) <=> Copies(r, flusher[f].batch) > 0
  BY PlacesOf
<1>9. ASSUME NEW r \in Rows', Intact(r)
      PROVE  OnePlace(r)'
  <2>1. SUFFICES /\ Copies(r, buffer') <= 1 /\ Copies(r, clickhouse') <= 1
                 /\ r \in Buffer' => r \notin Table'
                 /\ \A g \in Flusher :
                      /\ Copies(r, flusher'[g].batch) <= 1
                      /\ r \in Held(g)' => r \notin Buffer' /\ (r \in Table' <=> flusher'[g].landed)
                 /\ \A g, h \in Flusher : r \in Held(g)' /\ r \in Held(h)' => g = h
    BY DEF OnePlace, Copies
  <2>2. CASE r \in Rows
    <3>1. r # row
      BY <1>9, <2>2
    <3>2. Copies(r, buffer (+) SetToBag({row})) = Copies(r, buffer) + 0
      BY <1>4, <3>1
    <3>3. Copies(r, buffer') = Copies(r, buffer)
      BY <1>1, <1>7, <3>2
    <3>4. OnePlace(r)
      BY <1>9, <2>2 DEF SessionInv, Placed
    <3> QED
      BY <1>1, <1>3, <1>5, <3>1, <3>3, <3>4 DEF OnePlace
  <2>3. CASE r \notin Rows
    <3>1. r = row
      BY <1>1, <2>3
    <3>2. r \notin Buffer /\ r \notin Table /\ \A f \in Flusher : r \notin Held(f)
      BY <1>7, <2>3
    <3>3. Copies(r, buffer) = 0 /\ Copies(r, clickhouse) = 0
      BY <1>7, <3>2
    <3>4. \A f \in Flusher : Copies(r, flusher[f].batch) = 0
      BY <1>8, <3>2
    <3>5. Copies(r, buffer') = 1
      BY <1>1, <1>4, <3>1, <3>3
    <3> QED
      BY <1>1, <1>5, <3>2, <3>3, <3>4, <3>5
  <2> QED
    BY <2>2, <2>3
<1>10. Placed'
  BY <1>6, <1>9 DEF Placed
<1> QED
  BY <1>1, <1>6, <1>10

\* The found version gets its tombstone: it stays the current one.
LEMMA TombstoneStep ==
  ASSUME TypeInv, SessionInv, AddTombstone
  PROVE  SessionInv'
<1> DEFINE s == task.found
           x == Tombstone(s)
<1>1. /\ task.pc = "tombstone" /\ Add(x)
      /\ UNCHANGED <<cache, version, clickhouse, attributed, damaged>>
  BY DEF AddTombstone
<1>2. task'.pc = "update" /\ task'.found = s /\ task'.event = task.event
  BY DEF AddTombstone, Goto
<1>3. s \in Row /\ s.sign = 1
  BY <1>1 DEF TypeInv, Handling
<1>4. Known(s) /\ Contains(s, task.event.time)
  BY <1>1 DEF SessionInv, Looked
<1>5. /\ x \in Row /\ x.sign = -1 /\ x.session = s.session /\ x.version = s.version
      /\ x.start = s.start /\ x.timestamp = s.timestamp /\ State(x) = s
  BY <1>3, TombstoneFacts
<1> HIDE DEF s, x
<1>6. Intact(s) => Current(s) /\ x \notin Rows
  <2>1. Intact(s) => Current(s)
    BY <1>4 DEF Known
  <2>2. Current(s) => (Tombstone(s) \in Rows <=> ~Current(s) \/ (task.pc = "update" /\ task.found = s))
    BY RowsOf DEF SessionInv, Chained
  <2> QED
    BY <1>1, <2>1, <2>2 DEF x
<1>7. Intact(x) => x \notin Rows
  BY <1>5, <1>6 DEF Intact
<1>8. /\ Placed' /\ Rows' = Rows \cup {x}
      /\ \A r : Intact(r)' <=> Intact(r)
  BY <1>1, <1>5, <1>7, AddKeepsPlaces
<1>9. \A r : Current(r)' <=> Current(r)
  <2>1. ASSUME NEW r, Current(r) PROVE Current(r)'
    <3>1. x.session = r.session => x.version <= r.version
      <4> SUFFICES ASSUME x.session = r.session PROVE x.version <= r.version
        OBVIOUS
      <4>1. Current(s)
        BY <1>5, <1>6, <2>1 DEF Current, Intact
      <4> QED
        BY <1>5, <2>1, <4>1 DEF Current
    <3> QED
      BY <1>8, <2>1, <3>1 DEF Current
  <2>2. ASSUME NEW r, Current(r)' PROVE Current(r)
    BY <1>5, <1>8, <2>2 DEF Current
  <2> QED
    BY <2>1, <2>2
<1>10. /\ Sessions' = Sessions /\ \A r : State(r)' = State(r) /\ Tombstone(r)' = Tombstone(r)
  BY <1>1 DEF Sessions, State, Tombstone
<1>11. Numbered'
  <2>1. x.version <= version /\ x.session <= version
    BY <1>4, <1>5 DEF Known
  <2> QED
    BY <1>1, <1>5, <1>8, <2>1 DEF SessionInv, Numbered
<1>12. ASSUME NEW r \in Rows', Intact(r) PROVE State(r) \in Rows' /\ r.session \in Sessions
  <2>1. CASE r \in Rows
    BY <1>8, <1>12, <2>1 DEF SessionInv, Chained
  <2>2. CASE r = x
    <3>1. Current(s)
      BY <1>5, <1>6, <1>12, <2>2 DEF Intact
    <3>2. s \in Rows /\ s.session \in Sessions
      BY <3>1 DEF SessionInv, Chained, Current
    <3> QED
      BY <1>5, <1>8, <2>2, <3>2
  <2> QED
    BY <1>8, <2>1, <2>2
<1>13. ASSUME NEW r \in Rows', r.sign = 1, Intact(r)
       PROVE  Tombstone(r) \in Rows' <=> ~Current(r) \/ (task'.pc = "update" /\ task'.found = r)
  <2>1. r \in Rows
    BY <1>5, <1>8, <1>13
  <2>2. Tombstone(r) \in Rows <=> ~Current(r)
    BY <1>1, <1>13, <2>1 DEF SessionInv, Chained
  <2>3. Tombstone(r) = x <=> r = s
    <3>1. ASSUME Tombstone(r) = x PROVE r = s
      <4>1. State(Tombstone(r)) = r
        BY <1>13, <2>1, RowsOf, TombstoneFacts
      <4> QED
        BY <1>5, <3>1, <4>1
    <3> QED
      BY <3>1 DEF x
  <2>4. r = s => Current(r)
    BY <1>6, <1>13
  <2> QED
    BY <1>2, <1>8, <2>2, <2>3, <2>4
<1>14. ASSUME NEW p \in Rows', NEW q \in Rows', Intact(p), p.session = q.session,
              p.version <= q.version
       PROVE  p.start = q.start /\ p.timestamp <= q.timestamp
  <2>1. ASSUME NEW r \in Rows', Intact(r)
        PROVE  \E o \in Rows : /\ o.session = r.session /\ o.version = r.version
                               /\ o.start = r.start /\ o.timestamp = r.timestamp
    <3>1. CASE r \in Rows
      BY <3>1
    <3>2. CASE r = x
      <4>1. s \in Rows
        BY <1>5, <1>6, <2>1, <3>2 DEF Intact, Current
      <4> QED
        BY <1>5, <3>2, <4>1
    <3> QED
      BY <1>8, <3>1, <3>2
  <2>2. Intact(q)
    BY <1>14 DEF Intact
  <2>3. PICK a \in Rows : /\ a.session = p.session /\ a.version = p.version
                          /\ a.start = p.start /\ a.timestamp = p.timestamp
    BY <1>14, <2>1
  <2>4. PICK b \in Rows : /\ b.session = q.session /\ b.version = q.version
                          /\ b.start = q.start /\ b.timestamp = q.timestamp
    BY <2>1, <2>2
  <2>5. Intact(a) /\ a.session = b.session /\ a.version <= b.version
    BY <1>14, <2>3, <2>4 DEF Intact
  <2>6. a.start = b.start /\ a.timestamp <= b.timestamp
    BY <2>5 DEF SessionInv, Chained
  <2> QED
    BY <2>3, <2>4, <2>6
<1>15. \A k \in Sessions : \E r \in Rows' : r.session = k /\ Current(r)
  BY <1>8 DEF SessionInv, Chained
<1>16. Chained'
  BY <1>8, <1>9, <1>10, <1>12, <1>13, <1>14, <1>15 DEF Chained
<1>17. \A r : Known(r) => Known(r)'
  BY <1>1, <1>8, <1>9 DEF Known
<1>18. Looked'
  <2>1. cache # None => Known(cache) /\ Known(cache)'
    BY <1>1, <1>17 DEF SessionInv, Looked, Known, Current, Intact
  <2>2. Known(s)'
    <3>1. s' = s
      BY <1>2 DEF s
    <3>2. PICK r : r = s
      OBVIOUS
    <3>3. Known(r)' /\ s' = r
      BY <1>4, <1>17, <3>1, <3>2
    <3> QED
      BY <3>3 DEF Known, Current, Intact
  <2> QED
    BY <1>1, <1>2, <1>4, <2>1, <2>2 DEF Looked, Contains, s
<1>19. \A r : Accounts(r) => Accounts(r)'
  BY <1>1 DEF Accounts, Count, EventsOf
<1>20. Accounted'
  BY <1>9, <1>19, RowsOf DEF SessionInv, Accounted
<1> QED
  BY <1>8, <1>11, <1>16, <1>18, <1>20 DEF SessionInv

\* The end of an event.  The new version u comes behind every version of its session,
\* all of which have their tombstones, and accounts for the event too.
LEMMA FinishStep ==
  ASSUME TypeInv, SessionInv,
         NEW u \in Row, u.sign = 1, u.version = version + 1, u.session <= version + 1,
         \A p \in Rows : Intact(p) /\ p.session = u.session =>
           /\ p.start = u.start /\ p.timestamp <= u.timestamp
           /\ p.sign = 1 => Tombstone(p) \in Rows,
         Intact(u) => Accounts(u)',
         task.pc = "update" => task.found.session = u.session,
         Finish(u)
  PROVE  SessionInv'
<1>1. /\ Add(u) /\ UpdateCache(u) /\ version' = version + 1
      /\ UNCHANGED <<clickhouse, damaged>>
  BY DEF Finish
<1>2. task'.pc = "idle"
  BY DEF Finish, Idle
<1>3. PICK e : /\ e = [session |-> u.session, number |-> version + 1,
                       time |-> task.event.time, name |-> task.event.name]
               /\ attributed' = attributed \cup {e}
  BY DEF Finish
<1>4. e.session = u.session /\ e.number = version + 1
  BY <1>3
<1>5. /\ version \in Nat /\ u.session \in Nat /\ u.version \in Nat
      /\ \A a \in attributed : a.session \in Nat /\ a.number \in Nat
  BY DEF TypeInv, Handling, Row
<1>6. /\ \A r \in Rows : r.version <= version /\ r.session <= version
      /\ \A r \in Rows : r.version \in Nat /\ r.session \in Nat
  BY RowsOf DEF SessionInv, Numbered
<1>7. u \notin Rows
  BY <1>5, <1>6
<1>8. /\ Placed' /\ Rows' = Rows \cup {u}
      /\ \A r : Intact(r)' <=> Intact(r)
  BY <1>1, <1>7, AddKeepsPlaces
<1>9. u \notin Rows /\ Tombstone(u) \notin Rows'
  <2>1. \A r \in Rows : r.version # u.version
    BY <1>5, <1>6
  <2>2. Tombstone(u).version = u.version /\ Tombstone(u).sign = -1
    BY TombstoneFacts
  <2> QED
    BY <1>8, <2>1, <2>2
<1>10. Intact(u) => Current(u)'
  <2>1. \A r \in Rows : r.version <= u.version
    BY <1>5, <1>6
  <2> QED
    BY <1>8, <2>1, <1>5 DEF Current
<1>11. \A r : r.session # u.session => (Current(r)' <=> Current(r))
  BY <1>8 DEF Current
<1>12. \A r \in Rows : r.session = u.session => ~Current(r)'
  <2>1. \A r \in Rows : ~(u.version <= r.version)
    BY <1>5, <1>6
  <2> QED
    BY <1>8, <2>1 DEF Current
<1>13. Sessions' = Sessions \cup ({u.session} \ damaged)
  BY <1>1, <1>3, <1>4 DEF Sessions
<1>14. Numbered'
  <2>1. \A r \in Rows' : r.version <= version + 1 /\ r.session <= version + 1
    BY <1>5, <1>6, <1>8
  <2>2. \A p, q \in Rows' : p.sign = 1 /\ q.sign = 1 /\ p.version = q.version => p = q
    <3>1. \A r \in Rows : r.version # u.version
      BY <1>5, <1>6
    <3> QED
      BY <1>8, <3>1 DEF SessionInv, Numbered
  <2>3. \A a \in attributed' : a.number <= version + 1 /\ a.session <= version + 1
    BY <1>3, <1>4, <1>5 DEF SessionInv, Numbered
  <2> QED
    BY <1>1, <2>1, <2>2, <2>3 DEF Numbered
<1>15. ASSUME NEW r \in Rows', Intact(r) PROVE State(r) \in Rows' /\ r.session \in Sessions'
  <2>1. CASE r \in Rows
    BY <1>8, <1>13, <1>15, <2>1 DEF SessionInv, Chained
  <2>2. CASE r = u
    BY <1>8, <1>13, <1>15, <2>2, TombstoneFacts DEF Intact
  <2> QED
    BY <1>8, <2>1, <2>2
<1>16. ASSUME NEW r \in Rows', r.sign = 1, Intact(r)
       PROVE  Tombstone(r) \in Rows' <=> ~Current(r)'
  <2>1. CASE r = u
    BY <1>9, <1>10, <1>16, <2>1
  <2>2. CASE r \in Rows /\ r.session = u.session
    BY <1>8, <1>12, <1>16, <2>2
  <2>3. CASE r \in Rows /\ r.session # u.session
    <3>1. Tombstone(r) \in Rows <=> ~Current(r) \/ (task.pc = "update" /\ task.found = r)
      BY <1>16, <2>3 DEF SessionInv, Chained
    <3>2. ~(task.pc = "update" /\ task.found = r)
      BY <2>3
    <3>3. Tombstone(r) # u
      BY <2>3, RowsOf, TombstoneFacts
    <3> QED
      BY <1>8, <1>11, <2>3, <3>1, <3>2, <3>3
  <2> QED
    BY <1>8, <2>1, <2>2, <2>3
<1>17. ASSUME NEW p \in Rows', NEW q \in Rows', Intact(p), p.session = q.session,
              p.version <= q.version
       PROVE  p.start = q.start /\ p.timestamp <= q.timestamp
  <2>1. CASE p \in Rows /\ q \in Rows
    BY <1>17, <2>1 DEF SessionInv, Chained
  <2>2. CASE p \in Rows /\ q = u
    BY <1>17, <2>2
  <2>3. CASE p = u /\ q \in Rows
    BY <1>5, <1>6, <1>17, <2>3
  <2>4. CASE p = u /\ q = u
    <3>1. u.timestamp \in Nat
      BY RowFacts
    <3> QED
      BY <2>4, <3>1
  <2> QED
    BY <1>8, <2>1, <2>2, <2>3, <2>4
<1>18. ASSUME NEW k \in Sessions' PROVE \E r \in Rows' : r.session = k /\ Current(r)'
  <2>1. CASE k = u.session
    BY <1>8, <1>10, <1>13, <1>1, <1>18, <2>1 DEF Intact, Sessions
  <2>2. CASE k \in Sessions /\ k # u.session
    <3>1. PICK r \in Rows : r.session = k /\ Current(r)
      BY <2>2 DEF SessionInv, Chained
    <3> QED
      BY <1>8, <1>11, <2>2, <3>1
  <2> QED
    BY <1>13, <2>1, <2>2
<1>19. Chained'
  BY <1>2, <1>8, <1>15, <1>16, <1>17, <1>18 DEF Chained, State, Tombstone
<1>20. Looked'
  <2>1. ASSUME cache' # None PROVE Known(cache)'
    <3>1. PICK c : c = cache'
      OBVIOUS
    <3>2. c = u \/ (c = cache /\ c # None /\ c.session # u.session)
      BY <1>1, <2>1, <3>1 DEF UpdateCache
    <3>3. CASE c = u
      <4>1. u.version <= version' /\ u.session <= version' /\ (Intact(u)' => Current(u)')
        BY <1>1, <1>5, <1>8, <1>10
      <4> QED
        BY <3>1, <3>3, <4>1 DEF Known, Intact, Current
    <3>4. CASE c = cache /\ c # None /\ c.session # u.session
      <4>1. c.version <= version /\ c.session <= version /\ (Intact(c) => Current(c))
        BY <3>4 DEF SessionInv, Looked, Known
      <4>2. c.version \in Nat /\ c.session \in Nat
        BY <3>4, RowFacts DEF TypeInv, Handling
      <4>3. c.version <= version' /\ c.session <= version' /\ (Intact(c)' => Current(c)')
        BY <1>1, <1>5, <1>8, <1>11, <3>4, <4>1, <4>2
      <4> QED
        BY <3>1, <4>3 DEF Known, Intact, Current
    <3> QED
      BY <3>2, <3>3, <3>4
  <2> QED
    BY <1>2, <2>1 DEF Looked
<1>21. ASSUME NEW r \in Rows', Current(r)' PROVE Accounts(r)'
  <2>1. CASE r = u
    BY <1>8, <1>21, <2>1 DEF Current
  <2>2. CASE r # u
    <3>1. r \in Rows /\ r.session # u.session /\ Current(r)
      BY <1>8, <1>11, <1>12, <1>21, <2>2
    <3>2. Accounts(r)
      BY <3>1 DEF SessionInv, Accounted
    <3>3. EventsOf(r.session)' = EventsOf(r.session)
      BY <1>3, <1>4, <3>1 DEF EventsOf
    <3> QED
      BY <3>2, <3>3 DEF Accounts, Count
  <2> QED
    BY <2>1, <2>2
<1>22. Accounted'
  BY <1>21 DEF Accounted
<1> QED
  BY <1>8, <1>14, <1>19, <1>20, <1>22 DEF SessionInv

\* What one more event of a session changes in its counts.
LEMMA OneMoreEvent ==
  ASSUME TypeInv, SessionInv, NEW e, attributed' = attributed \cup {e},
         e.number = version + 1, NEW names
  PROVE  /\ Count(e.session, names) \in Nat
         /\ Count(e.session, names)' =
              IF e.name \in names THEN Count(e.session, names) + 1 ELSE Count(e.session, names)
         /\ EventsOf(e.session)' = EventsOf(e.session) \cup {e}
<1> DEFINE old == {a \in EventsOf(e.session) : a.name \in names}
           new == {a \in EventsOf(e.session)' : a.name \in names}
<1>1. e \notin attributed
  BY DEF SessionInv, Numbered, TypeInv, Handling
<1>2. EventsOf(e.session)' = EventsOf(e.session) \cup {e}
  BY DEF EventsOf
<1>3. IsFiniteSet(old) /\ e \notin old
  <2>1. old \subseteq attributed
    BY DEF EventsOf
  <2>2. IsFiniteSet(attributed)
    BY DEF TypeInv, Handling
  <2> QED
    BY <1>1, <2>1, <2>2, FS_Subset
<1>4. new = IF e.name \in names THEN old \cup {e} ELSE old
  BY <1>2
<1>5. Count(e.session, names) = Cardinality(old) /\ Count(e.session, names)' = Cardinality(new)
  BY DEF Count
<1> HIDE DEF old, new
<1>6. Cardinality(old) \in Nat /\ Cardinality(old \cup {e}) = Cardinality(old) + 1
  BY <1>3, FS_AddElement, FS_CardinalityType
<1> QED
  BY <1>2, <1>4, <1>5, <1>6

LEMMA CreateStep ==
  ASSUME TypeInv, SessionInv, Create
  PROVE  SessionInv'
<1> DEFINE t == task.event.time
           n == task.event.name
<1>0. PICK u : u = NewSession(task.event)
  OBVIOUS
<1>1. task.pc = "create" /\ Finish(u)
  BY <1>0 DEF Create
<1>2. task.event \in Event /\ version \in Nat /\ n # "engagement"
  BY <1>1 DEF TypeInv, Handling, SessionInv, Looked
<1>3. u \in Row /\ u.sign = 1
  BY <1>0, <1>2, SessionTyped
<1>4. /\ u.session = version + 1 /\ u.version = version + 1
      /\ u.start = t /\ u.timestamp = t /\ u.events = 1
      /\ u.pageviews = IF n = "pageview" THEN 1 ELSE 0
      /\ u.bounce <=> n \in {"pageview", "passive"}
  BY <1>0 DEF NewSession
<1>5. /\ t \in Nat /\ n \in {"pageview", "goal", "passive"} /\ n \in Name
  BY <1>2, SessionAssumption DEF Event
<1>6. PICK e : /\ e = [session |-> u.session, number |-> version + 1, time |-> t, name |-> n]
               /\ attributed' = attributed \cup {e}
  BY <1>1 DEF Finish
<1> HIDE DEF t, n
<1>7. e.session = u.session /\ e.number = version + 1 /\ e.time = t /\ e.name = n
  BY <1>6
<1>8. \A r \in Rows : r.session # u.session
  BY <1>2, <1>4, RowsOf DEF SessionInv, Numbered
<1>9. EventsOf(u.session) = {}
  BY <1>2, <1>4 DEF EventsOf, SessionInv, Numbered, TypeInv, Handling
<1>10. ASSUME NEW names
       PROVE  Count(u.session, names)' = IF n \in names THEN 1 ELSE 0
  <2>1. Count(u.session, names) = 0
    BY <1>9, FS_EmptySet DEF Count
  <2>2. Count(e.session, names)' =
          IF e.name \in names THEN Count(e.session, names) + 1 ELSE Count(e.session, names)
    BY <1>6, <1>7, OneMoreEvent
  <2>3. CASE n \in names
    BY <1>7, <2>1, <2>2, <2>3 DEF Count
  <2>4. CASE n \notin names
    BY <1>7, <2>1, <2>2, <2>4 DEF Count
  <2> QED
    BY <2>3, <2>4
<1>11. ASSUME NEW a \in EventsOf(u.session)' PROVE a = e
  BY <1>6, <1>9, <1>11 DEF EventsOf
<1>12. e \in EventsOf(u.session)'
  BY <1>6, <1>7 DEF EventsOf
<1>13. Accounts(u)'
  <2>1. u.events = Count(u.session, Name)'
    BY <1>4, <1>5, <1>10
  <2>2. u.pageviews = Count(u.session, {"pageview"})'
    BY <1>4, <1>10
  <2>3. \A a \in EventsOf(u.session)' : u.start <= a.time /\ a.time <= u.timestamp
    BY <1>4, <1>5, <1>7, <1>11
  <2>4. Count(u.session, {"goal"})' = IF n = "goal" THEN 1 ELSE 0
    BY <1>10
  <2>5. u.bounce <=> (u.pageviews <= 1 /\ Count(u.session, {"goal"})' = 0)
    BY <1>4, <1>5, <2>4
  <2> QED
    BY <1>4, <1>7, <1>12, <2>1, <2>2, <2>3, <2>5 DEF Accounts
<1> QED
  BY <1>1, <1>2, <1>3, <1>4, <1>8, <1>13, FinishStep

LEMMA UpdateStep ==
  ASSUME TypeInv, SessionInv, AddUpdated
  PROVE  SessionInv'
<1> DEFINE t == task.event.time
           n == task.event.name
<1>0. PICK s : s = task.found
  OBVIOUS
<1>1. PICK u : u = Updated(s, task.event)
  OBVIOUS
<1>2. task.pc = "update" /\ Finish(u)
  BY <1>0, <1>1 DEF AddUpdated
<1>3. /\ task.event \in Event /\ version \in Nat /\ s \in Row /\ s.sign = 1
      /\ Known(s) /\ Contains(s, t)
  BY <1>0, <1>2 DEF TypeInv, Handling, SessionInv, Looked
<1>4. u \in Row /\ u.sign = 1
  BY <1>0, <1>1, <1>3, SessionTyped
<1>5. t \in Nat /\ n \in Name /\ s.timestamp \in Nat /\ s.start \in Nat /\ s.session \in Nat
      /\ s.version \in Nat /\ s.events \in Nat /\ s.pageviews \in Nat /\ s.bounce \in BOOLEAN
  BY <1>3, RowFacts, SessionAssumption DEF Event, Row
<1>6. /\ u.session = s.session /\ u.version = version + 1 /\ u.start = s.start
      /\ u.events = s.events + 1
      /\ u.timestamp = IF t > s.timestamp THEN t ELSE s.timestamp
      /\ u.pageviews = s.pageviews + (IF n = "pageview" THEN 1 ELSE 0)
  BY <1>1 DEF Updated
<1>7. u.bounce <=> s.bounce /\ u.pageviews <= 1 /\ n # "goal"
  BY <1>1 DEF Updated
<1>8. PICK e : /\ e = [session |-> u.session, number |-> version + 1, time |-> t, name |-> n]
               /\ attributed' = attributed \cup {e}
  BY <1>2 DEF Finish
<1>9. s.start <= t
  BY <1>3 DEF Contains
<1> HIDE DEF t, n
<1>10. e.session = s.session /\ e.number = version + 1 /\ e.time = t /\ e.name = n
  BY <1>6, <1>8
<1>11. u.timestamp \in Nat /\ s.timestamp <= u.timestamp /\ t <= u.timestamp
       /\ u.timestamp \in {t, s.timestamp}
  BY <1>5, <1>6
<1>12. u.session <= version + 1
  BY <1>3, <1>5, <1>6 DEF Known
<1>13. ASSUME NEW p \in Rows, Intact(p), p.session = u.session
       PROVE  /\ p.start = u.start /\ p.timestamp <= u.timestamp
              /\ p.sign = 1 => Tombstone(p) \in Rows
  <2>1. Current(s)
    BY <1>3, <1>6, <1>13 DEF Known, Intact
  <2>2. s \in Rows /\ p.version <= s.version
    BY <1>6, <1>13, <2>1 DEF Current
  <2>3. p.start = s.start /\ p.timestamp <= s.timestamp
    BY <1>6, <1>13, <2>2 DEF SessionInv, Chained
  <2>4. p.timestamp \in Nat
    BY RowsOf
  <2>5. p.timestamp <= u.timestamp
    BY <1>5, <1>11, <2>3, <2>4
  <2>6. ASSUME p.sign = 1 PROVE Tombstone(p) \in Rows
    <3>1. Tombstone(p) \in Rows <=> ~Current(p) \/ (task.pc = "update" /\ task.found = p)
      BY <1>13, <2>6 DEF SessionInv, Chained
    <3>2. Current(p) => p = s
      <4> SUFFICES ASSUME Current(p) PROVE p = s
        OBVIOUS
      <4>1. s.version <= p.version
        BY <1>6, <1>13, <2>2 DEF Current
      <4>2. p.version = s.version
        BY <1>5, <2>2, <4>1, RowsOf
      <4> QED
        BY <1>3, <2>2, <2>6, <4>2 DEF SessionInv, Numbered
    <3> QED
      BY <1>0, <1>2, <3>1, <3>2
  <2> QED
    BY <1>6, <2>3, <2>5, <2>6
<1>14. ASSUME Intact(u) PROVE Accounts(u)'
  <2>1. Accounts(s)
    <3>1. Current(s)
      BY <1>3, <1>6, <1>14 DEF Known, Intact
    <3> QED
      BY <3>1, RowsOf DEF SessionInv, Accounted
  <2>2. /\ s.events = Count(s.session, Name)
        /\ s.pageviews = Count(s.session, {"pageview"})
        /\ \A a \in EventsOf(s.session) : s.start <= a.time /\ a.time <= s.timestamp
        /\ \E a \in EventsOf(s.session) : a.time = s.start
        /\ \E a \in EventsOf(s.session) : a.time = s.timestamp
        /\ s.bounce <=> (s.pageviews <= 1 /\ Count(s.session, {"goal"}) = 0)
    BY <2>1 DEF Accounts
  <2>3. ASSUME NEW names
        PROVE  /\ Count(s.session, names) \in Nat
               /\ Count(s.session, names)' =
                    IF n \in names THEN Count(s.session, names) + 1 ELSE Count(s.session, names)
    <3>1. /\ Count(e.session, names) \in Nat
          /\ Count(e.session, names)' =
               IF e.name \in names THEN Count(e.session, names) + 1 ELSE Count(e.session, names)
      BY <1>8, <1>10, OneMoreEvent
    <3> QED
      BY <1>10, <3>1
  <2>4. EventsOf(s.session)' = EventsOf(s.session) \cup {e}
    BY <1>8, <1>10 DEF EventsOf
  <2>5. u.events = Count(s.session, Name)'
    BY <1>5, <1>6, <2>2, <2>3
  <2>6. u.pageviews = Count(s.session, {"pageview"})'
    <3>1. Count(s.session, {"pageview"})' =
            IF n = "pageview" THEN Count(s.session, {"pageview"}) + 1
                              ELSE Count(s.session, {"pageview"})
      BY <2>3
    <3> QED
      BY <1>5, <1>6, <2>2, <3>1
  <2>7. ASSUME NEW a \in EventsOf(s.session)' PROVE u.start <= a.time /\ a.time <= u.timestamp
    <3>1. CASE a = e
      BY <1>6, <1>9, <1>10, <1>11, <3>1
    <3>2. CASE a \in EventsOf(s.session)
      <4>1. a.time \in Nat
        BY <3>2, SessionAssumption DEF EventsOf, TypeInv, Handling
      <4> QED
        BY <1>5, <1>6, <1>11, <2>2, <3>2, <4>1
    <3> QED
      BY <2>4, <3>1, <3>2
  <2>8. \E a \in EventsOf(s.session)' : a.time = u.start
    BY <1>6, <2>2, <2>4
  <2>9. \E a \in EventsOf(s.session)' : a.time = u.timestamp
    BY <1>10, <1>11, <2>2, <2>4
  <2>10. u.bounce <=> (u.pageviews <= 1 /\ Count(s.session, {"goal"})' = 0)
    <3>1. /\ Count(s.session, {"goal"}) \in Nat
          /\ Count(s.session, {"goal"})' =
               IF n = "goal" THEN Count(s.session, {"goal"}) + 1 ELSE Count(s.session, {"goal"})
      BY <2>3
    <3>2. u.pageviews <= 1 => s.pageviews <= 1
      BY <1>5, <1>6
    <3>3. Count(s.session, {"goal"})' = 0 <=> Count(s.session, {"goal"}) = 0 /\ n # "goal"
      BY <3>1
    <3> QED
      BY <1>7, <2>2, <3>2, <3>3
  <2> QED
    BY <1>6, <2>5, <2>6, <2>7, <2>8, <2>9, <2>10 DEF Accounts
<1>15. task.found.session = u.session
  BY <1>0, <1>6
<1> QED
  BY <1>2, <1>4, <1>6, <1>12, <1>13, <1>14, <1>15, FinishStep

\* A step of the task that adds no row: only what it found matters.
LEMMA LookStep ==
  ASSUME TypeInv, SessionInv,
         UNCHANGED <<version, buffer, flusher, clickhouse, attributed, damaged>>,
         task.pc = "update" => UNCHANGED task,
         task'.pc = "update" => UNCHANGED task,
         Looked'
  PROVE  SessionInv'
<1>1. Rows' = Rows /\ Pending' = Pending /\ Sessions' = Sessions
  BY DEF Rows, Pending, Table, Sessions
<1>2. /\ \A r : Intact(r)' <=> Intact(r)
      /\ \A r : Current(r)' <=> Current(r)
      /\ \A r : Accounts(r)' <=> Accounts(r)
  BY <1>1 DEF Intact, Current, Accounts, Count, EventsOf
<1>3. \A r : OnePlace(r)' <=> OnePlace(r)
  BY DEF OnePlace, Copies, Buffer, Table, Held
<1>4. Placed' /\ Numbered' /\ Accounted'
  BY <1>1, <1>2, <1>3 DEF SessionInv, Placed, Numbered, Accounted
<1>5. \A r : (task'.pc = "update" /\ task'.found = r) <=> (task.pc = "update" /\ task.found = r)
  OBVIOUS
<1>6. Chained'
  BY <1>1, <1>2, <1>5 DEF SessionInv, Chained, State, Tombstone
<1> QED
  BY <1>4, <1>6 DEF SessionInv


\* A lookup that finds the current version, or nothing.
LEMMA LookUpStep ==
  ASSUME TypeInv, SessionInv, FindsCurrent,
         \/ \E t \in Time, n \in Name : OnEvent(t, n)
         \/ LookUpPending \/ LookUpClickHouse \/ LookUpFails \/ Evict
  PROVE  SessionInv'
<1>1. UNCHANGED <<version, buffer, flusher, clickhouse, attributed, damaged>>
  BY DEF OnEvent, LookUpPending, LookUpClickHouse, LookUpFails, Evict
<1>2. Rows' = Rows /\ Pending' = Pending
  BY <1>1 DEF Rows, Pending, Table
<1>3. /\ \A r : Known(r) => Known(r)'
      /\ \A r : Current(r)' <=> Current(r)
  BY <1>1, <1>2 DEF Known, Current, Intact
<1>4. ASSUME cache' # None PROVE Known(cache)'
  <2>1. PICK c : c = cache
    OBVIOUS
  <2>2. cache' = c /\ c # None
    BY <1>4, <2>1 DEF OnEvent, LookUpPending, LookUpClickHouse, LookUpFails, Evict
  <2>3. Known(c)'
    BY <1>3, <2>1, <2>2 DEF SessionInv, Looked
  <2> QED
    BY <2>2, <2>3 DEF Known, Current, Intact
<1>5. ASSUME NEW e, NEW s, Goto("tombstone", e, s), Known(s), Contains(s, e.time),
             task.pc # "update"
      PROVE  SessionInv'
  <2>1. task'.pc = "tombstone" /\ task'.event = e /\ task'.found = s
    BY <1>5 DEF Goto
  <2>2. Known(s)'
    BY <1>3, <1>5
  <2>3. Known(task.found)'
    BY <2>1, <2>2 DEF Known, Current, Intact
  <2>4. Looked'
    BY <1>4, <1>5, <2>1, <2>3 DEF Looked, Contains
  <2> QED
    BY <1>1, <1>5, <2>1, <2>4, LookStep
<1>6. ASSUME NEW p \in {"idle", "pending", "query", "create"}, task'.pc = p,
             task.pc # "update",
             p = "query" => \A r \in Pending : Current(r) => ~Contains(r, task'.event.time),
             p = "create" => task'.event.name # "engagement"
      PROVE  SessionInv'
  <2>1. Looked'
    BY <1>2, <1>3, <1>4, <1>6 DEF Looked, Contains
  <2> QED
    BY <1>1, <1>6, <2>1, LookStep
<1>7. CASE Evict
  <2>1. cache' = None /\ UNCHANGED task
    BY <1>7 DEF Evict
  <2>2. task.pc \in {"tombstone", "update"} => Known(task.found)'
    <3>1. PICK s : s = task.found
      OBVIOUS
    <3>2. task.pc \in {"tombstone", "update"} => Known(s)'
      BY <1>3, <3>1 DEF SessionInv, Looked
    <3> QED
      BY <2>1, <3>1, <3>2 DEF Known, Current, Intact
  <2>3. Looked'
    BY <1>2, <1>3, <2>1, <2>2 DEF SessionInv, Looked, Contains
  <2> QED
    BY <1>1, <2>1, <2>3, LookStep
<1>8. ASSUME NEW t \in Time, NEW n \in Name, OnEvent(t, n) PROVE SessionInv'
  <2>1. PICK e : e = [time |-> t, name |-> n]
    OBVIOUS
  <2>2. e.time = t /\ task.pc = "idle"
    BY <1>8, <2>1 DEF OnEvent
  <2>3. CASE Contains(cache, t) /\ Goto("tombstone", e, cache)
    <3>1. PICK c : c = cache
      OBVIOUS
    <3>2. Known(c) /\ Contains(c, e.time) /\ Goto("tombstone", e, c)
      BY <2>2, <2>3, <3>1 DEF Contains, SessionInv, Looked
    <3> QED
      BY <1>5, <2>2, <3>2
  <2>4. CASE Goto("pending", e, None)
    <3>1. task'.pc = "pending"
      BY <2>4 DEF Goto
    <3> QED
      BY <1>6, <2>2, <3>1
  <2> QED
    BY <1>8, <2>1, <2>3, <2>4 DEF OnEvent
<1>9. CASE LookUpPending
  <2>1. PICK e : e = task.event
    OBVIOUS
  <2>2. task.pc = "pending"
    BY <1>9 DEF LookUpPending
  <2>3. CASE FindPendingAt(e.time) = {} /\ Goto("query", e, None)
    <3>1. task'.pc = "query" /\ task'.event = e
      BY <2>3 DEF Goto
    <3>2. ASSUME NEW r \in Pending, Current(r), Contains(r, e.time) PROVE FALSE
      <4>1. r.sign = 1 /\ \A q \in Pending : q.session = r.session => q.version <= r.version
        BY <3>2 DEF Current, Rows
      <4>2. r \in FindPendingAt(e.time)
        BY <3>2, <4>1 DEF FindPendingAt
      <4> QED
        BY <2>3, <4>2
    <3> QED
      BY <1>6, <2>2, <3>1, <3>2
  <2>4. CASE FindPendingAt(e.time) # {} /\ Goto("tombstone", e, Newest(FindPendingAt(e.time)))
    <3>1. PICK s : s = Newest(FindPendingAt(e.time))
      OBVIOUS
    <3>2. /\ FindPendingAt(e.time) \in SUBSET Rows
          /\ \A r \in FindPendingAt(e.time) : r \in Rows /\ Contains(r, e.time)
      BY FoundTyped
    <3>3. s \in FindPendingAt(e.time)
      BY <2>4, <3>1, <3>2, NewestIsOne DEF TypeInv
    <3>4. Intact(s) => Current(s)
      <4>1. Found = FindPendingAt(e.time)
        BY <2>1, <2>2 DEF Found
      <4> QED
        BY <2>4, <3>1, <4>1 DEF FindsCurrent
    <3>5. s \in Rows /\ Contains(s, e.time)
      BY <3>2, <3>3
    <3>6. Known(s)
      BY <3>4, <3>5 DEF Known, SessionInv, Numbered
    <3> QED
      BY <1>5, <2>2, <2>4, <3>1, <3>5, <3>6
  <2> QED
    BY <1>9, <2>1, <2>3, <2>4 DEF LookUpPending
<1>10. CASE LookUpClickHouse
  <2>1. PICK e : e = task.event
    OBVIOUS
  <2>2. task.pc = "query"
    BY <1>10 DEF LookUpClickHouse
  <2>3. CASE GetActiveSessionAt(e.time) # {}
             /\ Goto("tombstone", e, Newest(GetActiveSessionAt(e.time)))
    <3>1. PICK s : s = Newest(GetActiveSessionAt(e.time))
      OBVIOUS
    <3>2. /\ GetActiveSessionAt(e.time) \in SUBSET Rows
          /\ \A r \in GetActiveSessionAt(e.time) : r \in Rows /\ Contains(r, e.time)
      BY FoundTyped
    <3>3. s \in GetActiveSessionAt(e.time)
      BY <2>3, <3>1, <3>2, NewestIsOne DEF TypeInv
    <3>4. s \in Rows /\ Contains(s, e.time)
      BY <3>2, <3>3
    <3>5. Intact(s) => Current(s)
      <4>1. Found = GetActiveSessionAt(e.time)
        BY <2>1, <2>2 DEF Found
      <4> QED
        BY <2>3, <3>1, <4>1 DEF FindsCurrent
    <3>6. Known(s)
      BY <3>4, <3>5 DEF Known, SessionInv, Numbered
    <3> QED
      BY <1>5, <2>2, <2>3, <3>1, <3>4, <3>6
  <2>4. CASE task' = Idle
    <3>1. task'.pc = "idle"
      BY <2>4 DEF Idle
    <3> QED
      BY <1>6, <2>2, <3>1
  <2>5. CASE e.name # "engagement" /\ Goto("create", e, None)
    <3>1. task'.pc = "create" /\ task'.event = e
      BY <2>5 DEF Goto
    <3> QED
      BY <1>6, <2>2, <2>5, <3>1
  <2> QED
    BY <1>10, <2>1, <2>3, <2>4, <2>5 DEF LookUpClickHouse
<1>11. CASE LookUpFails
  <2>1. task'.pc = "idle" /\ task.pc = "query"
    BY <1>11 DEF LookUpFails, Idle
  <2> QED
    BY <1>6, <2>1
<1> QED
  BY <1>7, <1>8, <1>9, <1>10, <1>11

LEMMA StepInv == Inv /\ FindsCurrent /\ [Next]_vars => Inv'
<1> SUFFICES ASSUME Inv, FindsCurrent, [Next]_vars PROVE Inv'
  OBVIOUS
<1> USE DEF Inv
<1>1. TypeInv'
  BY StepTypeInv
<1>2. CASE \/ \E t \in Time, n \in Name : OnEvent(t, n)
           \/ LookUpPending \/ LookUpClickHouse \/ LookUpFails \/ Evict
  BY <1>1, <1>2, LookUpStep
<1>3. CASE Create
  BY <1>1, <1>3, CreateStep
<1>4. CASE AddTombstone
  BY <1>1, <1>4, TombstoneStep
<1>5. CASE AddUpdated
  BY <1>1, <1>5, UpdateStep
<1>6. CASE Tick
  BY <1>1, <1>6, FlushStep DEF Flusher
<1>7. ASSUME NEW f \in Flusher, Flush(f) PROVE SessionInv'
  BY <1>1, <1>7, FlushStep
<1>8. CASE UNCHANGED vars
  <2>1. UNCHANGED <<cache, version, task, buffer, flusher, clickhouse, attributed, damaged>>
    BY <1>8 DEF vars
  <2>2. Looked'
    BY <2>1 DEF SessionInv, Looked, Known, Current, Intact, Rows, Pending, Table, Contains
  <2> QED
    BY <1>1, <2>1, <2>2, LookStep
<1> QED
  BY <1>1, <1>2, <1>3, <1>4, <1>5, <1>6, <1>7, <1>8 DEF Next, HandleEvent

-----------------------------------------------------------------------------
(* What follows from the invariant                                          *)

\* The pairs that Written counts for a row: its copies in batches not committed.
Uncommitted(r) ==
  UNION {{f} \X (1..Copies(r, flusher[f].batch)) : f \in {g \in Flusher : ~flusher[g].landed}}

\* Every row of an intact session was written once and is in one place.
LEMMA WrittenOnce ==
  ASSUME Inv
  PROVE  /\ BagToSet(Written) = Rows
         /\ \A r \in Rows : Intact(r) => Copies(r, Written) = 1
         /\ \A r : r \notin Rows => Copies(r, Written) = 0
<1> USE DEF Inv
<1>1. Written = [r \in Rows |->
                   Copies(r, buffer) + Copies(r, clickhouse) + Cardinality(Uncommitted(r))]
  BY DEF Written, Rows, Table, Uncommitted
<1>2. BagToSet(Written) = Rows
  BY <1>1 DEF BagToSet
<1>3. ASSUME NEW r \in Rows, Intact(r) PROVE Copies(r, Written) = 1
  <2>1. OnePlace(r)
    BY <1>3 DEF SessionInv, Placed
  <2>2. /\ r \in Buffer \/ r \in Table \/ \E f \in Flusher : r \in Held(f)
        /\ Copies(r, buffer) \in Nat /\ (r \in Buffer <=> Copies(r, buffer) > 0)
        /\ Copies(r, clickhouse) \in Nat /\ (r \in Table <=> Copies(r, clickhouse) > 0)
    BY PlacesOf
  <2>3. \A f \in Flusher : /\ Copies(r, flusher[f].batch) \in Nat
                           /\ r \in Held(f) <=> Copies(r, flusher[f].batch) > 0
    BY PlacesOf
  <2>4. Copies(r, Written) = Copies(r, buffer) + Copies(r, clickhouse) + Cardinality(Uncommitted(r))
    BY <1>1, <1>2 DEF Copies, BagIn
  <2>5. ASSUME NEW f \in Flusher, r \notin Held(f)
        PROVE  {f} \X (1..Copies(r, flusher[f].batch)) = {}
    <3>1. Copies(r, flusher[f].batch) = 0
      BY <2>3, <2>5
    <3> QED
      BY <3>1
  <2>6. CASE \E f \in Flusher : r \in Held(f) /\ ~flusher[f].landed
    <3>1. PICK f \in Flusher : r \in Held(f) /\ ~flusher[f].landed
      BY <2>6
    <3>2. r \notin Buffer /\ r \notin Table /\ \A g \in Flusher : r \in Held(g) => g = f
      BY <2>1, <3>1 DEF OnePlace
    <3>3. Copies(r, flusher[f].batch) = 1
      BY <2>1, <2>3, <3>1 DEF OnePlace
    <3>4. {f} \X (1..Copies(r, flusher[f].batch)) = {<<f, 1>>}
      <4>1. 1..Copies(r, flusher[f].batch) = {1}
        BY <3>3
      <4> QED
        BY <4>1
    <3>5. Uncommitted(r) = {<<f, 1>>}
      BY <2>5, <3>1, <3>2, <3>4 DEF Uncommitted
    <3>6. Cardinality(Uncommitted(r)) = 1
      BY <3>5, FS_Singleton
    <3>7. Copies(r, buffer) = 0 /\ Copies(r, clickhouse) = 0
      BY <2>2, <3>2
    <3> QED
      BY <2>4, <3>6, <3>7
  <2>7. CASE ~ \E f \in Flusher : r \in Held(f) /\ ~flusher[f].landed
    <3>1. Uncommitted(r) = {}
      BY <2>5, <2>7 DEF Uncommitted
    <3>2. Cardinality(Uncommitted(r)) = 0
      BY <3>1, FS_EmptySet
    <3>3. r \in Table <=> r \notin Buffer
      BY <2>1, <2>2, <2>7 DEF OnePlace
    <3>4. Copies(r, buffer) <= 1 /\ Copies(r, clickhouse) <= 1
      BY <2>1 DEF OnePlace
    <3> QED
      BY <2>2, <2>4, <3>2, <3>3, <3>4
  <2> QED
    BY <2>6, <2>7
<1>4. ASSUME NEW r, r \notin Rows PROVE Copies(r, Written) = 0
  BY <1>2, <1>4 DEF Copies, BagIn
<1> QED
  BY <1>2, <1>3, <1>4

\* Between events the versions without a tombstone are the current ones.
LEMMA CollapsedIsCurrent ==
  ASSUME Inv, task.pc = "idle", NEW r, Intact(r)
  PROVE  r \in Collapsed(Written) <=> Current(r)
<1> USE DEF Inv
<1>1. /\ BagToSet(Written) = Rows
      /\ \A p \in Rows : Intact(p) => Copies(p, Written) = 1
      /\ \A p : p \notin Rows => Copies(p, Written) = 0
  BY WrittenOnce
<1>2. ASSUME r \in Rows, r.sign = 1
      PROVE  r \in Collapsed(Written) <=> Current(r)
  <2>1. Copies(r, Written) = 1
    BY <1>1, <1>2
  <2>2. Intact(Tombstone(r))
    BY <1>2, RowsOf, TombstoneFacts DEF Intact
  <2>3. Copies(Tombstone(r), Written) = IF Tombstone(r) \in Rows THEN 1 ELSE 0
    BY <1>1, <2>2
  <2>4. Tombstone(r) \in Rows <=> ~Current(r)
    BY <1>2 DEF SessionInv, Chained
  <2>5. Copies(r, Written) > Copies(Tombstone(r), Written) <=> Tombstone(r) \notin Rows
    BY <2>1, <2>3
  <2> QED
    BY <1>1, <1>2, <2>4, <2>5 DEF Collapsed
<1>3. r \in Collapsed(Written) => r \in Rows /\ r.sign = 1
  BY <1>1 DEF Collapsed
<1>4. Current(r) => r \in Rows /\ r.sign = 1
  BY DEF Current
<1> QED
  BY <1>2, <1>3, <1>4

LEMMA InvIsCurrent == Inv => OneCurrentVersion /\ AccountsForItsEvents /\ CacheIsCurrent
<1> SUFFICES ASSUME Inv, task.pc = "idle"
             PROVE  OneCurrentVersion /\ AccountsForItsEvents /\ CacheIsCurrent
  BY DEF OneCurrentVersion, AccountsForItsEvents, CacheIsCurrent
<1> USE DEF Inv
<1>1. \A r : r.session \in Sessions => Intact(r)
  BY DEF Sessions, Intact
<1>2. ASSUME NEW s \in Sessions
      PROVE  /\ Cardinality({r \in Collapsed(Written) : r.session = s}) = 1
             /\ \A r \in BagToSet(Written) : r.session = s =>
                  Copies(r, Written) = 1 /\ Copies([r EXCEPT !.sign = 1], Written) = 1
  <2>1. PICK c \in Rows : c.session = s /\ Current(c)
    BY DEF SessionInv, Chained
  <2>2. \A r : r.session = s => (r \in Collapsed(Written) <=> Current(r))
    BY <1>1, CollapsedIsCurrent
  <2>3. ASSUME NEW r, Current(r), r.session = s PROVE r = c
    <3>1. r.version <= c.version /\ c.version <= r.version /\ r.sign = 1 /\ c.sign = 1 /\ r \in Rows
      BY <2>1, <2>3 DEF Current
    <3>2. r.version = c.version
      BY <3>1, RowsOf
    <3> QED
      BY <3>1, <3>2 DEF SessionInv, Numbered
  <2>4. {r \in Collapsed(Written) : r.session = s} = {c}
    BY <2>1, <2>2, <2>3
  <2>5. Cardinality({r \in Collapsed(Written) : r.session = s}) = 1
    BY <2>4, FS_Singleton
  <2>6. ASSUME NEW r \in BagToSet(Written), r.session = s
        PROVE  Copies(r, Written) = 1 /\ Copies([r EXCEPT !.sign = 1], Written) = 1
    <3>1. r \in Rows /\ Intact(r)
      BY <1>1, <2>6, WrittenOnce
    <3>2. State(r) \in Rows /\ Intact(State(r))
      BY <3>1, RowsOf, TombstoneFacts DEF SessionInv, Chained, Intact
    <3> QED
      BY <3>1, <3>2, WrittenOnce DEF State
  <2> QED
    BY <2>5, <2>6
<1>3. OneCurrentVersion
  BY <1>2 DEF OneCurrentVersion
<1>4. AccountsForItsEvents
  <2>1. ASSUME NEW r \in Collapsed(Written), r.session \in Sessions PROVE Accounts(r)
    <3>1. Current(r)
      BY <1>1, <2>1, CollapsedIsCurrent
    <3> QED
      BY <3>1, RowsOf DEF SessionInv, Accounted
  <2> QED
    BY <2>1 DEF AccountsForItsEvents, Accounts, Count, EventsOf
<1>5. CacheIsCurrent
  <2>1. ASSUME cache # None, cache.session \in Sessions PROVE cache \in Collapsed(Written)
    <3>1. Intact(cache) /\ Current(cache)
      BY <1>1, <2>1 DEF SessionInv, Looked, Known
    <3> QED
      BY <3>1, CollapsedIsCurrent
  <2> QED
    BY <2>1 DEF CacheIsCurrent
<1> QED
  BY <1>3, <1>4, <1>5

LEMMA Invariant == Spec /\ []FindsCurrent => []Inv
BY InitInv, StepInv, PTL DEF Spec

\* For any number of goroutines that flush, in any order, with retries and batches
\* that are given up: as long as no lookup returns a version that has been superseded,
\* the rows written for a session cancel down to one version between events.  So a
\* session splits through nothing but such a lookup.
THEOREM OneVersionWhileCurrent == Spec /\ []FindsCurrent => []OneCurrentVersion
BY Invariant, InvIsCurrent, PTL

\* That version then accounts for every event of the session.
THEOREM CountedWhileCurrent == Spec /\ []FindsCurrent => []AccountsForItsEvents
BY Invariant, InvIsCurrent, PTL

\* And the cache holds no other.
THEOREM CachedWhileCurrent == Spec /\ []FindsCurrent => []CacheIsCurrent
BY Invariant, InvIsCurrent, PTL

-----------------------------------------------------------------------------
(* One goroutine that flushes.  The rows of a session are added in the order *)
(* of their rank, and leave memory in that order, so that what is in memory  *)
(* is newer than what is in the table.  A lookup in memory then finds the    *)
(* newest version of a session or nothing of the session, and only what is   *)
(* in the table can be missing there: no lookup returns an older version.    *)

\* Batches are cut and arrive one after the other.
OnlyWorkerFlushes == \A f \in Slot : flusher[f].pc = "free"

\* A version, its tombstone, the next version.
Rank(r) == IF r.sign = 1 THEN 2 * r.version ELSE 2 * r.version + 1

Before(p, q) == p.session = q.session => Rank(p) < Rank(q)

\* The table is behind the worker's batch, the batch behind the buffer.
Ordered ==
  /\ \A p \in Table \cup Held(Worker), q \in Buffer : Intact(p) => Before(p, q)
  /\ \A p \in Table \ Held(Worker), q \in Held(Worker) : Intact(p) => Before(p, q)

\* What is in memory, when only the worker takes it.
LEMMA InMemory ==
  ASSUME TypeInv, OnlyWorkerFlushes
  PROVE  Pending = Buffer \cup Held(Worker) /\ Rows = Buffer \cup Held(Worker) \cup Table
<1>1. \A f \in Slot : flusher[f] = Free
  <2>1. Called.pc = "take"
    BY DEF Called
  <2>2. \A f \in Slot : flusher[f] \in {Free, Called} \/ flusher[f].pc = "write"
    BY DEF TypeInv, Stores, Flusher
  <2> QED
    BY <2>1, <2>2 DEF OnlyWorkerFlushes
<1>2. Worker \in Flusher /\ \A f \in Flusher : f \in Slot \/ f = Worker
  BY DEF Flusher
<1>3. \A f \in Slot : BagToSet(flusher[f].batch) = {}
  BY <1>1, NoRows DEF Free
<1>4. Pending = Buffer \cup Held(Worker)
  BY <1>2, <1>3 DEF Pending, Buffer, Held
<1> QED
  BY <1>4 DEF Rows

LEMMA RankFacts ==
  ASSUME TypeInv, NEW r \in Rows
  PROVE  /\ Rank(r) \in Nat /\ Rank(r) \in {2 * r.version, 2 * r.version + 1}
         /\ r.sign = 1 => Rank(r) = 2 * r.version
BY RowsOf DEF Rank

LEMMA InitOrdered == Init => Ordered
<1> SUFFICES ASSUME Init PROVE Ordered
  OBVIOUS
<1>1. Buffer = {} /\ Held(Worker) = {}
  BY NoRows DEF Init, Buffer, Held, Flusher, Free
<1> QED
  BY <1>1 DEF Ordered

\* A row added behind all rows of its session keeps the order.
LEMMA AddKeepsOrder ==
  ASSUME TypeInv, Ordered, NEW row \in Row, Add(row), UNCHANGED <<clickhouse, damaged>>,
         \A p \in Rows : Intact(p) => Before(p, row)
  PROVE  Ordered'
<1>1. /\ buffer' = buffer (+) SetToBag({row})
      /\ flusher'[Worker].batch = flusher[Worker].batch
  BY AddFacts DEF TypeInv, Flusher
<1>2. IsBagOf(buffer, Row)
  BY DEF TypeInv, Stores
<1>3. Buffer' = Buffer \cup {row}
  BY <1>1, <1>2, OneMore DEF Buffer
<1>4. Table' = Table /\ Held(Worker)' = Held(Worker)
  BY <1>1 DEF Table, Held
<1>5. \A r : r \in Table \/ r \in Held(Worker) => r \in Rows
  BY PlacesOf DEF Flusher
<1>6. /\ \A p, q : Before(p, q)' <=> Before(p, q)
      /\ \A r : Intact(r)' <=> Intact(r)
  BY DEF Before, Rank, Intact
<1> QED
  BY <1>3, <1>4, <1>5, <1>6 DEF Ordered

\* The tombstone comes behind every version of its session.
LEMMA TombstoneKeepsOrder ==
  ASSUME Inv, Ordered, AddTombstone
  PROVE  Ordered'
<1> USE DEF Inv
<1>1. PICK s : s = task.found
  OBVIOUS
<1>2. PICK x : x = Tombstone(s)
  OBVIOUS
<1>3. task.pc = "tombstone" /\ Add(x) /\ UNCHANGED <<clickhouse, damaged>>
  BY <1>1, <1>2 DEF AddTombstone
<1>4. s \in Row /\ s.sign = 1 /\ s.version \in Nat
  BY <1>1, <1>3, RowFacts DEF TypeInv, Handling
<1>5. Intact(s) => Current(s)
  BY <1>1, <1>3 DEF SessionInv, Looked, Known
<1>6. x \in Row /\ x.sign = -1 /\ x.session = s.session /\ x.version = s.version
  BY <1>2, <1>4, TombstoneFacts
<1>7. Rank(x) = 2 * s.version + 1
  BY <1>6 DEF Rank
<1>8. ASSUME NEW p \in Rows, Intact(p), p.session = x.session PROVE Rank(p) < Rank(x)
  <2>1. Intact(s) /\ Current(s)
    BY <1>5, <1>6, <1>8 DEF Intact
  <2>2. p.version <= s.version
    BY <1>6, <1>8, <2>1 DEF Current
  <2>3. p \in Row /\ p.version \in Nat /\ p.sign \in {-1, 1}
    BY RowsOf
  <2>4. CASE p.sign = 1
    BY <1>4, <1>7, <2>2, <2>3, <2>4, RankFacts
  <2>5. CASE p.sign = -1 /\ p.version < s.version
    BY <1>4, <1>7, <2>3, <2>5, RankFacts
  <2>6. CASE p.sign = -1 /\ p.version = s.version
    <3>1. State(p) \in Rows /\ State(p).sign = 1 /\ State(p).version = s.version
          /\ Tombstone(State(p)) = p
      BY <1>8, <2>3, <2>6, TombstoneFacts DEF SessionInv, Chained
    <3>2. State(p) = s
      BY <1>4, <2>1, <3>1 DEF SessionInv, Numbered, Current
    <3>3. Tombstone(s) \in Rows
      BY <3>1, <3>2
    <3> QED
      BY <1>1, <1>3, <1>4, <2>1, <3>3, RowsOf DEF SessionInv, Chained
  <2> QED
    BY <1>4, <2>2, <2>3, <2>4, <2>5, <2>6
<1> QED
  BY <1>3, <1>6, <1>8, AddKeepsOrder DEF Before

\* A new version comes behind every row.
LEMMA FinishKeepsOrder ==
  ASSUME Inv, Ordered, NEW u \in Row, u.sign = 1, u.version = version + 1, Finish(u)
  PROVE  Ordered'
<1> USE DEF Inv
<1>1. Add(u) /\ UNCHANGED <<clickhouse, damaged>>
  BY DEF Finish
<1>2. version \in Nat /\ Rank(u) = 2 * (version + 1)
  BY DEF TypeInv, Handling, Rank
<1>3. ASSUME NEW p \in Rows PROVE Rank(p) < Rank(u)
  <2>1. p.version \in Nat /\ p.version <= version /\ Rank(p) \in {2 * p.version, 2 * p.version + 1}
    BY RowsOf, RankFacts DEF SessionInv, Numbered
  <2> QED
    BY <1>2, <2>1
<1> QED
  BY <1>1, <1>3, AddKeepsOrder DEF Before

\* The worker's flushes keep the order of the rows.
LEMMA FlushKeepsOrder ==
  ASSUME TypeInv, Ordered, Flush(Worker) \/ Tick
  PROVE  Ordered'
<1> DEFINE batch == flusher[Worker].batch
           batchNext == flusher'[Worker].batch
<1>1. Worker \in Flusher
  BY DEF Flusher
<1>2. /\ Buffer' = BagToSet(buffer') /\ Table' = BagToSet(clickhouse')
      /\ Held(Worker)' = BagToSet(batchNext)
      /\ Buffer = BagToSet(buffer) /\ Table = BagToSet(clickhouse)
      /\ Held(Worker) = BagToSet(batch)
  BY DEF Buffer, Table, Held
<1>3. BagToSet(EmptyBag) = {}
  BY NoRows
<1>4. BagToSet(clickhouse (+) batch) = Table \cup Held(Worker)
  <2>1. IsBagOf(clickhouse, Row) /\ IsBagOf(batch, Row)
    BY <1>1 DEF TypeInv, Stores
  <2> HIDE DEF batch
  <2> QED
    BY <1>2, <2>1, TogetherRows
<1>5. /\ \A p, q : Before(p, q)' <=> Before(p, q)
      /\ \A r : Intact(r)' => Intact(r)
  <2>1. damaged \subseteq damaged'
    BY <1>1, FlusherMoves
  <2> QED
    BY <2>1 DEF Before, Rank, Intact
<1>6. SUFFICES
        /\ \A p, q : (p \in Table' \/ p \in Held(Worker)') /\ q \in Buffer' =>
             (p \in Table \/ p \in Held(Worker)) /\ q \in Buffer
        /\ \A p, q : p \in Table' /\ p \notin Held(Worker)' /\ q \in Held(Worker)' =>
             \/ (p \in Table \/ p \in Held(Worker)) /\ q \in Buffer
             \/ p \in Table /\ p \notin Held(Worker) /\ q \in Held(Worker)
  BY <1>5 DEF Ordered
<1> HIDE DEF batch, batchNext
<1>7. \/ buffer' = buffer /\ clickhouse' = clickhouse /\ batchNext = batch
      \/ batch = EmptyBag /\ clickhouse' = clickhouse /\ buffer' = EmptyBag /\ batchNext = buffer
      \/ buffer' = buffer /\ clickhouse' = clickhouse /\ batchNext = EmptyBag
      \/ buffer' = buffer /\ clickhouse' = clickhouse (+) batch /\ batchNext = EmptyBag
      \/ buffer' = buffer /\ clickhouse' = clickhouse (+) batch /\ batchNext = batch
  BY <1>1, FlusherMoves DEF batch, batchNext
<1> QED
  BY <1>2, <1>3, <1>4, <1>7

LEMMA StepOrdered == Inv /\ OnlyWorkerFlushes /\ Ordered /\ [Next]_vars => Ordered'
<1> SUFFICES ASSUME Inv, OnlyWorkerFlushes, Ordered, [Next]_vars PROVE Ordered'
  OBVIOUS
<1>1. TypeInv
  BY DEF Inv
<1>2. ASSUME UNCHANGED <<buffer, flusher, clickhouse, damaged>> PROVE Ordered'
  BY <1>2 DEF Ordered, Table, Held, Buffer, Intact, Before, Rank
<1>3. CASE \/ \E t \in Time, n \in Name : OnEvent(t, n)
           \/ LookUpPending \/ LookUpClickHouse \/ LookUpFails \/ Evict
  BY <1>2, <1>3 DEF OnEvent, LookUpPending, LookUpClickHouse, LookUpFails, Evict
<1>4. CASE Create
  <2>1. PICK u : u = NewSession(task.event)
    OBVIOUS
  <2>2. task.event \in Event
    BY <1>1, <1>4 DEF Create, TypeInv, Handling
  <2>3. u \in Row /\ u.sign = 1
    BY <1>1, <2>1, <2>2, SessionTyped
  <2>4. u.version = version + 1
    BY <2>1 DEF NewSession
  <2> QED
    BY <1>4, <2>1, <2>3, <2>4, FinishKeepsOrder DEF Create
<1>5. CASE AddTombstone
  BY <1>5, TombstoneKeepsOrder
<1>6. CASE AddUpdated
  <2>1. PICK u : u = Updated(task.found, task.event)
    OBVIOUS
  <2>2. task.event \in Event /\ task.found \in Row /\ task.found.sign = 1
    BY <1>1, <1>6 DEF AddUpdated, TypeInv, Handling
  <2>3. u \in Row /\ u.sign = 1
    BY <1>1, <2>1, <2>2, SessionTyped
  <2>4. u.version = version + 1
    BY <2>1 DEF Updated
  <2> QED
    BY <1>6, <2>1, <2>3, <2>4, FinishKeepsOrder DEF AddUpdated
<1>7. CASE Tick \/ Flush(Worker)
  BY <1>1, <1>7, FlushKeepsOrder
<1>8. ASSUME NEW f \in Slot, Flush(f) PROVE FALSE
  BY <1>8 DEF OnlyWorkerFlushes, Flush, Take, InsertOk, InsertUnacknowledged, GiveUp
<1>9. CASE UNCHANGED vars
  BY <1>2, <1>9 DEF vars
<1> QED
  BY <1>3, <1>4, <1>5, <1>6, <1>7, <1>8, <1>9 DEF Next, HandleEvent, Flusher

\* A version in the table that is not in memory is older than any row in memory.
LEMMA Behind ==
  ASSUME Inv, OnlyWorkerFlushes, Ordered, NEW p \in Table, p \notin Pending,
         NEW q \in Pending, p.session = q.session, Intact(p)
  PROVE  Rank(p) < Rank(q)
BY InMemory DEF Inv, Ordered, Before

\* The latest version in memory is the current one: FindPendingAt misses nothing.
LEMMA PendingIsCurrent ==
  ASSUME Inv, OnlyWorkerFlushes, Ordered, NEW t, NEW r \in FindPendingAt(t), Intact(r)
  PROVE  Current(r)
<1> USE DEF Inv
<1>1. /\ r \in Pending /\ r.sign = 1 /\ r \in Rows
      /\ \A q \in Pending : q.sign = 1 /\ q.session = r.session => q.version <= r.version
  BY DEF FindPendingAt, Rows
<1>2. ASSUME NEW q \in Rows, q.session = r.session PROVE q.version <= r.version
  <2>1. PICK s : s = State(q)
    OBVIOUS
  <2>2. Intact(q)
    BY <1>2 DEF Intact
  <2>3. s \in Rows /\ s.sign = 1 /\ s.session = r.session /\ s.version = q.version
    BY <1>2, <2>1, <2>2, RowsOf, TombstoneFacts DEF SessionInv, Chained
  <2>4. CASE s \in Pending
    BY <1>1, <2>3, <2>4
  <2>5. CASE s \notin Pending
    <3>1. s \in Table /\ Intact(s)
      BY <2>3, <2>5 DEF Rows, Intact
    <3>2. Rank(s) < Rank(r)
      BY <1>1, <2>3, <2>5, <3>1, Behind
    <3>3. Rank(s) = 2 * s.version /\ Rank(r) = 2 * r.version
      BY <1>1, <2>3 DEF Rank
    <3>4. s.version \in Nat /\ r.version \in Nat
      BY <1>1, <2>3, RowsOf
    <3> QED
      BY <2>3, <3>2, <3>3, <3>4
  <2> QED
    BY <2>4, <2>5
<1> QED
  BY <1>1, <1>2 DEF Current

\* A version that a query sees without its tombstone: it is the current one, or its
\* tombstone and all that is newer are still in memory.
LEMMA SeenIsCurrent ==
  ASSUME Inv, OnlyWorkerFlushes, Ordered, NEW r \in Collapsed(clickhouse), Intact(r)
  PROVE  /\ r \in Table /\ r \in Rows /\ r.sign = 1
         /\ ~Current(r) =>
              \A q \in Table : q.session = r.session => Rank(q) < Rank(Tombstone(r))
<1> USE DEF Inv
<1>1. /\ r \in Table /\ r.sign = 1 /\ Copies(r, clickhouse) > Copies(Tombstone(r), clickhouse)
  BY DEF Collapsed, Table
<1>2. r \in Rows /\ Tombstone(r) \in Row /\ Tombstone(r).session = r.session
  BY <1>1, RowsOf, TombstoneFacts DEF Rows
<1>3. Tombstone(r) \notin Table
  <2>1. Copies(r, clickhouse) <= 1
    BY <1>2 DEF SessionInv, Placed, OnePlace
  <2>2. /\ Copies(r, clickhouse) \in Nat /\ Copies(Tombstone(r), clickhouse) \in Nat
        /\ (Tombstone(r) \in Table <=> Copies(Tombstone(r), clickhouse) > 0)
    BY PlacesOf
  <2> QED
    BY <1>1, <2>1, <2>2
<1>4. ASSUME ~Current(r)
      PROVE  Tombstone(r) \in Pending
  <2>1. Tombstone(r) \in Rows
    BY <1>1, <1>2, <1>4 DEF SessionInv, Chained
  <2> QED
    BY <1>3, <2>1 DEF Rows
<1>5. ASSUME NEW q \in Table, q.session = r.session, Tombstone(r) \in Pending
      PROVE  Rank(q) < Rank(Tombstone(r))
  <2>1. /\ Intact(q) /\ Intact(Tombstone(r)) /\ q \in Rows /\ Tombstone(r) \in Rows
        /\ Tombstone(r) \in Buffer \/ Tombstone(r) \in Held(Worker)
    BY <1>2, <1>5, InMemory DEF Intact, Rows
  <2>2. CASE Tombstone(r) \in Buffer \/ q \notin Held(Worker)
    BY <1>2, <1>5, <2>1, <2>2 DEF Ordered, Before
  <2>3. CASE Tombstone(r) \in Held(Worker) /\ q \in Held(Worker)
    <3>1. flusher[Worker].landed
      BY <1>5, <2>1, <2>3 DEF SessionInv, Placed, OnePlace, Flusher
    <3>2. Tombstone(r) \in Table
      BY <2>1, <2>3, <3>1 DEF SessionInv, Placed, OnePlace, Flusher
    <3> QED
      BY <1>3, <3>2
  <2> QED
    BY <2>1, <2>2, <2>3
<1> QED
  BY <1>1, <1>2, <1>4, <1>5

\* If the current version of the session cannot be in memory, it is the one seen.
LEMMA SeenUnlessPending ==
  ASSUME Inv, OnlyWorkerFlushes, Ordered, NEW r \in Collapsed(clickhouse), Intact(r)
  PROVE  \/ Current(r)
         \/ \E c \in Pending : /\ Current(c) /\ c.session = r.session /\ c \notin Table
                              /\ c.start = r.start /\ r.timestamp <= c.timestamp
<1> USE DEF Inv
<1> SUFFICES ASSUME ~Current(r)
             PROVE  \E c \in Pending : /\ Current(c) /\ c.session = r.session /\ c \notin Table
                                      /\ c.start = r.start /\ r.timestamp <= c.timestamp
  OBVIOUS
<1>1. r \in Table /\ r \in Rows /\ r.sign = 1
  BY SeenIsCurrent
<1>2. \A q \in Table : q.session = r.session => Rank(q) < Rank(Tombstone(r))
  BY SeenIsCurrent
<1>3. PICK c \in Rows : c.session = r.session /\ Current(c)
  BY <1>1 DEF SessionInv, Chained
<1>4. r.version <= c.version /\ c.sign = 1
  BY <1>1, <1>3 DEF Current
<1>5. r.version \in Nat /\ c.version \in Nat
  BY <1>1, <1>3, RowsOf
<1>6. r.version # c.version
  BY <1>1, <1>3, <1>4 DEF SessionInv, Numbered
<1>7. Rank(c) = 2 * c.version /\ Rank(Tombstone(r)) = 2 * r.version + 1
  BY <1>1, <1>4, RowsOf, TombstoneFacts DEF Rank
<1>8. c \notin Table
  BY <1>2, <1>3, <1>4, <1>5, <1>6, <1>7
<1>9. c.start = r.start /\ r.timestamp <= c.timestamp
  BY <1>1, <1>3, <1>4 DEF SessionInv, Chained
<1> QED
  BY <1>3, <1>8, <1>9 DEF Rows

\* No lookup returns an older version.
LEMMA OrderFindsCurrent == Inv /\ OnlyWorkerFlushes /\ Ordered => FindsCurrent
<1> SUFFICES ASSUME Inv, OnlyWorkerFlushes, Ordered, Found # {}, Intact(Newest(Found))
             PROVE  Current(Newest(Found))
  BY DEF FindsCurrent
<1>1. PICK t : t = task.event.time
  OBVIOUS
<1>2. PICK s : s = Newest(Found)
  OBVIOUS
<1>3. \/ task.pc = "pending" /\ Found = FindPendingAt(t)
      \/ task.pc = "query" /\ Found = GetActiveSessionAt(t)
  BY <1>1 DEF Found
<1>4. /\ Found \in SUBSET Rows
      /\ \A r \in Found : Contains(r, t)
  BY <1>3, FoundTyped DEF Inv
<1>5. s \in Found
  BY <1>2, <1>4, NewestIsOne DEF Inv, TypeInv
<1>6. CASE task.pc = "pending" /\ Found = FindPendingAt(t)
  BY <1>2, <1>5, <1>6, PendingIsCurrent
<1>7. CASE task.pc = "query" /\ Found = GetActiveSessionAt(t)
  <2> SUFFICES ASSUME ~Current(s) PROVE FALSE
    BY <1>2
  <2>1. s \in Rows /\ Contains(s, t) /\ s \in Collapsed(clickhouse)
    BY <1>4, <1>5, <1>7 DEF GetActiveSessionAt
  <2>2. PICK c \in Pending : /\ Current(c) /\ c.start = s.start /\ s.timestamp <= c.timestamp
    BY <1>2, <2>1, SeenUnlessPending
  <2>3. t \in Nat
    BY <1>1, <1>7, SessionAssumption DEF Inv, TypeInv, Handling, Event
  <2>4. c \in Row /\ s.timestamp \in Nat /\ c.timestamp \in Nat
    BY <2>1, <2>2, RowsOf DEF Inv, Rows
  <2>5. s.start <= t /\ t <= s.timestamp + Inactivity
    BY <2>1 DEF Contains
  <2>6. c.start <= t /\ t <= c.timestamp + Inactivity
    BY <2>2, <2>3, <2>4, <2>5, SessionAssumption
  <2>7. c # None
    BY <2>4, SessionAssumption
  <2>8. ~Contains(c, t)
    BY <1>1, <1>7, <2>2 DEF Inv, SessionInv, Looked
  <2> QED
    BY <2>6, <2>7, <2>8 DEF Contains
<1> QED
  BY <1>3, <1>6, <1>7

\* No query sees a session twice.
LEMMA OrderSeenOnce == Inv /\ OnlyWorkerFlushes /\ Ordered => NeverSeenTwice
<1> SUFFICES ASSUME Inv, OnlyWorkerFlushes, Ordered,
                    NEW r \in Collapsed(clickhouse), NEW q \in Collapsed(clickhouse),
                    r.session = q.session, Intact(r)
             PROVE  r = q
  BY DEF NeverSeenTwice, Intact
<1> USE DEF Inv
<1>1. Intact(q)
  BY DEF Intact
<1>2. ASSUME NEW a \in Collapsed(clickhouse), NEW b \in Collapsed(clickhouse),
             a.session = b.session, Intact(a), Intact(b)
      PROVE  b.version <= a.version
  <2>1. a \in Table /\ a \in Rows /\ a.sign = 1 /\ b \in Table /\ b \in Rows /\ b.sign = 1
    BY <1>2, SeenIsCurrent
  <2>2. CASE Current(a)
    BY <1>2, <2>1, <2>2 DEF Current
  <2>3. CASE ~Current(a)
    <3>1. Rank(b) < Rank(Tombstone(a))
      BY <1>2, <2>1, <2>3, SeenIsCurrent
    <3>2. Rank(b) = 2 * b.version /\ Rank(Tombstone(a)) = 2 * a.version + 1
      BY <2>1, RowsOf, TombstoneFacts DEF Rank
    <3>3. a.version \in Nat /\ b.version \in Nat
      BY <2>1, RowsOf
    <3> QED
      BY <3>1, <3>2, <3>3
  <2> QED
    BY <2>2, <2>3
<1>3. r.version <= q.version /\ q.version <= r.version
  BY <1>1, <1>2
<1>4. r \in Rows /\ q \in Rows /\ r.sign = 1 /\ q.sign = 1
  BY <1>1, SeenIsCurrent
<1>5. r.version = q.version
  BY <1>3, <1>4, RowsOf
<1> QED
  BY <1>4, <1>5 DEF SessionInv, Numbered

LEMMA InvariantInOrder == Spec /\ []OnlyWorkerFlushes => [](Inv /\ Ordered)
<1>1. Init => Inv /\ Ordered
  BY InitInv, InitOrdered
<1>2. (Inv /\ Ordered) /\ OnlyWorkerFlushes /\ [Next]_vars => (Inv /\ Ordered)'
  BY StepInv, StepOrdered, OrderFindsCurrent
<1> QED
  BY <1>1, <1>2, PTL DEF Spec

\* While one goroutine flushes no lookup returns a version that has been superseded,
\* wherever its rows are.
THEOREM LookupsInOrder == Spec /\ []OnlyWorkerFlushes => []FindsCurrent
BY InvariantInOrder, OrderFindsCurrent, PTL

\* While one goroutine flushes: between events the rows written for a session, wherever
\* they are, cancel down to one version, whatever the order of events, cache misses,
\* retries and lost batches of other sessions.
THEOREM OneVersionInOrder == Spec /\ []OnlyWorkerFlushes => []OneCurrentVersion
BY LookupsInOrder, OneVersionWhileCurrent, PTL

\* That version accounts for every event of the session.
THEOREM EventsAreCounted == Spec /\ []OnlyWorkerFlushes => []AccountsForItsEvents
BY LookupsInOrder, CountedWhileCurrent, PTL

\* A cached session is never an older version.
THEOREM CachedInOrder == Spec /\ []OnlyWorkerFlushes => []CacheIsCurrent
BY LookupsInOrder, CachedWhileCurrent, PTL

\* Under the quiet load of the run, when one goroutine flushes, a query never sees a
\* session twice.
THEOREM NeverTwiceInOrder == MCSpec /\ []OnlyWorkerFlushes => []SeenOnceInOrder
<1>1. MCInit => (load = "quiet" => Inv /\ Ordered)
  BY InitInv, InitOrdered DEF MCInit
<1>2. (load = "quiet" => Inv /\ Ordered) /\ OnlyWorkerFlushes /\ [MCNext]_<<load, vars>>
        => (load = "quiet" => Inv /\ Ordered)'
  BY StepInv, StepOrdered, OrderFindsCurrent DEF MCNext
<1>3. (load = "quiet" => Inv /\ Ordered) /\ OnlyWorkerFlushes => SeenOnceInOrder
  BY OrderSeenOnce DEF SeenOnceInOrder
<1> QED
  BY <1>1, <1>2, <1>3, PTL DEF MCSpec

-----------------------------------------------------------------------------
(* Any number of goroutines that flush, but events in the order of their     *)
(* time and a cache that keeps the visitor.  What is cached is then the last *)
(* version of all, and an event that it does not contain is later than all   *)
(* there is: lookups find nothing.                                           *)

\* The event in the worker is no earlier than those handled before.
OnTime == task.pc # "idle" => \A e \in attributed : e.time <= task.event.time

NoEviction == evicted = 0

\* The cached session is the last one, and nothing found is another.
Remembered ==
  /\ cache = None => Rows = {}
  /\ cache # None =>
       /\ cache.start <= cache.timestamp
       /\ \E e \in attributed : e.time = cache.timestamp
       /\ \A r \in Rows : r.timestamp <= cache.timestamp
  /\ task.pc \in {"pending", "query", "create"} => ~Contains(cache, task.event.time)
  /\ task.pc \in {"tombstone", "update"} => task.found = cache

\* An event that the cached session does not contain is later than its window.
LEMMA LaterThanCached ==
  ASSUME TypeInv, Remembered, OnTime, task.pc \in {"pending", "query", "create"},
         cache # None
  PROVE  /\ cache \in Row /\ task.event.time \in Nat
         /\ cache.timestamp + Inactivity < task.event.time
<1>1. task.event.time \in Nat
  BY SessionAssumption DEF TypeInv, Handling, Event
<1>2. cache \in Row
  BY DEF TypeInv, Handling
<1>3. cache.start \in Nat /\ cache.timestamp \in Nat
  BY <1>2, RowFacts
<1>4. cache.start <= cache.timestamp /\ cache.timestamp <= task.event.time
  BY DEF Remembered, OnTime
<1>5. ~(task.event.time <= cache.timestamp + Inactivity)
  BY <1>1, <1>3, <1>4 DEF Remembered, Contains
<1> QED
  BY <1>1, <1>2, <1>3, <1>5, SessionAssumption

\* A lookup finds no row, neither in memory nor in ClickHouse.
LEMMA NothingToFind ==
  ASSUME TypeInv, Remembered, OnTime, task.pc \in {"pending", "query"}
  PROVE  /\ FindPendingAt(task.event.time) = {}
         /\ GetActiveSessionAt(task.event.time) = {}
<1>1. PICK t : t = task.event.time
  OBVIOUS
<1>2. ASSUME NEW r \in Rows, Contains(r, t) PROVE FALSE
  <2>1. cache # None
    BY <1>2 DEF Remembered
  <2>2. cache \in Row /\ t \in Nat /\ cache.timestamp + Inactivity < t
    BY <1>1, <2>1, LaterThanCached
  <2>3. cache.timestamp \in Nat /\ r.timestamp \in Nat /\ r.timestamp <= cache.timestamp
    BY <2>1, <2>2, RowFacts, RowsOf DEF Remembered
  <2>4. t <= r.timestamp + Inactivity
    BY <1>2 DEF Contains
  <2> QED
    BY <2>2, <2>3, <2>4, SessionAssumption
<1> QED
  BY <1>1, <1>2, FoundTyped

\* The state that an event leaves is the cached one, and the last.
LEMMA FinishRemembers ==
  ASSUME TypeInv, Remembered, NEW u \in Row, u.start <= u.timestamp,
         u.timestamp = task.event.time \/ (cache # None /\ u.timestamp = cache.timestamp),
         cache # None => u.timestamp >= cache.timestamp,
         Finish(u)
  PROVE  Remembered'
<1>1. Rows' = Rows \cup {u}
  BY AddFacts DEF Finish, TypeInv
<1>2. PICK e : /\ e = [session |-> u.session, number |-> version + 1,
                       time |-> task.event.time, name |-> task.event.name]
               /\ attributed' = attributed \cup {e}
  BY DEF Finish
<1>3. e.time = task.event.time
  BY <1>2
<1>4. cache' = u /\ task'.pc = "idle" /\ u # None
  BY SessionAssumption DEF Finish, UpdateCache, Idle
<1>5. ASSUME NEW r \in Rows PROVE r.timestamp <= u.timestamp
  <2>1. cache # None /\ r.timestamp <= cache.timestamp
    BY DEF Remembered
  <2>2. cache \in Row
    BY <2>1 DEF TypeInv, Handling
  <2>3. r.timestamp \in Nat /\ cache.timestamp \in Nat /\ u.timestamp \in Nat
    BY <2>2, RowFacts, RowsOf
  <2> QED
    BY <2>1, <2>3
<1>6. \E a \in attributed' : a.time = u.timestamp
  BY <1>2, <1>3 DEF Remembered
<1>7. u.timestamp <= u.timestamp
  BY RowFacts
<1> QED
  BY <1>1, <1>4, <1>5, <1>6, <1>7 DEF Remembered

LEMMA StepRemembered ==
  ASSUME TypeInv, Remembered, OnTime, NoEviction, NoEviction', [Next]_vars
  PROVE  Remembered'
<1>1. ASSUME Rows' \subseteq Rows, UNCHANGED <<cache, attributed>>,
             \/ UNCHANGED task
             \/ task'.pc = "idle"
             \/ task'.pc \in {"pending", "query", "create"} /\ ~Contains(cache, task'.event.time)
             \/ task'.pc = "tombstone" /\ task'.found = cache
      PROVE  Remembered'
  BY <1>1 DEF Remembered, Contains
<1>2. ASSUME UNCHANGED <<buffer, flusher, clickhouse>> PROVE Rows' \subseteq Rows
  BY <1>2 DEF Rows, Pending, Table
<1>3. ASSUME NEW t \in Time, NEW n \in Name, OnEvent(t, n) PROVE Remembered'
  <2>1. PICK e : e = [time |-> t, name |-> n]
    OBVIOUS
  <2>2. e.time = t
    BY <2>1
  <2>3. \/ Contains(cache, t) /\ Goto("tombstone", e, cache)
        \/ ~Contains(cache, t) /\ Goto("pending", e, None)
    BY <1>3, <2>1 DEF OnEvent
  <2>4. \/ task'.pc = "tombstone" /\ task'.found = cache
        \/ task'.pc = "pending" /\ ~Contains(cache, task'.event.time)
    BY <2>2, <2>3 DEF Goto
  <2> QED
    BY <1>1, <1>2, <1>3, <2>4 DEF OnEvent
<1>4. CASE LookUpPending
  <2>1. task.pc = "pending" /\ FindPendingAt(task.event.time) = {}
    BY <1>4, NothingToFind DEF LookUpPending
  <2>2. task'.pc = "query" /\ task'.event = task.event
    BY <1>4, <2>1 DEF LookUpPending, Goto
  <2>3. ~Contains(cache, task.event.time)
    BY <2>1 DEF Remembered
  <2> QED
    BY <1>1, <1>2, <1>4, <2>2, <2>3 DEF LookUpPending
<1>5. CASE LookUpClickHouse
  <2>1. task.pc = "query" /\ GetActiveSessionAt(task.event.time) = {}
    BY <1>5, NothingToFind DEF LookUpClickHouse
  <2>2. task'.pc = "idle" \/ (task'.pc = "create" /\ task'.event = task.event)
    BY <1>5, <2>1 DEF LookUpClickHouse, Goto, Idle
  <2>3. ~Contains(cache, task.event.time)
    BY <2>1 DEF Remembered
  <2> QED
    BY <1>1, <1>2, <1>5, <2>2, <2>3 DEF LookUpClickHouse
<1>6. CASE LookUpFails
  BY <1>1, <1>2, <1>6 DEF LookUpFails, Idle
<1>7. CASE Create
  <2>1. PICK u : u = NewSession(task.event)
    OBVIOUS
  <2>2. task.pc = "create" /\ task.event \in Event /\ Finish(u)
    BY <1>7, <2>1 DEF Create, TypeInv, Handling
  <2>3. u \in Row
    BY <2>1, <2>2, SessionTyped
  <2>4. u.start = task.event.time /\ u.timestamp = task.event.time
    BY <2>1 DEF NewSession
  <2>5. task.event.time \in Nat
    BY <2>2, SessionAssumption DEF Event
  <2>6. cache # None => task.event.time >= cache.timestamp
    <3> SUFFICES ASSUME cache # None PROVE task.event.time >= cache.timestamp
      OBVIOUS
    <3>1. cache \in Row /\ cache.timestamp + Inactivity < task.event.time
      BY <2>2, LaterThanCached
    <3>2. cache.timestamp \in Nat
      BY <3>1, RowFacts
    <3> QED
      BY <2>5, <3>1, <3>2, SessionAssumption
  <2> QED
    BY <2>2, <2>3, <2>4, <2>5, <2>6, FinishRemembers
<1>8. CASE AddTombstone
  <2>1. PICK s : s = task.found
    OBVIOUS
  <2>2. /\ Add(Tombstone(s)) /\ UNCHANGED <<cache, attributed, clickhouse>>
        /\ s \in Row /\ s = cache
    BY <1>8, <2>1 DEF AddTombstone, TypeInv, Handling, Remembered
  <2>3. Tombstone(s) \in Row /\ Tombstone(s).timestamp = s.timestamp /\ s.timestamp \in Nat
    BY <2>2, TombstoneFacts, RowFacts
  <2>4. Rows' = Rows \cup {Tombstone(s)}
    BY <2>2, <2>3, AddFacts DEF TypeInv
  <2>5. task'.pc = "update" /\ task'.found = cache
    BY <1>8, <2>1, <2>2 DEF AddTombstone, Goto
  <2>6. cache # None
    BY <2>2, SessionAssumption
  <2>7. \A r \in Rows' : r.timestamp <= cache.timestamp
    BY <2>2, <2>3, <2>4, <2>6 DEF Remembered
  <2> QED
    BY <2>2, <2>5, <2>6, <2>7 DEF Remembered
<1>9. CASE AddUpdated
  <2>1. PICK u : u = Updated(task.found, task.event)
    OBVIOUS
  <2>2. /\ task.event \in Event /\ Finish(u)
        /\ task.found \in Row /\ task.found.sign = 1 /\ task.found = cache
    BY <1>9, <2>1 DEF AddUpdated, TypeInv, Handling, Remembered
  <2>3. u \in Row
    BY <2>1, <2>2, SessionTyped
  <2>4. /\ u.start = cache.start
        /\ u.timestamp = IF task.event.time > cache.timestamp THEN task.event.time
                                                              ELSE cache.timestamp
    BY <2>1, <2>2 DEF Updated
  <2>5. task.event.time \in Nat /\ cache.timestamp \in Nat /\ cache.start \in Nat /\ cache # None
    BY <2>2, RowFacts, SessionAssumption DEF Event
  <2>6. cache.start <= cache.timestamp
    BY <2>5 DEF Remembered
  <2>7. u.start <= u.timestamp /\ u.timestamp >= cache.timestamp
    BY <2>4, <2>5, <2>6
  <2> QED
    BY <2>2, <2>3, <2>4, <2>5, <2>7, FinishRemembers
<1>10. CASE Evict
  BY <1>10 DEF Evict, NoEviction
<1>11. ASSUME NEW f \in Flusher, Flush(f) \/ (f = Worker /\ Tick) PROVE Remembered'
  <2>1. Rows' \subseteq Rows
    BY <1>11, FlushFacts DEF TypeInv
  <2>2. UNCHANGED <<cache, attributed, task>>
    BY <1>11 DEF Flush, Tick, Take, InsertOk, InsertUnacknowledged, GiveUp
  <2> QED
    BY <1>1, <2>1, <2>2
<1>12. CASE UNCHANGED vars
  BY <1>1, <1>2, <1>12 DEF vars
<1> QED
  BY <1>3, <1>4, <1>5, <1>6, <1>7, <1>8, <1>9, <1>10, <1>11, <1>12 DEF Next, HandleEvent, Flusher

LEMMA RememberedFindsCurrent ==
  TypeInv /\ Remembered /\ OnTime => FindsCurrent
BY NothingToFind DEF FindsCurrent, Found

\* While events come in the order of their time and the cache keeps the visitor, no
\* lookup returns a version that has been superseded, however many goroutines flush
\* and overtake each other: with OneVersionWhileCurrent, a session splits only after an
\* eviction or for a late event.
THEOREM LookupsOnTime == Spec /\ []NoEviction /\ []OnTime => []FindsCurrent
<1>1. Init => Remembered
  BY InitInv, NoRows DEF Init, Remembered, Rows, Pending, Table, Free, Idle
<1>2. TypeInv /\ Remembered /\ OnTime /\ NoEviction /\ NoEviction' /\ [Next]_vars => Remembered'
  BY StepRemembered
<1> QED
  BY <1>1, <1>2, TypesInvariant, RememberedFindsCurrent, PTL DEF Spec

\* Under the same conditions: one current version for every session.
THEOREM OneVersionOnTime == Spec /\ []NoEviction /\ []OnTime => []OneCurrentVersion
BY LookupsOnTime, OneVersionWhileCurrent, PTL
=============================================================================
