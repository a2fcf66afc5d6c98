---------------------------- MODULE HandOverProofs ----------------------------
(***************************************************************************)
(* What holds wherever an event waits for another goroutine, for every     *)
(* number of calls, workers, adjusters and requests, and every limit: one  *)
(* section for each component, and at the end the four together.  What     *)
(* holds of the queue is in DynamicQueueProofs.                            *)
(***************************************************************************)
EXTENDS MCHandOver, DynamicQueueProofs, FiniteSetTheorems, SequenceTheorems, TLAPS

-----------------------------------------------------------------------------
(* Balancer: the channels hold waiting calls without repetition (TypeOK);   *)
(* from there a worker that starts a call when it runs none runs one call   *)
(* at a time, and a call is started once.                                   *)

\* A worker runs at most one call.
OnePerWorker ==
  \A c, d \in Call :
    pc[c] = "running" /\ pc[d] = "running" /\ WorkerOf[c] = WorkerOf[d] => c = d

\* How often a function was started follows from where its caller is.
RanOnce ==
  \A c \in Call : ran[c] = IF pc[c] \in {"running", "done", "returned"} THEN 1 ELSE 0

BalInv == Bal!TypeOK /\ OnePerWorker /\ RanOnce

LEMMA BalInit == ASSUME Bal!BalancerConstants, Bal!Init PROVE BalInv
BY DEF Bal!BalancerConstants, Bal!Init, BalInv, Bal!TypeOK, OnePerWorker, RanOnce

\* A call that moves, other than into or out of a channel or a worker, disturbs
\* nothing: its old and new place are outside both.
LEMMA MoveOutside ==
  ASSUME BalInv, NEW c \in Call, NEW p,
         pc[c] # "queued",
         p \in {"sending", "done", "returned", "refused"},
         pc[c] \in {"running", "done", "returned"} <=> p \in {"done", "returned"},
         pc' = [pc EXCEPT ![c] = p],
         UNCHANGED <<tasks, ran>>
  PROVE  BalInv'
<1> USE DEF BalInv
<1>1. Bal!TypeOK'
  <2>1. pc' \in [Call -> {"new", "sending", "queued", "running", "done", "returned", "refused"}]
    BY DEF Bal!TypeOK
  <2>2. \A w \in Worker : \A i \in 1..Len(tasks[w]) :
          tasks[w][i] \in Call /\ pc'[tasks[w][i]] = pc[tasks[w][i]]
    BY DEF Bal!TypeOK
  <2>3. \A w \in Worker : \A i \in 1..Len(tasks[w]) :
          pc'[tasks[w][i]] = "queued" /\ WorkerOf[tasks[w][i]] = w
    BY <2>2 DEF Bal!TypeOK
  <2> QED
    BY <2>1, <2>3 DEF Bal!TypeOK
<1>2. OnePerWorker'
  BY DEF Bal!TypeOK, OnePerWorker
<1>3. RanOnce'
  BY DEF Bal!TypeOK, RanOnce
<1> QED
  BY <1>1, <1>2, <1>3

LEMMA SendStep == ASSUME Bal!BalancerConstants, BalInv, NEW c \in Call, Bal!Send(c) PROVE BalInv'
<1> DEFINE w == WorkerOf[c]
<1> USE DEF BalInv, Bal!Send
<1>1. w \in Worker /\ tasks[w] \in Seq(Call) /\ tasks' \in [Worker -> Seq(Call)]
  <2>1. w \in Worker
    BY DEF Bal!BalancerConstants
  <2>2. tasks \in [Worker -> Seq(Call)] /\ tasks[w] \in Seq(Call)
    BY <2>1 DEF Bal!TypeOK
  <2>3. Append(tasks[w], c) \in Seq(Call)
    BY <2>2
  <2>4. tasks' = [tasks EXCEPT ![w] = Append(tasks[w], c)]
    BY <2>1, <2>2
  <2> HIDE DEF w
  <2> QED
    BY <2>1, <2>2, <2>3, <2>4
<1>2. \A v \in Worker : tasks'[v] = IF v = w THEN Append(tasks[w], c) ELSE tasks[v]
  BY <1>1 DEF Bal!TypeOK
<1>3. \A v \in Worker : \A i \in 1..Len(tasks[v]) : tasks[v][i] \in Call /\ tasks[v][i] # c
  BY DEF Bal!TypeOK
<1>4. pc' \in [Call -> {"new", "sending", "queued", "running", "done", "returned", "refused"}]
  BY DEF Bal!TypeOK
<1>5. \A v \in Worker :
        /\ Len(tasks'[v]) <= Capacity
        /\ \A i \in 1..Len(tasks'[v]) : pc'[tasks'[v][i]] = "queued" /\ WorkerOf[tasks'[v][i]] = v
        /\ \A i, j \in 1..Len(tasks'[v]) : tasks'[v][i] = tasks'[v][j] => i = j
  <2> SUFFICES ASSUME NEW v \in Worker
               PROVE  /\ Len(tasks'[v]) <= Capacity
                      /\ \A i \in 1..Len(tasks'[v]) :
                           pc'[tasks'[v][i]] = "queued" /\ WorkerOf[tasks'[v][i]] = v
                      /\ \A i, j \in 1..Len(tasks'[v]) : tasks'[v][i] = tasks'[v][j] => i = j
    OBVIOUS
  <2>1. CASE v # w
    BY <2>1, <1>2, <1>3 DEF Bal!TypeOK
  <2>2. CASE v = w
    <3>1. Len(tasks'[v]) = Len(tasks[v]) + 1 /\ Len(tasks[v]) \in Nat
      BY <2>2, <1>1, <1>2
    <3>2. \A i \in 1..Len(tasks'[v]) :
            tasks'[v][i] = IF i = Len(tasks[v]) + 1 THEN c ELSE tasks[v][i]
      BY <2>2, <1>1, <1>2, <3>1
    <3>3. Len(tasks'[v]) <= Capacity
      BY <2>2, <3>1 DEF Bal!TypeOK, Bal!BalancerConstants
    <3>4. \A i \in 1..Len(tasks'[v]) : i # Len(tasks[v]) + 1 => i \in 1..Len(tasks[v])
      BY <3>1
    <3>5. \A i \in 1..Len(tasks'[v]) : pc'[tasks'[v][i]] = "queued" /\ WorkerOf[tasks'[v][i]] = v
      BY <2>2, <3>2, <3>4, <1>3 DEF Bal!TypeOK
    <3>6. \A i, j \in 1..Len(tasks'[v]) : tasks'[v][i] = tasks'[v][j] => i = j
      BY <3>2, <3>4, <1>3 DEF Bal!TypeOK
    <3> QED
      BY <3>3, <3>5, <3>6
  <2> QED
    BY <2>1, <2>2
<1>6. OnePerWorker' /\ RanOnce'
  BY DEF Bal!TypeOK, OnePerWorker, RanOnce
<1> QED
  BY <1>1, <1>4, <1>5, <1>6 DEF Bal!TypeOK

LEMMA StartStep == ASSUME Bal!BalancerConstants, BalInv, NEW w \in Worker, Bal!Start(w) PROVE BalInv'
<1> DEFINE c == Head(tasks[w])
<1> USE DEF BalInv, Bal!Start
<1>1. tasks[w] \in Seq(Call) /\ Len(tasks[w]) \in Nat /\ Len(tasks[w]) > 0
  BY DEF Bal!TypeOK
<1>2. c = tasks[w][1] /\ c \in Call /\ 1 \in 1..Len(tasks[w])
  BY <1>1
<1>3. pc[c] = "queued" /\ WorkerOf[c] = w
  BY <1>2 DEF Bal!TypeOK
<1>4. /\ tasks' \in [Worker -> Seq(Call)]
      /\ \A v \in Worker : tasks'[v] = IF v = w THEN Tail(tasks[w]) ELSE tasks[v]
  BY <1>1 DEF Bal!TypeOK
<1>5. /\ Len(tasks'[w]) = Len(tasks[w]) - 1
      /\ \A i \in 1..Len(tasks'[w]) : tasks'[w][i] = tasks[w][i + 1] /\ i + 1 \in 1..Len(tasks[w])
  BY <1>1, <1>4
<1>6. /\ pc' \in [Call -> {"new", "sending", "queued", "running", "done", "returned", "refused"}]
      /\ \A d \in Call : pc'[d] = IF d = c THEN "running" ELSE pc[d]
  BY <1>2 DEF Bal!TypeOK
<1>7. ran' \in [Call -> Nat] /\ \A d \in Call : ran'[d] = IF d = c THEN ran[d] + 1 ELSE ran[d]
  BY <1>2 DEF Bal!TypeOK
<1>8. \A v \in Worker : \A i \in 1..Len(tasks'[v]) :
        tasks'[v][i] \in Call /\ pc[tasks'[v][i]] = "queued" /\ WorkerOf[tasks'[v][i]] = v
  BY <1>4, <1>5 DEF Bal!TypeOK
<1>9. \A v \in Worker : \A i \in 1..Len(tasks'[v]) : tasks'[v][i] # c
  <2>1. \A i \in 1..Len(tasks'[w]) : tasks'[w][i] # c
    BY <1>2, <1>5 DEF Bal!TypeOK
  <2>2. ASSUME NEW v \in Worker, v # w, NEW i \in 1..Len(tasks'[v]) PROVE tasks'[v][i] # c
    <3>1. WorkerOf[tasks'[v][i]] = v
      BY <1>8
    <3> QED
      BY <3>1, <1>3, <2>2
  <2> QED
    BY <2>1, <2>2
<1>10. \A v \in Worker :
         /\ Len(tasks'[v]) <= Capacity
         /\ \A i, j \in 1..Len(tasks'[v]) : tasks'[v][i] = tasks'[v][j] => i = j
  <2>1. Len(tasks'[w]) <= Capacity
    BY <1>1, <1>5 DEF Bal!TypeOK, Bal!BalancerConstants
  <2>2. \A i, j \in 1..Len(tasks'[w]) : tasks'[w][i] = tasks'[w][j] => i = j
    <3> SUFFICES ASSUME NEW i \in 1..Len(tasks'[w]), NEW j \in 1..Len(tasks'[w]),
                        tasks'[w][i] = tasks'[w][j]
                 PROVE  i = j
      OBVIOUS
    <3>1. tasks[w][i + 1] = tasks[w][j + 1]
      BY <1>5
    <3>2. i + 1 \in 1..Len(tasks[w]) /\ j + 1 \in 1..Len(tasks[w])
      BY <1>5
    <3>3. i + 1 = j + 1
      BY <3>1, <3>2 DEF Bal!TypeOK
    <3> QED
      BY <3>3
  <2> QED
    BY <2>1, <2>2, <1>4 DEF Bal!TypeOK
<1>11. Bal!TypeOK'
  BY <1>4, <1>6, <1>7, <1>8, <1>9, <1>10 DEF Bal!TypeOK
<1>12. OnePerWorker'
  <2>1. \A d \in Call : pc[d] = "running" => WorkerOf[d] # w
    BY DEF Bal!Running
  <2> QED
    BY <2>1, <1>3, <1>6 DEF OnePerWorker
<1>13. RanOnce'
  BY <1>2, <1>3, <1>6, <1>7 DEF RanOnce, Bal!TypeOK
<1> QED
  BY <1>11, <1>12, <1>13

LEMMA BalStep == ASSUME Bal!BalancerConstants, BalInv, [Bal!Next]_(Bal!vars) PROVE BalInv'
<1>1. ASSUME NEW c \in Call, Bal!Dispatch(c) PROVE BalInv'
  BY <1>1, MoveOutside DEF Bal!Dispatch
<1>2. ASSUME NEW c \in Call, Bal!Send(c) PROVE BalInv'
  BY <1>2, SendStep
<1>3. ASSUME NEW c \in Call, Bal!Expire(c) PROVE BalInv'
  BY <1>3, MoveOutside DEF Bal!Expire
<1>4. ASSUME NEW c \in Call, Bal!Return(c) PROVE BalInv'
  BY <1>4, MoveOutside DEF Bal!Return
<1>5. ASSUME NEW w \in Worker, Bal!Start(w) PROVE BalInv'
  BY <1>5, StartStep
<1>6. ASSUME NEW w \in Worker, Bal!Finish(w) PROVE BalInv'
  <2>1. PICK c \in Call : pc[c] = "running" /\ pc' = [pc EXCEPT ![c] = "done"]
    BY <1>6 DEF Bal!Finish, Bal!Running
  <2> QED
    BY <1>6, <2>1, MoveOutside DEF Bal!Finish
<1>7. CASE UNCHANGED Bal!vars
  BY <1>7 DEF Bal!vars, BalInv, Bal!TypeOK, OnePerWorker, RanOnce
<1> QED
  BY <1>1, <1>2, <1>3, <1>4, <1>5, <1>6, <1>7 DEF Bal!Next, Bal!Caller

\* The events of a user are aggregated one at a time, whatever the number of
\* workers: calls of one user have one worker, and a worker runs one call.  A
\* refused call never runs, a call that returned ran exactly once, so that the
\* sessions and the events table get the same events.
THEOREM UsersTakeTurns == Bal!Spec => []RunsInTurn
<1>1. BalInv => RunsInTurn
  <2> SUFFICES ASSUME BalInv PROVE RunsInTurn
    OBVIOUS
  <2>1. Bal!OneAtATime
    BY HandOverAssumption DEF Bal!BalancerConstants, BalInv, OnePerWorker, Bal!OneAtATime
  <2>2. Bal!CallerAgrees
    BY DEF BalInv, Bal!TypeOK, RanOnce, Bal!CallerAgrees
  <2> QED
    BY <2>1, <2>2 DEF RunsInTurn, Bal!RunsInTurn
<1> QED
  BY <1>1, HandOverAssumption, BalInit, BalStep, PTL DEF Bal!Spec

-----------------------------------------------------------------------------
(* AdaptiveBatch: the clamping makes every value about to be stored legal   *)
(* by itself, whatever it was computed from, so that the order of the       *)
(* stores cannot matter.                                                    *)

\* NewWriteBuffer's limits are an interval with something in it, for every
\* configured size.
LEMMA Limits ==
  ASSUME Batch!SizeConfigured
  PROVE  /\ Batch!MinBatchSize \in Nat /\ Batch!MaxBatchSize \in Nat
         /\ Batch!MinBatchSize <= Batch!MaxBatchSize
BY SMT DEF Batch!SizeConfigured, Batch!MinBatchSize, Batch!MaxBatchSize, Batch!Smaller, Batch!Larger

\* Clamping puts every integer between the limits.
LEMMA ClampedInLimits ==
  ASSUME Batch!SizeConfigured, NEW n \in Int
  PROVE  Batch!Clamped(n) \in Batch!MinBatchSize..Batch!MaxBatchSize
BY Limits, SMT DEF Batch!Clamped, Batch!Smaller

\* Scaling a size gives a number.
LEMMA ScaledInt ==
  ASSUME NEW n \in Nat, NEW s
  PROVE  Batch!Scaled(s, n) \in Int
BY SMT DEF Batch!Scaled

BatchInv == Batch!TypeOK /\ Batch!WithinLimits

LEMMA BatchInit == Batch!SizeConfigured /\ Batch!Init => BatchInv
BY DEF Batch!SizeConfigured, Batch!Init, BatchInv, Batch!TypeOK, Batch!WithinLimits

LEMMA BatchStep == Batch!SizeConfigured /\ BatchInv /\ [Batch!Next]_(Batch!vars) => BatchInv'
<1> SUFFICES ASSUME Batch!SizeConfigured, BatchInv, [Batch!Next]_(Batch!vars) PROVE BatchInv'
  OBVIOUS
<1> USE DEF BatchInv, Batch!TypeOK, Batch!WithinLimits
<1>1. CASE Batch!RecordWriteTime
  BY <1>1 DEF Batch!RecordWriteTime, Batch!MinBatchSize, Batch!MaxBatchSize
<1>2. ASSUME NEW a \in Adjuster, Batch!CopyWriteTimes(a) PROVE BatchInv'
  BY <1>2 DEF Batch!CopyWriteTimes, Batch!MinBatchSize, Batch!MaxBatchSize
<1>3. ASSUME NEW a \in Adjuster, Batch!Load(a) PROVE BatchInv'
  <2> DEFINE new == Batch!Clamped(Batch!Scaled(adjuster[a].speed, batchSize))
  <2>1. new \in Batch!MinBatchSize..Batch!MaxBatchSize
    BY ScaledInt, ClampedInLimits
  <2>2. new \in Nat
    BY <2>1, Limits
  <2> HIDE DEF new
  <2>3. adjuster' = [adjuster EXCEPT ![a].size = new,
                                     ![a].pc = IF new = batchSize THEN "idle" ELSE "store"]
    BY <1>3 DEF Batch!Load, new
  <2>4. batchSize' = batchSize /\ speed' = speed
    BY <1>3 DEF Batch!Load
  <2>5. adjuster' \in [Adjuster -> [pc : {"idle", "load", "store"},
                        speed : {"none", "fast", "medium", "slow"}, size : Nat]]
    <3>1. (IF new = batchSize THEN "idle" ELSE "store") \in {"idle", "load", "store"}
      OBVIOUS
    <3> QED
      BY <2>2, <2>3, <3>1
  <2>6. \A b \in Adjuster : adjuster'[b].pc = "store" =>
          adjuster'[b].size \in Batch!MinBatchSize..Batch!MaxBatchSize
    <3>1. ASSUME NEW b \in Adjuster, b # a PROVE adjuster'[b] = adjuster[b]
      BY <2>3, <3>1
    <3>2. adjuster'[a].size = new
      BY <2>3
    <3> QED
      BY <2>1, <3>1, <3>2 DEF Batch!MinBatchSize, Batch!MaxBatchSize
  <2> QED
    BY <2>4, <2>5, <2>6 DEF Batch!MinBatchSize, Batch!MaxBatchSize
<1>4. ASSUME NEW a \in Adjuster, Batch!Store(a) PROVE BatchInv'
  BY <1>4 DEF Batch!Store, Batch!MinBatchSize, Batch!MaxBatchSize
<1>5. CASE UNCHANGED Batch!vars
  BY <1>5 DEF Batch!vars, Batch!MinBatchSize, Batch!MaxBatchSize
<1> QED
  BY <1>1, <1>2, <1>3, <1>4, <1>5 DEF Batch!Next, Batch!Adjust

\* batchSize never leaves its limits once adjusted, although adjusters read and
\* write it without a lock around both.
THEOREM BatchSizeBounded == Batch!Spec => []Batch!WithinLimits
<1>1. BatchInv => Batch!WithinLimits
  BY DEF BatchInv
<1> QED
  BY <1>1, HandOverAssumption, BatchInit, BatchStep, PTL DEF Batch!Spec


-----------------------------------------------------------------------------
(* Ingestion                                                                *)

\* What the requests, the clock and the windows have to do with each other.  As long
\* as no request was overtaken, an empty map means that every window has ended, by
\* the clock and by the time that a request on its way to the map has read.
WindowsInv ==
  /\ \A w \in DOMAIN windows :
       /\ windows[w].reset = windows[w].start + Scale
       /\ windows[w].start <= now
  /\ current \in {0, Len(windows)}
  /\ \A r \in Request : /\ request[r].at <= now
                        /\ request[r].pc = "count" => request[r].seen # 0
  /\ ~overtaken /\ current = 0 =>
       \A w \in DOMAIN windows :
         /\ windows[w].reset <= now
         /\ \A r \in Request :
              request[r].pc \in {"look", "open"} => windows[w].reset <= request[r].at

\* An event that was counted is behind its request, or the request is past the
\* charge with it; an event is on its way to the queue because it was counted or
\* because its plan could not be read.
ChargedInv ==
  /\ paid \subseteq Request \X (Nat \ {0}) /\ IsFiniteSet(paid)
  /\ \A e \in paid :
       \/ e[2] < request[e[1]].event
       \/ e[2] = request[e[1]].event /\ request[e[1]].pc \in {"enqueue", "done"}
  /\ \A r \in Request :
       /\ request[r].pc = "enqueue" => Ingest!Event(r) \in paid \cup unread
       /\ answer[r] = "unavailable" => request[r].pc = "done"

IngestInv == Ingest!TypeOK /\ WindowsInv /\ RateLimited /\ ChargedInv /\ CountedIsEntered

\* Where a request is while its event has not been counted.
Uncharged == {"check", "clock", "look", "count", "open", "charge"}

Places == Uncharged \cup {"enqueue", "done"}

Answers == {"none", "accepted", "refused", "unavailable"}

Window == [count : Nat, start : Nat, reset : Nat]

\* The module's Cardinality and IsFiniteSet are those of the theorems about them.
LEMMA SameCardinality ==
  ASSUME NEW S PROVE Ingest!Cardinality(S) = Cardinality(S)
BY DEF Ingest!Cardinality, Cardinality

LEMMA IngestInit == Ingest!IngestionConstants /\ Ingest!Init => IngestInv
<1> SUFFICES ASSUME Ingest!IngestionConstants, Ingest!Init PROVE IngestInv
  OBVIOUS
<1> USE DEF Ingest!IngestionConstants, Ingest!Init
<1>1. Ingest!TypeOK
  <2>1. PICK v : v = [pc |-> "check", event |-> 1, at |-> 0, seen |-> 0]
    OBVIOUS
  <2>2. v \in [pc : {"check", "clock", "look", "count", "open", "charge", "enqueue", "done"},
              event : Nat \ {0}, at : 0..LastTick, seen : 0..Len(windows)]
    BY <2>1
  <2>3. request = [r \in Request |-> v]
    BY <2>1
  <2>4. request \in [Request -> [pc : {"check", "clock", "look", "count", "open", "charge",
                                   "enqueue", "done"},
                              event : Nat \ {0}, at : 0..LastTick, seen : 0..Len(windows)]]
    BY <2>2, <2>3
  <2>5. answer \in [Request -> {"none", "accepted", "refused", "unavailable"}]
    OBVIOUS
  <2>6. windows \in Seq([count : Nat, start : Nat, reset : Nat]) /\ current \in 0..Len(windows)
    OBVIOUS
  <2>7. now \in 0..LastTick /\ used \in Nat /\ waiting \in 0..QueueSize
    <3>1. now = 0 /\ used = 0 /\ waiting = 0 /\ QueueSize \in Nat /\ LastTick \in Nat
      OBVIOUS
    <3> HIDE DEF Ingest!Init, Ingest!IngestionConstants
    <3> QED
      BY <3>1
  <2>8. overtaken \in BOOLEAN /\ shut \in BOOLEAN
    OBVIOUS
  <2> HIDE DEF Ingest!Init, Ingest!IngestionConstants
  <2> QED
    BY <2>4, <2>5, <2>6, <2>7, <2>8 DEF Ingest!TypeOK
<1>2. WindowsInv /\ RateLimited
  BY DEF WindowsInv, RateLimited, Ingest!RateLimited
<1>3. ChargedInv
  BY FS_EmptySet DEF ChargedInv
<1>4. CountedIsEntered
  BY FS_EmptySet, SameCardinality DEF CountedIsEntered, Ingest!CountedIsEntered
<1> QED
  BY <1>1, <1>2, <1>3, <1>4 DEF IngestInv

LEMMA MoveFacts ==
  ASSUME IngestInv, NEW r \in Request, NEW p \in Places, NEW e \in Nat \ {0},
         NEW t \in 0..LastTick, NEW n \in Nat, Ingest!Move(r, p, e, t, n)
  PROVE  /\ request'[r].pc = p /\ request'[r].event = e
         /\ request'[r].at = t /\ request'[r].seen = n
         /\ \A q \in Request : q # r => request'[q] = request[q]
         /\ \A m \in Nat : n <= m /\ Len(windows) <= m =>
              request' \in [Request -> [pc : Places, event : Nat \ {0}, at : 0..LastTick,
                                        seen : 0..m]]
<1> USE DEF Ingest!Move
<1>1. /\ Len(windows) \in Nat
      /\ request \in [Request -> [pc : Places, event : Nat \ {0}, at : 0..LastTick,
                                  seen : 0..Len(windows)]]
  BY DEF IngestInv, Ingest!TypeOK, Places, Uncharged
<1>2. PICK v : v = [pc |-> p, event |-> e, at |-> t, seen |-> n]
  OBVIOUS
<1>3. request' = [request EXCEPT ![r] = v]
  BY <1>2
<1>4. request'[r] = v /\ \A q \in Request : q # r => request'[q] = request[q]
  BY <1>1, <1>3
<1>5. ASSUME NEW m \in Nat, n <= m, Len(windows) <= m
      PROVE  request' \in [Request -> [pc : Places, event : Nat \ {0}, at : 0..LastTick,
                                       seen : 0..m]]
  <2>1. v \in [pc : Places, event : Nat \ {0}, at : 0..LastTick, seen : 0..m]
    BY <1>2, <1>5
  <2>2. ASSUME NEW q \in Request
        PROVE  request[q] \in [pc : Places, event : Nat \ {0}, at : 0..LastTick, seen : 0..m]
    BY <1>1, <1>5
  <2> QED
    BY <1>1, <1>3, <2>1, <2>2
<1> QED
  BY <1>2, <1>4, <1>5

\* A request moves while the windows stay where they are.
LEMMA WindowsRest ==
  ASSUME IngestInv, NEW r \in Request, NEW p \in Places, NEW e \in Nat \ {0},
         NEW t \in {request[r].at, now}, NEW n \in 0..Len(windows),
         Ingest!Move(r, p, e, t, n),
         p = "count" => n # 0,
         p \in {"look", "open"} =>
           t = now \/ (t = request[r].at /\ request[r].pc \in {"look", "open"}),
         Len(windows') = Len(windows), DOMAIN windows' = DOMAIN windows,
         \A w \in DOMAIN windows : /\ windows'[w].start = windows[w].start
                                  /\ windows'[w].reset = windows[w].reset
                                  /\ windows'[w].count <= RateLimit,
         UNCHANGED <<now, current, overtaken>>
  PROVE  WindowsInv' /\ RateLimited'
<1>1. t \in 0..LastTick /\ n \in Nat /\ now \in Nat /\ request[r].at <= now
  <2>1. /\ now \in 0..LastTick /\ request[r].at \in 0..LastTick
        /\ windows \in Seq(Window)
    BY DEF IngestInv, Ingest!TypeOK, Window
  <2>2. Len(windows) \in Nat
    BY <2>1
  <2>3. request[r].at <= now
    BY DEF IngestInv, WindowsInv
  <2> QED
    BY <2>1, <2>2, <2>3
<1>2. /\ request'[r].pc = p /\ request'[r].at = t /\ request'[r].seen = n
      /\ \A q \in Request : q # r => request'[q] = request[q]
  BY <1>1, MoveFacts
<1>3. ASSUME NEW q \in Request
      PROVE  /\ request'[q].at <= now
             /\ request'[q].pc = "count" => request'[q].seen # 0
  <2>1. CASE q = r
    BY <1>1, <1>2, <2>1
  <2>2. CASE q # r
    BY <1>2, <2>2 DEF IngestInv, WindowsInv
  <2> QED
    BY <2>1, <2>2
<1>4. ASSUME ~overtaken, current = 0, NEW w \in DOMAIN windows, NEW q \in Request,
             request'[q].pc \in {"look", "open"}
      PROVE  windows[w].reset <= request'[q].at
  <2>1. CASE q = r
    BY <1>2, <1>4, <2>1 DEF IngestInv, WindowsInv
  <2>2. CASE q # r
    BY <1>2, <1>4, <2>2 DEF IngestInv, WindowsInv
  <2> QED
    BY <2>1, <2>2
<1>5. WindowsInv'
  <2>1. \A w \in DOMAIN windows' : /\ windows'[w].reset = windows'[w].start + Scale
                                   /\ windows'[w].start <= now
    BY DEF IngestInv, WindowsInv
  <2>2. current' \in {0, Len(windows')}
    BY DEF IngestInv, WindowsInv
  <2>3. ~overtaken /\ current = 0 =>
          \A w \in DOMAIN windows' :
            /\ windows'[w].reset <= now
            /\ \A q \in Request :
                 request'[q].pc \in {"look", "open"} => windows'[w].reset <= request'[q].at
    BY <1>4 DEF IngestInv, WindowsInv
  <2> QED
    BY <1>3, <2>1, <2>2, <2>3 DEF WindowsInv
<1>6. RateLimited'
  BY DEF IngestInv, RateLimited, Ingest!RateLimited
<1> QED
  BY <1>5, <1>6

\* A request moves before it is charged, or is done without an event in the queue.
LEMMA UnchargedMoves ==
  ASSUME IngestInv, NEW r \in Request, request[r].pc \in Uncharged,
         NEW p \in Uncharged \cup {"done"},
         NEW e \in {request[r].event, request[r].event + 1},
         NEW t \in {request[r].at, now}, NEW n \in 0..Len(windows'),
         Ingest!Move(r, p, e, t, n),
         answer' \in [Request -> Answers],
         answer'[r] \in {answer[r], "refused", "accepted"},
         \A q \in Request : q # r => answer'[q] = answer[q],
         windows' \in Seq(Window), Len(windows) <= Len(windows'),
         current' \in 0..Len(windows'),
         UNCHANGED <<now, overtaken, used, waiting, shut, paid, entered, unread>>
  PROVE  Ingest!TypeOK' /\ ChargedInv' /\ CountedIsEntered'
<1>1. /\ t \in 0..LastTick /\ n \in Nat /\ e \in Nat \ {0} /\ p \in Places
      /\ request[r].event \in Nat \ {0}
      /\ Len(windows') \in Nat /\ n <= Len(windows')
  BY DEF IngestInv, Ingest!TypeOK, Places
<1>2. /\ request'[r].pc = p /\ request'[r].event = e
      /\ \A q \in Request : q # r => request'[q] = request[q]
      /\ request' \in [Request -> [pc : Places, event : Nat \ {0}, at : 0..LastTick,
                                   seen : 0..Len(windows')]]
  BY <1>1, MoveFacts
<1>3. Ingest!TypeOK'
  BY <1>2 DEF IngestInv, Ingest!TypeOK, Places, Uncharged, Answers, Window
<1>4. \A x \in paid : x = <<x[1], x[2]>> /\ x[1] \in Request /\ x[2] \in Nat \ {0}
  BY DEF IngestInv, ChargedInv
<1>5. ASSUME NEW x \in paid, x[1] = r PROVE x[2] < request[r].event
  BY <1>5 DEF IngestInv, ChargedInv, Uncharged
<1>6. ASSUME NEW x \in paid
      PROVE  \/ x[2] < request'[x[1]].event
             \/ x[2] = request'[x[1]].event /\ request'[x[1]].pc \in {"enqueue", "done"}
  <2>1. CASE x[1] = r
    BY <1>1, <1>2, <1>4, <1>5, <2>1
  <2>2. CASE x[1] # r
    BY <1>2, <1>4, <2>2 DEF IngestInv, ChargedInv
  <2> QED
    BY <2>1, <2>2
<1>7. ASSUME NEW q \in Request
      PROVE  /\ request'[q].pc = "enqueue" => Ingest!Event(q)' \in paid \cup unread
             /\ answer'[q] = "unavailable" => request'[q].pc = "done"
  <2>1. CASE q = r
    BY <1>2, <2>1 DEF IngestInv, ChargedInv, Uncharged
  <2>2. CASE q # r
    BY <1>2, <2>2 DEF IngestInv, ChargedInv, Ingest!Event
  <2> QED
    BY <2>1, <2>2
<1>8. ChargedInv'
  BY <1>6, <1>7 DEF IngestInv, ChargedInv
<1>9. ASSUME NEW x \in paid \ entered
      PROVE  /\ x = Ingest!Event(x[1])'
             /\ request'[x[1]].pc = "enqueue" \/ answer'[x[1]] = "unavailable"
  <2>1. /\ x = Ingest!Event(x[1])
        /\ request[x[1]].pc = "enqueue" \/ answer[x[1]] = "unavailable"
    BY DEF IngestInv, CountedIsEntered, Ingest!CountedIsEntered
  <2>2. x[1] # r
    BY <1>1, <1>5, <2>1 DEF Ingest!Event
  <2> QED
    BY <1>2, <1>4, <2>1, <2>2 DEF Ingest!Event
<1>10. CountedIsEntered'
  BY <1>9 DEF IngestInv, CountedIsEntered, Ingest!CountedIsEntered, Ingest!Cardinality
<1> QED
  BY <1>3, <1>8, <1>10

\* A request that is over, or goes on with its next event.
LEMMA Refusal ==
  ASSUME IngestInv, NEW r \in Request,
         \/ Ingest!Refuse(r) \/ Ingest!NextEvent(r)
         \/ Ingest!Respond(r, "refused") \/ Ingest!Respond(r, "accepted")
  PROVE  \E p \in {"check", "done"}, e \in {request[r].event, request[r].event + 1} :
           /\ Ingest!Move(r, p, e, request[r].at, request[r].seen)
           /\ \/ p = "check" /\ e = request[r].event + 1
              \/ p = "done" /\ e = request[r].event
           /\ answer' \in [Request -> Answers]
           /\ answer'[r] \in {answer[r], "refused", "accepted"}
           /\ \A q \in Request : q # r => answer'[q] = answer[q]
<1>1. answer \in [Request -> Answers]
  BY DEF IngestInv, Ingest!TypeOK, Answers
<1>2. ASSUME NEW s \in {"refused", "accepted"}, Ingest!Respond(r, s)
      PROVE  /\ Ingest!Move(r, "done", request[r].event, request[r].at, request[r].seen)
             /\ answer' \in [Request -> Answers]
             /\ answer'[r] \in {answer[r], "refused", "accepted"}
             /\ \A q \in Request : q # r => answer'[q] = answer[q]
  BY <1>1, <1>2 DEF Ingest!Respond, Ingest!Goto, Answers
<1>3. CASE Ingest!NextEvent(r)
  <2>1. CASE request[r].event = EventsOf[r]
    BY <1>2, <1>3, <2>1 DEF Ingest!NextEvent
  <2>2. CASE request[r].event # EventsOf[r]
    BY <1>1, <1>3, <2>2 DEF Ingest!NextEvent
  <2> QED
    BY <2>1, <2>2
<1> QED
  BY <1>2, <1>3 DEF Ingest!Refuse

\* An event that was not counted is left behind, and nothing else happens.
LEMMA RefuseStep ==
  ASSUME IngestInv, NEW r \in Request, request[r].pc \in Uncharged,
         \/ Ingest!Refuse(r)
         \/ Ingest!Respond(r, "refused") \/ Ingest!Respond(r, "accepted"),
         UNCHANGED <<now, windows, current, overtaken, used, waiting, shut, paid, entered,
                     unread>>
  PROVE  IngestInv'
<1>1. PICK p \in {"check", "done"}, e \in {request[r].event, request[r].event + 1} :
        /\ Ingest!Move(r, p, e, request[r].at, request[r].seen)
        /\ answer' \in [Request -> Answers]
        /\ answer'[r] \in {answer[r], "refused", "accepted"}
        /\ \A q \in Request : q # r => answer'[q] = answer[q]
  BY Refusal
<1>2. /\ request[r].seen \in 0..Len(windows) /\ request[r].event \in Nat \ {0}
      /\ windows \in Seq(Window) /\ current \in 0..Len(windows) /\ Len(windows) \in Nat
      /\ \A w \in DOMAIN windows : windows[w].count <= RateLimit
  BY DEF IngestInv, Ingest!TypeOK, Window, RateLimited, Ingest!RateLimited
<1>3. WindowsInv' /\ RateLimited'
  <2>1. p \in Places /\ p \notin {"count", "look", "open"} /\ e \in Nat \ {0}
    BY <1>2 DEF Places, Uncharged
  <2> QED
    BY <1>1, <1>2, <2>1, WindowsRest
<1>4. Ingest!TypeOK' /\ ChargedInv' /\ CountedIsEntered'
  BY <1>1, <1>2, UnchargedMoves DEF Uncharged
<1> QED
  BY <1>3, <1>4 DEF IngestInv

\* A request goes on with its event, towards the charge.
LEMMA GoesOnStep ==
  ASSUME IngestInv, NEW r \in Request, request[r].pc \in Uncharged, NEW p \in Uncharged,
         NEW t \in {request[r].at, now}, NEW n \in 0..Len(windows),
         Ingest!Move(r, p, request[r].event, t, n),
         p = "count" => n # 0,
         p \in {"look", "open"} =>
           t = now \/ (t = request[r].at /\ request[r].pc \in {"look", "open"}),
         UNCHANGED <<now, windows, current, overtaken, used, waiting, shut, answer, paid,
                     entered, unread>>
  PROVE  IngestInv'
<1>1. /\ windows \in Seq(Window) /\ current \in 0..Len(windows) /\ Len(windows) \in Nat
      /\ answer \in [Request -> Answers] /\ request[r].event \in Nat \ {0}
      /\ \A w \in DOMAIN windows : windows[w].count <= RateLimit
  BY DEF IngestInv, Ingest!TypeOK, Window, Answers, RateLimited, Ingest!RateLimited
<1>2. WindowsInv' /\ RateLimited'
  BY <1>1, WindowsRest DEF Places
<1>3. Ingest!TypeOK' /\ ChargedInv' /\ CountedIsEntered'
  BY <1>1, UnchargedMoves
<1> QED
  BY <1>2, <1>3 DEF IngestInv

LEMMA CountInStep ==
  ASSUME Ingest!IngestionConstants, IngestInv, NEW r \in Request,
         request[r].pc \in {"count", "open"},
         NEW w \in 1..Len(windows), Ingest!CountIn(w, r),
         UNCHANGED <<now, current, overtaken, used, waiting, shut, paid, entered, unread>>
  PROVE  IngestInv'
<1>1. request[r].pc \in Uncharged
  BY DEF Uncharged
<1>2. CASE windows[w].count >= RateLimit
  BY <1>1, <1>2, RefuseStep DEF Ingest!CountIn
<1>3. CASE ~(windows[w].count >= RateLimit)
  <2>1. /\ windows \in Seq(Window) /\ Len(windows) \in Nat /\ windows[w] \in Window
        /\ RateLimit \in Nat /\ answer \in [Request -> Answers]
        /\ current \in 0..Len(windows)
        /\ request[r].event \in Nat \ {0} /\ request[r].seen \in 0..Len(windows)
    <3>1. windows \in Seq(Window)
      BY DEF IngestInv, Ingest!TypeOK, Window
    <3>2. Len(windows) \in Nat /\ windows[w] \in Window
      BY <3>1
    <3>3. RateLimit \in Nat
      BY DEF Ingest!IngestionConstants
    <3> QED
      BY <3>1, <3>2, <3>3 DEF IngestInv, Ingest!TypeOK, Answers
  <2>2. PICK v : v = [windows[w] EXCEPT !.count = windows[w].count + 1]
    OBVIOUS
  <2>3. /\ v \in Window /\ v.start = windows[w].start /\ v.reset = windows[w].reset
        /\ v.count <= RateLimit
    <3>1. windows[w].count \in Nat /\ windows[w].count < RateLimit
      BY <1>3, <2>1 DEF Window
    <3>2. ASSUME NEW u \in Window
          PROVE  /\ [u EXCEPT !.count = u.count + 1] \in Window
                 /\ [u EXCEPT !.count = u.count + 1].count = u.count + 1
                 /\ [u EXCEPT !.count = u.count + 1].start = u.start
                 /\ [u EXCEPT !.count = u.count + 1].reset = u.reset
      BY DEF Window
    <3> QED
      BY <2>1, <2>2, <3>1, <3>2
  <2>4. windows' = [windows EXCEPT ![w] = v]
    BY <1>3, <2>2 DEF Ingest!CountIn
  <2>5. /\ windows' \in Seq(Window) /\ Len(windows') = Len(windows)
        /\ DOMAIN windows' = DOMAIN windows
        /\ windows'[w] = v /\ \A u \in DOMAIN windows : u # w => windows'[u] = windows[u]
    BY <2>1, <2>3, <2>4
  <2>6. /\ Ingest!Move(r, "charge", request[r].event, request[r].at, request[r].seen)
        /\ answer' = answer
    BY <1>3 DEF Ingest!CountIn, Ingest!Goto
  <2>7. \A u \in DOMAIN windows : /\ windows'[u].start = windows[u].start
                                  /\ windows'[u].reset = windows[u].reset
                                  /\ windows'[u].count <= RateLimit
    BY <2>3, <2>5 DEF IngestInv, RateLimited, Ingest!RateLimited
  <2>8. WindowsInv' /\ RateLimited'
    BY <2>1, <2>5, <2>6, <2>7, WindowsRest DEF Places, Uncharged
  <2>9. Ingest!TypeOK' /\ ChargedInv' /\ CountedIsEntered'
    BY <1>1, <2>1, <2>5, <2>6, UnchargedMoves DEF Uncharged
  <2> QED
    BY <2>8, <2>9 DEF IngestInv
<1> QED
  BY <1>2, <1>3

\* When no request was overtaken, every window has ended by the time that a request
\* read which opens another one.
LEMMA WindowsEnded ==
  ASSUME IngestInv, NEW r \in Request, request[r].pc = "open", ~Ingest!Lasts(current, r),
         ~overtaken, NEW v \in DOMAIN windows
  PROVE  windows[v].reset <= request[r].at
<1>1. CASE current = 0
  BY <1>1 DEF IngestInv, WindowsInv
<1>2. CASE current # 0
  <2>1. /\ current = Len(windows) /\ current \in DOMAIN windows
        /\ windows[current].reset <= request[r].at /\ request[r].at \in Nat
        /\ windows[current] \in Window /\ windows[v] \in Window
    <3>1. windows \in Seq(Window) /\ request[r].at \in Nat
      BY DEF IngestInv, Ingest!TypeOK, Window
    <3>2. current = Len(windows)
      BY <1>2 DEF IngestInv, WindowsInv
    <3>3. Len(windows) \in Nat /\ DOMAIN windows = 1..Len(windows)
      BY <3>1
    <3>4. current \in DOMAIN windows
      BY <1>2, <3>2, <3>3
    <3>5. windows[current] \in Window /\ windows[v] \in Window
      BY <3>1, <3>3, <3>4
    <3>6. ~(request[r].at < windows[current].reset)
      BY <1>2 DEF Ingest!Lasts
    <3> QED
      BY <3>1, <3>2, <3>4, <3>5, <3>6 DEF Window
  <2>2. CASE v = current
    BY <2>1, <2>2
  <2>3. CASE v # current
    <3>1. v < current
      BY <2>1, <2>3 DEF IngestInv, Ingest!TypeOK
    <3>2. windows[v].reset <= windows[current].start
      BY <2>1, <3>1 DEF IngestInv, RateLimited, Ingest!RateLimited
    <3>3. windows[current].reset = windows[current].start + Scale
      BY <2>1 DEF IngestInv, WindowsInv
    <3> QED
      BY <2>1, <3>2, <3>3, HandOverAssumption DEF Window, Ingest!IngestionConstants
  <2> QED
    BY <2>2, <2>3
<1> QED
  BY <1>1, <1>2

LEMMA OpenWindowStep ==
  ASSUME Ingest!IngestionConstants, IngestInv, NEW r \in Request,
         request[r].pc = "open", ~Ingest!Lasts(current, r), Ingest!OpenWindow(r),
         UNCHANGED <<now, overtaken, used, waiting, shut, paid, entered, unread>>
  PROVE  IngestInv'
<1>1. /\ windows \in Seq(Window) /\ Len(windows) \in Nat /\ answer \in [Request -> Answers]
      /\ request[r].event \in Nat \ {0} /\ request[r].seen \in 0..Len(windows)
      /\ request[r].at \in Nat /\ request[r].at <= now /\ now \in Nat
      /\ Scale \in Nat /\ RateLimit \in Nat \ {0} /\ LastTick \in Nat
  BY DEF IngestInv, Ingest!TypeOK, WindowsInv, Window, Answers, Ingest!IngestionConstants
<1>2. PICK v : v = [count |-> 1, start |-> request[r].at, reset |-> request[r].at + Scale]
  OBVIOUS
<1>3. v \in Window /\ v.count = 1 /\ v.start = request[r].at /\ v.reset = request[r].at + Scale
  BY <1>1, <1>2 DEF Window
<1>4. /\ windows' = Append(windows, v) /\ current' = Len(windows) + 1 /\ answer' = answer
      /\ Ingest!Move(r, "charge", request[r].event, request[r].at, request[r].seen)
  BY <1>2 DEF Ingest!OpenWindow, Ingest!Goto
<1>5. /\ windows' \in Seq(Window) /\ Len(windows') = Len(windows) + 1
      /\ DOMAIN windows = 1..Len(windows) /\ DOMAIN windows' = 1..(Len(windows) + 1)
      /\ windows'[Len(windows) + 1] = v
      /\ \A u \in DOMAIN windows : windows'[u] = windows[u]
  BY <1>1, <1>3, <1>4
<1>6. Ingest!TypeOK' /\ ChargedInv' /\ CountedIsEntered'
  BY <1>1, <1>4, <1>5, UnchargedMoves DEF Uncharged
<1>7. /\ request'[r].pc = "charge" /\ request'[r].at = request[r].at
      /\ \A q \in Request : q # r => request'[q] = request[q]
  <2>1. request[r].at \in 0..LastTick
    BY DEF IngestInv, Ingest!TypeOK
  <2> QED
    BY <1>1, <1>4, <2>1, MoveFacts DEF Places, Uncharged
<1>8. WindowsInv'
  <2>1. ASSUME NEW u \in DOMAIN windows'
        PROVE  /\ windows'[u].reset = windows'[u].start + Scale
               /\ windows'[u].start <= now
    <3>1. CASE u = Len(windows) + 1
      BY <1>1, <1>3, <1>5, <3>1
    <3>2. CASE u # Len(windows) + 1
      <4>1. u \in DOMAIN windows /\ windows'[u] = windows[u]
        BY <1>1, <1>5, <3>2
      <4> QED
        BY <4>1 DEF IngestInv, WindowsInv
    <3> QED
      BY <3>1, <3>2
  <2>2. \A q \in Request : /\ request'[q].at <= now
                           /\ request'[q].pc = "count" => request'[q].seen # 0
    BY <1>7 DEF IngestInv, WindowsInv
  <2>3. current' = Len(windows') /\ current' # 0
    BY <1>1, <1>4, <1>5
  <2> QED
    BY <2>1, <2>2, <2>3 DEF WindowsInv
<1>9. RateLimited'
  <2>1. \A u \in DOMAIN windows' : windows'[u].count <= RateLimit
    BY <1>1, <1>3, <1>5 DEF IngestInv, RateLimited, Ingest!RateLimited
  <2>2. ASSUME ~overtaken, NEW u \in DOMAIN windows', NEW w \in DOMAIN windows', u < w
        PROVE  windows'[u].reset <= windows'[w].start
    <3>1. u \in DOMAIN windows
      BY <1>1, <1>5, <2>2
    <3>2. CASE w \in DOMAIN windows
      BY <1>5, <2>2, <3>1, <3>2 DEF IngestInv, RateLimited, Ingest!RateLimited
    <3>3. CASE w \notin DOMAIN windows
      <4>1. w = Len(windows) + 1
        BY <1>1, <1>5, <3>3
      <4>2. windows[u].reset <= request[r].at
        BY <2>2, <3>1, WindowsEnded
      <4> QED
        BY <1>3, <1>5, <3>1, <4>1, <4>2
    <3> QED
      BY <3>2, <3>3
  <2> QED
    BY <2>1, <2>2 DEF RateLimited, Ingest!RateLimited
<1> QED
  BY <1>6, <1>8, <1>9 DEF IngestInv

\* A request that is past the limiter moves: its types, and the windows.
LEMMA PastLimiter ==
  ASSUME IngestInv, NEW r \in Request, NEW p \in {"check", "enqueue", "done"},
         NEW e \in {request[r].event, request[r].event + 1},
         Ingest!Move(r, p, e, request[r].at, request[r].seen),
         answer' \in [Request -> Answers], used' \in Nat, waiting' \in 0..QueueSize,
         UNCHANGED <<now, windows, current, overtaken, shut>>
  PROVE  /\ Ingest!TypeOK' /\ WindowsInv' /\ RateLimited'
         /\ request'[r].pc = p /\ request'[r].event = e
         /\ \A q \in Request : q # r => request'[q] = request[q]
         /\ request[r].event \in Nat \ {0}
<1>1. /\ windows \in Seq(Window) /\ Len(windows) \in Nat /\ current \in 0..Len(windows)
      /\ request[r].event \in Nat \ {0} /\ request[r].seen \in 0..Len(windows)
      /\ request[r].at \in 0..LastTick
      /\ \A w \in DOMAIN windows : windows[w].count <= RateLimit
  BY DEF IngestInv, Ingest!TypeOK, Window, RateLimited, Ingest!RateLimited
<1>2. p \in Places /\ p \notin {"count", "look", "open"} /\ e \in Nat \ {0}
      /\ request[r].seen \in Nat /\ request[r].seen <= Len(windows)
  BY <1>1 DEF Places, Uncharged
<1>3. WindowsInv' /\ RateLimited'
  BY <1>1, <1>2, WindowsRest
<1>4. /\ request'[r].pc = p /\ request'[r].event = e
      /\ \A q \in Request : q # r => request'[q] = request[q]
      /\ request' \in [Request -> [pc : Places, event : Nat \ {0}, at : 0..LastTick,
                                   seen : 0..Len(windows)]]
  BY <1>1, <1>2, MoveFacts
<1>5. Ingest!TypeOK'
  BY <1>4 DEF IngestInv, Ingest!TypeOK, Places, Uncharged, Answers
<1> QED
  BY <1>1, <1>3, <1>4, <1>5

\* What holds of the events that were counted is kept when a request moves from the
\* charge or the queue, if it holds of that request.
LEMMA OthersCharged ==
  ASSUME IngestInv, NEW r \in Request,
         \A q \in Request : q # r => request'[q] = request[q] /\ answer'[q] = answer[q],
         paid' \in {paid, paid \cup {Ingest!Event(r)}}, paid' \subseteq Request \X (Nat \ {0}),
         unread \subseteq unread',
         entered \subseteq entered', entered' \ paid' \subseteq unread',
         used' = Cardinality(paid'), Quota >= 0 => used' <= Quota,
         \A x \in paid' : x[1] = r =>
           /\ \/ x[2] < request'[r].event
              \/ x[2] = request'[r].event /\ request'[r].pc \in {"enqueue", "done"}
           /\ x \notin entered' =>
                /\ x = Ingest!Event(r)'
                /\ request'[r].pc = "enqueue" \/ answer'[r] = "unavailable",
         request'[r].pc = "enqueue" => Ingest!Event(r)' \in paid' \cup unread',
         answer'[r] = "unavailable" => request'[r].pc = "done"
  PROVE  ChargedInv' /\ CountedIsEntered'
<1>1. \A x \in paid' : /\ x = <<x[1], x[2]>> /\ x[1] \in Request /\ x[2] \in Nat \ {0}
                       /\ x[1] # r => x \in paid
  BY DEF Ingest!Event
<1>2. IsFiniteSet(paid')
  BY FS_AddElement DEF IngestInv, ChargedInv
<1>3. \A q \in Request : q # r => Ingest!Event(q)' = Ingest!Event(q)
  BY DEF Ingest!Event
<1>4. ASSUME NEW x \in paid'
      PROVE  \/ x[2] < request'[x[1]].event
             \/ x[2] = request'[x[1]].event /\ request'[x[1]].pc \in {"enqueue", "done"}
  <2>1. CASE x[1] = r
    BY <2>1
  <2>2. CASE x[1] # r
    BY <1>1, <2>2 DEF IngestInv, ChargedInv
  <2> QED
    BY <2>1, <2>2
<1>5. ASSUME NEW q \in Request
      PROVE  /\ request'[q].pc = "enqueue" => Ingest!Event(q)' \in paid' \cup unread'
             /\ answer'[q] = "unavailable" => request'[q].pc = "done"
  <2>1. CASE q = r
    BY <2>1
  <2>2. CASE q # r
    BY <1>3, <2>2 DEF IngestInv, ChargedInv
  <2> QED
    BY <2>1, <2>2
<1>6. ChargedInv'
  BY <1>2, <1>4, <1>5 DEF ChargedInv
<1>7. ASSUME NEW x \in paid' \ entered'
      PROVE  /\ x = Ingest!Event(x[1])'
             /\ request'[x[1]].pc = "enqueue" \/ answer'[x[1]] = "unavailable"
  <2>1. CASE x[1] = r
    BY <2>1
  <2>2. CASE x[1] # r
    <3>1. x \in paid \ entered
      BY <1>1, <2>2
    <3>2. /\ x = Ingest!Event(x[1])
          /\ request[x[1]].pc = "enqueue" \/ answer[x[1]] = "unavailable"
      BY <3>1 DEF IngestInv, CountedIsEntered, Ingest!CountedIsEntered
    <3> QED
      BY <1>1, <1>3, <2>2, <3>2
  <2> QED
    BY <2>1, <2>2
<1>8. CountedIsEntered'
  BY <1>7, SameCardinality DEF CountedIsEntered, Ingest!CountedIsEntered
<1> QED
  BY <1>6, <1>8

LEMMA ChargedFacts ==
  ASSUME IngestInv
  PROVE  /\ used = Cardinality(paid)
         /\ Quota >= 0 => used <= Quota
         /\ entered \ paid \subseteq unread
         /\ paid \subseteq Request \X (Nat \ {0})
         /\ answer \in [Request -> Answers] /\ used \in Nat /\ waiting \in 0..QueueSize
         /\ \A r \in Request :
              /\ Ingest!Event(r) \in Request \X (Nat \ {0})
              /\ Ingest!Event(r)[1] = r /\ Ingest!Event(r)[2] = request[r].event
<1>1. used = Cardinality(paid) /\ (Quota >= 0 => used <= Quota)
  BY SameCardinality DEF IngestInv, CountedIsEntered, Ingest!CountedIsEntered
<1>2. /\ entered \ paid \subseteq unread
      /\ paid \subseteq Request \X (Nat \ {0})
  BY DEF IngestInv, ChargedInv, CountedIsEntered, Ingest!CountedIsEntered
<1>3. answer \in [Request -> Answers] /\ used \in Nat /\ waiting \in 0..QueueSize
  BY DEF IngestInv, Ingest!TypeOK, Answers
<1>4. \A r \in Request : request[r].event \in Nat \ {0}
  BY DEF IngestInv, Ingest!TypeOK
<1> QED
  BY <1>1, <1>2, <1>3, <1>4 DEF Ingest!Event

LEMMA PlanUnreadStep ==
  ASSUME IngestInv, NEW r \in Request, Ingest!PlanUnread(r)
  PROVE  IngestInv'
<1> USE DEF Ingest!PlanUnread
<1>1. /\ Ingest!Move(r, "enqueue", request[r].event, request[r].at, request[r].seen)
      /\ answer' \in [Request -> Answers] /\ used' \in Nat /\ waiting' \in 0..QueueSize
      /\ UNCHANGED <<now, windows, current, overtaken, shut>>
  BY ChargedFacts DEF Ingest!Goto, Ingest!limiterVars
<1>2. /\ Ingest!TypeOK' /\ WindowsInv' /\ RateLimited'
      /\ request'[r].pc = "enqueue" /\ request'[r].event = request[r].event
      /\ \A q \in Request : q # r => request'[q] = request[q]
      /\ request[r].event \in Nat \ {0}
  BY <1>1, PastLimiter
<1>3. \A x \in paid : x[1] = r => x[2] < request'[r].event
  BY <1>2 DEF IngestInv, ChargedInv
<1>4. Ingest!Event(r)' = Ingest!Event(r)
  BY <1>2 DEF Ingest!Event
<1>5. \A x \in paid : x[1] = r => x \in entered
  <2> SUFFICES ASSUME NEW x \in paid, x[1] = r, x \notin entered PROVE FALSE
    OBVIOUS
  <2>1. x = Ingest!Event(r)
    BY DEF IngestInv, CountedIsEntered, Ingest!CountedIsEntered
  <2> QED
    BY <1>2, <1>3, <2>1, ChargedFacts
<1>6. answer[r] # "unavailable"
  BY DEF IngestInv, ChargedInv
<1>7. ChargedInv' /\ CountedIsEntered'
  BY <1>2, <1>3, <1>4, <1>5, <1>6, ChargedFacts, OthersCharged
<1> QED
  BY <1>2, <1>7 DEF IngestInv

LEMMA ChargeStep ==
  ASSUME Ingest!IngestionConstants, IngestInv, NEW r \in Request, Ingest!Charge(r)
  PROVE  IngestInv'
<1>1. CASE Quota >= 0 /\ used >= Quota
  <2>1. request[r].pc \in Uncharged
    BY DEF Ingest!Charge, Uncharged
  <2> QED
    BY <1>1, <2>1, RefuseStep DEF Ingest!Charge, Ingest!limiterVars
<1>2. CASE ~(Quota >= 0 /\ used >= Quota)
  <2>1. /\ used' = used + 1 /\ paid' = paid \cup {Ingest!Event(r)}
        /\ request[r].pc = "charge"
        /\ Ingest!Move(r, "enqueue", request[r].event, request[r].at, request[r].seen)
        /\ UNCHANGED <<now, windows, current, overtaken, answer, waiting, shut, entered,
                       unread>>
    BY <1>2 DEF Ingest!Charge, Ingest!Goto, Ingest!limiterVars
  <2>2. used' \in Nat /\ answer' \in [Request -> Answers] /\ waiting' \in 0..QueueSize
    BY <2>1, ChargedFacts
  <2>3. /\ Ingest!TypeOK' /\ WindowsInv' /\ RateLimited'
        /\ request'[r].pc = "enqueue" /\ request'[r].event = request[r].event
        /\ \A q \in Request : q # r => request'[q] = request[q]
        /\ request[r].event \in Nat \ {0}
    BY <2>1, <2>2, PastLimiter
  <2>4. \A x \in paid : x[1] = r => x[2] < request[r].event
    BY <2>1 DEF IngestInv, ChargedInv
  <2>5. Ingest!Event(r)' = Ingest!Event(r)
    BY <2>3 DEF Ingest!Event
  <2>6. Ingest!Event(r) \notin paid
    BY <2>3, <2>4, ChargedFacts
  <2>7. used' = Cardinality(paid') /\ (Quota >= 0 => used' <= Quota)
    <3>1. Cardinality(paid') = Cardinality(paid) + 1
      BY <2>1, <2>6, FS_AddElement DEF IngestInv, ChargedInv
    <3>2. Quota \in Nat \cup {-1}
      BY DEF Ingest!IngestionConstants
    <3> QED
      BY <1>2, <2>1, <3>1, <3>2, ChargedFacts
  <2>8. \A x \in paid : x[1] = r => x \in entered
    <3> SUFFICES ASSUME NEW x \in paid, x[1] = r, x \notin entered PROVE FALSE
      OBVIOUS
    <3>1. x = Ingest!Event(r)
      BY DEF IngestInv, CountedIsEntered, Ingest!CountedIsEntered
    <3> QED
      BY <2>6, <3>1
  <2>9. \A x \in paid' : x[1] = r =>
          /\ \/ x[2] < request'[r].event
             \/ x[2] = request'[r].event /\ request'[r].pc \in {"enqueue", "done"}
          /\ x \notin entered' =>
               /\ x = Ingest!Event(r)'
               /\ request'[r].pc = "enqueue" \/ answer'[r] = "unavailable"
    <3> SUFFICES ASSUME NEW x \in paid', x[1] = r
                 PROVE  /\ \/ x[2] < request'[r].event
                           \/ /\ x[2] = request'[r].event
                              /\ request'[r].pc \in {"enqueue", "done"}
                        /\ x \notin entered' =>
                             /\ x = Ingest!Event(r)'
                             /\ request'[r].pc = "enqueue" \/ answer'[r] = "unavailable"
      OBVIOUS
    <3>1. CASE x \in paid
      BY <2>1, <2>3, <2>4, <2>8, <3>1
    <3>2. CASE x = Ingest!Event(r)
      BY <2>3, <2>5, <3>2, ChargedFacts
    <3> QED
      BY <2>1, <3>1, <3>2
  <2>10. answer'[r] # "unavailable"
    BY <2>1 DEF IngestInv, ChargedInv
  <2>11. /\ paid' \subseteq Request \X (Nat \ {0}) /\ entered' \ paid' \subseteq unread'
         /\ Ingest!Event(r)' \in paid' \cup unread'
    BY <2>1, <2>5, ChargedFacts
  <2>12. ChargedInv' /\ CountedIsEntered'
    BY <2>1, <2>3, <2>7, <2>9, <2>10, <2>11, OthersCharged
  <2> QED
    BY <2>3, <2>12 DEF IngestInv
<1> QED
  BY <1>1, <1>2

LEMMA EnqueueStep ==
  ASSUME Ingest!IngestionConstants, IngestInv, NEW r \in Request, Ingest!Enqueue(r)
  PROVE  IngestInv'
<1>1. /\ request[r].pc = "enqueue"
      /\ UNCHANGED <<now, windows, current, overtaken, used, shut, paid, unread>>
  BY DEF Ingest!Enqueue, Ingest!limiterVars
<1>2. Ingest!Event(r) \in paid \cup unread
  BY <1>1 DEF IngestInv, ChargedInv
<1>3. \A x \in paid : x[1] = r =>
        /\ x[2] <= request[r].event
        /\ x \notin entered => x = Ingest!Event(r)
  <2> SUFFICES ASSUME NEW x \in paid, x[1] = r
               PROVE  /\ x[2] <= request[r].event
                      /\ x \notin entered => x = Ingest!Event(r)
    OBVIOUS
  <2>1. x[2] \in Nat /\ request[r].event \in Nat
    BY ChargedFacts
  <2>2. x[2] < request[r].event \/ x[2] = request[r].event
    BY DEF IngestInv, ChargedInv
  <2>3. x \notin entered => x = Ingest!Event(r)
    BY DEF IngestInv, CountedIsEntered, Ingest!CountedIsEntered
  <2> QED
    BY <2>1, <2>2, <2>3
<1>4. CASE /\ waiting < QueueSize
           /\ waiting' = waiting + 1 /\ entered' = entered \cup {Ingest!Event(r)}
           /\ Ingest!NextEvent(r)
  <2>1. PICK p \in {"check", "done"}, e \in {request[r].event, request[r].event + 1} :
          /\ Ingest!Move(r, p, e, request[r].at, request[r].seen)
          /\ \/ p = "check" /\ e = request[r].event + 1
             \/ p = "done" /\ e = request[r].event
          /\ answer' \in [Request -> Answers]
          /\ answer'[r] \in {answer[r], "refused", "accepted"}
          /\ \A q \in Request : q # r => answer'[q] = answer[q]
    BY <1>4, Refusal
  <2>2. used' \in Nat /\ waiting' \in 0..QueueSize
    <3>1. QueueSize \in Nat /\ waiting \in 0..QueueSize
      BY ChargedFacts DEF Ingest!IngestionConstants
    <3> QED
      BY <1>1, <1>4, <3>1, ChargedFacts
  <2>3. /\ Ingest!TypeOK' /\ WindowsInv' /\ RateLimited'
        /\ request'[r].pc = p /\ request'[r].event = e
        /\ \A q \in Request : q # r => request'[q] = request[q]
        /\ request[r].event \in Nat \ {0}
    BY <1>1, <2>1, <2>2, PastLimiter
  <2>4. answer'[r] # "unavailable"
    BY <1>1, <2>1 DEF IngestInv, ChargedInv
  <2>5. \A x \in paid' : x[1] = r =>
          /\ \/ x[2] < request'[r].event
             \/ x[2] = request'[r].event /\ request'[r].pc \in {"enqueue", "done"}
          /\ x \in entered'
    <3> SUFFICES ASSUME NEW x \in paid, x[1] = r
                 PROVE  /\ \/ x[2] < e
                           \/ x[2] = e /\ p \in {"enqueue", "done"}
                        /\ x \in entered'
      BY <1>1, <2>3
    <3>1. x[2] \in Nat /\ x[2] <= request[r].event /\ x \in entered'
      BY <1>3, <1>4, ChargedFacts
    <3> QED
      BY <2>1, <2>3, <3>1
  <2>6. entered \subseteq entered' /\ entered' \ paid' \subseteq unread'
    BY <1>1, <1>2, <1>4, ChargedFacts
  <2>7. request'[r].pc # "enqueue"
    BY <2>3
  <2>8. /\ paid' \subseteq Request \X (Nat \ {0})
        /\ used' = Cardinality(paid') /\ (Quota >= 0 => used' <= Quota)
    BY <1>1, ChargedFacts
  <2>9. ChargedInv' /\ CountedIsEntered'
    BY <1>1, <2>1, <2>3, <2>4, <2>5, <2>6, <2>7, <2>8, OthersCharged
  <2> QED
    BY <2>3, <2>9 DEF IngestInv
<1>5. CASE Ingest!Respond(r, "unavailable") /\ UNCHANGED <<waiting, entered>>
  <2>1. /\ Ingest!Move(r, "done", request[r].event, request[r].at, request[r].seen)
        /\ answer' = [answer EXCEPT ![r] = "unavailable"]
    BY <1>5 DEF Ingest!Respond, Ingest!Goto
  <2>2. /\ answer' \in [Request -> Answers] /\ answer'[r] = "unavailable"
        /\ \A q \in Request : q # r => answer'[q] = answer[q]
        /\ used' \in Nat /\ waiting' \in 0..QueueSize
    BY <1>1, <1>5, <2>1, ChargedFacts DEF Answers
  <2>3. /\ Ingest!TypeOK' /\ WindowsInv' /\ RateLimited'
        /\ request'[r].pc = "done" /\ request'[r].event = request[r].event
        /\ \A q \in Request : q # r => request'[q] = request[q]
        /\ request[r].event \in Nat \ {0}
    BY <1>1, <2>1, <2>2, PastLimiter
  <2>4. Ingest!Event(r)' = Ingest!Event(r)
    BY <2>3 DEF Ingest!Event
  <2>5. \A x \in paid' : x[1] = r =>
          /\ \/ x[2] < request'[r].event
             \/ x[2] = request'[r].event /\ request'[r].pc \in {"enqueue", "done"}
          /\ x \notin entered' =>
               /\ x = Ingest!Event(r)'
               /\ request'[r].pc = "enqueue" \/ answer'[r] = "unavailable"
    <3> SUFFICES ASSUME NEW x \in paid, x[1] = r
                 PROVE  /\ x[2] < request[r].event \/ x[2] = request[r].event
                        /\ x \notin entered => x = Ingest!Event(r)
      BY <1>1, <1>5, <2>2, <2>3, <2>4
    <3>1. x[2] \in Nat
      BY ChargedFacts
    <3> QED
      BY <1>3, <2>3, <3>1
  <2>6. /\ entered \subseteq entered' /\ entered' \ paid' \subseteq unread'
        /\ paid' \subseteq Request \X (Nat \ {0})
        /\ used' = Cardinality(paid') /\ (Quota >= 0 => used' <= Quota)
    BY <1>1, <1>5, ChargedFacts
  <2>7. ChargedInv' /\ CountedIsEntered'
    BY <1>1, <2>2, <2>3, <2>5, <2>6, OthersCharged
  <2> QED
    BY <2>3, <2>7 DEF IngestInv
<1> QED
  BY <1>4, <1>5 DEF Ingest!Enqueue

LEMMA HandleStep ==
  ASSUME Ingest!IngestionConstants, IngestInv, NEW r \in Request, Ingest!Handle(r)
  PROVE  IngestInv'
<1> USE DEF Ingest!limiterVars, Uncharged
<1>1. /\ request[r].seen \in 0..Len(windows) /\ current \in 0..Len(windows)
      /\ Len(windows) \in Nat
  BY DEF IngestInv, Ingest!TypeOK
<1>2. CASE Ingest!TurnAway(r)
  BY <1>2, RefuseStep DEF Ingest!TurnAway
<1>3. CASE Ingest!Check(r)
  <2>1. CASE Ingest!Goto(r, "clock") /\ UNCHANGED answer
    BY <1>1, <1>3, <2>1, GoesOnStep DEF Ingest!Check, Ingest!Goto
  <2>2. CASE Ingest!Refuse(r)
    BY <1>3, <2>2, RefuseStep DEF Ingest!Check
  <2> QED
    BY <1>3, <2>1, <2>2 DEF Ingest!Check
<1>4. CASE Ingest!ReadClock(r)
  BY <1>1, <1>4, GoesOnStep DEF Ingest!ReadClock
<1>5. CASE Ingest!Look(r)
  <2>1. CASE Ingest!Lasts(current, r)
    BY <1>1, <1>5, <2>1, GoesOnStep DEF Ingest!Look, Ingest!Lasts
  <2>2. CASE ~Ingest!Lasts(current, r)
    BY <1>1, <1>5, <2>2, GoesOnStep DEF Ingest!Look
  <2> QED
    BY <2>1, <2>2
<1>6. CASE Ingest!Count(r)
  <2>1. request[r].seen \in 1..Len(windows)
    BY <1>1, <1>6 DEF Ingest!Count, IngestInv, WindowsInv
  <2> QED
    BY <1>6, <2>1, CountInStep DEF Ingest!Count
<1>7. CASE Ingest!Open(r)
  <2>1. CASE Ingest!Lasts(current, r)
    <3>1. current \in 1..Len(windows)
      BY <1>1, <2>1 DEF Ingest!Lasts
    <3> QED
      BY <1>7, <2>1, <3>1, CountInStep DEF Ingest!Open
  <2>2. CASE ~Ingest!Lasts(current, r)
    BY <1>7, <2>2, OpenWindowStep DEF Ingest!Open
  <2> QED
    BY <2>1, <2>2
<1> QED
  BY <1>2, <1>3, <1>4, <1>5, <1>6, <1>7, PlanUnreadStep, ChargeStep, EnqueueStep
  DEF Ingest!Handle

\* The cleanup takes a window from the map that has ended by the clock; it counts as
\* overtaking unless it has ended as well for every request on its way to the map.
LEMMA CleanupStep ==
  ASSUME Ingest!IngestionConstants, IngestInv, Ingest!Cleanup
  PROVE  IngestInv'
<1>1. /\ current # 0 /\ now > windows[current].reset /\ current' = 0
      /\ overtaken' = (overtaken \/ \E r \in Request : /\ request[r].pc \in {"look", "open"}
                                                       /\ Ingest!Lasts(current, r))
      /\ UNCHANGED <<now, windows, request, used, waiting, shut, answer, paid, entered,
                     unread>>
  BY DEF Ingest!Cleanup
<1>2. /\ windows \in Seq(Window) /\ Len(windows) \in Nat /\ now \in Nat
      /\ DOMAIN windows = 1..Len(windows) /\ current = Len(windows)
      /\ \A r \in Request : request[r].at \in Nat
  BY <1>1 DEF IngestInv, Ingest!TypeOK, WindowsInv, Window
<1>3. Ingest!TypeOK'
  BY <1>1, <1>2 DEF IngestInv, Ingest!TypeOK
<1>4. ChargedInv' /\ CountedIsEntered'
  BY <1>1 DEF IngestInv, ChargedInv, CountedIsEntered, Ingest!CountedIsEntered,
              Ingest!Event, Ingest!Cardinality
<1>5. RateLimited'
  BY <1>1 DEF IngestInv, RateLimited, Ingest!RateLimited
<1>6. ASSUME ~overtaken', NEW w \in DOMAIN windows
      PROVE  windows[w].reset <= windows[current].reset
  <2>1. windows[w] \in Window /\ windows[current] \in Window /\ current \in DOMAIN windows
    BY <1>1, <1>2
  <2>2. CASE w = current
    BY <2>1, <2>2 DEF Window
  <2>3. CASE w # current
    <3>1. w < current
      BY <1>1, <1>2, <2>3
    <3>2. ~overtaken
      BY <1>1, <1>6, Zenon
    <3>3. windows[w].reset <= windows[current].start
      BY <2>1, <3>1, <3>2 DEF IngestInv, RateLimited, Ingest!RateLimited
    <3>4. windows[current].reset = windows[current].start + Scale
      BY <2>1 DEF IngestInv, WindowsInv
    <3> QED
      BY <2>1, <3>3, <3>4 DEF Window, Ingest!IngestionConstants
  <2> QED
    BY <2>2, <2>3
<1>7. ASSUME ~overtaken', NEW w \in DOMAIN windows
      PROVE  /\ windows[w].reset <= now
             /\ \A r \in Request :
                  request[r].pc \in {"look", "open"} => windows[w].reset <= request[r].at
  <2>1. /\ windows[w].reset \in Nat /\ windows[current].reset \in Nat
        /\ windows[w].reset <= windows[current].reset
    <3>1. windows[w] \in Window /\ windows[current] \in Window
      BY <1>1, <1>2
    <3> QED
      BY <1>6, <1>7, <3>1 DEF Window
  <2>2. ASSUME NEW r \in Request, request[r].pc \in {"look", "open"}
        PROVE  windows[w].reset <= request[r].at
    <3>1. ~(request[r].at < windows[current].reset)
      BY <1>1, <1>7, <2>2 DEF Ingest!Lasts
    <3> QED
      BY <1>2, <2>1, <3>1
  <2> QED
    BY <1>1, <1>2, <2>1, <2>2
<1>8. WindowsInv'
  BY <1>1, <1>7 DEF IngestInv, WindowsInv
<1> QED
  BY <1>3, <1>4, <1>5, <1>8 DEF IngestInv

\* Time, the shutdown and the dispatcher.
LEMMA SurroundingsStep ==
  ASSUME Ingest!IngestionConstants, IngestInv,
         Ingest!Tick \/ Ingest!Close \/ Ingest!Dequeue \/ UNCHANGED Ingest!vars
  PROVE  IngestInv'
<1>1. /\ UNCHANGED <<windows, current, overtaken, request, used, answer, paid, entered, unread>>
      /\ \/ now' = now
         \/ now < LastTick /\ now' = now + 1
      /\ \/ waiting' = waiting
         \/ waiting > 0 /\ waiting' = waiting - 1
      /\ shut' \in {shut, TRUE}
  BY DEF Ingest!Tick, Ingest!Close, Ingest!Dequeue, Ingest!vars, Ingest!limiterVars
<1>2. now' \in 0..LastTick /\ waiting' \in 0..QueueSize /\ shut' \in BOOLEAN /\ now \in Nat
  <2>1. /\ now \in 0..LastTick /\ waiting \in 0..QueueSize /\ shut \in BOOLEAN
        /\ LastTick \in Nat /\ QueueSize \in Nat
    BY DEF IngestInv, Ingest!TypeOK, Ingest!IngestionConstants
  <2>2. now' \in 0..LastTick /\ now \in Nat
    BY <1>1, <2>1
  <2>3. waiting' \in 0..QueueSize
    BY <1>1, <2>1
  <2>4. shut' \in BOOLEAN
    BY <1>1, <2>1
  <2> QED
    BY <2>2, <2>3, <2>4
<1>3. Ingest!TypeOK'
  BY <1>1, <1>2 DEF IngestInv, Ingest!TypeOK
<1>4. ChargedInv' /\ CountedIsEntered'
  BY <1>1 DEF IngestInv, ChargedInv, CountedIsEntered, Ingest!CountedIsEntered,
              Ingest!Event, Ingest!Cardinality
<1>5. RateLimited'
  BY <1>1 DEF IngestInv, RateLimited, Ingest!RateLimited
<1>6. /\ \A w \in DOMAIN windows : windows[w].start \in Nat /\ windows[w].reset \in Nat
      /\ \A r \in Request : request[r].at \in Nat
  <2>1. windows \in Seq(Window)
    BY DEF IngestInv, Ingest!TypeOK, Window
  <2>2. \A w \in DOMAIN windows : windows[w] \in Window
    BY <2>1
  <2> QED
    BY <2>2 DEF IngestInv, Ingest!TypeOK, Window
<1>7. WindowsInv'
  BY <1>1, <1>2, <1>6 DEF IngestInv, WindowsInv
<1> QED
  BY <1>3, <1>4, <1>5, <1>7 DEF IngestInv

LEMMA IngestStep ==
  Ingest!IngestionConstants /\ IngestInv /\ [Ingest!Next]_(Ingest!vars) => IngestInv'
BY HandleStep, CleanupStep, SurroundingsStep DEF Ingest!Next

LEMMA IngestInvariance == Ingest!Spec => []IngestInv
<1>1. Ingest!IngestionConstants
  BY HandOverAssumption
<1> QED
  BY <1>1, IngestInit, IngestStep, PTL DEF Ingest!Spec

\* A window of the rate limiter lets no more than RateLimit events pass, and follows
\* the end of the one before, for any number of requests and any clock.
THEOREM WindowsLimitTheRate == Ingest!Spec => []RateLimited
<1>1. IngestInv => RateLimited
  BY DEF IngestInv
<1> QED
  BY <1>1, IngestInvariance, PTL

\* What is counted against the quota enters the queue, and the reverse, but for what
\* the queue refuses and events whose plan could not be read.
THEOREM CountedAlwaysEnters == Ingest!Spec => []CountedIsEntered
<1>1. IngestInv => CountedIsEntered
  BY DEF IngestInv
<1> QED
  BY <1>1, IngestInvariance, PTL

-----------------------------------------------------------------------------
(* The four together                                                        *)

\* The components share no variable: each moves or rests.
LEMMA EachMovesOrRests ==
  [MCNext]_<<subject, vars, balancerVars, batchVars, ingestVars>> =>
    /\ [Next]_vars
    /\ [Bal!Next]_(Bal!vars)
    /\ [Batch!Next]_(Batch!vars)
    /\ [Ingest!Next]_(Ingest!vars)
BY DEF MCNext, balancerVars, batchVars, ingestVars, Bal!vars, Batch!vars, Ingest!vars,
       Ingest!limiterVars

\* The types of the four and the limits of the batch size, for any number of what
\* moves in them.
THEOREM TypesAlwaysOK == MCSpec => []TypesOK
<1> DEFINE Inv == IInv /\ BalInv /\ BatchInv /\ IngestInv
<1>1. MCInit => Inv
  BY HandOverAssumption, InitIInv, BalInit, BatchInit, IngestInit DEF MCInit
<1>2. Inv /\ [MCNext]_<<subject, vars, balancerVars, batchVars, ingestVars>> => Inv'
  BY HandOverAssumption, EachMovesOrRests, StepIInv, BalStep, BatchStep, IngestStep
<1>3. Inv => TypesOK
  BY DEF IInv, BalInv, BatchInv, IngestInv, TypesOK
<1> QED
  BY <1>1, <1>2, <1>3, PTL DEF MCSpec
=============================================================================
