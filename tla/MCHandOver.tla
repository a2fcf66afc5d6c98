----------------------------- MODULE MCHandOver -----------------------------
(* Where an event waits for another goroutine: the endpoint that takes it,   *)
(* the queue of requests, the balancer in front of the session manager; and  *)
(* the goroutines that adjust the size of the batches it is written in.  The *)
(* four share no variable, so a run looks at one of them while the others    *)
(* rest.                                                                     *)
(*   queue: five requests on a queue that starts with one slot and stops     *)
(*     growing at three: the sizes 1, 2 and 3, the last one clamped.         *)
(*   balancer: five calls, two users on one worker and one on another,       *)
(*     channels of one place: full channels, waiting callers and timeouts.   *)
(*   batch: two adjusters that overlap, with a configured size of 31, so     *)
(*     that the limits are 50 and 62: the size starts below the minimum, and *)
(*     truncation matters.                                                   *)
(*   ingestion: a single event and a batch of three, one event per window,   *)
(*     two per month, one place in the queue: every limit is reached.        *)
EXTENDS DynamicQueue
CONSTANTS i1, i2, i3, i4, i5, c1, c2, c3, c4, c5, u1, u2, u3, w1, w2, a1, a2, q1, q2,
          Call, Worker, WorkerOf, UserOf, Capacity, BatchSize, Adjuster,
          Request, Single, EventsOf, Scale, RateLimit, Quota, QueueSize, LastTick
VARIABLES subject, pc, tasks, ran, batchSize, speed, adjuster,
          now, windows, current, request, used, waiting, shut, answer, paid, entered,
          unread, overtaken

Bal == INSTANCE Balancer
balancerVars == <<pc, tasks, ran>>

Batch == INSTANCE AdaptiveBatch WITH InitialSize <- BatchSize
batchVars == <<batchSize, speed, adjuster>>

Ingest == INSTANCE Ingestion WITH Size <- EventsOf
ingestVars ==
  <<now, windows, current, request, used, waiting, shut, answer, paid, entered, unread,
    overtaken>>

\* What three of them ask of their constants; DynamicQueue has an ASSUME of its own.
ASSUME HandOverAssumption ==
  Bal!BalancerConstants /\ Batch!SizeConfigured /\ Ingest!IngestionConstants

MCItem == {i1, i2, i3, i4, i5}
MCCall == {c1, c2, c3, c4, c5}
MCWorker == {w1, w2}
MCUserOf == [c \in MCCall |-> CASE c \in {c1, c2, c3} -> u1 [] c = c4 -> u2 [] c = c5 -> u3]
MCWorkerOf == [c \in MCCall |-> IF c = c5 THEN w2 ELSE w1]
MCAdjuster == {a1, a2}
MCRequest == {q1, q2}
MCSingle == {q1}
MCEventsOf == [r \in MCRequest |-> IF r = q1 THEN 1 ELSE 3]

MCInit ==
  /\ Init /\ Bal!Init /\ Batch!Init /\ Ingest!Init
  /\ subject \in {"queue", "balancer", "batch", "ingestion"}

\* Every call has come back; every request has been answered.
Ended ==
  \/ subject = "balancer" /\ \A c \in Call : pc[c] \in {"returned", "refused"}
  \/ subject = "ingestion" /\ \A r \in Request : request[r].pc = "done"

MCNext ==
  \/ subject = "queue" /\ Next /\ UNCHANGED <<subject, balancerVars, batchVars, ingestVars>>
  \/ subject = "balancer" /\ Bal!Next /\ UNCHANGED <<subject, vars, batchVars, ingestVars>>
  \/ subject = "batch" /\ Batch!Next /\ UNCHANGED <<subject, vars, balancerVars, ingestVars>>
  \/ subject = "ingestion" /\ Ingest!Next /\ UNCHANGED <<subject, vars, balancerVars, batchVars>>
  \/ Ended /\ UNCHANGED <<subject, vars, balancerVars, batchVars, ingestVars>>

\* In the initial states no action under fairness is enabled, so that what rests
\* is not asked to move.
MCSpec ==
  /\ MCInit /\ [][MCNext]_<<subject, vars, balancerVars, batchVars, ingestVars>>
  /\ Bal!Fairness /\ Batch!Fairness

\* The types of the four, and the limits of the batch size.
TypesOK ==
  /\ TypeOK /\ Bal!TypeOK /\ Batch!TypeOK /\ Ingest!TypeOK
  /\ Batch!WithinLimits

\* The functions of one user run one after the other, and caller and worker agree
\* on what has run (Balancer).
RunsInTurn == Bal!RunsInTurn

\* What waits comes back, what lags catches up: every call of Dispatch returns
\* (Balancer), and batches grow while writes stay fast and shrink while they stay
\* slow, to the limits and however adjusters overlap (AdaptiveBatch).
KeepsMoving == Bal!DispatchReturns /\ Batch!FollowsSpeed

\* Requests that race for a window do not open a second one (Ingestion).
RateLimited == Ingest!RateLimited

\* What is counted against the quota is enqueued, and the reverse, but for what
\* the queue and the plan's storage refuse (Ingestion).
CountedIsEntered == Ingest!CountedIsEntered
=============================================================================
