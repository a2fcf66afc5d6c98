---------------------------- MODULE AdaptiveBatch ----------------------------
(***************************************************************************)
(* The batch size of internal/event/buffer.go.  Every thousandth Add       *)
(* starts a goroutine that runs adjustBatchSize: it copies the write times *)
(* under wb.mu, loads batchSize, and stores what it computed from the two. *)
(* Load and store are atomic one by one, not together, so adjusters that   *)
(* overlap overwrite each other with values computed from older ones.      *)
(***************************************************************************)
EXTENDS Integers

CONSTANTS InitialSize, \* batchSize given to NewWriteBuffer (config BATCH_SIZE)
          Adjuster     \* the adjustBatchSize goroutines that may overlap

\* What the theorems assume of the configuration.
SizeConfigured == InitialSize \in Nat \ {0}

VARIABLES batchSize, \* wb.batchSize, accessed atomically
          speed,     \* the average of the last five write times: < 100 ms is
                     \* fast, > 500 ms slow, none before the first write
          adjuster   \* where each goroutine is, the speed it copied, what it stores

vars == <<batchSize, speed, adjuster>>

Smaller(a, b) == IF a < b THEN a ELSE b
Larger(a, b) == IF a > b THEN a ELSE b

MaxBatchSize == 2 * InitialSize

MinBatchSize == Smaller(Larger(InitialSize \div 2, 50), MaxBatchSize)

Init ==
  /\ batchSize = InitialSize
  /\ speed = "none"
  /\ adjuster = [a \in Adjuster |-> [pc |-> "idle", speed |-> "none", size |-> InitialSize]]

\* recordWriteTime: the average moves with what ClickHouse does.
RecordWriteTime ==
  /\ speed' \in {"fast", "medium", "slow"}
  /\ UNCHANGED <<batchSize, adjuster>>

\* Without a write time adjustBatchSize returns at once.
CopyWriteTimes(a) ==
  /\ adjuster[a].pc = "idle" /\ speed # "none"
  /\ adjuster' = [adjuster EXCEPT ![a].pc = "load", ![a].speed = speed]
  /\ UNCHANGED <<batchSize, speed>>

\* A bug: a step that would overshoot a limit is not taken.
ScaledToFit(s, n) ==
  CASE s = "fast" /\ (n * 11) \div 10 <= MaxBatchSize -> (n * 11) \div 10
    [] s = "slow" /\ (n * 9) \div 10 >= MinBatchSize -> (n * 9) \div 10
    [] OTHER -> n

\* int32(float64(n) * 1.1) and int32(float64(n) * 0.9): both constants are
\* rounded up in binary, so the truncation gives the integer quotient.
Scaled(s, n) ==
  CASE s = "fast" /\ n < MaxBatchSize -> (n * 11) \div 10
    [] s = "slow" /\ n > MinBatchSize -> (n * 9) \div 10
    [] OTHER -> n

\* A bug: the minimum, which may be above the configured size, is not applied.
ClampedAbove(n) == Smaller(n, MaxBatchSize)

Clamped(n) == IF n < MinBatchSize THEN MinBatchSize ELSE Smaller(n, MaxBatchSize)

\* A size that stays as it is is not stored.
Load(a) ==
  /\ adjuster[a].pc = "load"
  /\ LET new == Clamped(Scaled(adjuster[a].speed, batchSize))
     IN  adjuster' = [adjuster EXCEPT ![a].size = new,
                                      ![a].pc = IF new = batchSize THEN "idle" ELSE "store"]
  /\ UNCHANGED <<batchSize, speed>>

Store(a) ==
  /\ adjuster[a].pc = "store"
  /\ batchSize' = adjuster[a].size
  /\ adjuster' = [adjuster EXCEPT ![a].pc = "idle"]
  /\ UNCHANGED speed

Adjust(a) == CopyWriteTimes(a) \/ Load(a) \/ Store(a)

Next == RecordWriteTime \/ \E a \in Adjuster : Adjust(a)

\* Events keep coming, so adjusters are started again, and goroutines run.
Fairness == \A a \in Adjuster : WF_vars(Adjust(a))

Spec == Init /\ [][Next]_vars /\ Fairness

-----------------------------------------------------------------------------
\* Types; what an adjuster is about to store is within the limits.
TypeOK ==
  /\ batchSize \in Nat
  /\ speed \in {"none", "fast", "medium", "slow"}
  /\ adjuster \in [Adjuster -> [pc : {"idle", "load", "store"},
                                speed : {"none", "fast", "medium", "slow"}, size : Nat]]
  /\ \A a \in Adjuster : adjuster[a].pc = "store" =>
       adjuster[a].size \in MinBatchSize..MaxBatchSize

\* However adjusters overlap, batchSize is the configured one until the first
\* store and within the two limits from then on.
WithinLimits == batchSize = InitialSize \/ batchSize \in MinBatchSize..MaxBatchSize

\* While ClickHouse stays fast the batches grow to the maximum, truncation,
\* clamping and stale stores notwithstanding.
FastReachesMax == <>[](speed = "fast") => <>[](batchSize = MaxBatchSize)

\* While ClickHouse stays slow the batches shrink to the minimum.
SlowReachesMin == <>[](speed = "slow") => <>[](batchSize = MinBatchSize)

\* The size comes to fit a steady speed.
FollowsSpeed == FastReachesMax /\ SlowReachesMin
=============================================================================
