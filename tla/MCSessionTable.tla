--------------------------- MODULE MCSessionTable ---------------------------
(* One visitor under two loads.  Quiet: events of every kind in any order    *)
(* within an hour, cache misses, and batches that only the worker flushes.   *)
(* Busy: two kinds of events at one moment, enough of them that batches fill *)
(* and two goroutines flush.  The instances differ in their constants only.  *)
EXTENDS MCSessionStore
CONSTANTS BusyBatchSize, BusyMaxEvents
VARIABLE load

Busy == INSTANCE SessionStore WITH
          Time <- MCNow, Name <- MCVisit, BatchSize <- BusyBatchSize,
          MaxEvents <- BusyMaxEvents, MaxEvictions <- 0

MCInit == Init /\ load \in {"quiet", "busy"}

MCNext ==
  \/ load = "quiet" /\ Next /\ UNCHANGED load
  \/ load = "busy" /\ Busy!Next /\ UNCHANGED load

MCHandleEvent == IF load = "quiet" THEN HandleEvent ELSE Busy!HandleEvent

MCSpec ==
  /\ MCInit /\ [][MCNext]_<<load, vars>>
  /\ WF_vars(MCHandleEvent) /\ WF_vars(Tick) /\ \A f \in Flusher : WF_vars(Flush(f))

\* When one goroutine flushes, so that batches arrive in the order in which they
\* were cut, a query never sees a session twice.  (Two goroutines may overtake
\* each other, and then it does until the older batch has arrived.)
SeenOnceInOrder == load = "quiet" => NeverSeenTwice
=============================================================================
