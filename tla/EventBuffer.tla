----------------------------- MODULE EventBuffer -----------------------------
(***************************************************************************)
(* WriteBuffer of internal/event/buffer.go: tasks of the pool Add events,  *)
(* a batch is taken out under wb.mu and inserted into ClickHouse outside   *)
(* it, by goroutines that Add spawns (at most cap(flushSem) of them) and   *)
(* by the flush worker, which wakes up every 5 seconds and flushes a last  *)
(* time at Shutdown.  An insert that reports an error may have been        *)
(* committed; all attempts of a batch carry the same deduplication token.  *)
(*                                                                         *)
(* Shutdown is called as the pipeline calls it: no Add is under way (see   *)
(* DrainedBeforeLastFlush in EventPipeline).                               *)
(***************************************************************************)
EXTENDS Integers, FiniteSets

CONSTANTS Event,      \* the events, one Add each
          Slot,       \* the places of flushSem: maxConcurrentFlushes = 8
          Worker,     \* the flush worker
          BatchSize,  \* batchSize (AdaptiveBatch has its adjustment)
          MaxBuffer,  \* maxBufferSize
          Retries     \* attempts of writeBatch: 5

ASSUME BufferAssumption ==
  /\ Worker \notin Slot
  /\ BatchSize \in Nat \ {0} /\ MaxBuffer \in Nat \ {0} /\ Retries \in Nat \ {0}

Flusher == Slot \cup {Worker}

VARIABLES add,       \* where the Add of each event is
          buffer,    \* wb.buffer
          flusher,   \* the goroutines that flush
          stopping,  \* the worker has seen shutdownChan: its flush is the last
          closed,    \* wb.closed, and shutdownChan closed with it
          shutdown,  \* where Shutdown is
          stored,    \* how often ClickHouse holds each event
          lost       \* the events of batches whose writeBatch returned an error

vars == <<add, buffer, flusher, stopping, closed, shutdown, stored, lost>>

\* A goroutine that is not flushing: a free slot, the worker in its select.
Resting(pc) == [pc |-> pc, batch |-> {}, attempt |-> 0, landed |-> FALSE]
Free == Resting("free")

Init ==
  /\ add = [e \in Event |-> "new"]
  /\ buffer = {}
  /\ flusher = [f \in Flusher |-> Free]
  /\ stopping = FALSE /\ closed = FALSE /\ shutdown = "running"
  /\ stored = [e \in Event |-> 0] /\ lost = {}

-----------------------------------------------------------------------------
(* Add                                                                      *)

\* closed is read before the lock is taken.
AddCheck(e) ==
  /\ add[e] = "new"
  /\ add' = [add EXCEPT ![e] = IF closed THEN "rejected" ELSE "append"]
  /\ UNCHANGED <<buffer, flusher, stopping, closed, shutdown, stored, lost>>

\* A bug: the limit is not looked at.
AddAppendUnbounded(e) ==
  /\ add[e] = "append"
  /\ buffer' = buffer \cup {e}
  /\ add' = [add EXCEPT ![e] =
              IF Cardinality(buffer) + 1 >= BatchSize THEN "spawn" ELSE "accepted"]
  /\ UNCHANGED <<flusher, stopping, closed, shutdown, stored, lost>>

\* Under wb.mu: a full buffer drops the event and counts it.
AddAppend(e) ==
  /\ add[e] = "append"
  /\ IF Cardinality(buffer) >= MaxBuffer
     THEN add' = [add EXCEPT ![e] = "dropped"] /\ UNCHANGED buffer
     ELSE /\ buffer' = buffer \cup {e}
          /\ add' = [add EXCEPT ![e] =
                      IF Cardinality(buffer) + 1 >= BatchSize THEN "spawn" ELSE "accepted"]
  /\ UNCHANGED <<flusher, stopping, closed, shutdown, stored, lost>>

\* spawnFlush: a free slot starts a flush, no free slot leaves it to others.
AddSpawn(e) ==
  /\ add[e] = "spawn"
  /\ add' = [add EXCEPT ![e] = "accepted"]
  /\ \/ \E f \in Slot :
          /\ flusher[f].pc = "free"
          /\ flusher' = [flusher EXCEPT ![f].pc = "take"]
     \/ (\A f \in Slot : flusher[f].pc # "free") /\ UNCHANGED flusher
  /\ UNCHANGED <<buffer, stopping, closed, shutdown, stored, lost>>

-----------------------------------------------------------------------------
(* flushAndWrite and writeBatch                                             *)

\* A bug: the batch is not cleared for the next flush.
FinishKeepingBatch(f) ==
  flusher' = [flusher EXCEPT ![f].pc = IF f = Worker /\ stopping THEN "exited" ELSE "free"]

\* flushAndWrite returns: the slot is released, or the worker goes on.
Finish(f) ==
  flusher' = [flusher EXCEPT ![f] =
    IF f = Worker /\ stopping THEN Resting("exited") ELSE Free]

\* A bug: the batch is cut at BatchSize and the whole buffer is emptied.
TakeFirst(f) ==
  /\ flusher[f].pc = "take"
  /\ \E first \in SUBSET buffer :
       /\ Cardinality(first) = IF Cardinality(buffer) < BatchSize
                               THEN Cardinality(buffer) ELSE BatchSize
       /\ IF buffer = {}
          THEN Finish(f)
          ELSE flusher' = [flusher EXCEPT ![f] =
                 [pc |-> "write", batch |-> first, attempt |-> 1, landed |-> FALSE]]
  /\ buffer' = {}
  /\ UNCHANGED <<add, stopping, closed, shutdown, stored, lost>>

\* Under wb.mu: everything buffered becomes the batch of this goroutine.
Take(f) ==
  /\ flusher[f].pc = "take"
  /\ IF buffer = {}
     THEN Finish(f)
     ELSE flusher' = [flusher EXCEPT ![f] =
            [pc |-> "write", batch |-> buffer, attempt |-> 1, landed |-> FALSE]]
  /\ buffer' = {}
  /\ UNCHANGED <<add, stopping, closed, shutdown, stored, lost>>

\* A bug: every attempt has a token of its own.
CommitWithoutToken(f) ==
  stored' = [e \in Event |-> IF e \in flusher[f].batch THEN stored[e] + 1 ELSE stored[e]]

\* ClickHouse commits the batch unless it has seen its token.
Commit(f) ==
  stored' = [e \in Event |->
    IF e \in flusher[f].batch /\ ~flusher[f].landed THEN stored[e] + 1 ELSE stored[e]]

InsertOk(f) ==
  /\ flusher[f].pc = "write"
  /\ Commit(f) /\ Finish(f)
  /\ UNCHANGED <<add, buffer, stopping, closed, shutdown, lost>>

\* BatchInsert returns an error; the batch may have been committed before.
InsertError(f) ==
  /\ flusher[f].pc = "write"
  /\ \/ /\ Commit(f)
        /\ flusher' = [flusher EXCEPT ![f].pc = "backoff", ![f].landed = TRUE]
     \/ /\ flusher' = [flusher EXCEPT ![f].pc = "backoff"]
        /\ UNCHANGED stored
  /\ UNCHANGED <<add, buffer, stopping, closed, shutdown, lost>>

\* After the pause of the last attempt the batch is given up.
Retry(f) ==
  /\ flusher[f].pc = "backoff"
  /\ IF flusher[f].attempt < Retries
     THEN /\ flusher' = [flusher EXCEPT ![f].pc = "write", ![f].attempt = @ + 1]
          /\ UNCHANGED lost
     ELSE lost' = lost \cup flusher[f].batch /\ Finish(f)
  /\ UNCHANGED <<add, buffer, stopping, closed, shutdown, stored>>

Flush(f) == Take(f) \/ InsertOk(f) \/ InsertError(f) \/ Retry(f)

-----------------------------------------------------------------------------
(* flushWorker and Shutdown                                                 *)

\* A bug: the ticker is forgotten, only Shutdown wakes the worker up.
NoTick == FALSE /\ UNCHANGED vars

Tick ==
  /\ flusher[Worker].pc = "free"
  /\ flusher' = [flusher EXCEPT ![Worker].pc = "take"]
  /\ UNCHANGED <<add, buffer, stopping, closed, shutdown, stored, lost>>

\* A bug: the worker ends without a last flush.
WorkerStops ==
  /\ flusher[Worker].pc = "free" /\ closed
  /\ stopping' = TRUE
  /\ flusher' = [flusher EXCEPT ![Worker].pc = "exited"]
  /\ UNCHANGED <<add, buffer, closed, shutdown, stored, lost>>

LastFlush ==
  /\ flusher[Worker].pc = "free" /\ closed
  /\ stopping' = TRUE
  /\ flusher' = [flusher EXCEPT ![Worker].pc = "take"]
  /\ UNCHANGED <<add, buffer, closed, shutdown, stored, lost>>

Shutdown ==
  /\ shutdown = "running"
  /\ \A e \in Event : add[e] \notin {"append", "spawn"}
  /\ closed' = TRUE /\ shutdown' = "waiting"
  /\ UNCHANGED <<add, buffer, flusher, stopping, stored, lost>>

\* wg.Wait returns and the context is cancelled.
ShutdownReturn ==
  /\ shutdown = "waiting"
  /\ flusher[Worker].pc = "exited" /\ \A f \in Slot : flusher[f].pc = "free"
  /\ shutdown' = "cancelled"
  /\ UNCHANGED <<add, buffer, flusher, stopping, closed, stored, lost>>

-----------------------------------------------------------------------------
Add(e) == AddCheck(e) \/ AddAppend(e) \/ AddSpawn(e)

Terminated ==
  shutdown = "cancelled" /\ (\A e \in Event : add[e] # "new") /\ UNCHANGED vars

Next ==
  \/ \E e \in Event : Add(e)
  \/ \E f \in Flusher : Flush(f)
  \/ Tick \/ LastFlush \/ Shutdown \/ ShutdownReturn \/ Terminated

\* Goroutines that can proceed do, the ticker keeps ticking, an insert returns
\* (the driver has a timeout).  Shutdown need not be called.
Fairness ==
  /\ \A e \in Event : WF_vars(AddAppend(e) \/ AddSpawn(e))
  /\ \A f \in Flusher : WF_vars(Flush(f))
  /\ WF_vars(Tick) /\ SF_vars(LastFlush) /\ WF_vars(ShutdownReturn)

Spec == Init /\ [][Next]_vars /\ Fairness

-----------------------------------------------------------------------------
Held == {e \in Event : add[e] \in {"spawn", "accepted"}}

\* The events a goroutine has taken and not yet finished with.
InFlight == UNION {flusher[f].batch : f \in Flusher}

\* Types; a goroutine has a batch exactly while it writes it.
TypeOK ==
  /\ add \in [Event -> {"new", "append", "spawn", "accepted", "dropped", "rejected"}]
  /\ buffer \subseteq Event /\ lost \subseteq Event
  /\ flusher \in [Flusher -> [pc : {"free", "take", "write", "backoff", "exited"},
                              batch : SUBSET Event, attempt : 0..Retries, landed : BOOLEAN]]
  /\ \A f \in Flusher : flusher[f].pc \in {"free", "take", "exited"} => flusher[f].batch = {}
  /\ stopping \in BOOLEAN /\ closed \in BOOLEAN
  /\ shutdown \in {"running", "waiting", "cancelled"}
  /\ stored \in [Event -> Nat]

\* The buffer stays within maxBufferSize however long ClickHouse is away.
BufferBounded == Cardinality(buffer) <= MaxBuffer

\* Concurrent flushes and retries of inserts that were committed although they
\* reported an error never store an event twice.
StoredAtMostOnce == \A e \in Event : stored[e] <= 1

\* An event that Add took in is in the buffer, in the batch of a goroutine, in
\* ClickHouse, or in a batch that was given up: none disappears silently.
NoSilentLoss ==
  \A e \in Held : e \in buffer \/ e \in InFlight \/ stored[e] > 0 \/ e \in lost

\* When Shutdown returns, every event that Add took in is in ClickHouse or was
\* in a batch that was given up.
ShutdownFlushesAll ==
  shutdown = "cancelled" => \A e \in Held : stored[e] > 0 \/ e \in lost

\* A buffer that never fills a batch, or whose flushes were skipped because every
\* slot was busy, is written all the same.
EventuallyWritten ==
  \A e \in Event : e \in Held ~> (stored[e] > 0 \/ e \in lost)

\* Shutdown returns, whatever the inserts answer.
ShutdownReturns == shutdown = "waiting" ~> shutdown = "cancelled"

\* Neither the buffer nor its Shutdown waits for ever.
KeepsMoving == EventuallyWritten /\ ShutdownReturns
=============================================================================
