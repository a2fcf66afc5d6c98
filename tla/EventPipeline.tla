---------------------------- MODULE EventPipeline ----------------------------
(***************************************************************************)
(* The ingestion pipeline of internal/event/event.go, from the queue that  *)
(* HTTP handlers fill to the two write buffers:                            *)
(*                                                                         *)
(*   handlers -> queue -> dispatch -> taskChan -> processWorker -> pool    *)
(*     -> processEvent (session row) -> writeBuffer.Add (event row)        *)
(*                                                                         *)
(* and its Shutdown, which the SIGTERM handler of cmd/server.go runs next  *)
(* to httpSrv.Shutdown: handlers may enqueue until the process exits.      *)
(* The queue is DynamicQueue itself.  The write buffers are reduced to the *)
(* rows they hold, in the buffer or in batches under way, and to what      *)
(* became of the others: each buffer drops and gives up on its own         *)
(* (EventBuffer has the goroutines, the batches and the attempts).         *)
(***************************************************************************)
EXTENDS Integers, Sequences, FiniteSets

CONSTANTS Item, Nil, InitialSize, MaxSize, \* as in DynamicQueue
          TaskCap,                         \* cap(taskChan): 1000
          PoolSize,                        \* config PoolSize: workers of the pool
          MaxBuffer,                       \* maxBufferSize of the event buffer
          MaxLost                          \* bound: requests that lose a row

\* The queue is made with sizes in order; a request is never the zero value.
ASSUME PipelineAssumption ==
  /\ InitialSize \in Nat \ {0} /\ MaxSize \in Nat /\ InitialSize <= MaxSize
  /\ Nil \notin Item
  /\ TaskCap \in Nat \ {0} /\ PoolSize \in Nat \ {0} /\ MaxBuffer \in Nat \ {0}
  /\ MaxLost \in Nat

VARIABLES queue, capacity, closed, head, blocked, accepted, delivered, refused,
          taskChan, taskClosed,  \* e.taskChan and whether it is closed
          dispatch,              \* [pc, item] of the dispatch goroutine
          worker,                \* [pc, item] of the processWorker goroutine
          stage,                 \* where each request, then its event row, is
                                 \* once it was submitted to the pool
          sessionRow,            \* where the session row of each request is
          eventsClosed,          \* writeBuffer.closed
          sessionsClosed,        \* sessionManager.writeBuffer.closed
          released,              \* pool.Release has been called
          ctxDone,               \* shutdownCtx is cancelled
          shutdown,              \* where the goroutine of Shutdown is
          main                   \* where the SIGTERM handler is

Q == INSTANCE DynamicQueue

queueVars == <<queue, capacity, closed, head, blocked, accepted, delivered, refused>>
bufferVars == <<stage, sessionRow>>
shutdownVars == <<eventsClosed, sessionsClosed, released, ctxDone, shutdown, main>>
vars == <<queueVars, taskChan, taskClosed, dispatch, worker, bufferVars, shutdownVars>>

Contents(s) == {s[k] : k \in DOMAIN s}

\* The tasks processWG counts: submitted to the pool and not finished.
InPool == {i \in Item : stage[i] \in {"pooled", "sessioned", "adding"}}

\* The rows that are in memory: in a buffer or in its batches under way.
Buffered(place) == {i \in Item : place[i] = "buffered"}

\* The requests with a row that was given up.
Lost == {i \in Item : "lost" \in {stage[i], sessionRow[i]}}

Exited == main \in {"returned", "timedout"}
Running == ~Exited

Init ==
  /\ Q!Init
  /\ taskChan = <<>> /\ taskClosed = FALSE
  /\ dispatch = [pc |-> "dequeue", item |-> Nil]
  /\ worker = [pc |-> "receive", item |-> Nil]
  /\ stage = [i \in Item |-> "none"]
  /\ sessionRow = [i \in Item |-> "none"]
  /\ eventsClosed = FALSE /\ sessionsClosed = FALSE
  /\ released = FALSE /\ ctxDone = FALSE
  /\ shutdown = "idle" /\ main = "serving"

-----------------------------------------------------------------------------
(* An HTTP handler, which may still be in flight while Shutdown runs.       *)

Enqueue(i) ==
  /\ Running /\ Q!IsNew(i) /\ Q!Enqueue(i)
  /\ UNCHANGED <<taskChan, taskClosed, dispatch, worker, bufferVars, shutdownVars>>

-----------------------------------------------------------------------------
(* dispatch                                                                 *)

DispatchFrame == UNCHANGED <<worker, bufferVars, shutdownVars>>

DispatchDequeue ==
  /\ Running /\ dispatch.pc = "dequeue"
  /\ Q!Dequeue
  /\ dispatch' = IF Q!DequeueResult = Nil
                 THEN [pc |-> "check", item |-> Nil]
                 ELSE [pc |-> "send", item |-> Q!DequeueResult]
  /\ UNCHANGED <<taskChan, taskClosed>> /\ DispatchFrame

\* A bug: the deferred close(e.taskChan) is missing.
DispatchExitKeepingChannel ==
  /\ dispatch' = [pc |-> "exited", item |-> Nil]
  /\ UNCHANGED <<queueVars, taskChan, taskClosed>> /\ DispatchFrame

DispatchExit ==
  /\ dispatch' = [pc |-> "exited", item |-> Nil]
  /\ taskClosed' = TRUE
  /\ UNCHANGED <<queueVars, taskChan>> /\ DispatchFrame

\* IsClosed takes the queue's lock again: the queue may have changed since
\* Dequeue returned nil.
DispatchCheck ==
  /\ Running /\ dispatch.pc = "check"
  /\ \/ closed /\ DispatchExit
     \/ /\ ~closed
        /\ dispatch' = [dispatch EXCEPT !.pc = "sleep"]
        /\ UNCHANGED <<queueVars, taskChan, taskClosed>> /\ DispatchFrame

\* The 2 ms pause, which a cancelled context ends for good.
DispatchSleep ==
  /\ Running /\ dispatch.pc = "sleep"
  /\ \/ ctxDone /\ DispatchExit
     \/ /\ dispatch' = [dispatch EXCEPT !.pc = "dequeue"]
        /\ UNCHANGED <<queueVars, taskChan, taskClosed>> /\ DispatchFrame

\* A bug: the send does not wait for room in the channel.
DispatchSendUnbounded ==
  /\ Running /\ dispatch.pc = "send"
  /\ taskChan' = Append(taskChan, dispatch.item)
  /\ dispatch' = [pc |-> "dequeue", item |-> Nil]
  /\ UNCHANGED <<queueVars, taskClosed>> /\ DispatchFrame

\* The send on taskChan; a cancelled context drops the item.
DispatchSend ==
  /\ Running /\ dispatch.pc = "send"
  /\ \/ ctxDone /\ DispatchExit
     \/ /\ Len(taskChan) < TaskCap
        /\ taskChan' = Append(taskChan, dispatch.item)
        /\ dispatch' = [pc |-> "dequeue", item |-> Nil]
        /\ UNCHANGED <<queueVars, taskClosed>> /\ DispatchFrame

-----------------------------------------------------------------------------
(* processWorker and the tasks it submits to the pool                       *)

WorkerFrame == UNCHANGED <<queueVars, taskClosed, dispatch, shutdownVars>>

WorkerReceive ==
  /\ Running /\ worker.pc = "receive"
  /\ \/ /\ taskChan # <<>>
        /\ worker' = [pc |-> "submit", item |-> Head(taskChan)]
        /\ taskChan' = Tail(taskChan)
     \/ /\ (taskChan = <<>> /\ taskClosed) \/ ctxDone
        /\ worker' = [pc |-> "exited", item |-> Nil]
        /\ UNCHANGED taskChan
  /\ UNCHANGED bufferVars /\ WorkerFrame

\* processWG.Add(1), then Submit, which waits for a free worker of the pool.
\* The error Submit returns after Release is ignored and Done never runs.
WorkerSubmit ==
  /\ Running /\ worker.pc = "submit"
  /\ released \/ Cardinality(InPool) < PoolSize
  /\ stage' = [stage EXCEPT ![worker.item] = IF released THEN "leaked" ELSE "pooled"]
  /\ worker' = [pc |-> "receive", item |-> Nil]
  /\ UNCHANGED <<taskChan, sessionRow>> /\ WorkerFrame

TaskFrame == UNCHANGED <<queueVars, taskChan, taskClosed, dispatch, worker, shutdownVars>>

\* processEvent returns nil: unknown site, bot, shield rule, spam referrer, an
\* engagement without a session, or an error of OnEvent.
TaskDrop(i) ==
  /\ Running /\ stage[i] = "pooled"
  /\ stage' = [stage EXCEPT ![i] = "dropped"]
  /\ UNCHANGED sessionRow /\ TaskFrame

\* processEvent updates the session (OnEvent); a closed session buffer ignores
\* the rows but the session is returned all the same.
TaskSession(i) ==
  /\ Running /\ stage[i] = "pooled"
  /\ stage' = [stage EXCEPT ![i] = "sessioned"]
  /\ sessionRow' = [sessionRow EXCEPT ![i] = IF sessionsClosed THEN "none" ELSE "buffered"]
  /\ TaskFrame

\* writeBuffer.Add looks at closed before it takes the lock to append.
TaskAddCheck(i) ==
  /\ Running /\ stage[i] = "sessioned"
  /\ stage' = [stage EXCEPT ![i] = IF eventsClosed THEN "rejected" ELSE "adding"]
  /\ UNCHANGED sessionRow /\ TaskFrame

\* A full buffer drops the event, whose session row has been added before.  Of
\* MaxBuffer rows in memory all may be in the buffer, or some in batches.
TaskAddAppend(i) ==
  /\ Running /\ stage[i] = "adding"
  /\ \/ stage' = [stage EXCEPT ![i] = "buffered"]
     \/ /\ Cardinality(Buffered(stage)) >= MaxBuffer
        /\ stage' = [stage EXCEPT ![i] = "full"]
  /\ UNCHANGED sessionRow /\ TaskFrame

Task(i) == TaskDrop(i) \/ TaskSession(i) \/ TaskAddCheck(i) \/ TaskAddAppend(i)

-----------------------------------------------------------------------------
(* The flushes of the two buffers, by the ticker of their worker or when a   *)
(* batch is full.                                                            *)

FlushFrame ==
  UNCHANGED <<queueVars, taskChan, taskClosed, dispatch, worker, shutdownVars>>

\* The end of a flush.  A row is lost if its batch was given up after the last
\* attempt (though the table has it if only the answer was lost), or if BatchInsert
\* could not encode it and skipped it.
Written(place, after) ==
  \E batch \in SUBSET Buffered(place) : \E lost \in SUBSET batch :
    /\ batch # {}
    /\ lost # {} => Cardinality(Lost \cup lost) <= MaxLost
    /\ after = [i \in Item |-> IF i \notin batch THEN place[i]
                               ELSE IF i \in lost THEN "lost" ELSE "flushed"]

\* The worker of a buffer ends with its last flush.
FlushEvents ==
  /\ Running /\ shutdown \notin {"sessionsClose", "sessionsFlush", "cancel", "done"}
  /\ Written(stage, stage')
  /\ UNCHANGED sessionRow /\ FlushFrame

FlushSessions ==
  /\ Running /\ shutdown \notin {"cancel", "done"}
  /\ Written(sessionRow, sessionRow')
  /\ UNCHANGED stage /\ FlushFrame

-----------------------------------------------------------------------------
(* Shutdown: one step per statement of its goroutine.                       *)

ShutdownFrame == UNCHANGED <<taskChan, taskClosed, dispatch, worker>>

\* SIGTERM: cmd/server.go starts event.Shutdown and waits for it.
Sigterm ==
  /\ main = "serving"
  /\ main' = "waiting" /\ shutdown' = "close"
  /\ UNCHANGED <<queueVars, bufferVars, eventsClosed, sessionsClosed, released, ctxDone>>
  /\ ShutdownFrame

Proceed(from, to) ==
  Running /\ shutdown = from /\ shutdown' = to /\ UNCHANGED main /\ ShutdownFrame

\* A bug: the session manager is shut down with the queue, before the tasks end.
ShutdownCloseSessionsToo ==
  /\ Proceed("close", "waitWorkers") /\ Q!Close
  /\ sessionsClosed' = TRUE
  /\ UNCHANGED <<bufferVars, eventsClosed, released, ctxDone>>

\* e.queue.Close()
ShutdownClose ==
  /\ Proceed("close", "waitWorkers") /\ Q!Close
  /\ UNCHANGED <<bufferVars, eventsClosed, sessionsClosed, released, ctxDone>>

\* e.wg.Wait(): dispatch and processWorker have exited.
ShutdownWaitWorkers ==
  /\ Proceed("waitWorkers", "waitTasks")
  /\ dispatch.pc = "exited" /\ worker.pc = "exited"
  /\ UNCHANGED <<queueVars, bufferVars, eventsClosed, sessionsClosed, released, ctxDone>>

\* A bug: the tasks in flight are not waited for.
ShutdownRelease ==
  /\ Proceed("waitTasks", "eventsClose")
  /\ released' = TRUE
  /\ UNCHANGED <<queueVars, bufferVars, eventsClosed, sessionsClosed, ctxDone>>

\* e.processWG.Wait() and e.pool.Release().
ShutdownWaitTasks ==
  /\ Proceed("waitTasks", "eventsClose")
  /\ \A i \in Item : stage[i] \notin {"pooled", "sessioned", "adding", "leaked"}
  /\ released' = TRUE
  /\ UNCHANGED <<queueVars, bufferVars, eventsClosed, sessionsClosed, ctxDone>>

\* e.writeBuffer.Shutdown(): closed = 1,
ShutdownEventsClose ==
  /\ Proceed("eventsClose", "eventsFlush")
  /\ eventsClosed' = TRUE
  /\ UNCHANGED <<queueVars, bufferVars, sessionsClosed, released, ctxDone>>

\* and wb.wg.Wait(): the worker's last flush has taken what was left, and this
\* batch and the others have been written or given up.
ShutdownEventsFlush ==
  /\ Proceed("eventsFlush", "sessionsClose")
  /\ Buffered(stage) = {}
  /\ UNCHANGED <<queueVars, bufferVars, eventsClosed, sessionsClosed, released, ctxDone>>

\* e.sessionManager.Shutdown(), likewise.
ShutdownSessionsClose ==
  /\ Proceed("sessionsClose", "sessionsFlush")
  /\ sessionsClosed' = TRUE
  /\ UNCHANGED <<queueVars, bufferVars, eventsClosed, released, ctxDone>>

ShutdownSessionsFlush ==
  /\ Proceed("sessionsFlush", "cancel")
  /\ Buffered(sessionRow) = {}
  /\ UNCHANGED <<queueVars, bufferVars, eventsClosed, sessionsClosed, released, ctxDone>>

\* e.shutdownCancel(); close(done)
ShutdownCancel ==
  /\ Proceed("cancel", "done")
  /\ ctxDone' = TRUE
  /\ UNCHANGED <<queueVars, bufferVars, eventsClosed, sessionsClosed, released>>

ShutdownStep ==
  \/ ShutdownClose \/ ShutdownWaitWorkers \/ ShutdownWaitTasks
  \/ ShutdownEventsClose \/ ShutdownEventsFlush
  \/ ShutdownSessionsClose \/ ShutdownSessionsFlush \/ ShutdownCancel

MainEnds(how) ==
  /\ main = "waiting" /\ main' = how
  /\ UNCHANGED <<queueVars, bufferVars, eventsClosed, sessionsClosed, released, ctxDone, shutdown>>
  /\ ShutdownFrame

\* Shutdown returns and the process exits,
MainReturn == shutdown = "done" /\ MainEnds("returned")

\* at the latest 30 seconds after it was called.
MainTimeout == shutdown # "done" /\ MainEnds("timedout")

Done == Exited /\ UNCHANGED vars

-----------------------------------------------------------------------------
Dispatch == DispatchDequeue \/ DispatchCheck \/ DispatchSleep \/ DispatchSend
Worker == WorkerReceive \/ WorkerSubmit

Next ==
  \/ \E i \in Item : Enqueue(i) \/ Task(i)
  \/ Dispatch \/ Worker
  \/ FlushEvents \/ FlushSessions
  \/ Sigterm \/ ShutdownStep \/ MainReturn \/ MainTimeout \/ Done

\* The Go scheduler runs every goroutine that can proceed, and a task of the
\* pool ends: its CPU work and its one lookup in ClickHouse are bounded.  Tickers
\* tick, and a batch is written or given up after a bounded number of attempts.
\* Nothing is assumed of the handlers, the signal or the 30 second timer.
Fairness ==
  /\ WF_vars(Dispatch) /\ WF_vars(Worker)
  /\ WF_vars(\E i \in Item : Task(i))
  /\ WF_vars(FlushEvents) /\ WF_vars(FlushSessions)
  /\ WF_vars(ShutdownStep) /\ WF_vars(MainReturn)

Spec == Init /\ [][Next]_vars /\ Fairness

-----------------------------------------------------------------------------
PCs == {"dequeue", "check", "sleep", "send", "receive", "submit", "exited"}
RowPlaces == {"buffered", "flushed", "lost"}
Stages == {"none", "pooled", "leaked", "sessioned", "adding", "dropped", "rejected", "full"}
            \cup RowPlaces

\* What can become of a request for good.
Decided == {"dropped", "full", "flushed", "lost"}

\* Types, and taskChan within its capacity.
TypeOK ==
  /\ Q!TypeOK
  /\ taskChan \in Seq(Item) /\ Len(taskChan) <= TaskCap
  /\ dispatch \in [pc : PCs, item : Item \cup {Nil}]
  /\ worker \in [pc : PCs, item : Item \cup {Nil}]
  /\ stage \in [Item -> Stages]
  /\ sessionRow \in [Item -> {"none"} \cup RowPlaces]
  /\ {taskClosed, eventsClosed, sessionsClosed, released, ctxDone} \subseteq BOOLEAN

\* The order of the steps of Shutdown: once the event buffer is closed, every
\* request that dispatch took from the queue has been decided, none is under
\* way in a channel, a goroutine or the pool.  (The comments of Shutdown: all
\* tasks in flight have reached the buffers before the last flush.)
DrainedBeforeLastFlush ==
  eventsClosed =>
    \A i \in Contents(delivered) : stage[i] \in Decided \cup {"buffered"}

\* The two tables may disagree, for each buffer drops and gives up on its own.
\* After a shutdown that did not time out they disagree about a request only if
\* one of its rows was lost in a way the code reports: the event met a full
\* buffer, or the batch of one of the rows was given up or could not encode it.
\* No row is still in memory, and no request has only one of the two.
DisagreeOnlyByLoss ==
  main = "returned" =>
    \A i \in Item :
      \/ stage[i] \in {"none", "dropped"} /\ sessionRow[i] = "none"
      \/ stage[i] \in Decided \ {"dropped"} /\ sessionRow[i] \in {"flushed", "lost"}

\* The context, whose cancellation makes dispatch, processWorker and the retries
\* of a batch give up what they hold, is cancelled only when all have ended.
CancelDropsNothing ==
  ctxDone =>
    /\ dispatch.pc = "exited" /\ worker.pc = "exited"
    /\ Buffered(stage) = {} /\ Buffered(sessionRow) = {}

\* Shutdown works through its stages in order: what one stage relies on, the
\* stages before it have completed.
ShutdownInOrder == DrainedBeforeLastFlush /\ CancelDropsNothing

\* While the server runs, every accepted request is decided: dropped by
\* processEvent or a full buffer, written, or given up.
AcceptedIsProcessed ==
  \A i \in Item :
    i \in Contents(accepted) ~> (stage[i] \in Decided \/ main # "serving")

\* Shutdown comes to its end unless the 30 second timer ends the process: its
\* waits do not wait for each other.
ShutdownCompletes == shutdown = "close" ~> (shutdown = "done" \/ main = "timedout")

\* The pipeline never comes to a standstill, neither in service nor at the end.
KeepsMoving == AcceptedIsProcessed /\ ShutdownCompletes

\* What the comment of dispatch says: at the end of a shutdown that did not time
\* out, no accepted request was discarded on its way to the event buffer.
AcceptedNotDiscarded ==
  main = "returned" =>
    \A i \in Contents(accepted) : stage[i] \in Decided
=============================================================================
