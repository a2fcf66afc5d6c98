------------------------- MODULE EventPipelineProofs -------------------------
(***************************************************************************)
(* For every set of requests and all sizes that PipelineAssumption allows: *)
(* Shutdown works through its stages in order and leaves both rows of each *)
(* request written or reported lost, and the pipeline uses its queue as    *)
(* DynamicQueue says.                                                      *)
(***************************************************************************)
EXTENDS EventPipeline, SequenceTheorems, TLAPS

-----------------------------------------------------------------------------
(* Sequences by what they contain. *)

\* No element occurs twice.
Distinct(s) == \A a, b \in DOMAIN s : s[a] = s[b] => a = b

LEMMA AppendContents ==
  ASSUME NEW S, NEW s \in Seq(S), NEW x \in S
  PROVE  /\ Append(s, x) \in Seq(S) /\ Len(Append(s, x)) = Len(s) + 1 /\ Len(s) \in Nat
         /\ Contents(Append(s, x)) = Contents(s) \cup {x}
         /\ Distinct(s) /\ x \notin Contents(s) => Distinct(Append(s, x))
<1>1. /\ Append(s, x) \in Seq(S) /\ Len(Append(s, x)) = Len(s) + 1 /\ Len(s) \in Nat
      /\ \A k \in 1..Len(s) : Append(s, x)[k] = s[k]
      /\ Append(s, x)[Len(s) + 1] = x
  BY AppendProperties, LenProperties
<1>2. DOMAIN s = 1..Len(s) /\ DOMAIN Append(s, x) = 1..(Len(s) + 1)
  BY <1>1, LenProperties
<1>3. PICK t : t = Append(s, x)
  OBVIOUS
<1>4. /\ DOMAIN t = DOMAIN s \cup {Len(s) + 1} /\ Len(s) + 1 \notin DOMAIN s
      /\ \A k \in DOMAIN s : t[k] = s[k]
      /\ t[Len(s) + 1] = x
  BY <1>1, <1>2, <1>3
<1>5. Contents(t) = Contents(s) \cup {x}
  BY <1>4 DEF Contents
<1>6. ASSUME Distinct(s), x \notin Contents(s) PROVE Distinct(t)
  BY <1>4, <1>6 DEF Distinct, Contents
<1>7. QED BY <1>1, <1>3, <1>5, <1>6

LEMMA TailContents ==
  ASSUME NEW S, NEW s \in Seq(S), s # <<>>, Distinct(s)
  PROVE  /\ Tail(s) \in Seq(S) /\ Len(Tail(s)) = Len(s) - 1 /\ Len(s) \in Nat
         /\ Head(s) \in S /\ Head(s) \in Contents(s)
         /\ Contents(Tail(s)) = Contents(s) \ {Head(s)}
         /\ Distinct(Tail(s))
<1>1. /\ Tail(s) \in Seq(S) /\ Len(Tail(s)) = Len(s) - 1 /\ Len(s) \in Nat
      /\ Head(s) \in S /\ Head(s) = s[1]
      /\ \A k \in 1..Len(Tail(s)) : Tail(s)[k] = s[k + 1]
  BY HeadTailProperties, LenProperties
<1>2. PICK t : t = Tail(s)
  OBVIOUS
<1>3. PICK n : n = Len(s)
  OBVIOUS
<1>4. n > 0
  BY <1>1, <1>3, EmptySeq
<1>5. DOMAIN s = 1..n /\ DOMAIN t = 1..(n - 1)
  BY <1>1, <1>2, <1>3, LenProperties
<1>6. \A k \in 1..(n - 1) : t[k] = s[k + 1]
  BY <1>1, <1>2, <1>3
<1>7. Head(s) \in Contents(s)
  BY <1>1, <1>3, <1>4, <1>5 DEF Contents
<1>8. Contents(t) = Contents(s) \ {Head(s)}
  <2>1. ASSUME NEW x \in Contents(t) PROVE x \in Contents(s) \ {Head(s)}
    <3>1. PICK k \in 1..(n - 1) : x = t[k]
      BY <1>5 DEF Contents
    <3>2. k + 1 \in DOMAIN s /\ 1 \in DOMAIN s /\ x = s[k + 1] /\ k + 1 # 1
      BY <1>1, <1>3, <1>4, <1>5, <1>6, <3>1
    <3>3. QED BY <1>1, <3>2 DEF Contents, Distinct
  <2>2. ASSUME NEW x \in Contents(s) \ {Head(s)} PROVE x \in Contents(t)
    <3>1. PICK k \in 1..n : x = s[k]
      BY <1>5 DEF Contents
    <3>2. k # 1
      BY <1>1, <3>1
    <3>3. k - 1 \in 1..(n - 1) /\ (k - 1) + 1 = k
      BY <1>1, <1>3, <3>1, <3>2
    <3>4. QED BY <1>5, <1>6, <3>1, <3>3 DEF Contents
  <2>3. QED BY <2>1, <2>2
<1>9. Distinct(t)
  <2>1. SUFFICES ASSUME NEW a \in 1..(n - 1), NEW b \in 1..(n - 1), t[a] = t[b]
                 PROVE  a = b
    BY <1>5 DEF Distinct
  <2>2. a + 1 \in DOMAIN s /\ b + 1 \in DOMAIN s /\ s[a + 1] = s[b + 1]
    BY <1>1, <1>3, <1>5, <1>6, <2>1
  <2>3. a + 1 = b + 1
    BY <2>2 DEF Distinct
  <2>4. QED BY <1>1, <1>3, <2>3
<1>10. QED BY <1>1, <1>2, <1>7, <1>8, <1>9

LEMMA EmptyContents == <<>> \in Seq(Item) /\ Len(<<>>) = 0 /\ Contents(<<>>) = {} /\ Distinct(<<>>)
<1>1. <<>> \in Seq(Item) /\ Len(<<>>) = 0 /\ DOMAIN <<>> = {}
  BY EmptySeq, LenProperties
<1>2. QED BY <1>1 DEF Contents, Distinct

-----------------------------------------------------------------------------
(* The queue: a request is in it once and is not delivered again. *)

Queued ==
  /\ head = Nil
  /\ Distinct(queue)
  /\ Contents(queue) \subseteq Contents(accepted)
  /\ Contents(delivered) \subseteq Contents(accepted)
  /\ Contents(queue) \cap Contents(delivered) = {}

LEMMA QueueEnqueue ==
  ASSUME Q!TypeOK, Queued, NEW i \in Item, Q!IsNew(i), Q!Enqueue(i)
  PROVE  Q!TypeOK' /\ Queued' /\ delivered' = delivered
<1>1. /\ queue \in Seq(Item) /\ Len(queue) \in Nat
      /\ capacity \in InitialSize..MaxSize /\ Len(queue) <= capacity
      /\ accepted \in Seq(Item) /\ delivered \in Seq(Item)
      /\ InitialSize \in Nat \ {0} /\ MaxSize \in Nat
  BY LenProperties, PipelineAssumption DEF Q!TypeOK
<1>2. i \notin Contents(accepted) /\ i \notin Contents(queue)
  BY DEF Q!IsNew, Contents, Queued
<1>3. /\ Append(queue, i) \in Seq(Item) /\ Len(Append(queue, i)) = Len(queue) + 1
      /\ Contents(Append(queue, i)) = Contents(queue) \cup {i}
      /\ Distinct(Append(queue, i))
  BY <1>1, <1>2, AppendContents DEF Queued
<1>4. /\ Append(accepted, i) \in Seq(Item)
      /\ Contents(Append(accepted, i)) = Contents(accepted) \cup {i}
  BY <1>1, AppendContents
<1>5. ASSUME queue' = Append(queue, i), Q!AcceptItem(i),
             capacity' \in InitialSize..MaxSize, Len(queue) + 1 <= capacity', blocked' = blocked
      PROVE  Q!TypeOK' /\ Queued' /\ delivered' = delivered
  <2>1. Q!TypeOK'
    BY <1>1, <1>3, <1>4, <1>5 DEF Q!TypeOK, Q!AcceptItem
  <2>2. Queued'
    BY <1>2, <1>3, <1>4, <1>5 DEF Queued, Q!AcceptItem
  <2>3. QED BY <1>5, <2>1, <2>2 DEF Q!AcceptItem
<1>6. CASE Q!EnqueueRefused(i)
  BY <1>6 DEF Q!EnqueueRefused, Q!TypeOK, Queued
<1>7. CASE Q!EnqueueSend(i)
  <2>1. /\ queue' = Append(queue, i) /\ Q!AcceptItem(i)
        /\ capacity' = capacity /\ blocked' = blocked /\ Len(queue) < capacity
    BY <1>7 DEF Q!EnqueueSend
  <2>2. QED BY <1>1, <1>5, <2>1
<1>8. CASE Q!EnqueueGrow(i)
  <2>1. Q!NewSize \in InitialSize..MaxSize /\ Len(queue) + 1 <= Q!NewSize
    BY <1>1, <1>8 DEF Q!EnqueueGrow, Q!NewSize
  <2>2. /\ queue' = Append(queue, i) /\ Q!AcceptItem(i)
        /\ blocked' = blocked /\ capacity' = Q!NewSize
    <3>1. ~(Len(queue) + 1 > Q!NewSize)
      BY <1>1, <2>1
    <3>2. QED BY <1>8, <3>1 DEF Q!EnqueueGrow, Q!Migrated
  <2>3. QED BY <1>5, <2>1, <2>2
<1>9. QED BY <1>6, <1>7, <1>8 DEF Q!Enqueue

LEMMA QueueDequeue ==
  ASSUME Q!TypeOK, Queued, Q!Dequeue
  PROVE  /\ Q!TypeOK' /\ Queued'
         /\ \/ Q!DequeueResult = Nil /\ delivered' = delivered
            \/ /\ Q!DequeueResult \in Item
               /\ Q!DequeueResult \notin Contents(delivered)
               /\ Contents(delivered') = Contents(delivered) \cup {Q!DequeueResult}
<1>1. /\ queue \in Seq(Item) /\ Len(queue) \in Nat
      /\ capacity \in InitialSize..MaxSize /\ Len(queue) <= capacity
      /\ delivered \in Seq(Item) /\ head = Nil /\ head' = Nil
      /\ InitialSize \in Nat \ {0} /\ MaxSize \in Nat /\ Nil \notin Item
      /\ UNCHANGED <<capacity, closed, blocked, accepted, refused>>
  BY LenProperties, PipelineAssumption DEF Q!TypeOK, Queued, Q!Dequeue
<1>2. CASE queue = <<>>
  <2>1. Q!DequeueResult = Nil /\ queue' = queue /\ delivered' = delivered
    BY <1>1, <1>2 DEF Q!Dequeue, Q!DequeueResult
  <2>2. QED BY <1>1, <2>1 DEF Q!TypeOK, Queued
<1>3. CASE queue # <<>>
  <2>1. /\ Tail(queue) \in Seq(Item) /\ Len(Tail(queue)) = Len(queue) - 1
        /\ Head(queue) \in Item /\ Head(queue) \in Contents(queue)
        /\ Contents(Tail(queue)) = Contents(queue) \ {Head(queue)}
        /\ Distinct(Tail(queue))
    BY <1>1, <1>3, TailContents DEF Queued
  <2>2. Q!DequeueResult = Head(queue) /\ Q!DequeueResult # Nil
    BY <1>1, <1>3, <2>1 DEF Q!DequeueResult
  <2>3. queue' = Tail(queue) /\ delivered' = Append(delivered, Head(queue))
    BY <1>1, <1>3, <2>2 DEF Q!Dequeue
  <2>4. /\ Append(delivered, Head(queue)) \in Seq(Item)
        /\ Contents(Append(delivered, Head(queue))) = Contents(delivered) \cup {Head(queue)}
    BY <1>1, <2>1, AppendContents
  <2>5. Q!TypeOK'
    BY <1>1, <2>1, <2>3, <2>4 DEF Q!TypeOK
  <2>6. Queued'
    BY <1>1, <2>1, <2>3, <2>4 DEF Queued
  <2>7. QED BY <2>1, <2>2, <2>3, <2>4, <2>5, <2>6 DEF Queued
<1>4. QED BY <1>2, <1>3

LEMMA QueueClose ==
  ASSUME Q!TypeOK, Queued, Q!Close
  PROVE  Q!TypeOK' /\ Queued' /\ delivered' = delivered
BY DEF Q!TypeOK, Queued, Q!Close

-----------------------------------------------------------------------------
(* What the pipeline holds: every request that was delivered is in exactly  *)
(* one place, or its task has been submitted.                               *)

\* The requests on their way from the queue to the pool.
Carried ==
  Contents(taskChan)
    \cup {i \in Item : dispatch = [pc |-> "send", item |-> i]}
    \cup {i \in Item : worker = [pc |-> "submit", item |-> i]}

Carrying ==
  /\ Distinct(taskChan)
  /\ dispatch.pc = "send" =>
       /\ dispatch.item \in Item \ Contents(taskChan)
       /\ worker.pc = "submit" => worker.item # dispatch.item
  /\ worker.pc = "submit" => worker.item \in Item \ Contents(taskChan)
  /\ \A i \in Item : i \in Carried => stage[i] = "none"
  /\ \A i \in Item : i \in Contents(delivered) <=> i \in Carried \/ stage[i] # "none"

AfterSessionsFlush == {"cancel", "done"}
AfterSessionsClose == AfterSessionsFlush \cup {"sessionsFlush"}
AfterEventsFlush == AfterSessionsClose \cup {"sessionsClose"}
AfterEventsClose == AfterEventsFlush \cup {"eventsFlush"}
AfterTasks == AfterEventsClose \cup {"eventsClose"}
AfterWorkers == AfterTasks \cup {"waitTasks"}

\* What each stage of Shutdown has seen to.
Staged ==
  /\ taskClosed => dispatch.pc = "exited"
  /\ worker.pc = "exited" => dispatch.pc = "exited" /\ taskChan = <<>>
  /\ shutdown \in AfterWorkers => worker.pc = "exited"
  /\ released => shutdown \in AfterTasks
  /\ eventsClosed => shutdown \in AfterEventsClose
  /\ sessionsClosed => shutdown \in AfterSessionsClose
  /\ ctxDone => shutdown = "done"
  /\ main = "serving" => shutdown = "idle"
  /\ main = "returned" => shutdown = "done"
  /\ \A i \in Item : stage[i] \notin {"leaked", "rejected"}
  /\ shutdown \in AfterTasks => InPool = {}

\* The two rows of a request, and what the last flushes have left.
Rows ==
  /\ \A i \in Item : stage[i] \in {"none", "pooled", "dropped"} <=> sessionRow[i] = "none"
  /\ shutdown \in AfterEventsFlush => \A i \in Item : stage[i] # "buffered"
  /\ shutdown \in AfterSessionsFlush => \A i \in Item : sessionRow[i] # "buffered"

IInv == TypeOK /\ Queued /\ Carrying /\ Staged /\ Rows

-----------------------------------------------------------------------------
(* One lemma per actor. *)

LEMMA InitIInv == Init => IInv
<1>1. SUFFICES ASSUME Init PROVE IInv
  OBVIOUS
<1>2. /\ <<>> \in Seq(Item) /\ Len(<<>>) = 0 /\ Contents(<<>>) = {} /\ Distinct(<<>>)
      /\ Nil \notin Item /\ TaskCap \in Nat
      /\ InitialSize \in InitialSize..MaxSize /\ 0 <= InitialSize
  BY EmptyContents, PipelineAssumption
<1>3. TypeOK
  <2>1. Q!TypeOK
    BY <1>1, <1>2 DEF Init, Q!Init, Q!TypeOK
  <2>2. Len(taskChan) <= TaskCap
    BY <1>1, <1>2 DEF Init
  <2>3. QED BY <1>1, <1>2, <2>1, <2>2 DEF Init, TypeOK, PCs, Stages
<1>4. Queued
  BY <1>1, <1>2 DEF Init, Q!Init, Queued
<1>5. Carrying
  BY <1>1, <1>2 DEF Init, Q!Init, Carrying, Carried
<1>6. Staged
  BY <1>1 DEF Init, Staged, AfterWorkers, AfterTasks, AfterEventsClose,
             AfterEventsFlush, AfterSessionsClose, AfterSessionsFlush
<1>7. Rows
  BY <1>1 DEF Init, Rows, AfterEventsFlush, AfterSessionsClose, AfterSessionsFlush
<1>8. QED BY <1>3, <1>4, <1>5, <1>6, <1>7 DEF IInv

LEMMA EnqueueIInv ==
  ASSUME IInv, NEW i \in Item, Enqueue(i)
  PROVE  IInv'
<1>1. /\ UNCHANGED <<taskChan, taskClosed, dispatch, worker, bufferVars, shutdownVars>>
      /\ Q!TypeOK' /\ Queued' /\ delivered' = delivered
  BY QueueEnqueue DEF IInv, TypeOK, Enqueue
<1>2. TypeOK'
  BY <1>1 DEF IInv, TypeOK, bufferVars, shutdownVars
<1>3. Carrying'
  BY <1>1 DEF IInv, Carrying, Carried, bufferVars
<1>4. Staged'
  BY <1>1 DEF IInv, Staged, InPool, bufferVars, shutdownVars
<1>5. Rows'
  BY <1>1 DEF IInv, Rows, bufferVars, shutdownVars
<1>6. QED BY <1>1, <1>2, <1>3, <1>4, <1>5 DEF IInv

\* A step of dispatch that leaves the queue alone or takes a request from it.
LEMMA DispatchIInv ==
  ASSUME IInv, Dispatch
  PROVE  IInv'
<1>1. /\ taskChan \in Seq(Item) /\ Len(taskChan) <= TaskCap /\ Distinct(taskChan)
      /\ dispatch \in [pc : PCs, item : Item \cup {Nil}]
      /\ Nil \notin Item /\ Q!TypeOK /\ Queued /\ Carrying /\ Staged /\ Rows
  BY PipelineAssumption DEF IInv, TypeOK, Carrying
<1>2. UNCHANGED <<worker, stage, sessionRow, eventsClosed, sessionsClosed, released,
                  ctxDone, shutdown, main>>
  BY DEF Dispatch, DispatchDequeue, DispatchCheck, DispatchSleep, DispatchSend, DispatchExit,
         DispatchFrame, bufferVars, shutdownVars
<1>3. Rows'
  BY <1>1, <1>2 DEF Rows
<1>4. CASE DispatchDequeue
  <2>1. /\ dispatch.pc = "dequeue" /\ taskChan' = taskChan /\ taskClosed' = taskClosed
        /\ Q!Dequeue
        /\ dispatch' = IF Q!DequeueResult = Nil
                       THEN [pc |-> "check", item |-> Nil]
                       ELSE [pc |-> "send", item |-> Q!DequeueResult]
    BY <1>4 DEF DispatchDequeue
  <2>2. PICK x : x = Q!DequeueResult
    OBVIOUS
  <2>3. /\ Q!TypeOK' /\ Queued'
        /\ \/ x = Nil /\ delivered' = delivered
           \/ /\ x \in Item /\ x \notin Contents(delivered)
              /\ Contents(delivered') = Contents(delivered) \cup {x}
    BY <1>1, <2>1, <2>2, QueueDequeue
  <2>4. x \in Item \cup {Nil}
    BY <2>3
  <2>5. TypeOK'
    BY <1>1, <1>2, <2>1, <2>2, <2>3, <2>4 DEF IInv, TypeOK, PCs
  <2>6. Staged'
    BY <1>1, <1>2, <2>1, <2>2 DEF Staged, InPool
  <2>7. Carrying'
    <3>1. CASE x = Nil /\ delivered' = delivered
      <4>1. dispatch' = [pc |-> "check", item |-> Nil]
        BY <2>1, <2>2, <3>1
      <4>2. QED BY <1>1, <1>2, <2>1, <3>1, <4>1 DEF Carrying, Carried
    <3>2. CASE /\ x \in Item /\ x \notin Contents(delivered)
               /\ Contents(delivered') = Contents(delivered) \cup {x}
      <4>1. dispatch' = [pc |-> "send", item |-> x]
        BY <1>1, <2>1, <2>2, <3>2
      <4>2. Carried' = Carried \cup {x}
        BY <1>2, <2>1, <3>2, <4>1 DEF Carried
      <4>3. x \notin Carried /\ stage[x] = "none"
        BY <1>1, <3>2 DEF Carrying
      <4>4. x \notin Contents(taskChan) /\ ~(worker.pc = "submit" /\ worker.item = x)
        <5>1. x \notin Contents(taskChan)
          BY <4>3 DEF Carried
        <5>2. worker # [pc |-> "submit", item |-> x]
          BY <3>2, <4>3 DEF Carried
        <5>3. worker \in [pc : PCs, item : Item \cup {Nil}]
          BY DEF IInv, TypeOK
        <5>4. QED BY <5>1, <5>2, <5>3
      <4>5. /\ Distinct(taskChan')
            /\ dispatch'.pc = "send" =>
                 /\ dispatch'.item \in Item \ Contents(taskChan')
                 /\ worker'.pc = "submit" => worker'.item # dispatch'.item
            /\ worker'.pc = "submit" => worker'.item \in Item \ Contents(taskChan')
        BY <1>1, <1>2, <2>1, <3>2, <4>1, <4>4 DEF Carrying
      <4>6. /\ \A i \in Item : i \in Carried' => stage'[i] = "none"
            /\ \A i \in Item : i \in Contents(delivered') <=> i \in Carried' \/ stage'[i] # "none"
        BY <1>1, <1>2, <3>2, <4>2, <4>3 DEF Carrying
      <4>7. QED BY <4>5, <4>6 DEF Carrying
    <3>3. QED BY <2>3, <3>1, <3>2
  <2>8. QED BY <1>3, <2>3, <2>5, <2>6, <2>7 DEF IInv
<1>5. ASSUME DispatchExit, dispatch.pc \in {"check", "sleep"} \/ ctxDone
      PROVE  IInv'
  <2>1. /\ dispatch' = [pc |-> "exited", item |-> Nil] /\ taskClosed' = TRUE
        /\ UNCHANGED queueVars /\ taskChan' = taskChan
    BY <1>5 DEF DispatchExit
  <2>2. dispatch.pc # "send"
    <3>1. ctxDone => dispatch.pc = "exited"
      BY <1>1 DEF Staged, AfterWorkers, AfterTasks, AfterEventsClose,
                  AfterEventsFlush, AfterSessionsClose, AfterSessionsFlush
    <3>2. QED BY <1>5, <3>1
  <2>3. Carried' = Carried
    BY <1>2, <2>1, <2>2 DEF Carried
  <2>4. Carrying'
    BY <1>1, <1>2, <2>1, <2>3 DEF Carrying, queueVars
  <2>5. Staged'
    BY <1>1, <1>2, <2>1 DEF Staged, InPool
  <2>6. TypeOK' /\ Queued'
    BY <1>1, <1>2, <2>1 DEF IInv, TypeOK, Queued, Q!TypeOK, queueVars, PCs
  <2>7. QED BY <1>3, <2>4, <2>5, <2>6 DEF IInv
<1>6. ASSUME NEW to \in {"sleep", "dequeue"}, dispatch.pc \in {"check", "sleep"},
             dispatch' = [dispatch EXCEPT !.pc = to], taskChan' = taskChan,
             taskClosed' = taskClosed, UNCHANGED queueVars
      PROVE  IInv'
  <2>1. dispatch'.pc = to /\ dispatch' \in [pc : PCs, item : Item \cup {Nil}]
    BY <1>1, <1>6 DEF PCs
  <2>2. Carried' = Carried
    BY <1>2, <1>6, <2>1 DEF Carried
  <2>3. Carrying'
    BY <1>1, <1>2, <1>6, <2>1, <2>2 DEF Carrying, queueVars
  <2>4. Staged'
    BY <1>1, <1>2, <1>6, <2>1 DEF Staged, InPool
  <2>5. TypeOK' /\ Queued'
    BY <1>1, <1>2, <1>6, <2>1 DEF IInv, TypeOK, Queued, Q!TypeOK, queueVars
  <2>6. QED BY <1>3, <2>3, <2>4, <2>5 DEF IInv
<1>7. CASE DispatchCheck \/ DispatchSleep
  BY <1>5, <1>6, <1>7 DEF DispatchCheck, DispatchSleep
<1>8. CASE DispatchSend
  <2>1. CASE ctxDone /\ DispatchExit
    BY <1>5, <2>1
  <2>2. CASE ~(ctxDone /\ DispatchExit)
    <3>1. /\ dispatch.pc = "send" /\ Len(taskChan) < TaskCap
          /\ taskChan' = Append(taskChan, dispatch.item)
          /\ dispatch' = [pc |-> "dequeue", item |-> Nil]
          /\ UNCHANGED queueVars /\ taskClosed' = taskClosed
      BY <1>8, <2>2 DEF DispatchSend
    <3>2. PICK x : x = dispatch.item
      OBVIOUS
    <3>3. x \in Item /\ x \notin Contents(taskChan) /\ dispatch = [pc |-> "send", item |-> x]
      BY <1>1, <3>1, <3>2 DEF Carrying
    <3>4. /\ taskChan' \in Seq(Item) /\ Len(taskChan') = Len(taskChan) + 1
          /\ Contents(taskChan') = Contents(taskChan) \cup {x}
          /\ Distinct(taskChan') /\ Len(taskChan) \in Nat
      BY <1>1, <3>1, <3>2, <3>3, AppendContents
    <3>5. Carried' = Carried
      BY <1>2, <3>1, <3>3, <3>4 DEF Carried
    <3>6. Carrying'
      BY <1>1, <1>2, <3>1, <3>2, <3>3, <3>4, <3>5 DEF Carrying, queueVars
    <3>7. Staged'
      BY <1>1, <1>2, <3>1 DEF Staged, InPool
    <3>8. Len(taskChan') <= TaskCap
      BY <3>1, <3>4, PipelineAssumption
    <3>9. TypeOK' /\ Queued'
      BY <1>1, <1>2, <3>1, <3>4, <3>8 DEF IInv, TypeOK, Queued, Q!TypeOK, queueVars, PCs
    <3>10. QED BY <1>3, <3>6, <3>7, <3>9 DEF IInv
  <2>3. QED BY <2>1, <2>2
<1>9. QED BY <1>4, <1>7, <1>8 DEF Dispatch

LEMMA WorkerIInv ==
  ASSUME IInv, Worker
  PROVE  IInv'
<1>1. /\ taskChan \in Seq(Item) /\ Len(taskChan) <= TaskCap /\ Distinct(taskChan)
      /\ worker \in [pc : PCs, item : Item \cup {Nil}]
      /\ stage \in [Item -> Stages]
      /\ Nil \notin Item /\ Q!TypeOK /\ Queued /\ Carrying /\ Staged /\ Rows
  BY PipelineAssumption DEF IInv, TypeOK, Carrying
<1>2. /\ UNCHANGED <<taskClosed, dispatch, sessionRow, eventsClosed, sessionsClosed, released,
                     ctxDone, shutdown, main>>
      /\ UNCHANGED queueVars
  BY DEF Worker, WorkerReceive, WorkerSubmit, WorkerFrame, bufferVars, shutdownVars
<1>3. Q!TypeOK' /\ Queued' /\ delivered' = delivered
  BY <1>1, <1>2 DEF Q!TypeOK, Queued, queueVars
<1>4. worker.pc # "exited" => shutdown \notin AfterWorkers /\ ~ctxDone /\ ~released
  BY <1>1 DEF Staged, AfterWorkers, AfterTasks, AfterEventsClose,
              AfterEventsFlush, AfterSessionsClose, AfterSessionsFlush
<1>5. CASE worker.pc = "receive" /\ stage' = stage /\ taskChan # <<>>
           /\ worker' = [pc |-> "submit", item |-> Head(taskChan)] /\ taskChan' = Tail(taskChan)
  <2>1. PICK x : x = Head(taskChan)
    OBVIOUS
  <2>2. /\ taskChan' \in Seq(Item) /\ Len(taskChan') = Len(taskChan) - 1 /\ Len(taskChan) \in Nat
        /\ x \in Item /\ x \in Contents(taskChan)
        /\ Contents(taskChan') = Contents(taskChan) \ {x} /\ Distinct(taskChan')
    BY <1>1, <1>5, <2>1, TailContents
  <2>3. worker' = [pc |-> "submit", item |-> x]
    BY <1>5, <2>1
  <2>4. Carried' = Carried
    BY <1>2, <1>5, <2>2, <2>3 DEF Carried
  <2>5. dispatch'.pc = "send" =>
          /\ dispatch'.item \in Item \ Contents(taskChan')
          /\ worker'.pc = "submit" => worker'.item # dispatch'.item
    BY <1>1, <1>2, <2>2, <2>3 DEF Carrying
  <2>6. Carrying'
    BY <1>1, <1>2, <1>3, <1>5, <2>2, <2>3, <2>4, <2>5 DEF Carrying
  <2>7. Staged'
    BY <1>1, <1>2, <1>4, <1>5, <2>3 DEF Staged, InPool
  <2>8. Len(taskChan') <= TaskCap
    BY <1>1, <2>2, PipelineAssumption
  <2>9. TypeOK'
    BY <1>1, <1>2, <1>3, <1>5, <2>2, <2>3, <2>8 DEF IInv, TypeOK, PCs
  <2>10. Rows'
    BY <1>1, <1>2, <1>5 DEF Rows
  <2>11. QED BY <1>3, <2>6, <2>7, <2>9, <2>10 DEF IInv
<1>6. CASE worker.pc = "receive" /\ stage' = stage /\ taskChan' = taskChan
           /\ ((taskChan = <<>> /\ taskClosed) \/ ctxDone)
           /\ worker' = [pc |-> "exited", item |-> Nil]
  <2>1. taskChan = <<>> /\ dispatch.pc = "exited"
    BY <1>1, <1>4, <1>6 DEF Staged
  <2>2. Carried' = Carried
    BY <1>2, <1>6 DEF Carried
  <2>3. Carrying'
    BY <1>1, <1>2, <1>3, <1>6, <2>2 DEF Carrying
  <2>4. Staged'
    BY <1>1, <1>2, <1>6, <2>1 DEF Staged, InPool
  <2>5. TypeOK'
    BY <1>1, <1>2, <1>3, <1>6 DEF IInv, TypeOK, PCs
  <2>6. Rows'
    BY <1>1, <1>2, <1>6 DEF Rows
  <2>7. QED BY <1>3, <2>3, <2>4, <2>5, <2>6 DEF IInv
<1>7. CASE WorkerSubmit
  <2>1. PICK x : x = worker.item
    OBVIOUS
  <2>2. /\ worker.pc = "submit" /\ worker = [pc |-> "submit", item |-> x]
        /\ x \in Item /\ x \notin Contents(taskChan)
        /\ dispatch # [pc |-> "send", item |-> x]
    BY <1>1, <1>7, <2>1 DEF WorkerSubmit, Carrying
  <2>3. ~released /\ shutdown \notin AfterWorkers
    BY <1>4, <2>2
  <2>4. /\ stage' = [stage EXCEPT ![x] = "pooled"]
        /\ worker' = [pc |-> "receive", item |-> Nil] /\ taskChan' = taskChan
    BY <1>7, <2>1, <2>3 DEF WorkerSubmit
  <2>5. stage'[x] = "pooled" /\ \A i \in Item \ {x} : stage'[i] = stage[i]
    BY <1>1, <2>2, <2>4
  <2>6. Carried' = Carried \ {x} /\ x \in Carried /\ stage[x] = "none"
    <3>1. x \in Carried
      BY <2>2 DEF Carried
    <3>2. Carried' = Carried \ {x}
      BY <1>2, <2>2, <2>4 DEF Carried
    <3>3. QED BY <1>1, <2>2, <3>1, <3>2 DEF Carrying
  <2>7. /\ \A i \in Item : i \in Carried' => stage'[i] = "none"
        /\ \A i \in Item : i \in Contents(delivered') <=> i \in Carried' \/ stage'[i] # "none"
    BY <1>1, <1>3, <2>2, <2>5, <2>6 DEF Carrying
  <2>8. Carrying'
    BY <1>1, <1>2, <2>4, <2>7 DEF Carrying
  <2>9. Staged'
    <3>1. AfterTasks \subseteq AfterWorkers
      BY DEF AfterWorkers
    <3>2. \A i \in Item : stage'[i] \notin {"leaked", "rejected"}
      BY <1>1, <2>5 DEF Staged
    <3>3. QED BY <1>1, <1>2, <2>3, <2>4, <3>1, <3>2 DEF Staged
  <2>10. TypeOK'
    BY <1>1, <1>2, <1>3, <2>4 DEF IInv, TypeOK, PCs, Stages
  <2>11. Rows'
    BY <1>1, <1>2, <2>2, <2>5, <2>6 DEF Rows
  <2>12. QED BY <1>3, <2>8, <2>9, <2>10, <2>11 DEF IInv
<1>8. QED BY <1>5, <1>6, <1>7 DEF Worker, WorkerReceive, bufferVars

\* A task of the pool moves its own request only, and both of its rows alike.
LEMMA TaskMoves ==
  ASSUME IInv, NEW i \in Item, Task(i)
  PROVE  /\ stage[i] \in {"pooled", "sessioned", "adding"}
         /\ \E p \in {"dropped", "sessioned", "adding", "full", "buffered"},
               r \in {"none"} \cup RowPlaces :
              /\ stage' = [stage EXCEPT ![i] = p]
              /\ sessionRow' = [sessionRow EXCEPT ![i] = r]
              /\ p = "dropped" <=> r = "none"
<1>1. stage[i] \in {"pooled", "sessioned", "adding"}
  BY DEF Task, TaskDrop, TaskSession, TaskAddCheck, TaskAddAppend
<1>2. shutdown \notin AfterTasks /\ ~sessionsClosed /\ ~eventsClosed
  BY <1>1 DEF IInv, Staged, InPool, AfterTasks, AfterEventsClose,
              AfterEventsFlush, AfterSessionsClose, AfterSessionsFlush
<1>3. /\ sessionRow \in [Item -> {"none"} \cup RowPlaces]
      /\ stage[i] = "pooled" <=> sessionRow[i] = "none"
      /\ sessionRow = [sessionRow EXCEPT ![i] = sessionRow[i]]
  BY <1>1 DEF IInv, TypeOK, Rows
<1>4. CASE TaskDrop(i)
  <2>1. /\ stage' = [stage EXCEPT ![i] = "dropped"]
        /\ sessionRow' = [sessionRow EXCEPT ![i] = "none"]
    BY <1>3, <1>4 DEF TaskDrop
  <2>2. QED BY <1>1, <2>1
<1>5. CASE TaskSession(i)
  <2>1. /\ stage' = [stage EXCEPT ![i] = "sessioned"]
        /\ sessionRow' = [sessionRow EXCEPT ![i] = "buffered"]
    BY <1>2, <1>5 DEF TaskSession
  <2>2. QED BY <1>1, <2>1 DEF RowPlaces
<1>6. ASSUME TaskAddCheck(i) \/ TaskAddAppend(i)
      PROVE  \E p \in {"adding", "full", "buffered"}, r \in RowPlaces :
               /\ stage' = [stage EXCEPT ![i] = p]
               /\ sessionRow' = [sessionRow EXCEPT ![i] = r]
  <2>1. sessionRow' = [sessionRow EXCEPT ![i] = sessionRow[i]] /\ sessionRow[i] \in RowPlaces
    BY <1>3, <1>6 DEF TaskAddCheck, TaskAddAppend
  <2>2. \/ stage' = [stage EXCEPT ![i] = "adding"]
        \/ stage' = [stage EXCEPT ![i] = "full"]
        \/ stage' = [stage EXCEPT ![i] = "buffered"]
    BY <1>2, <1>6 DEF TaskAddCheck, TaskAddAppend
  <2>3. QED BY <2>1, <2>2
<1>7. CASE TaskAddCheck(i) \/ TaskAddAppend(i)
  BY <1>1, <1>6, <1>7 DEF RowPlaces
<1>8. QED BY <1>4, <1>5, <1>7 DEF Task

LEMMA TaskIInv ==
  ASSUME IInv, NEW i \in Item, Task(i)
  PROVE  IInv'
<1>1. /\ stage \in [Item -> Stages] /\ sessionRow \in [Item -> {"none"} \cup RowPlaces]
      /\ Q!TypeOK /\ Queued /\ Carrying /\ Staged /\ Rows
  BY DEF IInv, TypeOK
<1>2. /\ UNCHANGED <<taskChan, taskClosed, dispatch, worker, eventsClosed, sessionsClosed,
                     released, ctxDone, shutdown, main>>
      /\ UNCHANGED queueVars
  BY DEF Task, TaskDrop, TaskSession, TaskAddCheck, TaskAddAppend, TaskFrame, shutdownVars
<1>3. Q!TypeOK' /\ Queued' /\ delivered' = delivered /\ Carried' = Carried
  BY <1>1, <1>2 DEF Q!TypeOK, Queued, queueVars, Carried
<1>4. PICK p \in {"dropped", "sessioned", "adding", "full", "buffered"},
           r \in {"none"} \cup RowPlaces :
        /\ stage' = [stage EXCEPT ![i] = p]
        /\ sessionRow' = [sessionRow EXCEPT ![i] = r]
        /\ p = "dropped" <=> r = "none"
        /\ stage[i] \in {"pooled", "sessioned", "adding"}
  BY TaskMoves
<1>5. /\ stage'[i] = p /\ sessionRow'[i] = r
      /\ \A k \in Item \ {i} : stage'[k] = stage[k] /\ sessionRow'[k] = sessionRow[k]
  BY <1>1, <1>4
<1>6. shutdown \notin AfterTasks
  BY <1>1, <1>4 DEF Staged, InPool
<1>7. AfterEventsFlush \subseteq AfterTasks /\ AfterSessionsFlush \subseteq AfterTasks
  BY DEF AfterTasks, AfterEventsClose, AfterEventsFlush, AfterSessionsClose, AfterSessionsFlush
<1>8. Rows'
  <2>1. \A k \in Item : stage'[k] \in {"none", "pooled", "dropped"} <=> sessionRow'[k] = "none"
    BY <1>1, <1>4, <1>5 DEF Rows
  <2>2. QED BY <1>2, <1>6, <1>7, <2>1 DEF Rows
<1>9. Carrying'
  BY <1>1, <1>2, <1>3, <1>4, <1>5 DEF Carrying
<1>10. Staged'
  <2>1. \A k \in Item : stage'[k] \notin {"leaked", "rejected"}
    BY <1>1, <1>5 DEF Staged
  <2>2. QED BY <1>1, <1>2, <1>6, <2>1 DEF Staged
<1>11. TypeOK'
  BY <1>1, <1>2, <1>3, <1>4 DEF IInv, TypeOK, Stages, RowPlaces
<1>12. QED BY <1>3, <1>8, <1>9, <1>10, <1>11 DEF IInv

\* A flush writes or loses rows of a buffer, and does nothing to the others.
Flushed(place, after) ==
  \A i \in Item : \/ after[i] = place[i]
                  \/ place[i] = "buffered" /\ after[i] \in {"flushed", "lost"}

LEMMA WrittenMoves ==
  ASSUME NEW S, {"flushed", "lost"} \subseteq S,
         NEW place \in [Item -> S], NEW after, Written(place, after)
  PROVE  after \in [Item -> S] /\ Flushed(place, after)
BY DEF Written, Buffered, Flushed

LEMMA FlushIInv ==
  ASSUME IInv, FlushEvents \/ FlushSessions
  PROVE  IInv'
<1>1. /\ UNCHANGED queueVars /\ UNCHANGED <<taskChan, taskClosed, dispatch, worker>>
      /\ UNCHANGED shutdownVars
      /\ \/ Written(stage, stage') /\ sessionRow' = sessionRow
         \/ Written(sessionRow, sessionRow') /\ stage' = stage
  BY DEF FlushEvents, FlushSessions, FlushFrame
<1>2. /\ stage \in [Item -> Stages] /\ sessionRow \in [Item -> {"none"} \cup RowPlaces]
      /\ {"flushed", "lost"} \subseteq Stages /\ {"flushed", "lost"} \subseteq RowPlaces
      /\ Carrying /\ Staged /\ Rows
  BY DEF IInv, TypeOK, Stages, RowPlaces
<1>3. PICK events, sessions : events = stage' /\ sessions = sessionRow'
  OBVIOUS
<1>4. \/ Written(stage, events) /\ sessions = sessionRow
      \/ Written(sessionRow, sessions) /\ events = stage
  BY <1>1, <1>3
<1>5. events \in [Item -> Stages] /\ Flushed(stage, events)
  <2>1. CASE events = stage
    BY <1>2, <2>1 DEF Flushed
  <2>2. CASE Written(stage, events)
    BY <1>2, <2>2, WrittenMoves
  <2>3. QED BY <1>4, <2>1, <2>2
<1>6. sessions \in [Item -> {"none"} \cup RowPlaces] /\ Flushed(sessionRow, sessions)
  <2>1. CASE sessions = sessionRow
    BY <1>2, <2>1 DEF Flushed
  <2>2. CASE Written(sessionRow, sessions)
    <3>1. {"flushed", "lost"} \subseteq {"none"} \cup RowPlaces
      BY <1>2
    <3>2. QED BY <1>2, <2>2, <3>1, WrittenMoves
  <2>3. QED BY <1>4, <2>1, <2>2
<1>7. TypeOK' /\ Queued'
  BY <1>1, <1>3, <1>5, <1>6 DEF IInv, TypeOK, Q!TypeOK, Queued, queueVars, shutdownVars
<1>8. Carrying'
  BY <1>1, <1>2, <1>3, <1>5 DEF Carrying, Carried, Flushed, queueVars
<1>9. Staged'
  <2>1. InPool' = InPool
    BY <1>3, <1>5 DEF InPool, Flushed
  <2>2. \A i \in Item : stage'[i] \notin {"leaked", "rejected"}
    BY <1>2, <1>3, <1>5 DEF Staged, Flushed
  <2>3. QED BY <1>1, <1>2, <2>1, <2>2 DEF Staged, shutdownVars
<1>10. Rows'
  <2>1. \A i \in Item :
          /\ stage'[i] \in {"none", "pooled", "dropped"} <=> stage[i] \in {"none", "pooled", "dropped"}
          /\ stage'[i] = "buffered" => stage[i] = "buffered"
    BY <1>3, <1>5 DEF Flushed
  <2>2. \A i \in Item : /\ sessionRow'[i] = "none" <=> sessionRow[i] = "none"
                        /\ sessionRow'[i] = "buffered" => sessionRow[i] = "buffered"
    BY <1>3, <1>6 DEF Flushed
  <2>3. QED BY <1>1, <1>2, <2>1, <2>2 DEF Rows, shutdownVars
<1>11. QED BY <1>7, <1>8, <1>9, <1>10 DEF IInv

\* The statements of Shutdown.
LEMMA ShutdownIInv ==
  ASSUME IInv, ShutdownStep
  PROVE  IInv'
<1>1. /\ UNCHANGED <<taskChan, taskClosed, dispatch, worker, stage, sessionRow, main>>
      /\ Running /\ shutdown # "idle" /\ shutdown # "done"
  BY DEF ShutdownStep, ShutdownClose, ShutdownWaitWorkers, ShutdownWaitTasks,
         ShutdownEventsClose, ShutdownEventsFlush, ShutdownSessionsClose,
         ShutdownSessionsFlush, ShutdownCancel, Proceed, ShutdownFrame, bufferVars
<1>2. main \notin {"serving", "returned"}
  BY <1>1 DEF Running, Exited, IInv, Staged
<1>3. Q!TypeOK' /\ Queued' /\ delivered' = delivered
  <2>1. CASE ShutdownClose
    BY <2>1, QueueClose DEF IInv, TypeOK, ShutdownClose
  <2>2. CASE UNCHANGED queueVars
    BY <2>2 DEF IInv, TypeOK, Q!TypeOK, Queued, queueVars
  <2>3. QED
    BY <2>1, <2>2 DEF ShutdownStep, ShutdownWaitWorkers, ShutdownWaitTasks,
       ShutdownEventsClose, ShutdownEventsFlush, ShutdownSessionsClose,
       ShutdownSessionsFlush, ShutdownCancel
<1>4. Carrying' /\ InPool' = InPool
  BY <1>1, <1>3 DEF IInv, Carrying, Carried, InPool
<1>5. {eventsClosed', sessionsClosed', released', ctxDone'} \subseteq BOOLEAN
  BY DEF IInv, TypeOK, ShutdownStep, ShutdownClose, ShutdownWaitWorkers, ShutdownWaitTasks,
     ShutdownEventsClose, ShutdownEventsFlush, ShutdownSessionsClose, ShutdownSessionsFlush,
     ShutdownCancel
<1>6. TypeOK'
  BY <1>1, <1>3, <1>5 DEF IInv, TypeOK
<1>7. Rows'
  <2>1. /\ shutdown' \in AfterEventsFlush => \A i \in Item : stage'[i] # "buffered"
        /\ shutdown' \in AfterSessionsFlush => \A i \in Item : sessionRow'[i] # "buffered"
    <3>1. CASE ShutdownEventsFlush
      BY <1>1, <3>1 DEF ShutdownEventsFlush, Proceed, Buffered, AfterSessionsFlush
    <3>2. CASE ShutdownSessionsFlush
      BY <1>1, <3>2 DEF IInv, Rows, ShutdownSessionsFlush, Proceed, Buffered,
         AfterEventsFlush, AfterSessionsClose, AfterSessionsFlush
    <3>3. CASE ShutdownSessionsClose \/ ShutdownCancel
      BY <3>3 DEF IInv, Rows, ShutdownSessionsClose, ShutdownCancel, Proceed, bufferVars,
         AfterEventsFlush, AfterSessionsClose, AfterSessionsFlush
    <3>4. CASE ShutdownClose \/ ShutdownWaitWorkers \/ ShutdownWaitTasks \/ ShutdownEventsClose
      BY <3>4 DEF ShutdownClose, ShutdownWaitWorkers, ShutdownWaitTasks, ShutdownEventsClose,
         Proceed, AfterEventsFlush, AfterSessionsClose, AfterSessionsFlush
    <3>5. QED BY <3>1, <3>2, <3>3, <3>4 DEF ShutdownStep
  <2>2. QED BY <1>1, <2>1 DEF IInv, Rows
<1>8. Staged'
  <2>1. /\ shutdown' \in AfterWorkers => worker.pc = "exited"
        /\ released' => shutdown' \in AfterTasks
        /\ eventsClosed' => shutdown' \in AfterEventsClose
        /\ sessionsClosed' => shutdown' \in AfterSessionsClose
        /\ ctxDone' => shutdown' = "done"
        /\ shutdown' \in AfterTasks => InPool = {}
    BY DEF IInv, Staged, InPool, ShutdownStep, ShutdownClose, ShutdownWaitWorkers,
       ShutdownWaitTasks, ShutdownEventsClose, ShutdownEventsFlush, ShutdownSessionsClose,
       ShutdownSessionsFlush, ShutdownCancel, Proceed, AfterWorkers, AfterTasks,
       AfterEventsClose, AfterEventsFlush, AfterSessionsClose, AfterSessionsFlush
  <2>2. \A i \in Item : stage'[i] \notin {"leaked", "rejected"}
    BY <1>1 DEF IInv, Staged
  <2>3. QED BY <1>1, <1>2, <1>4, <2>1, <2>2 DEF IInv, Staged
<1>9. QED BY <1>3, <1>4, <1>6, <1>7, <1>8 DEF IInv

\* The signal handler starts Shutdown and ends the process.
LEMMA MainIInv ==
  ASSUME IInv, Sigterm \/ MainReturn \/ MainTimeout
  PROVE  IInv'
<1>1. /\ UNCHANGED queueVars /\ UNCHANGED bufferVars
      /\ UNCHANGED <<taskChan, taskClosed, dispatch, worker, eventsClosed, sessionsClosed,
                     released, ctxDone>>
      /\ \/ main = "serving" /\ shutdown' = "close" /\ main' = "waiting"
         \/ main = "waiting" /\ shutdown' = shutdown /\ main' = "timedout"
         \/ main = "waiting" /\ shutdown' = shutdown /\ main' = "returned" /\ shutdown = "done"
  BY DEF Sigterm, MainReturn, MainTimeout, MainEnds, ShutdownFrame
<1>2. TypeOK' /\ Queued'
  BY <1>1 DEF IInv, TypeOK, Q!TypeOK, Queued, queueVars, bufferVars
<1>3. Carrying'
  BY <1>1 DEF IInv, Carrying, Carried, queueVars, bufferVars
<1>4. Staged'
  BY <1>1 DEF IInv, Staged, InPool, bufferVars, AfterWorkers, AfterTasks,
     AfterEventsClose, AfterEventsFlush, AfterSessionsClose, AfterSessionsFlush
<1>5. Rows'
  BY <1>1 DEF IInv, Rows, bufferVars, AfterEventsFlush, AfterSessionsClose, AfterSessionsFlush
<1>6. QED BY <1>2, <1>3, <1>4, <1>5 DEF IInv

LEMMA StepIInv == IInv /\ [Next]_vars => IInv'
<1>1. SUFFICES ASSUME IInv, [Next]_vars PROVE IInv'
  OBVIOUS
<1>2. CASE \E i \in Item : Enqueue(i)
  BY <1>1, <1>2, EnqueueIInv
<1>3. CASE \E i \in Item : Task(i)
  BY <1>1, <1>3, TaskIInv
<1>4. CASE Dispatch
  BY <1>1, <1>4, DispatchIInv
<1>5. CASE Worker
  BY <1>1, <1>5, WorkerIInv
<1>6. CASE FlushEvents \/ FlushSessions
  BY <1>1, <1>6, FlushIInv
<1>7. CASE ShutdownStep
  BY <1>1, <1>7, ShutdownIInv
<1>8. CASE Sigterm \/ MainReturn \/ MainTimeout
  BY <1>1, <1>8, MainIInv
<1>9. CASE UNCHANGED vars
  <2>1. UNCHANGED queueVars /\ UNCHANGED bufferVars /\ UNCHANGED shutdownVars
        /\ UNCHANGED <<taskChan, taskClosed, dispatch, worker>>
    BY <1>9 DEF vars
  <2>2. TypeOK' /\ Queued'
    BY <1>1, <2>1 DEF IInv, TypeOK, Q!TypeOK, Queued, queueVars, bufferVars, shutdownVars
  <2>3. Carrying' /\ Rows'
    BY <1>1, <2>1 DEF IInv, Carrying, Carried, Rows, queueVars, bufferVars, shutdownVars
  <2>4. Staged'
    BY <1>1, <2>1 DEF IInv, Staged, InPool, bufferVars, shutdownVars
  <2>5. QED BY <2>2, <2>3, <2>4 DEF IInv
<1>10. QED
  BY <1>1, <1>2, <1>3, <1>4, <1>5, <1>6, <1>7, <1>8, <1>9 DEF Next, Done

\* Every reachable state of the pipeline satisfies the inductive invariant.
LEMMA Invariance == Spec => []IInv
<1>1. Init => IInv
  BY InitIInv
<1>2. IInv /\ [Next]_vars => IInv'
  BY StepIInv
<1>3. QED BY <1>1, <1>2, PTL DEF Spec

-----------------------------------------------------------------------------
\* The pipeline keeps its types, and taskChan stays within its capacity.
THEOREM TypeCorrect == Spec => []TypeOK
<1>1. IInv => TypeOK
  BY DEF IInv
<1>2. QED BY <1>1, Invariance, PTL

\* The event buffer is closed only when every request that dispatch took from
\* the queue has been decided, and the context is cancelled only when dispatch
\* and processWorker have ended and no row is in memory.
THEOREM StagesInOrder == Spec => []ShutdownInOrder
<1>1. ASSUME IInv PROVE DrainedBeforeLastFlush
  <2>1. SUFFICES ASSUME eventsClosed, NEW i \in Contents(delivered)
                 PROVE  stage[i] \in Decided \cup {"buffered"}
    BY DEF DrainedBeforeLastFlush
  <2>2. shutdown \in AfterTasks /\ shutdown \in AfterWorkers
    BY <1>1, <2>1 DEF IInv, Staged, AfterWorkers, AfterTasks
  <2>3. worker.pc = "exited" /\ dispatch.pc = "exited" /\ taskChan = <<>> /\ InPool = {}
    BY <1>1, <2>2 DEF IInv, Staged
  <2>4. Carried = {}
    BY <2>3, EmptyContents DEF Carried
  <2>5. i \in Item
    BY <1>1 DEF IInv, TypeOK, Q!TypeOK, Contents
  <2>6. stage[i] # "none" /\ i \notin InPool
    BY <1>1, <2>3, <2>4, <2>5 DEF IInv, Carrying
  <2>7. QED BY <1>1, <2>5, <2>6 DEF IInv, TypeOK, Staged, InPool, Stages, RowPlaces, Decided
<1>2. IInv => CancelDropsNothing
  BY DEF IInv, Staged, Rows, Buffered, CancelDropsNothing, AfterWorkers, AfterTasks, AfterEventsClose,
     AfterEventsFlush, AfterSessionsClose, AfterSessionsFlush
<1>3. IInv => ShutdownInOrder
  BY <1>1, <1>2 DEF ShutdownInOrder
<1>4. QED BY <1>3, Invariance, PTL

\* After a Shutdown that returned in time no row is left in memory and no request
\* has one of its rows only: the tables disagree about a request only if its event
\* met a full buffer or one of its rows was given up, which the code counts or logs.
THEOREM RowsAccountedFor == Spec => []DisagreeOnlyByLoss
<1>1. ASSUME IInv, main = "returned", NEW i \in Item
      PROVE  \/ stage[i] \in {"none", "dropped"} /\ sessionRow[i] = "none"
             \/ stage[i] \in Decided \ {"dropped"} /\ sessionRow[i] \in {"flushed", "lost"}
  <2>1. /\ shutdown = "done" /\ InPool = {}
        /\ stage[i] \notin {"leaked", "rejected", "buffered"}
        /\ sessionRow[i] # "buffered"
        /\ stage[i] \in {"none", "pooled", "dropped"} <=> sessionRow[i] = "none"
    BY <1>1 DEF IInv, Staged, Rows, AfterTasks, AfterEventsClose,
       AfterEventsFlush, AfterSessionsClose, AfterSessionsFlush
  <2>2. stage[i] \notin {"pooled", "sessioned", "adding"}
    BY <2>1 DEF InPool
  <2>3. stage[i] \in Stages /\ sessionRow[i] \in {"none"} \cup RowPlaces
    BY <1>1 DEF IInv, TypeOK
  <2>4. QED BY <2>1, <2>2, <2>3 DEF Stages, RowPlaces, Decided
<1>2. IInv => DisagreeOnlyByLoss
  BY <1>1 DEF DisagreeOnlyByLoss
<1>3. QED BY <1>2, Invariance, PTL

\* Whatever the goroutines of the pipeline do, they use the queue only as
\* DynamicQueue allows: what DynamicQueueProofs shows of it holds here.
THEOREM PipelineUsesQueue == Spec => Q!Spec
<1>1. Init => Q!Init
  BY DEF Init
<1>2. [Next]_vars => [Q!Next]_Q!vars
  <2>1. SUFFICES ASSUME [Next]_vars PROVE Q!Next \/ UNCHANGED queueVars
    BY DEF Q!vars, queueVars
  <2>2. CASE \E i \in Item : Enqueue(i)
    BY <2>2 DEF Enqueue, Q!Next
  <2>3. CASE \E i \in Item : Task(i)
    BY <2>3 DEF Task, TaskDrop, TaskSession, TaskAddCheck, TaskAddAppend, TaskFrame
  <2>4. CASE Dispatch
    BY <2>4 DEF Dispatch, DispatchDequeue, DispatchCheck, DispatchSleep, DispatchSend,
       DispatchExit, Q!Next
  <2>5. CASE Worker \/ FlushEvents \/ FlushSessions
    BY <2>5 DEF Worker, WorkerReceive, WorkerSubmit, WorkerFrame, FlushEvents, FlushSessions,
       FlushFrame
  <2>6. CASE ShutdownStep
    BY <2>6 DEF ShutdownStep, ShutdownClose, ShutdownWaitWorkers, ShutdownWaitTasks,
       ShutdownEventsClose, ShutdownEventsFlush, ShutdownSessionsClose,
       ShutdownSessionsFlush, ShutdownCancel, Q!Next
  <2>7. CASE Sigterm \/ MainReturn \/ MainTimeout
    BY <2>7 DEF Sigterm, MainReturn, MainTimeout, MainEnds
  <2>8. CASE UNCHANGED vars
    BY <2>8 DEF vars
  <2>9. QED
    BY <2>1, <2>2, <2>3, <2>4, <2>5, <2>6, <2>7, <2>8 DEF Next, Done
<1>3. QED BY <1>1, <1>2, PTL DEF Spec, Q!Spec
=============================================================================
