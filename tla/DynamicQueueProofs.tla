------------------------- MODULE DynamicQueueProofs -------------------------
(***************************************************************************)
(* For every set of items and every pair of sizes allowed by               *)
(* QueueAssumption: the dynamic queue keeps its types and its order, never *)
(* blocks under its lock, and implements the abstract FIFO queue.          *)
(***************************************************************************)
EXTENDS DynamicQueue, SequenceTheorems, TLAPS

-----------------------------------------------------------------------------
(* Facts about sequences. *)

\* A nonempty sequence is its head followed by its tail.
LEMMA HeadThenTail ==
  ASSUME NEW S, NEW s \in Seq(S), s # <<>>
  PROVE  <<Head(s)>> \o Tail(s) = s
<1>1. /\ Head(s) \in S /\ Tail(s) \in Seq(S)
      /\ <<Head(s)>> \in Seq(S) /\ Len(<<Head(s)>>) = 1
      /\ Len(Tail(s)) = Len(s) - 1 /\ Len(s) \in Nat
      /\ \A i \in 1..Len(Tail(s)) : Tail(s)[i] = s[i + 1]
  BY HeadTailProperties, LenProperties, EmptySeq
<1>2. DEFINE c == <<Head(s)>> \o Tail(s)
<1>3. /\ c \in Seq(S) /\ Len(c) = Len(s)
      /\ \A i \in 1..Len(s) : c[i] = IF i = 1 THEN Head(s) ELSE Tail(s)[i - 1]
  BY <1>1, ConcatProperties
<1>4. \A i \in 1..Len(s) : c[i] = s[i]
  BY <1>1, <1>3
<1>5. QED BY <1>3, <1>4, SeqEqual

\* Moving the head of t to the end of s leaves their concatenation alone.
LEMMA MoveHead ==
  ASSUME NEW S, NEW s \in Seq(S), NEW t \in Seq(S), t # <<>>
  PROVE  Append(s, Head(t)) \o Tail(t) = s \o t
<1>1. Head(t) \in S /\ Tail(t) \in Seq(S) /\ <<Head(t)>> \in Seq(S)
  BY HeadTailProperties
<1>2. Append(s, Head(t)) = s \o <<Head(t)>>
  BY <1>1, AppendIsConcat
<1>3. (s \o <<Head(t)>>) \o Tail(t) = s \o (<<Head(t)>> \o Tail(t))
  BY <1>1, ConcatAssociative
<1>4. QED BY <1>2, <1>3, HeadThenTail

\* An item appended to two joined sequences is appended to the second.
LEMMA AppendToJoined ==
  \A s, t \in Seq(Item) : \A x \in Item : Append(s \o t, x) = s \o Append(t, x)
<1> SUFFICES ASSUME NEW s \in Seq(Item), NEW t \in Seq(Item), NEW x \in Item
             PROVE  Append(s \o t, x) = s \o Append(t, x)
  OBVIOUS
<1>1. s \o t \in Seq(Item) /\ <<x>> \in Seq(Item)
  BY ConcatProperties
<1>2. Append(s \o t, x) = (s \o t) \o <<x>>
  BY <1>1, AppendIsConcat
<1>3. Append(t, x) = t \o <<x>>
  BY AppendIsConcat
<1>4. (s \o t) \o <<x>> = s \o (t \o <<x>>)
  BY <1>1, ConcatAssociative
<1>5. QED BY <1>2, <1>3, <1>4

-----------------------------------------------------------------------------
(* What the queue holds. *)

LEMMA HeldType == TypeOK => Held \in Seq(Item)
<1>1. ASSUME TypeOK PROVE Held \in Seq(Item)
  <2>1. (IF head = Nil THEN <<>> ELSE <<head>>) \in Seq(Item)
    BY <1>1, EmptySeq DEF TypeOK
  <2>2. QED BY <1>1, <2>1, ConcatProperties DEF TypeOK, Held
<1>2. QED BY <1>1

LEMMA HeldLength == TypeOK => Len(Held) = Size
<1>1. ASSUME TypeOK PROVE Len(Held) = Size
  <2>1. CASE head = Nil
    <3>1. Held = queue
      BY <1>1, <2>1, ConcatEmptySeq DEF Held, TypeOK
    <3>2. Len(queue) \in Nat
      BY <1>1, LenProperties DEF TypeOK
    <3>3. QED BY <2>1, <3>1, <3>2 DEF Size
  <2>2. CASE head # Nil
    <3>1. <<head>> \in Seq(Item) /\ Len(<<head>>) = 1
      BY <1>1, <2>2 DEF TypeOK
    <3>2. Len(<<head>> \o queue) = 1 + Len(queue)
      BY <1>1, <3>1, ConcatProperties DEF TypeOK
    <3>3. Len(queue) \in Nat
      BY <1>1, LenProperties DEF TypeOK
    <3>4. QED BY <2>2, <3>2, <3>3 DEF Size, Held
  <2>3. QED BY <2>1, <2>2
<1>2. QED BY <1>1

-----------------------------------------------------------------------------
(* The inductive invariant: order, types and the lock together, because the *)
(* order is lost by an ill-typed step and the types by a blocked one.       *)

IInv == TypeOK /\ FifoOrder /\ NeverBlocksUnderLock

\* A type-correct accepting step appends to what is held.
LEMMA AcceptKeepsOrder ==
  ASSUME IInv, NEW i \in Item, queue' = Append(queue, i), AcceptItem(i)
  PROVE  FifoOrder' /\ (accepted \in Seq(Item) /\ queue \in Seq(Item))'
<1>1. queue \in Seq(Item) /\ delivered \in Seq(Item) /\ accepted \in Seq(Item)
  BY DEF IInv, TypeOK
<1>2. DEFINE front == IF head = Nil THEN <<>> ELSE <<head>>
<1>3. front \in Seq(Item)
  <2>1. CASE head = Nil
    BY <2>1, EmptySeq
  <2>2. CASE head # Nil
    <3>1. head \in Item
      BY <2>2 DEF IInv, TypeOK
    <3>2. front = <<head>>
      BY <2>2
    <3>3. <<head>> \in Seq(Item)
      BY <3>1
    <3>4. QED BY <3>2, <3>3
  <2>3. QED BY <2>1, <2>2
<1>4. Held' = front \o Append(queue, i)
  BY DEF AcceptItem, Held
<1>5. Held' = Append(Held, i)
  <2>1. Append(front \o queue, i) = front \o Append(queue, i)
    <3> HIDE DEF front
    <3> QED BY <1>1, <1>3, AppendToJoined
  <2>2. Held = front \o queue
    BY DEF Held
  <2>3. QED BY <1>4, <2>1, <2>2
<1>6. Held \in Seq(Item) /\ delivered \in Seq(Item)
  BY HeldType DEF IInv, TypeOK
<1>7. accepted' = delivered \o Append(Held, i)
  <2>1. Append(delivered \o Held, i) = delivered \o Append(Held, i)
    BY <1>6, AppendToJoined
  <2>2. accepted = delivered \o Held /\ accepted' = Append(accepted, i)
    BY DEF IInv, FifoOrder, AcceptItem
  <2>3. QED BY <1>6, <2>1, <2>2
<1>8. FifoOrder'
  BY <1>5, <1>7 DEF FifoOrder, AcceptItem
<1>9. accepted' \in Seq(Item) /\ queue' \in Seq(Item)
  BY <1>1, AppendProperties DEF AcceptItem
<1>10. QED
  BY <1>8, <1>9

LEMMA InitIInv == Init => IInv
<1>1. SUFFICES ASSUME Init PROVE IInv
  OBVIOUS
<1>2. <<>> \in Seq(Item) /\ Len(<<>>) = 0 /\ <<>> \o <<>> = <<>>
  BY EmptySeq, ConcatEmptySeq
<1>3. TypeOK
  <2>1. closed \in BOOLEAN /\ blocked \in BOOLEAN /\ refused \subseteq Item
    BY <1>1 DEF Init
  <2>2. capacity \in InitialSize..MaxSize /\ Len(queue) <= capacity
    BY <1>1, <1>2, QueueAssumption DEF Init
  <2>3. QED BY <1>1, <1>2, <2>1, <2>2 DEF Init, TypeOK
<1>4. FifoOrder /\ NeverBlocksUnderLock
  BY <1>1, <1>2 DEF Init, FifoOrder, Held, NeverBlocksUnderLock
<1>5. QED BY <1>3, <1>4 DEF IInv

LEMMA EnqueueIInv ==
  ASSUME IInv, NEW i \in Item, Enqueue(i)
  PROVE  IInv'
<1>1. /\ queue \in Seq(Item) /\ Len(queue) \in Nat
      /\ capacity \in InitialSize..MaxSize /\ Len(queue) <= capacity
  BY LenProperties DEF IInv, TypeOK
<1>2. Len(Append(queue, i)) = Len(queue) + 1
  BY <1>1, AppendProperties
<1>3. CASE EnqueueRefused(i)
  BY <1>3 DEF EnqueueRefused, IInv, TypeOK, FifoOrder, Held, NeverBlocksUnderLock
<1>4. CASE EnqueueSend(i)
  <2>1. queue' = Append(queue, i) /\ AcceptItem(i) /\ Len(queue)' <= capacity'
    BY <1>1, <1>2, <1>4, QueueAssumption DEF EnqueueSend
  <2>2. FifoOrder' /\ (accepted \in Seq(Item) /\ queue \in Seq(Item))'
    BY <2>1, AcceptKeepsOrder
  <2>3. QED
    BY <1>1, <1>4, <2>1, <2>2 DEF EnqueueSend, AcceptItem, IInv, TypeOK, NeverBlocksUnderLock
<1>5. CASE EnqueueGrow(i)
  <2>1. NewSize \in InitialSize..MaxSize /\ Len(queue) + 1 <= NewSize
    BY <1>1, <1>5, QueueAssumption DEF EnqueueGrow, NewSize
  <2>2. queue' = Append(queue, i) /\ AcceptItem(i) /\ UNCHANGED blocked /\ capacity' = NewSize
    BY <1>1, <1>5, <2>1, QueueAssumption DEF EnqueueGrow, Migrated
  <2>3. FifoOrder' /\ (accepted \in Seq(Item) /\ queue \in Seq(Item))'
    BY <2>2, AcceptKeepsOrder
  <2>4. QED
    BY <1>2, <2>1, <2>2, <2>3 DEF AcceptItem, IInv, TypeOK, NeverBlocksUnderLock
<1>6. QED BY <1>3, <1>4, <1>5 DEF Enqueue

\* Dequeue delivers the first element of what is held.
LEMMA DequeueDelivers ==
  ASSUME IInv, Dequeue
  PROVE  /\ queue' \in Seq(Item) /\ Len(queue') <= Len(queue)
         /\ delivered' \in Seq(Item)
         /\ FifoOrder'
         /\ \/ DequeueResult = Nil /\ UNCHANGED delivered
            \/ /\ DequeueResult \in Item /\ Held # <<>>
               /\ delivered' = Append(delivered, Head(Held))
<1>1. /\ queue \in Seq(Item) /\ delivered \in Seq(Item) /\ Len(queue) \in Nat
      /\ head \in Item \cup {Nil} /\ accepted' = accepted /\ head' = Nil
      /\ accepted = delivered \o Held
  BY LenProperties DEF IInv, TypeOK, Dequeue, FifoOrder
<1>2. CASE head # Nil
  <2>1. DequeueResult = head /\ head \in Item /\ queue' = queue
        /\ delivered' = Append(delivered, head)
    BY <1>1, <1>2 DEF Dequeue, DequeueResult
  <2>2. /\ Held = <<head>> \o queue /\ <<head>> \in Seq(Item) /\ Held' = <<>> \o queue
        /\ <<head>> # <<>>
    BY <1>1, <1>2, <2>1 DEF Held
  <2>3. Held # <<>> /\ Held \in Seq(Item) /\ Head(Held) = head /\ Tail(Held) = queue
    <3>1. /\ Held \in Seq(Item) /\ Len(Held) = 1 + Len(queue) /\ Len(<<head>>) = 1
          /\ \A k \in 1..(1 + Len(queue)) : Held[k] = IF k <= 1 THEN <<head>>[k] ELSE queue[k - 1]
      BY <1>1, <2>2, ConcatProperties
    <3>2. Held # <<>>
      BY <3>1, <1>1, EmptySeq
    <3>3. Head(Held) = head
      BY <3>1, <3>2, <1>1, HeadTailProperties
    <3>4. /\ Tail(Held) \in Seq(Item) /\ Len(Tail(Held)) = Len(queue)
          /\ \A k \in 1..Len(queue) : Tail(Held)[k] = Held[k + 1]
      BY <3>1, <3>2, <1>1, HeadTailProperties
    <3>5. \A k \in 1..Len(queue) : Tail(Held)[k] = queue[k]
      BY <3>1, <3>4, <1>1
    <3>6. Tail(Held) = queue
      BY <3>4, <3>5, <1>1, SeqEqual
    <3>7. QED BY <3>1, <3>2, <3>3, <3>6
  <2>4. accepted' = delivered' \o Held'
    BY <1>1, <2>1, <2>2, <2>3, MoveHead, ConcatEmptySeq
  <2>5. delivered' \in Seq(Item)
    BY <1>1, <2>1, AppendProperties
  <2>6. FifoOrder'
    BY <2>4 DEF FifoOrder
  <2>7. delivered' = Append(delivered, Head(Held)) /\ Len(queue') <= Len(queue)
    BY <1>1, <2>1, <2>3
  <2>8. QED BY <1>1, <2>1, <2>3, <2>5, <2>6, <2>7
<1>3. CASE head = Nil /\ queue # <<>>
  <2>1. /\ Head(queue) \in Item /\ Tail(queue) \in Seq(Item)
        /\ Len(Tail(queue)) = Len(queue) - 1
    BY <1>1, <1>3, HeadTailProperties
  <2>2. /\ DequeueResult = Head(queue) /\ queue' = Tail(queue)
        /\ delivered' = Append(delivered, Head(queue))
    BY <1>3, <2>1, QueueAssumption DEF Dequeue, DequeueResult
  <2>3. Held = queue /\ Held' = Tail(queue)
    BY <1>1, <1>3, <2>1, <2>2, ConcatEmptySeq DEF Held
  <2>4. accepted' = delivered' \o Held'
    BY <1>1, <1>3, <2>2, <2>3, MoveHead
  <2>5. delivered' \in Seq(Item)
    BY <1>1, <2>1, <2>2, AppendProperties
  <2>6. QED BY <1>1, <1>3, <2>1, <2>2, <2>3, <2>4, <2>5 DEF FifoOrder
<1>4. CASE head = Nil /\ queue = <<>>
  <2>1. DequeueResult = Nil /\ queue' = queue /\ delivered' = delivered
    BY <1>4 DEF Dequeue, DequeueResult
  <2>2. Held' = Held
    BY <1>1, <1>4, <2>1 DEF Held
  <2>3. QED BY <1>1, <2>1, <2>2 DEF FifoOrder
<1>5. QED BY <1>2, <1>3, <1>4

LEMMA DequeueIInv == IInv /\ Dequeue => IInv'
<1>1. SUFFICES ASSUME IInv, Dequeue PROVE IInv'
  OBVIOUS
<1>2. queue' \in Seq(Item) /\ Len(queue') <= Len(queue) /\ Len(queue) \in Nat
      /\ Len(queue') \in Nat
  BY <1>1, DequeueDelivers, LenProperties DEF IInv, TypeOK
<1>3. TypeOK'
  BY <1>1, <1>2, DequeueDelivers, QueueAssumption DEF IInv, TypeOK, Dequeue
<1>4. QED
  BY <1>1, <1>3, DequeueDelivers DEF IInv, Dequeue, NeverBlocksUnderLock

LEMMA PeekIInv == IInv /\ Peek => IInv'
<1>1. SUFFICES ASSUME IInv, Peek PROVE IInv'
  OBVIOUS
<1>2. queue \in Seq(Item) /\ Len(queue) \in Nat /\ head \in Item \cup {Nil}
  BY <1>1, LenProperties DEF IInv, TypeOK
<1>3. CASE head = Nil /\ queue # <<>>
  <2>1. head' = Head(queue) /\ queue' = Tail(queue)
    BY <1>1, <1>3 DEF Peek
  <2>2. /\ Head(queue) \in Item /\ Tail(queue) \in Seq(Item)
        /\ Len(Tail(queue)) = Len(queue) - 1
    BY <1>2, <1>3, HeadTailProperties
  <2>3. Held' = <<Head(queue)>> \o Tail(queue) /\ Held = queue
    BY <1>2, <1>3, <2>1, <2>2, QueueAssumption, ConcatEmptySeq DEF Held
  <2>4. Held' = Held
    BY <1>2, <1>3, <2>3, HeadThenTail
  <2>5. FifoOrder' /\ NeverBlocksUnderLock'
    BY <1>1, <2>4 DEF IInv, FifoOrder, NeverBlocksUnderLock, Peek
  <2>6. /\ capacity' = capacity /\ closed' = closed /\ blocked' = blocked
        /\ accepted' = accepted /\ delivered' = delivered /\ refused' = refused
    BY <1>1 DEF Peek
  <2>7. TypeOK'
    <3>1. capacity \in Nat /\ Len(queue) <= capacity
      BY <1>1, QueueAssumption DEF IInv, TypeOK
    <3>2. Len(queue') <= capacity'
      BY <1>2, <2>1, <2>2, <2>6, <3>1
    <3>3. QED BY <1>1, <2>1, <2>2, <2>6, <3>2 DEF IInv, TypeOK
  <2>8. QED BY <2>5, <2>7 DEF IInv
<1>4. CASE ~(head = Nil /\ queue # <<>>)
  <2>1. UNCHANGED vars
    BY <1>1, <1>4 DEF Peek, vars
  <2>2. QED
    BY <1>1, <2>1 DEF vars, IInv, TypeOK, FifoOrder, Held, NeverBlocksUnderLock
<1>5. QED BY <1>3, <1>4

LEMMA StepIInv == IInv /\ [Next]_vars => IInv'
<1>1. SUFFICES ASSUME IInv, [Next]_vars PROVE IInv'
  OBVIOUS
<1>2. CASE \E i \in Item : IsNew(i) /\ Enqueue(i)
  BY <1>1, <1>2, EnqueueIInv
<1>3. CASE Dequeue
  BY <1>1, <1>3, DequeueIInv
<1>4. CASE Peek
  BY <1>1, <1>4, PeekIInv
<1>5. CASE Close
  BY <1>1, <1>5 DEF Close, IInv, TypeOK, FifoOrder, Held, NeverBlocksUnderLock
<1>6. CASE UNCHANGED vars
  BY <1>1, <1>6 DEF vars, IInv, TypeOK, FifoOrder, Held, NeverBlocksUnderLock
<1>7. QED BY <1>1, <1>2, <1>3, <1>4, <1>5, <1>6 DEF Next

\* Every reachable state is type correct, in order and unblocked.
LEMMA Invariance == Spec => []IInv
<1>1. Init => IInv
  BY InitIInv
<1>2. IInv /\ [Next]_vars => IInv'
  BY StepIInv
<1>3. QED BY <1>1, <1>2, PTL DEF Spec

\* The queue keeps its types, and its channel stays within its capacity and
\* its capacity between the two sizes given to NewQueue.
THEOREM TypeCorrect == Spec => []TypeOK
<1>1. IInv => TypeOK
  BY DEF IInv
<1>2. QED BY <1>1, Invariance, PTL

\* Growth, Peek and Close lose, double or reorder nothing: what Enqueue
\* accepted is what Dequeue returned followed by what is still held.
THEOREM FirstInFirstOut == Spec => []FifoOrder
<1>1. IInv => FifoOrder
  BY DEF IInv
<1>2. QED BY <1>1, Invariance, PTL

\* The migration in Enqueue never waits for room while it holds q.lock.
THEOREM GrowthNeverBlocks == Spec => []NeverBlocksUnderLock
<1>1. IInv => NeverBlocksUnderLock
  BY DEF IInv
<1>2. QED BY <1>1, Invariance, PTL

-----------------------------------------------------------------------------
(* The refinement of FifoQueue. *)

\* The length that the abstract queue counts is the Size() of the code.
LEMMA WaitingIsSize ==
  ASSUME IInv
  PROVE  /\ Fifo!Waiting = Size
         /\ Len(accepted) = Len(delivered) + Size
         /\ Len(queue) \in Nat /\ Len(delivered) \in Nat
         /\ Len(queue) <= Size /\ Size <= Len(queue) + 1 /\ Size \in Nat
<1>1. Held \in Seq(Item) /\ delivered \in Seq(Item) /\ Len(Held) = Size
  BY HeldType, HeldLength DEF IInv, TypeOK
<1>2. /\ Len(queue) \in Nat /\ Len(delivered) \in Nat
      /\ Len(queue) <= Size /\ Size <= Len(queue) + 1
  BY LenProperties DEF IInv, TypeOK, Size
<1>3. Len(delivered \o Held) = Len(delivered) + Size
  BY <1>1, ConcatProperties
<1>4. Len(accepted) = Len(delivered) + Size
  BY <1>3 DEF IInv, FifoOrder
<1>5. Size \in Nat
  BY <1>1, LenProperties
<1>6. QED BY <1>2, <1>4, <1>5 DEF Fifo!Waiting

\* An Enqueue is an Accept or a Refuse of the abstract queue.
LEMMA EnqueueRefines ==
  ASSUME IInv, NEW i \in Item, Enqueue(i)
  PROVE  Fifo!Accept(i) \/ Fifo!Refuse(i)
<1>1. capacity \in Nat /\ MaxSize \in Nat /\ capacity <= MaxSize /\ Len(queue) <= capacity
  BY QueueAssumption DEF IInv, TypeOK
<1>2. CASE EnqueueRefused(i)
  <2>1. closed \/ Fifo!Waiting >= MaxSize
    BY <1>1, <1>2, WaitingIsSize DEF EnqueueRefused
  <2>2. QED BY <1>2, <2>1 DEF EnqueueRefused, Fifo!Refuse
<1>3. CASE EnqueueSend(i)
  <2>1. Fifo!Waiting <= MaxSize
    BY <1>1, <1>3, WaitingIsSize DEF EnqueueSend
  <2>2. QED BY <1>3, <2>1 DEF EnqueueSend, AcceptItem, Fifo!Accept
<1>4. CASE EnqueueGrow(i)
  <2>1. Fifo!Waiting <= MaxSize /\ Len(queue) + 1 <= NewSize
    BY <1>1, <1>4, WaitingIsSize, QueueAssumption DEF EnqueueGrow, NewSize, IInv, TypeOK
  <2>2. AcceptItem(i) /\ ~closed
    BY <1>1, <1>4, <2>1, WaitingIsSize, QueueAssumption DEF EnqueueGrow, NewSize
  <2>3. QED BY <2>1, <2>2 DEF AcceptItem, Fifo!Accept
<1>5. QED BY <1>2, <1>3, <1>4 DEF Enqueue

\* A Dequeue that returns an item delivers the oldest one that waits.
LEMMA DequeueRefines ==
  ASSUME IInv, Dequeue
  PROVE  Fifo!Deliver \/ UNCHANGED Fifo!vars
<1>1. accepted' = accepted /\ refused' = refused /\ closed' = closed
  BY DEF Dequeue
<1>2. CASE DequeueResult = Nil /\ UNCHANGED delivered
  BY <1>1, <1>2 DEF Fifo!vars
<1>3. CASE Held # <<>> /\ delivered' = Append(delivered, Head(Held))
  <2>1. /\ Held \in Seq(Item) /\ delivered \in Seq(Item) /\ Len(Held) \in Nat
        /\ Len(delivered) \in Nat /\ accepted = delivered \o Held
    BY HeldType, LenProperties DEF IInv, TypeOK, FifoOrder
  <2>2. Len(Held) > 0
    BY <1>3, <2>1, EmptySeq
  <2>3. /\ Len(accepted) = Len(delivered) + Len(Held)
        /\ accepted[Len(delivered) + 1] = Held[1]
    BY <2>1, <2>2, ConcatProperties
  <2>4. Head(Held) = Held[1]
    BY <1>3, <2>1, HeadTailProperties
  <2>5. Len(delivered) < Len(accepted) /\ delivered' = Append(delivered, accepted[Len(delivered) + 1])
    BY <1>3, <2>1, <2>2, <2>3, <2>4
  <2>6. QED BY <1>1, <2>5 DEF Fifo!Deliver
<1>4. QED BY <1>2, <1>3, DequeueDelivers

LEMMA StepRefines == IInv /\ [Next]_vars => [Fifo!Next]_Fifo!vars
<1>1. SUFFICES ASSUME IInv, [Next]_vars PROVE [Fifo!Next]_Fifo!vars
  OBVIOUS
<1>2. CASE \E i \in Item : IsNew(i) /\ Enqueue(i)
  BY <1>1, <1>2, EnqueueRefines DEF Fifo!Next
<1>3. CASE Dequeue
  BY <1>1, <1>3, DequeueRefines DEF Fifo!Next
<1>4. CASE Peek
  BY <1>4 DEF Peek, Fifo!vars
<1>5. CASE Close
  BY <1>5 DEF Close, Fifo!Next, Fifo!Shut
<1>6. CASE UNCHANGED vars
  BY <1>6 DEF vars, Fifo!vars
<1>7. QED BY <1>1, <1>2, <1>3, <1>4, <1>5, <1>6 DEF Next

\* The dynamic queue is a bounded FIFO queue: it accepts only while open and
\* with at most maxSize elements waiting, refuses only when closed or full,
\* and delivers in the order of acceptance.
THEOREM QueueRefinesFifo == Spec => FifoSpec
<1>1. Init => Fifo!Init
  BY DEF Init, Fifo!Init
<1>2. IInv /\ [Next]_vars => [Fifo!Next]_Fifo!vars
  BY StepRefines
<1>3. QED BY <1>1, <1>2, Invariance, PTL DEF Spec, FifoSpec, Fifo!Spec
=============================================================================
