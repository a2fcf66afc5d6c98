---------------------------- MODULE DynamicQueue ----------------------------
(***************************************************************************)
(* DynamicQueue[T] of pkg/generic/queue.go: a Go channel that is replaced  *)
(* by a larger one when it is full, up to maxSize, with one element that   *)
(* Peek may have set aside.  Every method holds q.lock from its first      *)
(* statement to its return, so each method is one action.                  *)
(***************************************************************************)
EXTENDS Integers, Sequences

CONSTANTS Item,        \* the elements: distinct *EventRequest pointers
          Nil,         \* the zero value of T
          InitialSize, \* NewQueue's first argument (100 in bootstrap/queue.go)
          MaxSize      \* NewQueue's second argument (1000 in bootstrap/queue.go)

\* NewQueue checks nothing; these are the arguments it is called with.
ASSUME QueueAssumption ==
  /\ InitialSize \in Nat \ {0}
  /\ MaxSize \in Nat
  /\ InitialSize <= MaxSize
  /\ Nil \notin Item

VARIABLES queue,     \* what the channel q.queue holds
          capacity,  \* cap(q.queue)
          closed,    \* q.closed
          head,      \* q.head, or Nil when q.hasHead is false
          blocked,   \* a send on the new channel blocks while q.lock is held
          accepted,  \* history: the items Enqueue accepted, in order
          delivered, \* history: the items Dequeue returned, in order
          refused    \* history: the items whose last Enqueue returned an error

vars == <<queue, capacity, closed, head, blocked, accepted, delivered, refused>>

\* What the queue holds, in the order in which it is to be delivered.
Held == (IF head = Nil THEN <<>> ELSE <<head>>) \o queue

Size == Len(queue) + (IF head = Nil THEN 0 ELSE 1)

IsEmpty == head = Nil /\ queue = <<>>

-----------------------------------------------------------------------------
Init ==
  /\ queue = <<>> /\ capacity = InitialSize
  /\ closed = FALSE /\ head = Nil /\ blocked = FALSE
  /\ accepted = <<>> /\ delivered = <<>> /\ refused = {}

AcceptItem(i) ==
  /\ accepted' = Append(accepted, i)
  /\ refused' = refused \ {i}
  /\ UNCHANGED <<closed, head, delivered>>

\* A bug: when doubling overshoots maxSize the queue reports that it is full.
EnqueueRefusedEarly(i) ==
  /\ closed \/ (Len(queue) >= capacity /\ capacity * 2 > MaxSize)
  /\ refused' = refused \cup {i}
  /\ UNCHANGED <<queue, capacity, closed, head, blocked, accepted, delivered>>

\* The outcomes of Enqueue(i).
EnqueueRefused(i) ==
  /\ closed \/ (Len(queue) >= capacity /\ capacity >= MaxSize)
  /\ refused' = refused \cup {i}
  /\ UNCHANGED <<queue, capacity, closed, head, blocked, accepted, delivered>>

EnqueueSend(i) ==
  /\ ~closed /\ Len(queue) < capacity
  /\ queue' = Append(queue, i)
  /\ AcceptItem(i)
  /\ UNCHANGED <<capacity, blocked>>

\* A bug: the size is not clamped.
NewSizeUnclamped == capacity * 2

\* A bug: growing by half, which does not grow a channel of capacity 1.
NewSizeByHalf ==
  IF capacity + capacity \div 2 > MaxSize THEN MaxSize ELSE capacity + capacity \div 2

NewSize == IF capacity * 2 > MaxSize THEN MaxSize ELSE capacity * 2

\* A bug: the new element is sent before the old ones are migrated.
MigratedLast(i) == <<i>> \o queue

Migrated(i) == Append(queue, i)

\* The channel is full and may still grow.  The old elements and then the new
\* one are sent on a channel of NewSize; a send that finds no room blocks for
\* ever, with the lock held.
EnqueueGrow(i) ==
  /\ ~closed /\ Len(queue) >= capacity /\ capacity < MaxSize
  /\ capacity' = NewSize
  /\ IF Len(queue) + 1 > NewSize
     THEN blocked' = TRUE /\ UNCHANGED <<queue, closed, head, accepted, delivered, refused>>
     ELSE queue' = Migrated(i) /\ AcceptItem(i) /\ UNCHANGED blocked

Enqueue(i) ==
  ~blocked /\ (EnqueueRefused(i) \/ EnqueueSend(i) \/ EnqueueGrow(i))

\* The item Dequeue returns: the one set aside, else the first of the channel,
\* else the zero value.  A closed channel still yields what it holds.
DequeueResult ==
  IF head # Nil THEN head ELSE IF queue # <<>> THEN Head(queue) ELSE Nil

Dequeue ==
  /\ ~blocked
  /\ head' = Nil
  /\ queue' = IF head = Nil /\ queue # <<>> THEN Tail(queue) ELSE queue
  /\ delivered' = IF DequeueResult = Nil THEN delivered ELSE Append(delivered, DequeueResult)
  /\ UNCHANGED <<capacity, closed, blocked, accepted, refused>>

\* Peek sets the first element aside unless one is already there.
Peek ==
  /\ ~blocked
  /\ IF head = Nil /\ queue # <<>>
     THEN head' = Head(queue) /\ queue' = Tail(queue)
     ELSE UNCHANGED <<head, queue>>
  /\ UNCHANGED <<capacity, closed, blocked, accepted, delivered, refused>>

Close ==
  /\ ~blocked
  /\ closed' = TRUE
  /\ UNCHANGED <<queue, capacity, head, blocked, accepted, delivered, refused>>

IsNew(i) == \A k \in DOMAIN accepted : accepted[k] # i

\* A request is enqueued until it is accepted, never again afterwards.
Next ==
  \/ \E i \in Item : IsNew(i) /\ Enqueue(i)
  \/ Dequeue \/ Peek \/ Close

Spec == Init /\ [][Next]_vars

-----------------------------------------------------------------------------
\* Types, and the channel within its capacity, which stays between the two
\* sizes given to NewQueue.
TypeOK ==
  /\ queue \in Seq(Item) /\ accepted \in Seq(Item) /\ delivered \in Seq(Item)
  /\ head \in Item \cup {Nil}
  /\ closed \in BOOLEAN /\ blocked \in BOOLEAN
  /\ refused \subseteq Item
  /\ capacity \in InitialSize..MaxSize
  /\ Len(queue) <= capacity

\* Whatever mix of growth, Peek and Close happened, what was accepted is what
\* was delivered followed by what is held: nothing lost, doubled or reordered
\* (the FIFO promise of the comments on head and Peek).
FifoOrder == accepted = delivered \o Held

\* The migration in Enqueue never blocks while it holds the lock, which would
\* stop every handler and the dispatcher for ever.
NeverBlocksUnderLock == ~blocked

Fifo == INSTANCE FifoQueue WITH
  accepted <- accepted, delivered <- delivered, refused <- refused, closed <- closed

\* The dynamic queue implements the bounded FIFO queue: in particular it
\* refuses only when it is closed or holds at least MaxSize elements.
FifoSpec == Fifo!Spec
=============================================================================
