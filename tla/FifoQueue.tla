----------------------------- MODULE FifoQueue -----------------------------
(***************************************************************************)
(* What pkg/generic/queue.go promises to the HTTP handlers that enqueue    *)
(* and to the dispatch goroutine that dequeues: a bounded first-in         *)
(* first-out queue that can be closed.  How the elements are held, when    *)
(* the buffer grows and what Peek sets aside are left to DynamicQueue,     *)
(* which implements this specification.                                    *)
(***************************************************************************)
EXTENDS Naturals, Sequences

CONSTANTS Item,      \* the requests that may be enqueued
          MaxSize    \* the queue may refuse an item once it holds this many

VARIABLES accepted,  \* every item the queue accepted, oldest first
          delivered, \* every item handed to the consumer, oldest first
          refused,   \* the items whose last Enqueue returned an error
          closed     \* Close has been called

vars == <<accepted, delivered, refused, closed>>

Waiting == Len(accepted) - Len(delivered)

Init ==
  /\ accepted = <<>> /\ delivered = <<>>
  /\ refused = {} /\ closed = FALSE

\* An open queue accepts; the element set aside by Peek may come on top of
\* MaxSize elements in the channel.
Accept(i) ==
  /\ ~closed /\ Waiting <= MaxSize
  /\ accepted' = Append(accepted, i)
  /\ refused' = refused \ {i}
  /\ UNCHANGED <<delivered, closed>>

\* Only a closed or a full queue refuses.
Refuse(i) ==
  /\ closed \/ Waiting >= MaxSize
  /\ refused' = refused \cup {i}
  /\ UNCHANGED <<accepted, delivered, closed>>

\* The consumer gets the items in the order in which they were accepted.
Deliver ==
  /\ Len(delivered) < Len(accepted)
  /\ delivered' = Append(delivered, accepted[Len(delivered) + 1])
  /\ UNCHANGED <<accepted, refused, closed>>

Shut == closed' = TRUE /\ UNCHANGED <<accepted, delivered, refused>>

Next == (\E i \in Item : Accept(i) \/ Refuse(i)) \/ Deliver \/ Shut

Spec == Init /\ [][Next]_vars
=============================================================================
