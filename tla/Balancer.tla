------------------------------ MODULE Balancer ------------------------------
(***************************************************************************)
(* Balancer of internal/session/balancer.go: calls of Dispatch are routed  *)
(* by user to one of a fixed number of workers, each with a channel of its *)
(* own, and run there one after the other.  SessionStore relies on it: the *)
(* events of one user are handled one at a time.                           *)
(***************************************************************************)
EXTENDS Integers, Sequences

CONSTANTS Call,     \* the calls of Dispatch, one per event
          Worker,   \* the workers: balancerSize = 100
          WorkerOf, \* userID % balancerSize, for the user of each call
          UserOf,   \* the user of each call
          Capacity  \* the size of a worker's channel: 64

\* What the properties need of the constants.
BalancerConstants ==
  /\ WorkerOf \in [Call -> Worker]
  /\ \A c, d \in Call : UserOf[c] = UserOf[d] => WorkerOf[c] = WorkerOf[d]
  /\ Capacity \in Nat \ {0}

VARIABLES pc,    \* where the caller of Dispatch is; running and done while it waits
          tasks, \* b.workers, the channels
          ran    \* how often the function of each call was started

vars == <<pc, tasks, ran>>

Init ==
  /\ pc = [c \in Call |-> "new"]
  /\ tasks = [w \in Worker |-> <<>>]
  /\ ran = [c \in Call |-> 0]

Dispatch(c) ==
  /\ pc[c] = "new"
  /\ pc' = [pc EXCEPT ![c] = "sending"]
  /\ UNCHANGED <<tasks, ran>>

\* A bug: a full channel swallows the task.
SendOrSwallow(c) ==
  /\ pc[c] = "sending"
  /\ tasks' = [tasks EXCEPT ![WorkerOf[c]] = IF Len(@) < Capacity THEN Append(@, c) ELSE @]
  /\ pc' = [pc EXCEPT ![c] = "queued"]
  /\ UNCHANGED ran

Send(c) ==
  /\ pc[c] = "sending" /\ Len(tasks[WorkerOf[c]]) < Capacity
  /\ tasks' = [tasks EXCEPT ![WorkerOf[c]] = Append(@, c)]
  /\ pc' = [pc EXCEPT ![c] = "queued"]
  /\ UNCHANGED ran

\* The timer covers the wait for room in the channel, and nothing after it.
Expire(c) ==
  /\ pc[c] = "sending"
  /\ pc' = [pc EXCEPT ![c] = "refused"]
  /\ UNCHANGED <<tasks, ran>>

Running(w) == {c \in Call : pc[c] = "running" /\ WorkerOf[c] = w}

\* runWorker receives the next task when the last one is done.
Start(w) ==
  /\ tasks[w] # <<>> /\ Running(w) = {}
  /\ tasks' = [tasks EXCEPT ![w] = Tail(@)]
  /\ pc' = [pc EXCEPT ![Head(tasks[w])] = "running"]
  /\ ran' = [ran EXCEPT ![Head(tasks[w])] = @ + 1]

\* The result channel holds one result: the worker does not wait for the caller.
Finish(w) ==
  /\ \E c \in Running(w) : pc' = [pc EXCEPT ![c] = "done"]
  /\ UNCHANGED <<tasks, ran>>

\* A bug: the caller gives up waiting for the result, too.
ReturnOrTimeout(c) ==
  /\ pc[c] \in {"queued", "done"}
  /\ pc' = [pc EXCEPT ![c] = IF pc[c] = "done" THEN "returned" ELSE "refused"]
  /\ UNCHANGED <<tasks, ran>>

Return(c) ==
  /\ pc[c] = "done"
  /\ pc' = [pc EXCEPT ![c] = "returned"]
  /\ UNCHANGED <<tasks, ran>>

Caller(c) == Send(c) \/ Expire(c) \/ Return(c)

Next ==
  \/ \E c \in Call : Dispatch(c) \/ Caller(c)
  \/ \E w \in Worker : Start(w) \/ Finish(w)

\* Goroutines that can proceed do; a function ends (its query has a timeout).
Fairness ==
  /\ \A c \in Call : WF_vars(Caller(c))
  /\ \A w \in Worker : WF_vars(Start(w)) /\ WF_vars(Finish(w))

Spec == Init /\ [][Next]_vars /\ Fairness

-----------------------------------------------------------------------------
\* Types; a channel holds calls of its worker that wait, each of them once, and
\* no more than it has room for.
TypeOK ==
  /\ pc \in [Call -> {"new", "sending", "queued", "running", "done", "returned", "refused"}]
  /\ tasks \in [Worker -> Seq(Call)]
  /\ ran \in [Call -> Nat]
  /\ \A w \in Worker :
       /\ Len(tasks[w]) <= Capacity
       /\ \A i \in 1..Len(tasks[w]) : pc[tasks[w][i]] = "queued" /\ WorkerOf[tasks[w][i]] = w
       /\ \A i, j \in 1..Len(tasks[w]) : tasks[w][i] = tasks[w][j] => i = j

\* No two functions of one user are under way at the same time.
OneAtATime ==
  \A c, d \in Call :
    pc[c] = "running" /\ pc[d] = "running" /\ UserOf[c] = UserOf[d] => c = d

\* Caller and worker agree: a call that was refused has not run and never will,
\* one that has returned has run exactly once.
CallerAgrees ==
  \A c \in Call :
    /\ pc[c] = "refused" => /\ ran[c] = 0
                            /\ \A w \in Worker : \A i \in 1..Len(tasks[w]) : tasks[w][i] # c
    /\ pc[c] = "returned" => ran[c] = 1

\* The functions of a user run one after the other, and the caller of each knows
\* whether it did.
RunsInTurn == OneAtATime /\ CallerAgrees

\* Every call comes back, however many share its worker.
DispatchReturns ==
  \A c \in Call : pc[c] = "sending" ~> pc[c] \in {"returned", "refused"}
=============================================================================
