------------------------------- MODULE Ingestion -------------------------------
(***************************************************************************)
(* The handler of /event in internal/api/external/externalevent.go, for    *)
(* the events of one site with a rate limit and an owner with a plan:      *)
(* concurrent requests with one event or a batch of them pass the checks   *)
(* of the site, the rate limiter with its windows, and the monthly quota,  *)
(* and put the event on the queue.  SiteRegistry, MonthlyQuota and         *)
(* DynamicQueue hold the details of what is one step here.                 *)
(***************************************************************************)
EXTENDS Integers, Sequences, FiniteSets

CONSTANTS Request,
          Single,    \* the requests that are not batches
          Size,      \* how many events each request holds
          Scale,     \* the length of a window, in units of the clock
          RateLimit, \* events per window
          Quota,     \* events per month; -1 is unlimited
          QueueSize, \* the queue refuses when it holds this many
          LastTick   \* bound: the clock stops there

VARIABLES now,
          windows,   \* every ingestWindow made so far; requests point to them
          current,   \* the one in the map l.windows; 0 is none
          request,   \* [pc, event, at, seen] of each request
          used,      \* the owner's count of this month
          waiting,   \* how many events the queue holds
          shut,      \* the queue is closed
          answer,    \* the status of each response
          paid, entered, \* the events that were counted, and that were enqueued
          unread,    \* the events whose owner or plan could not be read
          overtaken  \* a window was cleaned up under a request older than its end

limiterVars == <<windows, current, overtaken>>
vars == <<now, limiterVars, request, used, waiting, shut, answer, paid, entered, unread>>

\* What the properties need of the constants.
IngestionConstants ==
  /\ Single \subseteq Request /\ Size \in [Request -> Nat \ {0}]
  /\ \A r \in Single : Size[r] = 1
  /\ Scale \in Nat \ {0} /\ RateLimit \in Nat \ {0} /\ Quota \in Nat \cup {-1}
  /\ QueueSize \in Nat /\ LastTick \in Nat

Init ==
  /\ now = 0
  /\ windows = <<>> /\ current = 0 /\ overtaken = FALSE
  /\ request = [r \in Request |-> [pc |-> "check", event |-> 1, at |-> 0, seen |-> 0]]
  /\ used = 0 /\ waiting = 0 /\ shut = FALSE
  /\ answer = [r \in Request |-> "none"]
  /\ paid = {} /\ entered = {} /\ unread = {}

Move(r, pc, event, at, seen) ==
  request' = [request EXCEPT ![r] = [pc |-> pc, event |-> event, at |-> at, seen |-> seen]]

Goto(r, pc) == Move(r, pc, request[r].event, request[r].at, request[r].seen)

\* The event the request is at.
Event(r) == <<r, request[r].event>>

Respond(r, status) == Goto(r, "done") /\ answer' = [answer EXCEPT ![r] = status]

\* A batch goes on with its next event; the last one is followed by 202.
NextEvent(r) ==
  IF request[r].event = Size[r]
  THEN Respond(r, "accepted")
  ELSE /\ Move(r, "check", request[r].event + 1, request[r].at, request[r].seen)
       /\ UNCHANGED answer

\* An event that is not taken ends a request of its own, and is left out of a batch.
Refuse(r) == IF r \in Single THEN Respond(r, "refused") ELSE NextEvent(r)

-----------------------------------------------------------------------------
\* Before anything is looked at: a body that cannot be parsed, a batch that is
\* too large, an empty one or a client in a datacenter, which are told 202.
TurnAway(r) ==
  /\ request[r].pc = "check" /\ request[r].event = 1
  /\ \E status \in {"refused", "accepted"} : Respond(r, status)
  /\ UNCHANGED <<now, limiterVars, used, waiting, shut, paid, entered, unread>>

\* The site is verified and the origin of the request matches, or not.
Check(r) ==
  /\ request[r].pc = "check"
  /\ \/ Goto(r, "clock") /\ UNCHANGED answer
     \/ Refuse(r)
  /\ UNCHANGED <<now, limiterVars, used, waiting, shut, paid, entered, unread>>

-----------------------------------------------------------------------------
(* allow                                                                    *)

\* time.Now, before any lock.
ReadClock(r) ==
  /\ request[r].pc = "clock"
  /\ Move(r, "look", request[r].event, now, request[r].seen)
  /\ UNCHANGED <<now, limiterVars, used, waiting, shut, answer, paid, entered, unread>>

\* Whether a window is there and not over by the clock the request read.
Lasts(w, r) == w # 0 /\ request[r].at < windows[w].reset

\* The map is read under the read lock.
Look(r) ==
  /\ request[r].pc = "look"
  /\ Move(r, IF Lasts(current, r) THEN "count" ELSE "open",
          request[r].event, request[r].at, current)
  /\ UNCHANGED <<now, limiterVars, used, waiting, shut, answer, paid, entered, unread>>

CountIn(w, r) ==
  IF windows[w].count >= RateLimit
  THEN Refuse(r) /\ UNCHANGED windows
  ELSE /\ windows' = [windows EXCEPT ![w].count = @ + 1]
       /\ Goto(r, "charge") /\ UNCHANGED answer

\* Under the write lock, in the window that was seen, which need not be the one
\* in the map any more.
Count(r) ==
  /\ request[r].pc = "count"
  /\ CountIn(request[r].seen, r)
  /\ UNCHANGED <<now, current, overtaken, used, waiting, shut, paid, entered, unread>>

OpenWindow(r) ==
  /\ windows' = Append(windows, [count |-> 1, start |-> request[r].at,
                                 reset |-> request[r].at + Scale])
  /\ current' = Len(windows) + 1
  /\ Goto(r, "charge") /\ UNCHANGED answer

\* A bug: the map is not looked at again under the write lock.
OpenUnchecked(r) ==
  /\ request[r].pc = "open"
  /\ OpenWindow(r)
  /\ UNCHANGED <<now, overtaken, used, waiting, shut, paid, entered, unread>>

\* Under the write lock: another request may have opened a window meanwhile.
Open(r) ==
  /\ request[r].pc = "open"
  /\ IF Lasts(current, r)
     THEN CountIn(current, r) /\ UNCHANGED current
     ELSE OpenWindow(r)
  /\ UNCHANGED <<now, overtaken, used, waiting, shut, paid, entered, unread>>

\* cleanupLoop; a request is overtaken if it has read the clock in the window
\* and will find the map empty.
Cleanup ==
  /\ current # 0 /\ now > windows[current].reset
  /\ current' = 0
  /\ overtaken' = (overtaken \/ \E r \in Request : request[r].pc \in {"look", "open"}
                                                   /\ Lasts(current, r))
  /\ UNCHANGED <<now, windows, request, used, waiting, shut, answer, paid, entered, unread>>

-----------------------------------------------------------------------------
(* The quota and the queue                                                  *)

\* GetSiteOwnerUserID or GetUserWithConfig fails, or there is no plan.
PlanUnread(r) ==
  /\ request[r].pc = "charge"
  /\ unread' = unread \cup {Event(r)}
  /\ Goto(r, "enqueue")
  /\ UNCHANGED <<now, limiterVars, used, waiting, shut, answer, paid, entered>>

\* TryIncrement, or Increment for an unlimited plan.
Charge(r) ==
  /\ request[r].pc = "charge"
  /\ IF Quota >= 0 /\ used >= Quota
     THEN Refuse(r) /\ UNCHANGED <<used, paid>>
     ELSE /\ used' = used + 1 /\ paid' = paid \cup {Event(r)}
          /\ Goto(r, "enqueue") /\ UNCHANGED answer
  /\ UNCHANGED <<now, limiterVars, waiting, shut, entered, unread>>

\* A bug: a batch goes on after the queue has refused one of its events.
EnqueueOn(r) ==
  /\ request[r].pc = "enqueue"
  /\ IF waiting < QueueSize /\ ~shut
     THEN waiting' = waiting + 1 /\ entered' = entered \cup {Event(r)}
     ELSE UNCHANGED <<waiting, entered>>
  /\ NextEvent(r)
  /\ UNCHANGED <<now, limiterVars, used, shut, paid, unread>>

\* A queue that refuses, full or closed, ends the request, whatever a batch still
\* holds; what the batch has enqueued stays, and so does the charge.
Enqueue(r) ==
  /\ request[r].pc = "enqueue"
  /\ \/ /\ waiting < QueueSize /\ ~shut
        /\ waiting' = waiting + 1 /\ entered' = entered \cup {Event(r)}
        /\ NextEvent(r)
     \/ /\ waiting >= QueueSize \/ shut
        /\ Respond(r, "unavailable")
        /\ UNCHANGED <<waiting, entered>>
  /\ UNCHANGED <<now, limiterVars, used, shut, paid, unread>>

\* The shutdown closes the queue while handlers may still run.
Close ==
  /\ ~shut /\ shut' = TRUE
  /\ UNCHANGED <<now, limiterVars, request, used, waiting, answer, paid, entered, unread>>

\* The dispatcher takes an event.
Dequeue ==
  /\ waiting > 0
  /\ waiting' = waiting - 1
  /\ UNCHANGED <<now, limiterVars, request, used, shut, answer, paid, entered, unread>>

Tick ==
  /\ now < LastTick
  /\ now' = now + 1
  /\ UNCHANGED <<limiterVars, request, used, waiting, shut, answer, paid, entered, unread>>

Handle(r) ==
  \/ TurnAway(r) \/ Check(r) \/ ReadClock(r) \/ Look(r) \/ Count(r) \/ Open(r)
  \/ PlanUnread(r) \/ Charge(r) \/ Enqueue(r)

Next == Tick \/ Cleanup \/ Close \/ Dequeue \/ \E r \in Request : Handle(r)

Spec == Init /\ [][Next]_vars

-----------------------------------------------------------------------------
\* Types.
TypeOK ==
  /\ now \in 0..LastTick
  /\ windows \in Seq([count : Nat, start : Nat, reset : Nat])
  /\ current \in 0..Len(windows) /\ overtaken \in BOOLEAN
  /\ request \in [Request -> [pc : {"check", "clock", "look", "count", "open", "charge",
                                    "enqueue", "done"},
                              event : Nat \ {0}, at : 0..LastTick, seen : 0..Len(windows)]]
  /\ used \in Nat /\ waiting \in 0..QueueSize /\ shut \in BOOLEAN
  /\ answer \in [Request -> {"none", "accepted", "refused", "unavailable"}]

\* However requests interleave between the two locks, a window lets at most
\* RateLimit events pass, and a window follows the end of the one before: it is
\* never replaced while it lasts.  Only a request that dwells between the clock
\* and the lock while its window ends and is cleaned up opens one too many.
RateLimited ==
  /\ \A w \in DOMAIN windows : windows[w].count <= RateLimit
  /\ ~overtaken => \A v, w \in DOMAIN windows : v < w => windows[v].reset <= windows[w].start

\* Whatever mix of requests competes: what is counted has entered the queue, is
\* about to, or is the one event at which the queue refused its request; what
\* entered was counted, but for events whose plan could not be read.
CountedIsEntered ==
  /\ used = Cardinality(paid)
  /\ Quota >= 0 => used <= Quota
  /\ entered \ paid \subseteq unread
  /\ \A e \in paid \ entered :
       /\ e = Event(e[1])
       /\ request[e[1]].pc = "enqueue" \/ answer[e[1]] = "unavailable"
=============================================================================
