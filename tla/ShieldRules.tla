----------------------------- MODULE ShieldRules -----------------------------
(***************************************************************************)
(* The shield rules of one site in internal/service/sites.go: a table in   *)
(* PostgreSQL behind a cache whose entries live for five minutes.  The     *)
(* event worker lists them for every event; the API adds and removes       *)
(* rules.  shieldRulesMu, a RWMutex, serialises changes against the fills  *)
(* of the cache.  IP, hostname, country and referrer rules have one table  *)
(* and one cache each and the same code; this is any one of them.          *)
(***************************************************************************)
EXTENDS Naturals

CONSTANTS Proc, \* goroutines of the event worker and of requests
          Rule, \* the rules
          None  \* no cache entry

VARIABLES rules,     \* the rows of the site
          cached,    \* the cache entry: a set of rules, or None
          pc, got,   \* where each goroutine is, and the rules it has queried
          unreported \* a change was committed but reported as failed, and the
                     \* cache entry of before it is still there

vars == <<rules, cached, pc, got, unreported>>

Init ==
  /\ rules = {} /\ cached = None
  /\ pc = [p \in Proc |-> "idle"] /\ got = [p \in Proc |-> {}]
  /\ unreported = FALSE

\* The goroutines that hold shieldRulesMu for reading, and for writing.
Readers == {p \in Proc : pc[p] \in {"look", "query", "fill"}}
Writers == {p \in Proc : pc[p] \in {"write", "remove"}}

Goto(p, where) == pc' = [pc EXCEPT ![p] = where]

-----------------------------------------------------------------------------
(* ListShieldRuleIP                                                         *)

RLock(p) ==
  /\ pc[p] = "idle" /\ Writers = {}
  /\ Goto(p, "look")
  /\ UNCHANGED <<rules, cached, got, unreported>>

\* A hit is returned, which ends the critical section.
Look(p) ==
  /\ pc[p] = "look"
  /\ Goto(p, IF cached = None THEN "query" ELSE "idle")
  /\ UNCHANGED <<rules, cached, got, unreported>>

Query(p) ==
  /\ pc[p] = "query"
  /\ got' = [got EXCEPT ![p] = rules]
  /\ Goto(p, "fill")
  /\ UNCHANGED <<rules, cached, unreported>>

QueryFails(p) ==
  /\ pc[p] = "query"
  /\ Goto(p, "idle")
  /\ UNCHANGED <<rules, cached, got, unreported>>

Fill(p) ==
  /\ pc[p] = "fill"
  /\ cached' = got[p]
  /\ Goto(p, "idle")
  /\ UNCHANGED <<rules, got, unreported>>

List(p) == RLock(p) \/ Look(p) \/ Query(p) \/ QueryFails(p) \/ Fill(p)

-----------------------------------------------------------------------------
(* AddShieldRuleIP and RemoveShieldRuleIP                                   *)

\* A bug: changes take no lock.
LockNothing(p) ==
  /\ pc[p] = "idle"
  /\ Goto(p, "write")
  /\ UNCHANGED <<rules, cached, got, unreported>>

Lock(p) ==
  /\ pc[p] = "idle" /\ Writers = {} /\ Readers = {}
  /\ Goto(p, "write")
  /\ UNCHANGED <<rules, cached, got, unreported>>

\* A rule is inserted, or a rule of the site deleted.
Change == \E r \in Rule : \/ r \notin rules /\ rules' = rules \cup {r}
                          \/ r \in rules /\ rules' = rules \ {r}

Write(p) ==
  /\ pc[p] = "write" /\ Change
  /\ Goto(p, "remove")
  /\ UNCHANGED <<cached, got, unreported>>

\* An error returns at once; the connection may have failed after the commit.
WriteFails(p) ==
  /\ pc[p] = "write"
  /\ \/ UNCHANGED <<rules, unreported>>
     \/ Change /\ unreported' = (cached # None)
  /\ Goto(p, "idle")
  /\ UNCHANGED <<cached, got>>

RemoveEntry(p) ==
  /\ pc[p] = "remove"
  /\ cached' = None /\ unreported' = FALSE
  /\ Goto(p, "idle")
  /\ UNCHANGED <<rules, got>>

Mutate(p) == Lock(p) \/ Write(p) \/ WriteFails(p) \/ RemoveEntry(p)

-----------------------------------------------------------------------------
\* A bug: entries have no lifetime.
ExpireNever == FALSE /\ UNCHANGED vars

\* Five minutes after the fill, or the thousandth other site.
Expire ==
  /\ cached # None
  /\ cached' = None /\ unreported' = FALSE
  /\ UNCHANGED <<rules, pc, got>>

Next == Expire \/ \E p \in Proc : List(p) \/ Mutate(p)

\* Critical sections end (queries have timeouts), and entries expire.
Fairness ==
  /\ WF_vars(Expire)
  /\ \A p \in Proc : WF_vars(pc[p] # "idle" /\ (List(p) \/ Mutate(p)))

Spec == Init /\ [][Next]_vars /\ Fairness

-----------------------------------------------------------------------------
\* Types; the critical sections exclude each other as those of a RWMutex.
TypeOK ==
  /\ rules \subseteq Rule
  /\ cached = None \/ cached \subseteq Rule
  /\ pc \in [Proc -> {"idle", "look", "query", "fill", "write", "remove"}]
  /\ got \in [Proc -> SUBSET Rule]
  /\ unreported \in BOOLEAN
  /\ Writers = {} \/ Readers = {}
  /\ \A p, q \in Writers : p = q

\* Outside the section that changes the rules a cached list is the table: the
\* event worker never works with rules from before a change that succeeded,
\* however long its query took.
CacheIsCurrent ==
  cached # None /\ (\A p \in Proc : pc[p] # "remove") => cached = rules \/ unreported

\* A change that was committed but reported as failed takes effect as well, when
\* the entry expires.
StaleEntryGoes == unreported ~> ~unreported
=============================================================================
