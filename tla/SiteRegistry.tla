---------------------------- MODULE SiteRegistry ----------------------------
(***************************************************************************)
(* The sites registered for one domain, in internal/service/sites.go:      *)
(* several users may register it, one of them proves that it is his by a   *)
(* file on the domain, and events are accepted for the verified site.  The *)
(* table is PostgreSQL in its default isolation: a statement sees what is  *)
(* committed when it starts, and nothing locks the domain.  Ingestion      *)
(* looks the domain up through domainCache.                                *)
(***************************************************************************)
EXTENDS Naturals

CONSTANTS Site,    \* the sites of this domain; an id is used once
          Request, \* requests of users and administrators: verify, update, delete
          Ingest,  \* requests that bring events
          None     \* no cache entry, no site

VARIABLES table,   \* every site: absent, unverified, verified or deleted
          domain,  \* domainCache at this domain: what a query returned, or None
          request, \* where each request is, and its site
          lookup,  \* where each lookup is, what it has queried, and its answer
          steady   \* the sites verified ever since each lookup began

vars == <<table, domain, request, lookup, steady>>

\* No entry is told from every entry, no site from every site.
RegistryConstants == None \notin Site \cup [site : Site, verified : BOOLEAN]

Row(s) == [site |-> s, verified |-> table[s] = "verified"]
Rows == {Row(s) : s \in {t \in Site : table[t] \in {"unverified", "verified"}}}
Verified == {s \in Site : table[s] = "verified"}

Init ==
  /\ table = [s \in Site |-> "absent"]
  /\ domain = None
  /\ request = [r \in Request |-> [pc |-> "idle", site |-> None]]
  /\ lookup = [i \in Ingest |-> [pc |-> "idle", row |-> None, answer |-> "none"]]
  /\ steady = [i \in Ingest |-> {}]

\* The table changes at site s; what is no longer verified is steady no more.
SetSite(s, status) ==
  /\ table' = [table EXCEPT ![s] = status]
  /\ steady' = IF status = "deleted" THEN [i \in Ingest |-> steady[i] \ {s}] ELSE steady

Goto(r, where, s) == request' = [request EXCEPT ![r] = [pc |-> where, site |-> s]]
Rollback(r) == Goto(r, "idle", None)

\* After a commit; if its acknowledgement is lost the cache is not told.
Committed(r) == Goto(r, "invalidate", None) \/ Goto(r, "idle", None)

-----------------------------------------------------------------------------
\* CreateSite leaves domainCache alone: an unknown domain is not cached.
CreateSite(s) ==
  /\ table[s] = "absent"
  /\ SetSite(s, "unverified")
  /\ UNCHANGED <<domain, request, lookup>>

\* VerifySite and AdminVerifySite read the site before the transaction, the
\* former from membershipCache: the row may be out of date.
VerifyRead(r) ==
  /\ request[r].pc = "idle"
  /\ \E s \in Site : table[s] # "absent" /\ Goto(r, "check", s)
  /\ UNCHANGED <<table, domain, lookup, steady>>

\* A bug: only the site itself is looked at.
VerifyCheckSelf(r) ==
  /\ request[r].pc = "check"
  /\ IF table[request[r].site] = "unverified"
     THEN Goto(r, "fetch", request[r].site)
     ELSE Rollback(r)
  /\ UNCHANGED <<table, domain, lookup, steady>>

\* In the transaction: the site again, then other verified sites of the domain.
VerifyCheck(r) ==
  /\ request[r].pc = "check"
  /\ IF table[request[r].site] = "unverified" /\ Verified = {}
     THEN Goto(r, "fetch", request[r].site)
     ELSE Rollback(r)
  /\ UNCHANGED <<table, domain, lookup, steady>>

\* The verification file is missing or holds another token; up to 20 seconds
\* have gone.  An administrator's request goes on without it.
VerifyFails(r) ==
  /\ request[r].pc = "fetch"
  /\ Rollback(r)
  /\ UNCHANGED <<table, domain, lookup, steady>>

\* The file holds the token.  The update fails if the site is gone.
VerifyCommit(r) ==
  /\ request[r].pc = "fetch"
  /\ IF table[request[r].site] = "deleted"
     THEN Rollback(r) /\ UNCHANGED <<table, steady>>
     ELSE SetSite(request[r].site, "verified") /\ Committed(r)
  /\ UNCHANGED <<domain, lookup>>

DeleteSite(r) ==
  /\ request[r].pc = "idle"
  /\ \E s \in Site : /\ table[s] \in {"unverified", "verified"}
                     /\ SetSite(s, "deleted")
  /\ Committed(r)
  /\ UNCHANGED <<domain, lookup>>

\* A bug: the row of the request is kept.
InvalidateKeeping(r) ==
  /\ request[r].pc = "invalidate"
  /\ domain' = None
  /\ request' = [request EXCEPT ![r].pc = "check"]
  /\ UNCHANGED <<table, lookup, steady>>

\* InvalidateDomainCache, after the commit.
Invalidate(r) ==
  /\ request[r].pc = "invalidate"
  /\ domain' = None
  /\ Rollback(r)
  /\ UNCHANGED <<table, lookup, steady>>

Manage(r) ==
  \/ VerifyRead(r) \/ VerifyCheck(r) \/ VerifyFails(r) \/ VerifyCommit(r)
  \/ DeleteSite(r) \/ Invalidate(r)

-----------------------------------------------------------------------------
(* GetVerifiedSiteByDomain: the answer is a verified site, or a refusal     *)

Answer(i, row) ==
  lookup' = [lookup EXCEPT ![i] =
    [pc |-> "idle", row |-> None,
     answer |-> IF row # None /\ row.verified THEN "accepted" ELSE "refused"]]

\* A row to cache and to answer with.
Found(i, row) == lookup' = [lookup EXCEPT ![i] = [pc |-> "add", row |-> row, answer |-> "none"]]

\* A bug: an unverified entry is returned as it is.
LookupAnyHit(i) ==
  /\ lookup[i].pc = "idle"
  /\ steady' = [steady EXCEPT ![i] = Verified]
  /\ IF domain # None
     THEN Answer(i, domain)
     ELSE lookup' = [lookup EXCEPT ![i] = [pc |-> "query", row |-> None, answer |-> "none"]]
  /\ UNCHANGED <<table, domain, request>>

Lookup(i) ==
  /\ lookup[i].pc = "idle"
  /\ steady' = [steady EXCEPT ![i] = Verified]
  /\ IF domain # None /\ domain.verified
     THEN Answer(i, domain)
     ELSE lookup' = [lookup EXCEPT ![i] =
            [pc |-> IF domain = None THEN "query" ELSE "requery",
             row |-> domain, answer |-> "none"]]
  /\ UNCHANGED <<table, domain, request>>

\* A cached entry that is not verified: has another site been verified since?
Requery(i) ==
  /\ lookup[i].pc = "requery"
  /\ IF Verified = {}
     THEN Answer(i, lookup[i].row)
     ELSE \E s \in Verified : Found(i, Row(s))
  /\ UNCHANGED <<table, domain, request, steady>>

\* A verified site first, else any: the query has no order.
Query(i) ==
  /\ lookup[i].pc = "query"
  /\ IF Rows = {}
     THEN Answer(i, None)
     ELSE \E row \in Rows :
            /\ row.verified \/ Verified = {}
            /\ Found(i, row)
  /\ UNCHANGED <<table, domain, request, steady>>

\* The database fails: an error at a query; at a requery "no verified site",
\* the cached one is returned and refused all the same.
QueryFails(i) ==
  /\ lookup[i].pc \in {"query", "requery"}
  /\ lookup' = [lookup EXCEPT ![i] = [pc |-> "idle", row |-> None, answer |-> "failed"]]
  /\ UNCHANGED <<table, domain, request, steady>>

Add(i) ==
  /\ lookup[i].pc = "add"
  /\ domain' = lookup[i].row
  /\ Answer(i, lookup[i].row)
  /\ UNCHANGED <<table, request, steady>>

GetVerifiedSite(i) == Lookup(i) \/ Requery(i) \/ Query(i) \/ QueryFails(i) \/ Add(i)

\* A bug: entries have no lifetime.
ExpireNever == FALSE /\ UNCHANGED vars

\* Thirty minutes after it was added, after a thousand other domains, or
\* because a site of the domain was edited (UpdateSite, alerts, reports).
Expire == domain # None /\ domain' = None /\ UNCHANGED <<table, request, lookup, steady>>

Next ==
  \/ \E s \in Site : CreateSite(s)
  \/ \E r \in Request : Manage(r)
  \/ \E i \in Ingest : GetVerifiedSite(i)
  \/ Expire

\* Requests and lookups under way end, cache entries expire.
Fairness ==
  /\ \A r \in Request : WF_vars(request[r].pc # "idle" /\ Manage(r))
  /\ \A i \in Ingest : WF_vars(lookup[i].pc # "idle" /\ GetVerifiedSite(i))
  /\ WF_vars(Expire)

Spec == Init /\ [][Next]_vars /\ Fairness

-----------------------------------------------------------------------------
CachedRow == {None} \cup [site : Site, verified : BOOLEAN]

\* Types; a lookup holds a row exactly when it needs one.
TypeOK ==
  /\ table \in [Site -> {"absent", "unverified", "verified", "deleted"}]
  /\ domain \in CachedRow
  /\ \A r \in Request : /\ request[r].pc \in {"idle", "check", "fetch", "invalidate"}
                        /\ request[r].site \in Site \cup {None}
                        /\ request[r].pc \in {"check", "fetch"} <=> request[r].site # None
  /\ \A i \in Ingest : /\ lookup[i].pc \in {"idle", "query", "requery", "add"}
                       /\ lookup[i].row \in CachedRow
                       /\ lookup[i].pc \in {"requery", "add"} <=> lookup[i].row # None
                       /\ lookup[i].answer \in {"none", "accepted", "refused", "failed"}
  /\ steady \in [Ingest -> SUBSET Site]

\* At most one of the sites with this domain is verified.
OneVerifiedSite == \A s, t \in Verified : s = t

\* Events of a domain are not turned away while it has a verified site: a lookup
\* that refuses saw a moment without one, whatever the cache held when it began.
VerifiedIsAccepted == \A i \in Ingest : lookup[i].answer = "refused" => steady[i] = {}

\* A deleted site is served by the cache for a while at most: a lookup that read
\* the site before it was deleted may cache it again, but not for ever.
DeletedIsForgotten ==
  \A s \in Site :
    table[s] = "deleted" ~> [](domain = None \/ domain.site # s)
=============================================================================
