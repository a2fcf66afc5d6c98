------------------------------ MODULE MCCaches ------------------------------
(* The caches that a process keeps of its tables: the sites of a domain, the *)
(* shield rules of a site, API keys, and the names of locations.  The four   *)
(* share no variable, so a run looks at one of them while the others rest,   *)
(* instead of at their product.                                              *)
(*   keys: two replicas, one call and one request about a key at a time.     *)
(*   sites: three sites of one domain, one management request, two lookups.  *)
(*   shields: three goroutines that list or change two rules.                *)
(*   names: three tasks that ask for one name, one query that fails.         *)
EXTENDS ApiKeys
CONSTANTS s1, s2, s3, m1, i1, i2, p1, p2, p3, k1, k2, r1, r2, c1, a1,
          t1, t2, t3, d1, d2, d3, Site, Request, Ingest, Proc, Rule, Task, Id
VARIABLES subject, table, domain, request, lookup, steady,
          rules, cached, pc, got, unreported,
          given, rows, entry, holder, task, returned, misled

Sites == INSTANCE SiteRegistry
siteVars == <<table, domain, request, lookup, steady>>

Shields == INSTANCE ShieldRules
shieldVars == <<rules, cached, pc, got, unreported>>

Names == INSTANCE LocationNames
nameVars == <<given, rows, entry, holder, task, returned, misled>>

\* What the components ask of their constants; ApiKeys has an ASSUME of its own.
ASSUME CachesAssumption == Sites!RegistryConstants /\ Names!NameConstants

MCSite == {s1, s2, s3}
MCRequest == {m1}
MCIngest == {i1, i2}
MCProc == {p1, p2, p3}
MCRule == {k1, k2}
MCReplica == {r1, r2}
MCCall == {c1}
MCAdmin == {a1}
MCTask == {t1, t2, t3}
MCId == {d1, d2, d3}

MCInit ==
  /\ Init /\ Sites!Init /\ Shields!Init /\ Names!Init
  /\ subject \in {"keys", "sites", "shields", "names"}
  /\ given \in {None, d1} /\ (subject # "names" => given = None)

MCNext ==
  \/ subject = "keys" /\ Next /\ UNCHANGED <<subject, siteVars, shieldVars, nameVars>>
  \/ subject = "sites" /\ Sites!Next /\ UNCHANGED <<subject, vars, shieldVars, nameVars>>
  \/ subject = "shields" /\ Shields!Next /\ UNCHANGED <<subject, vars, siteVars, nameVars>>
  \/ subject = "names" /\ Names!Next /\ UNCHANGED <<subject, vars, siteVars, shieldVars>>

\* In the initial states no action under fairness is enabled, so that what rests
\* is not asked to move.
MCSpec ==
  /\ MCInit /\ [][MCNext]_<<subject, vars, siteVars, shieldVars, nameVars>>
  /\ Fairness /\ Sites!Fairness /\ Shields!Fairness

\* The types of all four.
TypesOK == TypeOK /\ Sites!TypeOK /\ Shields!TypeOK /\ Names!TypeOK

\* At most one site of the domain is verified (SiteRegistry).
OneVerifiedSite == Sites!OneVerifiedSite

\* The events of a verified site are not turned away (SiteRegistry).
VerifiedIsAccepted == Sites!VerifiedIsAccepted

\* A cached list of shield rules is the table (ShieldRules).
CacheIsCurrent == Shields!CacheIsCurrent

\* A location has one row, and what events were given is in it (LocationNames).
NamesResolve == Names!NamesResolve

\* Whatever a cache missed it comes to know: a deleted site is forgotten
\* (SiteRegistry), a rule whose change was reported as failed takes effect
\* (ShieldRules), a revoked key is refused on every replica (ApiKeys).
CachesCatchUp == Sites!DeletedIsForgotten /\ Shields!StaleEntryGoes /\ CacheCatchesUp
=============================================================================
