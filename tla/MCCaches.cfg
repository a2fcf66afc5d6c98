CONSTANTS
  s1 = s1  s2 = s2  s3 = s3  m1 = m1  i1 = i1  i2 = i2  None = None
  p1 = p1  p2 = p2  p3 = p3  k1 = k1  k2 = k2  r1 = r1  r2 = r2  c1 = c1  a1 = a1
  Site <- MCSite
  Request <- MCRequest
  Ingest <- MCIngest
  Proc <- MCProc
  Rule <- MCRule
  Replica <- MCReplica
  Call <- MCCall
  Admin <- MCAdmin
  t1 = t1  t2 = t2  t3 = t3  d1 = d1  d2 = d2  d3 = d3
  Task <- MCTask
  Id <- MCId
  MaxChanges = 2
  MaxFailures = 1
SPECIFICATION MCSpec
INVARIANTS TypesOK OneVerifiedSite VerifiedIsAccepted CacheIsCurrent RevokedAtOnce NamesResolve
PROPERTY CachesCatchUp
