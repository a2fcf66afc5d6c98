CONSTANTS
  s1 = s1  s2 = s2  m1 = m1  m2 = m2  i1 = i1  None = None
  Site <- MCSite
  Request <- MCRequest
  Ingest <- MCIngest
SPECIFICATION Spec
INVARIANT OneVerifiedSite
