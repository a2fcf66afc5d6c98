CONSTANTS
  Limit <- MCUnlimited
  LastMonth = 1
  MaxEvents = 2
  Failures = FALSE
SPECIFICATION Spec
INVARIANT ShutdownKeepsCount
