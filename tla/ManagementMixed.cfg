SPECIFICATION Spec
CONSTANTS
  i1 = i1
  j1 = j1
  j2 = j2
  a1 = a1
  a2 = a2
  a3 = a3
  s1 = s1
  o0 = o0
  o1 = o1
  Ids = {i1}
  Artifacts = {a1, a2}
  Contract <- NoContract
  Settings = {s1}
  Origins = {o0}
  NoOrigins = o0
  Jobs = {j1, j2}
  Tokens = {1, 2}
  MaxHosted = 1
  MaxRevision = 4
  None = None
  Scenarios <- MixedJobs
  MaxAttempts = 2
  MaxFaults = 1
INVARIANT AppliedOnce
PROPERTIES  ImplementsLedger
