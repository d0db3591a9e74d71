SPECIFICATION Spec
CONSTANTS
  Ids = {i1,i2}
  a1 = a1
  a2 = a2
  c1 = c1
  s1 = s1
  o0 = o0
  Artifacts = {a1, a2}
  Contract <- MixedContract
  Settings = {s1}
  Origins = {o0}
  NoOrigins = o0
  Jobs = {j1}
  Tokens = {t1}
  MaxHosted = 1
  MaxRevision = 3
  None = None
INVARIANTS ReloadValid  RevisionNamesOneMutation  
PROPERTY ImplementsRegistry
SYMMETRY AnyId
