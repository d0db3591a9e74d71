SPECIFICATION Spec
CONSTANTS
  e1 = e1
  e2 = e2
  Attempts = {t1, t2}
  MaxSequence = 1
  EventBodies = {e1, e2}
  Bytes <- SomeBytes
  MaxEntries = 3
  MaxBytes = 8
  MaxBody = 3
  Claims = 2
  Ids = {i1}
  Procs = {p1}
  MaxActive = 2
  None = None
INVARIANTS NoAttemptForgotten EntriesFit BytesFit JobsInvariant
PROPERTY DeletedOnlyWhenAnswered
SYMMETRY AnyAttempt
VIEW InUse
