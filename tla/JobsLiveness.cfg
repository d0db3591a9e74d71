SPECIFICATION FairSpec
CONSTANTS
  e1 = e1
  e2 = e2
  Attempts = {t1}
  MaxSequence = 1
  EventBodies = {e1}
  Bytes <- SomeBytes
  MaxEntries = 2
  MaxBytes = 100
  MaxBody = 3
  Claims = 1
  Ids = {i1}
  Procs = {p1}
  MaxActive = 2
  None = None
PROPERTIES CompletionsDelivered ExitedJobsEnd
