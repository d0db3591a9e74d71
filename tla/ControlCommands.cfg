SPECIFICATION FairSpec
CONSTANTS
  c1 = c1
  c2 = c2
  Commands = {c1, c2}
  Kinds <- PairKinds
  EnrollsAt = {"status", "enroll"}
  Retries = 1
  Caller = user
  Service = user
  Host = Host
  None = None
INVARIANTS ChangedAtMostOnce ReportedEnrollmentKept SignalNotLost ControlInvariant
PROPERTIES  ServiceComesUp
