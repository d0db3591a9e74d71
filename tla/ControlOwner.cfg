SPECIFICATION FairSpec
CONSTANTS
  c1 = c1
  c2 = c2
  Commands = {c1}
  Kinds <- EnrollOnly
  EnrollsAt = {"status"}
  Retries = 1
  Caller = root
  Service = user
  Host = Host
  None = None
PROPERTY ServiceComesUp
