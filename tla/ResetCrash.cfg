SPECIFICATION FairSpec
CONSTANTS
  Directories = {"connectors"}
  Strays = {"notes"}
INVARIANTS ResetInvariant OneIdentity 
PROPERTIES MarkedResetFinishes
