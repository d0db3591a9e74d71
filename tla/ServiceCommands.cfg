SPECIFICATION Spec
CONSTANTS
  Commands = {c1, c2}
  Scopes = {"system", "user", "windows"}
INVARIANTS ServiceInvariant InstallComplete UninstallComplete
 
