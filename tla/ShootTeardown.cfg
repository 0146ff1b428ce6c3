\* Deletion and migration with errors, restarts and foreign finalizers.
SPECIFICATION Spec
CONSTANTS
  MaxCfg = 1
  InvalidCfgs = {}
  DNSServices = {"absent"}
  Hibernation = {FALSE, TRUE}
  SecretStates = {TRUE}
  Finalizers = {FALSE, TRUE}
  MaxChanges = 1
  MaxErrors = 2
  MaxCrashes = 1
INVARIANTS
  SeedTornDownLast
  NoOrphans
PROPERTIES
  MigrationKeepsShootObjects
  ImplementsTwoSided
