\* Deletion and migration come to an end, a served Extension converges.
SPECIFICATION FairSpec
CONSTANTS
  MaxCfg = 2
  InvalidCfgs = {}
  DNSServices = {"absent", "nextGen"}
  Hibernation = {FALSE, TRUE}
  SecretStates = {TRUE}
  Finalizers = {FALSE, TRUE}
  MaxChanges = 1
  MaxErrors = 0
  MaxCrashes = 1
PROPERTIES
  DeletionCompletes
  MigrationCompletes
  Converges
