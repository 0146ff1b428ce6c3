\* Edits, hibernation, DNS service changes, unusable secrets and restarts while
\* the Extension is reconciled.
SPECIFICATION Spec
CONSTANTS
  MaxCfg = 3
  InvalidCfgs = {2}
  DNSServices = {"absent", "current", "nextGen"}
  Hibernation = {FALSE, TRUE}
  SecretStates = {FALSE, TRUE}
  Finalizers = {FALSE}
  MaxChanges = 2
  MaxErrors = 0
  MaxCrashes = 1
INVARIANTS
  TypeOK
  ControllerNeedsShootMR
  QuiescentReflectsConfig
