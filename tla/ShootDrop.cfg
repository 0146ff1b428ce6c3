\* The ten minute rule after a failed call.
SPECIFICATION Spec
CONSTANTS
  MaxCfg = 1
  InvalidCfgs = {}
  DNSServices = {"absent"}
  Hibernation = {FALSE}
  SecretStates = {TRUE}
  Finalizers = {FALSE}
  MaxChanges = 0
  MaxErrors = 1
  MaxCrashes = 0
INVARIANTS
  NoShootMRLeft
