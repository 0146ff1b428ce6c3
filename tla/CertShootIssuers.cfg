\* One reconciliation with a configuration that does not change.
SPECIFICATION Spec
CONSTANTS
  garden = garden
  own = own
  second = second
  ref1 = ref1
  ref2 = ref2
  dns1 = dns1
  dns2 = dns2
  Default <- garden
  None = None
  Empty = Empty
  ShootDomain = ShootDomain
  Refs = {ref1, ref2}
  Services <- SomeServices
  Configs <- SomeConfigs
  MaxChanges = 0
  MaxErrors = 0
INVARIANTS
  ShootIssuersDefault
