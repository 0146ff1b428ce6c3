\* Every kind of configuration, changing while it is reconciled.
SPECIFICATION Spec
CONSTANTS
  garden = garden
  own = own
  second = second
  ref1 = ref1
  ref2 = ref2
  dns1 = dns1
  dns2 = dns2
  Default <- garden
  None = None
  Empty = Empty
  ShootDomain = ShootDomain
  Refs = {ref1, ref2}
  Services <- SomeServices
  Configs <- SomeConfigs
  MaxChanges = 2
  MaxErrors = 1
INVARIANTS
  TypeOK
  ValidatedConfigDeploys
  DefaultIssuerProtected
  ReferencesComplete
  SettledGrants
  StatusCoversAccounts
