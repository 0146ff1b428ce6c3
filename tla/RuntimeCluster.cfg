\* Garden, seed, a shoot's control plane and a managed seed in one cluster.
SPECIFICATION FairSpec
CONSTANTS
  DisabledControllers <- NoneDisabled
  FirstConfigs <- FirstConfig
  ServiceConfigs <- SomeConfigs
  ProviderConfigs <- SomeProviderConfigs
  MaxChanges = 1
INVARIANTS
  TypeOK
  ReferencesResolve
  NothingLeft
  DeployedConfigWorks
PROPERTIES
  CRDsStay
  NoInterference
  OwnInstallationWrites
  Settles
  HealthFollowsIssuers
CHECK_DEADLOCK FALSE
