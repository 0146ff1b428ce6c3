\* Gardens that change at every step; progress by the watch on Gardens alone.
SPECIFICATION FairSpec
CONSTANTS
  d1 = d1
  d2 = d2
  dns1 = dns1
  dns2 = dns2
  NoProvider = NoProvider
  GardenSpecs <- SpecsWithDomains
  Configs = {"generate", "plain", "invalid"}
  CertFinalizers = FALSE
  MaxEvents = 2
  MaxChanges = 3
  MaxErrors = 1
  MaxCrashes = 1
INVARIANTS
  TypeOK
  SettledCertMatchesHash
  NothingLeft
  NothingForgotten
PROPERTIES
  OutdatedCertNoticed
  CertTracksGarden
  DeletionCompletes
  ImplementsManagedCertificate
