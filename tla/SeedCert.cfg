\* A Seed that changes at every step, interrupted attempts, and a second life.
SPECIFICATION FairSpec
CONSTANTS
  d1 = d1
  d2 = d2
  dns1 = dns1
  dns2 = dns2
  NoProvider = NoProvider
  SeedSpecs <- SomeSeeds
  Configs = {"generate", "plain", "invalid"}
  CertFinalizers = TRUE
  MaxChanges = 3
  MaxErrors = 1
  MaxCrashes = 1
INVARIANTS
  TypeOK
  SettledCredentialsMatch
PROPERTIES
  CertTracksSeed
  PlainRemovesBoth
  DeletionCompletes
  ImplementsManagedCertificate
