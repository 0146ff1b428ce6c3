\* Domains and provider, with Certificates that have finalizers.
SPECIFICATION AnnotatingSpec
CONSTANTS
  d1 = d1
  d2 = d2
  dns1 = dns1
  dns2 = dns2
  NoProvider = NoProvider
  GardenSpecs <- AllSpecs
  Configs = {"generate", "plain"}
  CertFinalizers = TRUE
  MaxEvents = 2
  MaxChanges = 2
  MaxErrors = 0
  MaxCrashes = 1
PROPERTIES
  CertCurrent
