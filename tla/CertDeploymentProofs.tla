------------------------ MODULE CertDeploymentProofs ------------------------
(***************************************************************************)
(* Proofs about CertDeployment: what validation, deployer and status make  *)
(* of a configuration fits together, for every set of configurations and   *)
(* provider configs, and any number of changes and failed calls.           *)
(***************************************************************************)
EXTENDS CertDeployment, TLAPS

\* The values are those of one attempt, made from a config that was accepted.
ValuesInv ==
  /\ \A v, w \in values : v = w
  /\ \A v \in values :
       /\ v.service \in Services /\ v.config \in Configs
       /\ class = "shoot" => ValidateIssuers(v.config, v.resources)
       /\ class # "shoot" => v.config.issuers = <<>>

\* What a controller in the shoot's control plane is made to use.
ShootUses(c) ==
  {"certificates"} \union (IF c.shootIssuers = "on" THEN {"issuers"} ELSE {})
                   \union (IF c.challenge = "on" THEN {"dnsentries"} ELSE {})

Granted(mr) == mr.deployment.replicas = 1 => mr.deployment.args.uses \subseteq grants

\* The rights come first, unless there is no controller that needs them.
GrantsInv ==
  /\ class = "shoot" /\ pc \in {"createIssuers", "deploySeed"} =>
       \A v \in values : v.replicas = 1 => ShootUses(v.config) \subseteq grants
  /\ pc = "updateStatus" => \A mr \in seedMR : Granted(mr)
  /\ SettledGrants

AccountSecrets(c) == {<<"issuer", i.name>> : i \in Issuers(c)}

\* The status is computed from the config of the issuers.
StatusInv ==
  /\ pc = "updateStatus" =>
       \A mr \in seedMR : \A i \in mr.issuers : \A v \in values :
         AutoRegistration(i) /\ i.name # Default => SecretRef(i) \in AccountSecrets(v.config)
  /\ StatusCoversAccounts

IInv == /\ TypeOK /\ ValuesInv /\ GrantsInv /\ StatusInv
        /\ ValidatedConfigDeploys /\ DefaultIssuerProtected /\ ReferencesComplete

-----------------------------------------------------------------------------
(* Lemmas about the deployer                                                *)

\* The two kinds of issuers, and which of them have a secret of their own.
LEMMA IssuerKinds ==
  ASSUME NEW v, NEW i \in CollectIssuers(v)
  PROVE  \/ i = GardenIssuer(v.service)
         \/ /\ class = "shoot"
            /\ \E j \in Issuers(v.config) : j.name # Default /\ i = ShootIssuer(j)
BY DEF CollectIssuers

LEMMA IssuerFields ==
  /\ \A s : LET i == GardenIssuer(s) IN
       /\ i.name = Default /\ i.kind = s.kind /\ i.key = None /\ i.eab = None
       /\ i.ownKey = (s.kind = "acme" /\ s.ownKey)
  /\ \A j : LET i == ShootIssuer(j) IN
       /\ i.name = j.name /\ i.kind = "acme" /\ i.key = j.key /\ i.eab = j.eab
       /\ i.ownKey = FALSE
BY DEF GardenIssuer, ShootIssuer

\* The deployer resolves every reference of a config that was accepted.
LEMMA AcceptedResolves ==
  ASSUME ValuesInv, NEW v \in values PROVE LookupsSucceed(v)
<1> SUFFICES ASSUME NEW i \in CollectIssuers(v), NEW ref \in {i.key, i.eab}, ref # None
             PROVE  LookupReferencedSecret(v, ref)
  BY DEF LookupsSucceed
<1>1. CASE i = GardenIssuer(v.service)
  BY <1>1, IssuerFields
<1>2. ASSUME NEW j \in Issuers(v.config), i = ShootIssuer(j), class = "shoot"
      PROVE  LookupReferencedSecret(v, ref)
  <2>1. i.key = j.key /\ i.eab = j.eab
    BY <1>2, IssuerFields
  <2>2. v.resources[ref] = "Secret"
    BY <1>2, <2>1 DEF ValuesInv, ValidateIssuers, CheckReferencedResource
  <2> QED
    BY <1>2, <2>2 DEF LookupReferencedSecret
<1> QED
  BY <1>1, <1>2, IssuerKinds

\* Names of issuers are unique when the config has no duplicate.
LEMMA NamesUnique ==
  ASSUME ValuesInv, NEW v \in values, NEW i \in CollectIssuers(v), NEW k \in CollectIssuers(v),
         i.name = k.name
  PROVE  i = k
<1>1. ASSUME NEW j \in Issuers(v.config), NEW l \in Issuers(v.config), j.name = l.name, class = "shoot"
      PROVE  j = l
  <2>1. PICK a \in DOMAIN v.config.issuers : j = v.config.issuers[a]
    BY DEF Issuers, ToSet
  <2>2. PICK b \in DOMAIN v.config.issuers : l = v.config.issuers[b]
    BY DEF Issuers, ToSet
  <2> QED
    BY <1>1, <2>1, <2>2 DEF ValuesInv, ValidateIssuers
<1>2. CASE i = GardenIssuer(v.service) \/ k = GardenIssuer(v.service)
  BY <1>2, IssuerKinds, IssuerFields
<1>3. ASSUME NEW j \in Issuers(v.config), NEW l \in Issuers(v.config), class = "shoot",
             i = ShootIssuer(j), k = ShootIssuer(l)
      PROVE  i = k
  <2>1. j.name = l.name
    BY <1>3, IssuerFields
  <2> QED
    BY <1>1, <1>3, <2>1
<1> QED
  BY <1>2, <1>3, IssuerKinds

\* What is deployed together has everything it refers to.
LEMMA SecretsComplete ==
  ASSUME NEW v, v.service \in Services, NEW i \in CollectIssuers(v)
  PROVE  \/ SecretRef(i) \in CreateIssuerSecrets(v)
         \/ i.key # None /\ SecretRef(i) = <<"ref", i.key>>
         \/ AutoRegistration(i)
<1>1. OwnSecrets(i) \subseteq CreateIssuerSecrets(v)
  BY DEF CreateIssuerSecrets
<1>2. CASE i = GardenIssuer(v.service)
  <2>1. i.kind \in {"acme", "ca"} /\ i.key = None /\ i.ownKey \in BOOLEAN
    BY <1>2, IssuerFields, ServicesAssumption
  <2>2. CASE i.kind = "ca"
    BY <1>1, <2>2 DEF SecretRef, OwnSecrets
  <2>3. CASE i.kind = "acme" /\ i.ownKey
    BY <1>1, <2>1, <2>3 DEF SecretRef, OwnSecrets
  <2>4. CASE i.kind = "acme" /\ ~i.ownKey
    BY <2>1, <2>4 DEF AutoRegistration
  <2> QED
    BY <2>1, <2>2, <2>3, <2>4
<1>3. ASSUME NEW j, i = ShootIssuer(j)
      PROVE  (i.key # None /\ SecretRef(i) = <<"ref", i.key>>) \/ AutoRegistration(i)
  <2>1. i.kind = "acme" /\ i.ownKey = FALSE
    BY <1>3, IssuerFields
  <2>2. CASE i.key = None
    BY <2>1, <2>2 DEF AutoRegistration
  <2>3. CASE i.key # None
    BY <2>1, <2>3 DEF SecretRef
  <2> QED
    BY <2>2, <2>3
<1> QED
  BY <1>2, <1>3, IssuerKinds

\* Account, CA and EAB key of every issuer of an accepted config are found.
LEMMA EachSecretFound ==
  ASSUME ValuesInv, NEW v \in values, NEW i \in CollectIssuers(v), NEW s \in SecretsOf(i)
  PROVE  \/ s \in CreateIssuerSecrets(v)
         \/ s[1] = "ref" /\ v.resources[s[2]] = "Secret"
         \/ s = SecretRef(i) /\ AutoRegistration(i)
<1>1. ASSUME NEW ref \in {i.key, i.eab}, ref # None PROVE v.resources[ref] = "Secret"
  BY <1>1, AcceptedResolves DEF LookupsSucceed, LookupReferencedSecret
<1>2. CASE s = SecretRef(i)
  <2>1. v.service \in Services
    BY DEF ValuesInv
  <2> QED
    BY <1>1, <1>2, <2>1, SecretsComplete
<1>3. CASE i.eab # None /\ s = <<"ref", i.eab>>
  BY <1>1, <1>3
<1> QED
  BY <1>2, <1>3 DEF SecretsOf

\* Rights and CRDs cover what the arguments make the controller use.
LEMMA UsesGranted ==
  ASSUME NEW v PROVE Args(v).uses \subseteq CreateGrants(v)
<1>1. Args(v).uses = {"certificates"} \union (IF ShootIssuersEnabled(v) THEN {"issuers"} ELSE {})
                     \union (IF DNSChallengeOnShootEnabled(v) THEN {"dnsentries"} ELSE {})
  BY DEF Args
<1> QED
  BY <1>1 DEF CreateGrants, CreateShootClusterRole, GetShootCRDs

LEMMA ShootUsesArgs ==
  ASSUME NEW v, class = "shoot" PROVE Args(v).uses = ShootUses(v.config)
BY DEF Args, ShootUses, ShootIssuersEnabled, DNSChallengeOnShootEnabled

\* Whose secret the controller writes itself is noted for every issuer of a shoot.
LEMMA AccountsNoted ==
  ASSUME NEW v, NEW i \in CollectIssuers(v), AutoRegistration(i), i.name # Default
  PROVE  SecretRef(i) \in AccountSecrets(v.config)
<1>1. PICK j \in Issuers(v.config) : i = ShootIssuer(j)
  BY IssuerKinds, IssuerFields
<1>2. i.name = j.name /\ i.kind = "acme" /\ i.key = None
  BY <1>1, IssuerFields DEF AutoRegistration
<1>3. SecretRef(i) = <<"issuer", j.name>>
  BY <1>2 DEF SecretRef
<1> QED
  BY <1>3 DEF AccountSecrets

LEMMA SeedObjectsFields ==
  ASSUME NEW v
  PROVE  LET mr == CreateSeedObjects(v) IN
           /\ mr.issuers = CollectIssuers(v)
           /\ mr.objects = CreateIssuerSecrets(v) \union CreateCACertificatesConfigMap(v)
           /\ mr.deployment.args = Args(v) /\ mr.deployment.replicas = v.replicas
           /\ mr.deployment.volumes = Volumes(v)
BY DEF CreateSeedObjects, CreateDeployment

\* The values of an attempt.
LEMMA ValuesFields ==
  /\ CreateValues.service = service /\ CreateValues.config = config
  /\ CreateValues.resources = resources
  /\ CreateValues.replicas = (IF hibernated THEN 0 ELSE 1)
BY DEF CreateValues

-----------------------------------------------------------------------------
(* Every step preserves the invariant.                                      *)

\* At first nothing is deployed.
LEMMA InitInvariant == Init => IInv
<1> SUFFICES ASSUME Init PROVE IInv
  OBVIOUS
<1>1. TypeOK
  <2>1. changes \in 0..MaxChanges /\ errors \in 0..MaxErrors
    BY BoundsAssumption DEF Init
  <2>2. /\ resources \in [Refs -> {"none", "Secret", "ConfigMap"}]
        /\ content \in [Refs -> {"none", "privateKey", "hmacKey"}]
    BY Zenon DEF Init
  <2>3. pc = "idle" /\ values = {}
    BY DEF Init
  <2> QED
    BY <2>1, <2>2, <2>3 DEF Init, TypeOK
<1>2. ValuesInv /\ GrantsInv /\ StatusInv
  BY DEF Init, ValuesInv, GrantsInv, StatusInv, SettledGrants, StatusCoversAccounts, Settled
<1>3. ValidatedConfigDeploys /\ DefaultIssuerProtected /\ ReferencesComplete
  BY DEF Init, ValidatedConfigDeploys, DefaultIssuerProtected, ReferencesComplete
<1> QED
  BY <1>1, <1>2, <1>3 DEF IInv

\* The types.
LEMMA StepTypes == TypeOK /\ ValuesInv /\ [Next]_vars => TypeOK'
<1> SUFFICES ASSUME TypeOK, ValuesInv, [Next]_vars PROVE TypeOK'
  OBVIOUS
<1>1. CASE Read
  BY <1>1, BoundsAssumption DEF Read, GoTo, End, Change, envVars, workerVars, outVars, TypeOK
<1>2. CASE DeployShoot
  <2>1. grants' \subseteq {"certificates", "issuers", "dnsentries"}
    BY <1>2 DEF DeployShoot, CreateGrants, CreateShootClusterRole
  <2>2. pc' = "createIssuers" /\ outcome' = outcome /\ values' = values /\ pc # "idle"
    BY <1>2 DEF DeployShoot, GoTo
  <2> QED
    BY <1>2, <2>1, <2>2 DEF DeployShoot, TypeOK, envVars
<1>3. CASE CreateIssuers
  BY <1>3, BoundsAssumption DEF CreateIssuers, GoTo, End, Change, envVars, workerVars, outVars, TypeOK
<1>4. CASE DeploySeed
  <2>1. grants' \subseteq {"certificates", "issuers", "dnsentries"}
    BY <1>4 DEF DeploySeed, TypeOK, CreateGrants, CreateShootClusterRole
  <2>2. pc' = "updateStatus" /\ outcome' = outcome /\ values' = values /\ pc # "idle"
    BY <1>4 DEF DeploySeed, GoTo
  <2> QED
    BY <1>4, <2>1, <2>2 DEF DeploySeed, TypeOK, envVars
<1>5. CASE UpdateStatus
  <2>1. PICK v \in values : status' = {<<"issuer", i.name>> : i \in Issuers(v.config)}
    BY <1>5 DEF UpdateStatus
  <2>2. status' \subseteq SecretNames
    BY <2>1 DEF ValuesInv, SecretNames
  <2> QED
    BY <1>5, <2>2 DEF UpdateStatus, TypeOK, End, envVars
<1>6. CASE CallFails
  BY <1>6, BoundsAssumption DEF CallFails, GoTo, End, Change, envVars, workerVars, outVars, TypeOK
<1>7. CASE EditConfig
  BY <1>7, BoundsAssumption DEF EditConfig, GoTo, End, Change, envVars, workerVars, outVars, TypeOK
<1>8. CASE EditResources
  BY <1>8, BoundsAssumption DEF EditResources, GoTo, End, Change, envVars, workerVars, outVars, TypeOK
<1>9. CASE Hibernate
  BY <1>9, BoundsAssumption DEF Hibernate, GoTo, End, Change, envVars, workerVars, outVars, TypeOK
<1>10. CASE Redeploy
  BY <1>10, BoundsAssumption DEF Redeploy, GoTo, End, Change, envVars, workerVars, outVars, TypeOK
<1>11. CASE UNCHANGED vars
  BY <1>11 DEF vars, GoTo, End, Change, envVars, workerVars, outVars, TypeOK
<1> QED
  BY <1>1, <1>2, <1>3, <1>4, <1>5, <1>6, <1>7, <1>8, <1>9, <1>10, <1>11
     DEF Next, Reconcile

\* The values are those of an accepted config.
LEMMA StepValues == ValuesInv /\ TypeOK /\ [Next]_vars => ValuesInv'
<1> SUFFICES ASSUME ValuesInv, TypeOK, [Next]_vars PROVE ValuesInv'
  OBVIOUS
<1>1. CASE Read
  <2>1. UNCHANGED <<class, service, config, resources>>
    BY <1>1 DEF Read, envVars
  <2>2. CASE values' = {}
    BY <2>2 DEF ValuesInv
  <2>3. CASE values' = {CreateValues} /\ ValidateCertConfig(config, resources)
    <3>1. ASSUME NEW v \in values'
          PROVE  /\ v.service \in Services /\ v.config \in Configs
                 /\ class = "shoot" => ValidateIssuers(v.config, v.resources)
                 /\ class # "shoot" => v.config.issuers = <<>>
      <4>1. v.service = service /\ v.config = config /\ v.resources = resources
        BY <2>3, <3>1, ValuesFields
      <4> QED
        BY <2>3, <4>1 DEF ValidateCertConfig, TypeOK
    <3> QED
      BY <2>1, <2>3, <3>1 DEF ValuesInv
  <2> QED
    BY <1>1, <2>2, <2>3 DEF Read, End
<1>2. CASE DeployShoot
  BY <1>2 DEF DeployShoot, GoTo, End, Change, envVars, workerVars, outVars, ValuesInv
<1>3. CASE CreateIssuers
  BY <1>3 DEF CreateIssuers, GoTo, End, Change, envVars, workerVars, outVars, ValuesInv
<1>4. CASE DeploySeed
  BY <1>4 DEF DeploySeed, GoTo, End, Change, envVars, workerVars, outVars, ValuesInv
<1>5. CASE UpdateStatus
  BY <1>5 DEF UpdateStatus, GoTo, End, Change, envVars, workerVars, outVars, ValuesInv
<1>6. CASE CallFails
  BY <1>6 DEF CallFails, GoTo, End, Change, envVars, workerVars, outVars, ValuesInv
<1>7. CASE EditConfig
  BY <1>7 DEF EditConfig, GoTo, End, Change, envVars, workerVars, outVars, ValuesInv
<1>8. CASE EditResources
  BY <1>8 DEF EditResources, GoTo, End, Change, envVars, workerVars, outVars, ValuesInv
<1>9. CASE Hibernate
  BY <1>9 DEF Hibernate, GoTo, End, Change, envVars, workerVars, outVars, ValuesInv
<1>10. CASE Redeploy
  BY <1>10 DEF Redeploy, GoTo, End, Change, envVars, workerVars, outVars, ValuesInv
<1>11. CASE UNCHANGED vars
  BY <1>11 DEF vars, GoTo, End, Change, envVars, workerVars, outVars, ValuesInv
<1> QED
  BY <1>1, <1>2, <1>3, <1>4, <1>5, <1>6, <1>7, <1>8, <1>9, <1>10, <1>11
     DEF Next, Reconcile

\* Rights are there before the controller is.
LEMMA StepGrants == GrantsInv /\ TypeOK /\ ValuesInv /\ [Next]_vars => GrantsInv'
<1> SUFFICES ASSUME GrantsInv, TypeOK, ValuesInv, [Next]_vars PROVE GrantsInv'
  OBVIOUS
<1>1. CASE Read
  <2>1. class' = class /\ grants' = grants /\ seedMR' = seedMR
    BY <1>1 DEF Read, envVars, outVars
  <2>2. CASE End("invalid")
    BY <2>1, <2>2 DEF End, GrantsInv, SettledGrants, Settled
  <2>3. ASSUME values' = {CreateValues},
               pc' = IF class = "shoot" /\ ~hibernated THEN "deployShoot" ELSE "createIssuers"
        PROVE  GrantsInv'
    <3>1. class = "shoot" /\ pc' = "createIssuers" => \A v \in values' : v.replicas # 1
      BY <2>3, ValuesFields
    <3> QED
      BY <2>1, <2>3, <3>1 DEF GrantsInv, SettledGrants, Settled
  <2> QED
    BY <1>1, <2>2, <2>3 DEF Read, GoTo
<1>2. CASE DeployShoot
  <2>1. PICK v \in values : grants' = CreateGrants(v)
    BY <1>2 DEF DeployShoot
  <2>2. class' = class /\ values' = values /\ pc' = "createIssuers"
    BY <1>2 DEF DeployShoot, GoTo, envVars
  <2>3. class = "shoot" => ShootUses(v.config) \subseteq grants'
    BY <2>1, UsesGranted, ShootUsesArgs
  <2>4. \A w \in values : w = v
    BY DEF ValuesInv
  <2> QED
    BY <2>2, <2>3, <2>4 DEF GrantsInv, SettledGrants, Settled
<1>3. CASE CreateIssuers
  <2>1. UNCHANGED <<class, grants, seedMR>>
    BY <1>3 DEF CreateIssuers, envVars, outVars
  <2>2. CASE pc' = "deploySeed" /\ values' = values
    BY <1>3, <2>1, <2>2 DEF CreateIssuers, GrantsInv, SettledGrants, Settled
  <2>3. CASE pc' = "idle" /\ outcome' # "ok"
    BY <2>1, <2>3 DEF GrantsInv, SettledGrants, Settled
  <2> QED
    BY <1>3, <2>2, <2>3 DEF CreateIssuers, End, GoTo
<1>4. CASE DeploySeed
  <2>1. PICK v \in values : /\ seedMR' = {CreateSeedObjects(v)}
                            /\ grants' = IF class = "shoot" THEN grants ELSE CreateGrants(v)
    BY <1>4 DEF DeploySeed
  <2>2. pc = "deploySeed" /\ pc' = "updateStatus"
    BY <1>4 DEF DeploySeed, GoTo
  <2>3. v.replicas = 1 => Args(v).uses \subseteq grants'
    BY <2>1, <2>2, UsesGranted, ShootUsesArgs DEF GrantsInv
  <2>4. \A mr \in seedMR' : mr.deployment.replicas = 1 => mr.deployment.args.uses \subseteq grants'
    BY <2>1, <2>3, SeedObjectsFields
  <2> QED
    BY <2>2, <2>4 DEF GrantsInv, Granted, SettledGrants, Settled
<1>5. CASE UpdateStatus
  BY <1>5 DEF UpdateStatus, GoTo, End, Change, envVars, workerVars, outVars, GrantsInv, Granted, SettledGrants, Settled
<1>6. CASE CallFails
  BY <1>6 DEF CallFails, GoTo, End, Change, envVars, workerVars, outVars, GrantsInv, Granted, SettledGrants, Settled
<1>7. CASE EditConfig
  BY <1>7 DEF EditConfig, GoTo, End, Change, envVars, workerVars, outVars, GrantsInv, Granted, SettledGrants, Settled
<1>8. CASE EditResources
  BY <1>8 DEF EditResources, GoTo, End, Change, envVars, workerVars, outVars, GrantsInv, Granted, SettledGrants, Settled
<1>9. CASE Hibernate
  BY <1>9 DEF Hibernate, GoTo, End, Change, envVars, workerVars, outVars, GrantsInv, Granted, SettledGrants, Settled
<1>10. CASE Redeploy
  BY <1>10 DEF Redeploy, GoTo, End, Change, envVars, workerVars, outVars, GrantsInv, Granted, SettledGrants, Settled
<1>11. CASE UNCHANGED vars
  BY <1>11 DEF vars, GoTo, End, Change, envVars, workerVars, outVars, GrantsInv, Granted, SettledGrants, Settled
<1> QED
  BY <1>1, <1>2, <1>3, <1>4, <1>5, <1>6, <1>7, <1>8, <1>9, <1>10, <1>11
     DEF Next, Reconcile

\* Issuers and status come from one config.
LEMMA StepStatus == StatusInv /\ ValuesInv /\ [Next]_vars => StatusInv'
<1> SUFFICES ASSUME StatusInv, ValuesInv, [Next]_vars PROVE StatusInv'
  OBVIOUS
<1>1. CASE Read
  <2>1. UNCHANGED <<seedMR, status>> /\ pc' # "updateStatus" /\ (pc' = "idle" => outcome' # "ok")
    BY <1>1 DEF Read, outVars, End, GoTo
  <2> QED
    BY <2>1 DEF StatusInv, StatusCoversAccounts, Settled
<1>2. CASE DeployShoot
  BY <1>2 DEF DeployShoot, GoTo, End, Change, envVars, workerVars, outVars, StatusInv, StatusCoversAccounts, Settled
<1>3. CASE CreateIssuers
  <2>1. UNCHANGED <<seedMR, status>> /\ pc' # "updateStatus" /\ (pc' = "idle" => outcome' # "ok")
    BY <1>3 DEF CreateIssuers, outVars, End, GoTo
  <2> QED
    BY <2>1 DEF StatusInv, StatusCoversAccounts, Settled
<1>4. CASE DeploySeed
  <2>1. PICK v \in values : seedMR' = {CreateSeedObjects(v)}
    BY <1>4 DEF DeploySeed
  <2>2. pc' = "updateStatus" /\ values' = values
    BY <1>4 DEF DeploySeed, GoTo
  <2>3. ASSUME NEW mr \in seedMR', NEW i \in mr.issuers, AutoRegistration(i), i.name # Default,
               NEW w \in values'
        PROVE  SecretRef(i) \in AccountSecrets(w.config)
    <3>1. i \in CollectIssuers(v) /\ w = v
      BY <2>1, <2>2, <2>3, SeedObjectsFields DEF ValuesInv
    <3> QED
      BY <2>3, <3>1, AccountsNoted
  <2> QED
    BY <2>2, <2>3 DEF StatusInv, StatusCoversAccounts, Settled
<1>5. CASE UpdateStatus
  <2>1. PICK v \in values : status' = AccountSecrets(v.config)
    BY <1>5 DEF UpdateStatus, AccountSecrets
  <2>2. pc = "updateStatus" /\ pc' = "idle" /\ seedMR' = seedMR
    BY <1>5 DEF UpdateStatus, End
  <2> QED
    BY <2>1, <2>2 DEF StatusInv, StatusCoversAccounts, Settled
<1>6. CASE CallFails
  BY <1>6 DEF CallFails, GoTo, End, Change, envVars, workerVars, outVars, StatusInv, StatusCoversAccounts, Settled
<1>7. CASE EditConfig
  BY <1>7 DEF EditConfig, GoTo, End, Change, envVars, workerVars, outVars, StatusInv, StatusCoversAccounts, Settled
<1>8. CASE EditResources
  BY <1>8 DEF EditResources, GoTo, End, Change, envVars, workerVars, outVars, StatusInv, StatusCoversAccounts, Settled
<1>9. CASE Hibernate
  BY <1>9 DEF Hibernate, GoTo, End, Change, envVars, workerVars, outVars, StatusInv, StatusCoversAccounts, Settled
<1>10. CASE Redeploy
  BY <1>10 DEF Redeploy, GoTo, End, Change, envVars, workerVars, outVars, StatusInv, StatusCoversAccounts, Settled
<1>11. CASE UNCHANGED vars
  BY <1>11 DEF vars, GoTo, End, Change, envVars, workerVars, outVars, StatusInv, StatusCoversAccounts, Settled
<1> QED
  BY <1>1, <1>2, <1>3, <1>4, <1>5, <1>6, <1>7, <1>8, <1>9, <1>10, <1>11
     DEF Next, Reconcile

\* No reference fails.
LEMMA StepDeploys == ValidatedConfigDeploys /\ ValuesInv /\ [Next]_vars => ValidatedConfigDeploys'
<1> SUFFICES ASSUME ValidatedConfigDeploys, ValuesInv, [Next]_vars PROVE ValidatedConfigDeploys'
  OBVIOUS
<1>1. CASE Read
  BY <1>1 DEF Read, GoTo, End, Change, envVars, workerVars, outVars, ValidatedConfigDeploys
<1>2. CASE DeployShoot
  BY <1>2 DEF DeployShoot, GoTo, End, Change, envVars, workerVars, outVars, ValidatedConfigDeploys
<1>3. CASE CreateIssuers
  BY <1>3, AcceptedResolves DEF CreateIssuers, ValidatedConfigDeploys, End, GoTo
<1>4. CASE DeploySeed
  BY <1>4 DEF DeploySeed, GoTo, End, Change, envVars, workerVars, outVars, ValidatedConfigDeploys
<1>5. CASE UpdateStatus
  BY <1>5 DEF UpdateStatus, GoTo, End, Change, envVars, workerVars, outVars, ValidatedConfigDeploys
<1>6. CASE CallFails
  BY <1>6 DEF CallFails, GoTo, End, Change, envVars, workerVars, outVars, ValidatedConfigDeploys
<1>7. CASE EditConfig
  BY <1>7 DEF EditConfig, GoTo, End, Change, envVars, workerVars, outVars, ValidatedConfigDeploys
<1>8. CASE EditResources
  BY <1>8 DEF EditResources, GoTo, End, Change, envVars, workerVars, outVars, ValidatedConfigDeploys
<1>9. CASE Hibernate
  BY <1>9 DEF Hibernate, GoTo, End, Change, envVars, workerVars, outVars, ValidatedConfigDeploys
<1>10. CASE Redeploy
  BY <1>10 DEF Redeploy, GoTo, End, Change, envVars, workerVars, outVars, ValidatedConfigDeploys
<1>11. CASE UNCHANGED vars
  BY <1>11 DEF vars, GoTo, End, Change, envVars, workerVars, outVars, ValidatedConfigDeploys
<1> QED
  BY <1>1, <1>2, <1>3, <1>4, <1>5, <1>6, <1>7, <1>8, <1>9, <1>10, <1>11
     DEF Next, Reconcile

\* Issuers keep their names apart.
LEMMA StepProtected == DefaultIssuerProtected /\ ValuesInv /\ [Next]_vars => DefaultIssuerProtected'
<1> SUFFICES ASSUME DefaultIssuerProtected, ValuesInv, [Next]_vars PROVE DefaultIssuerProtected'
  OBVIOUS
<1>1. CASE Read
  BY <1>1 DEF Read, GoTo, End, Change, envVars, workerVars, outVars, DefaultIssuerProtected
<1>2. CASE DeployShoot
  BY <1>2 DEF DeployShoot, GoTo, End, Change, envVars, workerVars, outVars, DefaultIssuerProtected
<1>3. CASE CreateIssuers
  BY <1>3 DEF CreateIssuers, GoTo, End, Change, envVars, workerVars, outVars, DefaultIssuerProtected
<1>4. CASE DeploySeed
  <2>1. PICK v \in values : seedMR' = {CreateSeedObjects(v)}
    BY <1>4 DEF DeploySeed
  <2>2. ASSUME NEW mr \in seedMR' PROVE mr.issuers = CollectIssuers(v)
    BY <2>1, <2>2, SeedObjectsFields
  <2>3. \A i, k \in CollectIssuers(v) : i.name = k.name => i = k
    BY NamesUnique
  <2>4. \E s \in Services : GardenIssuer(s) \in CollectIssuers(v)
    BY DEF CollectIssuers, ValuesInv
  <2> QED
    BY <2>2, <2>3, <2>4 DEF DefaultIssuerProtected
<1>5. CASE UpdateStatus
  BY <1>5 DEF UpdateStatus, GoTo, End, Change, envVars, workerVars, outVars, DefaultIssuerProtected
<1>6. CASE CallFails
  BY <1>6 DEF CallFails, GoTo, End, Change, envVars, workerVars, outVars, DefaultIssuerProtected
<1>7. CASE EditConfig
  BY <1>7 DEF EditConfig, GoTo, End, Change, envVars, workerVars, outVars, DefaultIssuerProtected
<1>8. CASE EditResources
  BY <1>8 DEF EditResources, GoTo, End, Change, envVars, workerVars, outVars, DefaultIssuerProtected
<1>9. CASE Hibernate
  BY <1>9 DEF Hibernate, GoTo, End, Change, envVars, workerVars, outVars, DefaultIssuerProtected
<1>10. CASE Redeploy
  BY <1>10 DEF Redeploy, GoTo, End, Change, envVars, workerVars, outVars, DefaultIssuerProtected
<1>11. CASE UNCHANGED vars
  BY <1>11 DEF vars, GoTo, End, Change, envVars, workerVars, outVars, DefaultIssuerProtected
<1> QED
  BY <1>1, <1>2, <1>3, <1>4, <1>5, <1>6, <1>7, <1>8, <1>9, <1>10, <1>11
     DEF Next, Reconcile

\* What is referred to is there.
LEMMA StepComplete == ReferencesComplete /\ ValuesInv /\ [Next]_vars => ReferencesComplete'
<1> SUFFICES ASSUME ReferencesComplete, ValuesInv, [Next]_vars PROVE ReferencesComplete'
  OBVIOUS
\* What has been written stays complete, and an attempt keeps its values.
<1>1. CASE seedMR' = seedMR /\ (pc' # "updateStatus" \/ UNCHANGED workerVars)
  BY <1>1 DEF ReferencesComplete, Prepared, workerVars
<1>2. CASE DeploySeed
  <2>1. PICK v \in values : seedMR' = {CreateSeedObjects(v)}
    BY <1>2 DEF DeploySeed
  <2>2. values' = {v}
    BY <1>2 DEF DeploySeed, ValuesInv
  <2>3. ASSUME NEW mr \in seedMR'
        PROVE  /\ mr.issuers = CollectIssuers(v) /\ mr.deployment.volumes = Volumes(v)
               /\ mr.objects = CreateIssuerSecrets(v) \union CreateCACertificatesConfigMap(v)
    BY <2>1, <2>3, SeedObjectsFields
  <2>4. ASSUME NEW volume \in Volumes(v)
        PROVE  volume \in CreateCACertificatesConfigMap(v) \/ volume[1] = "shootAccess"
    BY <2>4 DEF Volumes
  <2>5. ASSUME NEW i \in CollectIssuers(v), NEW s \in SecretsOf(i)
        PROVE  \/ s \in CreateIssuerSecrets(v) \/ Prepared(s)'
               \/ s = SecretRef(i) /\ AutoRegistration(i)
    BY <2>2, <2>5, EachSecretFound DEF Prepared
  <2> QED
    BY <2>3, <2>4, <2>5 DEF ReferencesComplete
<1>3. CASE Read \/ DeployShoot \/ CreateIssuers \/ UpdateStatus \/ CallFails
  BY <1>1, <1>3 DEF Read, DeployShoot, CreateIssuers, UpdateStatus, CallFails, GoTo, End, outVars
<1>4. CASE EditConfig \/ EditResources \/ Hibernate
  BY <1>1, <1>4 DEF EditConfig, EditResources, Hibernate, outVars
<1>5. CASE Redeploy
  BY <1>1, <1>5 DEF Redeploy, End, outVars, workerVars
<1>6. CASE UNCHANGED vars
  BY <1>1, <1>6 DEF vars, outVars
<1> QED
  BY <1>2, <1>3, <1>4, <1>5, <1>6 DEF Next, Reconcile

\* The invariant is inductive.
LEMMA StepInvariant == IInv /\ [Next]_vars => IInv'
BY StepTypes, StepValues, StepGrants, StepStatus, StepDeploys, StepProtected, StepComplete DEF IInv

-----------------------------------------------------------------------------
(* The theorems                                                             *)

\* In every reachable state the invariant holds.
THEOREM InvariantHolds == Spec => []IInv
BY InitInvariant, StepInvariant, PTL DEF Spec

\* Every reachable state is well typed.
THEOREM TypeCorrect == Spec => []TypeOK
<1>1. IInv => TypeOK
  BY DEF IInv
<1> QED
  BY <1>1, InvariantHolds, PTL

\* A provider config that validation accepts never fails in the deployer for
\* a reference, whatever happens to resources and secrets meanwhile.
THEOREM AcceptedDeploys == Spec => []ValidatedConfigDeploys
<1>1. IInv => ValidatedConfigDeploys
  BY DEF IInv
<1> QED
  BY <1>1, InvariantHolds, PTL

\* No provider config takes the place of the default issuer, and names of
\* deployed issuers are unique.
THEOREM DefaultProtected == Spec => []DefaultIssuerProtected
<1>1. IInv => DefaultIssuerProtected
  BY DEF IInv
<1> QED
  BY <1>1, InvariantHolds, PTL

\* Issuers and pod find every secret and config map they refer to.
THEOREM AllReferencesThere == Spec => []ReferencesComplete
<1>1. IInv => ReferencesComplete
  BY DEF IInv
<1> QED
  BY <1>1, InvariantHolds, PTL

\* A running controller has the rights its arguments need.
THEOREM ControllerMayWork == Spec => []SettledGrants
<1>1. IInv => SettledGrants
  BY DEF IInv, GrantsInv
<1> QED
  BY <1>1, InvariantHolds, PTL

\* Status.Resources names the account secrets of all issuers of the shoot.
THEOREM AccountsCovered == Spec => []StatusCoversAccounts
<1>1. IInv => StatusCoversAccounts
  BY DEF IInv, StatusInv
<1> QED
  BY <1>1, InvariantHolds, PTL

-----------------------------------------------------------------------------
(* restrictIssuer                                                           *)

\* No controller gets a domain to restrict the default issuer to, and no values
\* that would give it one.
NeverRestricted ==
  /\ \A v \in values : v.restrictedDomains = None
  /\ \A mr \in seedMR : mr.deployment.args.domainRanges = None

\* The restriction is only asked for once it is made.
LEMMA ValuesUnrestricted == CreateValues.restrictedDomains = None
BY DEF CreateValues, RestrictedIssuer

\* Unrestricted values make an unrestricted controller.
LEMMA ArgsUnrestricted ==
  ASSUME NEW v, v.restrictedDomains = None
  PROVE  CreateSeedObjects(v).deployment.args.domainRanges = None
BY DEF CreateSeedObjects, CreateDeployment, Args, RestrictedIssuer

\* Every step keeps it so.
LEMMA StepUnrestricted == NeverRestricted /\ [Next]_vars => NeverRestricted'
<1> SUFFICES ASSUME NeverRestricted, [Next]_vars PROVE NeverRestricted'
  OBVIOUS
<1>1. CASE Read
  <2>1. values' = {} \/ values' = {CreateValues}
    BY <1>1 DEF Read, End
  <2>2. seedMR' = seedMR
    BY <1>1 DEF Read, outVars
  <2> QED
    BY <2>1, <2>2, ValuesUnrestricted DEF NeverRestricted
<1>2. CASE DeploySeed
  <2>1. PICK v \in values : seedMR' = {CreateSeedObjects(v)}
    BY <1>2 DEF DeploySeed
  <2>2. CreateSeedObjects(v).deployment.args.domainRanges = None
    BY ArgsUnrestricted DEF NeverRestricted
  <2>3. values' = values
    BY <1>2 DEF DeploySeed
  <2> QED
    BY <2>1, <2>2, <2>3 DEF NeverRestricted
<1>3. CASE UNCHANGED seedMR /\ (values' = {} \/ values' = values)
  BY <1>3 DEF NeverRestricted
<1> QED
  BY <1>1, <1>2, <1>3 DEF Next, Reconcile, DeployShoot, CreateIssuers, UpdateStatus, CallFails,
     EditConfig, EditResources, Hibernate, Redeploy, End, vars, workerVars, outVars

\* Whatever is configured, restrictIssuer has no effect: no reachable state has
\* a controller with domain ranges. The violation of DefaultIssuerRestricted is
\* not one of a special configuration.
THEOREM RestrictionNeverMade == Spec => []NeverRestricted
<1>1. Init => NeverRestricted
  BY DEF Init, NeverRestricted
<1> QED
  BY <1>1, StepUnrestricted, PTL DEF Spec
=============================================================================
