---------------------------- MODULE CertDeployment ----------------------------
(***************************************************************************)
(* What a reconciliation writes (pkg/controller/extension/shared): how the *)
(* deployer turns the configuration of the extension and the provider      *)
(* config into issuers, secrets, arguments of the cert-controller-manager  *)
(* and its rights in the cluster it works for, and how validation, the     *)
(* referenced secrets of the shoot and Status.Resources fit to it.  The    *)
(* shoot class writes two ManagedResources one after the other, the        *)
(* runtime classes (garden, seed) one.                                     *)
(*                                                                         *)
(* Configuration, provider config and the secrets in the namespace change  *)
(* between the steps; which of the steps fail and are repeated with which  *)
(* state of the cluster is the subject of ShootExtension.                  *)
(***************************************************************************)
EXTENDS Naturals, Sequences, SequencesExt

CONSTANTS
  Default,     \* issuerName of the configuration of the extension
  None,        \* not set: a reference, a list of nameservers, a domain
  Empty,       \* a nameserver without address
  ShootDomain, \* spec.dns.domain of the shoot
  Refs,        \* names in spec.resources of the shoot
  Services,    \* configurations of the extension
  Configs,     \* provider configs
  MaxChanges,  \* bound: changes of anything the reconciliation reads
  MaxErrors    \* bound: API calls that fail

\* [kind: "acme" or "ca", ownKey, restrict, caCerts: BOOLEAN,
\*  nameservers: sequence, shootIssuers: "unset", "on" or "off"]
ASSUME ServicesAssumption ==
  \A s \in Services : /\ s.kind \in {"acme", "ca"}
                      /\ {s.ownKey, s.restrict, s.caCerts} \subseteq BOOLEAN
                      /\ s.shootIssuers \in {"unset", "on", "off"}

\* [issuers: sequence of [name, key, eab, skip, wellFormed],
\*  nameservers: sequence, shootIssuers, challenge: "unset", "off", "on", "nowhere",
\*  alerting: BOOLEAN]; Empty stands for every text that is no nameserver.
ASSUME ConfigsAssumption ==
  \A c \in Configs : /\ \A i \in DOMAIN c.issuers :
                          {c.issuers[i].key, c.issuers[i].eab} \subseteq Refs \union {None}
                     /\ c.shootIssuers \in {"unset", "on", "off"}
                     /\ c.challenge \in {"unset", "off", "on", "nowhere"}
                     /\ c.alerting \in BOOLEAN

ASSUME BoundsAssumption == MaxChanges \in Nat /\ MaxErrors \in Nat

VARIABLES
  class,      \* extension class of the Extension: "shoot", "garden", "seed"
  service,    \* configuration of the extension process
  config,     \* provider config of the Extension
  resources,  \* kind of the referenced resource: [Refs -> "none", "Secret", "ConfigMap"]
  content,    \* data key of its copy in the namespace, "none" when it is missing
  hibernated, \* the shoot is hibernated
  pc,         \* the worker's next step
  values,     \* the worker: shared.Values
  seedMR,     \* ManagedResource with issuers and controller: {} or {its data}
  grants,     \* what the controller may use in the cluster it works for
  status,     \* secrets named by Status.Resources
  outcome,    \* result of the last reconciliation
  changes, errors

envVars    == <<class, service, config, resources, content, hibernated>>
workerVars == <<pc, values>>
outVars    == <<seedMR, grants, status>>
vars == <<envVars, workerVars, outVars, outcome, changes, errors>>

-----------------------------------------------------------------------------
(* Validation: pkg/apis/service/validation                                 *)

Issuers(c) == ToSet(c.issuers)

\* Mutant: the kind of a referenced resource is not looked at.
CheckReferencedResource_AnyKind(res, ref) == res[ref] # "none"
CheckReferencedResource(res, ref) == res[ref] = "Secret"

ValidateIssuers(c, res) ==
  /\ \A i, j \in DOMAIN c.issuers : c.issuers[i].name = c.issuers[j].name => i = j
  /\ \A i \in Issuers(c) :
       /\ i.wellFormed   \* name, server, e-mail, quota, nameservers
       /\ i.key # None => CheckReferencedResource(res, i.key)
       /\ i.eab # None => CheckReferencedResource(res, i.eab)
       /\ i.skip => i.eab # None

\* A runtime cluster has no shoot: cluster is nil.
ValidateCertConfig(c, res) ==
  IF class = "shoot"
  THEN /\ ValidateIssuers(c, res)
       /\ c.challenge # "nowhere"
       /\ ~Contains(c.nameservers, Empty)
  ELSE /\ c.issuers = <<>> /\ c.nameservers = <<>>
       /\ c.challenge = "unset" /\ c.shootIssuers = "unset" /\ ~c.alerting

-----------------------------------------------------------------------------
(* Values: deployer.go                                                     *)

RestrictedIssuer(v) == v.restrictedDomains # None /\ v.service.restrict
ShootIssuersEnabled(v) == class = "shoot" /\ v.config.shootIssuers = "on"
DNSChallengeOnShootEnabled(v) == class = "shoot" /\ v.config.challenge = "on"

\* Splitting an unset list gives one server without an address.
SplitServers(servers) == IF servers = <<>> THEN <<Empty>> ELSE servers
MergeServers(a, b) ==
  FoldLeft(LAMBDA merged, item : IF Contains(merged, item) THEN merged
                                 ELSE Append(merged, item),
           <<>>, SplitServers(a) \o SplitServers(b))

PrecheckNameservers(v) ==
  LET default == IF v.service.kind = "acme" THEN v.service.nameservers ELSE <<>>
  IN  IF v.config.nameservers = <<>> THEN default
      ELSE MergeServers(v.config.nameservers, default)

\* createValues: the domains are set only when the issuer is already restricted.
CreateValues ==
  LET v == [service |-> service, config |-> config, resources |-> resources,
            replicas |-> IF hibernated THEN 0 ELSE 1, restrictedDomains |-> None]
  IN  IF class = "shoot" /\ RestrictedIssuer(v)
      THEN [v EXCEPT !.restrictedDomains = ShootDomain] ELSE v

-----------------------------------------------------------------------------
(* Issuers: deployer_issuers.go                                            *)

\* "of": whose server, e-mail and quotas it has.
GardenIssuer(s) ==
  [of |-> "service", name |-> Default, kind |-> s.kind,
   ownKey |-> s.kind = "acme" /\ s.ownKey, key |-> None, eab |-> None]
ShootIssuer(i) ==
  [of |-> "shoot", name |-> i.name, kind |-> "acme", ownKey |-> FALSE,
   key |-> i.key, eab |-> i.eab]

\* Mutant: a provider config may redefine the default issuer.
CollectIssuers_KeepDefault(v) ==
  {GardenIssuer(v.service)}
    \union {ShootIssuer(i) : i \in {j \in Issuers(v.config) : class = "shoot"}}

\* The default issuer, and for shoots the other issuers of the provider config.
CollectIssuers(v) ==
  {GardenIssuer(v.service)}
    \union {ShootIssuer(i) : i \in {j \in Issuers(v.config) : class = "shoot" /\ j.name # Default}}

LookupReferencedSecret(v, ref) == class = "shoot" /\ v.resources[ref] = "Secret"
LookupsSucceed(v) ==
  \A i \in CollectIssuers(v) :
    \A ref \in {i.key, i.eab} \ {None} : LookupReferencedSecret(v, ref)

\* createACMESpec, createCASpec: the secret of an issuer, and whether the
\* controller registers an account and writes it itself.
SecretRef(i) == CASE i.kind = "ca"  -> <<"ca", i.name>>
                  [] i.key # None   -> <<"ref", i.key>>
                  [] OTHER          -> <<"issuer", i.name>>
AutoRegistration(i) == i.kind = "acme" /\ i.key = None /\ ~i.ownKey

\* secretACME, secretCA.
OwnSecrets(i) == (IF i.ownKey THEN {<<"issuer", i.name>>} ELSE {})
                 \union (IF i.kind = "ca" THEN {<<"ca", i.name>>} ELSE {})

\* Mutant: the CA's secret is forgotten.
CreateIssuerSecrets_ACMEOnly(v) ==
  UNION {IF i.ownKey THEN {<<"issuer", i.name>>} ELSE {} : i \in CollectIssuers(v)}
CreateIssuerSecrets(v) == UNION {OwnSecrets(i) : i \in CollectIssuers(v)}

\* validateIssuerSecrets reads the copies in the namespace.
ValidateIssuerSecrets(v) ==
  \A i \in CollectIssuers(v) :
    /\ i.key # None => content[i.key] = "privateKey"
    /\ i.eab # None => content[i.eab] = "hmacKey"

-----------------------------------------------------------------------------
(* The controller: deployer_seed.go, deployer_shoot.go                     *)

CreateCACertificatesConfigMap(v) ==
  IF v.service.kind = "acme" /\ v.service.caCerts THEN {<<"configmap", "certs">>} ELSE {}

Volumes(v) == CreateCACertificatesConfigMap(v)
              \union (IF class = "shoot" THEN {<<"shootAccess", "token">>} ELSE {})

\* What its arguments make the controller use in the cluster it works for.
Args(v) ==
  [domainRanges |-> IF RestrictedIssuer(v) THEN v.restrictedDomains ELSE None,
   nameservers  |-> PrecheckNameservers(v),
   uses         |-> {"certificates"}
                    \union (IF ShootIssuersEnabled(v) THEN {"issuers"} ELSE {})
                    \union (IF DNSChallengeOnShootEnabled(v) THEN {"dnsentries"} ELSE {})]

CreateDeployment(v) == [args |-> Args(v), volumes |-> Volumes(v), replicas |-> v.replicas]

\* Mutant: the rights for DNS entries in the shoot are forgotten.
CreateShootClusterRole_NoDNSEntries(v) ==
  {"certificates"} \union (IF ShootIssuersEnabled(v) THEN {"issuers"} ELSE {})
CreateShootClusterRole(v) ==
  {"certificates"} \union (IF ShootIssuersEnabled(v) THEN {"issuers"} ELSE {})
                   \union (IF DNSChallengeOnShootEnabled(v) THEN {"dnsentries"} ELSE {})
GetShootCRDs(v) ==
  {"certificates"} \union (IF ShootIssuersEnabled(v) \/ class # "shoot" THEN {"issuers"} ELSE {})

\* A resource of the extension's own API group needs its CRD, too.
CreateGrants(v) == CreateShootClusterRole(v) \ ({"certificates", "issuers"} \ GetShootCRDs(v))

CreateSeedObjects(v) ==
  [issuers    |-> CollectIssuers(v),
   objects    |-> CreateIssuerSecrets(v) \union CreateCACertificatesConfigMap(v),
   deployment |-> CreateDeployment(v)]

-----------------------------------------------------------------------------
(* Reconcile                                                               *)

Init ==
  /\ class \in {"shoot", "garden", "seed"}
  /\ service \in Services /\ config \in Configs
  /\ resources \in [Refs -> {"none", "Secret", "ConfigMap"}]
  /\ content \in {c \in [Refs -> {"none", "privateKey", "hmacKey"}] :
                    \A r \in Refs : c[r] = "none" <=> resources[r] # "Secret"}
  /\ hibernated = FALSE
  /\ pc = "idle" /\ values = {}
  /\ seedMR = {} /\ grants = {} /\ status = {}
  /\ outcome = "none"
  /\ changes = 0 /\ errors = 0

GoTo(step) == pc' = step /\ UNCHANGED outcome

\* Mutant: the values of a failed reconciliation are used again.
End_KeepValues(result) ==
  /\ pc' = "idle" /\ outcome' = result
  /\ IF result = "ok" THEN values' = {} ELSE UNCHANGED values
End(result) == pc' = "idle" /\ values' = {} /\ outcome' = result

\* DecodeAndValidateProviderConfig and createValues.
Read ==
  /\ pc = "idle"
  /\ IF ValidateCertConfig(config, resources)
     THEN /\ GoTo(IF class = "shoot" /\ ~hibernated THEN "deployShoot" ELSE "createIssuers")
          /\ values' = {CreateValues}
     ELSE End("invalid")
  /\ UNCHANGED <<envVars, outVars, changes, errors>>

DeployShoot ==
  /\ pc = "deployShoot"
  /\ \E v \in values : grants' = CreateGrants(v)
  /\ GoTo("createIssuers")
  /\ UNCHANGED <<envVars, values, seedMR, status, changes, errors>>

\* createIssuers and validateIssuerSecrets, before anything is written.
CreateIssuers ==
  /\ pc = "createIssuers"
  /\ \E v \in values :
       IF ~LookupsSucceed(v) THEN End("lookup")
       ELSE IF ~ValidateIssuerSecrets(v) THEN End("secrets")
       ELSE GoTo("deploySeed") /\ UNCHANGED values
  /\ UNCHANGED <<envVars, outVars, changes, errors>>

\* The MR of the runtime classes holds the rights of the controller, too.
DeploySeed ==
  /\ pc = "deploySeed"
  /\ \E v \in values : /\ seedMR' = {CreateSeedObjects(v)}
                       /\ grants' = IF class = "shoot" THEN grants ELSE CreateGrants(v)
  /\ GoTo("updateStatus")
  /\ UNCHANGED <<envVars, values, status, changes, errors>>

\* Mutant: only secrets that the user brings are noted.
UpdateStatus_ReferencedOnly ==
  /\ pc = "updateStatus"
  /\ \E v \in values :
       status' = {<<"issuer", i.name>> : i \in {j \in Issuers(v.config) : j.key # None}}
  /\ End("ok")
  /\ UNCHANGED <<envVars, seedMR, grants, changes, errors>>

UpdateStatus ==
  /\ pc = "updateStatus"
  /\ \E v \in values : status' = {<<"issuer", i.name>> : i \in Issuers(v.config)}
  /\ End("ok")
  /\ UNCHANGED <<envVars, seedMR, grants, changes, errors>>

CallFails ==
  /\ pc # "idle"
  /\ errors < MaxErrors /\ errors' = errors + 1
  /\ End("error")
  /\ UNCHANGED <<envVars, outVars, changes>>

Reconcile == Read \/ DeployShoot \/ CreateIssuers \/ DeploySeed \/ UpdateStatus

-----------------------------------------------------------------------------
(* Environment (external): gardenlet, users, a new release of the extension *)

Change == changes < MaxChanges /\ changes' = changes + 1

EditConfig ==
  /\ Change
  /\ config' \in Configs \ {config}
  /\ UNCHANGED <<class, service, resources, content, hibernated, workerVars, outVars, outcome, errors>>

\* gardenlet copies the secrets that the shoot refers to into the namespace.
EditResources ==
  /\ Change
  /\ \E r \in Refs, kind \in {"none", "Secret", "ConfigMap"}, key \in {"privateKey", "hmacKey"} :
       /\ resources' = [resources EXCEPT ![r] = kind]
       /\ content' = [content EXCEPT ![r] = IF kind = "Secret" THEN key ELSE "none"]
  /\ UNCHANGED <<class, service, config, hibernated, workerVars, outVars, outcome, errors>>

Hibernate ==
  /\ Change
  /\ class = "shoot"
  /\ hibernated' = ~hibernated
  /\ UNCHANGED <<class, service, config, resources, content, workerVars, outVars, outcome, errors>>

\* The process restarts with another configuration.
Redeploy ==
  /\ Change
  /\ service' \in Services \ {service}
  /\ IF pc = "idle" THEN UNCHANGED <<workerVars, outcome>> ELSE End("error")
  /\ UNCHANGED <<class, config, resources, content, hibernated, outVars, errors>>

Next == Reconcile \/ CallFails \/ EditConfig \/ EditResources \/ Hibernate \/ Redeploy

Spec == Init /\ [][Next]_vars

-----------------------------------------------------------------------------
(* Properties                                                              *)

SecretNames == {"issuer", "ca", "ref"} \X
                 ({Default} \union Refs \union
                  UNION {{i.name : i \in Issuers(c)} : c \in Configs})
TypeOK ==
  /\ class \in {"shoot", "garden", "seed"}
  /\ service \in Services /\ config \in Configs
  /\ resources \in [Refs -> {"none", "Secret", "ConfigMap"}]
  /\ content \in [Refs -> {"none", "privateKey", "hmacKey"}]
  /\ hibernated \in BOOLEAN
  /\ pc \in {"idle", "deployShoot", "createIssuers", "deploySeed", "updateStatus"}
  /\ pc = "idle" <=> values = {}
  /\ grants \subseteq {"certificates", "issuers", "dnsentries"}
  /\ status \subseteq SecretNames
  /\ outcome \in {"none", "invalid", "lookup", "secrets", "error", "ok"}
  /\ changes \in 0..MaxChanges /\ errors \in 0..MaxErrors

\* A provider config that validation accepts never fails in the deployer for a
\* reference it cannot resolve: validation and deployer, two packages, judge
\* the same resources the same way, for every class.
ValidatedConfigDeploys == outcome # "lookup"

\* Issuers keep their names apart: the default issuer is always the one of the
\* extension's configuration, whatever the provider config calls its issuers.
DefaultIssuerProtected ==
  \A mr \in seedMR :
    /\ \A i, j \in mr.issuers : i.name = j.name => i = j
    /\ \E s \in Services : GardenIssuer(s) \in mr.issuers

\* The secrets of an issuer: its CA or account, and the key of its EAB.
SecretsOf(i) == {SecretRef(i)} \union {<<"ref", r>> : r \in {i.eab} \ {None}}

\* A secret of the shoot, which gardenlet copies into the namespace; the shoot
\* that the attempt has read has it when the reference is written.
Prepared(s) ==
  /\ s[1] = "ref"
  /\ pc = "updateStatus" => \A v \in values : v.resources[s[2]] = "Secret"

\* Every secret and config map that issuers and pod refer to, keys of external
\* account bindings included, is deployed with them, a secret of the shoot, or
\* written by the controller itself.
ReferencesComplete ==
  \A mr \in seedMR :
    /\ \A i \in mr.issuers : \A s \in SecretsOf(i) :
         \/ s \in mr.objects \/ Prepared(s)
         \/ s = SecretRef(i) /\ AutoRegistration(i)
    /\ \A volume \in mr.deployment.volumes :
         volume \in mr.objects \/ volume[1] = "shootAccess"

Settled == pc = "idle" /\ outcome = "ok"

\* After a successful reconciliation a running controller may use what its
\* arguments make it use, although rights and arguments are written in two
\* ManagedResources that fail, and skip hibernation, separately.
SettledGrants ==
  Settled =>
    \A mr \in seedMR :
      mr.deployment.replicas = 1 => mr.deployment.args.uses \subseteq grants

\* After a successful reconciliation Status.Resources names the account secret
\* of every issuer of the shoot for which the controller registers an account.
StatusCoversAccounts ==
  Settled =>
    \A mr \in seedMR : \A i \in mr.issuers :
      AutoRegistration(i) /\ i.name # Default => SecretRef(i) \in status

\* What README.md:19 and the configuration's type say of restrictIssuer: the
\* default issuer is restricted to the domain of the shoot.
DefaultIssuerRestricted ==
  class = "shoot" /\ service.restrict /\ Settled /\ changes = 0 =>
    \A mr \in seedMR : mr.deployment.args.domainRanges = ShootDomain

\* What the provider config's type says of shootIssuers: it overwrites the
\* setting of the service configuration, which therefore counts without it.
ShootIssuersDefault ==
  class = "shoot" /\ config.shootIssuers = "unset" /\ service.shootIssuers = "on"
  /\ Settled /\ changes = 0
  => \A mr \in seedMR : "issuers" \in mr.deployment.args.uses

\* What the provider config's type says of precheckNameservers: the argument
\* is a list of DNS servers.
NameserversAreServers ==
  \A mr \in seedMR : ~Contains(mr.deployment.args.nameservers, Empty)
=============================================================================
