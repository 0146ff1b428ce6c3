--------------------------- MODULE RuntimeCluster ---------------------------
(***************************************************************************)
(* One cluster with everything gardener-extension-shoot-cert-service puts  *)
(* into it: garden runtime and seed, and a shoot's control plane; the      *)
(* cluster may also be a managed seed, whose own shoot ManagedResource     *)
(* lands here.  Two installations of the extension process, started with   *)
(* the arguments of the chart and a configuration file that changes, write *)
(* ManagedResources; gardener-resource-manager turns them into objects,    *)
(* and all share cluster-scoped ones.                                      *)
(*                                                                         *)
(* A reconciliation is one step here; its single calls are in              *)
(* ShootExtension, GardenExtension and SeedExtension.                      *)
(***************************************************************************)
EXTENDS DeployedObjects, ServiceConfiguration, HealthCheck, FiniteSets

CONSTANTS
  FirstConfigs,    \* contents of the file at the start
  ServiceConfigs,  \* contents of the configuration file
  ProviderConfigs, \* of the shoot Extension: [alertDays, ownIssuers, shootIssuers],
                   \* and of its shoot: hasDomain
  MaxChanges       \* bound: edits of files and Extensions, Issuers that fail,
                   \* processes that stop and health checks that fail

\* ValidateIssuers refuses a provider config with two issuers of one name.
ASSUME ConstantsAssumption ==
  /\ FirstConfigs \subseteq ServiceConfigs /\ ServiceConfigs \subseteq Configuration
  /\ \A p \in ProviderConfigs :
       /\ p.hasDomain \in BOOLEAN
       /\ IsFiniteSet(p.ownIssuers)
       /\ \A a, b \in p.ownIssuers : a.name = b.name => a = b
  /\ MaxChanges \in Nat

VARIABLES
  file,    \* configuration file of each installation
  serving, \* configuration each process runs with: {} or {config}
  ext,     \* Extension of each class
  mr,      \* the ManagedResources
  objects, \* objects in the cluster
  issuers, \* states of the Issuers in the shoot's namespace
  changes

clusterVars == <<mr, objects, issuers>>
vars == <<file, serving, ext, clusterVars, healthVars, changes>>

Classes == {"garden", "seed", "shoot"}
ManagedResources == {"garden", "seed", "shoot-seed", "shoot-shoot"}
ClassOf(m) == IF m \in {"garden", "seed"} THEN m ELSE "shoot"

\* The seed class uses LEADER_ELECTION_NAMESPACE, the others the Extension's.
NamespaceOf(m) ==
  CASE m = "garden" -> "garden" [] m = "seed" -> "extension" [] OTHER -> "shoot"

Plain == [alertDays |-> 15, ownIssuers |-> {}, shootIssuers |-> FALSE,
          hasDomain |-> TRUE]
HasDomain == ext["shoot"].config.hasDomain
ServedConfigs == {SetDefaults(c) : c \in ServiceConfigs}
Wishes == [service: ServedConfigs, provider: ProviderConfigs \union {Plain}]

IssuerKind(service) ==
  IF service.ca # {} THEN "ca"
  ELSE IF \E acme \in service.acme : acme.privateKey # {} THEN "key" ELSE "auto"

\* createValues of both actuators.
CreateValues(m, wish) ==
  [shoot          |-> ClassOf(m) = "shoot",
   class          |-> IF ClassOf(m) = "shoot" THEN "" ELSE m,
   namespace      |-> NamespaceOf(m),
   caCertificates |-> \E acme \in wish.service.acme : acme.caCertificates \notin {{}, {<<>>}},
   alertDays      |-> wish.provider.alertDays,
   issuer         |-> IssuerKind(wish.service),
   issuerName     |-> wish.service.issuerName,
   ownIssuers     |-> wish.provider.ownIssuers,
   shootIssuers   |-> wish.provider.shootIssuers,
   acmeNamespaces |-> wish.service.acmeNamespaces]

ObjectsOf(m, wish) ==
  LET v == CreateValues(m, wish)
  IN  CASE m = "shoot-shoot" -> ShootObjects(v)
        [] m = "shoot-seed" -> SeedObjects(v)
        [] OTHER -> RuntimeObjects(v)

\* Copies of referenced secrets, credentials of the shoot, its service account.
OwnIssuerSecrets ==
  UNION {own.secrets : own \in UNION {p.ownIssuers : p \in ProviderConfigs}}
Provided ==
  {Object("Secret", "shoot", s, NoLabel, {}, {}) :
     s \in OwnIssuerSecrets \union {"generic-token-kubeconfig", "shoot-access"}}
  \union {Object("ServiceAccount", "kube-system", "extension-shoot-cert-service", NoLabel, {}, {})}

\* Names of the Issuers in the namespace of the shoot.
IssuersIn(S) == {o.id[3] : o \in {p \in S : p.id[1] = "Issuer" /\ p.id[2] = "shoot"}}

\* Mutant: the CRDs of the chart may go.
ChartObjects_NotKept == {CRD(n) : n \in CRDNames}

ChartObjects == {KeepObject(CRD(n)) : n \in CRDNames}

\* A ManagedResource: the values it was made from, the objects in its data,
\* and the identities in its status, which are those last applied.
Absent == [st |-> "absent", wish |-> {}, data |-> {}, status |-> {}]

TypeOK ==
  /\ file \in [Installations -> ServiceConfigs]
  /\ \A i \in Installations : serving[i] \in Option(ServedConfigs)
  /\ ext \in [Classes -> [st: {"none", "present", "deleting"}, config: ProviderConfigs \union {Plain}]]
  /\ \A m \in ManagedResources :
       /\ mr[m].st \in {"absent", "present", "deleting"}
       /\ mr[m].wish \in Option(Wishes)
  /\ Cardinality(Identities(objects)) = Cardinality(objects)
  /\ DOMAIN issuers = IssuersIn(objects)
  /\ HealthTypeOK
  /\ changes \in 0..MaxChanges

Init ==
  /\ file \in [Installations -> FirstConfigs]
  /\ serving = [i \in Installations |-> {}]
  /\ ext = [c \in Classes |-> [st |-> "none", config |-> Plain]]
  /\ mr = [m \in ManagedResources |-> Absent]
  /\ objects = ChartObjects
  /\ issuers = <<>>
  /\ HealthInit
  /\ changes = 0

-----------------------------------------------------------------------------
(* The processes                                                           *)

\* A rollout: the process that runs is replaced when its successor starts.
Start(i) ==
  /\ Run(i, {file[i]}) \notin {{}, serving[i]}
  /\ serving' = [serving EXCEPT ![i] = Run(i, {file[i]})]
  /\ AbortCheck
  /\ UNCHANGED <<file, ext, clusterVars, changes>>

Serves(i, c) == serving[i] # {} /\ c \in ServedClasses(i)

ManagedResourcesOf(c) == {m \in ManagedResources : ClassOf(m) = c}

Deploy(i, c) ==
  /\ Serves(i, c) /\ ext[c].st = "present"
  /\ \E s \in serving[i] :
       LET wish == [service |-> s, provider |-> ext[c].config]
       IN  /\ \E m \in ManagedResourcesOf(c) : mr[m].wish # {wish}
           /\ mr' = [m \in ManagedResources |->
                       IF ClassOf(m) = c
                       THEN [mr[m] EXCEPT !.st = "present", !.wish = {wish}, !.data = ObjectsOf(m, wish)]
                       ELSE mr[m]]
  /\ UNCHANGED <<file, serving, ext, objects, issuers, healthVars, changes>>

Delete(i, c) ==
  /\ Serves(i, c) /\ ext[c].st = "deleting"
  /\ \E m \in ManagedResourcesOf(c) : mr[m].st = "present"
  /\ mr' = [m \in ManagedResources |->
              IF ClassOf(m) = c /\ mr[m].st = "present" THEN [mr[m] EXCEPT !.st = "deleting"]
              ELSE mr[m]]
  /\ UNCHANGED <<file, serving, ext, objects, issuers, healthVars, changes>>

\* The finalizer goes when all ManagedResources of the Extension have gone.
Release(i, c) ==
  /\ Serves(i, c) /\ ext[c].st = "deleting"
  /\ \A m \in ManagedResourcesOf(c) : mr[m].st = "absent"
  /\ ext' = [ext EXCEPT ![c] = [st |-> "none", config |-> Plain]]
  /\ UNCHANGED <<file, serving, clusterVars, healthVars, changes>>

Applied(m) == mr[m].status = Identities(mr[m].data)

\* CheckManagedResource of gardener: missing or not applied in the last form.
InnerStatus == IF mr["shoot-seed"].st = "absent" THEN {"False"}
               ELSE IF ~Applied("shoot-seed") THEN {"False", "Progressing"} ELSE {"True"}

HealthCheckServed ==
  \E i \in Installations : "healthcheck" \in ControllerSwitches(i) /\ serving[i] # {}

HealthCheckRuns ==
  /\ HealthCheckServed
  /\ ext["shoot"].st = "present"
  /\ \/ PreCheckFunc(HasDomain)
     \/ \E status \in InnerStatus : CheckManagedResource(HasDomain, status)
     \/ CheckIssuers({issuers[n] : n \in DOMAIN issuers})
  /\ UNCHANGED <<file, serving, ext, clusterVars, changes>>

-----------------------------------------------------------------------------
(* Environment (external): operators, gardener-resource-manager, issuers   *)

Change == changes < MaxChanges /\ changes' = changes + 1

Stop(i) ==
  /\ Change /\ serving[i] # {}
  /\ serving' = [serving EXCEPT ![i] = {}]
  /\ AbortCheck
  /\ UNCHANGED <<file, ext, clusterVars>>

CheckError ==
  /\ Change /\ HasDomain /\ ext["shoot"].st = "present" /\ HealthCheckServed
  /\ CheckFails
  /\ UNCHANGED <<file, serving, ext, clusterVars>>

EditFile(i) ==
  /\ Change
  /\ \E c \in ServiceConfigs \ {file[i]} : file' = [file EXCEPT ![i] = c]
  /\ UNCHANGED <<serving, ext, clusterVars, healthVars>>

ConfigsOf(c) == IF c = "shoot" THEN ProviderConfigs ELSE {Plain}

CreateExtension(c) ==
  /\ ext[c].st = "none"
  /\ \E p \in ConfigsOf(c) : ext' = [ext EXCEPT ![c] = [st |-> "present", config |-> p]]
  /\ UNCHANGED <<file, serving, clusterVars, healthVars, changes>>

EditExtension ==
  /\ Change
  /\ ext["shoot"].st = "present"
  /\ \E p \in ProviderConfigs \ {ext["shoot"].config} : ext' = [ext EXCEPT !["shoot"].config = p]
  /\ UNCHANGED <<file, serving, clusterVars, healthVars>>

DeleteExtension(c) ==
  /\ Change
  /\ ext[c].st = "present"
  /\ ext' = [ext EXCEPT ![c].st = "deleting"]
  /\ UNCHANGED <<file, serving, clusterVars, healthVars>>

\* Objects that are no longer in the data go, unless they are kept; an
\* annotation that another owner has set stays.
Apply(m, data) ==
  LET Merge(o) == [o EXCEPT !.keep = @ \/ \E p \in objects : p.id = o.id /\ p.keep]
  IN  {o \in objects : /\ o.id \notin Identities(data)
                       /\ o.keep \/ o.id \notin mr[m].status}
        \union {Merge(o) : o \in data}

\* An Issuer that appears has no state yet.
IssuersFollow ==
  issuers' = [n \in IssuersIn(objects') |-> IF n \in DOMAIN issuers THEN issuers[n] ELSE ""]

GRMApply(m) ==
  /\ mr[m].st = "present" /\ ~Applied(m)
  /\ objects' = Apply(m, mr[m].data)
  /\ mr' = [mr EXCEPT ![m].status = Identities(mr[m].data)]
  /\ IssuersFollow
  /\ UNCHANGED <<file, serving, ext, healthVars, changes>>

GRMRemove(m) ==
  /\ mr[m].st = "deleting"
  /\ objects' = Apply(m, {})
  /\ mr' = [mr EXCEPT ![m] = Absent]
  /\ IssuersFollow
  /\ UNCHANGED <<file, serving, ext, healthVars, changes>>

IssuerReady(n) ==
  /\ issuers[n] # "Ready"
  /\ issuers' = [issuers EXCEPT ![n] = "Ready"]
  /\ UNCHANGED <<file, serving, ext, mr, objects, healthVars, changes>>

IssuerFails(n) ==
  /\ Change
  /\ issuers[n] # "Error"
  /\ issuers' = [issuers EXCEPT ![n] = "Error"]
  /\ UNCHANGED <<file, serving, ext, mr, objects, healthVars>>

Processes == \E i \in Installations :
  \/ Start(i)
  \/ \E c \in Classes : Deploy(i, c) \/ Delete(i, c) \/ Release(i, c)

GRM == \E m \in ManagedResources : GRMApply(m) \/ GRMRemove(m)

Environment ==
  \/ \E i \in Installations : Stop(i) \/ EditFile(i)
  \/ \E c \in Classes : CreateExtension(c) \/ DeleteExtension(c)
  \/ EditExtension \/ CheckError
  \/ \E n \in DOMAIN issuers : IssuerReady(n) \/ IssuerFails(n)

Next == Processes \/ HealthCheckRuns \/ GRM \/ Environment

Spec == Init /\ [][Next]_vars

(* Processes are restarted by Kubernetes, Extensions are reconciled and     *)
(* checked again and again, GRM keeps working.                              *)
Fairness ==
  /\ \A i \in Installations : WF_vars(Start(i)) /\ WF_vars(\E c \in Classes : Deploy(i, c))
  /\ WF_vars(HealthCheckRuns)
  /\ WF_vars(\E m \in ManagedResources : GRMApply(m))

FairSpec == Spec /\ Fairness

-----------------------------------------------------------------------------
(* Properties                                                              *)

InCluster(m) == mr[m].st = "present" /\ mr[m].status # {}

\* Whatever was deployed is there with everything it needs, although other
\* ManagedResources of the same cluster are changed and removed at any time:
\* accounts, roles, secrets, CRDs, and the pods that services select.
ReferencesResolve ==
  LET ids     == Identities(objects \union Provided)
      matches == {o.match : o \in objects}
  IN  \A m \in ManagedResources : InCluster(m) =>
        /\ mr[m].status \subseteq ids
        /\ \A o \in objects : o.id \in mr[m].status =>
             o.needs \subseteq ids /\ o.selects \subseteq matches

\* Two ManagedResources write the same object only if neither takes it away.
SharedObjectsKept ==
  \A o \in objects : ~o.keep =>
    Cardinality({m \in ManagedResources : InCluster(m) /\ o.id \in mr[m].status}) <= 1

\* Extensions that have gone leave no objects in the cluster but kept CRDs.
NothingLeft ==
  (\A c \in Classes : ext[c].st = "none") => objects = ChartObjects

\* A dialable server: an address or a name, with a port that exists.
Dialable(s) ==
  /\ s.host \in {"ipv4", "ipv6", "name"}
  /\ s.port \subseteq Ports
  /\ s.brackets = "both" \/ s.brackets = "none"

\* No ManagedResource is ever written from a configuration that the deployed
\* controller could not work with: an Issuer of one kind, nameservers it can
\* dial, keys it can create; whatever is in the file meanwhile.
DeployedConfigWorks ==
  \A m \in ManagedResources : \A w \in mr[m].wish :
    /\ w.service.issuerName # ""
    /\ (w.service.ca # {}) # (w.service.acme # {})
    /\ \A acme \in w.service.acme : \A servers \in acme.precheckNameservers :
         \A k \in DOMAIN servers : Dialable(servers[k])
    /\ \A d \in w.service.privateKeyDefaults :
         /\ d.algorithm \subseteq {"RSA", "ECDSA"}
         /\ \A n \in d.sizeRSA : n >= 2048
         /\ \A n \in d.sizeECDSA : n >= 256

\* The CRDs of a cluster with an installation stay, and with them the
\* Certificates and Issuers of all others.
CRDsStay ==
  [][\A o \in objects : o.id[1] = "CustomResourceDefinition"
       => o.id \in Identities(objects')]_vars

\* What a ManagedResource has in the cluster for itself.
OwnObjects(m) ==
  {o \in objects : o.id \in mr[m].status /\ o.id[1] # "CustomResourceDefinition"}

\* ManagedResources of one cluster do not interfere: no step writes or removes
\* objects of two of them, whatever each is changed to.
NoInterference ==
  [][\A m, k \in ManagedResources :
       OwnObjects(m)' # OwnObjects(m) /\ OwnObjects(k)' # OwnObjects(k) => m = k]_vars

InstallationOf(c) == IF c = "garden" THEN "garden" ELSE "seed"
Startable(c) == Run(InstallationOf(c), {file[InstallationOf(c)]})
Stable(c) ==
  /\ ext[c].st = "present"
  /\ Startable(c) # {} /\ c \in ServedClasses(InstallationOf(c))

\* What is newly deployed has the configuration of the running process of the
\* one installation that serves the class, and of the class's own Extension;
\* no other process ever writes it.
OwnInstallationWrites ==
  [][\A m \in ManagedResources : \A wish \in mr'[m].wish \ mr[m].wish :
       LET c == ClassOf(m)
       IN  wish \in [service: serving[InstallationOf(c)], provider: {ext[c].config}]]_vars

\* Every Extension whose controller is not disabled is served by one process:
\* its ManagedResources settle to its own configuration and the file of the
\* installation it belongs to.
Settles ==
  \A c \in Classes : <>[]Stable(c) =>
    <>[](\A m \in ManagedResourcesOf(c) :
           /\ InCluster(m) /\ Applied(m)
           /\ mr[m].wish = [service: Startable(c), provider: {ext[c].config}])

\* The condition follows the Issuers, those of the default configuration and
\* the shoot's own: one that is not Ready for good, or has no state, makes it
\* False for good, and with all of them Ready it is True for good.
Checked == Stable("shoot") /\ HealthCheckServed /\ HasDomain
AllReady == \A n \in DOMAIN issuers : issuers[n] = "Ready"
HealthFollowsIssuers ==
  /\ <>[](Checked /\ ~AllReady) => <>[](condition = "False")
  /\ <>[](Checked /\ AllReady) => <>[](condition = "True")
=============================================================================
