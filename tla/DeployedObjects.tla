--------------------------- MODULE DeployedObjects ---------------------------
(***************************************************************************)
(* The objects in the ManagedResources of cert-management                  *)
(* (pkg/controller/extension/shared): for every object its identity, the   *)
(* objects it needs by name, the objects it selects by label, and whether  *)
(* it is kept when its ManagedResource goes.  What the objects say         *)
(* (arguments, rights, rules) is in CertDeployment.                        *)
(*                                                                         *)
(* Values are records [shoot: BOOLEAN, class, namespace, caCertificates:   *)
(* BOOLEAN, alertDays: Nat, issuer: "key", "auto" or "ca", issuerName,     *)
(* ownIssuers: a set of [name, secrets], shootIssuers: BOOLEAN,            *)
(* acmeNamespaces: BOOLEAN].                                               *)
(***************************************************************************)
EXTENDS Naturals

ClusterScope == "" \* namespace of cluster-scoped objects

\* Identities, and what selectors match.
Named(kind, ns, name) == <<kind, ns, name>>
Labelled(kind, ns, label) == <<kind, ns, label>>

Object(kind, ns, name, label, needs, selects) ==
  [id |-> Named(kind, ns, name), match |-> Labelled(kind, ns, label),
   needs |-> needs, selects |-> selects, keep |-> FALSE]

\* What a function returns that creates nothing (nil) in some cases.
When(condition, o) == IF condition THEN {o} ELSE {}

Identities(S) == {o.id : o \in S}
NoLabel == "none"

-----------------------------------------------------------------------------
(* Names: deployer.go                                                      *)

ChartNameSeed(v) ==
  IF v.shoot THEN "shoot-cert-management-seed"
  ELSE IF v.class = "garden" THEN "cert-management-garden" ELSE "cert-management-seed"

ChartNameShoot(v) ==
  IF v.shoot THEN "shoot-cert-management-shoot" ELSE ChartNameSeed(v)

\* Mutant: one ClusterRole for all classes of the runtime cluster.
ShootClusterRoleName_NoClass(v) == IF v.shoot THEN "cert-service:shoot" ELSE "cert-service"

ShootClusterRoleName(v) ==
  IF v.shoot THEN "cert-service:shoot"
  ELSE [garden |-> "cert-service:garden", seed |-> "cert-service:seed"][v.class]

InstanceNameGardenOrSeed(v) ==
  [garden |-> "cert-management-garden", seed |-> "cert-management-seed"][v.class]

ShootNamespace(v) == IF v.shoot THEN "kube-system" ELSE v.namespace
FullName == "cert-controller-manager"
RoleName == "cert-service:cert-controller-manager"
LeaderRoleName == "cert-service"

-----------------------------------------------------------------------------
(* The control plane: deployer_seed.go                                     *)

Own(v, kind, name, needs, selects) ==
  Object(kind, v.namespace, name, ChartNameSeed(v), needs, selects)

CreateServiceAccount(v) == Own(v, "ServiceAccount", ChartNameSeed(v), {}, {})

CreateCACertificatesConfigMap(v) ==
  When(v.caCertificates, Own(v, "ConfigMap", "cert-controller-manager-ca-certificates", {}, {}))

CreateDashboardsConfigMap(v) ==
  Object("ConfigMap", v.namespace, "cert-controller-manager-dashboards", NoLabel, {}, {})

Pods(v) == {Labelled("Deployment", v.namespace, ChartNameSeed(v))}

CreatePodDisruptionBudget(v) == Own(v, "PodDisruptionBudget", FullName, {}, Pods(v))
CreateService(v) == Own(v, "Service", FullName, {}, Pods(v))

CreateServiceMonitor(v) ==
  Own(v, "ServiceMonitor", "shoot-cert-controller-manager", {},
      {Labelled("Service", v.namespace, ChartNameSeed(v))})

\* No rule without a number of days before the expiration.
CreatePrometheusRule(v) ==
  When(v.alertDays # 0, Own(v, "PrometheusRule", "shoot-cert-controller-manager", {}, {}))

CreateRole(v) == Own(v, "Role", LeaderRoleName, {}, {})

CreateRoleBinding(v) ==
  Own(v, "RoleBinding", ChartNameSeed(v),
      {Named("Role", v.namespace, LeaderRoleName),
       Named("ServiceAccount", v.namespace, ChartNameSeed(v))}, {})

\* The controller uses credentials and config map of its volumes, the custom
\* resources of its cluster, and runs as its service account.
VolumeSources(v) ==
  (IF v.shoot THEN {Named("Secret", v.namespace, "generic-token-kubeconfig"),
                    Named("Secret", v.namespace, "shoot-access")} ELSE {})
    \union (IF v.caCertificates
            THEN {Named("ConfigMap", v.namespace, "cert-controller-manager-ca-certificates")}
            ELSE {})

CRD(name) == Object("CustomResourceDefinition", ClusterScope, name, NoLabel, {}, {})
CRDNames == {"certificates", "certificaterevocations", "issuers"}

\* A controller with --source in the shoot only finds its Issuers here.
SourceCRDs(v) == IF v.shoot THEN {"issuers"} ELSE CRDNames

CreateDeployment(v) ==
  Own(v, "Deployment", FullName,
      {Named("ServiceAccount", v.namespace, ChartNameSeed(v))}
        \union VolumeSources(v)
        \union {Named("CustomResourceDefinition", ClusterScope, n) : n \in SourceCRDs(v)},
      {})

CreateVPA(v) ==
  When(v.shoot, Object("VerticalPodAutoscaler", v.namespace, "cert-controller-manager-vpa",
                       NoLabel, {Named("Deployment", v.namespace, FullName)}, {}))

-----------------------------------------------------------------------------
(* Issuers and their secrets: deployer_issuers.go                          *)

\* The secrets bear the name of their issuer, which is the default one.
OwnSecret(v) == IF v.issuer = "ca" THEN "issuer-ca" ELSE "issuer"

\* secretACME, secretCA: only the default issuer brings a key or a CA.
CreateIssuerSecrets(v) ==
  When(v.issuer \in {"key", "ca"}, Object("Secret", v.namespace, OwnSecret(v), NoLabel, {}, {}))

\* With autoRegistration the account's secret is written by the controller.
DefaultIssuerSecrets(v) ==
  IF v.issuer = "auto" THEN {} ELSE {OwnSecret(v)}

CreateIssuer(v, name, secrets) ==
  Object("Issuer", v.namespace, name, NoLabel,
         {Named("Secret", v.namespace, s) : s \in secrets}
           \union {Named("CustomResourceDefinition", ClusterScope, "issuers")}, {})

\* Own issuers are for shoots; one named like the default issuer is left out.
CreateIssuers(v) ==
  CreateIssuerSecrets(v)
    \union {CreateIssuer(v, v.issuerName, DefaultIssuerSecrets(v))}
    \union {CreateIssuer(v, own.name, own.secrets) :
              own \in {o \in v.ownIssuers : v.shoot /\ o.name # v.issuerName}}

-----------------------------------------------------------------------------
(* Rights and CRDs: deployer_shoot.go, deployer_gardenorseed.go            *)

GetServiceAccount(v) ==
  IF v.shoot THEN Named("ServiceAccount", "kube-system", "extension-shoot-cert-service")
  ELSE Named("ServiceAccount", v.namespace, InstanceNameGardenOrSeed(v))

CreateShootRole(v) == Object("Role", ShootNamespace(v), RoleName, NoLabel, {}, {})

CreateShootRoleBinding(v) ==
  Object("RoleBinding", ShootNamespace(v), RoleName, NoLabel,
         {Named("Role", ShootNamespace(v), RoleName), GetServiceAccount(v)}, {})

CreateShootClusterRole(v) ==
  Object("ClusterRole", ClusterScope, ShootClusterRoleName(v), ChartNameShoot(v), {}, {})

CreateShootClusterRoleBinding(v) ==
  Object("ClusterRoleBinding", ClusterScope, ShootClusterRoleName(v), ChartNameShoot(v),
         {Named("ClusterRole", ClusterScope, ShootClusterRoleName(v)), GetServiceAccount(v)}, {})

\* getShootCRDs: Issuers too, unless they are for the control plane only.
GetShootCRDs(v) ==
  {CRD(n) : n \in {m \in CRDNames : m = "issuers" => v.shootIssuers \/ ~v.shoot}}

KeepObject(o) == [o EXCEPT !.keep = TRUE]

CreateNetworkPolicy(v) ==
  When(v.acmeNamespaces,
       Object("NetworkPolicy", v.namespace, "egress-from-cert-controller-manager", NoLabel, {}, {}))

CreateShootRights(v) ==
  {CreateShootRole(v), CreateShootRoleBinding(v),
   CreateShootClusterRole(v), CreateShootClusterRoleBinding(v)}

-----------------------------------------------------------------------------
(* The ManagedResources                                                    *)

\* removeNilObjects and the registry: a function that creates nothing adds nothing.
CreateControlPlane(v) ==
  {CreateServiceAccount(v), CreateRole(v), CreateRoleBinding(v), CreateService(v),
   CreateDeployment(v)}
    \union CreateCACertificatesConfigMap(v) \union CreateIssuers(v) \union CreateVPA(v)

\* DeployShootManagedResource.
ShootObjects(v) == CreateShootRights(v) \union GetShootCRDs(v)

\* DeploySeedManagedResource.
SeedObjects(v) ==
  CreateControlPlane(v)
    \union {CreatePodDisruptionBudget(v), CreateDashboardsConfigMap(v), CreateServiceMonitor(v)}
    \union CreatePrometheusRule(v)

\* Mutant: every object is kept, not the CRDs alone.
RuntimeObjects_KeepAll(v) ==
  {KeepObject(o) : o \in CreateControlPlane(v) \union CreateShootRights(v)
                           \union CreateNetworkPolicy(v) \union GetShootCRDs(v)}

\* DeployGardenOrSeedManagedResource.
RuntimeObjects(v) ==
  CreateControlPlane(v) \union CreateShootRights(v) \union CreateNetworkPolicy(v)
    \union {KeepObject(crd) : crd \in GetShootCRDs(v)}

=============================================================================
