------------------------ MODULE RuntimeClusterProofs ------------------------
(***************************************************************************)
(* Proofs about RuntimeCluster: what is deployed comes from a validated    *)
(* configuration, what it refers to is there, the CRDs stay, and nothing   *)
(* else is left, for every set of configurations and provider configs and  *)
(* any number of changes.                                                  *)
(***************************************************************************)
EXTENDS RuntimeCluster, FiniteSetTheorems, TLAPS

IsCRD(o) == o.id[1] = "CustomResourceDefinition"

IsObject(o) ==
  o = [id |-> o.id, match |-> o.match, needs |-> o.needs, selects |-> o.selects, keep |-> o.keep]

\* What a ManagedResource may contain: CRDs of the chart, kept or not, and
\* other objects, which are not kept.
Deployable(o) ==
  /\ IsObject(o)
  /\ o \in ChartObjects \/ (\E n \in CRDNames : o = CRD(n)) \/ (~IsCRD(o) /\ o.keep = FALSE)

Validated(c) == c \in Configuration /\ ValidateConfiguration(c)

States ==
  /\ file \in [Installations -> ServiceConfigs]
  /\ serving \in [Installations -> SUBSET Configuration]
  /\ ext \in [Classes -> [st: {"none", "present", "deleting"}, config: ProviderConfigs \union {Plain}]]
  /\ mr = [m \in ManagedResources |-> mr[m]]
  /\ \A m \in ManagedResources :
       mr[m] = [st |-> mr[m].st, wish |-> mr[m].wish, data |-> mr[m].data, status |-> mr[m].status]

\* A configuration is validated before the process runs with it.
ConfigInv ==
  /\ \A i \in Installations : \A s \in serving[i] : Validated(s)
  /\ \A m \in ManagedResources : \A w \in mr[m].wish : Validated(w.service)

DataInv == \A m \in ManagedResources : \A o \in mr[m].data : Deployable(o)

\* Of the chart or of a ManagedResource that has it in its status.
Owned(o) ==
  o \in ChartObjects \/ (/\ IsObject(o) /\ ~IsCRD(o) /\ o.keep = FALSE
                         /\ \E m \in ManagedResources : o.id \in mr[m].status)

ObjectsInv == ChartObjects \subseteq objects /\ \A o \in objects : Owned(o)

\* An Extension goes after its ManagedResources, and these after their objects.
LifeInv ==
  \A m \in ManagedResources :
    /\ ext[ClassOf(m)].st = "none" => mr[m].st = "absent"
    /\ mr[m].st = "absent" => mr[m].status = {}

\* The names a ManagedResource uses: its namespace, and the cluster roles of
\* its class, which those of a shoot have in the shoot.
HomeOf(m) == IF m = "shoot-shoot" THEN "kube-system" ELSE NamespaceOf(m)
RoleOf(m) ==
  CASE m = "garden" -> "cert-service:garden" [] m = "seed" -> "cert-service:seed"
    [] OTHER -> "cert-service:shoot"
AtHome(m, id) ==
  \/ id[1] = "CustomResourceDefinition"
  \/ id[2] = HomeOf(m)
  \/ m # "shoot-seed" /\ id[2] = ClusterScope /\ id[3] = RoleOf(m)

NamesInv ==
  \A m \in ManagedResources :
    (\A o \in mr[m].data : AtHome(m, o.id)) /\ (\A id \in mr[m].status : AtHome(m, id))

\* What is there without the ManagedResources.
Given == Identities(ChartObjects \union Provided)
Others(S) == {o \in S : ~IsCRD(o)}

\* Whatever o needs or selects is in S, or there anyway.
Resolved(o, ids, S) ==
  o.needs \subseteq ids \union Given /\ o.selects \subseteq {p.match : p \in Others(S)}

\* The objects in the cluster that the status of m names.
ObjectsIn(m) == {o \in objects : o.id \in mr[m].status}

\* A ManagedResource is complete in itself, as it is written and as it was
\* last applied, and nobody else has taken anything from it.
Whole(m) ==
  /\ \A o \in mr[m].data : Resolved(o, Identities(mr[m].data), mr[m].data)
  /\ \A o \in Others(ObjectsIn(m)) : Resolved(o, mr[m].status, ObjectsIn(m))
  /\ mr[m].status \subseteq Identities(objects)

ClosedInv == \A m \in ManagedResources : Whole(m)

IInv == ClosedInv /\ NamesInv /\ States /\ ConfigInv /\ DataInv /\ ObjectsInv /\ LifeInv

-----------------------------------------------------------------------------
(* The objects                                                              *)

\* An object of another kind is not a CRD and not kept.
LEMMA OtherKind ==
  ASSUME NEW kind, kind # "CustomResourceDefinition",
         NEW ns, NEW name, NEW label, NEW needs, NEW selects
  PROVE  Deployable(Object(kind, ns, name, label, needs, selects))
BY DEF Deployable, IsObject, IsCRD, Object, Named, Labelled

\* The fields of a CRD, kept and not.
LEMMA CRDFields ==
  ASSUME NEW n
  PROVE  /\ CRD(n) = [id |-> <<"CustomResourceDefinition", ClusterScope, n>>,
                      match |-> <<"CustomResourceDefinition", ClusterScope, NoLabel>>,
                      needs |-> {}, selects |-> {}, keep |-> FALSE]
         /\ KeepObject(CRD(n)) =
                     [id |-> <<"CustomResourceDefinition", ClusterScope, n>>,
                      match |-> <<"CustomResourceDefinition", ClusterScope, NoLabel>>,
                      needs |-> {}, selects |-> {}, keep |-> TRUE]
<1>1. CRD(n) = [id |-> <<"CustomResourceDefinition", ClusterScope, n>>,
                match |-> <<"CustomResourceDefinition", ClusterScope, NoLabel>>,
                needs |-> {}, selects |-> {}, keep |-> FALSE]
  BY Zenon DEF CRD, Object, Named, Labelled
<1>2. ASSUME NEW o, IsObject(o), NEW k
      PROVE  [o EXCEPT !.keep = k] = [id |-> o.id, match |-> o.match, needs |-> o.needs,
                                      selects |-> o.selects, keep |-> k]
  BY <1>2 DEF IsObject
<1>3. IsObject(CRD(n))
  BY <1>1 DEF IsObject
<1>4. KeepObject(CRD(n)) = [id |-> CRD(n).id, match |-> CRD(n).match, needs |-> CRD(n).needs,
                            selects |-> CRD(n).selects, keep |-> TRUE]
  BY <1>2, <1>3, Zenon DEF KeepObject
<1> QED
  BY <1>1, <1>4

\* The CRDs of a ManagedResource are those of the chart, kept or not.
LEMMA CRDKind ==
  ASSUME NEW n \in CRDNames
  PROVE  /\ Deployable(CRD(n)) /\ IsCRD(CRD(n)) /\ CRD(n).keep = FALSE
         /\ Deployable(KeepObject(CRD(n))) /\ KeepObject(CRD(n)) \in ChartObjects
         /\ KeepObject(CRD(n)) = [CRD(n) EXCEPT !.keep = TRUE]
<1>1. IsObject(CRD(n)) /\ IsCRD(CRD(n)) /\ CRD(n).keep = FALSE
  BY CRDFields DEF IsObject, IsCRD
<1>2. IsObject(KeepObject(CRD(n)))
  BY CRDFields DEF IsObject
<1>3. KeepObject(CRD(n)) \in ChartObjects
  BY DEF ChartObjects
<1>4. KeepObject(CRD(n)) = [CRD(n) EXCEPT !.keep = TRUE]
  BY Zenon DEF KeepObject
<1> QED
  BY <1>1, <1>2, <1>3, <1>4 DEF Deployable

\* The CRDs of the chart are kept.
LEMMA ChartKind ==
  ASSUME NEW o \in ChartObjects
  PROVE  IsObject(o) /\ IsCRD(o) /\ o.keep = TRUE
<1>1. PICK n \in CRDNames : o = KeepObject(CRD(n))
  BY DEF ChartObjects
<1> QED
  BY <1>1, CRDFields DEF IsObject, IsCRD

\* The objects of every function of the deployer.
LEMMA ControlPlaneKinds ==
  ASSUME NEW v, NEW o \in CreateControlPlane(v) PROVE Deployable(o)
<1>1. ASSUME o \in {CreateServiceAccount(v), CreateRole(v), CreateRoleBinding(v),
                    CreateService(v), CreateDeployment(v)}
      PROVE  Deployable(o)
  BY <1>1, OtherKind
     DEF CreateServiceAccount, CreateRole, CreateRoleBinding, CreateService, CreateDeployment, Own
<1>2. ASSUME o \in CreateCACertificatesConfigMap(v) \union CreateVPA(v) PROVE Deployable(o)
  BY <1>2, OtherKind DEF CreateCACertificatesConfigMap, CreateVPA, When, Own
<1>3. ASSUME o \in CreateIssuers(v) PROVE Deployable(o)
  <2>1. ASSUME NEW name, NEW secrets PROVE Deployable(CreateIssuer(v, name, secrets))
    BY OtherKind DEF CreateIssuer
  <2>2. ASSUME o \in CreateIssuerSecrets(v) PROVE Deployable(o)
    BY <2>2, OtherKind DEF CreateIssuerSecrets, When
  <2> QED
    BY <1>3, <2>1, <2>2 DEF CreateIssuers
<1> QED
  BY <1>1, <1>2, <1>3 DEF CreateControlPlane

\* Rights and network policy are no CRDs.
LEMMA RightsKinds ==
  ASSUME NEW v, NEW o \in CreateShootRights(v) \union CreateNetworkPolicy(v) PROVE Deployable(o)
BY OtherKind DEF CreateShootRights, CreateNetworkPolicy, When, CreateShootRole,
   CreateShootRoleBinding, CreateShootClusterRole, CreateShootClusterRoleBinding

\* Whatever the values: a ManagedResource contains what IInv says of it.
LEMMA ObjectKinds ==
  ASSUME NEW m, NEW wish, NEW o \in ObjectsOf(m, wish) PROVE Deployable(o)
<1> DEFINE v == CreateValues(m, wish)
<1>1. CASE m = "shoot-shoot"
  <2>1. o \in CreateShootRights(v) \union GetShootCRDs(v)
    BY <1>1 DEF ObjectsOf, ShootObjects
  <2> QED
    BY <2>1, RightsKinds, CRDKind DEF GetShootCRDs
<1>2. CASE m = "shoot-seed"
  <2>1. o \in CreateControlPlane(v) \union CreatePrometheusRule(v)
                \union {CreatePodDisruptionBudget(v), CreateDashboardsConfigMap(v), CreateServiceMonitor(v)}
    BY <1>2 DEF ObjectsOf, SeedObjects
  <2> QED
    BY <2>1, ControlPlaneKinds, OtherKind DEF CreatePrometheusRule, When, Own,
       CreatePodDisruptionBudget, CreateDashboardsConfigMap, CreateServiceMonitor
<1>3. CASE m \notin {"shoot-shoot", "shoot-seed"}
  <2>1. o \in CreateControlPlane(v) \union CreateShootRights(v) \union CreateNetworkPolicy(v)
                \union {KeepObject(crd) : crd \in GetShootCRDs(v)}
    BY <1>3 DEF ObjectsOf, RuntimeObjects
  <2> QED
    BY <2>1, ControlPlaneKinds, RightsKinds, CRDKind DEF GetShootCRDs
<1> QED
  BY <1>1, <1>2, <1>3

\* Names of the objects of one ManagedResource.
LEMMA ControlPlaneNames ==
  ASSUME NEW v, NEW o \in CreateControlPlane(v) PROVE o.id[2] = v.namespace
<1>1. ASSUME NEW kind, NEW name, NEW label, NEW needs, NEW selects
      PROVE  Object(kind, v.namespace, name, label, needs, selects).id[2] = v.namespace
  BY DEF Object, Named
<1>2. ASSUME o \in {CreateServiceAccount(v), CreateRole(v), CreateRoleBinding(v),
                    CreateService(v), CreateDeployment(v)}
      PROVE  o.id[2] = v.namespace
  BY <1>1, <1>2
     DEF CreateServiceAccount, CreateRole, CreateRoleBinding, CreateService, CreateDeployment, Own
<1>3. ASSUME o \in CreateCACertificatesConfigMap(v) \union CreateVPA(v) PROVE o.id[2] = v.namespace
  BY <1>1, <1>3 DEF CreateCACertificatesConfigMap, CreateVPA, When, Own
<1>4. ASSUME o \in CreateIssuers(v) PROVE o.id[2] = v.namespace
  <2>1. ASSUME NEW name, NEW secrets PROVE CreateIssuer(v, name, secrets).id[2] = v.namespace
    BY <1>1 DEF CreateIssuer
  <2>2. ASSUME o \in CreateIssuerSecrets(v) PROVE o.id[2] = v.namespace
    BY <1>1, <2>2 DEF CreateIssuerSecrets, When
  <2> QED
    BY <1>4, <2>1, <2>2 DEF CreateIssuers
<1> QED
  BY <1>2, <1>3, <1>4 DEF CreateControlPlane

\* Rights are named after their class where they are cluster-scoped.
LEMMA RightsNames ==
  ASSUME NEW v, NEW o \in CreateShootRights(v)
  PROVE  o.id[2] = ShootNamespace(v) \/ (o.id[2] = ClusterScope /\ o.id[3] = ShootClusterRoleName(v))
<1>1. ASSUME NEW kind, NEW ns, NEW name, NEW label, NEW needs, NEW selects
      PROVE  LET id == Object(kind, ns, name, label, needs, selects).id IN id[2] = ns /\ id[3] = name
  BY DEF Object, Named
<1> QED
  BY <1>1 DEF CreateShootRights, CreateShootRole, CreateShootRoleBinding,
     CreateShootClusterRole, CreateShootClusterRoleBinding

\* CRDs are everybody's.
LEMMA CRDNamed ==
  ASSUME NEW n, NEW m PROVE AtHome(m, CRD(n).id) /\ AtHome(m, KeepObject(CRD(n)).id)
BY CRDFields DEF AtHome

\* No ManagedResource uses the names of another one, but those of CRDs.
LEMMA ObjectNames ==
  ASSUME NEW m \in ManagedResources, NEW wish, NEW o \in ObjectsOf(m, wish) PROVE AtHome(m, o.id)
<1> DEFINE v == CreateValues(m, wish)
<1>values. v.shoot = (ClassOf(m) = "shoot") /\ v.class = (IF ClassOf(m) = "shoot" THEN "" ELSE m)
      /\ v.namespace = NamespaceOf(m)
  BY DEF CreateValues
<1> HIDE DEF v
<1>1. CASE m = "shoot-shoot"
  <2>1. o \in CreateShootRights(v) \union GetShootCRDs(v)
    BY <1>1 DEF ObjectsOf, ShootObjects, v
  <2>2. ClassOf(m) = "shoot"
    BY <1>1 DEF ClassOf
  <2>3. ShootNamespace(v) = HomeOf(m) /\ ShootClusterRoleName(v) = RoleOf(m)
    BY <1>values, <1>1, <2>2 DEF ShootNamespace, ShootClusterRoleName, HomeOf, RoleOf
  <2> QED
    BY <1>1, <2>1, <2>3, RightsNames, CRDNamed DEF GetShootCRDs, AtHome
<1>2. CASE m = "shoot-seed"
  <2>1. o \in CreateControlPlane(v) \union CreatePrometheusRule(v)
                \union {CreatePodDisruptionBudget(v), CreateDashboardsConfigMap(v), CreateServiceMonitor(v)}
    BY <1>2 DEF ObjectsOf, SeedObjects, v
  <2>2. HomeOf(m) = v.namespace
    BY <1>values, <1>2 DEF HomeOf
  <2>3. ASSUME o \notin CreateControlPlane(v) PROVE o.id[2] = v.namespace
    BY <2>1, <2>3 DEF CreatePrometheusRule, When, Own, CreatePodDisruptionBudget,
       CreateDashboardsConfigMap, CreateServiceMonitor, Object, Named
  <2> QED
    BY <2>2, <2>3, ControlPlaneNames DEF AtHome
<1>3. CASE m \in {"garden", "seed"}
  <2>1. o \in CreateControlPlane(v) \union CreateShootRights(v) \union CreateNetworkPolicy(v)
                \union {KeepObject(crd) : crd \in GetShootCRDs(v)}
    BY <1>3 DEF ObjectsOf, RuntimeObjects, v
  <2>2. ~v.shoot /\ v.class = m
    BY <1>values, <1>3 DEF ClassOf
  <2>3. HomeOf(m) = v.namespace /\ ShootNamespace(v) = v.namespace
    BY <1>values, <1>3, <2>2 DEF HomeOf, ShootNamespace
  <2>4. ShootClusterRoleName(v) = RoleOf(m)
    BY <1>3, <2>2 DEF ShootClusterRoleName, RoleOf
  <2>5. ASSUME o \in CreateNetworkPolicy(v) PROVE o.id[2] = v.namespace
    BY <2>5 DEF CreateNetworkPolicy, When, Object, Named
  <2> QED
    BY <1>3, <2>1, <2>3, <2>4, <2>5, ControlPlaneNames, RightsNames, CRDNamed DEF GetShootCRDs, AtHome
<1> QED
  BY <1>1, <1>2, <1>3 DEF ManagedResources

-----------------------------------------------------------------------------
(* References                                                               *)

\* The parts an object is made of.
LEMMA ObjectParts ==
  ASSUME NEW kind, NEW ns, NEW name, NEW label, NEW needs, NEW selects
  PROVE  LET o == Object(kind, ns, name, label, needs, selects) IN
           /\ o.id = Named(kind, ns, name) /\ o.match = Labelled(kind, ns, label)
           /\ o.needs = needs /\ o.selects = selects
BY DEF Object

\* What is given: CRDs, credentials and service account of the shoot, and the
\* secrets its provider config refers to.
LEMMA GivenIds ==
  /\ \A n \in CRDNames : Named("CustomResourceDefinition", ClusterScope, n) \in Given
  /\ Named("Secret", "shoot", "generic-token-kubeconfig") \in Given
  /\ Named("Secret", "shoot", "shoot-access") \in Given
  /\ Named("ServiceAccount", "kube-system", "extension-shoot-cert-service") \in Given
  /\ \A s \in OwnIssuerSecrets : Named("Secret", "shoot", s) \in Given
<1>1. ASSUME NEW n \in CRDNames
      PROVE  Named("CustomResourceDefinition", ClusterScope, n) \in Given
  <2>1. KeepObject(CRD(n)) \in ChartObjects
    BY DEF ChartObjects
  <2>2. KeepObject(CRD(n)).id = Named("CustomResourceDefinition", ClusterScope, n)
    BY CRDFields DEF Named
  <2> QED
    BY <2>1, <2>2 DEF Given, Identities
<1>2. ASSUME NEW s \in OwnIssuerSecrets \union {"generic-token-kubeconfig", "shoot-access"}
      PROVE  Named("Secret", "shoot", s) \in Given
  <2>1. Object("Secret", "shoot", s, NoLabel, {}, {}) \in Provided
    BY DEF Provided
  <2> QED
    BY <2>1, ObjectParts DEF Given, Identities
<1>3. Named("ServiceAccount", "kube-system", "extension-shoot-cert-service") \in Given
  <2>1. Object("ServiceAccount", "kube-system", "extension-shoot-cert-service", NoLabel, {}, {}) \in Provided
    BY DEF Provided
  <2> QED
    BY <2>1, ObjectParts DEF Given, Identities
<1> QED
  BY <1>1, <1>2, <1>3

\* The control plane has service account, role, config map, issuer secret and
\* pods; the credentials of a shoot are given.
LEMMA ControlPlaneClosed ==
  ASSUME NEW v, NEW S, CreateControlPlane(v) \subseteq S,
         v.shoot => v.namespace = "shoot",
         v.issuer \in {"key", "auto", "ca"},
         \A own \in v.ownIssuers : own.secrets \subseteq OwnIssuerSecrets,
         NEW o \in CreateControlPlane(v)
  PROVE  Resolved(o, Identities(S), S)
<1>1. ASSUME NEW p \in S PROVE p.id \in Identities(S)
  BY DEF Identities
<1>2. CreateServiceAccount(v).id = Named("ServiceAccount", v.namespace, ChartNameSeed(v))
  BY ObjectParts DEF CreateServiceAccount, Own
<1>3. CreateRole(v).id = Named("Role", v.namespace, LeaderRoleName)
  BY ObjectParts DEF CreateRole, Own
<1>4. /\ CreateDeployment(v).id = Named("Deployment", v.namespace, FullName)
      /\ CreateDeployment(v).match = Labelled("Deployment", v.namespace, ChartNameSeed(v))
      /\ CreateDeployment(v) \in S /\ ~IsCRD(CreateDeployment(v))
  <2>1. /\ CreateDeployment(v).id = Named("Deployment", v.namespace, FullName)
        /\ CreateDeployment(v).match = Labelled("Deployment", v.namespace, ChartNameSeed(v))
    BY ObjectParts DEF CreateDeployment, Own
  <2> QED
    BY <2>1 DEF CreateControlPlane, IsCRD, Named
<1>5. Pods(v) \subseteq {p.match : p \in Others(S)}
  BY <1>4 DEF Pods, Others
<1>6. /\ Named("ServiceAccount", v.namespace, ChartNameSeed(v)) \in Identities(S)
      /\ Named("Role", v.namespace, LeaderRoleName) \in Identities(S)
      /\ Named("Deployment", v.namespace, FullName) \in Identities(S)
  BY <1>1, <1>2, <1>3, <1>4 DEF CreateControlPlane
<1>7. ASSUME o \in {CreateServiceAccount(v), CreateRole(v)} PROVE Resolved(o, Identities(S), S)
  <2>1. o.needs = {} /\ o.selects = {}
    BY <1>7, ObjectParts DEF CreateServiceAccount, CreateRole, Own
  <2> QED
    BY <2>1 DEF Resolved
<1>8. CASE o = CreateRoleBinding(v)
  <2>1. /\ o.selects = {}
        /\ o.needs = {Named("Role", v.namespace, LeaderRoleName),
                      Named("ServiceAccount", v.namespace, ChartNameSeed(v))}
    BY <1>8, ObjectParts DEF CreateRoleBinding, Own
  <2> QED
    BY <1>6, <2>1 DEF Resolved
<1>9. CASE o = CreateService(v)
  <2>1. o.needs = {} /\ o.selects = Pods(v)
    BY <1>9, ObjectParts DEF CreateService, Own
  <2> QED
    BY <1>5, <2>1 DEF Resolved
<1>10. CASE o = CreateDeployment(v)
  <2> DEFINE N == {Named("ServiceAccount", v.namespace, ChartNameSeed(v))} \union VolumeSources(v)
                     \union {Named("CustomResourceDefinition", ClusterScope, n) : n \in SourceCRDs(v)}
  <2>0. o = Object("Deployment", v.namespace, FullName, ChartNameSeed(v), N, {})
    BY <1>10, Zenon DEF CreateDeployment, Own
  <2>1. o.selects = {} /\ o.needs = N
    <3> HIDE DEF N
    <3> QED
      BY <2>0, ObjectParts
  <2>2. SourceCRDs(v) \subseteq CRDNames
    BY DEF SourceCRDs, CRDNames
  <2>3. ASSUME v.caCertificates
        PROVE  Named("ConfigMap", v.namespace, "cert-controller-manager-ca-certificates") \in Identities(S)
    <3>1. Own(v, "ConfigMap", "cert-controller-manager-ca-certificates", {}, {}) \in S
      BY <2>3 DEF CreateControlPlane, CreateCACertificatesConfigMap, When
    <3>2. Own(v, "ConfigMap", "cert-controller-manager-ca-certificates", {}, {}).id
            = Named("ConfigMap", v.namespace, "cert-controller-manager-ca-certificates")
      BY ObjectParts DEF Own
    <3> QED
      BY <1>1, <3>1, <3>2
  <2>4. VolumeSources(v) \subseteq Identities(S) \union Given
    BY <2>3, GivenIds DEF VolumeSources
  <2> QED
    BY <1>6, <2>1, <2>2, <2>4, GivenIds DEF Resolved
<1>11. CASE o \in CreateCACertificatesConfigMap(v) \union CreateIssuerSecrets(v)
  <2>1. o.needs = {} /\ o.selects = {}
    BY <1>11, ObjectParts DEF CreateCACertificatesConfigMap, CreateIssuerSecrets, When, Own
  <2> QED
    BY <2>1 DEF Resolved
<1>12. CASE o \in CreateVPA(v)
  <2>1. o.selects = {} /\ o.needs = {Named("Deployment", v.namespace, FullName)}
    BY <1>12, ObjectParts DEF CreateVPA, When
  <2> QED
    BY <1>6, <2>1 DEF Resolved
<1>13. ASSUME NEW name, NEW secrets, o = CreateIssuer(v, name, secrets),
              \A s \in secrets : Named("Secret", v.namespace, s) \in Identities(S) \union Given
       PROVE  Resolved(o, Identities(S), S)
  <2> DEFINE N == {Named("Secret", v.namespace, s) : s \in secrets}
                     \union {Named("CustomResourceDefinition", ClusterScope, "issuers")}
  <2>0. o = Object("Issuer", v.namespace, name, NoLabel, N, {})
    BY <1>13, Zenon DEF CreateIssuer
  <2>1. o.selects = {} /\ o.needs = N
    <3> HIDE DEF N
    <3> QED
      BY <2>0, ObjectParts
  <2> QED
    BY <1>13, <2>1, GivenIds DEF Resolved, CRDNames
<1>14. ASSUME NEW s \in DefaultIssuerSecrets(v)
       PROVE  Named("Secret", v.namespace, s) \in Identities(S)
  <2>1. s = OwnSecret(v) /\ v.issuer \in {"key", "ca"}
    BY <1>14 DEF DefaultIssuerSecrets
  <2>2. Object("Secret", v.namespace, OwnSecret(v), NoLabel, {}, {}) \in S
    BY <2>1 DEF CreateControlPlane, CreateIssuers, CreateIssuerSecrets, When
  <2> QED
    BY <1>1, <2>1, <2>2, ObjectParts
<1>15. ASSUME NEW own \in v.ownIssuers, v.shoot, NEW s \in own.secrets
       PROVE  Named("Secret", v.namespace, s) \in Given
  BY <1>15, GivenIds
<1>16. CASE o \in CreateIssuers(v)
  <2>1. CASE o \in CreateIssuerSecrets(v)
    BY <2>1, <1>11
  <2>2. CASE o = CreateIssuer(v, v.issuerName, DefaultIssuerSecrets(v))
    BY <2>2, <1>13, <1>14
  <2>3. ASSUME NEW own \in v.ownIssuers, v.shoot, o = CreateIssuer(v, own.name, own.secrets)
        PROVE  Resolved(o, Identities(S), S)
    BY <2>3, <1>13, <1>15
  <2> QED
    BY <1>16, <2>1, <2>2, <2>3 DEF CreateIssuers
<1> QED
  BY <1>7, <1>8, <1>9, <1>10, <1>11, <1>12, <1>16 DEF CreateControlPlane

\* The rights are bound to a service account that is there.
LEMMA RightsClosed ==
  ASSUME NEW v, NEW S, CreateShootRights(v) \subseteq S,
         GetServiceAccount(v) \in Identities(S) \union Given,
         NEW o \in CreateShootRights(v)
  PROVE  Resolved(o, Identities(S), S)
<1>1. ASSUME NEW p \in S PROVE p.id \in Identities(S)
  BY DEF Identities
<1>2. CreateShootRole(v).id = Named("Role", ShootNamespace(v), RoleName)
  BY ObjectParts DEF CreateShootRole
<1>3. CreateShootClusterRole(v).id = Named("ClusterRole", ClusterScope, ShootClusterRoleName(v))
  BY ObjectParts DEF CreateShootClusterRole
<1>4. ASSUME o \in {CreateShootRole(v), CreateShootClusterRole(v)} PROVE Resolved(o, Identities(S), S)
  <2>1. o.needs = {} /\ o.selects = {}
    BY <1>4, ObjectParts DEF CreateShootRole, CreateShootClusterRole
  <2> QED
    BY <2>1 DEF Resolved
<1>5. CASE o = CreateShootRoleBinding(v)
  <2>1. o.selects = {} /\ o.needs = {Named("Role", ShootNamespace(v), RoleName), GetServiceAccount(v)}
    BY <1>5, ObjectParts DEF CreateShootRoleBinding
  <2>2. CreateShootRole(v) \in S
    BY DEF CreateShootRights
  <2> QED
    BY <1>1, <1>2, <2>1, <2>2 DEF Resolved
<1>6. CASE o = CreateShootClusterRoleBinding(v)
  <2>1. /\ o.selects = {}
        /\ o.needs = {Named("ClusterRole", ClusterScope, ShootClusterRoleName(v)), GetServiceAccount(v)}
    BY <1>6, ObjectParts DEF CreateShootClusterRoleBinding
  <2>2. CreateShootClusterRole(v) \in S
    BY DEF CreateShootRights
  <2> QED
    BY <1>1, <1>3, <2>1, <2>2 DEF Resolved
<1> QED
  BY <1>4, <1>5, <1>6 DEF CreateShootRights

\* CRDs refer to nothing.
LEMMA CRDClosed ==
  ASSUME NEW n, NEW ids, NEW S PROVE Resolved(CRD(n), ids, S) /\ Resolved(KeepObject(CRD(n)), ids, S)
BY CRDFields DEF Resolved

\* Every ManagedResource is complete.
LEMMA ObjectsClosed ==
  ASSUME NEW m \in ManagedResources, NEW wish,
         wish.provider \in ProviderConfigs \union {Plain}, NEW o \in ObjectsOf(m, wish)
  PROVE  Resolved(o, Identities(ObjectsOf(m, wish)), ObjectsOf(m, wish))
<1> DEFINE v == CreateValues(m, wish)
           S == ObjectsOf(m, wish)
<1>1. /\ v.shoot = (ClassOf(m) = "shoot") /\ v.class = (IF ClassOf(m) = "shoot" THEN "" ELSE m)
      /\ v.namespace = NamespaceOf(m) /\ v.issuer = IssuerKind(wish.service)
      /\ v.ownIssuers = wish.provider.ownIssuers
  BY DEF CreateValues
<1>2. \A own \in wish.provider.ownIssuers : own.secrets \subseteq OwnIssuerSecrets
  <2>1. CASE wish.provider \in ProviderConfigs
    BY <2>1 DEF OwnIssuerSecrets
  <2>2. CASE wish.provider = Plain
    BY <2>2 DEF Plain
  <2> QED
    BY <2>1, <2>2
<1>3. IssuerKind(wish.service) \in {"key", "auto", "ca"}
  BY DEF IssuerKind
<1> HIDE DEF v
<1>4. CASE m = "shoot-shoot"
  <2>1. S = CreateShootRights(v) \union GetShootCRDs(v) /\ v.shoot
    BY <1>1, <1>4 DEF ObjectsOf, ShootObjects, v, ClassOf
  <2>2. GetServiceAccount(v) \in Given
    BY <2>1, GivenIds DEF GetServiceAccount
  <2> HIDE DEF S
  <2> QED
    BY <2>1, <2>2, RightsClosed, CRDClosed DEF GetShootCRDs, S
<1>5. CASE m = "shoot-seed"
  <2>1. /\ S = CreateControlPlane(v)
                 \union {CreatePodDisruptionBudget(v), CreateDashboardsConfigMap(v), CreateServiceMonitor(v)}
                 \union CreatePrometheusRule(v)
        /\ v.namespace = "shoot"
    BY <1>1, <1>5 DEF ObjectsOf, SeedObjects, v, NamespaceOf
  <2> HIDE DEF S
  <2>2. CASE o \in CreateControlPlane(v)
    BY <1>1, <1>2, <1>3, <2>1, <2>2, ControlPlaneClosed DEF S
  <2>3. CASE o \in CreatePrometheusRule(v) \union {CreateDashboardsConfigMap(v)}
    <3>1. o.needs = {} /\ o.selects = {}
      BY <2>3, ObjectParts DEF CreatePrometheusRule, CreateDashboardsConfigMap, When, Own
    <3> QED
      BY <3>1 DEF Resolved
  <2>4. CASE o = CreatePodDisruptionBudget(v)
    <3>1. o.needs = {} /\ o.selects = {Labelled("Deployment", v.namespace, ChartNameSeed(v))}
      BY <2>4, ObjectParts DEF CreatePodDisruptionBudget, Own, Pods
    <3>2. /\ CreateDeployment(v).id = Named("Deployment", v.namespace, FullName)
          /\ CreateDeployment(v).match = Labelled("Deployment", v.namespace, ChartNameSeed(v))
      BY ObjectParts DEF CreateDeployment, Own
    <3>3. CreateDeployment(v) \in Others(S)
      BY <2>1, <3>2 DEF CreateControlPlane, Others, IsCRD, Named
    <3> QED
      BY <3>1, <3>2, <3>3 DEF Resolved, S
  <2>5. CASE o = CreateServiceMonitor(v)
    <3>1. o.needs = {} /\ o.selects = {Labelled("Service", v.namespace, ChartNameSeed(v))}
      BY <2>5, ObjectParts DEF CreateServiceMonitor, Own
    <3>2. /\ CreateService(v).id = Named("Service", v.namespace, FullName)
          /\ CreateService(v).match = Labelled("Service", v.namespace, ChartNameSeed(v))
      BY ObjectParts DEF CreateService, Own
    <3>3. CreateService(v) \in Others(S)
      BY <2>1, <3>2 DEF CreateControlPlane, Others, IsCRD, Named
    <3> QED
      BY <3>1, <3>2, <3>3 DEF Resolved, S
  <2> QED
    BY <2>1, <2>2, <2>3, <2>4, <2>5 DEF S
<1>6. CASE m \in {"garden", "seed"}
  <2>1. /\ S = CreateControlPlane(v) \union CreateShootRights(v) \union CreateNetworkPolicy(v)
                 \union {KeepObject(crd) : crd \in GetShootCRDs(v)}
        /\ ~v.shoot /\ v.class = m
    BY <1>1, <1>6 DEF ObjectsOf, RuntimeObjects, v, ClassOf
  <2> HIDE DEF S
  <2>2. CASE o \in CreateControlPlane(v)
    BY <1>1, <1>2, <1>3, <2>1, <2>2, ControlPlaneClosed DEF S
  <2>3. CASE o \in CreateShootRights(v)
    <3>1. ChartNameSeed(v) = InstanceNameGardenOrSeed(v)
      BY <1>6, <2>1 DEF ChartNameSeed, InstanceNameGardenOrSeed
    <3>2. CreateServiceAccount(v).id = GetServiceAccount(v)
      BY <2>1, <3>1, ObjectParts DEF CreateServiceAccount, Own, GetServiceAccount
    <3>3. GetServiceAccount(v) \in Identities(S)
      BY <2>1, <3>2 DEF CreateControlPlane, Identities
    <3> QED
      BY <2>1, <2>3, <3>3, RightsClosed DEF S
  <2>4. CASE o \in CreateNetworkPolicy(v)
    <3>1. o.needs = {} /\ o.selects = {}
      BY <2>4, ObjectParts DEF CreateNetworkPolicy, When
    <3> QED
      BY <3>1 DEF Resolved
  <2>5. CASE o \in {KeepObject(crd) : crd \in GetShootCRDs(v)}
    BY <2>5, CRDClosed DEF GetShootCRDs
  <2> QED
    BY <2>1, <2>2, <2>3, <2>4, <2>5 DEF S
<1> QED
  BY <1>4, <1>5, <1>6 DEF ManagedResources

-----------------------------------------------------------------------------
(* The configuration                                                        *)

\* A process starts on a configuration that is well formed and validated.
LEMMA RunValidated ==
  ASSUME NEW i \in Installations, NEW f \in ServiceConfigs, NEW s \in Run(i, {f})
  PROVE  Validated(s)
<1>1. s = SetDefaults(f) /\ ValidateConfiguration(s)
  BY DEF Run, Complete
<1>2. f \in Configuration
  BY ConstantsAssumption
<1>3. f.restrictIssuer \in Option(BOOLEAN)
  BY <1>2 DEF Configuration
<1>4. {Deref(f.restrictIssuer, TRUE)} \in Option(BOOLEAN)
  BY <1>3 DEF Option, Deref
<1>5. SetDefaults(f) \in Configuration
  BY <1>2, <1>4 DEF Configuration, SetDefaults
<1> QED
  BY <1>1, <1>5 DEF Validated

\* What passes the validation of nameservers can be dialled.
LEMMA NameserverDialable ==
  ASSUME NEW s \in Nameservers, ValidateNameserver(s) PROVE Dialable(s)
<1>1. s.brackets \in {"none", "open", "both"} /\ (s.host = "ipv6" /\ s.brackets = "none" => s.port = {})
  BY DEF Nameservers
<1>2. SplitHostPort(s) \/ Balanced(s)
  BY DEF ValidateNameserver
<1>3. s.host \in {"ipv4", "ipv6", "name"}
  BY DEF ValidateNameserver, IsIP
<1>4. s.brackets = "both" \/ s.brackets = "none"
  BY <1>1, <1>2 DEF SplitHostPort, Balanced
<1>5. s.port = {} \/ SplitHostPort(s)
  BY <1>1, <1>2 DEF SplitHostPort, Balanced
<1>6. s.port \subseteq Ports
  BY <1>5 DEF ValidateNameserver
<1> QED
  BY <1>3, <1>4, <1>6 DEF Dialable

-----------------------------------------------------------------------------
(* Initially.                                                               *)

\* At first there is the chart alone.
LEMMA InitIInv == Init => IInv
<1> SUFFICES ASSUME Init PROVE IInv
  OBVIOUS
<1>1. States
  BY ConstantsAssumption DEF Init, States, Absent
<1>2. ConfigInv /\ DataInv /\ LifeInv /\ NamesInv
  BY DEF Init, ConfigInv, DataInv, LifeInv, NamesInv, Absent
<1>3. ObjectsInv
  BY DEF Init, ObjectsInv, Owned
<1>4. ClosedInv
  <2>1. \A m \in ManagedResources : mr[m].data = {} /\ mr[m].status = {}
    BY DEF Init, Absent
  <2> QED
    BY <2>1 DEF ClosedInv, Whole, Others, ObjectsIn
<1> QED
  BY <1>1, <1>2, <1>3, <1>4 DEF IInv

-----------------------------------------------------------------------------
(* gardener-resource-manager                                                *)

Merged(o) == [o EXCEPT !.keep = @ \/ \E p \in objects : p.id = o.id /\ p.keep]

\* An object that is written becomes a kept one of the chart, or stays as it is.
LEMMA MergeKeeps ==
  ASSUME ObjectsInv, NEW o, Deployable(o)
  PROVE  Merged(o).id = o.id /\ (Merged(o) \in ChartObjects \/ (Merged(o) = o /\ ~IsCRD(o) /\ o.keep = FALSE))
<1> DEFINE kept == \E p \in objects : p.id = o.id /\ p.keep
<1>1. Merged(o) = [o EXCEPT !.keep = o.keep \/ kept]
  BY Zenon DEF Merged
<1>2. CASE o \in ChartObjects
  <2>1. o.keep = TRUE /\ IsObject(o)
    BY <1>2, ChartKind
  <2>2. (o.keep \/ kept) = TRUE
    BY <2>1
  <2>3. [o EXCEPT !.keep = TRUE] = o
    BY <2>1 DEF IsObject
  <2> QED
    BY <1>1, <1>2, <2>2, <2>3
<1>3. ASSUME NEW n \in CRDNames, o = CRD(n)
      PROVE  Merged(o).id = o.id /\ Merged(o) \in ChartObjects
  <2>1. KeepObject(o) \in ChartObjects /\ KeepObject(o) \in objects
    BY <1>3, CRDKind DEF ObjectsInv
  <2>2. KeepObject(o).id = o.id /\ KeepObject(o).keep = TRUE
    BY <1>3 DEF KeepObject, CRD, Object
  <2>3. kept
    BY <2>1, <2>2
  <2>4. Merged(o) = KeepObject(o)
    BY <1>1, <2>3, Zenon DEF KeepObject
  <2> QED
    BY <2>1, <2>2, <2>4
<1>4. CASE ~IsCRD(o) /\ o.keep = FALSE
  <2>1. ASSUME NEW p \in objects, p.id = o.id PROVE p.keep = FALSE
    <3>1. p \notin ChartObjects
      BY <1>4, <2>1, ChartKind DEF IsCRD
    <3> QED
      BY <3>1 DEF ObjectsInv, Owned
  <2>2. (o.keep \/ kept) = FALSE
    BY <1>4, <2>1
  <2>3. [o EXCEPT !.keep = FALSE] = o
    BY <1>4 DEF IsObject, Deployable
  <2> QED
    BY <1>1, <1>4, <2>2, <2>3
<1> QED
  BY <1>2, <1>3, <1>4 DEF Deployable

\* Whatever is applied, the objects of the chart stay.
LEMMA ChartStays ==
  ASSUME ObjectsInv, NEW m, NEW data, \A o \in data : Deployable(o)
  PROVE  ChartObjects \subseteq Apply(m, data)
<1> SUFFICES ASSUME NEW c \in ChartObjects PROVE c \in Apply(m, data)
  OBVIOUS
<1>1. c \in objects /\ c.keep = TRUE /\ IsCRD(c)
  BY ChartKind DEF ObjectsInv
<1>2. Apply(m, data) = {o \in objects : o.id \notin Identities(data) /\ (o.keep \/ o.id \notin mr[m].status)}
                        \union {Merged(o) : o \in data}
  BY DEF Apply, Merged
<1>3. CASE c.id \notin Identities(data)
  BY <1>1, <1>2, <1>3
<1>4. CASE c.id \in Identities(data)
  <2>1. PICK p \in data : p.id = c.id
    BY <1>4 DEF Identities
  <2>2. Merged(p) \in ChartObjects /\ Merged(p).id = c.id
    BY <2>1, <1>1, MergeKeeps DEF IsCRD
  <2>3. Merged(p) = c
    <3>1. PICK n \in CRDNames, k \in CRDNames : c = KeepObject(CRD(n)) /\ Merged(p) = KeepObject(CRD(k))
      BY <2>2 DEF ChartObjects
    <3>2. c.id[3] = n /\ Merged(p).id[3] = k
      BY <3>1, CRDFields
    <3> QED
      BY <2>2, <3>1, <3>2
  <2> QED
    BY <1>2, <2>1, <2>3
<1> QED
  BY <1>3, <1>4

\* What is there afterwards was written, or was there and is not m's to remove.
LEMMA ApplyOrigin ==
  ASSUME ObjectsInv, NEW m, NEW data, \A o \in data : Deployable(o), NEW x \in Apply(m, data)
  PROVE  \/ x \in ChartObjects
         \/ x \in objects /\ x.id \notin mr[m].status
         \/ x \in data /\ ~IsCRD(x) /\ x.keep = FALSE
<1>1. Apply(m, data) = {o \in objects : o.id \notin Identities(data) /\ (o.keep \/ o.id \notin mr[m].status)}
                        \union {Merged(o) : o \in data}
  BY DEF Apply, Merged
<1>2. CASE x \in objects /\ (x.keep \/ x.id \notin mr[m].status)
  BY <1>2 DEF ObjectsInv, Owned
<1>3. ASSUME NEW o \in data, x = Merged(o)
      PROVE  x \in ChartObjects \/ (x \in data /\ ~IsCRD(x) /\ x.keep = FALSE)
  BY <1>3, MergeKeeps
<1> QED
  BY <1>1, <1>2, <1>3

\* Names of different ManagedResources are different, but those of CRDs.
LEMMA Apart ==
  ASSUME NEW m \in ManagedResources, NEW k \in ManagedResources, NEW id,
         AtHome(m, id), AtHome(k, id), id[1] # "CustomResourceDefinition"
  PROVE  m = k
<1>1. /\ id[2] = HomeOf(m) \/ (m # "shoot-seed" /\ id[2] = ClusterScope /\ id[3] = RoleOf(m))
      /\ id[2] = HomeOf(k) \/ (k # "shoot-seed" /\ id[2] = ClusterScope /\ id[3] = RoleOf(k))
  BY DEF AtHome
<1>2. \A a, b \in ManagedResources :
        HomeOf(a) # ClusterScope /\ (HomeOf(a) = HomeOf(b) => a = b)
  BY DEF HomeOf, NamespaceOf, ClusterScope, ManagedResources
<1>3. \A a, b \in ManagedResources \ {"shoot-seed"} : RoleOf(a) = RoleOf(b) => a = b
  BY DEF RoleOf, ManagedResources
<1> QED
  BY <1>1, <1>2, <1>3

\* What is written is there, and nothing else under its names but CRDs.
LEMMA ApplyAtHome ==
  ASSUME ObjectsInv, NEW m, NEW data, \A o \in data : Deployable(o)
  PROVE  /\ Others({o \in Apply(m, data) : o.id \in Identities(data)}) = Others(data)
         /\ Identities(data) \subseteq Identities(Apply(m, data))
<1> DEFINE S == Apply(m, data)
<1>1. S = {o \in objects : o.id \notin Identities(data) /\ (o.keep \/ o.id \notin mr[m].status)}
            \union {Merged(o) : o \in data}
  BY DEF Apply, Merged
<1> HIDE DEF S
<1>2. ASSUME NEW o \in data PROVE Merged(o) \in S /\ Merged(o).id = o.id /\ o.id \in Identities(data)
  BY <1>1, MergeKeeps DEF Identities
<1>3. ASSUME NEW o \in data, ~IsCRD(o) PROVE Merged(o) = o
  <2>1. Merged(o).id = o.id /\ (Merged(o) \in ChartObjects \/ Merged(o) = o)
    BY MergeKeeps
  <2>2. CASE Merged(o) \in ChartObjects
    BY <1>3, <2>1, <2>2, ChartKind DEF IsCRD
  <2> QED
    BY <2>1, <2>2
<1>4. ASSUME NEW x \in S, x.id \in Identities(data), ~IsCRD(x) PROVE x \in data
  <2>1. PICK o \in data : x = Merged(o)
    BY <1>1, <1>4
  <2>2. ~IsCRD(o)
    BY <1>2, <1>4, <2>1 DEF IsCRD
  <2> QED
    BY <1>3, <2>1, <2>2
<1>5. Others({o \in S : o.id \in Identities(data)}) = Others(data)
  BY <1>2, <1>3, <1>4 DEF Others
<1>6. Identities(data) \subseteq Identities(S)
  BY <1>2 DEF Identities
<1> QED
  BY <1>5, <1>6 DEF S

\* Nothing of another ManagedResource is taken or changed.
LEMMA ApplyElsewhere ==
  ASSUME ObjectsInv, NamesInv, NEW m \in ManagedResources, NEW k \in ManagedResources, m # k,
         NEW data, \A o \in data : Deployable(o) /\ AtHome(m, o.id),
         mr[k].status \subseteq Identities(objects)
  PROVE  /\ Others({o \in Apply(m, data) : o.id \in mr[k].status}) = Others(ObjectsIn(k))
         /\ mr[k].status \subseteq Identities(Apply(m, data))
<1> DEFINE S == Apply(m, data)
<1>1. S = {o \in objects : o.id \notin Identities(data) /\ (o.keep \/ o.id \notin mr[m].status)}
            \union {Merged(o) : o \in data}
  BY DEF Apply, Merged
<1>2. ASSUME NEW x \in S, x.id \in mr[k].status, ~IsCRD(x) PROVE x \in objects
  <2>1. CASE x \in data
    BY <1>2, <2>1, Apart DEF NamesInv, IsCRD
  <2>2. x \notin ChartObjects
    BY <1>2, ChartKind
  <2> QED
    BY <2>1, <2>2, ApplyOrigin
<1> HIDE DEF S
<1>3. ASSUME NEW x \in objects, x.id \in mr[k].status, ~IsCRD(x) PROVE x \in S
  <2>1. x.id \notin Identities(data)
    BY <1>3, Apart DEF NamesInv, IsCRD, Identities
  <2>2. x.id \notin mr[m].status
    BY <1>3, Apart DEF NamesInv, IsCRD
  <2> QED
    BY <1>1, <2>1, <2>2
<1>4. Others({o \in S : o.id \in mr[k].status}) = Others(ObjectsIn(k))
  BY <1>2, <1>3 DEF Others, ObjectsIn
<1>5. ASSUME NEW id \in mr[k].status PROVE id \in Identities(S)
  <2>1. PICK x \in objects : x.id = id
    BY DEF Identities
  <2>2. CASE IsCRD(x)
    <3>1. x \in ChartObjects
      BY <2>2 DEF ObjectsInv, Owned
    <3>2. ChartObjects \subseteq S
      BY ChartStays DEF S
    <3> QED
      BY <2>1, <3>1, <3>2 DEF Identities
  <2>3. CASE ~IsCRD(x)
    BY <1>3, <2>1, <2>3 DEF Identities
  <2> QED
    BY <2>2, <2>3
<1> QED
  BY <1>4, <1>5 DEF S

-----------------------------------------------------------------------------
(* Every step preserves the parts of the invariant.                         *)

Deployed(m, c, wish) ==
  /\ mr'[m].st = IF ClassOf(m) = c THEN "present" ELSE mr[m].st
  /\ mr'[m].wish = IF ClassOf(m) = c THEN {wish} ELSE mr[m].wish
  /\ mr'[m].data = IF ClassOf(m) = c THEN ObjectsOf(m, wish) ELSE mr[m].data
  /\ mr'[m].status = mr[m].status

\* What a reconciliation makes of the ManagedResources.
LEMMA DeployEffect ==
  ASSUME States, NEW i, NEW c, Deploy(i, c)
  PROVE  \E s \in serving[i] : \A m \in ManagedResources :
           Deployed(m, c, [service |-> s, provider |-> ext[c].config])
<1>1. PICK s \in serving[i] :
        LET wish == [service |-> s, provider |-> ext[c].config]
        IN  mr' = [m \in ManagedResources |->
                     IF ClassOf(m) = c
                     THEN [mr[m] EXCEPT !.st = "present", !.wish = {wish}, !.data = ObjectsOf(m, wish)]
                     ELSE mr[m]]
  BY DEF Deploy
<1> DEFINE wish == [service |-> s, provider |-> ext[c].config]
<1>2. ASSUME NEW m \in ManagedResources PROVE Deployed(m, c, wish)
  <2>1. mr'[m] = IF ClassOf(m) = c
                 THEN [mr[m] EXCEPT !.st = "present", !.wish = {wish}, !.data = ObjectsOf(m, wish)]
                 ELSE mr[m]
    BY <1>1
  <2>2. ASSUME NEW r, r = [st |-> r.st, wish |-> r.wish, data |-> r.data, status |-> r.status],
               NEW p, NEW w, NEW d, NEW q, q = [r EXCEPT !.st = p, !.wish = w, !.data = d]
        PROVE  q.st = p /\ q.wish = w /\ q.data = d /\ q.status = r.status
    BY <2>2
  <2>3. mr[m] = [st |-> mr[m].st, wish |-> mr[m].wish, data |-> mr[m].data, status |-> mr[m].status]
    BY Zenon DEF States
  <2>4. CASE ClassOf(m) = c
    <3>1. mr'[m] = [mr[m] EXCEPT !.st = "present", !.wish = {wish}, !.data = ObjectsOf(m, wish)]
      BY <2>1, <2>4
    <3> HIDE DEF wish
    <3>2. /\ mr'[m].st = "present" /\ mr'[m].wish = {wish}
          /\ mr'[m].data = ObjectsOf(m, wish) /\ mr'[m].status = mr[m].status
      BY <2>2, <2>3, <3>1, Zenon
    <3> QED
      BY <2>4, <3>2 DEF Deployed
  <2>5. CASE ClassOf(m) # c
    BY <2>1, <2>5 DEF Deployed
  <2> QED
    BY <2>4, <2>5
<1> QED
  BY <1>2

\* The types of what the proofs use.
LEMMA StepStates == States /\ [Next]_vars => States'
<1> SUFFICES ASSUME States, [Next]_vars PROVE States'
  OBVIOUS
<1>1. ASSUME NEW i \in Installations, Start(i) PROVE States'
  <2>1. Run(i, {file[i]}) \subseteq Configuration
    BY RunValidated DEF States, Validated
  <2> QED
    BY <1>1, <2>1 DEF Start, States, clusterVars
<1>2. ASSUME NEW i \in Installations, NEW c \in Classes, Deploy(i, c) PROVE States'
  <2>1. UNCHANGED <<file, serving, ext>>
    BY <1>2 DEF Deploy
  <2>2. PICK s \in serving[i] :
          LET wish == [service |-> s, provider |-> ext[c].config]
          IN  mr' = [m \in ManagedResources |->
                       IF ClassOf(m) = c
                       THEN [mr[m] EXCEPT !.st = "present", !.wish = {wish}, !.data = ObjectsOf(m, wish)]
                       ELSE mr[m]]
    BY <1>2 DEF Deploy
  <2> QED
    BY <2>1, <2>2 DEF States
<1>3. ASSUME NEW i \in Installations, NEW c \in Classes, Delete(i, c) PROVE States'
  <2>1. UNCHANGED <<file, serving, ext>>
    BY <1>3 DEF Delete
  <2>2. mr' = [m \in ManagedResources |->
                 IF ClassOf(m) = c /\ mr[m].st = "present" THEN [mr[m] EXCEPT !.st = "deleting"]
                 ELSE mr[m]]
    BY <1>3 DEF Delete
  <2> QED
    BY <2>1, <2>2 DEF States
<1>4. ASSUME NEW i \in Installations, NEW c \in Classes, Release(i, c) PROVE States'
  BY <1>4 DEF Release, States, clusterVars, Change, ConfigsOf, Absent
<1>5. ASSUME HealthCheckRuns PROVE States'
  BY <1>5 DEF HealthCheckRuns, States, clusterVars, Change, ConfigsOf, Absent
<1>6. ASSUME NEW i \in Installations, Stop(i) PROVE States'
  BY <1>6 DEF Stop, States, clusterVars, Change, ConfigsOf, Absent
<1>7. ASSUME CheckError PROVE States'
  BY <1>7 DEF CheckError, States, clusterVars, Change, ConfigsOf, Absent
<1>8. ASSUME NEW i \in Installations, EditFile(i) PROVE States'
  BY <1>8 DEF EditFile, States, clusterVars, Change, ConfigsOf, Absent
<1>9. ASSUME NEW c \in Classes, CreateExtension(c) PROVE States'
  BY <1>9 DEF CreateExtension, States, clusterVars, Change, ConfigsOf, Absent
<1>10. ASSUME EditExtension PROVE States'
  BY <1>10 DEF EditExtension, States, clusterVars, Change, ConfigsOf, Absent
<1>11. ASSUME NEW c \in Classes, DeleteExtension(c) PROVE States'
  BY <1>11 DEF DeleteExtension, States, clusterVars, Change, ConfigsOf, Absent
<1>12. ASSUME NEW m \in ManagedResources, GRMApply(m) PROVE States'
  BY <1>12 DEF GRMApply, States, clusterVars, Change, ConfigsOf, Absent
<1>13. ASSUME NEW m \in ManagedResources, GRMRemove(m) PROVE States'
  BY <1>13 DEF GRMRemove, States, clusterVars, Change, ConfigsOf, Absent
<1>14. ASSUME NEW n \in DOMAIN issuers, IssuerReady(n) PROVE States'
  BY <1>14 DEF IssuerReady, States, clusterVars, Change, ConfigsOf, Absent
<1>15. ASSUME NEW n \in DOMAIN issuers, IssuerFails(n) PROVE States'
  BY <1>15 DEF IssuerFails, States, clusterVars, Change, ConfigsOf, Absent
<1>16. CASE UNCHANGED vars
  BY <1>16 DEF vars, States, clusterVars, Change, ConfigsOf, Absent
<1> QED
  BY <1>1, <1>2, <1>3, <1>4, <1>5, <1>6, <1>7, <1>8, <1>9, <1>10, <1>11, <1>12, <1>13, <1>14, <1>15, <1>16
     DEF Next, Processes, GRM, Environment

\* A ManagedResource is written from what a process was started with.
LEMMA StepConfig == States /\ ConfigInv /\ [Next]_vars => ConfigInv'
<1> SUFFICES ASSUME States, ConfigInv, [Next]_vars PROVE ConfigInv'
  OBVIOUS
<1>1. ASSUME NEW i \in Installations, Start(i) PROVE ConfigInv'
  <2>1. \A t \in Run(i, {file[i]}) : Validated(t)
    BY RunValidated DEF States
  <2> QED
    BY <1>1, <2>1 DEF Start, States, ConfigInv, clusterVars
<1>2. ASSUME NEW i \in Installations, NEW c \in Classes, Deploy(i, c) PROVE ConfigInv'
  <2>1. PICK s \in serving[i] : \A m \in ManagedResources : Deployed(m, c, [service |-> s, provider |-> ext[c].config])
    BY <1>2, DeployEffect
  <2>2. Validated(s) /\ serving' = serving
    BY <1>2 DEF ConfigInv, Deploy
  <2>3. ASSUME NEW m \in ManagedResources, NEW w \in mr'[m].wish PROVE Validated(w.service)
    <3>1. CASE ClassOf(m) = c
      <4>1. mr'[m].wish = {[service |-> s, provider |-> ext[c].config]}
        BY <2>1, <3>1 DEF Deployed
      <4>2. w.service = s
        BY <2>3, <4>1
      <4> QED
        BY <2>2, <4>2
    <3>2. CASE ClassOf(m) # c
      <4>1. mr'[m].wish = mr[m].wish
        BY <2>1, <3>2 DEF Deployed
      <4> QED
        BY <2>3, <4>1 DEF ConfigInv
    <3> QED
      BY <3>1, <3>2
  <2> QED
    BY <2>2, <2>3 DEF ConfigInv
<1>3. ASSUME NEW i \in Installations, NEW c \in Classes, Delete(i, c) PROVE ConfigInv'
  <2>1. \A m \in ManagedResources : mr'[m].wish = mr[m].wish
    BY <1>3 DEF Delete, States
  <2> QED
    BY <1>3, <2>1 DEF Delete, ConfigInv
<1>4. ASSUME NEW i \in Installations, NEW c \in Classes, Release(i, c) PROVE ConfigInv'
  BY <1>4 DEF Release, States, ConfigInv, clusterVars, Change, Absent
<1>5. ASSUME HealthCheckRuns PROVE ConfigInv'
  BY <1>5 DEF HealthCheckRuns, States, ConfigInv, clusterVars, Change, Absent
<1>6. ASSUME NEW i \in Installations, Stop(i) PROVE ConfigInv'
  BY <1>6 DEF Stop, States, ConfigInv, clusterVars, Change, Absent
<1>7. ASSUME CheckError PROVE ConfigInv'
  BY <1>7 DEF CheckError, States, ConfigInv, clusterVars, Change, Absent
<1>8. ASSUME NEW i \in Installations, EditFile(i) PROVE ConfigInv'
  BY <1>8 DEF EditFile, States, ConfigInv, clusterVars, Change, Absent
<1>9. ASSUME NEW c \in Classes, CreateExtension(c) PROVE ConfigInv'
  BY <1>9 DEF CreateExtension, States, ConfigInv, clusterVars, Change, Absent
<1>10. ASSUME EditExtension PROVE ConfigInv'
  BY <1>10 DEF EditExtension, States, ConfigInv, clusterVars, Change, Absent
<1>11. ASSUME NEW c \in Classes, DeleteExtension(c) PROVE ConfigInv'
  BY <1>11 DEF DeleteExtension, States, ConfigInv, clusterVars, Change, Absent
<1>12. ASSUME NEW m \in ManagedResources, GRMApply(m) PROVE ConfigInv'
  BY <1>12 DEF GRMApply, States, ConfigInv, clusterVars, Change, Absent
<1>13. ASSUME NEW m \in ManagedResources, GRMRemove(m) PROVE ConfigInv'
  BY <1>13 DEF GRMRemove, States, ConfigInv, clusterVars, Change, Absent
<1>14. ASSUME NEW n \in DOMAIN issuers, IssuerReady(n) PROVE ConfigInv'
  BY <1>14 DEF IssuerReady, States, ConfigInv, clusterVars, Change, Absent
<1>15. ASSUME NEW n \in DOMAIN issuers, IssuerFails(n) PROVE ConfigInv'
  BY <1>15 DEF IssuerFails, States, ConfigInv, clusterVars, Change, Absent
<1>16. CASE UNCHANGED vars
  BY <1>16 DEF vars, States, ConfigInv, clusterVars, Change, Absent
<1> QED
  BY <1>1, <1>2, <1>3, <1>4, <1>5, <1>6, <1>7, <1>8, <1>9, <1>10, <1>11, <1>12, <1>13, <1>14, <1>15, <1>16
     DEF Next, Processes, GRM, Environment

\* A ManagedResource contains what the deployer makes.
LEMMA StepData == States /\ DataInv /\ [Next]_vars => DataInv'
<1> SUFFICES ASSUME States, DataInv, [Next]_vars PROVE DataInv'
  OBVIOUS
<1>1. ASSUME NEW i \in Installations, Start(i) PROVE DataInv'
  BY <1>1 DEF Start, States, DataInv, clusterVars, Change, Absent
<1>2. ASSUME NEW i \in Installations, NEW c \in Classes, Deploy(i, c) PROVE DataInv'
  <2>1. PICK s \in serving[i] : \A m \in ManagedResources : Deployed(m, c, [service |-> s, provider |-> ext[c].config])
    BY <1>2, DeployEffect
  <2> DEFINE wish == [service |-> s, provider |-> ext[c].config]
  <2>2. ASSUME NEW m \in ManagedResources
        PROVE  mr'[m].data = IF ClassOf(m) = c THEN ObjectsOf(m, wish) ELSE mr[m].data
    <3>1. Deployed(m, c, wish)
      BY <2>1
    <3> HIDE DEF wish
    <3> QED
      BY <3>1 DEF Deployed
  <2> QED
    BY <2>2, ObjectKinds DEF DataInv
<1>3. ASSUME NEW i \in Installations, NEW c \in Classes, Delete(i, c) PROVE DataInv'
  <2>1. \A m \in ManagedResources : mr'[m].data = mr[m].data
    BY <1>3 DEF Delete, States
  <2> QED
    BY <2>1 DEF DataInv
<1>4. ASSUME NEW i \in Installations, NEW c \in Classes, Release(i, c) PROVE DataInv'
  BY <1>4 DEF Release, States, DataInv, clusterVars, Change, Absent
<1>5. ASSUME HealthCheckRuns PROVE DataInv'
  BY <1>5 DEF HealthCheckRuns, States, DataInv, clusterVars, Change, Absent
<1>6. ASSUME NEW i \in Installations, Stop(i) PROVE DataInv'
  BY <1>6 DEF Stop, States, DataInv, clusterVars, Change, Absent
<1>7. ASSUME CheckError PROVE DataInv'
  BY <1>7 DEF CheckError, States, DataInv, clusterVars, Change, Absent
<1>8. ASSUME NEW i \in Installations, EditFile(i) PROVE DataInv'
  BY <1>8 DEF EditFile, States, DataInv, clusterVars, Change, Absent
<1>9. ASSUME NEW c \in Classes, CreateExtension(c) PROVE DataInv'
  BY <1>9 DEF CreateExtension, States, DataInv, clusterVars, Change, Absent
<1>10. ASSUME EditExtension PROVE DataInv'
  BY <1>10 DEF EditExtension, States, DataInv, clusterVars, Change, Absent
<1>11. ASSUME NEW c \in Classes, DeleteExtension(c) PROVE DataInv'
  BY <1>11 DEF DeleteExtension, States, DataInv, clusterVars, Change, Absent
<1>12. ASSUME NEW m \in ManagedResources, GRMApply(m) PROVE DataInv'
  BY <1>12 DEF GRMApply, States, DataInv, clusterVars, Change, Absent
<1>13. ASSUME NEW m \in ManagedResources, GRMRemove(m) PROVE DataInv'
  BY <1>13 DEF GRMRemove, States, DataInv, clusterVars, Change, Absent
<1>14. ASSUME NEW n \in DOMAIN issuers, IssuerReady(n) PROVE DataInv'
  BY <1>14 DEF IssuerReady, States, DataInv, clusterVars, Change, Absent
<1>15. ASSUME NEW n \in DOMAIN issuers, IssuerFails(n) PROVE DataInv'
  BY <1>15 DEF IssuerFails, States, DataInv, clusterVars, Change, Absent
<1>16. CASE UNCHANGED vars
  BY <1>16 DEF vars, States, DataInv, clusterVars, Change, Absent
<1> QED
  BY <1>1, <1>2, <1>3, <1>4, <1>5, <1>6, <1>7, <1>8, <1>9, <1>10, <1>11, <1>12, <1>13, <1>14, <1>15, <1>16
     DEF Next, Processes, GRM, Environment

\* Names stay apart.
LEMMA StepNames == States /\ NamesInv /\ [Next]_vars => NamesInv'
<1> SUFFICES ASSUME States, NamesInv, [Next]_vars PROVE NamesInv'
  OBVIOUS
<1>1. ASSUME NEW i \in Installations, Start(i) PROVE NamesInv'
  BY <1>1 DEF Start, NamesInv, clusterVars, Change
<1>2. ASSUME NEW i \in Installations, NEW c \in Classes, Deploy(i, c) PROVE NamesInv'
  <2>1. PICK s \in serving[i] : \A m \in ManagedResources : Deployed(m, c, [service |-> s, provider |-> ext[c].config])
    BY <1>2, DeployEffect
  <2> DEFINE wish == [service |-> s, provider |-> ext[c].config]
  <2>2. ASSUME NEW m \in ManagedResources
        PROVE  /\ mr'[m].data = IF ClassOf(m) = c THEN ObjectsOf(m, wish) ELSE mr[m].data
               /\ mr'[m].status = mr[m].status
    <3>1. Deployed(m, c, wish)
      BY <2>1
    <3> HIDE DEF wish
    <3> QED
      BY <3>1 DEF Deployed
  <2> QED
    BY <2>2, ObjectNames DEF NamesInv
<1>3. ASSUME NEW i \in Installations, NEW c \in Classes, Delete(i, c) PROVE NamesInv'
  <2>1. \A m \in ManagedResources : mr'[m].data = mr[m].data /\ mr'[m].status = mr[m].status
    BY <1>3 DEF Delete, States
  <2> QED
    BY <2>1 DEF NamesInv
<1>4. ASSUME NEW i \in Installations, NEW c \in Classes, Release(i, c) PROVE NamesInv'
  BY <1>4 DEF Release, NamesInv, clusterVars, Change
<1>5. ASSUME HealthCheckRuns PROVE NamesInv'
  BY <1>5 DEF HealthCheckRuns, NamesInv, clusterVars, Change
<1>6. ASSUME NEW i \in Installations, Stop(i) PROVE NamesInv'
  BY <1>6 DEF Stop, NamesInv, clusterVars, Change
<1>7. ASSUME CheckError PROVE NamesInv'
  BY <1>7 DEF CheckError, NamesInv, clusterVars, Change
<1>8. ASSUME NEW i \in Installations, EditFile(i) PROVE NamesInv'
  BY <1>8 DEF EditFile, NamesInv, clusterVars, Change
<1>9. ASSUME NEW c \in Classes, CreateExtension(c) PROVE NamesInv'
  BY <1>9 DEF CreateExtension, NamesInv, clusterVars, Change
<1>10. ASSUME EditExtension PROVE NamesInv'
  BY <1>10 DEF EditExtension, NamesInv, clusterVars, Change
<1>11. ASSUME NEW c \in Classes, DeleteExtension(c) PROVE NamesInv'
  BY <1>11 DEF DeleteExtension, NamesInv, clusterVars, Change
<1>12. ASSUME NEW m \in ManagedResources, GRMApply(m) PROVE NamesInv'
  <2>1. \A k \in ManagedResources :
          mr'[k].data = mr[k].data /\ (mr'[k].status = IF k = m THEN Identities(mr[m].data) ELSE mr[k].status)
    BY <1>12 DEF GRMApply, States
  <2>2. \A id \in Identities(mr[m].data) : AtHome(m, id)
    BY DEF NamesInv, Identities
  <2> QED
    BY <2>1, <2>2 DEF NamesInv
<1>13. ASSUME NEW m \in ManagedResources, GRMRemove(m) PROVE NamesInv'
  <2>1. \A k \in ManagedResources :
          (k = m => mr'[k].data = {} /\ mr'[k].status = {}) /\ (k # m => mr'[k] = mr[k])
    BY <1>13 DEF GRMRemove, Absent, States
  <2> QED
    BY <2>1 DEF NamesInv
<1>14. ASSUME NEW n \in DOMAIN issuers, IssuerReady(n) PROVE NamesInv'
  BY <1>14 DEF IssuerReady, NamesInv, clusterVars, Change
<1>15. ASSUME NEW n \in DOMAIN issuers, IssuerFails(n) PROVE NamesInv'
  BY <1>15 DEF IssuerFails, NamesInv, clusterVars, Change
<1>16. CASE UNCHANGED vars
  BY <1>16 DEF vars, NamesInv, clusterVars, Change
<1> QED
  BY <1>1, <1>2, <1>3, <1>4, <1>5, <1>6, <1>7, <1>8, <1>9, <1>10, <1>11, <1>12, <1>13, <1>14, <1>15, <1>16
     DEF Next, Processes, GRM, Environment

\* The chart's objects stay, and others have an owner.
LEMMA StepObjects == States /\ DataInv /\ ObjectsInv /\ [Next]_vars => ObjectsInv'
<1> SUFFICES ASSUME States, DataInv, ObjectsInv, [Next]_vars PROVE ObjectsInv'
  OBVIOUS
<1>1. ASSUME NEW i \in Installations, Start(i) PROVE ObjectsInv'
  BY <1>1 DEF Start, ObjectsInv, Owned, clusterVars, Change
<1>2. ASSUME NEW i \in Installations, NEW c \in Classes, Deploy(i, c) PROVE ObjectsInv'
  <2>1. objects' = objects
    BY <1>2 DEF Deploy
  <2>2. PICK s \in serving[i] : \A m \in ManagedResources : Deployed(m, c, [service |-> s, provider |-> ext[c].config])
    BY <1>2, DeployEffect
  <2>3. \A m \in ManagedResources : mr'[m].status = mr[m].status
    BY <2>2 DEF Deployed
  <2> QED
    BY <2>1, <2>3 DEF ObjectsInv, Owned
<1>3. ASSUME NEW i \in Installations, NEW c \in Classes, Delete(i, c) PROVE ObjectsInv'
  <2>1. objects' = objects
    BY <1>3 DEF Delete
  <2>2. \A m \in ManagedResources : mr'[m].status = mr[m].status
    BY <1>3 DEF Delete, States
  <2> QED
    BY <2>1, <2>2 DEF ObjectsInv, Owned
<1>4. ASSUME NEW i \in Installations, NEW c \in Classes, Release(i, c) PROVE ObjectsInv'
  BY <1>4 DEF Release, ObjectsInv, Owned, clusterVars, Change
<1>5. ASSUME HealthCheckRuns PROVE ObjectsInv'
  BY <1>5 DEF HealthCheckRuns, ObjectsInv, Owned, clusterVars, Change
<1>6. ASSUME NEW i \in Installations, Stop(i) PROVE ObjectsInv'
  BY <1>6 DEF Stop, ObjectsInv, Owned, clusterVars, Change
<1>7. ASSUME CheckError PROVE ObjectsInv'
  BY <1>7 DEF CheckError, ObjectsInv, Owned, clusterVars, Change
<1>8. ASSUME NEW i \in Installations, EditFile(i) PROVE ObjectsInv'
  BY <1>8 DEF EditFile, ObjectsInv, Owned, clusterVars, Change
<1>9. ASSUME NEW c \in Classes, CreateExtension(c) PROVE ObjectsInv'
  BY <1>9 DEF CreateExtension, ObjectsInv, Owned, clusterVars, Change
<1>10. ASSUME EditExtension PROVE ObjectsInv'
  BY <1>10 DEF EditExtension, ObjectsInv, Owned, clusterVars, Change
<1>11. ASSUME NEW c \in Classes, DeleteExtension(c) PROVE ObjectsInv'
  BY <1>11 DEF DeleteExtension, ObjectsInv, Owned, clusterVars, Change
<1>12. ASSUME NEW m \in ManagedResources, GRMApply(m) PROVE ObjectsInv'
  <2>1. objects' = Apply(m, mr[m].data)
    BY <1>12 DEF GRMApply
  <2>2. \A o \in mr[m].data : Deployable(o)
    BY DEF DataInv
  <2>3. ChartObjects \subseteq objects'
    BY <2>1, <2>2, ChartStays
  <2>4. \A k \in ManagedResources \ {m} : mr'[k].status = mr[k].status
    BY <1>12 DEF GRMApply, States
  <2>5. mr'[m].status = Identities(mr[m].data)
    BY <1>12 DEF GRMApply, States
  <2>6. ASSUME NEW x \in objects' PROVE Owned(x)'
    <3>1. CASE x \in ChartObjects
      BY <3>1 DEF Owned
    <3>2. CASE x \in objects /\ x.id \notin mr[m].status
      BY <2>4, <3>2 DEF ObjectsInv, Owned
    <3>3. CASE x \in mr[m].data /\ ~IsCRD(x) /\ x.keep = FALSE
      <4>1. x.id \in mr'[m].status /\ IsObject(x)
        BY <2>5, <3>3 DEF Identities, DataInv, Deployable
      <4> QED
        BY <3>3, <4>1 DEF Owned
    <3> QED
      BY <2>1, <2>2, <3>1, <3>2, <3>3, ApplyOrigin
  <2> QED
    BY <2>3, <2>6 DEF ObjectsInv
<1>13. ASSUME NEW m \in ManagedResources, GRMRemove(m) PROVE ObjectsInv'
  <2>1. objects' = Apply(m, {})
    BY <1>13 DEF GRMRemove
  <2>2. \A o \in {} : Deployable(o)
    BY DEF DataInv
  <2>3. ChartObjects \subseteq objects'
    BY <2>1, <2>2, ChartStays
  <2>4. \A k \in ManagedResources \ {m} : mr'[k].status = mr[k].status
    BY <1>13 DEF GRMRemove, States
  <2>5. ASSUME NEW x \in objects' PROVE Owned(x)'
    <3>origin. x \in ChartObjects \/ (x \in objects /\ x.id \notin mr[m].status)
      <4>1. ASSUME NEW d, d = {}, x \in Apply(m, d)
            PROVE  x \in ChartObjects \/ (x \in objects /\ x.id \notin mr[m].status)
        <5>1. \A o \in d : Deployable(o)
          BY <4>1
        <5>2. \A o : o \notin d
          BY <4>1
        <5> QED
          BY <4>1, <5>1, <5>2, ApplyOrigin, Zenon
      <4> QED
        BY <2>1, <2>5, <4>1, Zenon
    <3>1. CASE x \in ChartObjects
      BY <3>1 DEF Owned
    <3>2. CASE x \in objects /\ x.id \notin mr[m].status
      BY <2>4, <3>2 DEF ObjectsInv, Owned
    <3> QED
      BY <3>origin, <3>1, <3>2
  <2> QED
    BY <2>3, <2>5 DEF ObjectsInv
<1>14. ASSUME NEW n \in DOMAIN issuers, IssuerReady(n) PROVE ObjectsInv'
  BY <1>14 DEF IssuerReady, ObjectsInv, Owned, clusterVars, Change
<1>15. ASSUME NEW n \in DOMAIN issuers, IssuerFails(n) PROVE ObjectsInv'
  BY <1>15 DEF IssuerFails, ObjectsInv, Owned, clusterVars, Change
<1>16. CASE UNCHANGED vars
  BY <1>16 DEF vars, ObjectsInv, Owned, clusterVars, Change
<1> QED
  BY <1>1, <1>2, <1>3, <1>4, <1>5, <1>6, <1>7, <1>8, <1>9, <1>10, <1>11, <1>12, <1>13, <1>14, <1>15, <1>16
     DEF Next, Processes, GRM, Environment

\* An Extension outlives its ManagedResources.
LEMMA StepLife == States /\ LifeInv /\ [Next]_vars => LifeInv'
<1> SUFFICES ASSUME States, LifeInv, [Next]_vars PROVE LifeInv'
  OBVIOUS
<1>1. ASSUME NEW i \in Installations, Start(i) PROVE LifeInv'
  BY <1>1 DEF Start, LifeInv, clusterVars, Change
<1>2. ASSUME NEW i \in Installations, NEW c \in Classes, Deploy(i, c) PROVE LifeInv'
  <2>1. ext' = ext /\ ext[c].st = "present"
    BY <1>2 DEF Deploy
  <2>2. PICK s \in serving[i] : \A m \in ManagedResources : Deployed(m, c, [service |-> s, provider |-> ext[c].config])
    BY <1>2, DeployEffect
  <2>3. \A m \in ManagedResources :
          mr'[m].status = mr[m].status /\ (mr'[m].st = IF ClassOf(m) = c THEN "present" ELSE mr[m].st)
    BY <2>2 DEF Deployed
  <2> QED
    BY <2>1, <2>3 DEF LifeInv
<1>3. ASSUME NEW i \in Installations, NEW c \in Classes, Delete(i, c) PROVE LifeInv'
  <2>1. ext' = ext
    BY <1>3 DEF Delete
  <2>2. \A m \in ManagedResources :
          mr'[m].status = mr[m].status /\ (mr'[m].st = mr[m].st \/ (mr[m].st = "present" /\ mr'[m].st = "deleting"))
    BY <1>3 DEF Delete, States
  <2> QED
    BY <2>1, <2>2 DEF LifeInv
<1>4. ASSUME NEW i \in Installations, NEW c \in Classes, Release(i, c) PROVE LifeInv'
  <2>1. mr' = mr /\ \A m \in ManagedResources : ClassOf(m) = c => mr[m].st = "absent"
    BY <1>4 DEF Release, clusterVars, ManagedResourcesOf
  <2>2. \A d \in Classes : ext'[d].st = "none" => d = c \/ ext[d].st = "none"
    BY <1>4 DEF Release, States
  <2>3. \A m \in ManagedResources : ClassOf(m) \in Classes
    BY DEF ManagedResources, ClassOf, Classes
  <2> QED
    BY <2>1, <2>2, <2>3 DEF LifeInv
<1>5. ASSUME HealthCheckRuns PROVE LifeInv'
  BY <1>5 DEF HealthCheckRuns, LifeInv, clusterVars, Change
<1>6. ASSUME NEW i \in Installations, Stop(i) PROVE LifeInv'
  BY <1>6 DEF Stop, LifeInv, clusterVars, Change
<1>7. ASSUME CheckError PROVE LifeInv'
  BY <1>7 DEF CheckError, LifeInv, clusterVars, Change
<1>8. ASSUME NEW i \in Installations, EditFile(i) PROVE LifeInv'
  BY <1>8 DEF EditFile, LifeInv, clusterVars, Change
<1>9. ASSUME NEW c \in Classes, CreateExtension(c) PROVE LifeInv'
  <2>1. mr' = mr /\ \A d \in Classes : ext'[d].st = "none" => ext[d].st = "none"
    BY <1>9 DEF CreateExtension, clusterVars, States
  <2>2. \A m \in ManagedResources : ClassOf(m) \in Classes
    BY DEF ManagedResources, ClassOf, Classes
  <2> QED
    BY <2>1, <2>2 DEF LifeInv
<1>10. ASSUME EditExtension PROVE LifeInv'
  <2>1. mr' = mr /\ \A d \in Classes : ext'[d].st = ext[d].st
    BY <1>10 DEF EditExtension, clusterVars, States
  <2>2. \A m \in ManagedResources : ClassOf(m) \in Classes
    BY DEF ManagedResources, ClassOf, Classes
  <2> QED
    BY <2>1, <2>2 DEF LifeInv
<1>11. ASSUME NEW c \in Classes, DeleteExtension(c) PROVE LifeInv'
  <2>1. mr' = mr /\ \A d \in Classes : ext'[d].st = "none" => ext[d].st = "none"
    BY <1>11 DEF DeleteExtension, clusterVars, States
  <2>2. \A m \in ManagedResources : ClassOf(m) \in Classes
    BY DEF ManagedResources, ClassOf, Classes
  <2> QED
    BY <2>1, <2>2 DEF LifeInv
<1>12. ASSUME NEW m \in ManagedResources, GRMApply(m) PROVE LifeInv'
  <2>1. ext' = ext /\ mr[m].st = "present"
    BY <1>12 DEF GRMApply
  <2>2. \A k \in ManagedResources : mr'[k].st = mr[k].st /\ (k # m => mr'[k].status = mr[k].status)
    BY <1>12 DEF GRMApply, States
  <2> QED
    BY <2>1, <2>2 DEF LifeInv
<1>13. ASSUME NEW m \in ManagedResources, GRMRemove(m) PROVE LifeInv'
  <2>1. ext' = ext
    BY <1>13 DEF GRMRemove
  <2>2. \A k \in ManagedResources :
          (k = m => mr'[k].st = "absent" /\ mr'[k].status = {}) /\ (k # m => mr'[k] = mr[k])
    BY <1>13 DEF GRMRemove, Absent, States
  <2> QED
    BY <2>1, <2>2 DEF LifeInv
<1>14. ASSUME NEW n \in DOMAIN issuers, IssuerReady(n) PROVE LifeInv'
  BY <1>14 DEF IssuerReady, LifeInv, clusterVars, Change
<1>15. ASSUME NEW n \in DOMAIN issuers, IssuerFails(n) PROVE LifeInv'
  BY <1>15 DEF IssuerFails, LifeInv, clusterVars, Change
<1>16. CASE UNCHANGED vars
  BY <1>16 DEF vars, LifeInv, clusterVars, Change
<1> QED
  BY <1>1, <1>2, <1>3, <1>4, <1>5, <1>6, <1>7, <1>8, <1>9, <1>10, <1>11, <1>12, <1>13, <1>14, <1>15, <1>16
     DEF Next, Processes, GRM, Environment

\* References stay resolved: what is written is complete, and what others
\* have applied is untouched.
LEMMA StepClosed ==
  States /\ DataInv /\ NamesInv /\ ObjectsInv /\ ClosedInv /\ [Next]_vars => ClosedInv'
<1> SUFFICES ASSUME States, DataInv, NamesInv, ObjectsInv, ClosedInv, [Next]_vars PROVE ClosedInv'
  OBVIOUS
<1>same. mr' = mr /\ objects' = objects => ClosedInv'
  BY DEF ClosedInv, Whole, ObjectsIn
<1>parts. ASSUME NEW m \in ManagedResources PROVE Whole(m)
  BY DEF ClosedInv
<1>elsewhere. ASSUME NEW k \in ManagedResources,
                     Others(ObjectsIn(k)') = Others(ObjectsIn(k)), mr'[k].status = mr[k].status,
                     mr'[k].status \subseteq Identities(objects'), mr'[k].data = mr[k].data
              PROVE  Whole(k)'
  <2>1. ASSUME NEW o \in Others(ObjectsIn(k)') PROVE Resolved(o, mr'[k].status, ObjectsIn(k)')
    <3>1. Resolved(o, mr[k].status, ObjectsIn(k))
      BY <1>elsewhere, <1>parts, <2>1 DEF Whole
    <3> QED
      BY <1>elsewhere, <3>1 DEF Resolved
  <2>2. \A o \in mr'[k].data : Resolved(o, Identities(mr'[k].data), mr'[k].data)
    BY <1>elsewhere, <1>parts DEF Whole
  <2> QED
    BY <1>elsewhere, <2>1, <2>2 DEF Whole
<1>1. ASSUME NEW i \in Installations, Start(i) PROVE ClosedInv'
  <2>1. mr' = mr /\ objects' = objects
    BY <1>1 DEF Start, clusterVars
  <2> QED
    BY <1>same, <2>1
<1>2. ASSUME NEW i \in Installations, NEW c \in Classes, Deploy(i, c) PROVE ClosedInv'
  <2>1. objects' = objects
    BY <1>2 DEF Deploy
  <2>2. PICK s \in serving[i] : \A m \in ManagedResources : Deployed(m, c, [service |-> s, provider |-> ext[c].config])
    BY <1>2, DeployEffect
  <2> DEFINE wish == [service |-> s, provider |-> ext[c].config]
  <2>3. wish.provider \in ProviderConfigs \union {Plain}
    BY DEF States
  <2> HIDE DEF wish
  <2>4. ASSUME NEW m \in ManagedResources
        PROVE  /\ mr'[m].data = IF ClassOf(m) = c THEN ObjectsOf(m, wish) ELSE mr[m].data
               /\ mr'[m].status = mr[m].status
    BY <2>2 DEF Deployed, wish
  <2>5. ASSUME NEW m \in ManagedResources, NEW o \in mr'[m].data
        PROVE  Resolved(o, Identities(mr'[m].data), mr'[m].data)
    <3>1. CASE ClassOf(m) = c
      <4>1. mr'[m].data = ObjectsOf(m, wish)
        BY <2>4, <3>1
      <4>2. Resolved(o, Identities(ObjectsOf(m, wish)), ObjectsOf(m, wish))
        BY <2>3, <2>5, <4>1, ObjectsClosed
      <4> QED
        BY <4>1, <4>2
    <3>2. CASE ClassOf(m) # c
      <4>1. mr'[m].data = mr[m].data
        BY <2>4, <3>2
      <4> QED
        BY <2>5, <4>1 DEF ClosedInv, Whole
    <3> QED
      BY <3>1, <3>2
  <2>6. ASSUME NEW m \in ManagedResources PROVE ObjectsIn(m)' = ObjectsIn(m)
    BY <2>1, <2>4 DEF ObjectsIn
  <2> QED
    BY <1>parts, <2>1, <2>4, <2>5, <2>6 DEF ClosedInv, Whole
<1>3. ASSUME NEW i \in Installations, NEW c \in Classes, Delete(i, c) PROVE ClosedInv'
  <2>1. objects' = objects
    BY <1>3 DEF Delete
  <2>2. \A m \in ManagedResources : mr'[m].data = mr[m].data /\ mr'[m].status = mr[m].status
    BY <1>3 DEF Delete, States
  <2>3. ASSUME NEW m \in ManagedResources PROVE ObjectsIn(m)' = ObjectsIn(m)
    BY <2>1, <2>2 DEF ObjectsIn
  <2> QED
    BY <1>parts, <2>1, <2>2, <2>3 DEF ClosedInv, Whole
<1>4. ASSUME NEW i \in Installations, NEW c \in Classes, Release(i, c) PROVE ClosedInv'
  <2>1. mr' = mr /\ objects' = objects
    BY <1>4 DEF Release, clusterVars
  <2> QED
    BY <1>same, <2>1
<1>5. ASSUME HealthCheckRuns PROVE ClosedInv'
  <2>1. mr' = mr /\ objects' = objects
    BY <1>5 DEF HealthCheckRuns, clusterVars
  <2> QED
    BY <1>same, <2>1
<1>6. ASSUME NEW i \in Installations, Stop(i) PROVE ClosedInv'
  <2>1. mr' = mr /\ objects' = objects
    BY <1>6 DEF Stop, clusterVars
  <2> QED
    BY <1>same, <2>1
<1>7. ASSUME CheckError PROVE ClosedInv'
  <2>1. mr' = mr /\ objects' = objects
    BY <1>7 DEF CheckError, clusterVars
  <2> QED
    BY <1>same, <2>1
<1>8. ASSUME NEW i \in Installations, EditFile(i) PROVE ClosedInv'
  <2>1. mr' = mr /\ objects' = objects
    BY <1>8 DEF EditFile, clusterVars
  <2> QED
    BY <1>same, <2>1
<1>9. ASSUME NEW c \in Classes, CreateExtension(c) PROVE ClosedInv'
  <2>1. mr' = mr /\ objects' = objects
    BY <1>9 DEF CreateExtension, clusterVars
  <2> QED
    BY <1>same, <2>1
<1>10. ASSUME EditExtension PROVE ClosedInv'
  <2>1. mr' = mr /\ objects' = objects
    BY <1>10 DEF EditExtension, clusterVars
  <2> QED
    BY <1>same, <2>1
<1>11. ASSUME NEW c \in Classes, DeleteExtension(c) PROVE ClosedInv'
  <2>1. mr' = mr /\ objects' = objects
    BY <1>11 DEF DeleteExtension, clusterVars
  <2> QED
    BY <1>same, <2>1
<1>12. ASSUME NEW m \in ManagedResources, GRMApply(m) PROVE ClosedInv'
  <2> DEFINE data == mr[m].data
  <2>1. objects' = Apply(m, data)
    BY <1>12 DEF GRMApply
  <2>2. \A o \in data : Deployable(o) /\ AtHome(m, o.id)
    BY DEF DataInv, NamesInv
  <2>3. mr'[m].data = data /\ mr'[m].status = Identities(data)
    BY <1>12 DEF GRMApply, States
  <2>4. \A k \in ManagedResources \ {m} : mr'[k].data = mr[k].data /\ mr'[k].status = mr[k].status
    BY <1>12 DEF GRMApply, States
  <2>5. \A o \in data : Resolved(o, Identities(data), data)
    BY DEF ClosedInv, Whole
  <2> HIDE DEF data
  <2>6. ObjectsIn(m)' = {o \in Apply(m, data) : o.id \in Identities(data)}
    BY <2>1, <2>3 DEF ObjectsIn
  <2>7. Others(ObjectsIn(m)') = Others(data) /\ mr'[m].status \subseteq Identities(objects')
    BY <2>1, <2>2, <2>3, <2>6, ApplyAtHome
  <2>8. ASSUME NEW o \in Others(ObjectsIn(m)') PROVE Resolved(o, mr'[m].status, ObjectsIn(m)')
    <3>1. o \in data
      BY <2>7, <2>8 DEF Others
    <3>2. Resolved(o, Identities(data), data)
      BY <2>5, <3>1
    <3> QED
      BY <2>3, <2>7, <3>2 DEF Resolved
  <2>9. ASSUME NEW k \in ManagedResources \ {m}
        PROVE  /\ Others(ObjectsIn(k)') = Others(ObjectsIn(k)) /\ mr'[k].status = mr[k].status
               /\ mr'[k].status \subseteq Identities(objects') /\ mr'[k].data = mr[k].data
    <3>1. ObjectsIn(k)' = {o \in Apply(m, data) : o.id \in mr[k].status}
      BY <2>1, <2>4 DEF ObjectsIn
    <3>2. mr[k].status \subseteq Identities(objects)
      BY DEF ClosedInv, Whole
    <3> QED
      BY <2>1, <2>2, <2>4, <3>1, <3>2, ApplyElsewhere
  <2>10. ASSUME NEW k \in ManagedResources PROVE Whole(k)'
    <3>1. CASE k = m
      BY <2>3, <2>5, <2>7, <2>8, <3>1 DEF Whole
    <3>2. CASE k # m
      BY <1>elsewhere, <2>9, <3>2
    <3> QED
      BY <3>1, <3>2
  <2> QED
    BY <2>10 DEF ClosedInv
<1>13. ASSUME NEW m \in ManagedResources, GRMRemove(m) PROVE ClosedInv'
  <2>1. objects' = Apply(m, {})
    BY <1>13 DEF GRMRemove
  <2>2. mr'[m].data = {} /\ mr'[m].status = {}
    BY <1>13 DEF GRMRemove, Absent, States
  <2>3. \A k \in ManagedResources \ {m} : mr'[k].data = mr[k].data /\ mr'[k].status = mr[k].status
    BY <1>13 DEF GRMRemove, States
  <2>4. ASSUME NEW k \in ManagedResources \ {m}
        PROVE  /\ Others(ObjectsIn(k)') = Others(ObjectsIn(k)) /\ mr'[k].status = mr[k].status
               /\ mr'[k].status \subseteq Identities(objects') /\ mr'[k].data = mr[k].data
    <3>1. ObjectsIn(k)' = {o \in Apply(m, {}) : o.id \in mr[k].status}
      BY <2>1, <2>3 DEF ObjectsIn
    <3>2. mr[k].status \subseteq Identities(objects)
      BY DEF ClosedInv, Whole
    <3>3. ASSUME NEW d, d = {}
          PROVE  /\ Others({o \in Apply(m, d) : o.id \in mr[k].status}) = Others(ObjectsIn(k))
                 /\ mr[k].status \subseteq Identities(Apply(m, d))
      <4>1. \A o \in d : Deployable(o) /\ AtHome(m, o.id)
        BY <3>3
      <4> QED
        BY <3>2, <4>1, ApplyElsewhere
    <3>4. /\ Others({o \in Apply(m, {}) : o.id \in mr[k].status}) = Others(ObjectsIn(k))
          /\ mr[k].status \subseteq Identities(Apply(m, {}))
      BY <3>3
    <3> QED
      BY <2>1, <2>3, <3>1, <3>4
  <2>5. ASSUME NEW k \in ManagedResources PROVE Whole(k)'
    <3>1. CASE k = m
      BY <2>2, <3>1 DEF Whole, Others, ObjectsIn
    <3>2. CASE k # m
      BY <1>elsewhere, <2>4, <3>2
    <3> QED
      BY <3>1, <3>2
  <2> QED
    BY <2>5 DEF ClosedInv
<1>14. ASSUME NEW n \in DOMAIN issuers, IssuerReady(n) PROVE ClosedInv'
  <2>1. mr' = mr /\ objects' = objects
    BY <1>14 DEF IssuerReady, clusterVars
  <2> QED
    BY <1>same, <2>1
<1>15. ASSUME NEW n \in DOMAIN issuers, IssuerFails(n) PROVE ClosedInv'
  <2>1. mr' = mr /\ objects' = objects
    BY <1>15 DEF IssuerFails, clusterVars
  <2> QED
    BY <1>same, <2>1
<1>16. CASE UNCHANGED vars
  <2>1. mr' = mr /\ objects' = objects
    BY <1>16 DEF vars, clusterVars
  <2> QED
    BY <1>same, <2>1
<1> QED
  BY <1>1, <1>2, <1>3, <1>4, <1>5, <1>6, <1>7, <1>8, <1>9, <1>10, <1>11, <1>12, <1>13, <1>14, <1>15, <1>16
     DEF Next, Processes, GRM, Environment

-----------------------------------------------------------------------------
(* The theorems                                                             *)

\* All parts together.
LEMMA StepIInv == IInv /\ [Next]_vars => IInv'
BY StepStates, StepConfig, StepData, StepNames, StepObjects, StepLife, StepClosed DEF IInv

\* In every reachable state configurations are validated, the objects of the
\* chart are there, and others are a ManagedResource's of a living Extension.
THEOREM InvariantHolds == Spec => []IInv
BY InitIInv, StepIInv, PTL DEF Spec

\* No ManagedResource is written from a configuration that the deployed
\* controller could not work with, whatever the operator puts into the file.
THEOREM ConfigWorks == Spec => []DeployedConfigWorks
<1>1. ASSUME NEW c, Validated(c)
      PROVE  /\ c.issuerName # "" /\ (c.ca # {}) # (c.acme # {})
             /\ \A acme \in c.acme : \A servers \in acme.precheckNameservers :
                  \A k \in DOMAIN servers : Dialable(servers[k])
             /\ \A d \in c.privateKeyDefaults :
                  /\ d.algorithm \subseteq {"RSA", "ECDSA"}
                  /\ \A n \in d.sizeRSA : n >= 2048
                  /\ \A n \in d.sizeECDSA : n >= 256
  <2>1. c.issuerName # "" /\ (c.ca # {}) # (c.acme # {})
    BY <1>1 DEF Validated, ValidateConfiguration
  <2>2. ASSUME NEW acme \in c.acme, NEW servers \in acme.precheckNameservers, NEW k \in DOMAIN servers
        PROVE  Dialable(servers[k])
    <3>1. acme \in ACME
      BY <1>1 DEF Validated, Configuration, Option
    <3>2. servers \in Seq(Nameservers)
      BY <3>1 DEF ACME, Option
    <3>3. servers[k] \in Nameservers
      BY <3>2
    <3>4. ValidateNameserver(servers[k])
      BY <1>1 DEF Validated, ValidateConfiguration, ValidateACME, ValidatePrecheckNameservers
    <3> QED
      BY <3>3, <3>4, NameserverDialable
  <2>3. ASSUME NEW d \in c.privateKeyDefaults
        PROVE  /\ d.algorithm \subseteq {"RSA", "ECDSA"}
               /\ \A n \in d.sizeRSA : n >= 2048
               /\ \A n \in d.sizeECDSA : n >= 256
    <3>1. ValidatePrivateKeyDefaults(d)
      BY <1>1 DEF Validated, ValidateConfiguration
    <3> QED
      BY <3>1 DEF ValidatePrivateKeyDefaults
  <2> QED
    BY <2>1, <2>2, <2>3
<1>2. IInv => DeployedConfigWorks
  BY <1>1 DEF IInv, ConfigInv, DeployedConfigWorks
<1> QED
  BY <1>2, InvariantHolds, PTL

\* Extensions that have gone leave no objects but the CRDs of the chart.
THEOREM ClusterCleaned == Spec => []NothingLeft
<1>1. ASSUME IInv, \A c \in Classes : ext[c].st = "none" PROVE objects = ChartObjects
  <2>1. \A m \in ManagedResources : ClassOf(m) \in Classes
    BY DEF ManagedResources, ClassOf, Classes
  <2>2. \A m \in ManagedResources : mr[m].status = {}
    BY <1>1, <2>1 DEF IInv, LifeInv
  <2> QED
    BY <1>1, <2>2 DEF IInv, ObjectsInv, Owned
<1>2. IInv => NothingLeft
  BY <1>1 DEF NothingLeft
<1> QED
  BY <1>2, InvariantHolds, PTL

\* Whatever was deployed is there with everything it needs by name or selects
\* by label, whichever other ManagedResources of the cluster come and go.
THEOREM ReferencesThere == Spec => []ReferencesResolve
<1> DEFINE ids == Identities(objects \union Provided)
<1>1. ASSUME IInv, NEW m \in ManagedResources
      PROVE  /\ mr[m].status \subseteq ids
             /\ \A o \in objects : o.id \in mr[m].status =>
                  o.needs \subseteq ids /\ o.selects \subseteq {p.match : p \in objects}
  <2>1. mr[m].status \subseteq ids
    BY <1>1 DEF IInv, ClosedInv, Whole, Identities
  <2>2. Given \subseteq ids
    BY <1>1 DEF IInv, ObjectsInv, Given, Identities
  <2>3. ASSUME NEW o \in objects, o.id \in mr[m].status, ~IsCRD(o)
        PROVE  o.needs \subseteq ids /\ o.selects \subseteq {p.match : p \in objects}
    <3>1. o \in Others(ObjectsIn(m))
      BY <2>3 DEF Others, ObjectsIn
    <3>2. Resolved(o, mr[m].status, ObjectsIn(m))
      BY <1>1, <3>1 DEF IInv, ClosedInv, Whole
    <3> HIDE DEF ids
    <3> QED
      BY <2>1, <2>2, <3>2 DEF Resolved, Others, ObjectsIn
  <2>4. ASSUME NEW o \in objects, IsCRD(o) PROVE o.needs = {} /\ o.selects = {}
    <3>1. o \in ChartObjects
      BY <1>1, <2>4 DEF IInv, ObjectsInv, Owned
    <3> QED
      BY <3>1, CRDFields DEF ChartObjects
  <2> QED
    BY <2>1, <2>3, <2>4
<1>2. IInv => ReferencesResolve
  BY <1>1 DEF ReferencesResolve
<1> QED
  BY <1>2, InvariantHolds, PTL

\* Two ManagedResources write the same object only if neither takes it away.
THEOREM SharedKept == Spec => []SharedObjectsKept
<1>1. ASSUME IInv, NEW o \in objects, ~o.keep,
             NEW m \in ManagedResources, o.id \in mr[m].status,
             NEW k \in ManagedResources, o.id \in mr[k].status
      PROVE  m = k
  <2>1. ~IsCRD(o)
    BY <1>1, ChartKind DEF IInv, ObjectsInv, Owned
  <2>2. AtHome(m, o.id) /\ AtHome(k, o.id)
    BY <1>1 DEF IInv, NamesInv
  <2> QED
    BY <2>1, <2>2, Apart DEF IsCRD
<1>2. ASSUME NEW S, \A m, k \in S : m = k PROVE Cardinality(S) <= 1
  <2>1. CASE S = {}
    BY <2>1, FS_EmptySet
  <2>2. ASSUME NEW m \in S PROVE Cardinality(S) <= 1
    <3>1. S = {m}
      BY <1>2, <2>2
    <3>2. Cardinality({m}) = 1
      BY FS_Singleton
    <3> QED
      BY <3>1, <3>2
  <2> QED
    BY <2>1, <2>2
<1>3. ASSUME IInv, NEW o \in objects, ~o.keep
      PROVE  Cardinality({m \in ManagedResources : InCluster(m) /\ o.id \in mr[m].status}) <= 1
  <2> DEFINE S == {m \in ManagedResources : InCluster(m) /\ o.id \in mr[m].status}
  <2>1. \A m, k \in S : m = k
    BY <1>1, <1>3
  <2> HIDE DEF S
  <2>2. Cardinality(S) <= 1
    BY <1>2, <2>1
  <2> QED
    BY <2>2 DEF S
<1>4. IInv => SharedObjectsKept
  BY <1>3 DEF SharedObjectsKept
<1> QED
  BY <1>4, InvariantHolds, PTL

\* No step takes a CRD out of the cluster: not the one that removes the
\* ManagedResource of a managed seed's shoot, nor one that no longer brings it.
THEOREM CRDsRemain == Spec => CRDsStay
<1> DEFINE A == \A o \in objects : o.id[1] = "CustomResourceDefinition"
                   => o.id \in Identities(objects')
<1>1. ASSUME IInv, IInv', [Next]_vars PROVE A
  <2>1. ASSUME NEW o \in objects, IsCRD(o) PROVE o \in objects'
    BY <1>1, <2>1 DEF IInv, ObjectsInv, Owned
  <2> QED
    BY <2>1 DEF IsCRD, Identities
<1>2. IInv /\ IInv' /\ [Next]_vars => [A]_vars
  BY <1>1
<1> QED
  BY <1>2, InvariantHolds, PTL DEF Spec, CRDsStay

-----------------------------------------------------------------------------
(* What a step may do                                                       *)

\* Each class is served by one installation.
LEMMA ServedByOne ==
  ASSUME NEW i \in Installations, NEW c \in Classes, c \in ServedClasses(i)
  PROVE  i = InstallationOf(c)
BY DEF Installations, Classes, ServedClasses, ControllerSwitches, ControlPlaneClasses,
       ExtensionClasses, InstallationOf

\* Wishes are written by Deploy only; a ManagedResource that goes loses its own.
LEMMA WishWritten ==
  ASSUME States, Next, NEW m \in ManagedResources, NEW wish \in mr'[m].wish \ mr[m].wish
  PROVE  LET c == ClassOf(m)
         IN  wish \in [service: serving[InstallationOf(c)], provider: {ext[c].config}]
<1>1. ASSUME NEW i \in Installations, NEW c \in Classes, Deploy(i, c)
      PROVE  LET d == ClassOf(m)
             IN  wish \in [service: serving[InstallationOf(d)], provider: {ext[d].config}]
  <2>1. PICK s \in serving[i] :
          \A k \in ManagedResources : Deployed(k, c, [service |-> s, provider |-> ext[c].config])
    BY <1>1, DeployEffect
  <2>2. ClassOf(m) = c /\ wish = [service |-> s, provider |-> ext[c].config]
    BY <2>1 DEF Deployed
  <2>3. i = InstallationOf(c)
    BY <1>1, ServedByOne DEF Deploy, Serves
  <2> QED
    BY <2>2, <2>3
<1>2. ASSUME NEW i \in Installations, NEW c \in Classes, Delete(i, c) PROVE FALSE
  BY <1>2 DEF Delete, States
<1>3. ASSUME NEW k \in ManagedResources, GRMApply(k) PROVE FALSE
  BY <1>3 DEF GRMApply, States
<1>4. ASSUME NEW k \in ManagedResources, GRMRemove(k) PROVE FALSE
  <2>1. mr'[k].wish = {} /\ \A j \in ManagedResources \ {k} : mr'[j] = mr[j]
    BY <1>4 DEF GRMRemove, Absent, States
  <2> QED
    BY <2>1
<1>5. mr' # mr
  OBVIOUS
<1> QED
  BY <1>1, <1>2, <1>3, <1>4, <1>5
     DEF Next, Processes, GRM, Environment, Start, Release, HealthCheckRuns, Stop, CheckError,
         EditFile, CreateExtension, EditExtension, DeleteExtension, IssuerReady, IssuerFails, clusterVars

\* Two installations run the same controllers in one cluster, and none writes
\* what belongs to the other, for any configuration files.
THEOREM InstallationsApart == Spec => OwnInstallationWrites
<1>1. IInv /\ [Next]_vars =>
              [\A m \in ManagedResources : \A wish \in mr'[m].wish \ mr[m].wish :
                 LET c == ClassOf(m)
                 IN  wish \in [service: serving[InstallationOf(c)], provider: {ext[c].config}]]_vars
  BY WishWritten DEF IInv
<1> QED
  BY <1>1, InvariantHolds, PTL DEF Spec, OwnInstallationWrites

\* What a ManagedResource has for itself is what the invariant calls Others.
LEMMA OwnOthers ==
  \A m \in ManagedResources : OwnObjects(m) = Others(ObjectsIn(m))
BY DEF OwnObjects, Others, ObjectsIn, IsCRD

\* gardener-resource-manager changes what belongs to the one it works on.
LEMMA OneChanges ==
  ASSUME IInv, Next
  PROVE  \/ \A k \in ManagedResources : OwnObjects(k)' = OwnObjects(k)
         \/ \E m \in ManagedResources : \A k \in ManagedResources \ {m} : OwnObjects(k)' = OwnObjects(k)
<1>1. ASSUME NEW m \in ManagedResources, NEW data, objects' = Apply(m, data),
             \A o \in data : Deployable(o) /\ AtHome(m, o.id),
             NEW k \in ManagedResources \ {m}, mr'[k].status = mr[k].status
      PROVE  OwnObjects(k)' = OwnObjects(k)
  <2>1. mr[k].status \subseteq Identities(objects)
    BY DEF IInv, ClosedInv, Whole
  <2>2. Others({o \in objects' : o.id \in mr'[k].status}) = Others(ObjectsIn(k))
    BY <1>1, <2>1, ApplyElsewhere DEF IInv
  <2>3. OwnObjects(k)' = Others({o \in objects' : o.id \in mr'[k].status})
    BY DEF OwnObjects, Others, IsCRD
  <2> QED
    BY <2>2, <2>3, OwnOthers
<1>2. ASSUME NEW m \in ManagedResources, GRMApply(m), NEW k \in ManagedResources \ {m}
      PROVE  OwnObjects(k)' = OwnObjects(k)
  <2>1. objects' = Apply(m, mr[m].data) /\ mr'[k].status = mr[k].status
    BY <1>2 DEF GRMApply, IInv, States
  <2>2. \A o \in mr[m].data : Deployable(o) /\ AtHome(m, o.id)
    BY DEF IInv, DataInv, NamesInv
  <2> QED
    BY <1>1, <2>1, <2>2
<1>3. ASSUME NEW m \in ManagedResources, GRMRemove(m), NEW k \in ManagedResources \ {m}
      PROVE  OwnObjects(k)' = OwnObjects(k)
  <2>1. objects' = Apply(m, {}) /\ mr'[k].status = mr[k].status
    BY <1>3 DEF GRMRemove, IInv, States
  <2>2. ASSUME NEW d, d = {} PROVE \A o \in d : Deployable(o) /\ AtHome(m, o.id)
    BY <2>2
  <2>3. \A o \in {} : Deployable(o) /\ AtHome(m, o.id)
    BY <2>2
  <2> QED
    BY <1>1, <2>1, <2>3
<1>4. ASSUME objects' = objects, \A k \in ManagedResources : mr'[k].status = mr[k].status
      PROVE  \A k \in ManagedResources : OwnObjects(k)' = OwnObjects(k)
  BY <1>4 DEF OwnObjects
<1>5. ASSUME NEW i \in Installations, NEW c \in Classes, Deploy(i, c)
      PROVE  objects' = objects /\ \A k \in ManagedResources : mr'[k].status = mr[k].status
  BY <1>5, DeployEffect DEF Deploy, Deployed, IInv
<1>6. ASSUME NEW i \in Installations, NEW c \in Classes, Delete(i, c)
      PROVE  objects' = objects /\ \A k \in ManagedResources : mr'[k].status = mr[k].status
  BY <1>6 DEF Delete, IInv, States
<1>7. CASE UNCHANGED <<mr, objects>>
  BY <1>4, <1>7
<1>8. CASE \E i \in Installations : \E c \in Classes : Deploy(i, c) \/ Delete(i, c)
  BY <1>4, <1>5, <1>6, <1>8
<1>9. CASE GRM
  BY <1>2, <1>3, <1>9 DEF GRM
<1> QED
  BY <1>7, <1>8, <1>9
     DEF Next, Processes, Environment, Start, Release, HealthCheckRuns, Stop, CheckError,
         EditFile, CreateExtension, EditExtension, DeleteExtension, IssuerReady, IssuerFails, clusterVars

\* A step of the cluster touches the objects of one ManagedResource at most,
\* for any configurations and own issuers.
THEOREM ManagedResourcesApart == Spec => NoInterference
<1>1. IInv /\ [Next]_vars =>
              [\A m, k \in ManagedResources :
                 OwnObjects(m)' # OwnObjects(m) /\ OwnObjects(k)' # OwnObjects(k) => m = k]_vars
  BY OneChanges
<1> QED
  BY <1>1, InvariantHolds, PTL DEF Spec, NoInterference
=============================================================================
