---------------------- MODULE RuntimeClusterTypeProofs ----------------------
(***************************************************************************)
(* Type correctness of RuntimeCluster.  Its part that is not about types   *)
(* alone: no two objects in the cluster have one identity, so a            *)
(* ManagedResource never contains two objects of one name, whatever        *)
(* issuers a shoot brings, and two ManagedResources never leave different  *)
(* forms of an object they share.                                          *)
(***************************************************************************)
EXTENDS RuntimeClusterProofs

\* No two objects of S have one identity.
Distinct(S) == \A a, b \in S : a.id = b.id => a = b

\* No two own issuers have one name, as validation demands.
UniqueIssuers(issuersOf) ==
  IsFiniteSet(issuersOf) /\ \A a, b \in issuersOf : a.name = b.name => a = b

\* What a process runs with and what is deployed comes from files and Extensions.
WishInv ==
  /\ \A i \in Installations : serving[i] \in Option(ServedConfigs)
  /\ \A m \in ManagedResources : mr[m].wish \in Option(Wishes)

StateInv ==
  /\ \A m \in ManagedResources : mr[m].st \in {"absent", "present", "deleting"}
  /\ HealthTypeOK
  /\ changes \in 0..MaxChanges

\* Data and objects are finite and without duplicates.
UniqueInv ==
  /\ \A m \in ManagedResources : IsFiniteSet(mr[m].data) /\ Distinct(mr[m].data)
  /\ IsFiniteSet(objects) /\ Distinct(objects)

IssuersInv == DOMAIN issuers = IssuersIn(objects)

TypeInv == WishInv /\ StateInv /\ UniqueInv /\ IssuersInv

-----------------------------------------------------------------------------
(* Finite sets                                                              *)

\* The image of a finite set, with the function that makes it one.
LEMMA FiniteImage ==
  ASSUME NEW S, IsFiniteSet(S), NEW f, f = [x \in S |-> f[x]]
  PROVE  IsFiniteSet({f[x] : x \in S})
<1> DEFINE T == {f[x] : x \in S}
<1>1. f \in Surjection(S, T)
  BY DEF Surjection
<1> QED
  BY <1>1, FS_Surjection

\* Up to five elements.
LEMMA FiniteFive ==
  ASSUME NEW a, NEW b, NEW c, NEW d, NEW e PROVE IsFiniteSet({a, b, c, d, e})
<1>1. IsFiniteSet({a}) /\ IsFiniteSet({b}) /\ IsFiniteSet({c}) /\ IsFiniteSet({d}) /\ IsFiniteSet({e})
  BY FS_Singleton
<1>2. IsFiniteSet({a} \union {b}) /\ IsFiniteSet({c} \union {d})
  BY <1>1, FS_Union
<1>3. IsFiniteSet(({a} \union {b}) \union ({c} \union {d}))
  BY <1>2, FS_Union
<1>4. IsFiniteSet((({a} \union {b}) \union ({c} \union {d})) \union {e})
  BY <1>1, <1>3, FS_Union
<1>5. (({a} \union {b}) \union ({c} \union {d})) \union {e} = {a, b, c, d, e}
  OBVIOUS
<1> QED
  BY <1>4, <1>5

\* What a function returns that may create nothing.
LEMMA FiniteWhen == ASSUME NEW c, NEW o PROVE IsFiniteSet(When(c, o))
<1>1. IsFiniteSet({o}) /\ IsFiniteSet({})
  BY FS_Singleton, FS_EmptySet
<1> QED
  BY <1>1 DEF When

\* Identities are as many as objects when no two objects have one identity.
LEMMA AsManyIdentities ==
  ASSUME NEW S, IsFiniteSet(S), Distinct(S)
  PROVE  Cardinality(Identities(S)) = Cardinality(S)
<1> DEFINE f == [o \in S |-> o.id]
<1>1. f \in Injection(S, Identities(S)) /\ f \in Surjection(S, Identities(S))
  <2>1. f \in [S -> Identities(S)] /\ \A o \in S : f[o] = o.id
    BY DEF Identities
  <2>2. \A a, b \in S : f[a] = f[b] => a = b
    BY <2>1 DEF Distinct
  <2>3. \A id \in Identities(S) : \E o \in S : f[o] = id
    BY <2>1 DEF Identities
  <2> HIDE DEF f
  <2>4. f \in Injection(S, Identities(S))
    BY <2>1, <2>2 DEF Injection, IsInjective
  <2>5. f \in Surjection(S, Identities(S))
    BY <2>1, <2>3 DEF Surjection
  <2> QED
    BY <2>4, <2>5
<1>2. f \in Bijection(S, Identities(S))
  BY <1>1 DEF Bijection
<1>3. ExistsBijection(S, Identities(S))
  BY <1>2 DEF ExistsBijection
<1> QED
  BY <1>3, FS_Bijection

\* An image of a set, made by an operator that is a function on it.
LEMMA FiniteIssuers ==
  ASSUME NEW v, NEW T, IsFiniteSet(T)
  PROVE  IsFiniteSet({CreateIssuer(v, own.name, own.secrets) : own \in T})
<1> DEFINE f == [own \in T |-> CreateIssuer(v, own.name, own.secrets)]
<1>1. IsFiniteSet({f[own] : own \in T})
  <2>1. f = [own \in T |-> f[own]]
    OBVIOUS
  <2> HIDE DEF f
  <2> QED
    BY <2>1, FiniteImage
<1>2. {f[own] : own \in T} = {CreateIssuer(v, own.name, own.secrets) : own \in T}
  OBVIOUS
<1> QED
  BY <1>1, <1>2

-----------------------------------------------------------------------------
(* An object of a ManagedResource is determined by its identity             *)

OwnNamed(v, name) == CHOOSE own \in v.ownIssuers : own.name = name
IssuerNamed(v, name) ==
  IF name = v.issuerName THEN CreateIssuer(v, name, DefaultIssuerSecrets(v))
  ELSE CreateIssuer(v, name, OwnNamed(v, name).secrets)

ConfigMapNamed(v, name) ==
  IF name = "cert-controller-manager-dashboards" THEN CreateDashboardsConfigMap(v)
  ELSE Own(v, "ConfigMap", "cert-controller-manager-ca-certificates", {}, {})

RoleNamed(v, name) == IF name = LeaderRoleName THEN CreateRole(v) ELSE CreateShootRole(v)
RoleBindingNamed(v, name) ==
  IF name = RoleName THEN CreateShootRoleBinding(v) ELSE CreateRoleBinding(v)

CRDNamedBy(v, name) == IF v.shoot THEN CRD(name) ELSE KeepObject(CRD(name))

\* The only object of the values v that can have the identity of o.
Expected(v, o) ==
  LET kind == o.id[1]
      name == o.id[3]
  IN  /\ kind = "ServiceAccount" => o = CreateServiceAccount(v)
      /\ kind = "Role" => o = RoleNamed(v, name)
      /\ kind = "RoleBinding" => o = RoleBindingNamed(v, name)
      /\ kind = "Service" => o = CreateService(v)
      /\ kind = "Deployment" => o = CreateDeployment(v)
      /\ kind = "ConfigMap" => o = ConfigMapNamed(v, name)
      /\ kind = "Secret" => o = Object("Secret", v.namespace, OwnSecret(v), NoLabel, {}, {})
      /\ kind = "Issuer" => o = IssuerNamed(v, name)
      /\ kind = "VerticalPodAutoscaler" => CreateVPA(v) = {o}
      /\ kind = "PodDisruptionBudget" => o = CreatePodDisruptionBudget(v)
      /\ kind = "ServiceMonitor" => o = CreateServiceMonitor(v)
      /\ kind = "PrometheusRule" => CreatePrometheusRule(v) = {o}
      /\ kind = "ClusterRole" => o = CreateShootClusterRole(v)
      /\ kind = "ClusterRoleBinding" => o = CreateShootClusterRoleBinding(v)
      /\ kind = "NetworkPolicy" => CreateNetworkPolicy(v) = {o}
      /\ kind = "CustomResourceDefinition" => o = CRDNamedBy(v, name)

Kinds == {"ServiceAccount", "Role", "RoleBinding", "Service", "Deployment", "ConfigMap", "Secret",
          "Issuer", "VerticalPodAutoscaler", "PodDisruptionBudget", "ServiceMonitor",
          "PrometheusRule", "ClusterRole", "ClusterRoleBinding", "NetworkPolicy",
          "CustomResourceDefinition"}
Determined(v, o) == o.id[1] \in Kinds /\ Expected(v, o)

\* Objects that are as expected for one value differ in their identities.
LEMMA DeterminedDistinct ==
  ASSUME NEW v, NEW S, \A o \in S : Determined(v, o) PROVE Distinct(S)
<1> SUFFICES ASSUME NEW a \in S, NEW b \in S, a.id = b.id PROVE a = b
  BY DEF Distinct
<1>1. Determined(v, a) /\ Determined(v, b)
  OBVIOUS
<1>2. a.id[1] = b.id[1] /\ a.id[3] = b.id[3]
  OBVIOUS
<1> HIDE DEF Determined
<1> QED
  BY <1>1, <1>2 DEF Determined, Expected, Kinds

\* The kind and the name of what Object makes.
LEMMA ObjectId ==
  ASSUME NEW kind, NEW ns, NEW name, NEW label, NEW needs, NEW selects
  PROVE  LET o == Object(kind, ns, name, label, needs, selects)
         IN  o.id[1] = kind /\ o.id[2] = ns /\ o.id[3] = name
BY DEF Object, Named

\* An issuer of the default configuration or of the shoot.
LEMMA IssuersDetermined ==
  ASSUME NEW v, UniqueIssuers(v.ownIssuers), NEW o \in CreateIssuers(v) PROVE Determined(v, o)
<1>1. CASE o \in CreateIssuerSecrets(v)
  <2>1. o = Object("Secret", v.namespace, OwnSecret(v), NoLabel, {}, {})
    BY <1>1 DEF CreateIssuerSecrets, When
  <2>2. o.id[1] = "Secret"
    BY <2>1, ObjectId
  <2> QED
    BY <2>1, <2>2 DEF Determined, Expected, Kinds
<1>2. ASSUME NEW name, NEW secrets, o = CreateIssuer(v, name, secrets)
      PROVE  o.id[1] = "Issuer" /\ o.id[3] = name
  BY <1>2, ObjectId DEF CreateIssuer
<1>3. CASE o = CreateIssuer(v, v.issuerName, DefaultIssuerSecrets(v))
  <2>1. o.id[1] = "Issuer" /\ o.id[3] = v.issuerName
    BY <1>2, <1>3
  <2> QED
    BY <1>3, <2>1 DEF Determined, Expected, Kinds, IssuerNamed
<1>4. ASSUME NEW own \in v.ownIssuers, own.name # v.issuerName,
             o = CreateIssuer(v, own.name, own.secrets)
      PROVE  Determined(v, o)
  <2>1. o.id[1] = "Issuer" /\ o.id[3] = own.name
    BY <1>2, <1>4
  <2>2. OwnNamed(v, own.name) = own
    BY <1>4 DEF OwnNamed, UniqueIssuers
  <2> QED
    BY <1>4, <2>1, <2>2 DEF Determined, Expected, Kinds, IssuerNamed
<1> QED
  BY <1>1, <1>3, <1>4 DEF CreateIssuers

\* The control plane.
LEMMA ControlPlaneDetermined ==
  ASSUME NEW v, UniqueIssuers(v.ownIssuers), ChartNameSeed(v) # RoleName,
         NEW o \in CreateControlPlane(v)
  PROVE  Determined(v, o)
<1>1. CASE o = CreateServiceAccount(v)
  <2>1. o.id[1] = "ServiceAccount"
    BY <1>1, ObjectId DEF CreateServiceAccount, Own
  <2> QED
    BY <1>1, <2>1 DEF Determined, Expected, Kinds
<1>2. CASE o = CreateRole(v)
  <2>1. o.id[1] = "Role" /\ o.id[3] = LeaderRoleName
    BY <1>2, ObjectId DEF CreateRole, Own
  <2> QED
    BY <1>2, <2>1 DEF Determined, Expected, Kinds, RoleNamed
<1>3. CASE o = CreateRoleBinding(v)
  <2>1. o.id[1] = "RoleBinding" /\ o.id[3] = ChartNameSeed(v)
    BY <1>3, ObjectId DEF CreateRoleBinding, Own
  <2> QED
    BY <1>3, <2>1 DEF Determined, Expected, Kinds, RoleBindingNamed
<1>4. CASE o = CreateService(v)
  <2>1. o.id[1] = "Service"
    BY <1>4, ObjectId DEF CreateService, Own
  <2> QED
    BY <1>4, <2>1 DEF Determined, Expected, Kinds
<1>5. CASE o = CreateDeployment(v)
  <2>1. o.id[1] = "Deployment"
    BY <1>5, ObjectId DEF CreateDeployment, Own
  <2> QED
    BY <1>5, <2>1 DEF Determined, Expected, Kinds
<1>6. CASE o \in CreateCACertificatesConfigMap(v)
  <2>1. o = Own(v, "ConfigMap", "cert-controller-manager-ca-certificates", {}, {})
    BY <1>6 DEF CreateCACertificatesConfigMap, When
  <2>2. o.id[1] = "ConfigMap" /\ o.id[3] = "cert-controller-manager-ca-certificates"
    BY <2>1, ObjectId DEF Own
  <2> QED
    BY <2>1, <2>2 DEF Determined, Expected, Kinds, ConfigMapNamed
<1>7. CASE o \in CreateVPA(v)
  <2>1. CreateVPA(v) = {o}
    BY <1>7 DEF CreateVPA, When
  <2>2. o.id[1] = "VerticalPodAutoscaler"
    BY <1>7, ObjectId DEF CreateVPA, When
  <2> QED
    BY <2>1, <2>2 DEF Determined, Expected, Kinds
<1> QED
  BY <1>1, <1>2, <1>3, <1>4, <1>5, <1>6, <1>7, IssuersDetermined DEF CreateControlPlane

\* The rights in the cluster that the controller works for.
LEMMA RightsDetermined ==
  ASSUME NEW v, NEW o \in CreateShootRights(v) \union CreateNetworkPolicy(v) PROVE Determined(v, o)
<1>1. CASE o = CreateShootRole(v)
  <2>1. o.id[1] = "Role" /\ o.id[3] = RoleName
    BY <1>1, ObjectId DEF CreateShootRole
  <2>2. RoleName # LeaderRoleName
    BY DEF RoleName, LeaderRoleName
  <2> QED
    BY <1>1, <2>1, <2>2 DEF Determined, Expected, Kinds, RoleNamed
<1>2. CASE o = CreateShootRoleBinding(v)
  <2>1. o.id[1] = "RoleBinding" /\ o.id[3] = RoleName
    BY <1>2, ObjectId DEF CreateShootRoleBinding
  <2> QED
    BY <1>2, <2>1 DEF Determined, Expected, Kinds, RoleBindingNamed
<1>3. CASE o = CreateShootClusterRole(v)
  <2>1. o.id[1] = "ClusterRole"
    BY <1>3, ObjectId DEF CreateShootClusterRole
  <2> QED
    BY <1>3, <2>1 DEF Determined, Expected, Kinds
<1>4. CASE o = CreateShootClusterRoleBinding(v)
  <2>1. o.id[1] = "ClusterRoleBinding"
    BY <1>4, ObjectId DEF CreateShootClusterRoleBinding
  <2> QED
    BY <1>4, <2>1 DEF Determined, Expected, Kinds
<1>5. CASE o \in CreateNetworkPolicy(v)
  <2>1. CreateNetworkPolicy(v) = {o}
    BY <1>5 DEF CreateNetworkPolicy, When
  <2>2. o.id[1] = "NetworkPolicy"
    BY <1>5, ObjectId DEF CreateNetworkPolicy, When
  <2> QED
    BY <2>1, <2>2 DEF Determined, Expected, Kinds
<1> QED
  BY <1>1, <1>2, <1>3, <1>4, <1>5 DEF CreateShootRights

\* What the ManagedResource in the seed has besides.
LEMMA MonitoringDetermined ==
  ASSUME NEW v,
         NEW o \in CreatePrometheusRule(v)
                   \union {CreatePodDisruptionBudget(v), CreateDashboardsConfigMap(v), CreateServiceMonitor(v)}
  PROVE  Determined(v, o)
<1>1. CASE o \in CreatePrometheusRule(v)
  <2>1. CreatePrometheusRule(v) = {o}
    BY <1>1 DEF CreatePrometheusRule, When
  <2>2. o.id[1] = "PrometheusRule"
    BY <1>1, ObjectId DEF CreatePrometheusRule, When, Own
  <2> QED
    BY <2>1, <2>2 DEF Determined, Expected, Kinds
<1>2. CASE o = CreatePodDisruptionBudget(v)
  <2>1. o.id[1] = "PodDisruptionBudget"
    BY <1>2, ObjectId DEF CreatePodDisruptionBudget, Own
  <2> QED
    BY <1>2, <2>1 DEF Determined, Expected, Kinds
<1>3. CASE o = CreateDashboardsConfigMap(v)
  <2>1. o.id[1] = "ConfigMap" /\ o.id[3] = "cert-controller-manager-dashboards"
    BY <1>3, ObjectId DEF CreateDashboardsConfigMap
  <2> QED
    BY <1>3, <2>1 DEF Determined, Expected, Kinds, ConfigMapNamed
<1>4. CASE o = CreateServiceMonitor(v)
  <2>1. o.id[1] = "ServiceMonitor"
    BY <1>4, ObjectId DEF CreateServiceMonitor, Own
  <2> QED
    BY <1>4, <2>1 DEF Determined, Expected, Kinds
<1> QED
  BY <1>1, <1>2, <1>3, <1>4

\* CRDs of a shoot are its own, those of a runtime cluster are kept.
LEMMA CRDsDetermined ==
  ASSUME NEW v, NEW n \in CRDNames
  PROVE  (v.shoot => Determined(v, CRD(n))) /\ (~v.shoot => Determined(v, KeepObject(CRD(n))))
<1>1. /\ CRD(n).id[1] = "CustomResourceDefinition" /\ CRD(n).id[3] = n
      /\ KeepObject(CRD(n)).id[1] = "CustomResourceDefinition" /\ KeepObject(CRD(n)).id[3] = n
  BY CRDFields
<1>2. v.shoot => CRDNamedBy(v, n) = CRD(n)
  BY DEF CRDNamedBy
<1>3. ~v.shoot => CRDNamedBy(v, n) = KeepObject(CRD(n))
  BY DEF CRDNamedBy
<1>4. ASSUME v.shoot PROVE Determined(v, CRD(n))
  BY <1>1, <1>2, <1>4 DEF Determined, Expected, Kinds
<1>5. ASSUME ~v.shoot PROVE Determined(v, KeepObject(CRD(n)))
  BY <1>1, <1>3, <1>5 DEF Determined, Expected, Kinds
<1> QED
  BY <1>4, <1>5

\* No ManagedResource contains two objects of one identity.
LEMMA ObjectsDistinct ==
  ASSUME NEW m \in ManagedResources, NEW wish, UniqueIssuers(wish.provider.ownIssuers)
  PROVE  Distinct(ObjectsOf(m, wish))
<1> DEFINE v == CreateValues(m, wish)
<1>1. v.shoot = (ClassOf(m) = "shoot") /\ UniqueIssuers(v.ownIssuers)
  <2>1. v.shoot = (ClassOf(m) = "shoot") /\ v.ownIssuers = wish.provider.ownIssuers
    BY DEF CreateValues
  <2> HIDE DEF v
  <2> QED
    BY <2>1
<1> SUFFICES ASSUME NEW o \in ObjectsOf(m, wish) PROVE Determined(v, o)
  <2> HIDE DEF v
  <2> QED
    BY DeterminedDistinct
<1>2. CASE m = "shoot-shoot"
  <2>1. o \in CreateShootRights(v) \union GetShootCRDs(v)
    BY <1>2 DEF ObjectsOf, ShootObjects
  <2>2. v.shoot
    BY <1>1, <1>2 DEF ClassOf
  <2> HIDE DEF v
  <2>3. CASE o \in CreateShootRights(v)
    BY <2>3, RightsDetermined
  <2>4. CASE o \in GetShootCRDs(v)
    BY <2>2, <2>4, CRDsDetermined DEF GetShootCRDs
  <2> QED
    BY <2>1, <2>3, <2>4
<1>3. ASSUME o \in CreateControlPlane(v) PROVE Determined(v, o)
  <2>1. ChartNameSeed(v) # RoleName
    BY DEF ChartNameSeed, RoleName
  <2> HIDE DEF v
  <2> QED
    BY <1>1, <1>3, <2>1, ControlPlaneDetermined
<1>4. CASE m = "shoot-seed"
  <2>1. o \in CreateControlPlane(v) \union CreatePrometheusRule(v)
                \union {CreatePodDisruptionBudget(v), CreateDashboardsConfigMap(v), CreateServiceMonitor(v)}
    BY <1>4 DEF ObjectsOf, SeedObjects
  <2> HIDE DEF v
  <2> QED
    BY <1>3, <2>1, MonitoringDetermined
<1>5. CASE m \in {"garden", "seed"}
  <2>1. o \in CreateControlPlane(v) \union CreateShootRights(v) \union CreateNetworkPolicy(v)
                \union {KeepObject(crd) : crd \in GetShootCRDs(v)}
    BY <1>5 DEF ObjectsOf, RuntimeObjects
  <2>2. ~v.shoot
    BY <1>1, <1>5 DEF ClassOf
  <2> HIDE DEF v
  <2>3. CASE o \in {KeepObject(crd) : crd \in GetShootCRDs(v)}
    BY <2>2, <2>3, CRDsDetermined DEF GetShootCRDs
  <2> QED
    BY <1>3, <2>1, <2>3, RightsDetermined
<1> QED
  BY <1>2, <1>4, <1>5 DEF ManagedResources

\* A ManagedResource is finite.
LEMMA ObjectsFinite ==
  ASSUME NEW m \in ManagedResources, NEW wish, IsFiniteSet(wish.provider.ownIssuers)
  PROVE  IsFiniteSet(ObjectsOf(m, wish))
<1> DEFINE v == CreateValues(m, wish)
<1>1. IsFiniteSet(v.ownIssuers)
  <2>1. v.ownIssuers = wish.provider.ownIssuers
    BY DEF CreateValues
  <2> HIDE DEF v
  <2> QED
    BY <2>1
<1>2. IsFiniteSet(GetShootCRDs(v)) /\ IsFiniteSet({KeepObject(crd) : crd \in GetShootCRDs(v)})
  <2> DEFINE A == CRD("certificates")
             B == CRD("certificaterevocations")
             C == CRD("issuers")
  <2>1. /\ GetShootCRDs(v) \subseteq {A, B, C, A, A}
        /\ {KeepObject(crd) : crd \in GetShootCRDs(v)}
              \subseteq {KeepObject(A), KeepObject(B), KeepObject(C), KeepObject(A), KeepObject(A)}
    BY DEF GetShootCRDs, CRDNames
  <2> HIDE DEF v, A, B, C
  <2> QED
    BY <2>1, FiniteFive, FS_Subset
<1> HIDE DEF v
<1>3. IsFiniteSet(CreateIssuers(v))
  <2> DEFINE T == {o \in v.ownIssuers : v.shoot /\ o.name # v.issuerName}
  <2>1. IsFiniteSet(T)
    BY <1>1, FS_Subset
  <2>2. IsFiniteSet({CreateIssuer(v, own.name, own.secrets) : own \in T})
    BY <2>1, FiniteIssuers
  <2>3. IsFiniteSet(CreateIssuerSecrets(v))
    BY FiniteWhen DEF CreateIssuerSecrets
  <2>4. IsFiniteSet({CreateIssuer(v, v.issuerName, DefaultIssuerSecrets(v))})
    BY FS_Singleton
  <2>5. IsFiniteSet(CreateIssuerSecrets(v) \union {CreateIssuer(v, v.issuerName, DefaultIssuerSecrets(v))})
    BY <2>3, <2>4, FS_Union
  <2> QED
    BY <2>2, <2>5, FS_Union DEF CreateIssuers
<1>4. IsFiniteSet(CreateControlPlane(v))
  <2>1. IsFiniteSet({CreateServiceAccount(v), CreateRole(v), CreateRoleBinding(v), CreateService(v),
                     CreateDeployment(v)})
    BY FiniteFive
  <2>2. IsFiniteSet(CreateCACertificatesConfigMap(v)) /\ IsFiniteSet(CreateVPA(v))
    BY FiniteWhen DEF CreateCACertificatesConfigMap, CreateVPA
  <2> QED
    BY <1>3, <2>1, <2>2, FS_Union DEF CreateControlPlane
<1>5. IsFiniteSet(CreateShootRights(v)) /\ IsFiniteSet(CreateNetworkPolicy(v))
  <2>1. CreateShootRights(v) = {CreateShootRole(v), CreateShootRoleBinding(v), CreateShootClusterRole(v),
                                CreateShootClusterRoleBinding(v), CreateShootRole(v)}
    BY DEF CreateShootRights
  <2>2. IsFiniteSet(CreateShootRights(v))
    <3>1. IsFiniteSet({CreateShootRole(v), CreateShootRoleBinding(v), CreateShootClusterRole(v),
                       CreateShootClusterRoleBinding(v), CreateShootRole(v)})
      BY FiniteFive
    <3> QED
      BY <2>1, <3>1, Zenon
  <2>3. IsFiniteSet(CreateNetworkPolicy(v))
    BY FiniteWhen DEF CreateNetworkPolicy
  <2> QED
    BY <2>2, <2>3
<1>6. CASE m = "shoot-shoot"
  <2>1. ObjectsOf(m, wish) = CreateShootRights(v) \union GetShootCRDs(v)
    BY <1>6 DEF ObjectsOf, ShootObjects, v
  <2> QED
    BY <1>2, <1>5, <2>1, FS_Union
<1>7. CASE m = "shoot-seed"
  <2> DEFINE D == {CreatePodDisruptionBudget(v), CreateDashboardsConfigMap(v), CreateServiceMonitor(v)}
  <2>1. ObjectsOf(m, wish) = (CreateControlPlane(v) \union D) \union CreatePrometheusRule(v)
    BY <1>7 DEF ObjectsOf, SeedObjects, v
  <2>2. D = {CreatePodDisruptionBudget(v), CreateDashboardsConfigMap(v), CreateServiceMonitor(v),
             CreateServiceMonitor(v), CreateServiceMonitor(v)}
    OBVIOUS
  <2>3. IsFiniteSet(D)
    BY <2>2, FiniteFive
  <2>4. IsFiniteSet(CreatePrometheusRule(v))
    BY FiniteWhen DEF CreatePrometheusRule
  <2> HIDE DEF D
  <2>5. IsFiniteSet(CreateControlPlane(v) \union D)
    BY <1>4, <2>3, FS_Union
  <2> QED
    BY <2>1, <2>4, <2>5, FS_Union
<1>8. CASE m \in {"garden", "seed"}
  <2> DEFINE K == {KeepObject(crd) : crd \in GetShootCRDs(v)}
  <2>1. ObjectsOf(m, wish)
          = ((CreateControlPlane(v) \union CreateShootRights(v)) \union CreateNetworkPolicy(v)) \union K
    BY <1>8 DEF ObjectsOf, RuntimeObjects, v
  <2>2. IsFiniteSet(K)
    BY <1>2
  <2> HIDE DEF K
  <2>3. IsFiniteSet((CreateControlPlane(v) \union CreateShootRights(v)) \union CreateNetworkPolicy(v))
    BY <1>4, <1>5, FS_Union
  <2> QED
    BY <2>1, <2>2, <2>3, FS_Union
<1> QED
  BY <1>6, <1>7, <1>8 DEF ManagedResources

-----------------------------------------------------------------------------
(* gardener-resource-manager                                                *)

\* The provider config of an Extension has no two issuers of one name.
LEMMA ProviderUnique ==
  ASSUME NEW p \in ProviderConfigs \union {Plain} PROVE UniqueIssuers(p.ownIssuers)
<1>1. CASE p \in ProviderConfigs
  BY <1>1, ConstantsAssumption DEF UniqueIssuers
<1>2. CASE p = Plain
  <2>1. p.ownIssuers = {}
    BY <1>2 DEF Plain
  <2> QED
    BY <2>1, FS_EmptySet DEF UniqueIssuers
<1> QED
  BY <1>1, <1>2

\* What is applied keeps the objects finite and without duplicates.
LEMMA ApplyUnique ==
  ASSUME ObjectsInv, IsFiniteSet(objects), Distinct(objects), NEW m, NEW data,
         \A o \in data : Deployable(o), IsFiniteSet(data), Distinct(data)
  PROVE  IsFiniteSet(Apply(m, data)) /\ Distinct(Apply(m, data))
<1> DEFINE rest == {o \in objects : o.id \notin Identities(data) /\ (o.keep \/ o.id \notin mr[m].status)}
           written == {Merged(o) : o \in data}
<1>1. Apply(m, data) = rest \union written
  BY DEF Apply, Merged
<1>2. \A o \in data : Merged(o).id = o.id
  BY MergeKeeps
<1>3. IsFiniteSet(written)
  <2> DEFINE f == [o \in data |-> Merged(o)]
  <2>1. f = [o \in data |-> f[o]]
    OBVIOUS
  <2>2. {f[o] : o \in data} = written
    OBVIOUS
  <2> HIDE DEF f, written
  <2>3. IsFiniteSet({f[o] : o \in data})
    BY <2>1, FiniteImage
  <2> QED
    BY <2>2, <2>3
<1>4. IsFiniteSet(rest)
  BY FS_Subset
<1>5. ASSUME NEW a \in written, NEW b \in written, a.id = b.id PROVE a = b
  <2>1. PICK x \in data : a = Merged(x)
    OBVIOUS
  <2>2. PICK y \in data : b = Merged(y)
    OBVIOUS
  <2>3. x.id = y.id
    BY <1>2, <1>5, <2>1, <2>2
  <2> QED
    BY <2>1, <2>2, <2>3 DEF Distinct
<1>6. ASSUME NEW a \in rest, NEW b \in written PROVE a.id # b.id
  <2>1. PICK y \in data : b = Merged(y)
    OBVIOUS
  <2>2. b.id \in Identities(data)
    BY <1>2, <2>1 DEF Identities
  <2> QED
    BY <2>2
<1>7. ASSUME NEW a \in rest, NEW b \in rest, a.id = b.id PROVE a = b
  BY <1>7 DEF Distinct
<1> HIDE DEF rest, written
<1>8. Distinct(rest \union written)
  BY <1>5, <1>6, <1>7 DEF Distinct
<1> QED
  BY <1>1, <1>3, <1>4, <1>8, FS_Union

-----------------------------------------------------------------------------
(* Initially, and every step                                                *)

\* At first: the chart, whose CRDs have different names.
LEMMA InitTypeInv == Init => TypeInv
<1> SUFFICES ASSUME Init PROVE TypeInv
  OBVIOUS
<1>1. WishInv
  BY DEF Init, WishInv, Option, Absent
<1>2. StateInv
  BY ConstantsAssumption DEF Init, StateInv, Absent, HealthTypeOK, HealthInit, Conditions
<1>3. IsFiniteSet(objects)
  <2>1. objects = {KeepObject(CRD("certificates")), KeepObject(CRD("certificaterevocations")),
                   KeepObject(CRD("issuers")), KeepObject(CRD("issuers")), KeepObject(CRD("issuers"))}
    BY DEF Init, ChartObjects, CRDNames
  <2> QED
    BY <2>1, FiniteFive
<1>4. Distinct(objects)
  <2> SUFFICES ASSUME NEW a \in objects, NEW b \in objects, a.id = b.id PROVE a = b
    BY DEF Distinct
  <2>1. PICK n \in CRDNames, k \in CRDNames : a = KeepObject(CRD(n)) /\ b = KeepObject(CRD(k))
    BY DEF Init, ChartObjects
  <2>2. a.id[3] = n /\ b.id[3] = k
    BY <2>1, CRDFields
  <2> QED
    BY <2>1, <2>2
<1>5. UniqueInv
  <2>1. \A m \in ManagedResources : mr[m].data = {}
    BY DEF Init, Absent
  <2>2. Distinct({}) /\ IsFiniteSet({})
    BY FS_EmptySet DEF Distinct
  <2> QED
    BY <1>3, <1>4, <2>1, <2>2 DEF UniqueInv
<1>6. IssuersInv
  <2>1. \A o \in objects : o.id[1] = "CustomResourceDefinition"
    BY ChartKind DEF Init, IsCRD
  <2>2. IssuersIn(objects) = {}
    BY <2>1 DEF IssuersIn
  <2>3. DOMAIN issuers = {}
    BY DEF Init
  <2> QED
    BY <2>2, <2>3 DEF IssuersInv
<1> QED
  BY <1>1, <1>2, <1>5, <1>6 DEF TypeInv

\* What is served and deployed comes from the files and the Extensions.
LEMMA StepWish == States /\ WishInv /\ [Next]_vars => WishInv'
<1> SUFFICES ASSUME States, WishInv, [Next]_vars PROVE WishInv'
  OBVIOUS
<1>same. serving' = serving /\ mr' = mr => WishInv'
  BY DEF WishInv
<1>1. ASSUME NEW i \in Installations, Start(i) PROVE WishInv'
  <2>1. Run(i, {file[i]}) \in Option(ServedConfigs)
    <3>1. \A s \in Run(i, {file[i]}) : s = SetDefaults(file[i])
      BY DEF Run, Complete
    <3>2. SetDefaults(file[i]) \in ServedConfigs
      BY DEF States, ServedConfigs
    <3> QED
      BY <3>1, <3>2 DEF Option
  <2> QED
    BY <1>1, <2>1 DEF Start, States, WishInv, clusterVars
<1>2. ASSUME NEW i \in Installations, NEW c \in Classes, Deploy(i, c) PROVE WishInv'
  <2>1. PICK s \in serving[i] : \A m \in ManagedResources : Deployed(m, c, [service |-> s, provider |-> ext[c].config])
    BY <1>2, DeployEffect
  <2> DEFINE wish == [service |-> s, provider |-> ext[c].config]
  <2>2. s \in ServedConfigs /\ ext[c].config \in ProviderConfigs \union {Plain} /\ serving' = serving
    BY <1>2 DEF WishInv, States, Option, Deploy
  <2>3. wish \in Wishes
    BY <2>2 DEF Wishes
  <2>4. \A m \in ManagedResources : Deployed(m, c, wish)
    BY <2>1
  <2> HIDE DEF wish
  <2>5. \A m \in ManagedResources : mr'[m].wish = {wish} \/ mr'[m].wish = mr[m].wish
    BY <2>4 DEF Deployed
  <2>6. {wish} \in Option(Wishes)
    BY <2>3 DEF Option
  <2> QED
    BY <2>2, <2>5, <2>6 DEF WishInv
<1>3. ASSUME NEW i \in Installations, NEW c \in Classes, Delete(i, c) PROVE WishInv'
  <2>1. \A m \in ManagedResources : mr'[m].wish = mr[m].wish
    BY <1>3 DEF Delete, States
  <2> QED
    BY <1>3, <2>1 DEF Delete, WishInv
<1>4. ASSUME NEW i \in Installations, NEW c \in Classes, Release(i, c) PROVE WishInv'
  BY <1>4, <1>same DEF Release, clusterVars
<1>5. ASSUME HealthCheckRuns PROVE WishInv'
  BY <1>5, <1>same DEF HealthCheckRuns, clusterVars
<1>6. ASSUME NEW i \in Installations, Stop(i) PROVE WishInv'
  BY <1>6 DEF Stop, States, WishInv, Option, clusterVars
<1>7. ASSUME CheckError PROVE WishInv'
  BY <1>7, <1>same DEF CheckError, clusterVars
<1>8. ASSUME NEW i \in Installations, EditFile(i) PROVE WishInv'
  BY <1>8, <1>same DEF EditFile, clusterVars
<1>9. ASSUME NEW c \in Classes, CreateExtension(c) PROVE WishInv'
  BY <1>9, <1>same DEF CreateExtension, clusterVars
<1>10. ASSUME EditExtension PROVE WishInv'
  BY <1>10, <1>same DEF EditExtension, clusterVars
<1>11. ASSUME NEW c \in Classes, DeleteExtension(c) PROVE WishInv'
  BY <1>11, <1>same DEF DeleteExtension, clusterVars
<1>12. ASSUME NEW m \in ManagedResources, GRMApply(m) PROVE WishInv'
  <2>1. \A k \in ManagedResources : mr'[k].wish = mr[k].wish
    BY <1>12 DEF GRMApply, States
  <2> QED
    BY <1>12, <2>1 DEF GRMApply, WishInv
<1>13. ASSUME NEW m \in ManagedResources, GRMRemove(m) PROVE WishInv'
  <2>1. \A k \in ManagedResources : mr'[k].wish = mr[k].wish \/ mr'[k].wish = {}
    BY <1>13 DEF GRMRemove, States, Absent
  <2>2. {} \in Option(Wishes)
    BY DEF Option
  <2> QED
    BY <1>13, <2>1, <2>2 DEF GRMRemove, WishInv
<1>14. ASSUME NEW n \in DOMAIN issuers, IssuerReady(n) \/ IssuerFails(n) PROVE WishInv'
  BY <1>14, <1>same DEF IssuerReady, IssuerFails
<1>15. CASE UNCHANGED vars
  BY <1>15, <1>same DEF vars, clusterVars
<1> QED
  BY <1>1, <1>2, <1>3, <1>4, <1>5, <1>6, <1>7, <1>8, <1>9, <1>10, <1>11, <1>12, <1>13, <1>14, <1>15
     DEF Next, Processes, GRM, Environment

\* States of ManagedResources, of the condition, and the bounded changes.
LEMMA StepState == States /\ StateInv /\ [Next]_vars => StateInv'
<1> SUFFICES ASSUME States, StateInv, [Next]_vars PROVE StateInv'
  OBVIOUS
<1>same. mr' = mr /\ UNCHANGED healthVars /\ changes' = changes => StateInv'
  BY DEF StateInv, healthVars, HealthTypeOK
<1>change. Change => changes' \in 0..MaxChanges
  BY ConstantsAssumption DEF Change, StateInv
<1>1. ASSUME NEW i \in Installations, Start(i) PROVE StateInv'
  BY <1>1 DEF Start, StateInv, HealthTypeOK, AbortCheck, clusterVars
<1>2. ASSUME NEW i \in Installations, NEW c \in Classes, Deploy(i, c) PROVE StateInv'
  <2>1. PICK s \in serving[i] : \A m \in ManagedResources : Deployed(m, c, [service |-> s, provider |-> ext[c].config])
    BY <1>2, DeployEffect
  <2>2. \A m \in ManagedResources : mr'[m].st \in {"absent", "present", "deleting"}
    BY <2>1 DEF Deployed, StateInv
  <2> QED
    BY <1>2, <2>2 DEF Deploy, StateInv, HealthTypeOK, healthVars
<1>3. ASSUME NEW i \in Installations, NEW c \in Classes, Delete(i, c) PROVE StateInv'
  <2>1. \A m \in ManagedResources : mr'[m].st \in {"absent", "present", "deleting"}
    BY <1>3 DEF Delete, States, StateInv
  <2> QED
    BY <1>3, <2>1 DEF Delete, StateInv, HealthTypeOK, healthVars
<1>4. ASSUME NEW i \in Installations, NEW c \in Classes, Release(i, c) PROVE StateInv'
  BY <1>4, <1>same DEF Release, clusterVars
<1>5. ASSUME HealthCheckRuns PROVE StateInv'
  <2>1. HealthTypeOK'
    BY <1>5 DEF HealthCheckRuns, StateInv, HealthTypeOK, PreCheckFunc, CheckManagedResource,
       CheckIssuers, Report, Conditions
  <2> QED
    BY <1>5, <2>1 DEF HealthCheckRuns, StateInv, clusterVars
<1>6. ASSUME NEW i \in Installations, Stop(i) PROVE StateInv'
  BY <1>6, <1>change DEF Stop, StateInv, HealthTypeOK, AbortCheck, clusterVars
<1>7. ASSUME CheckError PROVE StateInv'
  BY <1>7, <1>change DEF CheckError, StateInv, HealthTypeOK, CheckFails, Report, Conditions, clusterVars
<1>8. ASSUME NEW i \in Installations, EditFile(i) PROVE StateInv'
  BY <1>8, <1>change DEF EditFile, StateInv, HealthTypeOK, healthVars, clusterVars
<1>9. ASSUME NEW c \in Classes, CreateExtension(c) PROVE StateInv'
  BY <1>9, <1>same DEF CreateExtension, clusterVars
<1>10. ASSUME EditExtension PROVE StateInv'
  BY <1>10, <1>change DEF EditExtension, StateInv, HealthTypeOK, healthVars, clusterVars
<1>11. ASSUME NEW c \in Classes, DeleteExtension(c) PROVE StateInv'
  BY <1>11, <1>change DEF DeleteExtension, StateInv, HealthTypeOK, healthVars, clusterVars
<1>12. ASSUME NEW m \in ManagedResources, GRMApply(m) PROVE StateInv'
  <2>1. \A k \in ManagedResources : mr'[k].st = mr[k].st
    BY <1>12 DEF GRMApply, States
  <2> QED
    BY <1>12, <2>1 DEF GRMApply, StateInv, HealthTypeOK, healthVars
<1>13. ASSUME NEW m \in ManagedResources, GRMRemove(m) PROVE StateInv'
  <2>1. \A k \in ManagedResources : mr'[k].st = mr[k].st \/ mr'[k].st = "absent"
    BY <1>13 DEF GRMRemove, States, Absent
  <2> QED
    BY <1>13, <2>1 DEF GRMRemove, StateInv, HealthTypeOK, healthVars
<1>14. ASSUME NEW n \in DOMAIN issuers, IssuerReady(n) PROVE StateInv'
  BY <1>14, <1>same DEF IssuerReady
<1>15. ASSUME NEW n \in DOMAIN issuers, IssuerFails(n) PROVE StateInv'
  BY <1>15, <1>change DEF IssuerFails, StateInv, HealthTypeOK, healthVars
<1>16. CASE UNCHANGED vars
  BY <1>16, <1>same DEF vars, clusterVars
<1> QED
  BY <1>1, <1>2, <1>3, <1>4, <1>5, <1>6, <1>7, <1>8, <1>9, <1>10, <1>11, <1>12, <1>13, <1>14, <1>15, <1>16
     DEF Next, Processes, GRM, Environment

\* Data are finite and without duplicates as they are written, and the objects
\* as they are applied.
LEMMA StepUnique == States /\ DataInv /\ ObjectsInv /\ UniqueInv /\ [Next]_vars => UniqueInv'
<1> SUFFICES ASSUME States, DataInv, ObjectsInv, UniqueInv, [Next]_vars PROVE UniqueInv'
  OBVIOUS
<1>same. mr' = mr /\ objects' = objects => UniqueInv'
  BY DEF UniqueInv
<1>1. ASSUME NEW i \in Installations, Start(i) \/ Stop(i) \/ EditFile(i) PROVE UniqueInv'
  BY <1>1, <1>same DEF Start, Stop, EditFile, clusterVars
<1>2. ASSUME NEW i \in Installations, NEW c \in Classes, Deploy(i, c) PROVE UniqueInv'
  <2>1. PICK s \in serving[i] : \A m \in ManagedResources : Deployed(m, c, [service |-> s, provider |-> ext[c].config])
    BY <1>2, DeployEffect
  <2> DEFINE wish == [service |-> s, provider |-> ext[c].config]
  <2>2. UniqueIssuers(wish.provider.ownIssuers)
    BY ProviderUnique DEF States
  <2>3. \A m \in ManagedResources : Deployed(m, c, wish)
    BY <2>1
  <2> HIDE DEF wish
  <2>4. \A m \in ManagedResources : IsFiniteSet(ObjectsOf(m, wish)) /\ Distinct(ObjectsOf(m, wish))
    BY <2>2, ObjectsDistinct, ObjectsFinite DEF UniqueIssuers
  <2>5. \A m \in ManagedResources : mr'[m].data = ObjectsOf(m, wish) \/ mr'[m].data = mr[m].data
    BY <2>3 DEF Deployed
  <2>6. objects' = objects
    BY <1>2 DEF Deploy
  <2> QED
    BY <2>4, <2>5, <2>6 DEF UniqueInv
<1>3. ASSUME NEW i \in Installations, NEW c \in Classes, Delete(i, c) PROVE UniqueInv'
  <2>1. \A m \in ManagedResources : mr'[m].data = mr[m].data
    BY <1>3 DEF Delete, States
  <2> QED
    BY <1>3, <2>1 DEF Delete, UniqueInv
<1>4. ASSUME NEW i \in Installations, NEW c \in Classes, Release(i, c) PROVE UniqueInv'
  BY <1>4, <1>same DEF Release, clusterVars
<1>5. ASSUME HealthCheckRuns \/ CheckError \/ EditExtension PROVE UniqueInv'
  BY <1>5, <1>same DEF HealthCheckRuns, CheckError, EditExtension, clusterVars
<1>6. ASSUME NEW c \in Classes, CreateExtension(c) \/ DeleteExtension(c) PROVE UniqueInv'
  BY <1>6, <1>same DEF CreateExtension, DeleteExtension, clusterVars
<1>7. ASSUME NEW m \in ManagedResources, GRMApply(m) PROVE UniqueInv'
  <2>1. objects' = Apply(m, mr[m].data)
    BY <1>7 DEF GRMApply
  <2>2. IsFiniteSet(objects') /\ Distinct(objects')
    BY <2>1, ApplyUnique DEF UniqueInv, DataInv
  <2>3. \A k \in ManagedResources : mr'[k].data = mr[k].data
    BY <1>7 DEF GRMApply, States
  <2> QED
    BY <2>2, <2>3 DEF UniqueInv
<1>8. ASSUME NEW m \in ManagedResources, GRMRemove(m) PROVE UniqueInv'
  <2>1. objects' = Apply(m, {})
    BY <1>8 DEF GRMRemove
  <2>2. ASSUME NEW d, d = {} PROVE IsFiniteSet(d) /\ Distinct(d) /\ (\A o \in d : Deployable(o))
    BY <2>2, FS_EmptySet DEF Distinct
  <2>3. IsFiniteSet(objects') /\ Distinct(objects')
    <3>1. ASSUME NEW d, d = {} PROVE IsFiniteSet(Apply(m, d)) /\ Distinct(Apply(m, d))
      BY <2>2, <3>1, ApplyUnique DEF UniqueInv
    <3> QED
      BY <2>1, <3>1
  <2>4. \A k \in ManagedResources : mr'[k].data = mr[k].data \/ mr'[k].data = {}
    BY <1>8 DEF GRMRemove, States, Absent
  <2> QED
    BY <2>2, <2>3, <2>4 DEF UniqueInv
<1>9. ASSUME NEW n \in DOMAIN issuers, IssuerReady(n) \/ IssuerFails(n) PROVE UniqueInv'
  BY <1>9, <1>same DEF IssuerReady, IssuerFails
<1>10. CASE UNCHANGED vars
  BY <1>10, <1>same DEF vars, clusterVars
<1> QED
  BY <1>1, <1>2, <1>3, <1>4, <1>5, <1>6, <1>7, <1>8, <1>9, <1>10 DEF Next, Processes, GRM, Environment

\* States are kept for the Issuers that are there.
LEMMA StepIssuers == IssuersInv /\ [Next]_vars => IssuersInv'
<1> SUFFICES ASSUME IssuersInv, [Next]_vars PROVE IssuersInv'
  OBVIOUS
<1>same. issuers' = issuers /\ objects' = objects => IssuersInv'
  BY DEF IssuersInv
<1>1. ASSUME NEW i \in Installations, Start(i) \/ Stop(i) \/ EditFile(i) PROVE IssuersInv'
  BY <1>1, <1>same DEF Start, Stop, EditFile, clusterVars
<1>2. ASSUME NEW i \in Installations, NEW c \in Classes, Deploy(i, c) \/ Delete(i, c) \/ Release(i, c)
      PROVE  IssuersInv'
  BY <1>2, <1>same DEF Deploy, Delete, Release, clusterVars
<1>3. ASSUME HealthCheckRuns \/ CheckError \/ EditExtension PROVE IssuersInv'
  BY <1>3, <1>same DEF HealthCheckRuns, CheckError, EditExtension, clusterVars
<1>4. ASSUME NEW c \in Classes, CreateExtension(c) \/ DeleteExtension(c) PROVE IssuersInv'
  BY <1>4, <1>same DEF CreateExtension, DeleteExtension, clusterVars
<1>5. ASSUME NEW m \in ManagedResources, GRMApply(m) \/ GRMRemove(m) PROVE IssuersInv'
  <2>1. IssuersFollow
    BY <1>5 DEF GRMApply, GRMRemove
  <2> QED
    BY <2>1 DEF IssuersFollow, IssuersInv, IssuersIn
<1>6. ASSUME NEW n \in DOMAIN issuers, IssuerReady(n) \/ IssuerFails(n) PROVE IssuersInv'
  BY <1>6 DEF IssuerReady, IssuerFails, IssuersInv
<1>7. CASE UNCHANGED vars
  BY <1>7, <1>same DEF vars, clusterVars
<1> QED
  BY <1>1, <1>2, <1>3, <1>4, <1>5, <1>6, <1>7 DEF Next, Processes, GRM, Environment

-----------------------------------------------------------------------------
(* The theorem                                                              *)

\* Every variable has its type, and no two objects in the cluster have one
\* identity: whatever issuers a shoot brings, also one with the name of the
\* default issuer, no ManagedResource has two objects of one name.
THEOREM TypeCorrect == Spec => []TypeOK
<1>1. IInv /\ TypeInv /\ [Next]_vars => TypeInv'
  BY StepWish, StepState, StepUnique, StepIssuers DEF TypeInv, IInv
<1>2. IInv /\ TypeInv => TypeOK
  <2>1. UniqueInv => Cardinality(Identities(objects)) = Cardinality(objects)
    BY AsManyIdentities DEF UniqueInv
  <2> QED
    BY <2>1 DEF IInv, States, TypeInv, WishInv, StateInv, IssuersInv, TypeOK
<1> QED
  BY <1>1, <1>2, InvariantHolds, InitTypeInv, PTL DEF Spec
=============================================================================
