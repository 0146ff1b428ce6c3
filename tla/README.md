# Specifications of gardener-extension-shoot-cert-service

TLA+ models of the controllers in this repository, checked with TLC on small
instances, and machine-checked proofs (TLAPS) about most of what they say.
Paths are relative to the repository's root (`src/` in `PROJECT.json`).

## 1. The system

The extension deploys cert-management (the `cert-controller-manager`) for
Gardener. One binary runs two controllers on `Extension` resources of type
`shoot-cert-service`: one for the class *shoot*, one for the runtime classes
*garden* and *seed*. Both are actuators of Gardener's generic extension
reconciler, which takes requests from a workqueue, keeps status, finalizer and
operation annotation, and calls `Reconcile`, `Delete`, `Migrate`, `Restore` or
`ForceDelete`. What an actuator deploys goes into ManagedResources (MR), which
gardener-resource-manager (GRM) applies and removes.

| Component | State | Operations | Talks to |
|---|---|---|---|
| shoot controller (`extension/shoot`) | Extension, shoot MR, seed MR, access secret | Reconcile, Restore, Delete, ForceDelete, Migrate; watch on the `shoot-dns-service` Extension | Cluster (read from the cache), GRM of shoot and seed, deployer |
| runtime controller, class garden (`extension/controlplane`) | Extension and its hash annotation, Certificate `garden/tls`, MR | Reconcile, Delete; watch on Gardens | Garden, cert-controller-manager, GRM, deployer |
| runtime controller, class seed | Extension, Certificate, DNS provider secret, MR, cached garden client | Reconcile, Delete | Seed in the virtual garden, deployer |
| deployer (`extension/shared`) | `Values`; objects of the MRs | issuers, secrets, arguments, rights, CRDs; validation of referenced secrets | secrets in the namespace |
| provider config validation (`apis/service/validation`) | none | `ValidateCertConfig` | resources of the shoot |
| configuration and its validation (`apis/config`) | none | `ValidateConfiguration` | start-up |
| health check (`controller/healthcheck`) | none | `Check` | Issuers, seed MR |
| command, options, manager (`cmd`, `pkg/cmd`) | flags | start-up | both controllers |
| assets, charts, generated code | static | none | none |

What is hard here:

* **Interleaving.** Every API call of a worker can be separated from the next by
  edits, hibernation, deletion or migration of the shoot, events of the DNS
  service, changes of the Garden. Requests that arrive while a worker runs are
  merged into one.
* **Stale reads.** Cluster and Extension come from informer caches.
* **Failure.** Any call may fail, any wait may time out, the process may restart
  between any two calls; the next attempt starts from the first step.
* **Order.** The seed side (controller, issuers, credentials) works on the shoot
  side (CRDs, roles): it must come after and go after it. A Certificate with a
  finalizer needs its controller.
* **Two packages, one meaning.** Validation and deployer interpret the same
  provider config; arguments, rights, volumes and status are computed by
  different functions from the same values.

What makes the components correct:

* shoot controller: no controller without what it needs in the shoot; the seed
  side goes last; nothing is left when the finalizer is released; a migration
  keeps the objects in the shoot; success means the current config; deletion and
  migration end; things converge when changes stop.
* garden class: the annotation vouches for the Certificate; the Certificate
  follows the Garden; deletion goes in order, ends and leaves nothing.
* seed class: the Certificate has the credentials of its own provider and names of
  one domain; both follow the Seed and go together.
* deployer: a validated config deploys; the default issuer is the configured one;
  all references resolve; the controller may do what its arguments tell it to;
  status covers the accounts; ManagedResources that share a cluster do not take
  each other's objects away, and what they leave behind are the CRDs.
* configuration and start: nothing is deployed from a file the controller cannot
  work with; every Extension is served by exactly one process.
* health check: the condition follows the Issuers.

`PROJECT.json` lists the components with what is left out of each, the hazards
with the line where each bites, and the source lines every definition models.

## 2. Modules

| Module | Role |
|---|---|
| `ShootExtension` | shoot controller with gardenlet, informer caches, generic reconciler and GRM around it |
| `TwoSidedDeployment` | the abstract promise about shoot side and seed side |
| `ShootExtensionInvariant` | the inductive invariant `IInv` |
| `ShootExtensionTypeProofs`, `ShootExtensionProofs` | proofs |
| `MCShootExtension` | instances for TLC |
| `GardenExtension`, `MCGardenExtension` | runtime controller of class garden with Garden, cert-controller-manager, GRM |
| `SeedExtension`, `MCSeedExtension` | runtime controller of class seed with Seed, DNS provider secret, cert-controller-manager, GRM |
| `ManagedCertificate` | the abstract promise about a Certificate generated for a source, which both runtime classes implement |
| `CertDeployment`, `MCCertDeployment` | what a reconciliation writes: validation, values, issuers, arguments, rights, status, for all three classes |
| `DeployedObjects` | the objects of the four ManagedResources: names, references, selectors, what is kept |
| `ServiceConfiguration` | the configuration file: validation, defaults, loading; which process serves which class |
| `HealthCheck` | steps of the health check |
| `RuntimeCluster`, `MCRuntimeCluster` | composes the three above: one cluster with two installations, three classes and four ManagedResources |
| `GardenExtensionProofs`, `SeedExtensionProofs`, `CertDeploymentProofs`, `RuntimeClusterProofs`, `RuntimeClusterTypeProofs` | proofs |

`ShootExtension` and `CertDeployment` look at the same reconciliation from two
sides. In the first a provider config is a revision number and the question is
*which* config is where, after failures, restarts, hibernation, deletion and
migration. In the second the configs have structure and the question is whether
*what* is written fits together. `RuntimeCluster` takes a reconciliation as one
step and asks what several of them do to one cluster.

### ShootExtension

One action per API call. `pc` is the worker's next call, `wop` the operation,
`snap` what the actuator holds in local variables.

| Action | Code |
|---|---|
| `Dequeue`, `DequeueNothing`, `Succeed`, `Fail` | generic reconciler: operation from annotation, deletion timestamp and last operation; status, finalizer, retry |
| `GetCluster` .. `ReconcileAccessSecret` | `Reconcile` up to and with `createValues` |
| `DeployShoot`, `DeploySeed` | `DeployShootManagedResource` (skipped when hibernated), `DeploySeedManagedResource` with the validation of issuer secrets |
| `UpdateStatus` | `updateStatus` |
| `KeepObjects` | first step of `Migrate`, then `Delete` |
| `DeleteShoot`, `WaitShoot`, `WaitShootTimeout`, `DropShoot` | `DeleteShootManagedResourceAndWait` and the error branch of `Delete`, with the ten minute rule |
| `DeleteAccessSecret`, `DeleteSeed`, `WaitSeed`, `WaitSeedTimeout` | `DeleteSeedManagedResourceAndWait` |
| `CallFails` | the error return of whatever call is next |
| `Restart` | the process starts again; informers list and predicates decide what is enqueued |
| `DNSServiceChanges` | predicate and mapper of the watch in `shoot/add.go` |
| the rest | environment: gardenlet, cache, users, GRM |

The shoot's side of an MR is its own state: `shootObjs` is what is in the shoot,
GRM needs the shoot's API server to change it, holds the MR by a finalizer, and
foreign finalizers can block it for good. Steps that cannot fail on their own
(computing values) are folded into the call that follows.

### GardenExtension

`Reconcile` lists the Gardens, writes the Certificate, notes the hash of the
domains it has used in an annotation, one call per step; `Delete` removes the
Certificate, then the MR. Garden events pass the predicate
(`GardenReconciled`, `CreateGarden`), wait in `events`, and `MapGarden` compares
the hash with the annotation as the cache has it (`hashSeen`). The Certificate
may have a finalizer of the cert-controller-manager (`CertFinalizers`), which is
only released while that is deployed.

### ManagedCertificate

A source (Gardens, or the Seed) says which names a Certificate shall have and which
credentials it needs. The promise: the Certificate in use has what the *only* source
said at one moment, never a mixture of two states; it is written after its credentials
and while its controller is there; credentials go only when it is not in use, and so does
the controller, unless the Certificate may outlive it (`Outlives`, class seed).
`GardenExtension` and `SeedExtension` map Certificate, `picked`, secret and MR to it.
DNS provider annotations of the Garden's Certificate are not part of it: they survive a
Garden that no longer names a provider.

### CertDeployment

`Read`, `DeployShoot`, `CreateIssuers`, `DeploySeed`, `UpdateStatus` are the
steps of one reconciliation; the operators before them are the functions of
`shared` and of the validation package. The environment changes provider config,
resources, hibernation and the configuration of the process between the steps.
A secret is a pair of purpose and name, so that collisions of formatted names
are outside of this model. The issuers are a set: their order has no effect.

### SeedExtension

`Reconcile` deploys the MR, creates the client for the virtual garden once, reads the
Seed, its provider's credentials, and writes secret and Certificate, one call per
step; a config without `generateControlPlaneCertificate` deletes both. `GetSeed` ends
in a `Panic` on a Seed without a provider: the code dereferences the nil pointer at
`controlplane/actuator.go:131`, which controller-runtime recovers; the request is
repeated and the status stays *Processing*. `Delete` removes
the MR only, so Certificate and secret survive into a second Extension. A domain
whose wildcard name has more than 64 characters has it among the DNS names instead
of the common name; a patch must clear the field that is no longer used.

### RuntimeCluster

`Start` reads the file of an installation, with defaults and validation, and runs the
controllers that the chart's arguments switch on and `disableControllers` leaves
(`DisabledControllers`). `Deploy`, `Delete` and `Release` are
a reconciliation with `CreateValues` and `ObjectsOf`. `GRMApply` and `GRMRemove` bring
objects into the cluster: an object that is no longer in the data goes unless it
carries the annotation that keeps it. A health check is two or three steps that read
at different times. CRDs are objects of the chart too (`crds.yaml:7,233,686` carry the
annotation), kept from the beginning, and an annotation that one owner has set stays: that
the CRDs remain rests on the chart, and `KeepObject` of the deployer
(`deployer_gardenorseed.go:60`) agrees with it.

Every object has an identity (kind, namespace, name), the identities it needs, the
labels it selects and the label it has. What an object says is left out here; rights,
arguments and volumes are in `CertDeployment`.

## 3. Runs

| Run | Question | Result |
|---|---|---|
| `shoot_served` | can a controller run without credentials or with a shoot side older than itself? can success be reported, and no request be pending, for anything but the current config and DNS variant? | no |
| `shoot_teardown` | order of the teardown, leftovers, kept objects, refinement of `TwoSidedDeployment` | hold |
| `shoot_liveness` | do deletion and migration end? do both sides converge when changes stop? | yes |
| `shoot_drop` | does the ten minute rule remove the shoot MR? | **no**, finding 4 |
| `garden_cert` | annotation and Certificate, leftovers, refinement of `ManagedCertificate` and with it the order of deletion; can a request be lost, an outdated Certificate escape the mapper? does the watch on Gardens alone keep the Certificate current? does deletion end? | hold, no, yes |
| `garden_convergence` | names and provider after any history, with recurring reconciliations | hold |
| `seed_cert` | do Certificate and credentials belong together, follow the Seed, and go when switched off, as `ManagedCertificate` demands? does deletion end? | yes |
| `runtime_cluster` | do ManagedResources of one cluster leave each other's objects alone at every step, installations each other's Extensions, and all nothing but CRDs behind? is only a usable configuration deployed? does every Extension settle, and the health condition follow? | yes |
| `cert_deployment` | do validation, issuers, secrets, rights, arguments, status fit together? | yes |
| `cert_restricted`, `cert_shoot_issuers`, `cert_nameservers` | three statements of the documentation | **violated**, findings 1 to 3 |

Every property of a passing run has a mutant, a definition of the model changed
the way a bug in the code would change it, under which the same run finds the
property violated. Mutants stand right before the definition they replace.

### Bounds

* `MaxCfg`, `MaxChanges`, `MaxErrors`, `MaxCrashes` bound edits, changes of the
  environment, failed calls and restarts. An attempt starts from the first step
  with no memory but the API objects, so one interrupted attempt, one that
  starts from its remains and one that meets a change in the middle are the
  cases there are; two errors or changes produce them. The proofs of section 5
  do without these bounds.
* Each run of `ShootExtension` varies the environment its properties depend on
  and fixes the rest. Unusable secrets are
  the failures between the two writes in `shoot_served`, failed calls are left to
  `shoot_teardown`; `shoot_served` has three configs with an invalid one in
  the middle, so that an accepted config can follow a rejected one.
* `shoot_liveness` has no failed calls but a restart at any step and waits that time
  out: a failed call leaves the objects as a restart at that step does, and both put
  the request back. One change, after which the environment is still, is what the
  properties start from; foreign finalizers may or may not go.
* `seed_cert` has two Seeds with different providers, one with a long domain, and one
  without a provider; three edits suffice for a Seed that changes under the worker,
  back again, and a config that switches the Certificate off.
* `runtime_cluster` has every class once and all four ManagedResources in all orders of
  appearing, which is bounded by nothing. `MaxChanges = 1` bounds what disturbs:
  a file that becomes invalid, another kind of issuer, an Extension edited or deleted,
  a process that stops, an Issuer that fails, a check that fails. Each property is
  about one disturbance and what the others keep. Two of them in a row, an edited config
  and then the deletion of its Extension for one, are beyond this run (five times the
  states); there the theorems count, which prove all safety and action properties without
  this bound: `ClusterCleaned` for what comes and goes with the configuration before the
  Extension goes. No controller is disabled, as by default of the chart; the theorems hold
  for any `DisabledControllers`. The process may stop for good with an
  invalid file and nothing else to do, so deadlock is not checked in this run.
* `MaxEvents = 2` events on their way to the mapper and two Gardens suffice for
  an event that is older than what the worker reads; three changes suffice for a
  Garden that changes and changes back while the worker runs.
* `MCCertDeployment` has the three kinds of default issuer (ACME with and
  without own key, CA) and twelve provider configs: each optional part set and
  unset, an issuer that imitates the default one, a duplicate, and each reason
  for rejection, `alerting` of a runtime class and an unusable nameserver included.

### Fairness

* `WF(Worker)`: controller-runtime keeps handing out queued requests, failed
  requests come back, and both waits end after two minutes. A call fails at most
  `MaxErrors` times; that a failing call is repeated forever is not assumed to
  end well.
* `WF(SyncCache)`, `WF(SyncHash)`, `WF(MapGarden)`: informers catch up.
* `WF(TenMinutesPass)`: time passes.
* `WF(Annotate)`: gardenlet reconciles every shoot in its maintenance
  window. `Converges` needs it because neither a changed Cluster nor a deleted
  DNS service enqueues the Extension. `CertTracksGarden` does without it
  (`FairSpec`), `CertCurrent` needs it (`AnnotatingSpec`): the hash does not
  cover the DNS provider.
* `SeedExtension` assumes the same of its worker and of recurring reconciliations; the
  Seed has no watch, so `CertTracksSeed` rests on those.
* `RuntimeCluster`: Kubernetes restarts a process that can start, Extensions are
  reconciled and checked again and again, GRM keeps working. `Settles` and
  `HealthFollowsIssuers` assume of file, Extensions and Issuers that they stay as
  they are from some time on.
* `WF` of GRM, of the cert-controller-manager and of gardener-operator, which
  reconciles the Garden again and again. Nothing is assumed of users, of foreign
  finalizers, or of restarts.

Deadlock is checked in every run but `runtime_cluster`. `Terminated` in `ShootExtension` is the one
place where that system may stop: the Extension is gone for good.

## 4. Findings

1. `restrictIssuer` has no effect: `createValues` asks `RestrictedIssuer()`, which
   requires the restricted domains to be set, before it sets them
   (`shoot/actuator.go:159`, `shared/deployer.go:108`). `README.md:19` promises the
   restriction.
2. `shootIssuers` of the service configuration is never consulted
   (`shared/deployer.go:161`), although `apis/service/types.go:25,103` say the provider
   config *overwrites* it and `docs/usage/custom_shoot_issuer.md:83` that it is enabled
   "either ... globally in the `ControllerDeployment` or in the shoot manifest". The function that did (`createShootIssuersValues`) is
   still there, unused.
3. With precheck nameservers in the provider config and none in the
   configuration the controller's argument ends with an empty nameserver
   (`shared/deployer.go:117`).
4. On a shoot that is deleting for more than ten minutes any failed call of the
   shoot MR's deletion, not only a blocked one, leads to the drop
   (`shoot/actuator.go:105`). When the Delete call itself failed, finalizers are
   taken off an MR that is not under deletion: GRM puts its finalizer back and the
   MR outlives the Extension.

## 5. Proofs

### ShootExtension

Proved for every value of the constants that satisfies
`ConstantsAssumption` (any number of configs, changes, errors and restarts, any set
of invalid configs, any environment):

| Theorem | Statement |
|---|---|
| `TypeCorrect` | `Spec => []TypeOK` |
| `InvariantHolds` | `Spec => []IInv` |
| `ControllerHasShootMR` | `Spec => []ControllerNeedsShootMR` |
| `SeedSideLast` | `Spec => []SeedTornDownLast` |
| `NothingOrphaned` | `Spec => []NoOrphans` |
| `NoUpdateLost` | `Spec => []QuiescentReflectsConfig` |
| `MigrationKeeps` | `Spec => MigrationKeepsShootObjects` |
| `Refinement` | `Spec => ImplementsTwoSided` |

None of the properties is inductive by itself. `IInv` adds why they hold:

* `WorkerInv`: while a worker runs, the status shows its operation and the
  finalizer holds the Extension; so no environment step can take the Extension
  from under it.
* `LifeInv`: what phase, annotation and last operation say of each other. In
  particular, an Extension that never reached a worker has nothing deployed.
* `OrderInv`: a seed MR is under deletion only when the shoot MR is gone or the
  shoot overdue; this carries `SeedTornDownLast` over attempts that start again.
* `KeepInv`: a migration that deletes the shoot MR has set `keepObjects` before.
* `CfgInv`: configs grow from seed MR over shoot MR and snapshot to Extension; the
  snapshot of a hibernated shoot has no replicas. This is `ControllerNeedsShootMR`
  at every step.
* `CurrentInv`: what the worker has read or written is current, or a request is
  queued that will have it read again.

`TypeStep` .. `CurrentStep` prove one part each, with one step per action;
`Inductive` puts them together, the theorems follow with PTL. The refinement maps
each MR to the state of its side; `RefinesStep` shows that each action is a step
of the abstract promise or changes neither side, from `IInv`.

### GardenExtension

For any Gardens, configs and bounds, from `ConstantsAssumption` (the domains of a Garden
are lists):

| Theorem | Statement |
|---|---|
| `TypeCorrect` | `Spec => []TypeOK` |
| `HashVouches` | `Spec => []SettledCertMatchesHash` |
| `ControllerLast` | `Spec => []CertRemovedBeforeController` |
| `ExtensionLast` | `Spec => []NothingLeft` |
| `NoRequestLost` | `Spec => []NothingForgotten` |
| `WatchNotices` | `Spec => OutdatedCertNoticed` |
| `CertificateRefinement` | `Spec => ImplementsManagedCertificate` |

The invariant: the finalizer holds the Extension while a worker runs or something is
deployed (`FinalizerHeld`); worker and phase agree (`Attempt`); the MR is there while a
Certificate is prepared, and Certificate, MR and finalizer go in this order (`Teardown`);
a Garden cannot go while its Certificate may be in use (`GardenThere`); from the step that
writes the annotation on, it matches the Certificate (`HashMatches`); a deletion or an
annotation that overtakes the worker is in the queue (`Pending`, without which
`NothingForgotten` would not survive the end of an attempt). `TypeOK` needs that the set of
Gardens stays finite. `WatchNotices` rests on `HashEntries`: Gardens with different names
cannot have the same hash, the concatenation of their domains. It says nothing of Gardens
with the same names in another order, which the hash tells apart although the Certificate
would be the same.

The refinement (`RefinesListGardens`, `RefinesWriteCert`, `RefinesDeleteCert`,
`RefinesStep`) takes from the invariant that the Garden picked is the one that was listed,
that the MR is there when the Certificate is written, and that no Certificate is in use
when the MR goes. A Certificate that is written while it is under deletion does not come
into use again.

### SeedExtension

`TypeCorrect`, `CredentialsThere` (`CertHasCredentials`), `OneDomain`
(`CertForOneDomain`), `SettledMatch` (`SettledCredentialsMatch`), `ControllerGoesFirst`
(`NoControllerLeft`), `NoRequestLost` (`NothingForgotten`), `CertificateRefinement`
(`ImplementsManagedCertificate`). The invariant says of every step what the worker knows:
a Seed it has read has a provider, its credentials are written before the Certificate,
which is deleted before them. `SettledMatch` is not inductive because a failed attempt may
leave new credentials with the old Certificate; `MatchAtEnd` follows the attempt to its
end. `Order` and `Pending` are the counterparts of the garden class. In the refinement the
credentials of a Certificate are what the Seed that was read needs, so `SecretFirst` is
what makes `WriteCert` a step of the promise, and `CertFirst` does it for `DeleteSecret`.

### CertDeployment

All six invariants of `cert_deployment`. The values of an attempt are those of one
accepted config (`ValuesInv`); for a shoot the rights are there before the controller,
except for one without replicas, and stay until the next attempt (`GrantsInv`); the
status is computed from the config of the issuers (`StatusInv`). The lemmas say what
`CollectIssuers`, `SecretRef`, `CreateGrants` and `Args` make of any values:
`AcceptedResolves`, `NamesUnique`, `SecretsComplete`, `EachSecretFound`, `UsesGranted`,
`AccountsNoted`.
`RestrictionNeverMade` is finding 1 for every configuration: no values and no arguments
ever restrict the default issuer.

### RuntimeCluster

`ConfigWorks` (`DeployedConfigWorks`), `ReferencesThere` (`ReferencesResolve`), `SharedKept`
(`SharedObjectsKept`), `ClusterCleaned` (`NothingLeft`), `CRDsRemain` (`CRDsStay`), `InstallationsApart`
(`OwnInstallationWrites`), `ManagedResourcesApart` (`NoInterference`) and `TypeCorrect`, for any set of configurations (of the type
`Configuration`) and provider configs. `ConfigInv` carries validation from the file to
the process and the MR; `DataInv` and `NamesInv` say of every object of an MR that it is
a CRD of the chart or an object with a name nobody else uses, not kept; `ObjectsInv`
that every object in the cluster is the chart's or has an MR with it in its status;
`LifeInv` that an Extension outlives its MRs. `ClosedInv` is what makes references
inductive: every MR is complete in itself, in its data and in what was last applied, so
that nothing depends on another MR, which may be changed or removed at any time.
`ObjectsClosed` shows it of what the deployer makes for any values, `ApplyAtHome` that
applying an MR puts in exactly that, and `ApplyElsewhere`, by the names, that it touches
nothing of another one. `ObjectKinds` and `ObjectNames` go through all
functions of the deployer; `NameserverDialable` shows that whatever `ValidateNameserver`
accepts has a host and a port that exist. `InstallationsApart` and `ManagedResourcesApart`
are about steps: `ServedByOne` shows that the arguments of the two charts give no class to
two processes, and `OneChanges`, again by the names, that what a step puts in or takes out
belongs to one MR.

`RuntimeClusterTypeProofs` shows that the identities of objects in the cluster are unique.
It needs that own issuers of a provider config are finitely many and have different names,
which `ConstantsAssumption` takes from `ValidateIssuers`
(`apis/service/validation/validation.go:64`).

### Only model-checked

The liveness properties (`DeletionCompletes`, `MigrationCompletes`, `Converges`,
`CertTracksGarden`, `CertCurrent`, `CertTracksSeed`, `PlainRemovesBoth`, `Settles`,
`HealthFollowsIssuers`), because the proof system handles neither `ENABLED` nor fairness.
Every safety invariant, action property and refinement that a passing run checks is proved.

### Only proved

`CertHasCredentials`, `CertForOneDomain` and `CertRemovedBeforeController` say of one state
what `ImplementsManagedCertificate` says of every step, and follow from it;
`SharedObjectsKept` is why `NoInterference` holds; `NoControllerLeft` and, for the class seed,
`NothingForgotten` are those of the garden class again. The runs check the stronger ones, and
those of the garden class.

## 6. Not modelled

* `Migrate` and `Restore` of the runtime classes: nobody asks a runtime Extension for
  them. `Restore` is `Reconcile`; `Migrate` would keep the objects of the shoot MR, which a
  runtime Extension does not have, and delete.
* Generated code: deep copies and conversions of the API types (1300 lines) have no
  behaviour of their own.
* Flags, rate limits, leader election, heartbeat, schemes of the command: they
  change nothing that the models observe. Leader election makes sure that one process
  of an installation works; `Start` replaces the one that runs.
* Static content: dashboards, contents of CRDs, resources and security contexts of
  the pod, formats of URLs and e-mail addresses.
* The branch of `createValues` for a restricted issuer: it is never taken (finding 1).
* A lagging cache of ManagedResources. Informer caches of Cluster and, in the
  mapper, Extension are modelled.
* More than one worker on the same Extension: the workqueue excludes it.

## 7. Plan

Order: the shoot controller first, as it is what every shoot depends on; then the
runtime controller; then what both write; then what they share.

1. (done) `ShootExtension`, `TwoSidedDeployment`, invariant and proofs.
2. (done) `GardenExtension`: Certificate, annotation, watch; proofs.
3. (done) `CertDeployment`: values, issuers, arguments, rights, validation; proofs.
4. (done) `SeedExtension`: Seed, credentials, Certificate; proofs.
5. (done) `RuntimeCluster` with `DeployedObjects`, `ServiceConfiguration`, `HealthCheck`;
   proofs.
6. (done) `ManagedCertificate`, which `GardenExtension` and `SeedExtension` implement;
   requests that are not lost; interference between ManagedResources and installations;
   proofs.
7. Next: a cache of ManagedResources that lags behind in `ShootExtension`
   (`deployer_shoot.go:80`); contents of objects, so that two with the same name and
   different contents are told apart.
