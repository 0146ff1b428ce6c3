---------------------------- MODULE ShootExtension ----------------------------
(***************************************************************************)
(* The shoot controller of gardener-extension-shoot-cert-service           *)
(* (pkg/controller/extension/shoot) working on the Extension resource of   *)
(* one shoot: actuator Reconcile / Restore / Delete / ForceDelete / Migrate*)
(* one API call per step, the watch on the shoot-dns-service Extension,    *)
(* and the parties around it: gardenlet (edits, hibernates, deletes and    *)
(* moves the shoot), the Extension and Cluster informers, the generic      *)
(* extension reconciler that calls the actuator, and                       *)
(* gardener-resource-manager (GRM), which applies and removes the two      *)
(* ManagedResources (MR) the actuator writes.                              *)
(*                                                                         *)
(* A provider config is a revision number: 1..MaxCfg, 0 means "nothing".   *)
(***************************************************************************)
EXTENDS Integers

CONSTANTS
  MaxCfg,       \* bound: number of provider config revisions
  InvalidCfgs,  \* revisions DecodeAndValidateProviderConfig rejects
  DNSServices,  \* states of the shoot-dns-service Extension
  Hibernation,  \* values of spec.hibernation.enabled
  SecretStates, \* whether the secrets the issuers refer to are usable
  Finalizers,   \* whether foreign finalizers block the shoot's CRDs
  MaxChanges,   \* bound: changes of the four above
  MaxErrors,    \* bound: API calls that fail
  MaxCrashes    \* bound: restarts of the extension process

ASSUME ConstantsAssumption ==
  /\ MaxCfg \in Nat \ {0}
  /\ InvalidCfgs \subseteq 1..MaxCfg
  /\ DNSServices \subseteq {"absent", "current", "nextGen"}
  /\ Hibernation \subseteq BOOLEAN
  /\ SecretStates \subseteq BOOLEAN
  /\ Finalizers \subseteq BOOLEAN
  /\ MaxChanges \in Nat /\ MaxErrors \in Nat /\ MaxCrashes \in Nat

VARIABLES
  ext,          \* the Extension resource
  cluster,      \* the Cluster resource: what gardenlet says of the shoot
  cached,       \* the Cluster resource as the manager's informer cache has it
  dns,          \* the shoot-dns-service Extension of the namespace
  secretsValid, \* the secrets the configured issuers refer to can be used
  shootMR,      \* ManagedResource extension-shoot-cert-service-shoot
  seedMR,       \* ManagedResource extension-shoot-cert-service-seed
  accessSecret, \* the shoot access secret exists
  shootObjs,    \* config of the CRDs and roles present in the shoot, 0: none
  foreign,      \* foreign finalizers block the removal of the shoot's CRDs
  queue,        \* the workqueue holds a request for the Extension
  pc, wop,      \* the worker: its next step, the operation it runs
  snap,         \* the worker: what it has read
  changes, errors, crashes

extVars    == <<ext, queue>>
envVars    == <<cluster, cached, dns, secretsValid, foreign>>
mrVars     == <<shootMR, seedMR, accessSecret, shootObjs>>
workerVars == <<pc, wop, snap>>
budget     == <<changes, errors, crashes>>
vars == <<extVars, envVars, mrVars, workerVars, budget>>

Cfgs   == 1..MaxCfg
Cfgs0  == 0..MaxCfg
Operations == {"Reconcile", "Restore", "Delete", "Migrate"}

ReconcilePCs == {"getCluster", "getDNSExtension", "accessSecret", "deployShoot",
                 "deploySeed", "updateStatus"}
TeardownPCs  == {"keepObjects", "deleteShoot", "waitShoot", "dropShoot"}
SeedTeardownPCs == {"deleteAccessSecret", "deleteSeed", "waitSeed"}
PCs == {"idle", "succeed"} \union ReconcilePCs \union TeardownPCs \union SeedTeardownPCs

Clusters == [enabled: Hibernation, hibernated: Hibernation,
             deletion: {"none", "recent", "overdue"}]
Extensions == [phase: {"none", "present", "deleting", "moved"},
               fin: BOOLEAN, cfg: Cfgs,
               op: {"none", "reconcile", "restore", "migrate"},
               type: Operations \union {"none"},
               state: {"none", "Processing", "Error", "Succeeded"},
               resources: Cfgs0]
ShootMRs == [st: {"absent", "present", "deleting"}, fin: BOOLEAN,
             keep: BOOLEAN, cfg: Cfgs0]
SeedMRs  == [st: {"absent", "present", "deleting"}, cfg: Cfgs0,
             replicas: {0, 1}, nextGen: BOOLEAN]
Snaps == [cfg: Cfgs0, hibernated: BOOLEAN, replicas: {0, 1}, nextGen: BOOLEAN]

NoShootMR == [st |-> "absent", fin |-> FALSE, keep |-> FALSE, cfg |-> 0]
NoSeedMR  == [st |-> "absent", cfg |-> 0, replicas |-> 0, nextGen |-> FALSE]
NoSnap    == [cfg |-> 0, hibernated |-> FALSE, replicas |-> 0, nextGen |-> FALSE]

TypeOK ==
  /\ ext \in Extensions
  /\ cluster \in Clusters
  /\ cached \in Clusters
  /\ dns \in DNSServices
  /\ secretsValid \in SecretStates
  /\ shootMR \in ShootMRs
  /\ seedMR \in SeedMRs
  /\ accessSecret \in BOOLEAN
  /\ shootObjs \in Cfgs0
  /\ foreign \in Finalizers
  /\ queue \in BOOLEAN
  /\ pc \in PCs
  /\ wop \in Operations
  /\ snap \in Snaps
  /\ changes \in 0..MaxChanges
  /\ errors \in 0..MaxErrors
  /\ crashes \in 0..MaxCrashes

Init ==
  /\ ext = [phase |-> "none", fin |-> FALSE, cfg |-> 1, op |-> "none",
            type |-> "none", state |-> "none", resources |-> 0]
  /\ cluster \in {c \in Clusters : c.deletion = "none" /\ c.hibernated = c.enabled}
  /\ cached = cluster
  /\ dns \in DNSServices
  /\ secretsValid \in SecretStates
  /\ shootMR = NoShootMR
  /\ seedMR = NoSeedMR
  /\ accessSecret = FALSE
  /\ shootObjs \in {0, 1}   \* 1: the control plane is being restored here
  /\ foreign \in Finalizers
  /\ queue = FALSE
  /\ pc = "idle"
  /\ wop = "Reconcile"
  /\ snap = NoSnap
  /\ changes = 0
  /\ errors = 0
  /\ crashes = 0

-----------------------------------------------------------------------------
(* The worker: generic extension reconciler (external)                     *)

\* Mutants: hibernation judged by the status alone; two replicas woken up.
IsHibernated_StatusOnly(c) == c.hibernated
GetReplicas_Two(c) == IF c.enabled THEN 0 ELSE 2

\* controller.IsHibernated and controller.GetReplicas(cluster, 1).
IsHibernated(c) == c.enabled /\ c.hibernated
GetReplicas(c) == IF c.enabled THEN 0 ELSE 1

\* The operation the generic reconciler runs, from the annotation, the
\* deletion timestamp and the last operation.
ComputeOperation ==
  IF ext.op = "migrate" \/ (ext.type = "Migrate" /\ ext.phase = "present") THEN "Migrate"
  ELSE IF ext.phase = "deleting" THEN "Delete"
  ELSE IF ext.op = "restore" \/ (ext.type = "Restore" /\ ext.state # "Succeeded")
       THEN "Restore" ELSE "Reconcile"

FirstStep(operation) ==
  CASE operation = "Delete"  -> "deleteShoot"
    [] operation = "Migrate" -> "keepObjects"
    [] OTHER                 -> "getCluster"

IsMigrated == ext.type = "Migrate" /\ ext.state = "Succeeded"

\* A worker takes the request: finalizer, status Processing, "reconcile"
\* annotation removed, then the actuator is called.
Dequeue ==
  /\ pc = "idle" /\ queue
  /\ ext.phase \in {"present", "deleting"} /\ ~IsMigrated
  /\ LET operation == ComputeOperation IN
     /\ ext' = [ext EXCEPT !.type = operation, !.state = "Processing",
                           !.op = IF @ = "reconcile" THEN "none" ELSE @,
                           !.fin = TRUE]
     /\ wop' = operation
     /\ pc' = FirstStep(operation)
  /\ queue' = FALSE
  /\ UNCHANGED <<envVars, mrVars, snap, budget>>

\* Nothing to do: the Extension is gone or its migration is over.
DequeueNothing ==
  /\ pc = "idle" /\ queue
  /\ ext.phase \in {"none", "moved"} \/ IsMigrated
  /\ queue' = FALSE
  /\ UNCHANGED <<ext, envVars, mrVars, workerVars, budget>>

\* The Extension object is removed from the API server.
Removed(e, phase) ==
  [phase |-> phase, fin |-> FALSE, cfg |-> e.cfg, op |-> "none",
   type |-> "none", state |-> "none", resources |-> 0]

\* The actuator returned nil.
Succeed ==
  /\ pc = "succeed"
  /\ ext' = CASE wop = "Delete"  -> Removed(ext, "none")
              [] wop = "Migrate" -> [ext EXCEPT !.state = "Succeeded",
                                                !.op = "none", !.fin = FALSE]
              [] wop = "Restore" -> [ext EXCEPT !.state = "Succeeded", !.op = "none"]
              [] OTHER           -> [ext EXCEPT !.state = "Succeeded"]
  /\ pc' = "idle"
  /\ snap' = NoSnap
  /\ UNCHANGED <<queue, envVars, mrVars, wop, budget>>

\* The actuator returned an error: status Error and a retry.
Fail ==
  /\ ext' = [ext EXCEPT !.state = "Error"]
  /\ queue' = TRUE
  /\ pc' = "idle"
  /\ snap' = NoSnap
  /\ UNCHANGED wop

GoTo(step) == pc' = step /\ UNCHANGED <<extVars, wop>>

-----------------------------------------------------------------------------
(* Reconcile and Restore, shoot/actuator.go                                *)

\* GetCluster reads the informer cache; DecodeAndValidateProviderConfig may
\* reject the config; Replicas comes from the same Cluster.
GetCluster ==
  /\ pc = "getCluster"
  /\ IF ext.cfg \in InvalidCfgs
     THEN Fail
     ELSE /\ GoTo("getDNSExtension")
          /\ snap' = [cfg |-> ext.cfg, hibernated |-> IsHibernated(cached),
                      replicas |-> GetReplicas(cached), nextGen |-> FALSE]
  /\ UNCHANGED <<envVars, mrVars, budget>>

\* createValues: isNextGenDNSShootServiceEnabled, NotFound means FALSE.
GetDNSExtension ==
  /\ pc = "getDNSExtension"
  /\ GoTo("accessSecret")
  /\ snap' = [snap EXCEPT !.nextGen = (dns = "nextGen")]
  /\ UNCHANGED <<envVars, mrVars, budget>>

\* createValues: the shoot access secret is reconciled.
ReconcileAccessSecret ==
  /\ pc = "accessSecret"
  /\ accessSecret' = TRUE
  /\ GoTo(IF snap.hibernated THEN "deploySeed" ELSE "deployShoot")
  /\ UNCHANGED <<envVars, shootMR, seedMR, shootObjs, snap, budget>>

\* Mutant: an existing shoot MR is left as it is.
DeployShoot_CreateOnly ==
  /\ pc = "deployShoot"
  /\ shootMR' = IF shootMR.st = "absent"
                THEN [shootMR EXCEPT !.st = "present", !.cfg = snap.cfg] ELSE shootMR
  /\ GoTo("deploySeed")
  /\ UNCHANGED <<envVars, seedMR, accessSecret, shootObjs, snap, budget>>

\* managedresources.Create of the shoot MR, with keepObjects = false; a MR
\* under deletion is patched and stays under deletion.
DeployShoot ==
  /\ pc = "deployShoot"
  /\ shootMR' = [shootMR EXCEPT !.st = IF @ = "absent" THEN "present" ELSE @,
                                !.keep = FALSE, !.cfg = snap.cfg]
  /\ GoTo("deploySeed")
  /\ UNCHANGED <<envVars, seedMR, accessSecret, shootObjs, snap, budget>>

\* validateIssuerSecrets, then managedresources.Create of the seed MR.
DeploySeed ==
  /\ pc = "deploySeed"
  /\ IF secretsValid
     THEN /\ seedMR' = [st |-> IF seedMR.st = "absent" THEN "present" ELSE seedMR.st,
                        cfg |-> snap.cfg, replicas |-> snap.replicas,
                        nextGen |-> snap.nextGen]
          /\ GoTo("updateStatus")
          /\ UNCHANGED snap
     ELSE Fail /\ UNCHANGED seedMR
  /\ UNCHANGED <<envVars, shootMR, accessSecret, shootObjs, budget>>

\* Status.Resources names one secret per issuer of the config.
UpdateStatus ==
  /\ pc = "updateStatus"
  /\ ext' = [ext EXCEPT !.resources = snap.cfg]
  /\ pc' = "succeed"
  /\ UNCHANGED <<queue, envVars, mrVars, wop, snap, budget>>

-----------------------------------------------------------------------------
(* Delete, ForceDelete and Migrate, shoot/actuator.go                      *)

\* Mutants: the objects are not kept; a missing MR is an error.
KeepObjects_Skipped ==
  /\ pc = "keepObjects"
  /\ GoTo("deleteShoot")
  /\ UNCHANGED <<envVars, mrVars, snap, budget>>
KeepObjects_NotFoundFails ==
  /\ pc = "keepObjects"
  /\ IF shootMR.st = "absent"
     THEN Fail /\ UNCHANGED shootMR
     ELSE shootMR' = [shootMR EXCEPT !.keep = TRUE] /\ GoTo("deleteShoot") /\ UNCHANGED snap
  /\ UNCHANGED <<envVars, seedMR, accessSecret, shootObjs, budget>>

\* SetKeepObjects(true) on the shoot MR, NotFound is ignored.
KeepObjects ==
  /\ pc = "keepObjects"
  /\ shootMR' = [shootMR EXCEPT !.keep = (shootMR.st # "absent")]
  /\ GoTo("deleteShoot")
  /\ UNCHANGED <<envVars, seedMR, accessSecret, shootObjs, snap, budget>>

\* The API server drops an object without finalizers at once.
DeleteShoot ==
  /\ pc = "deleteShoot"
  /\ shootMR' = IF shootMR.fin THEN [shootMR EXCEPT !.st = "deleting"] ELSE NoShootMR
  /\ GoTo("waitShoot")
  /\ UNCHANGED <<envVars, seedMR, accessSecret, shootObjs, snap, budget>>

\* Mutants: the shoot MR is not waited for; a timeout is taken for success.
WaitShoot_NoWait ==
  /\ pc = "waitShoot"
  /\ GoTo("deleteAccessSecret")
  /\ UNCHANGED <<envVars, mrVars, snap, budget>>
WaitShootTimeout_Ignored ==
  /\ pc = "waitShoot"
  /\ shootMR.st # "absent"
  /\ GoTo("deleteAccessSecret")
  /\ UNCHANGED <<envVars, mrVars, snap, budget>>

WaitShoot ==
  /\ pc = "waitShoot"
  /\ shootMR.st = "absent"
  /\ GoTo("deleteAccessSecret")
  /\ UNCHANGED <<envVars, mrVars, snap, budget>>

\* WaitUntilDeleted gave up after two minutes.
WaitShootTimeout ==
  /\ pc = "waitShoot"
  /\ shootMR.st # "absent"
  /\ GoTo("dropShoot")
  /\ UNCHANGED <<envVars, mrVars, snap, budget>>

\* Mutant: no ten minute rule.
DropShoot_Never ==
  /\ pc = "dropShoot"
  /\ Fail
  /\ UNCHANGED <<envVars, mrVars, budget>>

\* The error branch of Delete: when the cached Cluster says that the shoot is
\* deleting for more than ten minutes, DropShootManagedResource takes all
\* finalizers off the MR (an absent MR is an error); otherwise the error of
\* the deletion is returned.
DropShoot ==
  /\ pc = "dropShoot"
  /\ IF cached.deletion = "overdue" /\ shootMR.st # "absent"
     THEN /\ shootMR' = IF shootMR.st = "deleting" THEN NoShootMR
                        ELSE [shootMR EXCEPT !.fin = FALSE]
          /\ GoTo("deleteAccessSecret")
          /\ UNCHANGED snap
     ELSE Fail /\ UNCHANGED shootMR
  /\ UNCHANGED <<envVars, seedMR, accessSecret, shootObjs, budget>>

DeleteAccessSecret ==
  /\ pc = "deleteAccessSecret"
  /\ accessSecret' = FALSE
  /\ GoTo("deleteSeed")
  /\ UNCHANGED <<envVars, shootMR, seedMR, shootObjs, snap, budget>>

DeleteSeed ==
  /\ pc = "deleteSeed"
  /\ seedMR' = [seedMR EXCEPT !.st = IF @ = "absent" THEN "absent" ELSE "deleting"]
  /\ GoTo("waitSeed")
  /\ UNCHANGED <<envVars, shootMR, accessSecret, shootObjs, snap, budget>>

\* Mutant: the seed MR is not waited for.
WaitSeed_NoWait ==
  /\ pc = "waitSeed"
  /\ GoTo("succeed")
  /\ UNCHANGED <<envVars, mrVars, snap, budget>>

WaitSeed ==
  /\ pc = "waitSeed"
  /\ seedMR.st = "absent"
  /\ GoTo("succeed")
  /\ UNCHANGED <<envVars, mrVars, snap, budget>>

WaitSeedTimeout ==
  /\ pc = "waitSeed"
  /\ seedMR.st # "absent"
  /\ Fail
  /\ UNCHANGED <<envVars, mrVars, budget>>

\* Any API call of the actuator may fail.  Delete answers an error of the
\* shoot MR's deletion, whatever it is, with the ten minute rule.
CallFails ==
  /\ errors < MaxErrors
  /\ errors' = errors + 1
  /\ pc \notin {"idle"}
  /\ IF pc \in {"deleteShoot", "waitShoot"}
     THEN GoTo("dropShoot") /\ UNCHANGED snap
     ELSE Fail
  /\ UNCHANGED <<envVars, mrVars, changes, crashes>>

Reconcile == \/ GetCluster \/ GetDNSExtension \/ ReconcileAccessSecret
             \/ DeployShoot \/ DeploySeed \/ UpdateStatus
Delete == \/ DeleteShoot \/ WaitShoot \/ WaitShootTimeout \/ DropShoot
          \/ DeleteAccessSecret \/ DeleteSeed \/ WaitSeed \/ WaitSeedTimeout
Worker == Dequeue \/ DequeueNothing \/ Succeed \/ Reconcile \/ KeepObjects \/ Delete

\* The process restarts: the informers list everything afresh and enqueue
\* the Extension when the default predicates or the DNS watch ask for it.
Restart ==
  /\ crashes < MaxCrashes
  /\ crashes' = crashes + 1
  /\ pc' = "idle"
  /\ snap' = NoSnap
  /\ cached' = cluster
  /\ queue' = (ext.phase # "none" /\ \/ ext.op # "none"
                                     \/ ext.state # "Succeeded"
                                     \/ ext.phase = "deleting"
                                     \/ dns # "absent")
  /\ UNCHANGED <<ext, cluster, dns, secretsValid, foreign, mrVars, wop, changes, errors>>

-----------------------------------------------------------------------------
(* The watch on the shoot-dns-service Extension, shoot/add.go: created and *)
(* re-annotated objects enqueue the Extension, deleted ones do not.        *)

\* Mutant: a changed annotation is not noticed.
DNSPredicate_CreateOnly(old, new) == old = "absent" /\ new # "absent"

DNSPredicate(old, new) ==
  \/ old = "absent" /\ new # "absent"
  \/ old # "absent" /\ new # "absent" /\ old # new

Change == changes < MaxChanges /\ changes' = changes + 1

DNSServiceChanges ==
  /\ Change
  /\ \E new \in DNSServices \ {dns} :
       /\ dns' = new
       /\ queue' = (queue \/ DNSPredicate(dns, new))
  /\ UNCHANGED <<ext, cluster, cached, secretsValid, foreign, mrVars, workerVars, errors, crashes>>

-----------------------------------------------------------------------------
(* Environment (external): gardenlet, informer cache, GRM                  *)

\* The shoot's API server, and the GRM next to it, are running.
ShootReachable == ~cluster.hibernated \/ cluster.deletion # "none"

CreateExtension ==
  /\ ext.phase = "none" /\ cluster.deletion = "none"
  /\ ext' = [ext EXCEPT !.phase = "present",
                        !.op = IF shootObjs = 0 \/ shootMR.st # "absent"
                               THEN "reconcile" ELSE "restore"]
  /\ queue' = TRUE
  /\ UNCHANGED <<envVars, mrVars, workerVars, budget>>

Annotatable == ext.phase = "present" /\ ext.op = "none" /\ ext.type # "Migrate"

\* The recurring reconciliation of the shoot.
Annotate ==
  /\ Annotatable
  /\ ext' = [ext EXCEPT !.op = "reconcile"]
  /\ queue' = TRUE
  /\ UNCHANGED <<envVars, mrVars, workerVars, budget>>

EditConfig ==
  /\ Annotatable /\ ext.cfg < MaxCfg
  /\ ext' = [ext EXCEPT !.cfg = @ + 1, !.op = "reconcile"]
  /\ queue' = TRUE
  /\ UNCHANGED <<envVars, mrVars, workerVars, budget>>

StartMigration ==
  /\ Annotatable /\ cluster.deletion = "none" /\ ShootReachable
  /\ ext' = [ext EXCEPT !.op = "migrate"]
  /\ queue' = TRUE
  /\ UNCHANGED <<envVars, mrVars, workerVars, budget>>

\* kubectl delete on the Extension: by the shoot's deletion, or because the
\* extension was disabled, or after its migration.
DeleteExtension ==
  /\ ext.phase = "present" /\ ext.op # "migrate"
  /\ ext.type = "Migrate" => IsMigrated
  /\ ext' = IF ext.fin THEN [ext EXCEPT !.phase = "deleting"]
            ELSE Removed(ext, IF IsMigrated THEN "moved" ELSE "none")
  /\ queue' = TRUE
  /\ UNCHANGED <<envVars, mrVars, workerVars, budget>>

\* gardenlet writes the Cluster resource.
SetHibernation ==
  /\ Change
  /\ cluster.deletion = "none"
  /\ \E enabled \in Hibernation \ {cluster.enabled} :
       cluster' = [cluster EXCEPT !.enabled = enabled]
  /\ UNCHANGED <<extVars, cached, dns, secretsValid, foreign, mrVars, workerVars, errors, crashes>>

\* A reconciliation of the shoot ended: its status follows its spec.
SetHibernated ==
  /\ ext.state = "Succeeded" /\ ext.op = "none"
  /\ cluster.hibernated # cluster.enabled
  /\ cluster' = [cluster EXCEPT !.hibernated = cluster.enabled]
  /\ UNCHANGED <<extVars, cached, dns, secretsValid, foreign, mrVars, workerVars, budget>>

DeleteShootResource ==
  /\ cluster.deletion = "none" /\ ext.op # "migrate" /\ ext.type # "Migrate"
  /\ cluster' = [cluster EXCEPT !.deletion = "recent"]
  /\ UNCHANGED <<extVars, cached, dns, secretsValid, foreign, mrVars, workerVars, budget>>

TenMinutesPass ==
  /\ cluster.deletion = "recent"
  /\ cluster' = [cluster EXCEPT !.deletion = "overdue"]
  /\ UNCHANGED <<extVars, cached, dns, secretsValid, foreign, mrVars, workerVars, budget>>

SyncCache ==
  /\ cached # cluster
  /\ cached' = cluster
  /\ UNCHANGED <<extVars, cluster, dns, secretsValid, foreign, mrVars, workerVars, budget>>

SecretsChange ==
  /\ Change
  /\ secretsValid' \in SecretStates \ {secretsValid}
  /\ UNCHANGED <<extVars, cluster, cached, dns, foreign, mrVars, workerVars, errors, crashes>>

FinalizersChange ==
  /\ Change
  /\ foreign' \in Finalizers \ {foreign}
  /\ UNCHANGED <<extVars, cluster, cached, dns, secretsValid, mrVars, workerVars, errors, crashes>>

\* GRM puts its finalizer on the MR and applies the objects.
GRMApply ==
  /\ ShootReachable
  /\ shootMR.st = "present" /\ (~shootMR.fin \/ shootObjs # shootMR.cfg)
  /\ shootMR' = [shootMR EXCEPT !.fin = TRUE]
  /\ shootObjs' = shootMR.cfg
  /\ UNCHANGED <<extVars, envVars, seedMR, accessSecret, workerVars, budget>>

\* GRM deletes the objects of a MR under deletion, unless it is to keep them.
GRMDeleteObjects ==
  /\ ShootReachable
  /\ shootMR.st = "deleting" /\ ~shootMR.keep
  /\ shootObjs # 0 /\ ~foreign
  /\ shootObjs' = 0
  /\ UNCHANGED <<extVars, envVars, shootMR, seedMR, accessSecret, workerVars, budget>>

GRMRelease ==
  /\ ShootReachable
  /\ shootMR.st = "deleting" /\ (shootMR.keep \/ shootObjs = 0)
  /\ shootMR' = NoShootMR
  /\ UNCHANGED <<extVars, envVars, seedMR, accessSecret, shootObjs, workerVars, budget>>

\* The seed's GRM has removed the controller.
GRMReleaseSeed ==
  /\ seedMR.st = "deleting"
  /\ seedMR' = NoSeedMR
  /\ UNCHANGED <<extVars, envVars, shootMR, accessSecret, shootObjs, workerVars, budget>>

Gardenlet == \/ CreateExtension \/ Annotate \/ EditConfig \/ StartMigration
             \/ DeleteExtension \/ SetHibernation \/ SetHibernated
             \/ DeleteShootResource \/ TenMinutesPass
GRM == GRMApply \/ GRMDeleteObjects \/ GRMRelease \/ GRMReleaseSeed

\* The Extension is gone for good: the system may stop.
Terminated ==
  /\ ext.phase \in {"none", "moved"} /\ pc = "idle" /\ ~queue
  /\ UNCHANGED vars

Next == \/ Worker \/ CallFails \/ Restart
        \/ Gardenlet \/ SyncCache \/ DNSServiceChanges
        \/ SecretsChange \/ FinalizersChange \/ GRM \/ Terminated

Spec == Init /\ [][Next]_vars

(* controller-runtime keeps calling the worker while requests are queued    *)
(* and both waits end after two minutes; the informer catches up, time      *)
(* passes, gardenlet reconciles every shoot again and again, and GRM keeps  *)
(* working.  Nothing is assumed of edits, failures, users and finalizers.   *)
Fairness ==
  /\ WF_vars(Worker)
  /\ WF_vars(SyncCache) /\ WF_vars(TenMinutesPass) /\ WF_vars(Annotate)
  /\ WF_vars(GRMApply) /\ WF_vars(GRMDeleteObjects)
  /\ WF_vars(GRMRelease) /\ WF_vars(GRMReleaseSeed)

FairSpec == Spec /\ Fairness

-----------------------------------------------------------------------------
(* Properties                                                              *)

\* Delete withdraws the seed side (controller, issuers and the credentials for
\* the shoot) only when the shoot MR is gone, whatever was interrupted or
\* failed before; the one exception the code makes is a shoot that is
\* deleting for more than ten minutes.
SeedTornDownLast ==
  seedMR.st = "deleting" \/ pc \in SeedTeardownPCs =>
    shootMR.st = "absent" \/ cluster.deletion = "overdue"

\* The finalizer holds the Extension until everything it installed is gone,
\* with the same exception for the shoot MR.
NoOrphans ==
  ext.phase \in {"none", "moved"} =>
    /\ seedMR.st = "absent" /\ ~accessSecret
    /\ shootMR.st = "absent" \/ cluster.deletion = "overdue"

\* While the Extension is served, a controller that is not scaled down finds
\* its credentials and, in the shoot MR, a config at least as new as its own:
\* hibernation skips the shoot MR only together with the controller, although
\* both follow a Cluster that may be stale, and a failure between the two
\* writes leaves the shoot side ahead.
ControllerNeedsShootMR ==
  /\ ext.phase = "present" /\ ext.type # "Migrate"
  /\ seedMR.st = "present" /\ seedMR.replicas = 1
  => accessSecret /\ shootMR.st = "present" /\ shootMR.cfg >= seedMR.cfg

\* With no request pending, a Succeeded Extension shows the outcome of its own
\* config: seed MR and Status.Resources are of that revision, and the
\* controller serves the variant of the DNS service that exists.  Events that
\* arrive while the worker runs, failures and restarts lose no update.
QuiescentReflectsConfig ==
  /\ pc = "idle" /\ ~queue
  /\ ext.phase = "present" /\ ext.state = "Succeeded" /\ ext.type # "Migrate"
  => /\ seedMR.st = "present"
     /\ seedMR.cfg = ext.cfg /\ ext.resources = ext.cfg
     /\ dns # "absent" => seedMR.nextGen = (dns = "nextGen")

\* A migration never takes the CRDs and roles out of the shoot, also when it
\* is interrupted and retried.
MigrationKeepsShootObjects ==
  [][ext.type = "Migrate" \/ ext.phase = "moved" =>
       (shootObjs # 0 => shootObjs' # 0)]_vars

\* Dropping the shoot MR removes it: when the Extension is gone no shoot MR
\* is left behind, as Delete's comment on the ten minute rule has it.
NoShootMRLeft == ext.phase = "none" => shootMR.st = "absent"

\* The Extension of a shoot under deletion goes away, even when a foreign
\* finalizer in the shoot is never removed.
DeletionCompletes ==
  ext.phase = "deleting" /\ cluster.deletion # "none" ~> ext.phase = "none"

\* A requested migration ends with everything released on this seed.
MigrationCompletes ==
  ext.op = "migrate" ~> IsMigrated /\ shootMR.st = "absent" /\ seedMR.st = "absent"

\* When a valid Extension is served and nothing changes any more, both sides
\* come to reflect config, hibernation and DNS service for good, although
\* Cluster events do not enqueue the Extension, a deleted DNS service does
\* not either, and the Cluster may be read stale.
Serving ==
  /\ ext.phase = "present" /\ ext.type # "Migrate" /\ ext.op # "migrate"
  /\ secretsValid /\ ext.cfg \notin InvalidCfgs
Converged ==
  /\ seedMR.st = "present" /\ seedMR.cfg = ext.cfg
  /\ seedMR.replicas = GetReplicas(cluster)
  /\ seedMR.nextGen = (dns = "nextGen")
  /\ ~cluster.enabled /\ ~cluster.hibernated => shootObjs = ext.cfg
Converges == <>[]Serving => <>[]Converged

\* The abstract promise of TwoSidedDeployment holds of the two MRs.
ShootSide == CASE shootMR.st = "absent"  -> "absent"
               [] shootMR.st = "present" -> "deployed"
               [] OTHER                  -> "leaving"
SeedSide  == CASE seedMR.st = "absent"   -> "absent"
               [] seedMR.st = "deleting" -> "leaving"
               [] OTHER -> IF seedMR.replicas = 0 THEN "scaledDown" ELSE "running"
Overdue   == cluster.deletion = "overdue"

TwoSided == INSTANCE TwoSidedDeployment WITH
  shootSide <- ShootSide, seedSide <- SeedSide, overdue <- Overdue

\* The two MRs of the code implement the abstract promise: the controller is
\* started only for a shoot side in place, a side being withdrawn is not
\* deployed again before it is gone, the seed side goes last.
ImplementsTwoSided == TwoSided!Spec
=============================================================================
