--------------------------- MODULE GardenExtension ---------------------------
(***************************************************************************)
(* The controlplane controller of gardener-extension-shoot-cert-service    *)
(* (pkg/controller/extension/controlplane) for the extension class garden: *)
(* the actuator's Reconcile and Delete deploy cert-management in the       *)
(* garden runtime cluster and keep the Certificate garden/tls in line with *)
(* the domains of the Garden, one API call per step.  A watch on Gardens   *)
(* enqueues the Extension when the domains no longer have the hash noted   *)
(* in its annotation.                                                      *)
(*                                                                         *)
(* A Garden is its relevant spec, so the list of Gardens is a set.  What   *)
(* the informers have not delivered yet has not happened; only the mapper  *)
(* reads an Extension that may lag behind the worker's writes.             *)
(***************************************************************************)
EXTENDS Integers, Sequences, FiniteSets

CONSTANTS
  GardenSpecs,    \* specs: [virtual, ingress: sequences of domains, provider]
  NoProvider,     \* spec.dns is not set
  Configs,        \* provider configs of the Extension
  CertFinalizers, \* the cert-controller-manager puts finalizers on Certificates
  MaxEvents,      \* bound: Garden events waiting for the mapper
  MaxChanges,     \* bound: edits of Garden and Extension
  MaxErrors,      \* bound: API calls that fail
  MaxCrashes      \* bound: restarts of the extension process

Entries(s) == {s[i] : i \in DOMAIN s}

ASSUME ConstantsAssumption ==
  /\ \A g \in GardenSpecs : /\ g.virtual \in Seq(Entries(g.virtual))
                            /\ g.ingress \in Seq(Entries(g.ingress))
  /\ Configs \subseteq {"generate", "plain", "invalid"}
  /\ CertFinalizers \in BOOLEAN
  /\ MaxEvents \in Nat \ {0, 1}
  /\ {MaxChanges, MaxErrors, MaxCrashes} \subseteq Nat

VARIABLES
  gardens,   \* the Gardens of the runtime cluster
  settled,   \* the last operation of the Garden succeeded
  events,    \* Garden events on their way to mapGardenToExtension
  ext,       \* the Extension resource
  hash,      \* its annotation garden-relevant-data-hash: {} or {hash}
  hashSeen,  \* the annotation as the mapper's cache has it
  cert,      \* the Certificate garden/tls
  mr,        \* the ManagedResource of cert-management
  queue,     \* the workqueue holds a request for the Extension
  pc, task,  \* the worker: its next step; "delete", or the config it reconciles
  picked,    \* the worker: the Garden it has read, {} or {garden}
  changes, errors, crashes

gardenVars == <<gardens, settled, events>>
extVars    == <<ext, queue>>
hashVars   == <<hash, hashSeen>>
objVars    == <<cert, mr>>
workerVars == <<pc, task, picked>>
budget     == <<changes, errors, crashes>>
vars == <<gardenVars, extVars, hashVars, objVars, workerVars, budget>>

\* Mutant: the hash leaves the ingress domains out.
Hash_VirtualOnly(g) == g.virtual

\* calcGardenRelevantDataHash, and the names of the Certificate.
Hash(g) == g.virtual \o g.ingress
DNSNames(g) == Entries(g.virtual) \union Entries(g.ingress)

Hashes == {Hash(g) : g \in GardenSpecs}
AtMostOne(S) == {{}} \union {{x} : x \in S}

NoCert == [st |-> "absent", names |-> {}, provider |-> NoProvider]
Certs == [st: {"absent", "present", "deleting"},
          names: {{}} \union {DNSNames(g) : g \in GardenSpecs},
          provider: {g.provider : g \in GardenSpecs} \union {NoProvider}]
Extensions == [phase: {"none", "present", "deleting"}, fin: BOOLEAN,
               config: Configs, op: {"none", "reconcile"},
               state: {"none", "Processing", "Error", "Succeeded"}]
PCs == {"idle", "deployMR", "listGardens", "writeCert", "patchHash",
        "deleteCert", "removeHash", "updateStatus", "deleteMR", "waitMR", "succeed"}

TypeOK ==
  /\ gardens \subseteq GardenSpecs /\ Cardinality(gardens) <= 2
  /\ settled \in BOOLEAN
  /\ events \in Seq(GardenSpecs) /\ Len(events) <= MaxEvents
  /\ ext \in Extensions
  /\ hash \in AtMostOne(Hashes) /\ hashSeen \in AtMostOne(Hashes)
  /\ cert \in Certs
  /\ mr \in {"absent", "present", "deleting"}
  /\ queue \in BOOLEAN
  /\ pc \in PCs /\ task \in Configs \union {"delete"}
  /\ picked \in AtMostOne(GardenSpecs)
  /\ changes \in 0..MaxChanges /\ errors \in 0..MaxErrors /\ crashes \in 0..MaxCrashes

Init ==
  /\ gardens \in AtMostOne(GardenSpecs)
  /\ settled = FALSE
  /\ events = <<>>
  /\ ext \in [phase: {"none"}, fin: {FALSE}, config: Configs, op: {"none"}, state: {"none"}]
  /\ hash = {} /\ hashSeen = {}
  /\ cert = NoCert
  /\ mr = "absent"
  /\ queue = FALSE
  /\ pc = "idle" /\ task = "delete" /\ picked = {}
  /\ changes = 0 /\ errors = 0 /\ crashes = 0

-----------------------------------------------------------------------------
(* The worker: generic extension reconciler (external)                     *)

\* Finalizer, status Processing (which refreshes the object the actuator
\* gets), operation annotation removed, then the actuator is called.
Dequeue ==
  /\ pc = "idle" /\ queue /\ ext.phase # "none"
  /\ ext' = [ext EXCEPT !.state = "Processing", !.op = "none", !.fin = TRUE]
  /\ queue' = FALSE
  /\ IF ext.phase = "deleting"
     THEN pc' = "deleteCert" /\ task' = "delete"
     ELSE pc' = "deployMR" /\ task' = ext.config
  /\ UNCHANGED <<gardenVars, hashVars, objVars, picked, budget>>

DequeueNothing ==
  /\ pc = "idle" /\ queue /\ ext.phase = "none"
  /\ queue' = FALSE
  /\ UNCHANGED <<gardenVars, ext, hashVars, objVars, workerVars, budget>>

Removed(e) == [e EXCEPT !.phase = "none", !.fin = FALSE, !.op = "none", !.state = "none"]

Succeed ==
  /\ pc = "succeed"
  /\ IF task = "delete"
     THEN ext' = Removed(ext) /\ hash' = {} /\ hashSeen' = {}
     ELSE ext' = [ext EXCEPT !.state = "Succeeded"] /\ UNCHANGED hashVars
  /\ pc' = "idle" /\ picked' = {}
  /\ UNCHANGED <<gardenVars, queue, objVars, task, budget>>

Fail ==
  /\ ext' = [ext EXCEPT !.state = "Error"]
  /\ queue' = TRUE
  /\ pc' = "idle" /\ picked' = {}
  /\ UNCHANGED task

GoTo(step) == pc' = step /\ UNCHANGED <<extVars, task>>

-----------------------------------------------------------------------------
(* Reconcile: actuator.go, gardencert.go                                   *)

\* DecodeAndValidateProviderConfig may reject the config; then the MR of
\* cert-management is created or updated.
DeployMR ==
  /\ pc = "deployMR"
  /\ IF task = "invalid"
     THEN Fail /\ UNCHANGED mr
     ELSE /\ mr' = IF mr = "absent" THEN "present" ELSE mr
          /\ GoTo(IF task = "generate" THEN "listGardens" ELSE "deleteCert")
          /\ UNCHANGED picked
  /\ UNCHANGED <<gardenVars, hashVars, cert, budget>>

\* Nothing happens without a Garden, two are an error, and a Garden without
\* domains has no certificate.
ListGardens ==
  /\ pc = "listGardens"
  /\ \/ gardens = {} /\ GoTo("updateStatus") /\ UNCHANGED picked
     \/ Cardinality(gardens) > 1 /\ Fail
     \/ \E g \in gardens :
          /\ gardens = {g}
          /\ IF DNSNames(g) = {}
             THEN GoTo("deleteCert") /\ UNCHANGED picked
             ELSE GoTo("writeCert") /\ picked' = {g}
  /\ UNCHANGED <<gardenVars, hashVars, objVars, budget>>

\* Mutant: the annotations of an existing Certificate are not touched.
WriteCert_KeepAnnotations ==
  /\ pc = "writeCert"
  /\ \E g \in picked :
       cert' = IF cert.st = "absent"
               THEN [st |-> "present", names |-> DNSNames(g), provider |-> g.provider]
               ELSE [cert EXCEPT !.names = DNSNames(g)]
  /\ GoTo("patchHash")
  /\ UNCHANGED <<gardenVars, hashVars, mr, picked, budget>>

\* Mutant: the Garden is read once more for the Certificate.
WriteCert_Reread ==
  /\ pc = "writeCert"
  /\ \E g \in gardens : cert' = [st |-> "present", names |-> DNSNames(g), provider |-> g.provider]
  /\ GoTo("patchHash")
  /\ UNCHANGED <<gardenVars, hashVars, mr, picked, budget>>

\* CreateOrGetAndMergePatch: annotations of an earlier provider stay when the
\* Garden no longer names one.
WriteCert ==
  /\ pc = "writeCert"
  /\ \E g \in picked :
       cert' = [st |-> IF cert.st = "absent" THEN "present" ELSE cert.st,
                names |-> DNSNames(g),
                provider |-> IF g.provider = NoProvider THEN cert.provider ELSE g.provider]
  /\ GoTo("patchHash")
  /\ UNCHANGED <<gardenVars, hashVars, mr, picked, budget>>

\* Mutant: the Garden is read once more for its hash.
PatchHash_Reread ==
  /\ pc = "patchHash"
  /\ hash' = {Hash(g) : g \in gardens}
  /\ GoTo("updateStatus")
  /\ UNCHANGED <<gardenVars, hashSeen, objVars, picked, budget>>

\* patchHashAnnotation notes the hash of the Garden that was read.
PatchHash ==
  /\ pc = "patchHash"
  /\ hash' = {Hash(g) : g \in picked}
  /\ GoTo("updateStatus")
  /\ UNCHANGED <<gardenVars, hashSeen, objVars, picked, budget>>

\* Mutant: a missing Certificate is an error.
DeleteCert_NotFoundFails ==
  /\ pc = "deleteCert"
  /\ IF cert.st = "absent"
     THEN Fail /\ UNCHANGED cert
     ELSE /\ cert' = IF CertFinalizers THEN [cert EXCEPT !.st = "deleting"] ELSE NoCert
          /\ GoTo(IF task = "delete" THEN "deleteMR" ELSE "removeHash")
          /\ UNCHANGED picked
  /\ UNCHANGED <<gardenVars, hashVars, mr, budget>>

\* gardenCert.delete: a missing Certificate ends it at once, before the
\* annotation is looked at; under deletion the annotation is left alone.
DeleteCert ==
  /\ pc = "deleteCert"
  /\ cert' = IF cert.st # "absent" /\ CertFinalizers
             THEN [cert EXCEPT !.st = "deleting"] ELSE NoCert
  /\ GoTo(IF task = "delete" THEN "deleteMR"
          ELSE IF cert.st = "absent" THEN "updateStatus" ELSE "removeHash")
  /\ UNCHANGED <<gardenVars, hashVars, mr, picked, budget>>

\* Mutant: the annotation is emptied instead of removed.
RemoveHash_Emptied ==
  /\ pc = "removeHash"
  /\ hash' = {<<>>}
  /\ GoTo("updateStatus")
  /\ UNCHANGED <<gardenVars, hashSeen, objVars, picked, budget>>

RemoveHash ==
  /\ pc = "removeHash"
  /\ hash' = {}
  /\ GoTo("updateStatus")
  /\ UNCHANGED <<gardenVars, hashSeen, objVars, picked, budget>>

\* Status.Resources follows the config; nothing here depends on it.
UpdateStatus ==
  /\ pc = "updateStatus"
  /\ GoTo("succeed")
  /\ UNCHANGED <<gardenVars, hashVars, objVars, picked, budget>>

-----------------------------------------------------------------------------
(* Delete: the Certificate first, then the MR                              *)

DeleteMR ==
  /\ pc = "deleteMR"
  /\ mr' = IF mr = "absent" THEN mr ELSE "deleting"
  /\ GoTo("waitMR")
  /\ UNCHANGED <<gardenVars, hashVars, cert, picked, budget>>

\* Mutant: the MR is not waited for.
WaitMR_NoWait ==
  /\ pc = "waitMR"
  /\ GoTo("succeed")
  /\ UNCHANGED <<gardenVars, hashVars, objVars, picked, budget>>

WaitMR ==
  /\ pc = "waitMR"
  /\ IF mr = "absent" THEN GoTo("succeed") /\ UNCHANGED picked ELSE Fail
  /\ UNCHANGED <<gardenVars, hashVars, objVars, budget>>

CallFails ==
  /\ pc # "idle"
  /\ errors < MaxErrors /\ errors' = errors + 1
  /\ Fail
  /\ UNCHANGED <<gardenVars, hashVars, objVars, changes, crashes>>

\* Mutant: after a restart a deletion without annotation is not noticed.
Restart_DeletionSkipped ==
  /\ crashes < MaxCrashes /\ crashes' = crashes + 1
  /\ pc' = "idle" /\ picked' = {}
  /\ hashSeen' = hash
  /\ events' \in {s \in [1..Cardinality(gardens) -> gardens] :
                    {s[i] : i \in DOMAIN s} = gardens}
  /\ queue' = (ext.phase # "none" /\ (ext.op # "none" \/ ext.state # "Succeeded"))
  /\ UNCHANGED <<gardens, settled, ext, hash, objVars, task, changes, errors>>

\* The process restarts; the informers list everything, which is a create
\* event for every Garden.
Restart ==
  /\ crashes < MaxCrashes /\ crashes' = crashes + 1
  /\ pc' = "idle" /\ picked' = {}
  /\ hashSeen' = hash
  /\ events' \in {s \in [1..Cardinality(gardens) -> gardens] :
                    {s[i] : i \in DOMAIN s} = gardens}
  /\ queue' = (ext.phase # "none" /\ (ext.op # "none" \/ ext.state # "Succeeded"
                                      \/ ext.phase = "deleting"))
  /\ UNCHANGED <<gardens, settled, ext, hash, objVars, task, changes, errors>>

-----------------------------------------------------------------------------
(* The watch on Gardens: add.go                                            *)

\* mapGardenToExtension.
MapGarden ==
  /\ events # <<>>
  /\ events' = Tail(events)
  /\ queue' = (queue \/ /\ ext.phase # "none" /\ ext.config = "generate"
                        /\ hashSeen # {Hash(Head(events))})
  /\ UNCHANGED <<gardens, settled, ext, hashVars, objVars, workerVars, budget>>

\* GardenCreatedOrReconciledSuccessfully passes a created Garden and one
\* whose last operation has just succeeded.
Notify(g) == Len(events) < MaxEvents /\ events' = Append(events, g)

-----------------------------------------------------------------------------
(* Environment (external): gardener-operator, caches, GRM, cert-manager    *)

Change == changes < MaxChanges /\ changes' = changes + 1

CreateGarden ==
  /\ Change
  /\ Cardinality(gardens) < 2
  /\ \E g \in GardenSpecs \ gardens :
       gardens' = gardens \union {g} /\ Notify(g)
  /\ settled' = FALSE
  /\ UNCHANGED <<extVars, hashVars, objVars, workerVars, errors, crashes>>

\* gardener-operator deletes the Extension before it lets a Garden go; only a
\* surplus Garden may vanish under it.
DeleteGarden ==
  /\ Change
  /\ ext.phase = "none" \/ Cardinality(gardens) = 2
  /\ \E g \in gardens : gardens' = gardens \ {g}
  /\ settled' = FALSE
  /\ UNCHANGED <<events, extVars, hashVars, objVars, workerVars, errors, crashes>>

EditGarden ==
  /\ Change
  /\ \E g \in gardens, h \in GardenSpecs \ gardens : gardens' = (gardens \ {g}) \union {h}
  /\ settled' = FALSE
  /\ UNCHANGED <<events, extVars, hashVars, objVars, workerVars, errors, crashes>>

\* gardener-operator works on the Garden again and again.
StartGardenReconciliation ==
  /\ settled /\ settled' = FALSE
  /\ UNCHANGED <<gardens, events, extVars, hashVars, objVars, workerVars, budget>>

GardenReconciled ==
  /\ ~settled /\ settled' = TRUE
  /\ \E g \in gardens : gardens = {g} /\ Notify(g)
  /\ UNCHANGED <<gardens, extVars, hashVars, objVars, workerVars, budget>>

CreateExtension ==
  /\ ext.phase = "none"
  /\ ext' = [ext EXCEPT !.phase = "present", !.op = "reconcile"]
  /\ queue' = TRUE
  /\ UNCHANGED <<gardenVars, hashVars, objVars, workerVars, budget>>

EditExtension ==
  /\ Change
  /\ ext.phase = "present"
  /\ \E c \in Configs \ {ext.config} : ext' = [ext EXCEPT !.config = c, !.op = "reconcile"]
  /\ queue' = TRUE
  /\ UNCHANGED <<gardenVars, hashVars, objVars, workerVars, errors, crashes>>

Annotate ==
  /\ ext.phase = "present" /\ ext.op = "none"
  /\ ext' = [ext EXCEPT !.op = "reconcile"]
  /\ queue' = TRUE
  /\ UNCHANGED <<gardenVars, hashVars, objVars, workerVars, budget>>

DeleteExtension ==
  /\ Change
  /\ ext.phase = "present"
  /\ ext' = IF ext.fin THEN [ext EXCEPT !.phase = "deleting"] ELSE Removed(ext)
  /\ queue' = TRUE
  /\ UNCHANGED <<gardenVars, hashVars, objVars, workerVars, errors, crashes>>

SyncHash ==
  /\ hashSeen # hash /\ hashSeen' = hash
  /\ UNCHANGED <<gardenVars, extVars, hash, objVars, workerVars, budget>>

\* The cert-controller-manager, which the MR deploys, releases the Certificate.
ReleaseCert ==
  /\ cert.st = "deleting" /\ mr = "present"
  /\ cert' = NoCert
  /\ UNCHANGED <<gardenVars, extVars, hashVars, mr, workerVars, budget>>

GRMRelease ==
  /\ mr = "deleting" /\ mr' = "absent"
  /\ UNCHANGED <<gardenVars, extVars, hashVars, cert, workerVars, budget>>

Reconcile == DeployMR \/ ListGardens \/ WriteCert \/ PatchHash \/ UpdateStatus
Delete == DeleteCert \/ RemoveHash \/ DeleteMR \/ WaitMR
Worker == Dequeue \/ DequeueNothing \/ Succeed \/ Reconcile \/ Delete
Operator == \/ CreateGarden \/ EditGarden \/ DeleteGarden
            \/ StartGardenReconciliation \/ GardenReconciled
            \/ CreateExtension \/ EditExtension \/ Annotate \/ DeleteExtension

Next == \/ Worker \/ CallFails \/ Restart \/ MapGarden \/ SyncHash
        \/ Operator \/ ReleaseCert \/ GRMRelease

Spec == Init /\ [][Next]_vars

(* The worker and the mapper are kept running by controller-runtime,        *)
(* gardener-operator reconciles the Garden again and again, caches catch    *)
(* up, GRM and the cert-controller-manager keep working.  Errors, restarts  *)
(* and edits are bounded and never required.                                *)
Fairness ==
  /\ WF_vars(Worker) /\ WF_vars(MapGarden) /\ WF_vars(SyncHash)
  /\ WF_vars(StartGardenReconciliation) /\ WF_vars(GardenReconciled)
  /\ WF_vars(ReleaseCert) /\ WF_vars(GRMRelease)

\* Progress by the watch on Gardens alone.
FairSpec == Spec /\ Fairness

\* The Extension itself is reconciled again and again, too.
AnnotatingSpec == FairSpec /\ WF_vars(Annotate)

-----------------------------------------------------------------------------
(* Properties                                                              *)

\* After a successful reconciliation the annotation vouches for the names the
\* Certificate has, not for a Garden that changed while the worker ran;
\* otherwise the mapper would take an outdated Certificate for current.
SettledCertMatchesHash ==
  /\ pc = "idle" /\ ext.phase = "present" /\ ext.state = "Succeeded"
  /\ cert.st = "present"
  => \E h \in hash : cert.names = Entries(h)

\* No request is lost: with an idle worker, whatever is not reconciled
\* successfully, is annotated or under deletion is in the queue; also when edits
\* and deletion overtake the worker, a call fails, or the process restarts.
NothingForgotten ==
  /\ pc = "idle"
  /\ \/ ext.phase = "deleting"
     \/ ext.phase = "present" /\ (ext.op # "none" \/ ext.state # "Succeeded")
  => queue

\* A Certificate that is outdated does not escape the watch: when the mapper
\* handles a Garden whose domains differ from those of a settled Certificate,
\* and its cache has the annotation, the Extension is enqueued.
OutdatedCertNoticed ==
  [][/\ MapGarden
     /\ pc = "idle" /\ ext.phase = "present" /\ ext.state = "Succeeded"
     /\ ext.config = "generate" /\ hashSeen = hash
     /\ cert.st = "present" /\ cert.names # DNSNames(Head(events))
     => queue']_vars

\* Deletion takes the Certificate away before its controller, also when it is
\* interrupted and starts again.
CertRemovedBeforeController == mr = "deleting" => cert.st # "present"

\* A deleted Extension leaves no Certificate in use and no controller behind.
NothingLeft == ext.phase = "none" => mr = "absent" /\ cert.st # "present"

\* An Extension that is to generate the certificate of the one Garden.
Generating ==
  /\ ext.phase = "present" /\ ext.config = "generate"
  /\ \E g \in gardens : gardens = {g} /\ DNSNames(g) # {}

\* The Certificate comes to have the names of the Garden for good, by the
\* watch on Gardens alone: a Garden that changes, and changes back, while the
\* worker runs between Certificate and annotation is caught by a later event.
CertTracksGarden ==
  <>[]Generating =>
    <>[](cert.st = "present" /\ \A g \in gardens : cert.names = DNSNames(g))

\* With recurring reconciliations of the Extension the Certificate comes to
\* have names and DNS provider of the Garden for good, whatever domains the
\* Garden had before, and although the hash does not cover the provider.
CertCurrent ==
  <>[]Generating =>
    <>[](/\ cert.st = "present"
         /\ \A g \in gardens : /\ cert.names = DNSNames(g)
                               /\ g.provider # NoProvider => cert.provider = g.provider)

\* A deleted Extension goes away.
DeletionCompletes == ext.phase = "deleting" ~> ext.phase = "none"

\* The abstract promise of ManagedCertificate holds of Garden and Certificate.
Content(g) == [names |-> DNSNames(g), needs |-> {}]
Held == IF cert.st = "present" THEN {cert.names} ELSE {}

Managed == INSTANCE ManagedCertificate WITH
  Outlives <- FALSE, source <- {Content(g) : g \in gardens},
  read <- {Content(g) : g \in picked}, held <- Held, credentials <- {}, controller <- mr

\* Garden controller and Certificate implement the abstract promise: the names
\* are those of one state of the only Garden, read before they are written,
\* and the controller is there when they are and leaves after them.
ImplementsManagedCertificate == Managed!Spec
=============================================================================
