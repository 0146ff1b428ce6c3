---------------------------- MODULE SeedExtension ----------------------------
(***************************************************************************)
(* The controlplane controller of gardener-extension-shoot-cert-service    *)
(* (pkg/controller/extension/controlplane) for the extension class seed:   *)
(* the actuator deploys cert-management in the seed and keeps the          *)
(* Certificate garden/ingress-wildcard-cert, with the credentials of its   *)
(* DNS provider in a secret next to it, in line with the Seed, which it    *)
(* reads from the virtual garden.  One API call per step.  Nothing watches *)
(* the Seed; Delete leaves Certificate and secret where they are.          *)
(*                                                                         *)
(* A DNS provider stands for its type and the credentials it refers to.    *)
(***************************************************************************)
EXTENDS Integers, FiniteSets

CONSTANTS
  SeedSpecs,      \* specs of the Seed: [domain, long: BOOLEAN, provider]
  NoProvider,     \* spec.dns.provider is not set
  Configs,        \* provider configs of the Extension
  CertFinalizers, \* the cert-controller-manager puts finalizers on Certificates
  MaxChanges,     \* bound: edits of Seed and Extension
  MaxErrors,      \* bound: API calls that fail
  MaxCrashes      \* bound: restarts of the extension process

\* "long": the wildcard name of the domain does not fit into a common name.
ASSUME ConstantsAssumption ==
  /\ \A s \in SeedSpecs : s.long \in BOOLEAN
  /\ Configs \subseteq {"generate", "plain", "invalid"}
  /\ CertFinalizers \in BOOLEAN
  /\ MaxChanges \in Nat /\ MaxErrors \in Nat /\ MaxCrashes \in Nat

VARIABLES
  seed,         \* spec of the Seed
  ext, queue,   \* the Extension; the workqueue holds a request for it
  cert,         \* the Certificate
  secret,       \* the DNS provider secret: {} or {provider}
  mr,           \* the ManagedResource of cert-management
  gardenClient, \* the actuator has created its client for the virtual garden
  pc, task,     \* the worker: its next step; "delete", or the config it reconciles
  picked,       \* the worker: the Seed it has read, {} or {seed}
  changes, errors, crashes

extVars    == <<ext, queue>>
certVars   == <<cert, secret>>
workerVars == <<pc, task, picked>>
budget     == <<changes, errors, crashes>>
vars == <<seed, extVars, certVars, mr, gardenClient, workerVars, budget>>

Domains == {s.domain : s \in SeedSpecs}
Providers == {s.provider : s \in SeedSpecs} \ {NoProvider}

Extensions == [phase: {"none", "present", "deleting"}, fin: BOOLEAN,
               config: Configs, op: {"none", "reconcile"},
               state: {"none", "Processing", "Error", "Succeeded"}]
Certs == [st: {"absent", "present", "deleting"}, commonName: SUBSET Domains,
          dnsNames: SUBSET Domains, provider: {s.provider : s \in SeedSpecs} \union {NoProvider}]
NoCert == [st |-> "absent", commonName |-> {}, dnsNames |-> {}, provider |-> NoProvider]
PCs == {"idle", "deployMR", "gardenClient", "getSeed", "getCredentials", "writeSecret",
        "writeCert", "deleteCert", "deleteSecret", "updateStatus", "deleteMR", "waitMR",
        "succeed"}

TypeOK ==
  /\ seed \in SeedSpecs
  /\ ext \in Extensions /\ queue \in BOOLEAN
  /\ cert \in Certs
  /\ secret = {} \/ \E p \in Providers : secret = {p}
  /\ mr \in {"absent", "present", "deleting"}
  /\ gardenClient \in BOOLEAN
  /\ pc \in PCs /\ task \in Configs \union {"delete"}
  /\ picked = {} \/ \E s \in SeedSpecs : picked = {s}
  /\ changes \in 0..MaxChanges /\ errors \in 0..MaxErrors /\ crashes \in 0..MaxCrashes

Init ==
  /\ seed \in SeedSpecs
  /\ ext \in [phase: {"none"}, fin: {FALSE}, config: Configs, op: {"none"}, state: {"none"}]
  /\ queue = FALSE
  /\ cert = NoCert /\ secret = {}
  /\ mr = "absent"
  /\ gardenClient = FALSE
  /\ pc = "idle" /\ task = "delete" /\ picked = {}
  /\ changes = 0 /\ errors = 0 /\ crashes = 0

-----------------------------------------------------------------------------
(* The worker: generic extension reconciler (external)                     *)

\* Finalizer, status Processing, operation annotation removed, then Delete or
\* Reconcile of the actuator.
Dequeue ==
  /\ pc = "idle" /\ queue /\ ext.phase # "none"
  /\ ext' = [ext EXCEPT !.state = "Processing", !.op = "none", !.fin = TRUE]
  /\ queue' = FALSE
  /\ IF ext.phase = "deleting"
     THEN pc' = "deleteMR" /\ task' = "delete"
     ELSE pc' = "deployMR" /\ task' = ext.config
  /\ UNCHANGED <<seed, certVars, mr, gardenClient, picked, budget>>

DequeueNothing ==
  /\ pc = "idle" /\ queue /\ ext.phase = "none"
  /\ queue' = FALSE
  /\ UNCHANGED <<seed, ext, certVars, mr, gardenClient, workerVars, budget>>

Removed(e) == [e EXCEPT !.phase = "none", !.fin = FALSE, !.op = "none", !.state = "none"]

Succeed ==
  /\ pc = "succeed"
  /\ ext' = IF task = "delete" THEN Removed(ext) ELSE [ext EXCEPT !.state = "Succeeded"]
  /\ pc' = "idle" /\ picked' = {}
  /\ UNCHANGED <<seed, queue, certVars, mr, gardenClient, task, budget>>

Fail ==
  /\ ext' = [ext EXCEPT !.state = "Error"]
  /\ queue' = TRUE
  /\ pc' = "idle" /\ picked' = {}
  /\ UNCHANGED task

\* A panic is recovered: the request is repeated, the status stays as it is.
Panic ==
  /\ queue' = TRUE
  /\ pc' = "idle" /\ picked' = {}
  /\ UNCHANGED <<ext, task>>

GoTo(step) == pc' = step /\ UNCHANGED <<extVars, task>>

-----------------------------------------------------------------------------
(* Reconcile: actuator.go, controlplanecert.go                             *)

DeployMR ==
  /\ pc = "deployMR"
  /\ IF task = "invalid"
     THEN Fail /\ UNCHANGED mr
     ELSE /\ mr' = IF mr = "absent" THEN "present" ELSE mr
          /\ GoTo(IF task = "generate" THEN "gardenClient" ELSE "deleteCert")
          /\ UNCHANGED picked
  /\ UNCHANGED <<seed, certVars, gardenClient, budget>>

\* getOrCreateGardenClient: created once in the life of the process.
GetGardenClient ==
  /\ pc = "gardenClient"
  /\ gardenClient' = TRUE
  /\ GoTo("getSeed")
  /\ UNCHANGED <<seed, certVars, mr, picked, budget>>

\* Mutant: a Seed without provider is not noticed.
GetSeed_NoCheck ==
  /\ pc = "getSeed"
  /\ GoTo("getCredentials") /\ picked' = {seed}
  /\ UNCHANGED <<seed, certVars, mr, gardenClient, budget>>

\* fetchSeedFromVirtualGarden.  The type of the provider is read through a nil
\* pointer when the Seed has none: the panic ends the reconciliation.
GetSeed ==
  /\ pc = "getSeed"
  /\ IF seed.provider = NoProvider
     THEN Panic
     ELSE GoTo("getCredentials") /\ picked' = {seed}
  /\ UNCHANGED <<seed, certVars, mr, gardenClient, budget>>

\* Mutant: the secret is left to a later reconciliation.
GetCredentials_Skipped ==
  /\ pc = "getCredentials"
  /\ GoTo("writeCert")
  /\ UNCHANGED <<seed, certVars, mr, gardenClient, picked, budget>>

\* getDNSProviderCredentialsDeployer, for the provider of the Seed that was read.
GetCredentials ==
  /\ pc = "getCredentials"
  /\ GoTo("writeSecret")
  /\ UNCHANGED <<seed, certVars, mr, gardenClient, picked, budget>>

\* Mutant: an existing secret is kept.
WriteSecret_CreateOnly ==
  /\ pc = "writeSecret"
  /\ secret' = IF secret = {} THEN {s.provider : s \in picked} ELSE secret
  /\ GoTo("writeCert")
  /\ UNCHANGED <<seed, cert, mr, gardenClient, picked, budget>>

WriteSecret ==
  /\ pc = "writeSecret"
  /\ secret' = {s.provider : s \in picked}
  /\ GoTo("writeCert")
  /\ UNCHANGED <<seed, cert, mr, gardenClient, picked, budget>>

Domain(s) == {s.domain}

\* CreateOrGetAndMergePatch; a common name has at most 64 characters.
WriteCert ==
  /\ pc = "writeCert"
  /\ \E s \in picked :
       cert' = [st         |-> IF cert.st = "absent" THEN "present" ELSE cert.st,
                commonName |-> IF s.long THEN {} ELSE Domain(s),
                dnsNames   |-> IF s.long THEN Domain(s) ELSE {},
                provider   |-> s.provider]
  /\ GoTo("updateStatus")
  /\ UNCHANGED <<seed, secret, mr, gardenClient, picked, budget>>

\* controlPlaneCert.delete: the Certificate, then its credentials.
DeleteCert ==
  /\ pc = "deleteCert"
  /\ cert' = IF cert.st # "absent" /\ CertFinalizers
             THEN [cert EXCEPT !.st = "deleting"] ELSE NoCert
  /\ GoTo("deleteSecret")
  /\ UNCHANGED <<seed, secret, mr, gardenClient, picked, budget>>

\* Mutant: a missing secret is an error.
DeleteSecret_NotFoundFails ==
  /\ pc = "deleteSecret"
  /\ secret' = {}
  /\ IF secret = {} THEN Fail ELSE GoTo("updateStatus") /\ UNCHANGED picked
  /\ UNCHANGED <<seed, cert, mr, gardenClient, budget>>

DeleteSecret ==
  /\ pc = "deleteSecret"
  /\ secret' = {}
  /\ GoTo("updateStatus")
  /\ UNCHANGED <<seed, cert, mr, gardenClient, picked, budget>>

\* Status.Resources follows the config; nothing here depends on it.
UpdateStatus ==
  /\ pc = "updateStatus"
  /\ GoTo("succeed")
  /\ UNCHANGED <<seed, certVars, mr, gardenClient, picked, budget>>

-----------------------------------------------------------------------------
(* Delete: for the class seed nothing but the MR                           *)

\* Mutant: a ManagedResource that is gone is an error.
DeleteMR_NotFoundFails ==
  /\ pc = "deleteMR"
  /\ IF mr = "absent" THEN Fail /\ UNCHANGED mr
     ELSE mr' = "deleting" /\ GoTo("waitMR") /\ UNCHANGED picked
  /\ UNCHANGED <<seed, certVars, gardenClient, budget>>

DeleteMR ==
  /\ pc = "deleteMR"
  /\ mr' = IF mr = "absent" THEN mr ELSE "deleting"
  /\ GoTo("waitMR")
  /\ UNCHANGED <<seed, certVars, gardenClient, picked, budget>>

WaitMR ==
  /\ pc = "waitMR"
  /\ IF mr = "absent" THEN GoTo("succeed") /\ UNCHANGED picked ELSE Fail
  /\ UNCHANGED <<seed, certVars, mr, gardenClient, budget>>

CallFails ==
  /\ pc # "idle"
  /\ errors < MaxErrors /\ errors' = errors + 1
  /\ Fail
  /\ UNCHANGED <<seed, certVars, mr, gardenClient, changes, crashes>>

\* The process restarts; predicates decide whether the Extension is enqueued.
Restart ==
  /\ crashes < MaxCrashes /\ crashes' = crashes + 1
  /\ gardenClient' = FALSE
  /\ pc' = "idle" /\ picked' = {}
  /\ queue' = (ext.phase # "none" /\ (ext.op # "none" \/ ext.state # "Succeeded"
                                      \/ ext.phase = "deleting"))
  /\ UNCHANGED <<seed, ext, certVars, mr, task, changes, errors>>

-----------------------------------------------------------------------------
(* Environment (external): gardenlet, GRM, cert-controller-manager         *)

Change == changes < MaxChanges /\ changes' = changes + 1

EditSeed ==
  /\ Change
  /\ seed' \in SeedSpecs \ {seed}
  /\ UNCHANGED <<extVars, certVars, mr, gardenClient, workerVars, errors, crashes>>

CreateExtension ==
  /\ ext.phase = "none"
  /\ ext' = [ext EXCEPT !.phase = "present", !.op = "reconcile"]
  /\ queue' = TRUE
  /\ UNCHANGED <<seed, certVars, mr, gardenClient, workerVars, budget>>

EditExtension ==
  /\ Change
  /\ ext.phase = "present"
  /\ \E c \in Configs \ {ext.config} : ext' = [ext EXCEPT !.config = c, !.op = "reconcile"]
  /\ queue' = TRUE
  /\ UNCHANGED <<seed, certVars, mr, gardenClient, workerVars, errors, crashes>>

\* gardenlet reconciles Extension and Seed again and again.
Annotate ==
  /\ ext.phase = "present" /\ ext.op = "none"
  /\ ext' = [ext EXCEPT !.op = "reconcile"]
  /\ queue' = TRUE
  /\ UNCHANGED <<seed, certVars, mr, gardenClient, workerVars, budget>>

DeleteExtension ==
  /\ Change
  /\ ext.phase = "present"
  /\ ext' = IF ext.fin THEN [ext EXCEPT !.phase = "deleting"] ELSE Removed(ext)
  /\ queue' = TRUE
  /\ UNCHANGED <<seed, certVars, mr, gardenClient, workerVars, errors, crashes>>

ReleaseCert ==
  /\ cert.st = "deleting" /\ mr = "present"
  /\ cert' = NoCert
  /\ UNCHANGED <<seed, extVars, secret, mr, gardenClient, workerVars, budget>>

GRMRelease ==
  /\ mr = "deleting" /\ mr' = "absent"
  /\ UNCHANGED <<seed, extVars, certVars, gardenClient, workerVars, budget>>

Reconcile == \/ DeployMR \/ GetGardenClient \/ GetSeed \/ GetCredentials \/ WriteSecret
             \/ WriteCert \/ DeleteCert \/ DeleteSecret \/ UpdateStatus
Delete == DeleteMR \/ WaitMR
Worker == Dequeue \/ DequeueNothing \/ Succeed \/ Reconcile \/ Delete
Gardenlet == EditSeed \/ CreateExtension \/ EditExtension \/ Annotate \/ DeleteExtension

Next == Worker \/ CallFails \/ Restart \/ Gardenlet \/ ReleaseCert \/ GRMRelease

Spec == Init /\ [][Next]_vars

(* The worker is kept running by controller-runtime, gardenlet reconciles   *)
(* again and again, GRM and cert-controller-manager keep working.  Errors,  *)
(* restarts and edits are bounded and never required.                       *)
Fairness == /\ WF_vars(Worker) /\ WF_vars(Annotate)
            /\ WF_vars(ReleaseCert) /\ WF_vars(GRMRelease)

FairSpec == Spec /\ Fairness

-----------------------------------------------------------------------------
(* Properties                                                              *)

\* A Certificate in use finds the credentials it refers to: whatever call of
\* reconcile or delete is the last one before a failure, and also when it has
\* outlived its Extension.
CertHasCredentials == cert.st = "present" => secret # {}

\* A Certificate in use names one domain, as common name or as DNS name,
\* although a longer domain moves it from one field to the other.
CertForOneDomain ==
  cert.st = "present" =>
    \E s \in SeedSpecs : \/ s.long /\ cert.commonName = {} /\ cert.dnsNames = {s.domain}
                         \/ ~s.long /\ cert.commonName = {s.domain} /\ cert.dnsNames = {}

\* After a successful reconciliation, the secret has the credentials of the
\* provider that the Certificate names: two objects written one after the
\* other, from a Seed that changes meanwhile.
SettledCredentialsMatch ==
  /\ pc = "idle" /\ ext.phase = "present" /\ ext.state = "Succeeded"
  /\ cert.st = "present"
  => secret = {cert.provider}

Serves(config) == ext.phase = "present" /\ ext.config = config

\* No request is lost: with an idle worker, whatever is not reconciled
\* successfully, is annotated or under deletion is in the queue; also when edits
\* and deletion overtake the worker, a call fails, or the process restarts.
NothingForgotten ==
  /\ pc = "idle"
  /\ \/ ext.phase = "deleting"
     \/ ext.phase = "present" /\ (ext.op # "none" \/ ext.state # "Succeeded")
  => queue

\* An Extension that goes takes its controller along, also when its deletion
\* is interrupted, or overtakes a reconciliation that deploys it.
NoControllerLeft == ext.phase = "none" => mr = "absent"

\* Certificate and credentials come to be those of the Seed for good, by
\* recurring reconciliations, as long as the Seed names a provider; also when
\* they are leftovers of an Extension that was deleted.
CertTracksSeed ==
  <>[](Serves("generate") /\ seed.provider # NoProvider) =>
    <>[](/\ cert.st = "present"
         /\ cert.commonName \union cert.dnsNames = {seed.domain}
         /\ cert.provider = seed.provider /\ secret = {seed.provider})

\* An Extension that generates no certificate comes to have neither, also
\* when one of them is gone already, or both are leftovers.
PlainRemovesBoth ==
  <>[]Serves("plain") => <>[](cert.st = "absent" /\ secret = {} /\ ext.state # "Error")

\* A deleted Extension goes away, although its MR may be gone already.
DeletionCompletes == ext.phase = "deleting" ~> ext.phase = "none"

\* The abstract promise of ManagedCertificate holds of Seed and Certificate.
Content(s) ==
  [names |-> [commonName |-> IF s.long THEN {} ELSE Domain(s),
              dnsNames   |-> IF s.long THEN Domain(s) ELSE {},
              provider   |-> s.provider],
   needs |-> {s.provider}]
Held ==
  IF cert.st = "present"
  THEN {[commonName |-> cert.commonName, dnsNames |-> cert.dnsNames, provider |-> cert.provider]}
  ELSE {}

Managed == INSTANCE ManagedCertificate WITH
  Outlives <- TRUE, source <- {Content(seed)}, read <- {Content(s) : s \in picked},
  held <- Held, credentials <- secret, controller <- mr

\* Seed controller, Certificate and secret implement the abstract promise: name
\* and provider are those of one state of the Seed, the credentials are there
\* before the Certificate and leave after it, also between two failed calls.
ImplementsManagedCertificate == Managed!Spec
=============================================================================
