------------------------ MODULE ServiceConfiguration ------------------------
(***************************************************************************)
(* The configuration of the extension process and its start: validation    *)
(* (pkg/apis/config/validation), loading (pkg/cmd) and the controllers     *)
(* that are added to the manager (app, shoot/add.go, controlplane/add.go)  *)
(* for the arguments the helm chart passes.                                *)
(*                                                                         *)
(* An optional value is a set with at most one element.  PEM data is the   *)
(* sequence of its blocks.  A nameserver is given by its host, the         *)
(* brackets around it and its port; NotANumber is any other text.          *)
(***************************************************************************)
EXTENDS Integers, Sequences

CONSTANT DisabledControllers  \* disableControllers of the chart, by installation

Option(S) == {o \in SUBSET S : \A x, y \in o : x = y}
Deref(o, default) == IF o = {} THEN default ELSE CHOOSE x \in o : TRUE

NotANumber == -1
Hosts == {"ipv4", "ipv6", "name", "digits", "empty", "junk"}

\* An IPv6 address that is not in brackets takes what follows for itself.
Nameservers == {s \in [host: Hosts, brackets: {"none", "open", "both"}, port: Option(Int)] :
                  s.host = "ipv6" /\ s.brackets = "none" => s.port = {}}

Blocks == {"certificate", "key", "other"}

ACME == [server: {"url", "other"}, email: {"address", "other"}, privateKey: Option({"key"}),
         precheckNameservers: Option(Seq(Nameservers)), caCertificates: Option(Seq(Blocks))]
CA == [certificate: Seq(Blocks), certificateKey: Seq(Blocks)]
PrivateKeyDefaults == [algorithm: Option(STRING), sizeRSA: Option(Int), sizeECDSA: Option(Int)]

\* acmeNamespaces: InClusterACMEServerNamespaceMatchLabel is not empty.
Configuration ==
  [issuerName: STRING, restrictIssuer: Option(BOOLEAN), defaultRequestsPerDayQuota: Option(Int),
   acme: Option(ACME), ca: Option(CA), privateKeyDefaults: Option(PrivateKeyDefaults),
   acmeNamespaces: BOOLEAN]

IsIP(host) == host \in {"ipv4", "ipv6"}
Ports == 1..65535

\* net.SplitHostPort wants a port, and brackets around colons.
SplitHostPort(s) ==
  s.port # {} /\ (s.brackets = "none" => s.host # "ipv6") /\ s.brackets # "open"

\* Text without a port: brackets may only be around an IP address.
Balanced(s) == s.brackets = "none" \/ (s.brackets = "both" /\ s.port = {} /\ IsIP(s.host))

ValidateNameserver(s) ==
  /\ ~SplitHostPort(s) => Balanced(s)
  /\ IsIP(s.host) \/ s.host = "name"
  /\ SplitHostPort(s) => \A n \in s.port : n \in Ports

\* validateCertificate: nothing, or a certificate first; the rest is not read.
ValidateCertificate(pem) == pem # <<>> => Head(pem) = "certificate"
ValidateCACertificates(pem) == \A i \in DOMAIN pem : pem[i] = "certificate"
ValidateCertificateKey(pem) == pem = <<>> \/ pem = <<"key">>

\* One empty text is a list with one empty server.
ValidatePrecheckNameservers(servers) ==
  servers # <<>> /\ \A i \in DOMAIN servers : ValidateNameserver(servers[i])

ValidateACME(acme) ==
  /\ acme.server = "url" /\ acme.email = "address"
  /\ \A servers \in acme.precheckNameservers : ValidatePrecheckNameservers(servers)
  /\ \A pem \in acme.caCertificates : ValidateCACertificates(pem)

ValidateCA(ca) == ValidateCertificate(ca.certificate) /\ ValidateCertificateKey(ca.certificateKey)

ValidatePrivateKeyDefaults(defaults) ==
  /\ defaults.algorithm \subseteq {"RSA", "ECDSA"}
  /\ defaults.sizeRSA \subseteq {2048, 3072, 4096}
  /\ defaults.sizeECDSA \subseteq {256, 384}

\* Mutant: both kinds of issuer are accepted.
ValidateConfiguration_BothKinds(config) ==
  /\ config.issuerName # ""
  /\ \A n \in config.defaultRequestsPerDayQuota : n >= 1
  /\ config.acme # {} \/ config.ca # {}
  /\ \A acme \in config.acme : ValidateACME(acme)
  /\ \A ca \in config.ca : ValidateCA(ca)
  /\ \A defaults \in config.privateKeyDefaults : ValidatePrivateKeyDefaults(defaults)

ValidateConfiguration(config) ==
  /\ config.issuerName # ""
  /\ \A n \in config.defaultRequestsPerDayQuota : n >= 1
  /\ (config.acme = {}) # (config.ca = {})
  /\ \A acme \in config.acme : ValidateACME(acme)
  /\ \A ca \in config.ca : ValidateCA(ca)
  /\ \A defaults \in config.privateKeyDefaults : ValidatePrivateKeyDefaults(defaults)

\* SetDefaults_Configuration, when the file is decoded.
SetDefaults(config) == [config EXCEPT !.restrictIssuer = {Deref(@, TRUE)}]

-----------------------------------------------------------------------------
(* Start of the process                                                    *)

Installations == {"garden", "seed"}

\* The arguments of the chart: with runtimeCluster.enabled, for the garden.
ExtensionClasses(i) == IF i = "garden" THEN {"garden"} ELSE {}
ControllerSwitches(i) ==
  (IF i = "garden" THEN {"controlplane-cert-service"}
   ELSE {"shoot-cert-service", "controlplane-cert-service", "healthcheck", "heartbeat"})
    \ DisabledControllers[i]

\* Mutant: a process for the garden serves Extensions of the class seed, too.
ControlPlaneClasses_Both(i) == ExtensionClasses(i) \union {"seed"}

\* controlplane.AddToManagerWithOptions, shoot.AddToManagerWithOptions.
ControlPlaneClasses(i) == IF "garden" \in ExtensionClasses(i) THEN {"garden"} ELSE {"seed"}
ShootSupported(i) == "garden" \notin ExtensionClasses(i)

ServedClasses(i) ==
  (IF "controlplane-cert-service" \in ControllerSwitches(i) THEN ControlPlaneClasses(i) ELSE {})
    \union (IF "shoot-cert-service" \in ControllerSwitches(i) THEN {"shoot"} ELSE {})

\* Mutant: the defaults are missing.
Complete_NoDefaults(file) == {config \in file : ValidateConfiguration(config)}

\* Complete: the file, defaulted and validated; no configuration on an error.
Complete(file) ==
  {config \in {SetDefaults(c) : c \in file} : ValidateConfiguration(config)}

\* The configurations with which the manager of i starts on a file.
Run(i, file) ==
  {config \in Complete(file) : "shoot-cert-service" \in ControllerSwitches(i) => ShootSupported(i)}
=============================================================================
