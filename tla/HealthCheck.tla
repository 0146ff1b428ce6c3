---------------------------- MODULE HealthCheck ----------------------------
(***************************************************************************)
(* The health check of shoot Extensions (pkg/controller/healthcheck): the  *)
(* check of the ManagedResource in the seed, wrapped by one of all Issuers *)
(* in the namespace of the Extension.  The two read at different times.    *)
(* What the generic health check controller makes of a result or an error  *)
(* is external.  Parameters stand for what is read.                        *)
(***************************************************************************)
VARIABLES
  condition, \* ControlPlaneHealthy of the Extension
  step       \* of the check: "idle", or "issuers" after the ManagedResource

healthVars == <<condition, step>>

Conditions == {"none", "True", "False", "Unknown"}
HealthTypeOK == condition \in Conditions /\ step \in {"idle", "issuers"}
HealthInit == condition = "none" /\ step = "idle"

Report(status) == condition' = status /\ step' = "idle"

\* Shoots without a DNS domain are not checked; gardener reports them healthy.
PreCheckFunc(hasDomain) ==
  /\ step = "idle" /\ ~hasDomain
  /\ Report("True")

\* Only a negative result of the inner check is final.
CheckManagedResource(hasDomain, status) ==
  /\ step = "idle" /\ hasDomain
  /\ IF status = "False" THEN Report("False") ELSE step' = "issuers" /\ UNCHANGED condition

\* Mutant: only Issuers in state Error count.
CheckIssuers_ErrorOnly(states) ==
  /\ step = "issuers"
  /\ Report(IF "Error" \in states THEN "False" ELSE "True")

\* Every Issuer must be Ready; one without a state yet is not.
CheckIssuers(states) ==
  /\ step = "issuers"
  /\ Report(IF states \subseteq {"Ready"} THEN "True" ELSE "False")

\* A call of the check fails.
CheckFails == Report("Unknown")

\* The process goes; a check it was in leaves no trace.
AbortCheck == step' = "idle" /\ UNCHANGED condition
=============================================================================
