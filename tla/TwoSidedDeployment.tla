-------------------------- MODULE TwoSidedDeployment --------------------------
(***************************************************************************)
(* What the shoot controller promises about the two halves of a            *)
(* cert-management installation, whatever fails in between: the shoot side *)
(* (CRDs and roles in the shoot) and the seed side (issuers, secrets and   *)
(* the cert-controller-manager, which may be scaled to zero).              *)
(*   - the controller is started only for a shoot side that is in place;   *)
(*   - a side that is being withdrawn is not deployed again before it is   *)
(*     gone;                                                               *)
(*   - the seed side is withdrawn only when the shoot side has gone, or    *)
(*     when the shoot is overdue for its own deletion.                     *)
(***************************************************************************)
VARIABLES
  shootSide,  \* "absent", "deployed", "leaving"
  seedSide,   \* "absent", "scaledDown", "running", "leaving"
  overdue     \* the shoot is deleting for more than ten minutes

Init == shootSide = "absent" /\ seedSide = "absent" /\ overdue = FALSE

DeployShootSide ==
  /\ shootSide = "absent" /\ seedSide # "leaving"
  /\ shootSide' = "deployed"
  /\ UNCHANGED <<seedSide, overdue>>

DeploySeedSide ==
  /\ seedSide # "leaving"
  /\ \/ seedSide' = "scaledDown"
     \/ shootSide = "deployed" /\ seedSide' = "running"
  /\ UNCHANGED <<shootSide, overdue>>

WithdrawShootSide ==
  /\ \/ shootSide = "deployed" /\ shootSide' \in {"leaving", "absent"}
     \/ shootSide = "leaving" /\ shootSide' = "absent"
  /\ UNCHANGED <<seedSide, overdue>>

WithdrawSeedSide ==
  /\ \/ /\ seedSide \in {"scaledDown", "running"}
        /\ shootSide = "absent" \/ overdue
        /\ seedSide' = "leaving"
     \/ seedSide = "leaving" /\ seedSide' = "absent"
  /\ UNCHANGED <<shootSide, overdue>>

BecomeOverdue ==
  /\ overdue' = TRUE
  /\ UNCHANGED <<shootSide, seedSide>>

Next == \/ DeployShootSide \/ DeploySeedSide \/ WithdrawShootSide
        \/ WithdrawSeedSide \/ BecomeOverdue

Spec == Init /\ [][Next]_<<shootSide, seedSide, overdue>>
=============================================================================
