----------------------- MODULE ShootExtensionTypeProofs -----------------------
(***************************************************************************)
(* ShootExtension is type correct: every action keeps TypeOK.              *)
(***************************************************************************)
EXTENDS ShootExtensionInvariant, TLAPS

USE DEF vars, extVars, envVars, mrVars, workerVars, budget

\* Absent ManagedResources and an empty snapshot have their types.
LEMMA NothingType == NoShootMR \in ShootMRs /\ NoSeedMR \in SeedMRs /\ NoSnap \in Snaps
  BY ConstantsAssumption
     DEF NoShootMR, ShootMRs, NoSeedMR, SeedMRs, NoSnap, Snaps, Cfgs0

\* An error of the actuator leaves Extension, queue and worker in their types.
LEMMA FailType ==
  ASSUME TypeOK, Fail
  PROVE  ext' \in Extensions /\ queue' \in BOOLEAN /\ pc' \in PCs /\ snap' \in Snaps
         /\ wop' \in Operations
<1>1. ext' \in Extensions
  BY DEF Fail, TypeOK, Extensions
<1>2. pc' \in PCs
  BY DEF Fail, PCs
<1>3. snap' \in Snaps
  BY NothingType DEF Fail
<1> QED
  BY <1>1, <1>2, <1>3 DEF Fail, TypeOK

\* Moving on to another step leaves Extension, queue and worker in their types.
LEMMA GoToType ==
  ASSUME TypeOK, NEW step \in PCs, GoTo(step)
  PROVE  ext' \in Extensions /\ queue' \in BOOLEAN /\ pc' \in PCs /\ wop' \in Operations
  BY DEF GoTo, TypeOK

\* An Extension that is gone is still of the type of Extensions.
LEMMA RemovedType ==
  ASSUME NEW e \in Extensions, NEW phase \in {"none", "moved"}, MaxCfg \in Nat
  PROVE  Removed(e, phase) \in Extensions
  BY DEF Removed, Extensions, Cfgs0

\* No step of worker, GRM, gardenlet or informers leaves the types.
LEMMA TypeStep == TypeOK /\ [Next]_vars => TypeOK'
<1> SUFFICES ASSUME TypeOK, [Next]_vars PROVE TypeOK'
  OBVIOUS
<1> USE ConstantsAssumption DEF TypeOK
<1>1. CASE Dequeue
  <2>1. ComputeOperation \in Operations
    BY DEF ComputeOperation, Operations
  <2>2. FirstStep(ComputeOperation) \in PCs
    BY <2>1 DEF FirstStep, PCs, ReconcilePCs, TeardownPCs
  <2>3. ext' \in Extensions
    BY <1>1, <2>1 DEF Dequeue, Extensions
  <2> QED
    BY <1>1, <2>1, <2>2, <2>3 DEF Dequeue
<1>2. CASE DequeueNothing
  BY <1>2 DEF DequeueNothing, IsMigrated
<1>3. CASE Succeed
  <2>1. ext' \in Extensions
    <3>1. CASE wop = "Delete"
      BY <1>3, <3>1, RemovedType DEF Succeed
    <3>2. CASE wop # "Delete"
      BY <1>3, <3>2 DEF Succeed, Extensions
    <3> QED
      BY <3>1, <3>2
  <2>2. snap' \in Snaps /\ pc' \in PCs
    BY <1>3 DEF Succeed, Snaps, NoSnap, Cfgs0, PCs
  <2> QED
    BY <1>3, <2>1, <2>2 DEF Succeed
<1>4. CASE GetCluster
  <2>1. CASE ext.cfg \in InvalidCfgs
    BY <1>4, <2>1, FailType DEF GetCluster
  <2>2. CASE ext.cfg \notin InvalidCfgs
    <3>1. snap' \in Snaps
      <4>1. IsHibernated(cached) \in BOOLEAN
        BY DEF IsHibernated
      <4>2. GetReplicas(cached) \in {0, 1}
        BY DEF GetReplicas
      <4>3. ext.cfg \in Cfgs0
        BY DEF Extensions, Cfgs, Cfgs0
      <4>4. snap' = [cfg |-> ext.cfg, hibernated |-> IsHibernated(cached),
                     replicas |-> GetReplicas(cached), nextGen |-> FALSE]
        BY <1>4, <2>2 DEF GetCluster
      <4> QED
        BY <4>1, <4>2, <4>3, <4>4 DEF Snaps
    <3> QED
      BY <1>4, <2>2, <3>1, GoToType DEF GetCluster, PCs, ReconcilePCs
  <2> QED
    BY <2>1, <2>2
<1>5. CASE GetDNSExtension
  BY <1>5 DEF GetDNSExtension, GoTo, PCs, ReconcilePCs, TeardownPCs,
         SeedTeardownPCs, Snaps, NoSnap, Cfgs0
<1>6. CASE ReconcileAccessSecret
  BY <1>6 DEF ReconcileAccessSecret, GoTo, PCs, ReconcilePCs, TeardownPCs,
         SeedTeardownPCs
<1>7. CASE DeployShoot
  BY <1>7 DEF DeployShoot, GoTo, PCs, ReconcilePCs, TeardownPCs, SeedTeardownPCs,
         Snaps, NoSnap, Cfgs0, ShootMRs
<1>8. CASE DeploySeed
  <2>1. CASE secretsValid
    <3>1. seedMR' \in SeedMRs
      BY <1>8, <2>1 DEF DeploySeed, SeedMRs, Snaps
    <3> QED
      BY <1>8, <2>1, <3>1, GoToType DEF DeploySeed, PCs, ReconcilePCs
  <2>2. CASE ~secretsValid
    BY <1>8, <2>2, FailType DEF DeploySeed
  <2> QED
    BY <2>1, <2>2
<1>9. CASE UpdateStatus
  BY <1>9 DEF UpdateStatus, Extensions, Operations, Cfgs, Cfgs0, PCs, ReconcilePCs,
         TeardownPCs, SeedTeardownPCs, Snaps, NoSnap
<1>10. CASE KeepObjects
  BY <1>10 DEF KeepObjects, GoTo, PCs, ReconcilePCs, TeardownPCs, SeedTeardownPCs,
         ShootMRs, Cfgs0
<1>11. CASE DeleteShoot
  BY <1>11 DEF DeleteShoot, GoTo, PCs, ReconcilePCs, TeardownPCs, SeedTeardownPCs,
         ShootMRs, NoShootMR, Cfgs0
<1>12. CASE WaitShoot
  BY <1>12 DEF WaitShoot, GoTo, PCs, ReconcilePCs, TeardownPCs, SeedTeardownPCs
<1>13. CASE WaitShootTimeout
  BY <1>13 DEF WaitShootTimeout, GoTo, PCs, ReconcilePCs, TeardownPCs,
         SeedTeardownPCs
<1>14. CASE DropShoot
  <2>1. CASE cached.deletion = "overdue" /\ shootMR.st # "absent"
    <3>1. shootMR' \in ShootMRs
      <4>1. CASE shootMR.st = "deleting"
        BY <1>14, <2>1, <4>1, NothingType DEF DropShoot
      <4>2. CASE shootMR.st # "deleting"
        BY <1>14, <2>1, <4>2 DEF DropShoot, ShootMRs
      <4> QED
        BY <4>1, <4>2
    <3> QED
      BY <1>14, <2>1, <3>1, GoToType DEF DropShoot, PCs, SeedTeardownPCs
  <2>2. CASE ~(cached.deletion = "overdue" /\ shootMR.st # "absent")
    BY <1>14, <2>2, FailType DEF DropShoot
  <2> QED
    BY <2>1, <2>2
<1>15. CASE DeleteAccessSecret
  BY <1>15 DEF DeleteAccessSecret, GoTo, PCs, ReconcilePCs, TeardownPCs,
         SeedTeardownPCs
<1>16. CASE DeleteSeed
  BY <1>16 DEF DeleteSeed, GoTo, PCs, ReconcilePCs, TeardownPCs, SeedTeardownPCs,
         SeedMRs
<1>17. CASE WaitSeed
  BY <1>17 DEF WaitSeed, GoTo, PCs, ReconcilePCs, TeardownPCs, SeedTeardownPCs
<1>18. CASE WaitSeedTimeout
  BY <1>18 DEF WaitSeedTimeout, Fail, Extensions, Operations, Cfgs, Cfgs0, PCs,
         ReconcilePCs, TeardownPCs, SeedTeardownPCs, Snaps, NoSnap
<1>19. CASE CallFails
  <2>1. CASE pc \in {"deleteShoot", "waitShoot"}
    BY <1>19, <2>1, GoToType DEF CallFails, PCs, TeardownPCs
  <2>2. CASE pc \notin {"deleteShoot", "waitShoot"}
    BY <1>19, <2>2, FailType DEF CallFails
  <2> QED
    BY <2>1, <2>2
<1>20. CASE Restart
  BY <1>20 DEF Restart, PCs, ReconcilePCs, TeardownPCs, SeedTeardownPCs, Snaps,
         NoSnap, Cfgs0
<1>21. CASE CreateExtension
  BY <1>21 DEF CreateExtension, Extensions, Operations, Cfgs, Cfgs0
<1>22. CASE Annotate
  BY <1>22 DEF Annotate, Annotatable, Extensions, Operations, Cfgs, Cfgs0
<1>23. CASE EditConfig
  <2>1. ext.cfg + 1 \in Cfgs
    BY <1>23 DEF EditConfig, Extensions, Cfgs
  <2>2. ext' \in Extensions
    BY <1>23, <2>1 DEF EditConfig, Extensions
  <2> QED
    BY <1>23, <2>2 DEF EditConfig
<1>24. CASE StartMigration
  BY <1>24 DEF StartMigration, Annotatable, ShootReachable, Extensions, Operations,
         Cfgs, Cfgs0
<1>25. CASE DeleteExtension
  <2>1. ext' \in Extensions
    <3>1. CASE ext.fin
      BY <1>25, <3>1 DEF DeleteExtension, Extensions
    <3>2. CASE ~ext.fin
      BY <1>25, <3>2, RemovedType DEF DeleteExtension
    <3> QED
      BY <3>1, <3>2
  <2> QED
    BY <1>25, <2>1 DEF DeleteExtension
<1>26. CASE SetHibernation
  BY <1>26 DEF SetHibernation, Change, Clusters
<1>27. CASE SetHibernated
  BY <1>27 DEF SetHibernated, Clusters
<1>28. CASE DeleteShootResource
  BY <1>28 DEF DeleteShootResource, Clusters
<1>29. CASE TenMinutesPass
  BY <1>29 DEF TenMinutesPass, Clusters
<1>30. CASE SyncCache
  BY <1>30 DEF SyncCache
<1>31. CASE DNSServiceChanges
  BY <1>31 DEF DNSServiceChanges, Change, DNSPredicate
<1>32. CASE SecretsChange
  BY <1>32 DEF SecretsChange, Change
<1>33. CASE FinalizersChange
  BY <1>33 DEF FinalizersChange, Change
<1>34. CASE GRMApply
  BY <1>34 DEF GRMApply, ShootReachable, ShootMRs, Cfgs0
<1>35. CASE GRMDeleteObjects
  BY <1>35 DEF GRMDeleteObjects, ShootReachable, Cfgs0
<1>36. CASE GRMRelease
  BY <1>36 DEF GRMRelease, ShootReachable, ShootMRs, NoShootMR, Cfgs0
<1>37. CASE GRMReleaseSeed
  BY <1>37 DEF GRMReleaseSeed, SeedMRs, NoSeedMR, Cfgs0
<1>38. CASE Terminated
  BY <1>38 DEF Terminated
<1>39. CASE UNCHANGED vars
  BY <1>39
<1> QED
  BY <1>1, <1>2, <1>3, <1>4, <1>5, <1>6, <1>7, <1>8, <1>9, <1>10, <1>11, <1>12,
     <1>13, <1>14, <1>15, <1>16, <1>17, <1>18, <1>19, <1>20, <1>21, <1>22, <1>23,
     <1>24, <1>25, <1>26, <1>27, <1>28, <1>29, <1>30, <1>31, <1>32, <1>33, <1>34,
     <1>35, <1>36, <1>37, <1>38, <1>39
     DEF Next, Worker, Reconcile, Delete, Gardenlet, GRM
=============================================================================
