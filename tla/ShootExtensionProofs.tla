------------------------- MODULE ShootExtensionProofs -------------------------
(***************************************************************************)
(* The inductive invariant of ShootExtension and what follows from it, for *)
(* every value of the constants.  Each lemma XStep proves one part of IInv *)
(* for every action; the theorems are at the end.                          *)
(***************************************************************************)
EXTENDS ShootExtensionTypeProofs

USE DEF vars, extVars, envVars, mrVars, workerVars, budget

\* The worker keeps working on the operation the status shows (Dequeue to
\* Succeed or Fail).
LEMMA WorkerStep == TypeOK /\ WorkerInv /\ [Next]_vars => WorkerInv'
<1> SUFFICES ASSUME TypeOK, WorkerInv, [Next]_vars PROVE WorkerInv'
  OBVIOUS
<1> USE DEF TypeOK, WorkerInv, Reconciling, ReconcilePCs, TeardownPCs,
            SeedTeardownPCs
<1>1. CASE Dequeue
  BY <1>1 DEF Dequeue, ComputeOperation, FirstStep, IsMigrated, Extensions
<1>2. CASE DequeueNothing
  BY <1>2 DEF DequeueNothing, IsMigrated
<1>3. CASE Succeed
  BY <1>3 DEF Succeed, Removed, Extensions
<1>4. CASE GetCluster
  BY <1>4 DEF GetCluster, Fail, GoTo, IsHibernated, GetReplicas, Extensions
<1>5. CASE GetDNSExtension
  BY <1>5 DEF GetDNSExtension, GoTo, Snaps
<1>6. CASE ReconcileAccessSecret
  BY <1>6 DEF ReconcileAccessSecret, GoTo
<1>7. CASE DeployShoot
  BY <1>7 DEF DeployShoot, GoTo, ShootMRs, Snaps
<1>8. CASE DeploySeed
  BY <1>8 DEF DeploySeed, Fail, GoTo, SeedMRs, Extensions, Snaps
<1>9. CASE UpdateStatus
  BY <1>9 DEF UpdateStatus, Extensions, Snaps
<1>10. CASE KeepObjects
  BY <1>10 DEF KeepObjects, GoTo, ShootMRs
<1>11. CASE DeleteShoot
  BY <1>11 DEF DeleteShoot, GoTo, ShootMRs
<1>12. CASE WaitShoot
  BY <1>12 DEF WaitShoot, GoTo
<1>13. CASE WaitShootTimeout
  BY <1>13 DEF WaitShootTimeout, GoTo
<1>14. CASE DropShoot
  BY <1>14 DEF DropShoot, Fail, GoTo, ShootMRs, Extensions
<1>15. CASE DeleteAccessSecret
  BY <1>15 DEF DeleteAccessSecret, GoTo
<1>16. CASE DeleteSeed
  BY <1>16 DEF DeleteSeed, GoTo, SeedMRs
<1>17. CASE WaitSeed
  BY <1>17 DEF WaitSeed, GoTo
<1>18. CASE WaitSeedTimeout
  BY <1>18 DEF WaitSeedTimeout, Fail, Extensions
<1>19. CASE CallFails
  BY <1>19 DEF CallFails, Fail, GoTo, Extensions
<1>20. CASE Restart
  BY <1>20 DEF Restart
<1>21. CASE CreateExtension
  BY <1>21 DEF CreateExtension, Extensions
<1>22. CASE Annotate
  BY <1>22 DEF Annotate, Annotatable, Extensions
<1>23. CASE EditConfig
  BY <1>23 DEF EditConfig, Annotatable, Extensions
<1>24. CASE StartMigration
  BY <1>24 DEF StartMigration, Annotatable, ShootReachable, Extensions
<1>25. CASE DeleteExtension
  BY <1>25 DEF DeleteExtension, Removed, IsMigrated, Extensions
<1>26. CASE SetHibernation
  BY <1>26 DEF SetHibernation, Change, Clusters
<1>27. CASE SetHibernated
  BY <1>27 DEF SetHibernated, Clusters
<1>28. CASE DeleteShootResource
  BY <1>28 DEF DeleteShootResource, Clusters
<1>29. CASE TenMinutesPass
  BY <1>29 DEF TenMinutesPass, Clusters
<1>30. CASE SyncCache
  BY <1>30 DEF SyncCache
<1>31. CASE DNSServiceChanges
  BY <1>31 DEF DNSServiceChanges, Change, DNSPredicate
<1>32. CASE SecretsChange
  BY <1>32 DEF SecretsChange, Change
<1>33. CASE FinalizersChange
  BY <1>33 DEF FinalizersChange, Change
<1>34. CASE GRMApply
  BY <1>34 DEF GRMApply, ShootReachable, ShootMRs
<1>35. CASE GRMDeleteObjects
  BY <1>35 DEF GRMDeleteObjects, ShootReachable
<1>36. CASE GRMRelease
  BY <1>36 DEF GRMRelease, ShootReachable
<1>37. CASE GRMReleaseSeed
  BY <1>37 DEF GRMReleaseSeed
<1>38. CASE Terminated
  BY <1>38 DEF Terminated
<1>39. CASE UNCHANGED vars
  BY <1>39
<1> QED
  BY <1>1, <1>2, <1>3, <1>4, <1>5, <1>6, <1>7, <1>8, <1>9, <1>10, <1>11, <1>12,
     <1>13, <1>14, <1>15, <1>16, <1>17, <1>18, <1>19, <1>20, <1>21, <1>22, <1>23,
     <1>24, <1>25, <1>26, <1>27, <1>28, <1>29, <1>30, <1>31, <1>32, <1>33, <1>34,
     <1>35, <1>36, <1>37, <1>38, <1>39
     DEF Next, Worker, Reconcile, Delete, Gardenlet, GRM

\* Status, annotation and finalizer keep fitting to the Extension's phase.
LEMMA LifeStep ==
  TypeOK /\ WorkerInv /\ OrderInv /\ LifeInv /\ [Next]_vars => LifeInv'
<1> SUFFICES ASSUME TypeOK, WorkerInv, OrderInv, LifeInv, [Next]_vars PROVE LifeInv'
  OBVIOUS
<1> USE DEF TypeOK, OrderInv, Leaving, LifeInv, IsMigrated, WorkerInv, Reconciling,
            ReconcilePCs, TeardownPCs, SeedTeardownPCs
<1>1. CASE Dequeue
  BY <1>1 DEF Dequeue, ComputeOperation, FirstStep, IsMigrated, Extensions
<1>2. CASE DequeueNothing
  BY <1>2 DEF DequeueNothing, IsMigrated
<1>3. CASE Succeed
  BY <1>3 DEF Succeed, Removed, Extensions
<1>4. CASE GetCluster
  BY <1>4 DEF GetCluster, Fail, GoTo, IsHibernated, GetReplicas, Extensions
<1>5. CASE GetDNSExtension
  BY <1>5 DEF GetDNSExtension, GoTo, Snaps
<1>6. CASE ReconcileAccessSecret
  BY <1>6 DEF ReconcileAccessSecret, GoTo
<1>7. CASE DeployShoot
  BY <1>7 DEF DeployShoot, GoTo, ShootMRs, Snaps
<1>8. CASE DeploySeed
  BY <1>8 DEF DeploySeed, Fail, GoTo, SeedMRs, Extensions, Snaps
<1>9. CASE UpdateStatus
  BY <1>9 DEF UpdateStatus, Extensions, Snaps
<1>10. CASE KeepObjects
  BY <1>10 DEF KeepObjects, GoTo, ShootMRs
<1>11. CASE DeleteShoot
  BY <1>11 DEF DeleteShoot, GoTo, ShootMRs
<1>12. CASE WaitShoot
  BY <1>12 DEF WaitShoot, GoTo
<1>13. CASE WaitShootTimeout
  BY <1>13 DEF WaitShootTimeout, GoTo
<1>14. CASE DropShoot
  BY <1>14 DEF DropShoot, Fail, GoTo, ShootMRs, Extensions
<1>15. CASE DeleteAccessSecret
  BY <1>15 DEF DeleteAccessSecret, GoTo
<1>16. CASE DeleteSeed
  BY <1>16 DEF DeleteSeed, GoTo, SeedMRs
<1>17. CASE WaitSeed
  BY <1>17 DEF WaitSeed, GoTo
<1>18. CASE WaitSeedTimeout
  BY <1>18 DEF WaitSeedTimeout, Fail, Extensions
<1>19. CASE CallFails
  BY <1>19 DEF CallFails, Fail, GoTo, Extensions
<1>20. CASE Restart
  BY <1>20 DEF Restart
<1>21. CASE CreateExtension
  BY <1>21 DEF CreateExtension, Extensions
<1>22. CASE Annotate
  BY <1>22 DEF Annotate, Annotatable, Extensions
<1>23. CASE EditConfig
  BY <1>23 DEF EditConfig, Annotatable, Extensions
<1>24. CASE StartMigration
  BY <1>24 DEF StartMigration, Annotatable, ShootReachable, Extensions
<1>25. CASE DeleteExtension
  BY <1>25 DEF DeleteExtension, Removed, IsMigrated, Extensions
<1>26. CASE SetHibernation
  BY <1>26 DEF SetHibernation, Change, Clusters
<1>27. CASE SetHibernated
  BY <1>27 DEF SetHibernated, Clusters
<1>28. CASE DeleteShootResource
  BY <1>28 DEF DeleteShootResource, Clusters
<1>29. CASE TenMinutesPass
  BY <1>29 DEF TenMinutesPass, Clusters
<1>30. CASE SyncCache
  BY <1>30 DEF SyncCache
<1>31. CASE DNSServiceChanges
  BY <1>31 DEF DNSServiceChanges, Change, DNSPredicate
<1>32. CASE SecretsChange
  BY <1>32 DEF SecretsChange, Change
<1>33. CASE FinalizersChange
  BY <1>33 DEF FinalizersChange, Change
<1>34. CASE GRMApply
  BY <1>34 DEF GRMApply, ShootReachable, ShootMRs
<1>35. CASE GRMDeleteObjects
  BY <1>35 DEF GRMDeleteObjects, ShootReachable
<1>36. CASE GRMRelease
  BY <1>36 DEF GRMRelease, ShootReachable
<1>37. CASE GRMReleaseSeed
  BY <1>37 DEF GRMReleaseSeed
<1>38. CASE Terminated
  BY <1>38 DEF Terminated
<1>39. CASE UNCHANGED vars
  BY <1>39
<1> QED
  BY <1>1, <1>2, <1>3, <1>4, <1>5, <1>6, <1>7, <1>8, <1>9, <1>10, <1>11, <1>12,
     <1>13, <1>14, <1>15, <1>16, <1>17, <1>18, <1>19, <1>20, <1>21, <1>22, <1>23,
     <1>24, <1>25, <1>26, <1>27, <1>28, <1>29, <1>30, <1>31, <1>32, <1>33, <1>34,
     <1>35, <1>36, <1>37, <1>38, <1>39
     DEF Next, Worker, Reconcile, Delete, Gardenlet, GRM

\* No step withdraws the sides out of order; the hard ones are WaitShoot,
\* DropShoot and a Delete that starts again after an error or a restart.
LEMMA OrderStep ==
  TypeOK /\ WorkerInv /\ LifeInv /\ OrderInv /\ [Next]_vars => OrderInv'
<1> SUFFICES ASSUME TypeOK, WorkerInv, LifeInv, OrderInv, [Next]_vars
             PROVE  OrderInv'
  OBVIOUS
<1> USE DEF TypeOK, OrderInv, Leaving, SeedTornDownLast, LifeInv, IsMigrated,
            WorkerInv, Reconciling, ReconcilePCs, TeardownPCs, SeedTeardownPCs
<1>1. CASE Dequeue
  BY <1>1 DEF Dequeue, ComputeOperation, FirstStep, IsMigrated, Extensions
<1>2. CASE DequeueNothing
  BY <1>2 DEF DequeueNothing, IsMigrated, Extensions
<1>3. CASE Succeed
  BY <1>3 DEF Succeed, Removed, Extensions
<1>4. CASE GetCluster
  BY <1>4 DEF GetCluster, Fail, GoTo, IsHibernated, GetReplicas, Extensions,
         Clusters, NoSnap, Cfgs, Cfgs0
<1>5. CASE GetDNSExtension
  BY <1>5 DEF GetDNSExtension, GoTo, Snaps
<1>6. CASE ReconcileAccessSecret
  BY <1>6 DEF ReconcileAccessSecret, GoTo
<1>7. CASE DeployShoot
  BY <1>7 DEF DeployShoot, GoTo, ShootMRs, Snaps, Cfgs0
<1>8. CASE DeploySeed
  BY <1>8 DEF DeploySeed, Fail, GoTo, SeedMRs, Extensions, Snaps, NoSnap, Cfgs,
         Cfgs0
<1>9. CASE UpdateStatus
  BY <1>9 DEF UpdateStatus, Extensions, Snaps
<1>10. CASE KeepObjects
  BY <1>10 DEF KeepObjects, GoTo, ShootMRs
<1>11. CASE DeleteShoot
  BY <1>11 DEF DeleteShoot, GoTo, ShootMRs, Operations, NoShootMR, Extensions, Cfgs,
         Cfgs0
<1>12. CASE WaitShoot
  BY <1>12 DEF WaitShoot, GoTo
<1>13. CASE WaitShootTimeout
  BY <1>13 DEF WaitShootTimeout, GoTo
<1>14. CASE DropShoot
  BY <1>14 DEF DropShoot, Fail, GoTo, ShootMRs, Extensions, Operations, NoShootMR,
         NoSnap, Cfgs, Cfgs0
<1>15. CASE DeleteAccessSecret
  BY <1>15 DEF DeleteAccessSecret, GoTo, Operations, SeedMRs
<1>16. CASE DeleteSeed
  BY <1>16 DEF DeleteSeed, GoTo, SeedMRs, Operations
<1>17. CASE WaitSeed
  BY <1>17 DEF WaitSeed, GoTo
<1>18. CASE WaitSeedTimeout
  BY <1>18 DEF WaitSeedTimeout, Fail, Extensions
<1>19. CASE CallFails
  BY <1>19 DEF CallFails, Fail, GoTo, Extensions
<1>20. CASE Restart
  BY <1>20 DEF Restart
<1>21. CASE CreateExtension
  BY <1>21 DEF CreateExtension, Extensions
<1>22. CASE Annotate
  BY <1>22 DEF Annotate, Annotatable, Extensions
<1>23. CASE EditConfig
  BY <1>23 DEF EditConfig, Annotatable, Extensions, Cfgs, ShootMRs, SeedMRs, Cfgs0
<1>24. CASE StartMigration
  BY <1>24 DEF StartMigration, Annotatable, ShootReachable, Extensions
<1>25. CASE DeleteExtension
  BY <1>25 DEF DeleteExtension, Removed, IsMigrated, Extensions
<1>26. CASE SetHibernation
  BY <1>26 DEF SetHibernation, Change, Clusters
<1>27. CASE SetHibernated
  BY <1>27 DEF SetHibernated, Clusters
<1>28. CASE DeleteShootResource
  BY <1>28 DEF DeleteShootResource, Clusters
<1>29. CASE TenMinutesPass
  BY <1>29 DEF TenMinutesPass, Clusters
<1>30. CASE SyncCache
  BY <1>30 DEF SyncCache
<1>31. CASE DNSServiceChanges
  BY <1>31 DEF DNSServiceChanges, Change, DNSPredicate
<1>32. CASE SecretsChange
  BY <1>32 DEF SecretsChange, Change
<1>33. CASE FinalizersChange
  BY <1>33 DEF FinalizersChange, Change
<1>34. CASE GRMApply
  BY <1>34 DEF GRMApply, ShootReachable, ShootMRs
<1>35. CASE GRMDeleteObjects
  BY <1>35 DEF GRMDeleteObjects, ShootReachable
<1>36. CASE GRMRelease
  BY <1>36 DEF GRMRelease, ShootReachable, NoShootMR, Cfgs, Cfgs0, Extensions,
         ShootMRs
<1>37. CASE GRMReleaseSeed
  BY <1>37 DEF GRMReleaseSeed, NoSeedMR, SeedMRs, Extensions, Cfgs, Cfgs0
<1>38. CASE Terminated
  BY <1>38 DEF Terminated
<1>39. CASE UNCHANGED vars
  BY <1>39
<1> QED
  BY <1>1, <1>2, <1>3, <1>4, <1>5, <1>6, <1>7, <1>8, <1>9, <1>10, <1>11, <1>12,
     <1>13, <1>14, <1>15, <1>16, <1>17, <1>18, <1>19, <1>20, <1>21, <1>22, <1>23,
     <1>24, <1>25, <1>26, <1>27, <1>28, <1>29, <1>30, <1>31, <1>32, <1>33, <1>34,
     <1>35, <1>36, <1>37, <1>38, <1>39
     DEF Next, Worker, Reconcile, Delete, Gardenlet, GRM

\* Configs keep growing from seed MR over shoot MR and snapshot to Extension,
\* also when a reconciliation stops between the two writes.
LEMMA CfgStep ==
  TypeOK /\ WorkerInv /\ LifeInv /\ OrderInv /\ CfgInv /\ [Next]_vars => CfgInv'
<1> SUFFICES ASSUME TypeOK, WorkerInv, LifeInv, OrderInv, CfgInv, [Next]_vars
             PROVE  CfgInv'
  OBVIOUS
<1> USE DEF TypeOK, CfgInv, OrderInv, Leaving, SeedTornDownLast, LifeInv,
            IsMigrated, WorkerInv, Reconciling, ReconcilePCs, TeardownPCs,
            SeedTeardownPCs
<1>1. CASE Dequeue
  BY <1>1 DEF Dequeue, ComputeOperation, FirstStep, IsMigrated, Extensions
<1>2. CASE DequeueNothing
  BY <1>2 DEF DequeueNothing, IsMigrated, Extensions
<1>3. CASE Succeed
  BY <1>3 DEF Succeed, Removed, Extensions
<1>4. CASE GetCluster
  <2>1. CASE ext.cfg \in InvalidCfgs
    BY <1>4, <2>1 DEF GetCluster, Fail, Extensions
  <2>2. CASE ext.cfg \notin InvalidCfgs
    <3>1. /\ snap'.cfg = ext.cfg /\ snap'.replicas = GetReplicas(cached)
          /\ snap'.hibernated = IsHibernated(cached)
      BY <1>4, <2>2 DEF GetCluster
    <3>2. IsHibernated(cached) => GetReplicas(cached) = 0
      BY DEF IsHibernated, GetReplicas
    <3>3. ext.cfg # 0 /\ ext.cfg <= ext.cfg
      BY DEF Extensions, Cfgs
    <3> QED
      BY <1>4, <2>2, <3>1, <3>2, <3>3 DEF GetCluster, GoTo
  <2> QED
    BY <2>1, <2>2
<1>5. CASE GetDNSExtension
  BY <1>5 DEF GetDNSExtension, GoTo, Snaps
<1>6. CASE ReconcileAccessSecret
  BY <1>6 DEF ReconcileAccessSecret, GoTo
<1>7. CASE DeployShoot
  BY <1>7 DEF DeployShoot, GoTo, ShootMRs, Snaps, Cfgs0
<1>8. CASE DeploySeed
  BY <1>8 DEF DeploySeed, Fail, GoTo, SeedMRs, Extensions, Snaps, NoSnap, Cfgs,
         Cfgs0
<1>9. CASE UpdateStatus
  BY <1>9 DEF UpdateStatus, Extensions, Snaps
<1>10. CASE KeepObjects
  BY <1>10 DEF KeepObjects, GoTo, ShootMRs
<1>11. CASE DeleteShoot
  BY <1>11 DEF DeleteShoot, GoTo, ShootMRs, Operations, NoShootMR, Extensions, Cfgs,
         Cfgs0
<1>12. CASE WaitShoot
  BY <1>12 DEF WaitShoot, GoTo
<1>13. CASE WaitShootTimeout
  BY <1>13 DEF WaitShootTimeout, GoTo
<1>14. CASE DropShoot
  BY <1>14 DEF DropShoot, Fail, GoTo, ShootMRs, Extensions, Operations, NoShootMR,
         NoSnap, Cfgs, Cfgs0
<1>15. CASE DeleteAccessSecret
  BY <1>15 DEF DeleteAccessSecret, GoTo, Operations, SeedMRs
<1>16. CASE DeleteSeed
  BY <1>16 DEF DeleteSeed, GoTo, SeedMRs, Operations
<1>17. CASE WaitSeed
  BY <1>17 DEF WaitSeed, GoTo
<1>18. CASE WaitSeedTimeout
  BY <1>18 DEF WaitSeedTimeout, Fail, Extensions
<1>19. CASE CallFails
  BY <1>19 DEF CallFails, Fail, GoTo, Extensions
<1>20. CASE Restart
  BY <1>20 DEF Restart
<1>21. CASE CreateExtension
  BY <1>21 DEF CreateExtension, Extensions
<1>22. CASE Annotate
  BY <1>22 DEF Annotate, Annotatable, Extensions
<1>23. CASE EditConfig
  <2>1. /\ ext' = [ext EXCEPT !.cfg = @ + 1, !.op = "reconcile"]
        /\ UNCHANGED <<envVars, mrVars, workerVars>>
    BY <1>23 DEF EditConfig
  <2>2. ext'.cfg = ext.cfg + 1 /\ ext'.type = ext.type
    BY <2>1 DEF Extensions
  <2>3. \A n \in Int : n <= ext.cfg => n <= ext'.cfg
    BY <2>2 DEF Extensions, Cfgs
  <2>4. shootMR.cfg \in Int /\ seedMR.cfg \in Int /\ snap.cfg \in Int
    BY DEF ShootMRs, SeedMRs, Snaps, Cfgs0
  <2> QED
    BY <2>1, <2>2, <2>3, <2>4
<1>24. CASE StartMigration
  BY <1>24 DEF StartMigration, Annotatable, ShootReachable, Extensions
<1>25. CASE DeleteExtension
  BY <1>25 DEF DeleteExtension, Removed, IsMigrated, Extensions
<1>26. CASE SetHibernation
  BY <1>26 DEF SetHibernation, Change, Clusters
<1>27. CASE SetHibernated
  BY <1>27 DEF SetHibernated, Clusters
<1>28. CASE DeleteShootResource
  BY <1>28 DEF DeleteShootResource, Clusters
<1>29. CASE TenMinutesPass
  BY <1>29 DEF TenMinutesPass, Clusters
<1>30. CASE SyncCache
  BY <1>30 DEF SyncCache
<1>31. CASE DNSServiceChanges
  BY <1>31 DEF DNSServiceChanges, Change, DNSPredicate
<1>32. CASE SecretsChange
  BY <1>32 DEF SecretsChange, Change
<1>33. CASE FinalizersChange
  BY <1>33 DEF FinalizersChange, Change
<1>34. CASE GRMApply
  BY <1>34 DEF GRMApply, ShootReachable, ShootMRs
<1>35. CASE GRMDeleteObjects
  BY <1>35 DEF GRMDeleteObjects, ShootReachable
<1>36. CASE GRMRelease
  BY <1>36 DEF GRMRelease, ShootReachable, NoShootMR, Cfgs, Cfgs0, Extensions,
         ShootMRs
<1>37. CASE GRMReleaseSeed
  BY <1>37 DEF GRMReleaseSeed, NoSeedMR, SeedMRs, Extensions, Cfgs, Cfgs0
<1>38. CASE Terminated
  BY <1>38 DEF Terminated
<1>39. CASE UNCHANGED vars
  BY <1>39
<1> QED
  BY <1>1, <1>2, <1>3, <1>4, <1>5, <1>6, <1>7, <1>8, <1>9, <1>10, <1>11, <1>12,
     <1>13, <1>14, <1>15, <1>16, <1>17, <1>18, <1>19, <1>20, <1>21, <1>22, <1>23,
     <1>24, <1>25, <1>26, <1>27, <1>28, <1>29, <1>30, <1>31, <1>32, <1>33, <1>34,
     <1>35, <1>36, <1>37, <1>38, <1>39
     DEF Next, Worker, Reconcile, Delete, Gardenlet, GRM

\* A migration deletes the shoot MR only after SetKeepObjects, and nothing
\* takes keepObjects back before the MR is gone.
LEMMA KeepStep ==
  TypeOK /\ WorkerInv /\ LifeInv /\ OrderInv /\ CfgInv /\ KeepInv /\ [Next]_vars =>
    KeepInv'
<1> SUFFICES ASSUME TypeOK, WorkerInv, LifeInv, OrderInv, CfgInv, KeepInv, [Next]_vars
             PROVE  KeepInv'
  OBVIOUS
<1> USE DEF TypeOK, KeepInv, CfgInv, OrderInv, Leaving, SeedTornDownLast, LifeInv,
            IsMigrated, WorkerInv, Reconciling, ReconcilePCs, TeardownPCs,
            SeedTeardownPCs
<1>1. CASE Dequeue
  BY <1>1 DEF Dequeue, ComputeOperation, FirstStep, IsMigrated, Extensions
<1>2. CASE DequeueNothing
  BY <1>2 DEF DequeueNothing, IsMigrated, Extensions
<1>3. CASE Succeed
  BY <1>3 DEF Succeed, Removed, Extensions
<1>4. CASE GetCluster
  BY <1>4 DEF GetCluster, Fail, GoTo, IsHibernated, GetReplicas, Extensions,
         Clusters, NoSnap, Cfgs, Cfgs0
<1>5. CASE GetDNSExtension
  BY <1>5 DEF GetDNSExtension, GoTo, Snaps
<1>6. CASE ReconcileAccessSecret
  BY <1>6 DEF ReconcileAccessSecret, GoTo
<1>7. CASE DeployShoot
  BY <1>7 DEF DeployShoot, GoTo, ShootMRs, Snaps, Cfgs0
<1>8. CASE DeploySeed
  BY <1>8 DEF DeploySeed, Fail, GoTo, SeedMRs, Extensions, Snaps, NoSnap, Cfgs,
         Cfgs0
<1>9. CASE UpdateStatus
  BY <1>9 DEF UpdateStatus, Extensions, Snaps
<1>10. CASE KeepObjects
  BY <1>10 DEF KeepObjects, GoTo, ShootMRs
<1>11. CASE DeleteShoot
  BY <1>11 DEF DeleteShoot, GoTo, ShootMRs, Operations, NoShootMR, Extensions, Cfgs,
         Cfgs0
<1>12. CASE WaitShoot
  BY <1>12 DEF WaitShoot, GoTo
<1>13. CASE WaitShootTimeout
  BY <1>13 DEF WaitShootTimeout, GoTo
<1>14. CASE DropShoot
  BY <1>14 DEF DropShoot, Fail, GoTo, ShootMRs, Extensions, Operations, NoShootMR,
         NoSnap, Cfgs, Cfgs0
<1>15. CASE DeleteAccessSecret
  BY <1>15 DEF DeleteAccessSecret, GoTo, Operations, SeedMRs
<1>16. CASE DeleteSeed
  BY <1>16 DEF DeleteSeed, GoTo, SeedMRs, Operations
<1>17. CASE WaitSeed
  BY <1>17 DEF WaitSeed, GoTo
<1>18. CASE WaitSeedTimeout
  BY <1>18 DEF WaitSeedTimeout, Fail, Extensions
<1>19. CASE CallFails
  BY <1>19 DEF CallFails, Fail, GoTo, Extensions
<1>20. CASE Restart
  BY <1>20 DEF Restart
<1>21. CASE CreateExtension
  BY <1>21 DEF CreateExtension, Extensions
<1>22. CASE Annotate
  BY <1>22 DEF Annotate, Annotatable, Extensions
<1>23. CASE EditConfig
  BY <1>23 DEF EditConfig, Annotatable, Extensions, Cfgs, ShootMRs, SeedMRs, Cfgs0
<1>24. CASE StartMigration
  BY <1>24 DEF StartMigration, Annotatable, ShootReachable, Extensions
<1>25. CASE DeleteExtension
  BY <1>25 DEF DeleteExtension, Removed, IsMigrated, Extensions
<1>26. CASE SetHibernation
  BY <1>26 DEF SetHibernation, Change, Clusters
<1>27. CASE SetHibernated
  BY <1>27 DEF SetHibernated, Clusters
<1>28. CASE DeleteShootResource
  BY <1>28 DEF DeleteShootResource, Clusters
<1>29. CASE TenMinutesPass
  BY <1>29 DEF TenMinutesPass, Clusters
<1>30. CASE SyncCache
  BY <1>30 DEF SyncCache
<1>31. CASE DNSServiceChanges
  BY <1>31 DEF DNSServiceChanges, Change, DNSPredicate
<1>32. CASE SecretsChange
  BY <1>32 DEF SecretsChange, Change
<1>33. CASE FinalizersChange
  BY <1>33 DEF FinalizersChange, Change
<1>34. CASE GRMApply
  BY <1>34 DEF GRMApply, ShootReachable, ShootMRs
<1>35. CASE GRMDeleteObjects
  BY <1>35 DEF GRMDeleteObjects, ShootReachable
<1>36. CASE GRMRelease
  BY <1>36 DEF GRMRelease, ShootReachable, NoShootMR, Cfgs, Cfgs0, Extensions,
         ShootMRs
<1>37. CASE GRMReleaseSeed
  BY <1>37 DEF GRMReleaseSeed, NoSeedMR, SeedMRs, Extensions, Cfgs, Cfgs0
<1>38. CASE Terminated
  BY <1>38 DEF Terminated
<1>39. CASE UNCHANGED vars
  BY <1>39
<1> QED
  BY <1>1, <1>2, <1>3, <1>4, <1>5, <1>6, <1>7, <1>8, <1>9, <1>10, <1>11, <1>12,
     <1>13, <1>14, <1>15, <1>16, <1>17, <1>18, <1>19, <1>20, <1>21, <1>22, <1>23,
     <1>24, <1>25, <1>26, <1>27, <1>28, <1>29, <1>30, <1>31, <1>32, <1>33, <1>34,
     <1>35, <1>36, <1>37, <1>38, <1>39
     DEF Next, Worker, Reconcile, Delete, Gardenlet, GRM

\* What the worker holds stays current, or a request is pending.
LEMMA CurrentStep ==
  TypeOK /\ WorkerInv /\ LifeInv /\ OrderInv /\ CfgInv /\ CurrentInv /\ [Next]_vars =>
    CurrentInv'
<1> SUFFICES ASSUME TypeOK, WorkerInv, LifeInv, OrderInv, CfgInv, CurrentInv, [Next]_vars
             PROVE  CurrentInv'
  OBVIOUS
<1> USE DEF TypeOK, CurrentInv, CfgInv, OrderInv, Leaving, SeedTornDownLast,
            LifeInv, IsMigrated, WorkerInv, Reconciling, ReconcilePCs, TeardownPCs,
            SeedTeardownPCs
<1>1. CASE Dequeue
  BY <1>1 DEF Dequeue, ComputeOperation, FirstStep, IsMigrated, Extensions
<1>2. CASE DequeueNothing
  <2>1. ext.state # "Succeeded" \/ Leaving
    BY <1>2 DEF DequeueNothing
  <2>2. pc = "idle" /\ UNCHANGED <<ext, envVars, mrVars, workerVars>>
    BY <1>2 DEF DequeueNothing
  <2>3. ext.op # "reconcile"
    BY <1>2 DEF DequeueNothing
  <2> QED
    BY <2>1, <2>2, <2>3
<1>3. CASE Succeed
  <2>1. CASE Leaving
    BY <1>3, <2>1 DEF Succeed, Removed, Extensions
  <2>2. CASE ~Leaving
    <3>1. /\ ext'.type = ext.type /\ ext'.cfg = ext.cfg
          /\ ext'.resources = ext.resources
          /\ ext'.op = "reconcile" <=> ext.op = "reconcile"
      <4>1. CASE wop = "Restore"
        BY <1>3, <4>1 DEF Succeed, Extensions
      <4>2. CASE wop = "Reconcile"
        BY <1>3, <4>2 DEF Succeed, Extensions
      <4> QED
        BY <1>3, <2>2, <4>1, <4>2 DEF Succeed, Operations
    <3>2. pc' = "idle" /\ UNCHANGED <<queue, envVars, mrVars, wop>>
      BY <1>3 DEF Succeed
    <3>3. pc = "succeed" /\ Reconciling
      BY <1>3, <2>2 DEF Succeed, Operations
    <3>4. ext.op = "reconcile" => queue
      OBVIOUS
    <3>5. /\ seedMR.st = "present"
          /\ ext.op # "reconcile" => seedMR.cfg = ext.cfg /\ ext.resources = ext.cfg
          /\ ~queue /\ dns # "absent" => seedMR.nextGen = (dns = "nextGen")
      BY <3>3
    <3> QED
      BY <3>1, <3>2, <3>3, <3>4, <3>5
  <2> QED
    BY <2>1, <2>2
<1>4. CASE GetCluster
  BY <1>4 DEF GetCluster, Fail, GoTo, IsHibernated, GetReplicas, Extensions,
         Clusters, NoSnap, Cfgs, Cfgs0
<1>5. CASE GetDNSExtension
  BY <1>5 DEF GetDNSExtension, GoTo, Snaps
<1>6. CASE ReconcileAccessSecret
  BY <1>6 DEF ReconcileAccessSecret, GoTo
<1>7. CASE DeployShoot
  BY <1>7 DEF DeployShoot, GoTo, ShootMRs, Snaps, Cfgs0
<1>8. CASE DeploySeed
  BY <1>8 DEF DeploySeed, Fail, GoTo, SeedMRs, Extensions, Snaps, NoSnap, Cfgs,
         Cfgs0
<1>9. CASE UpdateStatus
  BY <1>9 DEF UpdateStatus, Extensions, Snaps
<1>10. CASE KeepObjects
  BY <1>10 DEF KeepObjects, GoTo, ShootMRs
<1>11. CASE DeleteShoot
  BY <1>11 DEF DeleteShoot, GoTo, ShootMRs, Operations, NoShootMR, Extensions, Cfgs,
         Cfgs0
<1>12. CASE WaitShoot
  BY <1>12 DEF WaitShoot, GoTo
<1>13. CASE WaitShootTimeout
  BY <1>13 DEF WaitShootTimeout, GoTo
<1>14. CASE DropShoot
  BY <1>14 DEF DropShoot, Fail, GoTo, ShootMRs, Extensions, Operations, NoShootMR,
         NoSnap, Cfgs, Cfgs0
<1>15. CASE DeleteAccessSecret
  BY <1>15 DEF DeleteAccessSecret, GoTo, Operations, SeedMRs
<1>16. CASE DeleteSeed
  BY <1>16 DEF DeleteSeed, GoTo, SeedMRs, Operations
<1>17. CASE WaitSeed
  BY <1>17 DEF WaitSeed, GoTo
<1>18. CASE WaitSeedTimeout
  BY <1>18 DEF WaitSeedTimeout, Fail, Extensions
<1>19. CASE CallFails
  BY <1>19 DEF CallFails, Fail, GoTo, Extensions
<1>20. CASE Restart
  BY <1>20 DEF Restart
<1>21. CASE CreateExtension
  BY <1>21 DEF CreateExtension, Extensions
<1>22. CASE Annotate
  BY <1>22 DEF Annotate, Annotatable, Extensions
<1>23. CASE EditConfig
  BY <1>23 DEF EditConfig, Annotatable, Extensions, Cfgs, ShootMRs, SeedMRs, Cfgs0
<1>24. CASE StartMigration
  BY <1>24 DEF StartMigration, Annotatable, ShootReachable, Extensions
<1>25. CASE DeleteExtension
  BY <1>25 DEF DeleteExtension, Removed, IsMigrated, Extensions
<1>26. CASE SetHibernation
  BY <1>26 DEF SetHibernation, Change, Clusters
<1>27. CASE SetHibernated
  BY <1>27 DEF SetHibernated, Clusters
<1>28. CASE DeleteShootResource
  BY <1>28 DEF DeleteShootResource, Clusters
<1>29. CASE TenMinutesPass
  BY <1>29 DEF TenMinutesPass, Clusters
<1>30. CASE SyncCache
  BY <1>30 DEF SyncCache
<1>31. CASE DNSServiceChanges
  BY <1>31 DEF DNSServiceChanges, Change, DNSPredicate
<1>32. CASE SecretsChange
  BY <1>32 DEF SecretsChange, Change
<1>33. CASE FinalizersChange
  BY <1>33 DEF FinalizersChange, Change
<1>34. CASE GRMApply
  BY <1>34 DEF GRMApply, ShootReachable, ShootMRs
<1>35. CASE GRMDeleteObjects
  BY <1>35 DEF GRMDeleteObjects, ShootReachable
<1>36. CASE GRMRelease
  BY <1>36 DEF GRMRelease, ShootReachable, NoShootMR, Cfgs, Cfgs0, Extensions,
         ShootMRs
<1>37. CASE GRMReleaseSeed
  BY <1>37 DEF GRMReleaseSeed, NoSeedMR, SeedMRs, Extensions, Cfgs, Cfgs0
<1>38. CASE Terminated
  BY <1>38 DEF Terminated
<1>39. CASE UNCHANGED vars
  BY <1>39
<1> QED
  BY <1>1, <1>2, <1>3, <1>4, <1>5, <1>6, <1>7, <1>8, <1>9, <1>10, <1>11, <1>12,
     <1>13, <1>14, <1>15, <1>16, <1>17, <1>18, <1>19, <1>20, <1>21, <1>22, <1>23,
     <1>24, <1>25, <1>26, <1>27, <1>28, <1>29, <1>30, <1>31, <1>32, <1>33, <1>34,
     <1>35, <1>36, <1>37, <1>38, <1>39
     DEF Next, Worker, Reconcile, Delete, Gardenlet, GRM

\* The inductive invariant holds initially.
LEMMA InitIInv == Init => IInv
<1> SUFFICES ASSUME Init PROVE IInv
  OBVIOUS
<1>1. TypeOK
  <2>1. 1 \in Cfgs /\ 0 \in Cfgs0 /\ 1 \in Cfgs0
    BY ConstantsAssumption DEF Cfgs, Cfgs0
  <2>2. ext \in Extensions
    BY <2>1 DEF Init, Extensions, Operations
  <2>3. cluster \in Clusters /\ cached \in Clusters
    BY DEF Init
  <2>4. changes \in 0..MaxChanges /\ errors \in 0..MaxErrors /\ crashes \in 0..MaxCrashes
    BY ConstantsAssumption DEF Init
  <2> QED
    BY <2>1, <2>2, <2>3, <2>4, NothingType DEF Init, TypeOK, Operations, PCs
<1>2. ext.cfg = 1 /\ shootMR.cfg = 0 /\ seedMR.cfg = 0
  BY DEF Init, NoShootMR, NoSeedMR
<1> QED
  BY <1>1, <1>2
     DEF Init, IInv, WorkerInv, LifeInv, OrderInv, KeepInv, CfgInv, CurrentInv, Leaving,
         Reconciling, SeedTornDownLast, IsMigrated, NoShootMR, NoSeedMR,
         ReconcilePCs, TeardownPCs, SeedTeardownPCs

\* Every step preserves the inductive invariant.
LEMMA Inductive == IInv /\ [Next]_vars => IInv'
  BY TypeStep, WorkerStep, LifeStep, OrderStep, KeepStep, CfgStep, CurrentStep DEF IInv

\* Every state the shoot controller and its surroundings reach satisfies the
\* inductive invariant: worker, status, teardown order, keepObjects, config
\* order and currency of what was read.
THEOREM InvariantHolds == Spec => []IInv
<1>1. Init => IInv
  BY InitIInv
<1>2. IInv /\ [Next]_vars => IInv'
  BY Inductive
<1> QED
  BY <1>1, <1>2, PTL DEF Spec

\* Type correctness of the Extension, the Cluster, both ManagedResources and
\* the worker of shoot/actuator.go.
THEOREM TypeCorrect == Spec => []TypeOK
<1>1. IInv => TypeOK
  BY DEF IInv
<1> QED
  BY <1>1, InvariantHolds, PTL

\* Delete (actuator.go) withdraws the seed side last, unless the shoot is
\* deleting for more than ten minutes: for any number of configs, failed
\* calls, restarts and changes.
THEOREM SeedSideLast == Spec => []SeedTornDownLast
<1>1. IInv => SeedTornDownLast
  BY DEF IInv, OrderInv
<1> QED
  BY <1>1, InvariantHolds, PTL

\* The Extension's finalizer is released only when Delete or Migrate has
\* removed everything it deployed.
THEOREM NothingOrphaned == Spec => []NoOrphans
<1>1. IInv => NoOrphans
  BY DEF IInv, LifeInv, KeepInv, NoOrphans
<1> QED
  BY <1>1, InvariantHolds, PTL

\* A controller that createValues does not scale down finds its credentials
\* and a shoot MR at least as new as its own config.
THEOREM ControllerHasShootMR == Spec => []ControllerNeedsShootMR
<1>1. IInv => ControllerNeedsShootMR
  BY DEF IInv, LifeInv, CfgInv, Leaving, ControllerNeedsShootMR
<1> QED
  BY <1>1, InvariantHolds, PTL

\* A Succeeded Extension without a pending request shows the outcome of its
\* own config and of the DNS service that exists: no event is lost.
THEOREM NoUpdateLost == Spec => []QuiescentReflectsConfig
<1>1. IInv => QuiescentReflectsConfig
  BY DEF IInv, LifeInv, CurrentInv, Leaving, QuiescentReflectsConfig
<1> QED
  BY <1>1, InvariantHolds, PTL

\* No step of a migration takes the CRDs and roles out of the shoot.
THEOREM MigrationKeeps == Spec => MigrationKeepsShootObjects
<1>1. IInv /\ [Next]_vars =>
        [ext.type = "Migrate" \/ ext.phase = "moved" =>
           (shootObjs # 0 => shootObjs' # 0)]_vars
  <2> SUFFICES ASSUME IInv, Next, ext.type = "Migrate" \/ ext.phase = "moved",
                      shootObjs # 0
               PROVE  shootObjs' # 0
    OBVIOUS
  <2>1. CASE GRMApply
    BY <2>1 DEF GRMApply, IInv, KeepInv
  <2>2. CASE GRMDeleteObjects
    BY <2>2 DEF GRMDeleteObjects, IInv, KeepInv
  <2>3. CASE ~GRMApply /\ ~GRMDeleteObjects
    <3>1. shootObjs' = shootObjs
      BY <2>3
         DEF Next, Worker, Reconcile, Delete, Gardenlet, GRM, Dequeue, DequeueNothing,
             Succeed, GetCluster, GetDNSExtension, ReconcileAccessSecret, DeployShoot,
             DeploySeed, UpdateStatus, KeepObjects, DeleteShoot, WaitShoot,
             WaitShootTimeout, DropShoot, DeleteAccessSecret, DeleteSeed, WaitSeed,
             WaitSeedTimeout, CallFails, Restart, CreateExtension, Annotate, EditConfig,
             StartMigration, DeleteExtension, SetHibernation, SetHibernated,
             DeleteShootResource, TenMinutesPass, SyncCache, DNSServiceChanges,
             SecretsChange, FinalizersChange, GRMRelease, GRMReleaseSeed, Terminated
    <3> QED
      BY <3>1
  <2> QED
    BY <2>1, <2>2, <2>3
<1> QED
  BY <1>1, InvariantHolds, PTL DEF Spec, MigrationKeepsShootObjects

\* The initial states are initial states of the abstract promise.
LEMMA RefinesInit == Init => TwoSided!Init
  BY DEF Init, TwoSided!Init, ShootSide, SeedSide, Overdue, NoShootMR, NoSeedMR, Clusters

\* From a state of the invariant every step is a step of TwoSidedDeployment, or
\* changes neither side.
LEMMA RefinesStep ==
  IInv /\ [Next]_vars => [TwoSided!Next]_<<ShootSide, SeedSide, Overdue>>
<1> SUFFICES ASSUME IInv, [Next]_vars
             PROVE  [TwoSided!Next]_<<ShootSide, SeedSide, Overdue>>
  OBVIOUS
<1> USE DEF IInv
<1>1. CASE Dequeue
  BY <1>1 DEF Dequeue, ShootSide, SeedSide, Overdue
<1>2. CASE DequeueNothing
  BY <1>2 DEF DequeueNothing, ShootSide, SeedSide, Overdue
<1>3. CASE Succeed
  BY <1>3 DEF Succeed, ShootSide, SeedSide, Overdue
<1>4. CASE GetCluster
  BY <1>4 DEF GetCluster, Fail, GoTo, ShootSide, SeedSide, Overdue
<1>5. CASE GetDNSExtension
  BY <1>5 DEF GetDNSExtension, GoTo, ShootSide, SeedSide, Overdue
<1>6. CASE ReconcileAccessSecret
  BY <1>6 DEF ReconcileAccessSecret, GoTo, ShootSide, SeedSide, Overdue
<1>7. CASE DeployShoot
  BY <1>7 DEF DeployShoot, GoTo, ShootMRs, Snaps, ShootSide, SeedSide, Overdue,
         TwoSided!Next, TwoSided!DeployShootSide,
         TwoSided!DeploySeedSide, TwoSided!WithdrawShootSide,
         TwoSided!WithdrawSeedSide, TwoSided!BecomeOverdue, TypeOK,
         OrderInv, WorkerInv, LifeInv, CfgInv, NoShootMR, NoSeedMR,
         Leaving, Reconciling, SeedTornDownLast, ReconcilePCs,
         TeardownPCs, SeedTeardownPCs, SeedMRs
<1>8. CASE DeploySeed
  BY <1>8 DEF DeploySeed, Fail, GoTo, SeedMRs, Extensions, Snaps, ShootSide,
         SeedSide, Overdue, TwoSided!Next, TwoSided!DeployShootSide,
         TwoSided!DeploySeedSide, TwoSided!WithdrawShootSide,
         TwoSided!WithdrawSeedSide, TwoSided!BecomeOverdue, TypeOK,
         OrderInv, WorkerInv, LifeInv, CfgInv, NoShootMR, NoSeedMR,
         Leaving, Reconciling, SeedTornDownLast, ReconcilePCs,
         TeardownPCs, SeedTeardownPCs, ShootMRs
<1>9. CASE UpdateStatus
  BY <1>9 DEF UpdateStatus, ShootSide, SeedSide, Overdue
<1>10. CASE KeepObjects
  BY <1>10 DEF KeepObjects, GoTo, ShootMRs, ShootSide, SeedSide, Overdue,
         TwoSided!Next, TwoSided!DeployShootSide,
         TwoSided!DeploySeedSide, TwoSided!WithdrawShootSide,
         TwoSided!WithdrawSeedSide, TwoSided!BecomeOverdue, TypeOK,
         OrderInv, WorkerInv, LifeInv, CfgInv, NoShootMR, NoSeedMR,
         Leaving, Reconciling, SeedTornDownLast, ReconcilePCs,
         TeardownPCs, SeedTeardownPCs, SeedMRs, Snaps
<1>11. CASE DeleteShoot
  BY <1>11 DEF DeleteShoot, GoTo, ShootMRs, ShootSide, SeedSide, Overdue,
         TwoSided!Next, TwoSided!DeployShootSide,
         TwoSided!DeploySeedSide, TwoSided!WithdrawShootSide,
         TwoSided!WithdrawSeedSide, TwoSided!BecomeOverdue, TypeOK,
         OrderInv, WorkerInv, LifeInv, CfgInv, NoShootMR, NoSeedMR,
         Leaving, Reconciling, SeedTornDownLast, ReconcilePCs,
         TeardownPCs, SeedTeardownPCs, SeedMRs, Snaps
<1>12. CASE WaitShoot
  BY <1>12 DEF WaitShoot, GoTo, ShootSide, SeedSide, Overdue
<1>13. CASE WaitShootTimeout
  BY <1>13 DEF WaitShootTimeout, GoTo, ShootSide, SeedSide, Overdue
<1>14. CASE DropShoot
  BY <1>14 DEF DropShoot, Fail, GoTo, ShootMRs, Extensions, ShootSide, SeedSide,
         Overdue, TwoSided!Next, TwoSided!DeployShootSide,
         TwoSided!DeploySeedSide, TwoSided!WithdrawShootSide,
         TwoSided!WithdrawSeedSide, TwoSided!BecomeOverdue, TypeOK,
         OrderInv, WorkerInv, LifeInv, CfgInv, NoShootMR, NoSeedMR,
         Leaving, Reconciling, SeedTornDownLast, ReconcilePCs,
         TeardownPCs, SeedTeardownPCs, SeedMRs, Snaps
<1>15. CASE DeleteAccessSecret
  BY <1>15 DEF DeleteAccessSecret, GoTo, ShootSide, SeedSide, Overdue
<1>16. CASE DeleteSeed
  BY <1>16 DEF DeleteSeed, GoTo, SeedMRs, ShootSide, SeedSide, Overdue,
         TwoSided!Next, TwoSided!DeployShootSide,
         TwoSided!DeploySeedSide, TwoSided!WithdrawShootSide,
         TwoSided!WithdrawSeedSide, TwoSided!BecomeOverdue, TypeOK,
         OrderInv, WorkerInv, LifeInv, CfgInv, NoShootMR, NoSeedMR,
         Leaving, Reconciling, SeedTornDownLast, ReconcilePCs,
         TeardownPCs, SeedTeardownPCs, ShootMRs, Snaps
<1>17. CASE WaitSeed
  BY <1>17 DEF WaitSeed, GoTo, ShootSide, SeedSide, Overdue
<1>18. CASE WaitSeedTimeout
  BY <1>18 DEF WaitSeedTimeout, Fail, ShootSide, SeedSide, Overdue
<1>19. CASE CallFails
  BY <1>19 DEF CallFails, Fail, GoTo, ShootSide, SeedSide, Overdue
<1>20. CASE Restart
  BY <1>20 DEF Restart, ShootSide, SeedSide, Overdue
<1>21. CASE CreateExtension
  BY <1>21 DEF CreateExtension, ShootSide, SeedSide, Overdue
<1>22. CASE Annotate
  BY <1>22 DEF Annotate, ShootSide, SeedSide, Overdue
<1>23. CASE EditConfig
  BY <1>23 DEF EditConfig, ShootSide, SeedSide, Overdue
<1>24. CASE StartMigration
  BY <1>24 DEF StartMigration, ShootSide, SeedSide, Overdue
<1>25. CASE DeleteExtension
  BY <1>25 DEF DeleteExtension, ShootSide, SeedSide, Overdue
<1>26. CASE SetHibernation
  BY <1>26 DEF SetHibernation, Change, Clusters, ShootSide, SeedSide, Overdue,
         TwoSided!Next, TwoSided!DeployShootSide,
         TwoSided!DeploySeedSide, TwoSided!WithdrawShootSide,
         TwoSided!WithdrawSeedSide, TwoSided!BecomeOverdue, TypeOK,
         OrderInv, WorkerInv, LifeInv, CfgInv, NoShootMR, NoSeedMR,
         Leaving, Reconciling, SeedTornDownLast, ReconcilePCs,
         TeardownPCs, SeedTeardownPCs, ShootMRs, SeedMRs, Snaps
<1>27. CASE SetHibernated
  BY <1>27 DEF SetHibernated, Clusters, ShootSide, SeedSide, Overdue, TwoSided!Next,
         TwoSided!DeployShootSide, TwoSided!DeploySeedSide,
         TwoSided!WithdrawShootSide, TwoSided!WithdrawSeedSide,
         TwoSided!BecomeOverdue, TypeOK, OrderInv, WorkerInv, LifeInv,
         CfgInv, NoShootMR, NoSeedMR, Leaving, Reconciling,
         SeedTornDownLast, ReconcilePCs, TeardownPCs, SeedTeardownPCs,
         ShootMRs, SeedMRs, Snaps
<1>28. CASE DeleteShootResource
  BY <1>28 DEF DeleteShootResource, Clusters, ShootSide, SeedSide, Overdue,
         TwoSided!Next, TwoSided!DeployShootSide,
         TwoSided!DeploySeedSide, TwoSided!WithdrawShootSide,
         TwoSided!WithdrawSeedSide, TwoSided!BecomeOverdue, TypeOK,
         OrderInv, WorkerInv, LifeInv, CfgInv, NoShootMR, NoSeedMR,
         Leaving, Reconciling, SeedTornDownLast, ReconcilePCs,
         TeardownPCs, SeedTeardownPCs, ShootMRs, SeedMRs, Snaps
<1>29. CASE TenMinutesPass
  BY <1>29 DEF TenMinutesPass, Clusters, ShootSide, SeedSide, Overdue, TwoSided!Next,
         TwoSided!DeployShootSide, TwoSided!DeploySeedSide,
         TwoSided!WithdrawShootSide, TwoSided!WithdrawSeedSide,
         TwoSided!BecomeOverdue, TypeOK, OrderInv, WorkerInv, LifeInv,
         CfgInv, NoShootMR, NoSeedMR, Leaving, Reconciling,
         SeedTornDownLast, ReconcilePCs, TeardownPCs, SeedTeardownPCs,
         ShootMRs, SeedMRs, Snaps
<1>30. CASE SyncCache
  BY <1>30 DEF SyncCache, ShootSide, SeedSide, Overdue
<1>31. CASE DNSServiceChanges
  BY <1>31 DEF DNSServiceChanges, ShootSide, SeedSide, Overdue
<1>32. CASE SecretsChange
  BY <1>32 DEF SecretsChange, ShootSide, SeedSide, Overdue
<1>33. CASE FinalizersChange
  BY <1>33 DEF FinalizersChange, ShootSide, SeedSide, Overdue
<1>34. CASE GRMApply
  BY <1>34 DEF GRMApply, ShootReachable, ShootMRs, ShootSide, SeedSide, Overdue,
         TwoSided!Next, TwoSided!DeployShootSide,
         TwoSided!DeploySeedSide, TwoSided!WithdrawShootSide,
         TwoSided!WithdrawSeedSide, TwoSided!BecomeOverdue, TypeOK,
         OrderInv, WorkerInv, LifeInv, CfgInv, NoShootMR, NoSeedMR,
         Leaving, Reconciling, SeedTornDownLast, ReconcilePCs,
         TeardownPCs, SeedTeardownPCs, SeedMRs, Snaps
<1>35. CASE GRMDeleteObjects
  BY <1>35 DEF GRMDeleteObjects, ShootSide, SeedSide, Overdue
<1>36. CASE GRMRelease
  BY <1>36 DEF GRMRelease, ShootReachable, ShootSide, SeedSide, Overdue,
         TwoSided!Next, TwoSided!DeployShootSide,
         TwoSided!DeploySeedSide, TwoSided!WithdrawShootSide,
         TwoSided!WithdrawSeedSide, TwoSided!BecomeOverdue, TypeOK,
         OrderInv, WorkerInv, LifeInv, CfgInv, NoShootMR, NoSeedMR,
         Leaving, Reconciling, SeedTornDownLast, ReconcilePCs,
         TeardownPCs, SeedTeardownPCs, ShootMRs, SeedMRs, Snaps
<1>37. CASE GRMReleaseSeed
  BY <1>37 DEF GRMReleaseSeed, ShootSide, SeedSide, Overdue, TwoSided!Next,
         TwoSided!DeployShootSide, TwoSided!DeploySeedSide,
         TwoSided!WithdrawShootSide, TwoSided!WithdrawSeedSide,
         TwoSided!BecomeOverdue, TypeOK, OrderInv, WorkerInv, LifeInv,
         CfgInv, NoShootMR, NoSeedMR, Leaving, Reconciling,
         SeedTornDownLast, ReconcilePCs, TeardownPCs, SeedTeardownPCs,
         ShootMRs, SeedMRs, Snaps
<1>38. CASE Terminated
  BY <1>38 DEF Terminated, ShootSide, SeedSide, Overdue
<1>39. CASE UNCHANGED vars
  BY <1>39 DEF ShootSide, SeedSide, Overdue
<1> QED
  BY <1>1, <1>2, <1>3, <1>4, <1>5, <1>6, <1>7, <1>8, <1>9, <1>10, <1>11, <1>12,
     <1>13, <1>14, <1>15, <1>16, <1>17, <1>18, <1>19, <1>20, <1>21, <1>22, <1>23,
     <1>24, <1>25, <1>26, <1>27, <1>28, <1>29, <1>30, <1>31, <1>32, <1>33, <1>34,
     <1>35, <1>36, <1>37, <1>38, <1>39
     DEF Next, Worker, Reconcile, Delete, Gardenlet, GRM

\* The two ManagedResources of the code implement TwoSidedDeployment: every
\* step of actuator, GRM and gardenlet is a step of the promise or a stutter.
THEOREM Refinement == Spec => ImplementsTwoSided
<1>1. Init => TwoSided!Init
  BY RefinesInit
<1>2. IInv /\ [Next]_vars => [TwoSided!Next]_<<ShootSide, SeedSide, Overdue>>
  BY RefinesStep
<1> QED
  BY <1>1, <1>2, InvariantHolds, PTL DEF Spec, ImplementsTwoSided, TwoSided!Spec
=============================================================================
