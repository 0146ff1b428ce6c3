----------------------- MODULE ShootExtensionInvariant -----------------------
(***************************************************************************)
(* The inductive invariant of ShootExtension: why its safety properties    *)
(* hold.  Nothing here models code; the proofs are in ShootExtensionProofs.*)
(***************************************************************************)
EXTENDS ShootExtension

Reconciling == wop \in {"Reconcile", "Restore"}
Leaving     == ext.type \in {"Delete", "Migrate"}

\* The worker works on the operation the status shows, on an Extension that
\* its finalizer holds.
WorkerInv ==
  /\ pc # "idle" => /\ ext.fin /\ ext.phase \in {"present", "deleting"}
                    /\ ext.type = wop /\ ext.state = "Processing"
  /\ pc \in ReconcilePCs => Reconciling
  /\ pc \in TeardownPCs \union SeedTeardownPCs => ~Reconciling
  /\ pc = "keepObjects" => wop = "Migrate"

\* What the status and the annotation say of the Extension's life.
LifeInv ==
  /\ ext.type = "Delete" => ext.phase = "deleting"
  /\ ext.type = "Migrate" => /\ ext.phase = "present" /\ cluster.deletion = "none"
                             /\ ext.op # "reconcile"
  /\ ext.type = "Restore" /\ ext.state # "Succeeded" => ext.op = "restore"
  /\ ext.op = "migrate" => ext.phase = "present" /\ cluster.deletion = "none"
  /\ ext.phase \in {"none", "moved"} => ext.type = "none" /\ ext.op = "none"
  /\ ~ext.fin <=> ext.type = "none" \/ IsMigrated
  /\ ext.type = "none" => /\ ext.state = "none"
                          /\ seedMR.st = "absent" /\ ~accessSecret
                          /\ \/ shootMR.st = "absent"
                             \/ cluster.deletion = "overdue" /\ ext.phase = "none"
  /\ cached.deletion = "overdue" => cluster.deletion = "overdue"

\* Sides are withdrawn in order.
OrderInv ==
  /\ shootMR.st = "absent" => ~shootMR.fin
  /\ ~Leaving => seedMR.st # "deleting"
  /\ ~Leaving /\ ext.type # "none" => shootMR.st # "deleting"
  /\ SeedTornDownLast
  /\ pc = "succeed" /\ Leaving =>
       /\ seedMR.st = "absent" /\ ~accessSecret
       /\ shootMR.st = "absent" \/ cluster.deletion = "overdue"
  /\ pc \in {"deleteSeed", "waitSeed"} => ~accessSecret
  /\ IsMigrated => shootMR.st = "absent" /\ seedMR.st = "absent" /\ ~accessSecret

\* A migration deletes the shoot MR only after it was told to keep the objects.
KeepInv ==
  /\ ext.type = "Migrate" /\ shootMR.st = "deleting" => shootMR.keep
  /\ wop = "Migrate" /\ pc = "deleteShoot" => shootMR.st = "absent" \/ shootMR.keep
  /\ shootMR.st # "absent" => shootMR.cfg # 0
  /\ ext.phase = "moved" => shootMR.st = "absent"

\* Configs only grow: Extension, snapshot, shoot MR, seed MR.
CfgInv ==
  /\ shootMR.cfg <= ext.cfg /\ seedMR.cfg <= ext.cfg
  /\ pc \in ReconcilePCs \ {"getCluster"} =>
       /\ snap.cfg # 0 /\ snap.cfg <= ext.cfg
       /\ shootMR.cfg <= snap.cfg /\ seedMR.cfg <= snap.cfg
       /\ snap.hibernated => snap.replicas = 0
  /\ pc \in {"deployShoot", "deploySeed", "updateStatus"} => accessSecret
  /\ pc = "deploySeed" /\ snap.replicas = 1 =>
       shootMR.st = "present" /\ shootMR.cfg = snap.cfg
  /\ ~Leaving /\ seedMR.st = "present" /\ seedMR.replicas = 1 =>
       accessSecret /\ shootMR.st = "present" /\ shootMR.cfg >= seedMR.cfg

\* What the worker holds, or has written, is current unless a request is
\* pending that will have it read again.
CurrentInv ==
  /\ ext.op = "reconcile" => queue
  /\ pc \in ReconcilePCs \ {"getCluster"} /\ ext.op # "reconcile" => snap.cfg = ext.cfg
  /\ pc \in ReconcilePCs \ {"getCluster", "getDNSExtension"} /\ ~queue /\ dns # "absent" =>
       snap.nextGen = (dns = "nextGen")
  /\ pc \in {"updateStatus", "succeed"} /\ Reconciling =>
       /\ seedMR.st = "present" /\ seedMR.cfg = snap.cfg
       /\ ext.op # "reconcile" => snap.cfg = ext.cfg
       /\ ~queue /\ dns # "absent" => seedMR.nextGen = (dns = "nextGen")
  /\ pc = "succeed" /\ Reconciling => ext.resources = snap.cfg
  /\ ext.state = "Succeeded" /\ ~Leaving =>
       /\ seedMR.st = "present"
       /\ ext.op # "reconcile" => seedMR.cfg = ext.cfg /\ ext.resources = ext.cfg
       /\ ~queue /\ dns # "absent" => seedMR.nextGen = (dns = "nextGen")

IInv == TypeOK /\ WorkerInv /\ LifeInv /\ OrderInv /\ KeepInv /\ CfgInv /\ CurrentInv
=============================================================================
