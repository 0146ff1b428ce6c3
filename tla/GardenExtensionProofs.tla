------------------------ MODULE GardenExtensionProofs ------------------------
(***************************************************************************)
(* Proofs about GardenExtension: its invariants hold for every set of      *)
(* Garden specs and configs, with and without finalizers on Certificates,  *)
(* and for any number of changes, failed calls and restarts.               *)
(***************************************************************************)
EXTENDS GardenExtension, FiniteSetTheorems, TLAPS

InUse == cert.st = "present"
Reconciling == task # "delete"

\* The finalizer is there from the first step of the worker until Certificate
\* and MR have gone.
FinalizerHeld ==
  /\ ext.fin => ext.phase # "none"
  /\ ext.phase = "deleting" => ext.fin
  /\ pc # "idle" \/ mr # "absent" \/ InUse => ext.fin

\* An attempt is not called a success before it ends, and knows its task.
Attempt ==
  /\ pc # "idle" => ext.state # "Succeeded"
  /\ pc \in {"deployMR", "listGardens", "writeCert", "patchHash", "removeHash", "updateStatus"}
       => Reconciling
  /\ pc \in {"deleteMR", "waitMR"} => ~Reconciling
  /\ pc # "idle" /\ ~Reconciling => ext.phase = "deleting"

\* The controller comes before the Certificate; when they go it is Certificate,
\* then controller, then Extension.
Teardown ==
  /\ pc \in {"listGardens", "writeCert"} => mr = "present"
  /\ pc \in {"deleteMR", "waitMR"} => ~InUse
  /\ pc = "succeed" /\ ~Reconciling => mr = "absent" /\ ~InUse
  /\ mr = "deleting" => ext.phase = "deleting" /\ ~InUse /\ (pc # "idle" => ~Reconciling)

\* A Garden is there as long as its Certificate may be in use.
GardenThere ==
  /\ gardens = {} => ~InUse
  /\ pc = "writeCert" => gardens # {}
  /\ pc \in {"writeCert", "patchHash"} => \E g \in GardenSpecs : picked = {g}

Match == InUse => \E h \in hash : cert.names = Entries(h)

\* The annotation vouches for the Certificate at the end of an attempt.
HashMatches ==
  /\ pc = "patchHash" /\ InUse => \A g \in picked : cert.names = DNSNames(g)
  /\ pc = "removeHash" => ~InUse
  /\ pc \in {"updateStatus", "succeed"} /\ Reconciling => Match
  /\ pc = "idle" /\ ext.state = "Succeeded" => Match

\* What overtakes the worker is in the queue: an annotation, and a deletion that
\* meets a reconciliation.
Pending ==
  /\ ext.op # "none" => queue /\ ext.phase # "none"
  /\ pc # "idle" /\ Reconciling /\ ext.phase = "deleting" => queue
  /\ NothingForgotten

Safe == FinalizerHeld /\ Attempt /\ Teardown /\ GardenThere /\ HashMatches /\ Pending
IInv == TypeOK /\ IsFiniteSet(gardens) /\ Safe

-----------------------------------------------------------------------------
(* Types.  The list of Gardens stays finite.                                *)

Finite == IsFiniteSet(gardens)

\* The initial state is well typed, and no domain has infinitely many entries.
LEMMA InitTypes == Init => TypeOK /\ Finite
<1> SUFFICES ASSUME Init PROVE TypeOK /\ Finite
  OBVIOUS
<1>1. ext \in Extensions
  BY DEF Init, Extensions
<1>2. cert \in Certs
  BY DEF Init, Certs, NoCert
<1>3. changes \in 0..MaxChanges /\ errors \in 0..MaxErrors /\ crashes \in 0..MaxCrashes
  BY ConstantsAssumption DEF Init
<1>4. gardens \subseteq GardenSpecs /\ IsFiniteSet(gardens) /\ Cardinality(gardens) <= 2
  <2>1. CASE gardens = {}
    BY <2>1, FS_EmptySet
  <2>2. ASSUME NEW g \in GardenSpecs, gardens = {g}
        PROVE  gardens \subseteq GardenSpecs /\ IsFiniteSet(gardens) /\ Cardinality(gardens) <= 2
    BY <2>2, FS_Singleton
  <2> QED
    BY <2>1, <2>2 DEF Init, AtMostOne
<1>5. events \in Seq(GardenSpecs) /\ Len(events) <= MaxEvents
  BY ConstantsAssumption DEF Init
<1>6. settled \in BOOLEAN
  BY Zenon DEF Init
<1> QED
  BY <1>1, <1>2, <1>3, <1>4, <1>5, <1>6 DEF Init, TypeOK, PCs, AtMostOne, Finite

\* A list given as a function.
LEMMA ListType ==
  ASSUME NEW S, NEW n \in Nat, NEW list \in [1..n -> S]
  PROVE  list \in Seq(S) /\ Len(list) = n
OBVIOUS

\* Every step preserves both.
LEMMA StepTypes == TypeOK /\ Finite /\ [Next]_vars => TypeOK' /\ Finite'
<1> SUFFICES ASSUME TypeOK, Finite, [Next]_vars PROVE TypeOK' /\ Finite'
  OBVIOUS
<1> USE ConstantsAssumption DEF TypeOK, Finite, Extensions, PCs
<1>none. \A S : {} \in AtMostOne(S)
  BY DEF AtMostOne
<1>fail. ASSUME Fail
         PROVE  /\ ext' \in Extensions /\ queue' \in BOOLEAN
                /\ pc' \in PCs /\ task' = task /\ picked' \in AtMostOne(GardenSpecs)
  BY <1>fail, <1>none DEF Fail
<1>1. CASE Dequeue
  BY <1>1 DEF Dequeue, gardenVars, extVars, hashVars, objVars, workerVars, budget
<1>2. CASE DequeueNothing
  BY <1>2 DEF DequeueNothing, gardenVars, hashVars, objVars, workerVars, budget
<1>3. CASE Succeed
  <2>1. ext' \in Extensions /\ hash' \in AtMostOne(Hashes) /\ hashSeen' \in AtMostOne(Hashes)
    <3>1. CASE task = "delete"
      <4>1. ext' = Removed(ext) /\ hash' = {} /\ hashSeen' = {}
        BY <1>3, <3>1 DEF Succeed
      <4>2. Removed(ext) \in Extensions
        BY DEF Removed
      <4> QED
        BY <4>1, <4>2, <1>none
    <3>2. CASE task # "delete"
      BY <1>3, <3>2 DEF Succeed, hashVars
    <3> QED
      BY <3>1, <3>2
  <2>2. pc' = "idle" /\ picked' = {}
    BY <1>3 DEF Succeed
  <2>3. UNCHANGED <<gardenVars, queue, objVars, task, budget>>
    BY <1>3 DEF Succeed
  <2> QED
    BY <2>1, <2>2, <2>3, <1>none DEF gardenVars, objVars, budget
<1>4. CASE DeployMR
  <2>1. UNCHANGED <<gardenVars, hashVars, cert, budget>> /\ mr' \in {"absent", "present", "deleting"}
    BY <1>4 DEF DeployMR
  <2>2. CASE task = "invalid"
    BY <1>4, <1>fail, <2>1, <2>2 DEF DeployMR, gardenVars, hashVars, budget
  <2>3. CASE task # "invalid"
    BY <1>4, <2>1, <2>3 DEF DeployMR, GoTo, gardenVars, extVars, hashVars, budget
  <2> QED
    BY <2>2, <2>3
<1>5. CASE ListGardens
  <2>1. UNCHANGED <<gardenVars, hashVars, objVars, budget>>
    BY <1>5 DEF ListGardens
  <2>2. CASE Fail
    BY <1>fail, <2>1, <2>2 DEF gardenVars, hashVars, objVars, budget
  <2>3. CASE ~Fail
    <3>1. picked' \in AtMostOne(GardenSpecs)
      BY <1>5, <2>3 DEF ListGardens, AtMostOne
    <3>2. pc' \in PCs /\ UNCHANGED <<extVars, task>>
      BY <1>5, <2>3 DEF ListGardens, GoTo
    <3> QED
      BY <2>1, <3>1, <3>2 DEF gardenVars, extVars, hashVars, objVars, budget
  <2> QED
    BY <2>2, <2>3
<1>6. CASE WriteCert
  BY <1>6 DEF WriteCert, GoTo, Certs, NoCert, AtMostOne, gardenVars, extVars, hashVars, objVars, workerVars, budget
<1>7. CASE PatchHash
  <2>1. hash' = {Hash(g) : g \in picked}
    BY <1>7 DEF PatchHash
  <2>2. hash' \in AtMostOne(Hashes)
    <3>1. CASE picked = {}
      BY <2>1, <3>1 DEF AtMostOne
    <3>2. ASSUME NEW g \in GardenSpecs, picked = {g} PROVE hash' \in AtMostOne(Hashes)
      <4>1. hash' = {Hash(g)}
        BY <2>1, <3>2
      <4>2. Hash(g) \in Hashes
        BY DEF Hashes
      <4> QED
        BY <4>1, <4>2 DEF AtMostOne
    <3> QED
      BY <3>1, <3>2 DEF AtMostOne
  <2> QED
    BY <1>7, <2>2 DEF PatchHash, GoTo, gardenVars, extVars, objVars, budget
<1>8. CASE DeleteCert
  <2>1. cert' \in Certs
    BY <1>8 DEF DeleteCert, Certs, NoCert
  <2> QED
    BY <1>8, <2>1 DEF DeleteCert, GoTo, gardenVars, extVars, hashVars, budget
<1>9. CASE RemoveHash
  BY <1>9 DEF RemoveHash, GoTo, AtMostOne, gardenVars, extVars, hashVars, objVars, workerVars, budget
<1>10. CASE UpdateStatus
  BY <1>10 DEF UpdateStatus, GoTo, gardenVars, extVars, hashVars, objVars, workerVars, budget
<1>11. CASE DeleteMR
  BY <1>11 DEF DeleteMR, GoTo, gardenVars, extVars, hashVars, objVars, workerVars, budget
<1>12. CASE WaitMR
  BY <1>12 DEF WaitMR, Fail, GoTo, AtMostOne, gardenVars, extVars, hashVars, objVars, workerVars, budget
<1>13. CASE CallFails
  <2>1. ext' \in Extensions /\ queue' = TRUE /\ pc' = "idle" /\ picked' = {} /\ UNCHANGED task
    BY <1>13 DEF CallFails, Fail
  <2>2. errors' \in 0..MaxErrors
    BY <1>13 DEF CallFails
  <2>3. UNCHANGED <<gardenVars, hashVars, objVars, changes, crashes>>
    BY <1>13 DEF CallFails
  <2> QED
    BY <2>1, <2>2, <2>3 DEF gardenVars, hashVars, objVars, AtMostOne
<1>14. CASE Restart
  <2>1. queue' \in BOOLEAN
    BY <1>14, Zenon DEF Restart
  <2>2. crashes' \in 0..MaxCrashes
    BY <1>14 DEF Restart
  <2>3. events' \in Seq(GardenSpecs) /\ Len(events') <= MaxEvents
    <3>1. Cardinality(gardens) \in Nat
      BY FS_CardinalityType
    <3>2. events' \in [1..Cardinality(gardens) -> gardens]
      BY <1>14 DEF Restart
    <3>3. events' \in Seq(gardens) /\ Len(events') = Cardinality(gardens)
      BY <3>1, <3>2, ListType
    <3> QED
      BY <3>1, <3>3
  <2>4. /\ pc' = "idle" /\ picked' = {} /\ hashSeen' = hash
        /\ UNCHANGED <<gardens, settled, ext, hash, objVars, task, changes, errors>>
    BY <1>14 DEF Restart
  <2> QED
    BY <2>1, <2>2, <2>3, <2>4 DEF objVars, AtMostOne
<1>15. CASE MapGarden
  <2>1. queue' \in BOOLEAN
    BY <1>15, Zenon DEF MapGarden
  <2>2. events' \in Seq(GardenSpecs) /\ Len(events') <= MaxEvents
    BY <1>15 DEF MapGarden
  <2>3. UNCHANGED <<gardens, settled, ext, hashVars, objVars, workerVars, budget>>
    BY <1>15 DEF MapGarden
  <2> QED
    BY <2>1, <2>2, <2>3 DEF hashVars, objVars, workerVars, budget
<1>16. CASE SyncHash
  BY <1>16 DEF SyncHash, AtMostOne, gardenVars, extVars, hashVars, objVars, workerVars, budget
<1>17. CASE CreateGarden
  <2>1. gardens' \subseteq GardenSpecs /\ IsFiniteSet(gardens') /\ Cardinality(gardens') <= 2
    <3>1. PICK g \in GardenSpecs \ gardens : gardens' = gardens \union {g}
      BY <1>17 DEF CreateGarden
    <3>2. Cardinality(gardens') = Cardinality(gardens) + 1 /\ IsFiniteSet(gardens')
      BY <3>1, FS_AddElement
    <3>3. Cardinality(gardens) < 2
      BY <1>17 DEF CreateGarden
    <3> QED
      BY <3>1, <3>2, <3>3, FS_CardinalityType
  <2>2. changes' \in 0..MaxChanges
    BY <1>17 DEF CreateGarden, Change
  <2>3. events' \in Seq(GardenSpecs) /\ Len(events') <= MaxEvents
    BY <1>17 DEF CreateGarden, Notify
  <2>4. UNCHANGED <<extVars, hashVars, objVars, workerVars, errors, crashes>>
    BY <1>17 DEF CreateGarden
  <2>5. settled' \in BOOLEAN
    BY <1>17, Zenon DEF CreateGarden
  <2> QED
    BY <2>1, <2>2, <2>3, <2>4, <2>5 DEF extVars, hashVars, objVars, workerVars
<1>18. CASE DeleteGarden
  <2>1. gardens' \subseteq GardenSpecs /\ IsFiniteSet(gardens') /\ Cardinality(gardens') <= 2
    <3>1. PICK g \in gardens : gardens' = gardens \ {g}
      BY <1>18 DEF DeleteGarden
    <3>2. Cardinality(gardens') = Cardinality(gardens) - 1 /\ IsFiniteSet(gardens')
      BY <3>1, FS_RemoveElement
    <3> QED
      BY <3>1, <3>2, FS_CardinalityType
  <2>2. changes' \in 0..MaxChanges
    BY <1>18 DEF DeleteGarden, Change
  <2>3. UNCHANGED events
    BY <1>18 DEF DeleteGarden
  <2>4. UNCHANGED <<extVars, hashVars, objVars, workerVars, errors, crashes>>
    BY <1>18 DEF DeleteGarden
  <2>5. settled' \in BOOLEAN
    BY <1>18, Zenon DEF DeleteGarden
  <2> QED
    BY <2>1, <2>2, <2>3, <2>4, <2>5 DEF extVars, hashVars, objVars, workerVars
<1>19. CASE EditGarden
  <2>1. gardens' \subseteq GardenSpecs /\ IsFiniteSet(gardens') /\ Cardinality(gardens') <= 2
    <3>1. PICK g \in gardens, h \in GardenSpecs \ gardens :
             gardens' = (gardens \ {g}) \union {h}
      BY <1>19 DEF EditGarden
    <3>2. IsFiniteSet(gardens \ {g}) /\ Cardinality(gardens \ {g}) = Cardinality(gardens) - 1
      BY FS_RemoveElement
    <3>3. Cardinality(gardens') = Cardinality(gardens \ {g}) + 1 /\ IsFiniteSet(gardens')
      BY <1>19, <3>1, <3>2, FS_AddElement
    <3>4. Cardinality(gardens) \in Int
      BY FS_CardinalityType
    <3>5. Cardinality(gardens') <= 2
      BY <3>2, <3>3, <3>4
    <3> QED
      BY <3>1, <3>3, <3>5
  <2>2. changes' \in 0..MaxChanges
    BY <1>19 DEF EditGarden, Change
  <2>3. UNCHANGED events
    BY <1>19 DEF EditGarden
  <2>4. UNCHANGED <<extVars, hashVars, objVars, workerVars, errors, crashes>>
    BY <1>19 DEF EditGarden
  <2>5. settled' \in BOOLEAN
    BY <1>19, Zenon DEF EditGarden
  <2> QED
    BY <2>1, <2>2, <2>3, <2>4, <2>5 DEF extVars, hashVars, objVars, workerVars
<1>20. CASE StartGardenReconciliation
  <2>1. settled' \in BOOLEAN
    BY <1>20, Zenon DEF StartGardenReconciliation
  <2>2. UNCHANGED <<gardens, events, extVars, hashVars, objVars, workerVars, budget>>
    BY <1>20 DEF StartGardenReconciliation
  <2> QED
    BY <2>1, <2>2 DEF extVars, hashVars, objVars, workerVars, budget
<1>21. CASE GardenReconciled
  BY <1>21 DEF GardenReconciled, Notify, gardenVars, extVars, hashVars, objVars, workerVars, budget
<1>22. CASE CreateExtension
  BY <1>22 DEF CreateExtension, gardenVars, extVars, hashVars, objVars, workerVars, budget
<1>23. CASE EditExtension
  <2>1. ext' \in Extensions
    BY <1>23 DEF EditExtension
  <2>2. changes' \in 0..MaxChanges
    BY <1>23 DEF EditExtension, Change
  <2>3. queue' = TRUE /\ UNCHANGED <<gardenVars, hashVars, objVars, workerVars, errors, crashes>>
    BY <1>23 DEF EditExtension
  <2> QED
    BY <2>1, <2>2, <2>3 DEF gardenVars, hashVars, objVars, workerVars
<1>24. CASE Annotate
  BY <1>24 DEF Annotate, gardenVars, extVars, hashVars, objVars, workerVars, budget
<1>25. CASE DeleteExtension
  <2>1. ext' \in Extensions
    BY <1>25 DEF DeleteExtension, Removed
  <2>2. changes' \in 0..MaxChanges
    BY <1>25 DEF DeleteExtension, Change
  <2> QED
    BY <1>25, <2>1, <2>2 DEF DeleteExtension, gardenVars, hashVars, objVars, workerVars
<1>26. CASE ReleaseCert
  BY <1>26 DEF ReleaseCert, NoCert, Certs, gardenVars, extVars, hashVars, objVars, workerVars, budget
<1>27. CASE GRMRelease
  BY <1>27 DEF GRMRelease, gardenVars, extVars, hashVars, objVars, workerVars, budget
<1>28. CASE UNCHANGED vars
  BY <1>28 DEF vars, gardenVars, extVars, hashVars, objVars, workerVars, budget
<1> QED
  BY <1>1, <1>2, <1>3, <1>4, <1>5, <1>6, <1>7, <1>8, <1>9, <1>10, <1>11, <1>12, <1>13, <1>14,
     <1>15, <1>16, <1>17, <1>18, <1>19, <1>20, <1>21, <1>22, <1>23, <1>24, <1>25, <1>26, <1>27, <1>28
     DEF Next, Worker, Reconcile, Delete, Operator

-----------------------------------------------------------------------------
(* Safety, one part of the invariant after the other.                       *)

\* The names of the Certificate are the entries of the hash.
LEMMA ConcatEntries ==
  ASSUME NEW S, NEW v \in Seq(S), NEW w \in Seq(S)
  PROVE  Entries(v \o w) = Entries(v) \union Entries(w)
<1>1. \A i \in 1..Len(v) : v[i] = (v \o w)[i] /\ i \in 1..Len(v \o w)
  OBVIOUS
<1>2. \A i \in 1..Len(w) : w[i] = (v \o w)[Len(v) + i] /\ Len(v) + i \in 1..Len(v \o w)
  OBVIOUS
<1>3. \A i \in 1..Len(v \o w) :
        \/ i \in 1..Len(v) /\ (v \o w)[i] = v[i]
        \/ i - Len(v) \in 1..Len(w) /\ (v \o w)[i] = w[i - Len(v)]
  OBVIOUS
<1>4. DOMAIN v = 1..Len(v) /\ DOMAIN w = 1..Len(w) /\ DOMAIN (v \o w) = 1..Len(v \o w)
  OBVIOUS
<1>5. Entries(v) \subseteq Entries(v \o w) /\ Entries(w) \subseteq Entries(v \o w)
  BY <1>1, <1>2, <1>4 DEF Entries
<1>6. Entries(v \o w) \subseteq Entries(v) \union Entries(w)
  BY <1>3, <1>4 DEF Entries
<1> QED
  BY <1>5, <1>6

\* The entries of a hash are the names of the Garden it was computed from.
LEMMA HashEntries == ASSUME NEW g \in GardenSpecs PROVE Entries(Hash(g)) = DNSNames(g)
<1>1. g.virtual \in Seq(Entries(g.virtual)) /\ g.ingress \in Seq(Entries(g.ingress))
  BY ConstantsAssumption
<1> DEFINE S == Entries(g.virtual) \union Entries(g.ingress)
<1>2. g.virtual \in Seq(S) /\ g.ingress \in Seq(S)
  BY <1>1
<1> QED
  BY <1>2, ConcatEntries DEF Hash, DNSNames

\* Nothing is deployed and no worker runs at first.
LEMMA InitSafe == Init => Safe
<1> SUFFICES ASSUME Init PROVE Safe
  OBVIOUS
<1>1. ext.phase = "none" /\ ext.state = "none" /\ ~ext.fin
  BY DEF Init
<1>2. pc = "idle" /\ cert.st = "absent" /\ mr = "absent"
  BY DEF Init, NoCert
<1> QED
  BY <1>1, <1>2 DEF Init, Safe, FinalizerHeld, Attempt, Teardown, GardenThere, HashMatches, Match, InUse,
                    Reconciling, Pending, NothingForgotten

\* What a worker works on or has deployed holds the Extension.
LEMMA StepFinalizerHeld == TypeOK /\ FinalizerHeld /\ Attempt /\ Teardown /\ [Next]_vars => FinalizerHeld'
<1> SUFFICES ASSUME TypeOK, FinalizerHeld, Attempt, Teardown, [Next]_vars PROVE FinalizerHeld'
  OBVIOUS
<1> USE DEF FinalizerHeld, Attempt, Teardown, InUse, Reconciling
<1>1. CASE Dequeue
  <2>1. ext'.phase = ext.phase /\ ext.phase # "none" /\ ext'.fin = TRUE
    BY <1>1 DEF Dequeue, TypeOK, Extensions
  <2> QED
    BY <2>1
<1>2. CASE DequeueNothing
  BY <1>2 DEF DequeueNothing, TypeOK, Extensions, Certs, gardenVars, extVars, hashVars, objVars, workerVars, budget
<1>3. CASE Succeed
  BY <1>3 DEF Succeed, Removed, TypeOK, Extensions, Certs, gardenVars, extVars, hashVars, objVars, workerVars, budget
<1>4. CASE DeployMR
  BY <1>4 DEF DeployMR, Fail, GoTo, TypeOK, Extensions, Certs, gardenVars, extVars, hashVars, objVars, workerVars, budget
<1>5. CASE ListGardens
  BY <1>5 DEF ListGardens, Fail, GoTo, TypeOK, Extensions, Certs, gardenVars, extVars, hashVars, objVars, workerVars, budget
<1>6. CASE WriteCert
  BY <1>6 DEF WriteCert, GoTo, TypeOK, Extensions, Certs, gardenVars, extVars, hashVars, objVars, workerVars, budget
<1>7. CASE PatchHash
  BY <1>7 DEF PatchHash, GoTo, TypeOK, Extensions, Certs, gardenVars, extVars, hashVars, objVars, workerVars, budget
<1>8. CASE DeleteCert
  BY <1>8 DEF DeleteCert, GoTo, NoCert, TypeOK, Extensions, Certs, gardenVars, extVars, hashVars, objVars, workerVars, budget
<1>9. CASE RemoveHash
  BY <1>9 DEF RemoveHash, GoTo, TypeOK, Extensions, Certs, gardenVars, extVars, hashVars, objVars, workerVars, budget
<1>10. CASE UpdateStatus
  BY <1>10 DEF UpdateStatus, GoTo, TypeOK, Extensions, Certs, gardenVars, extVars, hashVars, objVars, workerVars, budget
<1>11. CASE DeleteMR
  BY <1>11 DEF DeleteMR, GoTo, TypeOK, Extensions, Certs, gardenVars, extVars, hashVars, objVars, workerVars, budget
<1>12. CASE WaitMR
  BY <1>12 DEF WaitMR, Fail, GoTo, TypeOK, Extensions, Certs, gardenVars, extVars, hashVars, objVars, workerVars, budget
<1>13. CASE CallFails
  BY <1>13 DEF CallFails, Fail, TypeOK, Extensions, Certs, gardenVars, extVars, hashVars, objVars, workerVars, budget
<1>14. CASE Restart
  BY <1>14 DEF Restart, TypeOK, Extensions, Certs, gardenVars, extVars, hashVars, objVars, workerVars, budget
<1>15. CASE MapGarden
  BY <1>15 DEF MapGarden, TypeOK, Extensions, Certs, gardenVars, extVars, hashVars, objVars, workerVars, budget
<1>16. CASE SyncHash
  BY <1>16 DEF SyncHash, TypeOK, Extensions, Certs, gardenVars, extVars, hashVars, objVars, workerVars, budget
<1>17. CASE CreateGarden
  BY <1>17 DEF CreateGarden, Change, Notify, TypeOK, Extensions, Certs, gardenVars, extVars, hashVars, objVars, workerVars, budget
<1>18. CASE DeleteGarden
  BY <1>18 DEF DeleteGarden, Change, TypeOK, Extensions, Certs, gardenVars, extVars, hashVars, objVars, workerVars, budget
<1>19. CASE EditGarden
  BY <1>19 DEF EditGarden, Change, TypeOK, Extensions, Certs, gardenVars, extVars, hashVars, objVars, workerVars, budget
<1>20. CASE StartGardenReconciliation
  BY <1>20 DEF StartGardenReconciliation, TypeOK, Extensions, Certs, gardenVars, extVars, hashVars, objVars, workerVars, budget
<1>21. CASE GardenReconciled
  BY <1>21 DEF GardenReconciled, Notify, TypeOK, Extensions, Certs, gardenVars, extVars, hashVars, objVars, workerVars, budget
<1>22. CASE CreateExtension
  BY <1>22 DEF CreateExtension, TypeOK, Extensions, Certs, gardenVars, extVars, hashVars, objVars, workerVars, budget
<1>23. CASE EditExtension
  BY <1>23 DEF EditExtension, Change, TypeOK, Extensions, Certs, gardenVars, extVars, hashVars, objVars, workerVars, budget
<1>24. CASE Annotate
  BY <1>24 DEF Annotate, TypeOK, Extensions, Certs, gardenVars, extVars, hashVars, objVars, workerVars, budget
<1>25. CASE DeleteExtension
  BY <1>25 DEF DeleteExtension, Change, Removed, TypeOK, Extensions, Certs, gardenVars, extVars, hashVars, objVars, workerVars, budget
<1>26. CASE ReleaseCert
  BY <1>26 DEF ReleaseCert, NoCert, TypeOK, Extensions, Certs, gardenVars, extVars, hashVars, objVars, workerVars, budget
<1>27. CASE GRMRelease
  BY <1>27 DEF GRMRelease, TypeOK, Extensions, Certs, gardenVars, extVars, hashVars, objVars, workerVars, budget
<1>28. CASE UNCHANGED vars
  BY <1>28 DEF vars, gardenVars, extVars, hashVars, objVars, workerVars, budget
<1> QED
  BY <1>1, <1>2, <1>3, <1>4, <1>5, <1>6, <1>7, <1>8, <1>9, <1>10, <1>11, <1>12, <1>13, <1>14,
     <1>15, <1>16, <1>17, <1>18, <1>19, <1>20, <1>21, <1>22, <1>23, <1>24, <1>25, <1>26, <1>27, <1>28
     DEF Next, Worker, Reconcile, Delete, Operator

\* A worker that runs is where its operation takes it.
LEMMA StepAttempt == TypeOK /\ FinalizerHeld /\ Attempt /\ [Next]_vars => Attempt'
<1> SUFFICES ASSUME TypeOK, FinalizerHeld, Attempt, [Next]_vars PROVE Attempt'
  OBVIOUS
<1> USE DEF FinalizerHeld, Attempt, InUse, Reconciling
<1>1. CASE Dequeue
  BY <1>1, ConstantsAssumption DEF Dequeue, TypeOK, Extensions, Certs, gardenVars, extVars, hashVars, objVars, workerVars, budget
<1>2. CASE DequeueNothing
  BY <1>2 DEF DequeueNothing, TypeOK, Extensions, Certs, gardenVars, extVars, hashVars, objVars, workerVars, budget
<1>3. CASE Succeed
  BY <1>3 DEF Succeed, Removed, TypeOK, Extensions, Certs, gardenVars, extVars, hashVars, objVars, workerVars, budget
<1>4. CASE DeployMR
  BY <1>4 DEF DeployMR, Fail, GoTo, TypeOK, Extensions, Certs, gardenVars, extVars, hashVars, objVars, workerVars, budget
<1>5. CASE ListGardens
  BY <1>5 DEF ListGardens, Fail, GoTo, TypeOK, Extensions, Certs, gardenVars, extVars, hashVars, objVars, workerVars, budget
<1>6. CASE WriteCert
  BY <1>6 DEF WriteCert, GoTo, TypeOK, Extensions, Certs, gardenVars, extVars, hashVars, objVars, workerVars, budget
<1>7. CASE PatchHash
  BY <1>7 DEF PatchHash, GoTo, TypeOK, Extensions, Certs, gardenVars, extVars, hashVars, objVars, workerVars, budget
<1>8. CASE DeleteCert
  BY <1>8 DEF DeleteCert, GoTo, NoCert, TypeOK, Extensions, Certs, gardenVars, extVars, hashVars, objVars, workerVars, budget
<1>9. CASE RemoveHash
  BY <1>9 DEF RemoveHash, GoTo, TypeOK, Extensions, Certs, gardenVars, extVars, hashVars, objVars, workerVars, budget
<1>10. CASE UpdateStatus
  BY <1>10 DEF UpdateStatus, GoTo, TypeOK, Extensions, Certs, gardenVars, extVars, hashVars, objVars, workerVars, budget
<1>11. CASE DeleteMR
  BY <1>11 DEF DeleteMR, GoTo, TypeOK, Extensions, Certs, gardenVars, extVars, hashVars, objVars, workerVars, budget
<1>12. CASE WaitMR
  BY <1>12 DEF WaitMR, Fail, GoTo, TypeOK, Extensions, Certs, gardenVars, extVars, hashVars, objVars, workerVars, budget
<1>13. CASE CallFails
  BY <1>13 DEF CallFails, Fail, TypeOK, Extensions, Certs, gardenVars, extVars, hashVars, objVars, workerVars, budget
<1>14. CASE Restart
  BY <1>14 DEF Restart, TypeOK, Extensions, Certs, gardenVars, extVars, hashVars, objVars, workerVars, budget
<1>15. CASE MapGarden
  BY <1>15 DEF MapGarden, TypeOK, Extensions, Certs, gardenVars, extVars, hashVars, objVars, workerVars, budget
<1>16. CASE SyncHash
  BY <1>16 DEF SyncHash, TypeOK, Extensions, Certs, gardenVars, extVars, hashVars, objVars, workerVars, budget
<1>17. CASE CreateGarden
  BY <1>17 DEF CreateGarden, Change, Notify, TypeOK, Extensions, Certs, gardenVars, extVars, hashVars, objVars, workerVars, budget
<1>18. CASE DeleteGarden
  BY <1>18 DEF DeleteGarden, Change, TypeOK, Extensions, Certs, gardenVars, extVars, hashVars, objVars, workerVars, budget
<1>19. CASE EditGarden
  BY <1>19 DEF EditGarden, Change, TypeOK, Extensions, Certs, gardenVars, extVars, hashVars, objVars, workerVars, budget
<1>20. CASE StartGardenReconciliation
  BY <1>20 DEF StartGardenReconciliation, TypeOK, Extensions, Certs, gardenVars, extVars, hashVars, objVars, workerVars, budget
<1>21. CASE GardenReconciled
  BY <1>21 DEF GardenReconciled, Notify, TypeOK, Extensions, Certs, gardenVars, extVars, hashVars, objVars, workerVars, budget
<1>22. CASE CreateExtension
  BY <1>22 DEF CreateExtension, TypeOK, Extensions, Certs, gardenVars, extVars, hashVars, objVars, workerVars, budget
<1>23. CASE EditExtension
  BY <1>23 DEF EditExtension, Change, TypeOK, Extensions, Certs, gardenVars, extVars, hashVars, objVars, workerVars, budget
<1>24. CASE Annotate
  BY <1>24 DEF Annotate, TypeOK, Extensions, Certs, gardenVars, extVars, hashVars, objVars, workerVars, budget
<1>25. CASE DeleteExtension
  BY <1>25 DEF DeleteExtension, Change, Removed, TypeOK, Extensions, Certs, gardenVars, extVars, hashVars, objVars, workerVars, budget
<1>26. CASE ReleaseCert
  BY <1>26 DEF ReleaseCert, NoCert, TypeOK, Extensions, Certs, gardenVars, extVars, hashVars, objVars, workerVars, budget
<1>27. CASE GRMRelease
  BY <1>27 DEF GRMRelease, TypeOK, Extensions, Certs, gardenVars, extVars, hashVars, objVars, workerVars, budget
<1>28. CASE UNCHANGED vars
  BY <1>28 DEF vars, gardenVars, extVars, hashVars, objVars, workerVars, budget
<1> QED
  BY <1>1, <1>2, <1>3, <1>4, <1>5, <1>6, <1>7, <1>8, <1>9, <1>10, <1>11, <1>12, <1>13, <1>14,
     <1>15, <1>16, <1>17, <1>18, <1>19, <1>20, <1>21, <1>22, <1>23, <1>24, <1>25, <1>26, <1>27, <1>28
     DEF Next, Worker, Reconcile, Delete, Operator

\* The Certificate goes before the ManagedResource.
LEMMA StepTeardown == TypeOK /\ FinalizerHeld /\ Attempt /\ Teardown /\ [Next]_vars => Teardown'
<1> SUFFICES ASSUME TypeOK, FinalizerHeld, Attempt, Teardown, [Next]_vars PROVE Teardown'
  OBVIOUS
<1> USE DEF FinalizerHeld, Attempt, Teardown, InUse, Reconciling
<1>1. CASE Dequeue
  BY <1>1, ConstantsAssumption DEF Dequeue, TypeOK, Extensions, Certs, gardenVars, extVars, hashVars, objVars, workerVars, budget
<1>2. CASE DequeueNothing
  BY <1>2 DEF DequeueNothing, TypeOK, Extensions, Certs, gardenVars, extVars, hashVars, objVars, workerVars, budget
<1>3. CASE Succeed
  BY <1>3 DEF Succeed, Removed, TypeOK, Extensions, Certs, gardenVars, extVars, hashVars, objVars, workerVars, budget
<1>4. CASE DeployMR
  BY <1>4 DEF DeployMR, Fail, GoTo, TypeOK, Extensions, Certs, gardenVars, extVars, hashVars, objVars, workerVars, budget
<1>5. CASE ListGardens
  BY <1>5 DEF ListGardens, Fail, GoTo, TypeOK, Extensions, Certs, gardenVars, extVars, hashVars, objVars, workerVars, budget
<1>6. CASE WriteCert
  BY <1>6 DEF WriteCert, GoTo, TypeOK, Extensions, Certs, gardenVars, extVars, hashVars, objVars, workerVars, budget
<1>7. CASE PatchHash
  BY <1>7 DEF PatchHash, GoTo, TypeOK, Extensions, Certs, gardenVars, extVars, hashVars, objVars, workerVars, budget
<1>8. CASE DeleteCert
  BY <1>8 DEF DeleteCert, GoTo, NoCert, TypeOK, Extensions, Certs, gardenVars, extVars, hashVars, objVars, workerVars, budget
<1>9. CASE RemoveHash
  BY <1>9 DEF RemoveHash, GoTo, TypeOK, Extensions, Certs, gardenVars, extVars, hashVars, objVars, workerVars, budget
<1>10. CASE UpdateStatus
  BY <1>10 DEF UpdateStatus, GoTo, TypeOK, Extensions, Certs, gardenVars, extVars, hashVars, objVars, workerVars, budget
<1>11. CASE DeleteMR
  BY <1>11 DEF DeleteMR, GoTo, TypeOK, Extensions, Certs, gardenVars, extVars, hashVars, objVars, workerVars, budget
<1>12. CASE WaitMR
  BY <1>12 DEF WaitMR, Fail, GoTo, TypeOK, Extensions, Certs, gardenVars, extVars, hashVars, objVars, workerVars, budget
<1>13. CASE CallFails
  BY <1>13 DEF CallFails, Fail, TypeOK, Extensions, Certs, gardenVars, extVars, hashVars, objVars, workerVars, budget
<1>14. CASE Restart
  BY <1>14 DEF Restart, TypeOK, Extensions, Certs, gardenVars, extVars, hashVars, objVars, workerVars, budget
<1>15. CASE MapGarden
  BY <1>15 DEF MapGarden, TypeOK, Extensions, Certs, gardenVars, extVars, hashVars, objVars, workerVars, budget
<1>16. CASE SyncHash
  BY <1>16 DEF SyncHash, TypeOK, Extensions, Certs, gardenVars, extVars, hashVars, objVars, workerVars, budget
<1>17. CASE CreateGarden
  BY <1>17 DEF CreateGarden, Change, Notify, TypeOK, Extensions, Certs, gardenVars, extVars, hashVars, objVars, workerVars, budget
<1>18. CASE DeleteGarden
  BY <1>18 DEF DeleteGarden, Change, TypeOK, Extensions, Certs, gardenVars, extVars, hashVars, objVars, workerVars, budget
<1>19. CASE EditGarden
  BY <1>19 DEF EditGarden, Change, TypeOK, Extensions, Certs, gardenVars, extVars, hashVars, objVars, workerVars, budget
<1>20. CASE StartGardenReconciliation
  BY <1>20 DEF StartGardenReconciliation, TypeOK, Extensions, Certs, gardenVars, extVars, hashVars, objVars, workerVars, budget
<1>21. CASE GardenReconciled
  BY <1>21 DEF GardenReconciled, Notify, TypeOK, Extensions, Certs, gardenVars, extVars, hashVars, objVars, workerVars, budget
<1>22. CASE CreateExtension
  BY <1>22 DEF CreateExtension, TypeOK, Extensions, Certs, gardenVars, extVars, hashVars, objVars, workerVars, budget
<1>23. CASE EditExtension
  BY <1>23 DEF EditExtension, Change, TypeOK, Extensions, Certs, gardenVars, extVars, hashVars, objVars, workerVars, budget
<1>24. CASE Annotate
  BY <1>24 DEF Annotate, TypeOK, Extensions, Certs, gardenVars, extVars, hashVars, objVars, workerVars, budget
<1>25. CASE DeleteExtension
  BY <1>25 DEF DeleteExtension, Change, Removed, TypeOK, Extensions, Certs, gardenVars, extVars, hashVars, objVars, workerVars, budget
<1>26. CASE ReleaseCert
  BY <1>26 DEF ReleaseCert, NoCert, TypeOK, Extensions, Certs, gardenVars, extVars, hashVars, objVars, workerVars, budget
<1>27. CASE GRMRelease
  BY <1>27 DEF GRMRelease, TypeOK, Extensions, Certs, gardenVars, extVars, hashVars, objVars, workerVars, budget
<1>28. CASE UNCHANGED vars
  BY <1>28 DEF vars, gardenVars, extVars, hashVars, objVars, workerVars, budget
<1> QED
  BY <1>1, <1>2, <1>3, <1>4, <1>5, <1>6, <1>7, <1>8, <1>9, <1>10, <1>11, <1>12, <1>13, <1>14,
     <1>15, <1>16, <1>17, <1>18, <1>19, <1>20, <1>21, <1>22, <1>23, <1>24, <1>25, <1>26, <1>27, <1>28
     DEF Next, Worker, Reconcile, Delete, Operator

\* A Garden whose domains are used exists.
LEMMA StepGardenThere == TypeOK /\ FinalizerHeld /\ Attempt /\ GardenThere /\ [Next]_vars => GardenThere'
<1> SUFFICES ASSUME TypeOK, FinalizerHeld, Attempt, GardenThere, [Next]_vars PROVE GardenThere'
  OBVIOUS
<1> USE DEF FinalizerHeld, Attempt, GardenThere, InUse, Reconciling
<1>1. CASE Dequeue
  BY <1>1, ConstantsAssumption DEF Dequeue, TypeOK, Extensions, Certs, gardenVars, extVars, hashVars, objVars, workerVars, budget
<1>2. CASE DequeueNothing
  BY <1>2 DEF DequeueNothing, TypeOK, Extensions, Certs, gardenVars, extVars, hashVars, objVars, workerVars, budget
<1>3. CASE Succeed
  BY <1>3 DEF Succeed, Removed, TypeOK, Extensions, Certs, gardenVars, extVars, hashVars, objVars, workerVars, budget
<1>4. CASE DeployMR
  BY <1>4 DEF DeployMR, Fail, GoTo, TypeOK, Extensions, Certs, gardenVars, extVars, hashVars, objVars, workerVars, budget
<1>5. CASE ListGardens
  BY <1>5 DEF ListGardens, Fail, GoTo, TypeOK, Extensions, Certs, gardenVars, extVars, hashVars, objVars, workerVars, budget
<1>6. CASE WriteCert
  BY <1>6 DEF WriteCert, GoTo, TypeOK, Extensions, Certs, gardenVars, extVars, hashVars, objVars, workerVars, budget
<1>7. CASE PatchHash
  BY <1>7 DEF PatchHash, GoTo, TypeOK, Extensions, Certs, gardenVars, extVars, hashVars, objVars, workerVars, budget
<1>8. CASE DeleteCert
  BY <1>8 DEF DeleteCert, GoTo, NoCert, TypeOK, Extensions, Certs, gardenVars, extVars, hashVars, objVars, workerVars, budget
<1>9. CASE RemoveHash
  BY <1>9 DEF RemoveHash, GoTo, TypeOK, Extensions, Certs, gardenVars, extVars, hashVars, objVars, workerVars, budget
<1>10. CASE UpdateStatus
  BY <1>10 DEF UpdateStatus, GoTo, TypeOK, Extensions, Certs, gardenVars, extVars, hashVars, objVars, workerVars, budget
<1>11. CASE DeleteMR
  BY <1>11 DEF DeleteMR, GoTo, TypeOK, Extensions, Certs, gardenVars, extVars, hashVars, objVars, workerVars, budget
<1>12. CASE WaitMR
  BY <1>12 DEF WaitMR, Fail, GoTo, TypeOK, Extensions, Certs, gardenVars, extVars, hashVars, objVars, workerVars, budget
<1>13. CASE CallFails
  BY <1>13 DEF CallFails, Fail, TypeOK, Extensions, Certs, gardenVars, extVars, hashVars, objVars, workerVars, budget
<1>14. CASE Restart
  BY <1>14 DEF Restart, TypeOK, Extensions, Certs, gardenVars, extVars, hashVars, objVars, workerVars, budget
<1>15. CASE MapGarden
  BY <1>15 DEF MapGarden, TypeOK, Extensions, Certs, gardenVars, extVars, hashVars, objVars, workerVars, budget
<1>16. CASE SyncHash
  BY <1>16 DEF SyncHash, TypeOK, Extensions, Certs, gardenVars, extVars, hashVars, objVars, workerVars, budget
<1>17. CASE CreateGarden
  BY <1>17 DEF CreateGarden, Change, Notify, TypeOK, Extensions, Certs, gardenVars, extVars, hashVars, objVars, workerVars, budget
<1>18. CASE DeleteGarden
  <2>1. PICK g \in gardens : gardens' = gardens \ {g}
    BY <1>18 DEF DeleteGarden
  <2>2. ext.phase = "none" \/ Cardinality(gardens) = 2
    BY <1>18 DEF DeleteGarden
  <2>3. gardens' = {} => ext.phase = "none"
    <3>1. Cardinality({g}) = 1
      BY FS_Singleton
    <3>2. gardens' = {} => gardens = {g}
      BY <2>1
    <3> QED
      BY <2>2, <3>1, <3>2
  <2>4. UNCHANGED <<extVars, objVars, workerVars>>
    BY <1>18 DEF DeleteGarden
  <2> QED
    BY <2>1, <2>3, <2>4 DEF extVars, objVars, workerVars
<1>19. CASE EditGarden
  BY <1>19 DEF EditGarden, Change, TypeOK, Extensions, Certs, gardenVars, extVars, hashVars, objVars, workerVars, budget
<1>20. CASE StartGardenReconciliation
  BY <1>20 DEF StartGardenReconciliation, TypeOK, Extensions, Certs, gardenVars, extVars, hashVars, objVars, workerVars, budget
<1>21. CASE GardenReconciled
  BY <1>21 DEF GardenReconciled, Notify, TypeOK, Extensions, Certs, gardenVars, extVars, hashVars, objVars, workerVars, budget
<1>22. CASE CreateExtension
  BY <1>22 DEF CreateExtension, TypeOK, Extensions, Certs, gardenVars, extVars, hashVars, objVars, workerVars, budget
<1>23. CASE EditExtension
  BY <1>23 DEF EditExtension, Change, TypeOK, Extensions, Certs, gardenVars, extVars, hashVars, objVars, workerVars, budget
<1>24. CASE Annotate
  BY <1>24 DEF Annotate, TypeOK, Extensions, Certs, gardenVars, extVars, hashVars, objVars, workerVars, budget
<1>25. CASE DeleteExtension
  BY <1>25 DEF DeleteExtension, Change, Removed, TypeOK, Extensions, Certs, gardenVars, extVars, hashVars, objVars, workerVars, budget
<1>26. CASE ReleaseCert
  BY <1>26 DEF ReleaseCert, NoCert, TypeOK, Extensions, Certs, gardenVars, extVars, hashVars, objVars, workerVars, budget
<1>27. CASE GRMRelease
  BY <1>27 DEF GRMRelease, TypeOK, Extensions, Certs, gardenVars, extVars, hashVars, objVars, workerVars, budget
<1>28. CASE UNCHANGED vars
  BY <1>28 DEF vars, gardenVars, extVars, hashVars, objVars, workerVars, budget
<1> QED
  BY <1>1, <1>2, <1>3, <1>4, <1>5, <1>6, <1>7, <1>8, <1>9, <1>10, <1>11, <1>12, <1>13, <1>14,
     <1>15, <1>16, <1>17, <1>18, <1>19, <1>20, <1>21, <1>22, <1>23, <1>24, <1>25, <1>26, <1>27, <1>28
     DEF Next, Worker, Reconcile, Delete, Operator

\* The annotation vouches for the Certificate once it is written.
LEMMA StepHashMatches == TypeOK /\ Attempt /\ GardenThere /\ HashMatches /\ [Next]_vars => HashMatches'
<1> SUFFICES ASSUME TypeOK, Attempt, GardenThere, HashMatches, [Next]_vars PROVE HashMatches'
  OBVIOUS
<1> USE DEF Attempt, GardenThere, HashMatches, Match, InUse, Reconciling
<1>1. CASE Dequeue
  BY <1>1, ConstantsAssumption DEF Dequeue, TypeOK, Extensions, Certs, gardenVars, extVars, hashVars, objVars, workerVars, budget
<1>2. CASE DequeueNothing
  BY <1>2 DEF DequeueNothing, TypeOK, Extensions, Certs, gardenVars, extVars, hashVars, objVars, workerVars, budget
<1>3. CASE Succeed
  BY <1>3 DEF Succeed, Removed, TypeOK, Extensions, Certs, gardenVars, extVars, hashVars, objVars, workerVars, budget
<1>4. CASE DeployMR
  BY <1>4 DEF DeployMR, Fail, GoTo, TypeOK, Extensions, Certs, gardenVars, extVars, hashVars, objVars, workerVars, budget
<1>5. CASE ListGardens
  BY <1>5 DEF ListGardens, Fail, GoTo, TypeOK, Extensions, Certs, gardenVars, extVars, hashVars, objVars, workerVars, budget
<1>6. CASE WriteCert
  BY <1>6 DEF WriteCert, GoTo, TypeOK, Extensions, Certs, gardenVars, extVars, hashVars, objVars, workerVars, budget
<1>7. CASE PatchHash
  <2>1. PICK g \in GardenSpecs : picked = {g}
    BY <1>7 DEF PatchHash
  <2>2. hash' = {Hash(g)} /\ pc' = "updateStatus" /\ cert' = cert
    BY <1>7, <2>1 DEF PatchHash, GoTo, objVars
  <2>3. InUse => cert.names = Entries(Hash(g))
    BY <1>7, <2>1, HashEntries DEF PatchHash
  <2> QED
    BY <2>2, <2>3
<1>8. CASE DeleteCert
  BY <1>8 DEF DeleteCert, GoTo, NoCert, TypeOK, Extensions, Certs, gardenVars, extVars, hashVars, objVars, workerVars, budget
<1>9. CASE RemoveHash
  BY <1>9 DEF RemoveHash, GoTo, TypeOK, Extensions, Certs, gardenVars, extVars, hashVars, objVars, workerVars, budget
<1>10. CASE UpdateStatus
  BY <1>10 DEF UpdateStatus, GoTo, TypeOK, Extensions, Certs, gardenVars, extVars, hashVars, objVars, workerVars, budget
<1>11. CASE DeleteMR
  BY <1>11 DEF DeleteMR, GoTo, TypeOK, Extensions, Certs, gardenVars, extVars, hashVars, objVars, workerVars, budget
<1>12. CASE WaitMR
  BY <1>12 DEF WaitMR, Fail, GoTo, TypeOK, Extensions, Certs, gardenVars, extVars, hashVars, objVars, workerVars, budget
<1>13. CASE CallFails
  BY <1>13 DEF CallFails, Fail, TypeOK, Extensions, Certs, gardenVars, extVars, hashVars, objVars, workerVars, budget
<1>14. CASE Restart
  BY <1>14 DEF Restart, TypeOK, Extensions, Certs, gardenVars, extVars, hashVars, objVars, workerVars, budget
<1>15. CASE MapGarden
  BY <1>15 DEF MapGarden, TypeOK, Extensions, Certs, gardenVars, extVars, hashVars, objVars, workerVars, budget
<1>16. CASE SyncHash
  BY <1>16 DEF SyncHash, TypeOK, Extensions, Certs, gardenVars, extVars, hashVars, objVars, workerVars, budget
<1>17. CASE CreateGarden
  BY <1>17 DEF CreateGarden, Change, Notify, TypeOK, Extensions, Certs, gardenVars, extVars, hashVars, objVars, workerVars, budget
<1>18. CASE DeleteGarden
  BY <1>18 DEF DeleteGarden, Change, TypeOK, Extensions, Certs, gardenVars, extVars, hashVars, objVars, workerVars, budget
<1>19. CASE EditGarden
  BY <1>19 DEF EditGarden, Change, TypeOK, Extensions, Certs, gardenVars, extVars, hashVars, objVars, workerVars, budget
<1>20. CASE StartGardenReconciliation
  BY <1>20 DEF StartGardenReconciliation, TypeOK, Extensions, Certs, gardenVars, extVars, hashVars, objVars, workerVars, budget
<1>21. CASE GardenReconciled
  BY <1>21 DEF GardenReconciled, Notify, TypeOK, Extensions, Certs, gardenVars, extVars, hashVars, objVars, workerVars, budget
<1>22. CASE CreateExtension
  BY <1>22 DEF CreateExtension, TypeOK, Extensions, Certs, gardenVars, extVars, hashVars, objVars, workerVars, budget
<1>23. CASE EditExtension
  BY <1>23 DEF EditExtension, Change, TypeOK, Extensions, Certs, gardenVars, extVars, hashVars, objVars, workerVars, budget
<1>24. CASE Annotate
  BY <1>24 DEF Annotate, TypeOK, Extensions, Certs, gardenVars, extVars, hashVars, objVars, workerVars, budget
<1>25. CASE DeleteExtension
  BY <1>25 DEF DeleteExtension, Change, Removed, TypeOK, Extensions, Certs, gardenVars, extVars, hashVars, objVars, workerVars, budget
<1>26. CASE ReleaseCert
  BY <1>26 DEF ReleaseCert, NoCert, TypeOK, Extensions, Certs, gardenVars, extVars, hashVars, objVars, workerVars, budget
<1>27. CASE GRMRelease
  BY <1>27 DEF GRMRelease, TypeOK, Extensions, Certs, gardenVars, extVars, hashVars, objVars, workerVars, budget
<1>28. CASE UNCHANGED vars
  BY <1>28 DEF vars, gardenVars, extVars, hashVars, objVars, workerVars, budget
<1> QED
  BY <1>1, <1>2, <1>3, <1>4, <1>5, <1>6, <1>7, <1>8, <1>9, <1>10, <1>11, <1>12, <1>13, <1>14,
     <1>15, <1>16, <1>17, <1>18, <1>19, <1>20, <1>21, <1>22, <1>23, <1>24, <1>25, <1>26, <1>27, <1>28
     DEF Next, Worker, Reconcile, Delete, Operator

\* No step takes away a request that is still needed.
LEMMA StepPending == TypeOK /\ Attempt /\ Pending /\ [Next]_vars => Pending'
<1> SUFFICES ASSUME TypeOK, Attempt, Pending, [Next]_vars PROVE Pending'
  OBVIOUS
<1> USE DEF Pending, NothingForgotten, Reconciling
\* A step that leaves Extension and task alone, takes no request away and does
\* not end the attempt.
<1> DEFINE Keeps == UNCHANGED <<ext, task>> /\ (queue => queue') /\ (pc' = "idle" <=> pc = "idle")
\* A step that puts a request in the queue.
<1> DEFINE Requests == queue' /\ (ext'.op # "none" => ext'.phase # "none")
<1>1. CASE Keeps
  BY <1>1
<1>2. CASE Requests
  BY <1>2
<1>3. CASE Dequeue
  <2>1. /\ ext'.phase = ext.phase /\ ext'.op = "none" /\ pc' # "idle"
        /\ ext.phase = "deleting" => task' = "delete"
    BY <1>3 DEF Dequeue, TypeOK, Extensions
  <2> QED
    BY <2>1
<1>4. CASE DequeueNothing
  BY <1>4 DEF DequeueNothing, workerVars
<1>5. CASE Succeed
  <2>1. pc = "succeed" /\ pc' = "idle" /\ queue' = queue
    BY <1>5 DEF Succeed
  <2>2. CASE task = "delete"
    BY <1>5, <2>1, <2>2 DEF Succeed, Removed, TypeOK, Extensions
  <2>3. CASE task # "delete"
    <3>1. ext'.phase = ext.phase /\ ext'.op = ext.op /\ ext'.state = "Succeeded"
      BY <1>5, <2>3 DEF Succeed, TypeOK, Extensions
    <3> QED
      BY <2>1, <2>3, <3>1
  <2> QED
    BY <2>2, <2>3
<1>6. ASSUME Fail PROVE Requests
  <2>1. ext'.phase = ext.phase /\ ext'.op = ext.op /\ queue'
    BY <1>6 DEF Fail, TypeOK, Extensions
  <2> QED
    BY <2>1
<1>7. ASSUME NEW step \in PCs \ {"idle"}, pc # "idle", GoTo(step) PROVE Keeps
  BY <1>7 DEF GoTo, extVars
<1>8. CASE DeployMR
  <2>1. Fail \/ \E step \in PCs \ {"idle"} : GoTo(step)
    BY <1>8 DEF DeployMR, PCs
  <2> QED
    BY <1>1, <1>2, <1>6, <1>7, <1>8, <2>1 DEF DeployMR
<1>9. CASE ListGardens
  <2>1. Fail \/ \E step \in PCs \ {"idle"} : GoTo(step)
    BY <1>9 DEF ListGardens, PCs
  <2> QED
    BY <1>1, <1>2, <1>6, <1>7, <1>9, <2>1 DEF ListGardens
<1>10. CASE WaitMR
  <2>1. Fail \/ \E step \in PCs \ {"idle"} : GoTo(step)
    BY <1>10 DEF WaitMR, PCs
  <2> QED
    BY <1>1, <1>2, <1>6, <1>7, <1>10, <2>1 DEF WaitMR
<1>11. CASE WriteCert \/ PatchHash \/ UpdateStatus \/ DeleteCert \/ RemoveHash \/ DeleteMR
  <2>1. pc # "idle" /\ \E step \in PCs \ {"idle"} : GoTo(step)
    BY <1>11 DEF WriteCert, PatchHash, UpdateStatus, DeleteCert, RemoveHash, DeleteMR, PCs
  <2> QED
    BY <1>1, <1>7, <2>1
<1>12. CASE CallFails
  BY <1>2, <1>6, <1>12 DEF CallFails
<1>13. CASE Restart
  <2>1. /\ pc' = "idle" /\ ext' = ext
        /\ queue' = (ext.phase # "none" /\ (ext.op # "none" \/ ext.state # "Succeeded"
                                            \/ ext.phase = "deleting"))
    BY <1>13 DEF Restart
  <2> QED
    BY <2>1
<1>14. CASE MapGarden
  <2>1. UNCHANGED <<ext, task, pc>> /\ (queue => queue')
    BY <1>14 DEF MapGarden, workerVars
  <2> QED
    BY <1>1, <2>1
<1>15. CASE SyncHash \/ ReleaseCert \/ GRMRelease
  BY <1>1, <1>15 DEF SyncHash, ReleaseCert, GRMRelease, extVars, workerVars
<1>16. CASE CreateGarden \/ EditGarden \/ DeleteGarden \/ StartGardenReconciliation \/ GardenReconciled
  BY <1>1, <1>16 DEF CreateGarden, EditGarden, DeleteGarden, StartGardenReconciliation,
                     GardenReconciled, extVars, workerVars
<1>17. CASE CreateExtension \/ EditExtension \/ Annotate
  BY <1>2, <1>17 DEF CreateExtension, EditExtension, Annotate, TypeOK, Extensions
<1>18. CASE DeleteExtension
  BY <1>2, <1>18 DEF DeleteExtension, Removed, TypeOK, Extensions
<1>19. CASE UNCHANGED vars
  BY <1>1, <1>19 DEF vars, extVars, workerVars
<1> QED
  BY <1>3, <1>4, <1>5, <1>8, <1>9, <1>10, <1>11, <1>12, <1>13, <1>14, <1>15, <1>16, <1>17, <1>18, <1>19
     DEF Next, Worker, Reconcile, Delete, Operator

-----------------------------------------------------------------------------
(* The theorems.                                                            *)

\* The invariant holds at first.
LEMMA InitInvariant == Init => IInv
BY InitTypes, InitSafe DEF IInv, Finite

\* The invariant is inductive.
LEMMA StepInvariant == IInv /\ [Next]_vars => IInv'
BY StepTypes, StepFinalizerHeld, StepAttempt, StepTeardown, StepGardenThere, StepHashMatches,
   StepPending
   DEF IInv, Finite, Safe

\* In every reachable state of the garden class the invariant holds.
THEOREM InvariantHolds == Spec => []IInv
BY InitInvariant, StepInvariant, PTL DEF Spec

\* Every reachable state is well typed.
THEOREM TypeCorrect == Spec => []TypeOK
<1>1. IInv => TypeOK
  BY DEF IInv
<1> QED
  BY <1>1, InvariantHolds, PTL

\* Success means that the annotation has the hash of the domains in the
\* Certificate, whatever happened to the Gardens meanwhile.
THEOREM HashVouches == Spec => []SettledCertMatchesHash
<1>1. IInv => SettledCertMatchesHash
  BY DEF IInv, Safe, HashMatches, Match, InUse, SettledCertMatchesHash
<1> QED
  BY <1>1, InvariantHolds, PTL

\* No controller is withdrawn while its Certificate is in use.
THEOREM ControllerLast == Spec => []CertRemovedBeforeController
<1>1. IInv => CertRemovedBeforeController
  BY DEF IInv, Safe, Teardown, InUse, CertRemovedBeforeController
<1> QED
  BY <1>1, InvariantHolds, PTL

\* An Extension that has gone has taken controller and Certificate along.
THEOREM ExtensionLast == Spec => []NothingLeft
<1>1. IInv => NothingLeft
  BY DEF IInv, Safe, FinalizerHeld, InUse, NothingLeft
<1> QED
  BY <1>1, InvariantHolds, PTL

\* No request is lost, for any Gardens and configs and any number of edits, failed
\* calls and restarts.
THEOREM NoRequestLost == Spec => []NothingForgotten
<1>1. IInv => NothingForgotten
  BY DEF IInv, Safe, Pending
<1> QED
  BY <1>1, InvariantHolds, PTL

\* The mapper is not deceived: the hash of a Garden with other domains than the
\* Certificate's is another one than the hash that vouches for it.
LEMMA MapperNotices ==
  ASSUME IInv, MapGarden,
         pc = "idle", ext.phase = "present", ext.state = "Succeeded",
         ext.config = "generate", hashSeen = hash,
         cert.st = "present", cert.names # DNSNames(Head(events))
  PROVE  queue'
<1>1. PICK h \in hash : cert.names = Entries(h)
  BY DEF IInv, Safe, HashMatches, Match, InUse
<1>2. Head(events) \in GardenSpecs
  BY DEF IInv, TypeOK, MapGarden
<1>3. hash # {Hash(Head(events))}
  BY <1>1, <1>2, HashEntries
<1> QED
  BY <1>3 DEF MapGarden

\* No outdated Certificate escapes the watch, for any Gardens and any history
\* of changes, failed calls and restarts.
THEOREM WatchNotices == Spec => OutdatedCertNoticed
<1>1. IInv => [MapGarden
               /\ pc = "idle" /\ ext.phase = "present" /\ ext.state = "Succeeded"
               /\ ext.config = "generate" /\ hashSeen = hash
               /\ cert.st = "present" /\ cert.names # DNSNames(Head(events))
               => queue']_vars
  BY MapperNotices
<1> QED
  BY <1>1, InvariantHolds, PTL DEF OutdatedCertNoticed

-----------------------------------------------------------------------------
(* The refinement of ManagedCertificate.                                    *)

Reads == {Content(g) : g \in picked}
Sources == {Content(g) : g \in gardens}
Abstract == <<Sources, Reads, Held, {}, mr>>

\* Nothing is read, written or deployed at first.
LEMMA RefinesInit == Init => Managed!Init
BY DEF Init, Managed!Init, Held, NoCert

\* A step that touches neither what was read nor the objects.
LEMMA Elsewhere ==
  ASSUME picked' = picked, cert' = cert, mr' = mr
  PROVE  Managed!Next
BY DEF Held, Managed!Next, Managed!ChangeSource

\* An attempt that ends forgets what it has read.
LEMMA Forgets ==
  ASSUME gardens' = gardens, picked' = {}, cert' = cert, mr' = mr
  PROVE  Managed!Next
BY DEF Held, Managed!Next, Managed!Forget

\* The Garden that is read is the only one.
LEMMA RefinesListGardens ==
  ASSUME IInv, ListGardens PROVE Managed!Next
<1>1. UNCHANGED <<gardens, cert, mr>>
  BY DEF ListGardens, gardenVars, objVars
<1>2. CASE UNCHANGED picked
  BY <1>1, <1>2, Elsewhere
<1>3. CASE picked' = {}
  BY <1>1, <1>3, Forgets
<1>4. ASSUME NEW g \in gardens, gardens = {g}, picked' = {g} PROVE Managed!Next
  <2>1. Sources = {Content(g)} /\ Reads' = {Content(g)}
    BY <1>4 DEF Sources, Reads, Content, DNSNames, Entries
  <2>2. UNCHANGED <<Sources, Held, mr>>
    BY <1>1 DEF Sources, Held, Content, DNSNames, Entries
  <2> QED
    BY <2>1, <2>2 DEF Sources, Reads, Managed!Next, Managed!Read
<1> QED
  BY <1>2, <1>3, <1>4 DEF ListGardens, Fail

\* The Certificate gets the names that were read; while it is under deletion
\* this brings it not into use.
LEMMA RefinesWriteCert ==
  ASSUME IInv, WriteCert PROVE Managed!Next
<1>1. UNCHANGED <<gardens, picked, mr>> /\ mr = "present"
  BY DEF WriteCert, gardenVars, IInv, Safe, Teardown
<1>2. PICK g \in picked :
        /\ cert'.st = IF cert.st = "absent" THEN "present" ELSE cert.st
        /\ cert'.names = DNSNames(g)
  BY DEF WriteCert
<1>3. CASE cert.st = "deleting"
  <2>1. Held = {} /\ Held' = {}
    BY <1>2, <1>3 DEF Held
  <2> QED
    BY <1>1, <2>1 DEF Managed!Next, Managed!ChangeSource
<1>4. CASE cert.st # "deleting"
  <2>1. cert'.st = "present"
    BY <1>2, <1>4 DEF IInv, TypeOK, Certs
  <2>2. Held' = {Content(g).names}
    BY <1>2, <2>1 DEF Held, Content
  <2>3. Content(g) \in Reads /\ Content(g).needs = {}
    BY DEF Reads, Content
  <2>4. UNCHANGED <<Sources, Reads>>
    BY <1>1 DEF Sources, Reads
  <2> QED
    BY <1>1, <2>2, <2>3, <2>4 DEF Sources, Reads, Managed!Next, Managed!Write
<1> QED
  BY <1>3, <1>4

\* Deletion, with or without finalizers, takes the Certificate out of use.
LEMMA RefinesDeleteCert ==
  ASSUME IInv, DeleteCert PROVE Managed!Next
<1>1. Held' = {}
  BY DEF DeleteCert, NoCert, Held, IInv, TypeOK, Certs
<1>2. UNCHANGED <<gardens, picked, mr>>
  BY DEF DeleteCert, gardenVars
<1> QED
  BY <1>1, <1>2 DEF Managed!Next, Managed!Withdraw

\* From a state of the invariant every step is a step of ManagedCertificate, or
\* changes nothing of it.
LEMMA RefinesStep == IInv /\ [Next]_vars => [Managed!Next]_Abstract
<1> SUFFICES ASSUME IInv, Next PROVE Managed!Next
  BY DEF vars, gardenVars, objVars, workerVars, Abstract, Sources, Reads, Held, Content, DNSNames, Entries
<1>1. CASE ListGardens
  BY <1>1, RefinesListGardens
<1>2. CASE WriteCert
  BY <1>2, RefinesWriteCert
<1>3. CASE DeleteCert
  BY <1>3, RefinesDeleteCert
<1>4. CASE DeployMR
  <2>1. UNCHANGED <<gardens, cert>>
    BY <1>4 DEF DeployMR, gardenVars
  <2>2. CASE task = "invalid"
    <3>1. picked' = {} /\ mr' = mr
      BY <1>4, <2>2 DEF DeployMR, Fail
    <3> QED
      BY <2>1, <3>1, Forgets
  <2>3. CASE task # "invalid"
    <3>1. picked' = picked /\ mr' = IF mr = "absent" THEN "present" ELSE mr
      BY <1>4, <2>3 DEF DeployMR
    <3>2. CASE mr = "absent"
      BY <2>1, <3>1, <3>2 DEF Held, Managed!Next, Managed!Deploy
    <3>3. CASE mr # "absent"
      BY <2>1, <3>1, <3>3, Elsewhere
    <3> QED
      BY <3>2, <3>3
  <2> QED
    BY <2>2, <2>3
<1>5. CASE DeleteMR
  <2>1. UNCHANGED <<gardens, picked, cert>> /\ mr' = IF mr = "absent" THEN mr ELSE "deleting"
    BY <1>5 DEF DeleteMR, gardenVars
  <2>2. Held = {}
    BY <1>5 DEF DeleteMR, Held, IInv, Safe, Teardown, InUse
  <2>3. CASE mr = "present"
    BY <2>1, <2>2, <2>3 DEF Held, Managed!Next, Managed!Leave
  <2>4. CASE mr # "present"
    BY <2>1, <2>4, Elsewhere DEF IInv, TypeOK
  <2> QED
    BY <2>3, <2>4
<1>6. CASE WaitMR
  BY <1>6, Elsewhere, Forgets DEF WaitMR, Fail, gardenVars, objVars
<1>7. CASE Succeed
  BY <1>7, Forgets DEF Succeed, gardenVars, objVars
<1>8. CASE CallFails
  BY <1>8, Forgets DEF CallFails, Fail, gardenVars, objVars
<1>9. CASE Restart
  BY <1>9, Forgets DEF Restart, objVars
<1>10. CASE PatchHash \/ UpdateStatus \/ RemoveHash \/ Dequeue \/ DequeueNothing
  BY <1>10, Elsewhere DEF PatchHash, UpdateStatus, RemoveHash, Dequeue, DequeueNothing,
                          objVars, workerVars
<1>11. CASE MapGarden \/ SyncHash \/ Operator
  BY <1>11, Elsewhere DEF MapGarden, SyncHash, Operator, CreateGarden, EditGarden, DeleteGarden,
                          StartGardenReconciliation, GardenReconciled, CreateExtension,
                          EditExtension, Annotate, DeleteExtension, objVars, workerVars
<1>12. CASE ReleaseCert
  <2>1. Held = {} /\ Held' = {}
    BY <1>12 DEF ReleaseCert, NoCert, Held
  <2> QED
    BY <1>12, <2>1 DEF ReleaseCert, workerVars, Managed!Next, Managed!ChangeSource
<1>13. CASE GRMRelease
  BY <1>13 DEF GRMRelease, gardenVars, workerVars, Held, Managed!Next, Managed!Leave
<1> QED
  BY <1>1, <1>2, <1>3, <1>4, <1>5, <1>6, <1>7, <1>8, <1>9, <1>10, <1>11, <1>12, <1>13
     DEF Next, Worker, Reconcile, Delete

\* The Certificate in use has the names of one state of the only Garden, is
\* written while its controller is there and goes before it, for any Gardens
\* and any number of changes, failed calls and restarts.
THEOREM CertificateRefinement == Spec => ImplementsManagedCertificate
<1>1. Init => Managed!Init
  BY RefinesInit
<1>2. IInv /\ [Next]_vars => [Managed!Next]_<<Sources, Reads, Held, {}, mr>>
  BY RefinesStep DEF Abstract
<1> QED
  BY <1>1, <1>2, InvariantHolds, PTL DEF Spec, ImplementsManagedCertificate, Managed!Spec, Sources, Reads
=============================================================================
