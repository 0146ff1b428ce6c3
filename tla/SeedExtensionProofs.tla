------------------------- MODULE SeedExtensionProofs -------------------------
(***************************************************************************)
(* Proofs about SeedExtension: the invariants of Certificate and           *)
(* credentials hold for every set of Seeds and configs, and for any number *)
(* of edits, failed calls and restarts.                                    *)
(***************************************************************************)
EXTENDS SeedExtension, TLAPS

\* What the worker knows at its steps: an attempt is not called a success
\* before it ends, tasks and steps go together, a Seed that was read has a
\* provider, and its credentials are written before the Certificate is.
Attempt ==
  /\ pc # "idle" => ext.state # "Succeeded"
  /\ pc \in {"deleteMR", "waitMR"} => task = "delete"

SeedPicked ==
  pc \in {"getCredentials", "writeSecret", "writeCert"} =>
    \E s \in SeedSpecs : s.provider # NoProvider /\ picked = {s}

SecretFirst == pc = "writeCert" => secret = {s.provider : s \in picked}
CertFirst == pc = "deleteSecret" => cert.st # "present"

Match == cert.st = "present" => secret = {cert.provider}

\* The two match at the end of an attempt, and from then on.
MatchAtEnd ==
  /\ pc \in {"updateStatus", "succeed"} /\ task # "delete" => Match
  /\ pc = "idle" /\ ext.state = "Succeeded" => Match

\* The finalizer is there from the first step of the worker until the MR has
\* gone.
FinalizerHeld ==
  /\ ext.fin => ext.phase # "none"
  /\ ext.phase = "deleting" => ext.fin
  /\ pc # "idle" \/ mr # "absent" => ext.fin

\* Only an Extension under deletion is deleted; its reconciliation may go on
\* when its deletion starts.
Tasks ==
  /\ pc # "idle" /\ task = "delete" => ext.phase = "deleting"
  /\ pc \in {"deployMR", "gardenClient", "getSeed", "getCredentials", "writeSecret", "writeCert",
             "deleteCert", "deleteSecret", "updateStatus"} => task # "delete"

\* The controller is there while the Certificate is prepared, and goes before
\* the Extension.
ControllerOrder ==
  /\ pc \in {"gardenClient", "getSeed", "getCredentials", "writeSecret", "writeCert"} => mr = "present"
  /\ mr = "deleting" => ext.phase = "deleting" /\ (pc # "idle" => task = "delete")
  /\ pc = "succeed" /\ task = "delete" => mr = "absent"

Order == FinalizerHeld /\ Tasks /\ ControllerOrder

\* What overtakes the worker is in the queue: an annotation, and a deletion that
\* meets a reconciliation.
Pending ==
  /\ ext.op # "none" => queue /\ ext.phase # "none"
  /\ pc # "idle" /\ task # "delete" /\ ext.phase = "deleting" => queue
  /\ NothingForgotten

IInv == /\ TypeOK /\ Attempt /\ SeedPicked /\ SecretFirst /\ CertFirst /\ MatchAtEnd
        /\ CertHasCredentials /\ CertForOneDomain /\ Order /\ Pending

-----------------------------------------------------------------------------
(* Every step preserves the types.                                          *)

\* The initial state is well typed.
LEMMA InitTypes == Init => TypeOK
<1> SUFFICES ASSUME Init PROVE TypeOK
  OBVIOUS
<1>1. ext \in Extensions
  BY DEF Init, Extensions
<1>2. cert \in Certs
  BY DEF Init, Certs, NoCert
<1>3. changes \in 0..MaxChanges /\ errors \in 0..MaxErrors /\ crashes \in 0..MaxCrashes
  BY ConstantsAssumption DEF Init
<1> QED
  BY <1>1, <1>2, <1>3 DEF Init, TypeOK, PCs

\* Every step preserves the types; only a Seed with a provider is written from.
LEMMA StepTypes == TypeOK /\ SeedPicked /\ [Next]_vars => TypeOK'
<1> SUFFICES ASSUME TypeOK, SeedPicked, [Next]_vars PROVE TypeOK'
  OBVIOUS
<1> USE ConstantsAssumption DEF TypeOK, Extensions, PCs
<1>1. CASE Dequeue
  BY <1>1 DEF Dequeue, extVars, certVars, workerVars, budget
<1>2. CASE DequeueNothing
  BY <1>2 DEF DequeueNothing, extVars, certVars, workerVars, budget
<1>3. CASE Succeed
  BY <1>3 DEF Succeed, Removed, extVars, certVars, workerVars, budget
<1>4. CASE DeployMR
  BY <1>4 DEF DeployMR, Fail, GoTo, extVars, certVars, workerVars, budget
<1>5. CASE GetGardenClient
  BY <1>5 DEF GetGardenClient, GoTo, extVars, certVars, workerVars, budget
<1>6. CASE GetSeed
  BY <1>6 DEF GetSeed, Panic, GoTo, extVars, certVars, workerVars, budget
<1>7. CASE GetCredentials
  BY <1>7 DEF GetCredentials, GoTo, extVars, certVars, workerVars, budget
<1>8. CASE WriteSecret
  BY <1>8 DEF WriteSecret, GoTo, SeedPicked, Providers, extVars, certVars, workerVars, budget
<1>9. CASE WriteCert
  BY <1>9 DEF WriteCert, GoTo, Domain, Certs, NoCert, Domains, SeedPicked, Providers, extVars, certVars, workerVars, budget
<1>10. CASE DeleteCert
  BY <1>10 DEF DeleteCert, GoTo, NoCert, Certs, Domains, extVars, certVars, workerVars, budget
<1>11. CASE DeleteSecret
  BY <1>11 DEF DeleteSecret, GoTo, extVars, certVars, workerVars, budget
<1>12. CASE UpdateStatus
  BY <1>12 DEF UpdateStatus, GoTo, extVars, certVars, workerVars, budget
<1>13. CASE DeleteMR
  BY <1>13 DEF DeleteMR, GoTo, extVars, certVars, workerVars, budget
<1>14. CASE WaitMR
  BY <1>14 DEF WaitMR, Fail, GoTo, extVars, certVars, workerVars, budget
<1>15. CASE CallFails
  BY <1>15 DEF CallFails, Fail, extVars, certVars, workerVars, budget
<1>16. CASE Restart
  <2>1. queue' \in BOOLEAN
    BY <1>16, Zenon DEF Restart
  <2>2. crashes' \in 0..MaxCrashes
    BY <1>16 DEF Restart
  <2>3. /\ gardenClient' = FALSE /\ pc' = "idle" /\ picked' = {}
        /\ UNCHANGED <<seed, ext, certVars, mr, task, changes, errors>>
    BY <1>16 DEF Restart
  <2> QED
    BY <2>1, <2>2, <2>3 DEF certVars
<1>17. CASE EditSeed
  BY <1>17 DEF EditSeed, Change, extVars, certVars, workerVars, budget
<1>18. CASE CreateExtension
  BY <1>18 DEF CreateExtension, extVars, certVars, workerVars, budget
<1>19. CASE EditExtension
  <2>1. ext' \in Extensions
    BY <1>19 DEF EditExtension
  <2>2. changes' \in 0..MaxChanges
    BY <1>19 DEF EditExtension, Change
  <2>3. UNCHANGED <<seed, certVars, mr, gardenClient, workerVars, errors, crashes>> /\ queue' = TRUE
    BY <1>19 DEF EditExtension
  <2> QED
    BY <2>1, <2>2, <2>3 DEF certVars, workerVars
<1>20. CASE Annotate
  BY <1>20 DEF Annotate, extVars, certVars, workerVars, budget
<1>21. CASE DeleteExtension
  <2>1. ext' \in Extensions
    BY <1>21 DEF DeleteExtension, Removed
  <2>2. changes' \in 0..MaxChanges
    BY <1>21 DEF DeleteExtension, Change
  <2> QED
    BY <1>21, <2>1, <2>2 DEF DeleteExtension, certVars, workerVars
<1>22. CASE ReleaseCert
  BY <1>22 DEF ReleaseCert, NoCert, Certs, Domains, extVars, certVars, workerVars, budget
<1>23. CASE GRMRelease
  BY <1>23 DEF GRMRelease, extVars, certVars, workerVars, budget
<1>24. CASE UNCHANGED vars
  BY <1>24 DEF vars, extVars, certVars, workerVars, budget
<1> QED
  BY <1>1, <1>2, <1>3, <1>4, <1>5, <1>6, <1>7, <1>8, <1>9, <1>10, <1>11, <1>12, <1>13, <1>14, <1>15, <1>16, <1>17, <1>18, <1>19, <1>20, <1>21, <1>22, <1>23, <1>24
     DEF Next, Worker, Reconcile, Delete, Gardenlet

-----------------------------------------------------------------------------
(* Every step preserves the rest of the invariant.  Only the worker writes  *)
(* Certificate and secret; a Certificate goes by itself at most.            *)

Rest == Attempt /\ SeedPicked /\ SecretFirst /\ CertFirst /\ MatchAtEnd
        /\ CertHasCredentials /\ CertForOneDomain

\* Every step preserves what relates worker, Certificate and credentials.
LEMMA StepRest == TypeOK /\ Rest /\ [Next]_vars => Rest'
<1> SUFFICES ASSUME TypeOK, Rest, [Next]_vars PROVE Rest'
  OBVIOUS
<1> USE DEF Rest, Attempt, SeedPicked, SecretFirst, CertFirst, MatchAtEnd, Match,
            CertHasCredentials, CertForOneDomain
<1>1. CASE DequeueNothing
  BY <1>1 DEF DequeueNothing, extVars, certVars, workerVars, budget, TypeOK, Extensions, Certs
<1>2. CASE Dequeue
  BY <1>2 DEF Dequeue, extVars, certVars, workerVars, budget, TypeOK, Extensions, Certs
<1>3. CASE Succeed
  BY <1>3 DEF Succeed, Removed, extVars, certVars, workerVars, budget, TypeOK, Extensions, Certs
<1>4. CASE DeployMR
  BY <1>4 DEF DeployMR, Fail, GoTo, extVars, certVars, workerVars, budget, TypeOK, Extensions, Certs
<1>5. CASE GetGardenClient
  BY <1>5 DEF GetGardenClient, GoTo, extVars, certVars, workerVars, budget, TypeOK, Extensions, Certs
<1>6. CASE GetSeed
  BY <1>6 DEF GetSeed, Panic, GoTo, extVars, certVars, workerVars, budget, TypeOK, Extensions, Certs
<1>7. CASE GetCredentials
  BY <1>7 DEF GetCredentials, GoTo, extVars, certVars, workerVars, budget, TypeOK, Extensions, Certs
<1>8. CASE WriteSecret
  BY <1>8 DEF WriteSecret, GoTo, extVars, certVars, workerVars, budget, TypeOK, Extensions, Certs
<1>9. CASE WriteCert
  BY <1>9 DEF WriteCert, GoTo, Domain, extVars, certVars, workerVars, budget, TypeOK, Extensions, Certs
<1>10. CASE DeleteCert
  BY <1>10 DEF DeleteCert, GoTo, NoCert, extVars, certVars, workerVars, budget, TypeOK, Extensions, Certs
<1>11. CASE DeleteSecret
  BY <1>11 DEF DeleteSecret, GoTo, extVars, certVars, workerVars, budget, TypeOK, Extensions, Certs
<1>12. CASE UpdateStatus
  BY <1>12 DEF UpdateStatus, GoTo, extVars, certVars, workerVars, budget, TypeOK, Extensions, Certs
<1>13. CASE DeleteMR
  BY <1>13 DEF DeleteMR, GoTo, extVars, certVars, workerVars, budget, TypeOK, Extensions, Certs
<1>14. CASE WaitMR
  BY <1>14 DEF WaitMR, Fail, GoTo, extVars, certVars, workerVars, budget, TypeOK, Extensions, Certs
<1>15. CASE CallFails
  BY <1>15 DEF CallFails, Fail, extVars, certVars, workerVars, budget, TypeOK, Extensions, Certs
<1>16. CASE Restart
  BY <1>16 DEF Restart, extVars, certVars, workerVars, budget, TypeOK, Extensions, Certs
<1>17. CASE EditSeed
  BY <1>17 DEF EditSeed, Change, extVars, certVars, workerVars, budget, TypeOK, Extensions, Certs
<1>18. CASE CreateExtension
  BY <1>18 DEF CreateExtension, extVars, certVars, workerVars, budget, TypeOK, Extensions, Certs
<1>19. CASE EditExtension
  BY <1>19 DEF EditExtension, Change, extVars, certVars, workerVars, budget, TypeOK, Extensions, Certs
<1>20. CASE Annotate
  BY <1>20 DEF Annotate, extVars, certVars, workerVars, budget, TypeOK, Extensions, Certs
<1>21. CASE DeleteExtension
  BY <1>21 DEF DeleteExtension, Change, Removed, extVars, certVars, workerVars, budget, TypeOK, Extensions, Certs
<1>22. CASE ReleaseCert
  BY <1>22 DEF ReleaseCert, NoCert, extVars, certVars, workerVars, budget, TypeOK, Extensions, Certs
<1>23. CASE GRMRelease
  BY <1>23 DEF GRMRelease, extVars, certVars, workerVars, budget, TypeOK, Extensions, Certs
<1>24. CASE UNCHANGED vars
  BY <1>24 DEF vars, extVars, certVars, workerVars, budget
<1> QED
  BY <1>1, <1>2, <1>3, <1>4, <1>5, <1>6, <1>7, <1>8, <1>9, <1>10, <1>11, <1>12, <1>13, <1>14, <1>15, <1>16, <1>17, <1>18, <1>19, <1>20, <1>21, <1>22, <1>23, <1>24
     DEF Next, Worker, Reconcile, Delete, Gardenlet

\* Every step preserves the order of controller and Extension.
LEMMA StepOrder == TypeOK /\ Attempt /\ Order /\ [Next]_vars => Order'
<1> SUFFICES ASSUME TypeOK, Attempt, Order, [Next]_vars PROVE Order'
  OBVIOUS
<1> USE DEF Attempt, Order, FinalizerHeld, Tasks, ControllerOrder
<1>1. CASE DequeueNothing
  BY <1>1 DEF DequeueNothing, extVars, certVars, workerVars, budget, TypeOK, Extensions, Certs
<1>2. CASE Dequeue
  <2>1. ext'.phase = ext.phase /\ ext.phase # "none" /\ ext'.fin = TRUE /\ mr' = mr
    BY <1>2 DEF Dequeue, TypeOK, Extensions
  <2>2. CASE ext.phase = "deleting"
    BY <1>2, <2>1, <2>2 DEF Dequeue
  <2>3. CASE ext.phase # "deleting"
    <3>1. pc' = "deployMR" /\ task' = ext.config /\ mr # "deleting"
      BY <1>2, <2>3 DEF Dequeue
    <3>2. task' # "delete"
      BY <3>1, ConstantsAssumption DEF TypeOK, Extensions
    <3> QED
      BY <2>1, <3>1, <3>2
  <2> QED
    BY <2>2, <2>3
<1>3. CASE Succeed
  BY <1>3 DEF Succeed, Removed, extVars, certVars, workerVars, budget, TypeOK, Extensions, Certs
<1>4. CASE DeployMR
  BY <1>4 DEF DeployMR, Fail, GoTo, extVars, certVars, workerVars, budget, TypeOK, Extensions, Certs
<1>5. CASE GetGardenClient
  BY <1>5 DEF GetGardenClient, GoTo, extVars, certVars, workerVars, budget, TypeOK, Extensions, Certs
<1>6. CASE GetSeed
  BY <1>6 DEF GetSeed, Panic, GoTo, extVars, certVars, workerVars, budget, TypeOK, Extensions, Certs
<1>7. CASE GetCredentials
  BY <1>7 DEF GetCredentials, GoTo, extVars, certVars, workerVars, budget, TypeOK, Extensions, Certs
<1>8. CASE WriteSecret
  BY <1>8 DEF WriteSecret, GoTo, extVars, certVars, workerVars, budget, TypeOK, Extensions, Certs
<1>9. CASE WriteCert
  BY <1>9 DEF WriteCert, GoTo, Domain, extVars, certVars, workerVars, budget, TypeOK, Extensions, Certs
<1>10. CASE DeleteCert
  BY <1>10 DEF DeleteCert, GoTo, NoCert, extVars, certVars, workerVars, budget, TypeOK, Extensions, Certs
<1>11. CASE DeleteSecret
  BY <1>11 DEF DeleteSecret, GoTo, extVars, certVars, workerVars, budget, TypeOK, Extensions, Certs
<1>12. CASE UpdateStatus
  BY <1>12 DEF UpdateStatus, GoTo, extVars, certVars, workerVars, budget, TypeOK, Extensions, Certs
<1>13. CASE DeleteMR
  BY <1>13 DEF DeleteMR, GoTo, extVars, certVars, workerVars, budget, TypeOK, Extensions, Certs
<1>14. CASE WaitMR
  BY <1>14 DEF WaitMR, Fail, GoTo, extVars, certVars, workerVars, budget, TypeOK, Extensions, Certs
<1>15. CASE CallFails
  BY <1>15 DEF CallFails, Fail, extVars, certVars, workerVars, budget, TypeOK, Extensions, Certs
<1>16. CASE Restart
  BY <1>16 DEF Restart, extVars, certVars, workerVars, budget, TypeOK, Extensions, Certs
<1>17. CASE EditSeed
  BY <1>17 DEF EditSeed, Change, extVars, certVars, workerVars, budget, TypeOK, Extensions, Certs
<1>18. CASE CreateExtension
  BY <1>18 DEF CreateExtension, extVars, certVars, workerVars, budget, TypeOK, Extensions, Certs
<1>19. CASE EditExtension
  BY <1>19 DEF EditExtension, Change, extVars, certVars, workerVars, budget, TypeOK, Extensions, Certs
<1>20. CASE Annotate
  BY <1>20 DEF Annotate, extVars, certVars, workerVars, budget, TypeOK, Extensions, Certs
<1>21. CASE DeleteExtension
  BY <1>21 DEF DeleteExtension, Change, Removed, extVars, certVars, workerVars, budget, TypeOK, Extensions, Certs
<1>22. CASE ReleaseCert
  BY <1>22 DEF ReleaseCert, NoCert, extVars, certVars, workerVars, budget, TypeOK, Extensions, Certs
<1>23. CASE GRMRelease
  BY <1>23 DEF GRMRelease, extVars, certVars, workerVars, budget, TypeOK, Extensions, Certs
<1>24. CASE UNCHANGED vars
  BY <1>24 DEF vars, extVars, certVars, workerVars, budget
<1> QED
  BY <1>1, <1>2, <1>3, <1>4, <1>5, <1>6, <1>7, <1>8, <1>9, <1>10, <1>11, <1>12, <1>13, <1>14, <1>15, <1>16, <1>17, <1>18, <1>19, <1>20, <1>21, <1>22, <1>23, <1>24
     DEF Next, Worker, Reconcile, Delete, Gardenlet

\* No step takes away a request that is still needed.
LEMMA StepPending == TypeOK /\ Tasks /\ Pending /\ [Next]_vars => Pending'
<1> SUFFICES ASSUME TypeOK, Tasks, Pending, [Next]_vars PROVE Pending'
  OBVIOUS
<1> USE DEF Pending, NothingForgotten, Tasks
\* A step that leaves Extension and task alone, takes no request away and does
\* not end the attempt.
<1> DEFINE Keeps == UNCHANGED <<ext, task>> /\ (queue => queue') /\ (pc' = "idle" <=> pc = "idle")
\* A step that puts a request in the queue.
<1> DEFINE Requests == queue' /\ (ext'.op # "none" => ext'.phase # "none")
<1>1. CASE Keeps
  BY <1>1
<1>2. CASE Requests
  BY <1>2
<1>3. CASE Dequeue
  <2>1. /\ ext'.phase = ext.phase /\ ext'.op = "none" /\ pc' # "idle"
        /\ ext.phase = "deleting" => task' = "delete"
    BY <1>3 DEF Dequeue, TypeOK, Extensions
  <2> QED
    BY <2>1
<1>4. CASE DequeueNothing
  BY <1>4 DEF DequeueNothing, workerVars
<1>5. CASE Succeed
  <2>1. pc = "succeed" /\ pc' = "idle" /\ queue' = queue
    BY <1>5 DEF Succeed
  <2>2. CASE task = "delete"
    BY <1>5, <2>1, <2>2 DEF Succeed, Removed, TypeOK, Extensions
  <2>3. CASE task # "delete"
    <3>1. ext'.phase = ext.phase /\ ext'.op = ext.op /\ ext'.state = "Succeeded"
      BY <1>5, <2>3 DEF Succeed, TypeOK, Extensions
    <3> QED
      BY <2>1, <2>3, <3>1
  <2> QED
    BY <2>2, <2>3
<1>6. ASSUME Fail PROVE Requests
  <2>1. ext'.phase = ext.phase /\ ext'.op = ext.op /\ queue'
    BY <1>6 DEF Fail, TypeOK, Extensions
  <2> QED
    BY <2>1
<1>7. ASSUME NEW step \in PCs \ {"idle"}, pc # "idle", GoTo(step) PROVE Keeps
  BY <1>7 DEF GoTo, extVars
<1>8. CASE DeployMR
  <2>1. Fail \/ \E step \in PCs \ {"idle"} : GoTo(step)
    BY <1>8 DEF DeployMR, PCs
  <2> QED
    BY <1>1, <1>2, <1>6, <1>7, <1>8, <2>1 DEF DeployMR
<1>9. CASE GetSeed
  <2>1. Panic \/ \E step \in PCs \ {"idle"} : GoTo(step)
    BY <1>9 DEF GetSeed, PCs
  <2>2. ASSUME Panic PROVE Requests
    BY <2>2 DEF Panic
  <2> QED
    BY <1>1, <1>2, <1>7, <1>9, <2>1, <2>2 DEF GetSeed
<1>10. CASE WaitMR
  <2>1. Fail \/ \E step \in PCs \ {"idle"} : GoTo(step)
    BY <1>10 DEF WaitMR, PCs
  <2> QED
    BY <1>1, <1>2, <1>6, <1>7, <1>10, <2>1 DEF WaitMR
<1>11. CASE \/ GetGardenClient \/ GetCredentials \/ WriteSecret \/ WriteCert \/ DeleteCert
              \/ DeleteSecret \/ UpdateStatus \/ DeleteMR
  <2>1. pc # "idle" /\ \E step \in PCs \ {"idle"} : GoTo(step)
    BY <1>11 DEF GetGardenClient, GetCredentials, WriteSecret, WriteCert, DeleteCert,
                 DeleteSecret, UpdateStatus, DeleteMR, PCs
  <2> QED
    BY <1>1, <1>7, <2>1
<1>12. CASE CallFails
  BY <1>2, <1>6, <1>12 DEF CallFails
<1>13. CASE Restart
  <2>1. /\ pc' = "idle" /\ ext' = ext
        /\ queue' = (ext.phase # "none" /\ (ext.op # "none" \/ ext.state # "Succeeded"
                                            \/ ext.phase = "deleting"))
    BY <1>13 DEF Restart
  <2> QED
    BY <2>1
<1>14. CASE EditSeed \/ ReleaseCert \/ GRMRelease
  BY <1>1, <1>14 DEF EditSeed, ReleaseCert, GRMRelease, extVars, workerVars
<1>15. CASE CreateExtension \/ EditExtension \/ Annotate
  BY <1>2, <1>15 DEF CreateExtension, EditExtension, Annotate, TypeOK, Extensions
<1>16. CASE DeleteExtension
  BY <1>2, <1>16 DEF DeleteExtension, Removed, TypeOK, Extensions
<1>17. CASE UNCHANGED vars
  BY <1>1, <1>17 DEF vars, extVars, workerVars
<1> QED
  BY <1>3, <1>4, <1>5, <1>8, <1>9, <1>10, <1>11, <1>12, <1>13, <1>14, <1>15, <1>16, <1>17
     DEF Next, Worker, Reconcile, Delete, Gardenlet

-----------------------------------------------------------------------------
(* The theorems.                                                            *)

\* The invariant holds at first.
LEMMA InitInvariant == Init => IInv
<1> SUFFICES ASSUME Init PROVE IInv
  OBVIOUS
<1>1. /\ ext.phase = "none" /\ ext.fin = FALSE /\ ext.state = "none"
      /\ pc = "idle" /\ mr = "absent" /\ cert.st = "absent"
  BY DEF Init, NoCert
<1>2. Order
  BY <1>1 DEF Order, FinalizerHeld, Tasks, ControllerOrder
<1>3. Pending
  BY <1>1 DEF Init, Pending, NothingForgotten
<1> QED
  BY <1>1, <1>2, <1>3, InitTypes DEF IInv, Attempt, SeedPicked, SecretFirst, CertFirst, MatchAtEnd,
                               Match, CertHasCredentials, CertForOneDomain

\* The invariant is inductive.
LEMMA StepInvariant == IInv /\ [Next]_vars => IInv'
BY StepTypes, StepRest, StepOrder, StepPending DEF IInv, Rest, Order

\* In every reachable state of the seed class the invariant holds.
THEOREM InvariantHolds == Spec => []IInv
BY InitInvariant, StepInvariant, PTL DEF Spec

\* Every reachable state is well typed.
THEOREM TypeCorrect == Spec => []TypeOK
<1>1. IInv => TypeOK
  BY DEF IInv
<1> QED
  BY <1>1, InvariantHolds, PTL

\* A Certificate in use always finds credentials, for any sequence of
\* reconciliations, deletions, failed calls and restarts.
THEOREM CredentialsThere == Spec => []CertHasCredentials
<1>1. IInv => CertHasCredentials
  BY DEF IInv
<1> QED
  BY <1>1, InvariantHolds, PTL

\* A Certificate in use names one domain of a Seed, in the field that fits.
THEOREM OneDomain == Spec => []CertForOneDomain
<1>1. IInv => CertForOneDomain
  BY DEF IInv
<1> QED
  BY <1>1, InvariantHolds, PTL

\* Success means that Certificate and secret are of the same provider.
THEOREM SettledMatch == Spec => []SettledCredentialsMatch
<1>1. IInv => SettledCredentialsMatch
  BY DEF IInv, MatchAtEnd, Match, SettledCredentialsMatch
<1> QED
  BY <1>1, InvariantHolds, PTL
\* An Extension is gone only when its controller is.
THEOREM ControllerGoesFirst == Spec => []NoControllerLeft
<1>1. IInv => NoControllerLeft
  BY DEF IInv, Order, FinalizerHeld, NoControllerLeft
<1> QED
  BY <1>1, InvariantHolds, PTL

\* No request is lost, for any Seeds and configs and any number of edits, failed
\* calls and restarts.
THEOREM NoRequestLost == Spec => []NothingForgotten
<1>1. IInv => NothingForgotten
  BY DEF IInv, Pending
<1> QED
  BY <1>1, InvariantHolds, PTL

-----------------------------------------------------------------------------
(* The refinement of ManagedCertificate.                                    *)

Reads == {Content(s) : s \in picked}
Source == {Content(seed)}
Abstract == <<Source, Reads, Held, secret, mr>>

\* Nothing is read, written or deployed at first.
LEMMA RefinesInit == Init => Managed!Init
BY DEF Init, Managed!Init, Held, NoCert

\* A step that touches neither what was read nor the objects.
LEMMA Elsewhere ==
  ASSUME picked' = picked, certVars' = certVars, mr' = mr
  PROVE  Managed!Next
BY DEF certVars, Held, Managed!Next, Managed!ChangeSource

\* An attempt that ends forgets what it has read.
LEMMA Forgets ==
  ASSUME seed' = seed, picked' = {}, certVars' = certVars, mr' = mr
  PROVE  Managed!Next
BY DEF certVars, Held, Managed!Next, Managed!Forget

\* The Seed is read in one piece.
LEMMA RefinesGetSeed ==
  ASSUME IInv, GetSeed PROVE Managed!Next
<1>1. UNCHANGED <<seed, certVars, mr>>
  BY DEF GetSeed
<1>2. CASE picked' = {}
  BY <1>1, <1>2, Forgets
<1>3. CASE picked' = {seed}
  <2>1. UNCHANGED <<Source, Held, secret, mr>>
    BY <1>1 DEF certVars, Source, Held, Content, Domain
  <2>2. Reads' = {Content(seed)}
    BY <1>1, <1>3 DEF Reads, Content, Domain
  <2> QED
    BY <2>1, <2>2 DEF Source, Reads, Managed!Next, Managed!Read
<1> QED
  BY <1>2, <1>3 DEF GetSeed, Panic

\* The credentials are those of the Seed that was read.
LEMMA RefinesWriteSecret ==
  ASSUME IInv, WriteSecret PROVE Managed!Next
<1>1. UNCHANGED <<seed, cert, picked, mr>>
  BY DEF WriteSecret
<1>2. PICK s \in SeedSpecs : picked = {s}
  BY DEF WriteSecret, IInv, SeedPicked
<1>3. secret' = Content(s).needs /\ Content(s) \in Reads
  BY <1>2 DEF WriteSecret, Content, Reads
<1>4. UNCHANGED <<Source, Reads, Held>>
  BY <1>1 DEF Source, Reads, Held, Content, Domain
<1> QED
  BY <1>1, <1>3, <1>4 DEF Source, Reads, Managed!Next, Managed!Provide

\* Name and provider are those of the Seed that was read, and its credentials
\* are there.
LEMMA RefinesWriteCert ==
  ASSUME IInv, WriteCert PROVE Managed!Next
<1>1. UNCHANGED <<seed, secret, picked, mr>> /\ mr = "present"
  BY DEF WriteCert, IInv, Order, ControllerOrder
<1>2. PICK s \in picked :
        cert' = [st         |-> IF cert.st = "absent" THEN "present" ELSE cert.st,
                 commonName |-> IF s.long THEN {} ELSE Domain(s),
                 dnsNames   |-> IF s.long THEN Domain(s) ELSE {},
                 provider   |-> s.provider]
  BY DEF WriteCert
<1>3. CASE cert.st = "deleting"
  <2>1. Held = {} /\ Held' = {}
    BY <1>2, <1>3 DEF Held
  <2> QED
    BY <1>1, <2>1 DEF Managed!Next, Managed!ChangeSource
<1>4. CASE cert.st # "deleting"
  <2>1. cert'.st = "present"
    BY <1>2, <1>4 DEF IInv, TypeOK, Certs
  <2>2. Held' = {Content(s).names}
    BY <1>2, <2>1 DEF Held, Content
  <2>3. Content(s) \in Reads /\ Content(s).needs \subseteq secret
    BY DEF Reads, Content, WriteCert, IInv, SecretFirst
  <2>4. UNCHANGED <<Source, Reads>>
    BY <1>1 DEF Source, Reads, Content, Domain
  <2> QED
    BY <1>1, <2>2, <2>3, <2>4 DEF Source, Reads, Managed!Next, Managed!Write
<1> QED
  BY <1>3, <1>4

\* From a state of the invariant every step is a step of ManagedCertificate, or
\* changes nothing of it.
LEMMA RefinesStep == IInv /\ [Next]_vars => [Managed!Next]_Abstract
<1> SUFFICES ASSUME IInv, Next PROVE Managed!Next
  BY DEF vars, certVars, workerVars, Abstract, Source, Reads, Held, Content, Domain
<1>1. CASE GetSeed
  BY <1>1, RefinesGetSeed
<1>2. CASE WriteSecret
  BY <1>2, RefinesWriteSecret
<1>3. CASE WriteCert
  BY <1>3, RefinesWriteCert
<1>4. CASE DeployMR
  <2>1. UNCHANGED <<seed, certVars>>
    BY <1>4 DEF DeployMR
  <2>2. CASE task = "invalid"
    <3>1. picked' = {} /\ mr' = mr
      BY <1>4, <2>2 DEF DeployMR, Fail
    <3> QED
      BY <2>1, <3>1, Forgets
  <2>3. CASE task # "invalid"
    <3>1. picked' = picked /\ mr' = IF mr = "absent" THEN "present" ELSE mr
      BY <1>4, <2>3 DEF DeployMR
    <3>2. CASE mr = "absent"
      BY <2>1, <3>1, <3>2 DEF certVars, Held, Managed!Next, Managed!Deploy
    <3>3. CASE mr # "absent"
      BY <2>1, <3>1, <3>3, Elsewhere
    <3> QED
      BY <3>2, <3>3
  <2> QED
    BY <2>2, <2>3
<1>5. CASE DeleteCert
  <2>1. Held' = {}
    BY <1>5 DEF DeleteCert, NoCert, Held, IInv, TypeOK, Certs
  <2>2. UNCHANGED <<seed, secret, picked, mr>>
    BY <1>5 DEF DeleteCert
  <2> QED
    BY <2>1, <2>2 DEF Managed!Next, Managed!Withdraw
<1>6. CASE DeleteSecret
  <2>1. Held = {} /\ Held' = {}
    BY <1>6 DEF DeleteSecret, Held, IInv, CertFirst
  <2>2. secret' = {} /\ UNCHANGED <<seed, picked, mr>>
    BY <1>6 DEF DeleteSecret
  <2> QED
    BY <2>1, <2>2 DEF Managed!Next, Managed!Discard
<1>7. CASE DeleteMR
  <2>1. UNCHANGED <<seed, picked, certVars>> /\ mr' = IF mr = "absent" THEN mr ELSE "deleting"
    BY <1>7 DEF DeleteMR
  <2>2. CASE mr = "present"
    BY <2>1, <2>2 DEF certVars, Held, Managed!Next, Managed!Leave
  <2>3. CASE mr # "present"
    BY <2>1, <2>3, Elsewhere DEF IInv, TypeOK
  <2> QED
    BY <2>2, <2>3
<1>8. CASE WaitMR
  BY <1>8, Elsewhere, Forgets DEF WaitMR, Fail
<1>9. CASE Succeed \/ CallFails \/ Restart
  BY <1>9, Forgets DEF Succeed, CallFails, Restart, Fail
<1>10. CASE GetGardenClient \/ GetCredentials \/ UpdateStatus \/ Dequeue \/ DequeueNothing
  BY <1>10, Elsewhere DEF GetGardenClient, GetCredentials, UpdateStatus, Dequeue,
                          DequeueNothing, workerVars
<1>11. CASE Gardenlet
  BY <1>11, Elsewhere DEF Gardenlet, EditSeed, CreateExtension, EditExtension, Annotate,
                          DeleteExtension, workerVars
<1>12. CASE ReleaseCert
  <2>1. Held = {} /\ Held' = {}
    BY <1>12 DEF ReleaseCert, NoCert, Held
  <2> QED
    BY <1>12, <2>1 DEF ReleaseCert, workerVars, Managed!Next, Managed!ChangeSource
<1>13. CASE GRMRelease
  BY <1>13 DEF GRMRelease, certVars, workerVars, Held, Managed!Next, Managed!Leave
<1> QED
  BY <1>1, <1>2, <1>3, <1>4, <1>5, <1>6, <1>7, <1>8, <1>9, <1>10, <1>11, <1>12, <1>13
     DEF Next, Worker, Reconcile, Delete

\* The Certificate in use has name and provider of one state of the Seed, its
\* credentials come before it and go after it, and it is written while its
\* controller is there, for any Seeds and any number of edits, failed calls and
\* restarts.
THEOREM CertificateRefinement == Spec => ImplementsManagedCertificate
<1>1. Init => Managed!Init
  BY RefinesInit
<1>2. IInv /\ [Next]_vars => [Managed!Next]_<<Source, Reads, Held, secret, mr>>
  BY RefinesStep DEF Abstract
<1> QED
  BY <1>1, <1>2, InvariantHolds, PTL DEF Spec, ImplementsManagedCertificate, Managed!Spec, Source, Reads
=============================================================================
