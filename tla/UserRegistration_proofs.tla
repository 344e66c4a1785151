----------------------- MODULE UserRegistration_proofs -----------------------
(***************************************************************************)
(* Proofs about UserRegistration, for any number of requests, deletions,   *)
(* addresses and connections, any set of faults, and whether or not the    *)
(* event emitter swallows the errors of listeners.                         *)
(***************************************************************************)
EXTENDS UserRegistration, FiniteSetTheorems, TLAPS

USE DEF Outcomes, Stages, Running, HandlerStates, Sagas, CreateSaga, Summaries, Rows, Started,
        OnUserCreated, OnWalletCreated, Handlers, OnPool, given, tables

(* A step of any actor keeps the type of every variable.                   *)
LEMMA TypeStep == TypeOK /\ [Next]_vars => TypeOK'
<1> SUFFICES ASSUME TypeOK, [Next]_vars PROVE TypeOK'
  OBVIOUS
<1> USE DEF TypeOK
<1>1. ASSUME NEW r \in Requests, InsertUser(r) PROVE TypeOK'
  BY <1>1 DEF InsertUser, Emit
<1>2. ASSUME NEW r \in Requests, InsertUserConflicts(r) PROVE TypeOK'
  BY <1>2 DEF InsertUserConflicts
<1>3. ASSUME NEW r \in Requests, InsertUserFails(r) PROVE TypeOK'
  BY <1>3 DEF InsertUserFails
<1>4. ASSUME NEW r \in Requests, Commit(r) PROVE TypeOK'
  BY <1>4 DEF Commit, EndTransaction, EndedRow
<1>5. ASSUME NEW r \in Requests, CommitBreaks(r) PROVE TypeOK'
  BY <1>5 DEF CommitBreaks, EndTransaction, EndedRow
<1>6. ASSUME NEW r \in Requests, ListenerFailed(r) PROVE TypeOK'
  BY <1>6 DEF ListenerFailed, EndTransaction, EndedRow
<1>7. ASSUME NEW r \in Requests, Rollback(r) PROVE TypeOK'
  BY <1>7 DEF Rollback, Answer, EndTransaction, EndedRow
<1>8. ASSUME NEW r \in Requests, InsertWallet(r) PROVE TypeOK'
  BY <1>8 DEF InsertWallet, Emit
<1>9. ASSUME NEW r \in Requests, InsertWalletFails(r) PROVE TypeOK'
  BY <1>9 DEF InsertWalletFails, SetHandler
<1>10. ASSUME NEW r \in Requests, WalletSettles(r) PROVE TypeOK'
  <2>1. PICK to \in {"done", "failed"} : SetHandler(r, "wallet", to)
    BY <1>10, Zenon DEF WalletSettles
  <2> QED
    BY <1>10, <2>1 DEF WalletSettles, SetHandler
<1>11. ASSUME NEW r \in Requests, InsertSaga(r) PROVE TypeOK'
  BY <1>11 DEF InsertSaga, SetHandler
<1>12. ASSUME NEW r \in Requests, ProjectUser(r) PROVE TypeOK'
  BY <1>12 DEF ProjectUser, SetHandler
<1>13. ASSUME NEW r \in Requests, FindSaga(r) PROVE TypeOK'
  BY <1>13 DEF FindSaga, SetHandler
<1>14. ASSUME NEW r \in Requests, CompleteSaga(r) PROVE TypeOK'
  BY <1>14 DEF CompleteSaga, SetHandler
<1>15. ASSUME NEW r \in Requests, ProjectWallet(r) PROVE TypeOK'
  BY <1>15 DEF ProjectWallet, SetHandler
<1>16. ASSUME NEW r \in Requests, Begin(r) PROVE TypeOK'
  BY <1>16 DEF Begin
<1>17. ASSUME NEW r \in Requests, BeginTimesOut(r) PROVE TypeOK'
  BY <1>17 DEF BeginTimesOut
<1>18. ASSUME NEW r \in Requests, NEW k \in OnPool, PoolListenerFails(r, k) PROVE TypeOK'
  BY <1>18 DEF PoolListenerFails, SetHandler
<1>19. ASSUME NEW d \in Deleters, Deletion(d) PROVE TypeOK'
  <2>1. ASSUME NEW u \in Requests, FindUser(d, u) PROVE TypeOK'
    BY <2>1 DEF FindUser, SetDeletion, Deletions
  <2>2. CASE DeleteRow(d)
    <3>1. deletion[d] \in [at : {"found"}, user : Requests]
      BY <2>2 DEF DeleteRow, Deletions
    <3>2. PICK to \in {"true", "false"} : SetDeletion(d, to, deletion[d].user)
      BY <2>2, Zenon DEF DeleteRow
    <3>3. deletion' \in [Deleters -> Deletions]
      BY <3>1, <3>2 DEF SetDeletion, Deletions
    <3>4. userRow' \in [Requests -> Rows]
      BY <2>2, <3>1 DEF DeleteRow
    <3> QED
      BY <2>2, <3>3, <3>4 DEF DeleteRow
  <2>3. CASE DeletionFails(d)
    BY <2>3 DEF DeletionFails, SetDeletion, Deletions
  <2> QED
    BY <1>19, <2>1, <2>2, <2>3 DEF Deletion
<1>20. CASE Crash
  <2>1. userRow' \in [Requests -> Rows] /\ walletRow' \in [Requests -> Rows \ {"deleted"}]
    BY <1>20 DEF Crash, EndedRow
  <2>2. handler' \in [Requests -> [Handlers -> HandlerStates]]
    BY <1>20 DEF Crash
  <2>3. deletion' \in [Deleters -> Deletions]
    <3>1. [at |-> "error", user |-> "nobody"] \in Deletions
      BY DEF Deletions
    <3> QED
      BY <1>20, <3>1 DEF Crash
  <2> QED
    BY <1>20, <2>1, <2>2, <2>3 DEF Crash
<1>21. CASE UNCHANGED vars
  BY <1>21 DEF vars
<1> QED
  BY <1>1, <1>2, <1>3, <1>4, <1>5, <1>6, <1>7, <1>8, <1>9, <1>10, <1>11, <1>12, <1>13, <1>14,
     <1>15, <1>16, <1>17, <1>18, <1>19, <1>20, <1>21 DEF Next, Service, WalletListener,
     SagaUserListener, ProjUserListener, SagaWalletListener, ProjWalletListener

(* Every variable of the registration keeps its type (TypeOK).             *)
THEOREM TypeCorrect == Spec => []TypeOK
<1>1. Init => TypeOK
  BY DEF Init, TypeOK, Deletions
<1> QED
  BY <1>1, TypeStep, PTL DEF Spec

-----------------------------------------------------------------------------
(* The two ways in which a step changes the listeners.                     *)
LEMMA SetHandlerEffect ==
  ASSUME TypeOK, NEW r \in Requests, NEW k \in Handlers, NEW to, SetHandler(r, k, to)
  PROVE  \A q \in Requests, l \in Handlers :
           handler'[q][l] = IF q = r /\ l = k THEN to ELSE handler[q][l]
  BY DEF TypeOK, SetHandler

LEMMA EmitEffect ==
  ASSUME TypeOK, NEW r \in Requests, NEW k, NEW to, NEW listeners, Emit(r, k, to, listeners)
  PROVE  \A q \in Requests, l \in Handlers :
           handler'[q][l] = IF q # r THEN handler[q][l]
                            ELSE IF l \in listeners THEN "queued"
                            ELSE IF l = k THEN to ELSE handler[q][l]
  BY DEF TypeOK, Emit

(* Every listener records what it did in its own row and in its state.     *)
LEMMA RecordStep ==
  ASSUME IInv, [Next]_vars
  PROVE  ListenersRecord'
<1>t. TypeOK
  BY DEF IInv
<1>p. ListenersRecord /\ StagesFollowListeners
  BY DEF IInv
<1> USE DEF TypeOK, ListenersRecord, StagesFollowListeners
<1>1. ASSUME NEW r \in Requests, InsertUser(r) PROVE ListenersRecord'
  BY <1>1, <1>t, <1>p, EmitEffect DEF InsertUser
<1>2. ASSUME NEW r \in Requests, InsertUserConflicts(r) PROVE ListenersRecord'
  BY <1>2, <1>t, <1>p DEF InsertUserConflicts
<1>3. ASSUME NEW r \in Requests, InsertUserFails(r) PROVE ListenersRecord'
  BY <1>3, <1>t, <1>p DEF InsertUserFails
<1>4. ASSUME NEW r \in Requests, Commit(r) PROVE ListenersRecord'
  BY <1>4, <1>t, <1>p DEF Commit, EndTransaction, EndedRow, Persists
<1>5. ASSUME NEW r \in Requests, CommitBreaks(r) PROVE ListenersRecord'
  BY <1>5, <1>t, <1>p DEF CommitBreaks, EndTransaction, EndedRow, Persists
<1>6. ASSUME NEW r \in Requests, ListenerFailed(r) PROVE ListenersRecord'
  BY <1>6, <1>t, <1>p DEF ListenerFailed, EndTransaction, EndedRow
<1>7. ASSUME NEW r \in Requests, Rollback(r) PROVE ListenersRecord'
  BY <1>7, <1>t, <1>p DEF Rollback, EndTransaction, EndedRow, Answer
<1>8. ASSUME NEW r \in Requests, InsertWallet(r) PROVE ListenersRecord'
  <2>1. \A k \in OnWalletCreated : handler[r][k] = "off"
    BY <1>8 DEF InsertWallet, IInv, WalletListeners
  <2>2. \A q \in Requests, l \in Handlers :
          handler'[q][l] = IF q # r THEN handler[q][l]
                           ELSE IF l \in OnWalletCreated THEN "queued"
                           ELSE IF l = "wallet" THEN "publishing" ELSE handler[q][l]
    BY <1>8, <1>t, EmitEffect DEF InsertWallet
  <2>3. saga' = saga /\ summary' = summary
    BY <1>8 DEF InsertWallet
  <2> HIDE DEF TypeOK
  <2>4. ASSUME NEW q \in Requests, q # r
        PROVE  \A l \in Handlers : handler'[q][l] = handler[q][l]
    BY <2>2, <2>4
  <2>5. /\ handler'[r]["wallet"] = "publishing"
        /\ \A l \in {"sagaUser", "projUser"} : handler'[r][l] = handler[r][l]
        /\ \A l \in OnWalletCreated : handler'[r][l] = "queued"
    BY <2>2
  <2> QED
    BY <1>p, <2>1, <2>3, <2>4, <2>5
<1>9. ASSUME NEW r \in Requests, InsertWalletFails(r) PROVE ListenersRecord'
  BY <1>9, <1>t, <1>p, SetHandlerEffect DEF InsertWalletFails
<1>10. ASSUME NEW r \in Requests, WalletSettles(r) PROVE ListenersRecord'
  BY <1>10, <1>t, <1>p, SetHandlerEffect DEF WalletSettles
<1>11. ASSUME NEW r \in Requests, InsertSaga(r) PROVE ListenersRecord'
  BY <1>11, <1>t, <1>p, SetHandlerEffect DEF InsertSaga
<1>12. ASSUME NEW r \in Requests, ProjectUser(r) PROVE ListenersRecord'
  BY <1>12, <1>t, <1>p, SetHandlerEffect DEF ProjectUser
<1>13. ASSUME NEW r \in Requests, FindSaga(r) PROVE ListenersRecord'
  BY <1>13, <1>t, <1>p, SetHandlerEffect DEF FindSaga
<1>14. ASSUME NEW r \in Requests, CompleteSaga(r) PROVE ListenersRecord'
  BY <1>14, <1>t, <1>p, SetHandlerEffect DEF CompleteSaga
<1>15. ASSUME NEW r \in Requests, ProjectWallet(r) PROVE ListenersRecord'
  BY <1>15, <1>t, <1>p, SetHandlerEffect DEF ProjectWallet
<1>16. ASSUME NEW r \in Requests, Begin(r) PROVE ListenersRecord'
  BY <1>16, <1>t, <1>p DEF Begin
<1>17. ASSUME NEW r \in Requests, BeginTimesOut(r) PROVE ListenersRecord'
  BY <1>17, <1>t, <1>p DEF BeginTimesOut
<1>18. ASSUME NEW r \in Requests, NEW k \in OnPool, PoolListenerFails(r, k) PROVE ListenersRecord'
  BY <1>18, <1>t, <1>p, SetHandlerEffect DEF PoolListenerFails
<1>19. ASSUME NEW d \in Deleters, Deletion(d) PROVE ListenersRecord'
  BY <1>19, <1>t, <1>p DEF Deletion, FindUser, DeleteRow, DeletionFails
<1>20. CASE Crash
  BY <1>20, <1>t, <1>p DEF Crash, EndedRow
<1>21. CASE UNCHANGED vars
  BY <1>21, <1>p DEF vars
<1> QED
  BY <1>1, <1>2, <1>3, <1>4, <1>5, <1>6, <1>7, <1>8, <1>9, <1>10, <1>11, <1>12, <1>13, <1>14,
     <1>15, <1>16, <1>17, <1>18, <1>19, <1>20, <1>21
  DEF Next, Service, WalletListener, SagaUserListener, ProjUserListener, SagaWalletListener,
      ProjWalletListener

(* A listener on the pool that was at work takes a step or ends.           *)
LEMMA PoolListenerStep ==
  ASSUME TypeOK, StagesFollowListeners, NEW r \in Requests, NEW k \in OnPool, NEW to,
         SetHandler(r, k, to), handler[r][k] \in {"queued", "found"}, to # "off",
         UNCHANGED <<suppresses, stage, tx, userRow, walletRow>>
  PROVE  StagesFollowListeners'
<1>1. \A q \in Requests, l \in Handlers :
        handler'[q][l] = IF q = r /\ l = k THEN to ELSE handler[q][l]
  BY SetHandlerEffect
<1>2. \A q \in Requests, l \in Handlers : handler'[q][l] = "off" <=> handler[q][l] = "off"
  BY <1>1
<1>3. \A q \in Requests : handler'[q]["wallet"] = handler[q]["wallet"]
  BY <1>1
<1>4. ASSUME NEW q \in Requests, NEW L \in SUBSET Handlers, Resolved(q, L) PROVE Resolved(q, L)'
  <2>1. q # r \/ k \notin L
    BY <1>4 DEF Resolved
  <2>2. \A l \in L : handler'[q][l] = handler[q][l]
    BY <1>1, <2>1
  <2> QED
    BY <1>4, <2>2 DEF Resolved
<1>5. OnWalletCreated \in SUBSET Handlers /\ OnUserCreated \in SUBSET Handlers
  OBVIOUS
<1>6. stage' = stage /\ tx' = tx /\ userRow' = userRow /\ walletRow' = walletRow
  OBVIOUS
<1> SUFFICES ASSUME NEW q \in Requests
             PROVE  /\ stage[q] \in {"idle", "inserting", "conflicting", "failing"} =>
                          \A l \in Handlers : handler'[q][l] = "off"
                    /\ handler[q]["wallet"] \in {"publishing", "done"} =>
                          \A l \in OnWalletCreated : handler'[q][l] # "off"
                    /\ handler[q]["wallet"] = "done" => Resolved(q, OnWalletCreated)'
                    /\ stage[q] = "inserting" => tx[q] = "active"
                    /\ stage[q] = "publishing" => \A l \in OnUserCreated : handler'[q][l] # "off"
                    /\ stage[q] = "publishing" => tx[q] = "active" \/ handler[q]["wallet"] = "failed"
                    /\ stage[q] = "ok" =>
                          /\ Resolved(q, OnUserCreated)'
                          /\ \/ userRow[q] \in {"stored", "deleted"} /\ walletRow[q] = "stored"
                             \/ handler[q]["wallet"] = "failed"
  BY <1>3, <1>6 DEF StagesFollowListeners
<1> QED
  BY <1>2, <1>4, <1>5 DEF StagesFollowListeners

(* A request reaches COMMIT only through its listeners.                    *)
LEMMA StagesStep ==
  ASSUME IInv, [Next]_vars
  PROVE  StagesFollowListeners'
<1>t. TypeOK
  BY DEF IInv
<1>p. /\ ListenersRecord /\ StagesFollowListeners
      /\ RowsFollowStage /\ WalletInTransaction /\ WalletListeners /\ UserIffWallet
      /\ ListenersEndBeforeCommit
  BY DEF IInv
<1> USE DEF TypeOK, ListenersRecord, StagesFollowListeners, Resolved, RowsFollowStage,
            WalletInTransaction, WalletListeners, UserIffWallet, ListenersEndBeforeCommit
<1>1. ASSUME NEW r \in Requests, InsertUser(r) PROVE StagesFollowListeners'
  BY <1>1, <1>t, <1>p, EmitEffect DEF InsertUser
<1>2. ASSUME NEW r \in Requests, InsertUserConflicts(r) PROVE StagesFollowListeners'
  BY <1>2, <1>t, <1>p DEF InsertUserConflicts
<1>3. ASSUME NEW r \in Requests, InsertUserFails(r) PROVE StagesFollowListeners'
  BY <1>3, <1>t, <1>p DEF InsertUserFails
<1>4. ASSUME NEW r \in Requests, Commit(r) PROVE StagesFollowListeners'
  BY <1>4, <1>t, <1>p DEF Commit, EndTransaction, EndedRow, Persists
<1>5. ASSUME NEW r \in Requests, CommitBreaks(r) PROVE StagesFollowListeners'
  BY <1>5, <1>t, <1>p DEF CommitBreaks, EndTransaction, EndedRow, Persists
<1>6. ASSUME NEW r \in Requests, ListenerFailed(r) PROVE StagesFollowListeners'
  BY <1>6, <1>t, <1>p DEF ListenerFailed, EndTransaction, EndedRow
<1>7. ASSUME NEW r \in Requests, Rollback(r) PROVE StagesFollowListeners'
  BY <1>7, <1>t, <1>p DEF Rollback, EndTransaction, EndedRow, Answer
<1>8. ASSUME NEW r \in Requests, InsertWallet(r) PROVE StagesFollowListeners'
  BY <1>8, <1>t, <1>p, EmitEffect DEF InsertWallet
<1>9. ASSUME NEW r \in Requests, InsertWalletFails(r) PROVE StagesFollowListeners'
  BY <1>9, <1>t, <1>p, SetHandlerEffect DEF InsertWalletFails
<1>10. ASSUME NEW r \in Requests, WalletSettles(r) PROVE StagesFollowListeners'
  BY <1>10, <1>t, <1>p, SetHandlerEffect DEF WalletSettles
<1>11. ASSUME NEW r \in Requests, InsertSaga(r) PROVE StagesFollowListeners'
  BY <1>11, <1>t, <1>p, PoolListenerStep DEF InsertSaga
<1>12. ASSUME NEW r \in Requests, ProjectUser(r) PROVE StagesFollowListeners'
  BY <1>12, <1>t, <1>p, PoolListenerStep DEF ProjectUser
<1>13. ASSUME NEW r \in Requests, FindSaga(r) PROVE StagesFollowListeners'
  BY <1>13, <1>t, <1>p, PoolListenerStep DEF FindSaga
<1>14. ASSUME NEW r \in Requests, CompleteSaga(r) PROVE StagesFollowListeners'
  BY <1>14, <1>t, <1>p, PoolListenerStep DEF CompleteSaga
<1>15. ASSUME NEW r \in Requests, ProjectWallet(r) PROVE StagesFollowListeners'
  BY <1>15, <1>t, <1>p, PoolListenerStep DEF ProjectWallet
<1>16. ASSUME NEW r \in Requests, Begin(r) PROVE StagesFollowListeners'
  BY <1>16, <1>t, <1>p DEF Begin
<1>17. ASSUME NEW r \in Requests, BeginTimesOut(r) PROVE StagesFollowListeners'
  BY <1>17, <1>t, <1>p DEF BeginTimesOut
<1>18. ASSUME NEW r \in Requests, NEW k \in OnPool, PoolListenerFails(r, k) PROVE StagesFollowListeners'
  BY <1>18, <1>t, <1>p, PoolListenerStep DEF PoolListenerFails
<1>19. ASSUME NEW d \in Deleters, Deletion(d) PROVE StagesFollowListeners'
  BY <1>19, <1>t, <1>p DEF Deletion, FindUser, DeleteRow, DeletionFails
<1>20. CASE Crash
  BY <1>20, <1>t, <1>p DEF Crash, EndedRow
<1>21. CASE UNCHANGED vars
  BY <1>21, <1>p DEF vars
<1> QED
  BY <1>1, <1>2, <1>3, <1>4, <1>5, <1>6, <1>7, <1>8, <1>9, <1>10, <1>11, <1>12, <1>13, <1>14,
     <1>15, <1>16, <1>17, <1>18, <1>19, <1>20, <1>21
  DEF Next, Service, WalletListener, SagaUserListener, ProjUserListener, SagaWalletListener,
      ProjWalletListener

LEMMA InvInit == Init => IInv
  BY DEF Init, IInv, TypeOK, Deletions, RowsFollowStage, WalletInTransaction, AddressesDiffer,
         WalletListeners, UserIffWallet, ListenersEndBeforeCommit, WalletPrecedesItsEffects,
         ListenersRecord, StagesFollowListeners

LEMMA InvStep == IInv /\ [Next]_vars => IInv'
<1> SUFFICES ASSUME IInv, [Next]_vars PROVE IInv'
  OBVIOUS
<1>t. TypeOK /\ TypeOK'
  BY TypeStep DEF IInv
<1> DEFINE Parts == /\ RowsFollowStage /\ WalletInTransaction /\ AddressesDiffer /\ WalletListeners
                    /\ UserIffWallet /\ ListenersEndBeforeCommit /\ WalletPrecedesItsEffects
<1>p. Parts
  BY DEF IInv
<1> SUFFICES Parts'
  BY <1>t, RecordStep, StagesStep DEF IInv
<1> USE DEF RowsFollowStage, WalletInTransaction, AddressesDiffer, WalletListeners,
            UserIffWallet, ListenersEndBeforeCommit, WalletPrecedesItsEffects, TypeOK
<1>1. ASSUME NEW r \in Requests, InsertUser(r) PROVE Parts'
  <2>1. \A q \in Requests : /\ q # r => handler'[q] = handler[q]
                            /\ \A k \in OnWalletCreated : handler'[q][k] = handler[q][k]
    BY <1>1, <1>t, <1>p DEF InsertUser, Emit
  <2>2. handler'[r]["wallet"] = "queued"
    BY <1>1, <1>t DEF InsertUser, Emit
  <2>3. AddressesDiffer'
    BY <1>1, <1>t, <1>p DEF InsertUser, EmailLocked, EmailTaken
  <2>4. RowsFollowStage' /\ UserIffWallet' /\ WalletPrecedesItsEffects'
    <3>1. tx[r] # "none"
      BY <1>1, <1>t, <1>p DEF InsertUser
    <3> QED
      BY <1>1, <1>t, <1>p, <3>1 DEF InsertUser
  <2>5. WalletInTransaction' /\ ListenersEndBeforeCommit'
    BY <1>1, <1>t, <1>p, <2>1, <2>2 DEF InsertUser
  <2>6. WalletListeners'
    <3>1. walletRow[r] = "absent"
      BY <1>1, <1>t, <1>p DEF InsertUser
    <3>2. \A k \in OnWalletCreated : handler'[r][k] = "off"
      BY <1>t, <1>p, <2>1, <3>1
    <3>3. (\A q \in Requests : walletRow'[q] = walletRow[q]) /\ suppresses' = suppresses
      BY <1>1 DEF InsertUser
    <3> QED
      BY <1>p, <2>1, <2>2, <3>1, <3>2, <3>3
  <2> QED
    BY <2>3, <2>4, <2>5, <2>6
<1>2. ASSUME NEW r \in Requests, InsertUserConflicts(r) PROVE Parts'
  BY <1>2, <1>t, <1>p DEF InsertUserConflicts
<1>3. ASSUME NEW r \in Requests, InsertUserFails(r) PROVE Parts'
  BY <1>3, <1>t, <1>p DEF InsertUserFails
<1>4. ASSUME NEW r \in Requests, Commit(r) PROVE Parts'
  BY <1>4, <1>t, <1>p DEF Commit, EndTransaction, EndedRow, Persists, Resolved
<1>5. ASSUME NEW r \in Requests, CommitBreaks(r) PROVE Parts'
  BY <1>5, <1>t, <1>p DEF CommitBreaks, EndTransaction, EndedRow, Persists, Resolved
<1>6. ASSUME NEW r \in Requests, ListenerFailed(r) PROVE Parts'
  BY <1>6, <1>t, <1>p DEF ListenerFailed, EndTransaction, EndedRow, Rejected
<1>7. ASSUME NEW r \in Requests, Rollback(r) PROVE Parts'
  BY <1>7, <1>t, <1>p DEF Rollback, Answer, EndTransaction, EndedRow
<1>8. ASSUME NEW r \in Requests, InsertWallet(r) PROVE Parts'
  BY <1>8, <1>t, <1>p DEF InsertWallet, Emit
<1>9. ASSUME NEW r \in Requests, InsertWalletFails(r) PROVE Parts'
  BY <1>9, <1>t, <1>p DEF InsertWalletFails, SetHandler
<1>10. ASSUME NEW r \in Requests, WalletSettles(r) PROVE Parts'
  <2>1. CASE Resolved(r, OnWalletCreated) /\ SetHandler(r, "wallet", "done")
    BY <1>10, <2>1, <1>t, <1>p DEF WalletSettles, Resolved, SetHandler
  <2>2. CASE Rejected(r, OnWalletCreated) /\ SetHandler(r, "wallet", "failed")
    BY <1>10, <2>2, <1>t, <1>p DEF WalletSettles, Rejected, SetHandler
  <2> QED
    BY <1>10, <2>1, <2>2 DEF WalletSettles
<1>11. ASSUME NEW r \in Requests, InsertSaga(r) PROVE Parts'
  BY <1>11, <1>t, <1>p DEF InsertSaga, SetHandler
<1>12. ASSUME NEW r \in Requests, ProjectUser(r) PROVE Parts'
  BY <1>12, <1>t, <1>p DEF ProjectUser, SetHandler
<1>13. ASSUME NEW r \in Requests, FindSaga(r) PROVE Parts'
  BY <1>13, <1>t, <1>p DEF FindSaga, SetHandler
<1>14. ASSUME NEW r \in Requests, CompleteSaga(r) PROVE Parts'
  BY <1>14, <1>t, <1>p DEF CompleteSaga, SetHandler
<1>15. ASSUME NEW r \in Requests, ProjectWallet(r) PROVE Parts'
  BY <1>15, <1>t, <1>p DEF ProjectWallet, SetHandler
<1>16. ASSUME NEW r \in Requests, Begin(r) PROVE Parts'
  BY <1>16, <1>t, <1>p DEF Begin
<1>17. ASSUME NEW r \in Requests, BeginTimesOut(r) PROVE Parts'
  BY <1>17, <1>t, <1>p DEF BeginTimesOut
<1>18. ASSUME NEW r \in Requests, NEW k \in OnPool, PoolListenerFails(r, k) PROVE Parts'
  BY <1>18, <1>t, <1>p DEF PoolListenerFails, SetHandler
<1>19. ASSUME NEW d \in Deleters, Deletion(d) PROVE Parts'
  <2>1. ASSUME NEW u \in Requests, FindUser(d, u) PROVE Parts'
    BY <2>1, <1>t, <1>p DEF FindUser
  <2>2. CASE DeleteRow(d)
    <3>1. deletion[d].user \in Requests
      BY <2>2, <1>t DEF DeleteRow, Deletions
    <3> QED
      BY <2>2, <3>1, <1>t, <1>p DEF DeleteRow
  <2>3. CASE DeletionFails(d)
    BY <2>3, <1>t, <1>p DEF DeletionFails
  <2> QED
    BY <1>19, <2>1, <2>2, <2>3 DEF Deletion
<1>20. CASE Crash
  BY <1>20, <1>t, <1>p DEF Crash, EndedRow
<1>21. CASE UNCHANGED vars
  BY <1>21, <1>p DEF vars
<1> QED
  BY <1>1, <1>2, <1>3, <1>4, <1>5, <1>6, <1>7, <1>8, <1>9, <1>10, <1>11, <1>12, <1>13, <1>14,
     <1>15, <1>16, <1>17, <1>18, <1>19, <1>20, <1>21 DEF Next, Service, WalletListener,
     SagaUserListener, ProjUserListener, SagaWalletListener, ProjWalletListener

(* The inductive invariant holds in every reachable state.                 *)
THEOREM Invariant == Spec => []IInv
<1> QED
  BY InvInit, InvStep, PTL DEF Spec

(* An answer with a user id is true (OkIsStored), but for errors that the  *)
(* emitter swallowed and listeners of WalletCreated that came too early:   *)
(* COMMIT waits for all listeners, and each records what it did.           *)
THEOREM OkIsTrue == Spec => []OkIsStored
<1>1. IInv => OkIsStored
  <2> SUFFICES ASSUME IInv, NEW r \in Requests, stage[r] = "ok",
                      ~(suppresses /\ \E k \in Handlers : handler[r][k] = "failed")
               PROVE  /\ userRow[r] \in {"stored", "deleted"} /\ walletRow[r] = "stored"
                      /\ saga[r] = IF handler[r]["sagaWallet"] = "missed" THEN "started"
                                                                         ELSE "completed"
                      /\ summary[r] = IF handler[r]["projWallet"] = "missed" THEN "unlinked"
                                                                            ELSE "linked"
    BY DEF OkIsStored
  <2> USE DEF IInv, StagesFollowListeners, ListenersRecord, Resolved
  <2>1. \A k \in OnUserCreated : handler[r][k] = "done"
    OBVIOUS
  <2>2. \A k \in OnWalletCreated : handler[r][k] \in {"done", "missed"}
    BY <2>1
  <2>3. saga[r] \in Sagas /\ summary[r] \in Summaries
    BY DEF TypeOK
  <2> QED
    BY <2>1, <2>2, <2>3
<1> QED
  BY <1>1, Invariant, PTL

(* A user is stored exactly when its wallet is (UserIffWallet): the        *)
(* listener's INSERT shares the service's transaction.                     *)
THEOREM WalletAtomicity == Spec => []UserIffWallet
<1>1. IInv => UserIffWallet
  BY DEF IInv
<1> QED
  BY <1>1, Invariant, PTL

(* insert waits for its listeners (ListenersEndBeforeCommit).              *)
THEOREM ListenersAwaited == Spec => []ListenersEndBeforeCommit
<1>1. IInv => ListenersEndBeforeCommit
  BY DEF IInv
<1> QED
  BY <1>1, Invariant, PTL

(* The saga and the read model follow the wallet's INSERT                  *)
(* (WalletPrecedesItsEffects).                                             *)
THEOREM EffectsFollowWallet == Spec => []WalletPrecedesItsEffects
<1>1. IInv => WalletPrecedesItsEffects
  BY DEF IInv
<1> QED
  BY <1>1, Invariant, PTL

-----------------------------------------------------------------------------
Users == {r \in Requests : userRow[r] = "stored"}
Wallets == {r \in Requests : walletRow[r] = "stored"}
Removed == {r \in Requests : userRow[r] = "deleted"}

(* COMMIT, whatever it does, opens the account or leaves everything as is. *)
LEMMA CommitRefines ==
  ASSUME IInv, NEW r \in Requests, NEW c \in BOOLEAN, c => Persists(r),
         stage[r] = "publishing", Resolved(r, OnUserCreated), EndTransaction(r, c),
         emailOf' = emailOf
  PROVE  Acc!Open(r) \/ UNCHANGED <<emailOf, Users, Wallets, Removed>>
<1> USE DEF IInv, TypeOK
<1>1. userRow[r] = "pending" /\ tx[r] # "none"
  BY DEF RowsFollowStage
<1>2. CASE c
  <2>1. handler[r]["wallet"] \notin {"off", "queued"}
    BY DEF Resolved
  <2>2. walletRow[r] = "pending"
    BY <1>2, <2>1 DEF Persists, WalletInTransaction
  <2>3. /\ userRow' = [userRow EXCEPT ![r] = "stored"]
        /\ walletRow' = [walletRow EXCEPT ![r] = "stored"]
    BY <1>1, <1>2, <2>2 DEF EndTransaction, EndedRow
  <2>4. Users' = Users \cup {r} /\ Wallets' = Wallets \cup {r} /\ Removed' = Removed
    BY <1>1, <2>3 DEF Users, Wallets, Removed
  <2>5. r \notin Users \cup Removed /\ \A v \in Users : emailOf[v] # emailOf[r]
    BY <1>1 DEF Users, Removed, AddressesDiffer
  <2> QED
    BY <2>4, <2>5 DEF Acc!Open, Users, Wallets, Removed
<1>3. CASE ~c
  <2>1. /\ userRow' = [userRow EXCEPT ![r] = "rolledBack"]
        /\ walletRow' = [walletRow EXCEPT ![r] = IF @ = "pending" THEN "rolledBack" ELSE @]
    BY <1>1, <1>3 DEF EndTransaction, EndedRow
  <2> QED
    BY <1>1, <2>1 DEF Users, Wallets, Removed
<1> QED
  BY <1>2, <1>3

(* Registration implements the abstract accounts (ImplementsAccounts):     *)
(* every step opens one account, removes one user, or changes neither      *)
(* table as other transactions see it.                                     *)
THEOREM RefinesAccounts == Spec => ImplementsAccounts
<1>1. Init => Acc!Init
  BY DEF Init, Acc!Init
<1>2. IInv /\ [Next]_vars => [Acc!Next]_(Acc!vars)
  <2> SUFFICES ASSUME IInv, [Next]_vars
               PROVE  Acc!Next \/ UNCHANGED <<emailOf, Users, Wallets, Removed>>
    BY DEF Acc!vars, Users, Wallets, Removed
  <2> DEFINE Same == UNCHANGED <<emailOf, Users, Wallets, Removed>>
  <2> USE DEF Users, Wallets, Removed
  <2>t. TypeOK
    BY DEF IInv
  <2>1. ASSUME NEW r \in Requests, Commit(r) PROVE Acc!Next \/ Same
    <3>1. Persists(r) \in BOOLEAN
      BY DEF Persists
    <3> QED
      BY <2>1, <3>1, CommitRefines, Zenon DEF Commit, Acc!Next
  <2>2. ASSUME NEW r \in Requests, CommitBreaks(r) PROVE Acc!Next \/ Same
    <3>1. PICK reached \in BOOLEAN : EndTransaction(r, reached /\ Persists(r))
      BY <2>2 DEF CommitBreaks
    <3>2. (reached /\ Persists(r)) \in BOOLEAN
      OBVIOUS
    <3> QED
      BY <2>2, <3>1, <3>2, CommitRefines, Zenon DEF CommitBreaks, Acc!Next
  <2>3. ASSUME NEW r \in Requests, ListenerFailed(r) \/ Rollback(r) PROVE Same
    <3>1. EndTransaction(r, FALSE) /\ emailOf' = emailOf
      BY <2>3 DEF ListenerFailed, Rollback
    <3>2. \A q \in Requests : /\ userRow'[q] = "stored" <=> userRow[q] = "stored"
                              /\ userRow'[q] = "deleted" <=> userRow[q] = "deleted"
                              /\ walletRow'[q] = "stored" <=> walletRow[q] = "stored"
      BY <3>1, <2>t DEF EndTransaction, EndedRow, TypeOK
    <3> QED
      BY <3>1, <3>2
  <2>4. ASSUME NEW r \in Requests, InsertUser(r) PROVE Same
    <3>1. userRow[r] = "absent"
      BY <2>4 DEF InsertUser, IInv, RowsFollowStage
    <3> QED
      BY <2>4, <2>t, <3>1 DEF InsertUser
  <2>5. ASSUME NEW r \in Requests, InsertWallet(r) PROVE Same
    <3>1. walletRow[r] = "absent"
      BY <2>5 DEF InsertWallet, IInv, WalletInTransaction
    <3> QED
      BY <2>5, <2>t, <3>1 DEF InsertWallet
  <2>6. ASSUME NEW d \in Deleters, DeleteRow(d) PROVE Acc!Next \/ Same
    <3> DEFINE u == deletion[d].user
    <3>1. u \in Requests
      BY <2>6, <2>t DEF TypeOK, DeleteRow, Deletions
    <3>2. CASE userRow[u] = "stored"
      <4>1. userRow' = [userRow EXCEPT ![u] = "deleted"] /\ UNCHANGED <<emailOf, walletRow>>
        BY <2>6, <3>2 DEF DeleteRow
      <4>2. Users' = Users \ {u} /\ Removed' = Removed \cup {u} /\ Wallets' = Wallets
        BY <2>t, <3>1, <3>2, <4>1 DEF TypeOK
      <4> QED
        BY <3>1, <3>2, <4>1, <4>2 DEF Acc!Next, Acc!Remove
    <3>3. CASE userRow[u] # "stored"
      BY <2>6, <2>t, <3>1, <3>3 DEF DeleteRow, TypeOK
    <3> QED
      BY <3>2, <3>3
  <2>7. CASE Crash
    BY <2>7, <2>t DEF Crash, EndedRow
  <2>8. CASE UNCHANGED <<emailOf, userRow, walletRow>>
    BY <2>8
  <2>9. ASSUME NEW r \in Requests,
               \/ Begin(r) \/ BeginTimesOut(r) \/ InsertUserConflicts(r) \/ InsertUserFails(r)
               \/ InsertWalletFails(r) \/ WalletSettles(r) \/ InsertSaga(r) \/ ProjectUser(r)
               \/ FindSaga(r) \/ CompleteSaga(r) \/ ProjectWallet(r)
               \/ \E k \in OnPool : PoolListenerFails(r, k)
        PROVE  UNCHANGED <<emailOf, userRow, walletRow>>
    BY <2>9 DEF Begin, BeginTimesOut, InsertUserConflicts, InsertUserFails, InsertWalletFails,
       WalletSettles, InsertSaga, ProjectUser, FindSaga, CompleteSaga, ProjectWallet,
       PoolListenerFails
  <2>10. ASSUME NEW d \in Deleters, (\E u \in Requests : FindUser(d, u)) \/ DeletionFails(d)
         PROVE  UNCHANGED <<emailOf, userRow, walletRow>>
    BY <2>10 DEF FindUser, DeletionFails
  <2>11. CASE UNCHANGED vars
    BY <2>8, <2>11 DEF vars
  <2> QED
    BY <2>1, <2>2, <2>3, <2>4, <2>5, <2>6, <2>7, <2>8, <2>9, <2>10, <2>11
    DEF Next, Service, WalletListener, SagaUserListener, ProjUserListener, SagaWalletListener,
        ProjWalletListener, Deletion
<1> QED
  BY <1>1, <1>2, Invariant, PTL DEF Spec, ImplementsAccounts, Acc!Spec
-----------------------------------------------------------------------------
(* What is stored may only be deleted, and what is deleted stays so.       *)
LEMMA RowsStay ==
  ASSUME IInv, [Next]_vars
  PROVE  /\ UNCHANGED given
         /\ \A q \in Requests : /\ userRow[q] = "stored" => userRow'[q] \in {"stored", "deleted"}
                                /\ userRow[q] = "deleted" => userRow'[q] = "deleted"
<1> DEFINE Stay == /\ UNCHANGED given
                   /\ \A q \in Requests :
                        /\ userRow[q] = "stored" => userRow'[q] \in {"stored", "deleted"}
                        /\ userRow[q] = "deleted" => userRow'[q] = "deleted"
<1>t. TypeOK
  BY DEF IInv
<1>p. RowsFollowStage
  BY DEF IInv
<1> USE DEF TypeOK, RowsFollowStage
<1>1. ASSUME NEW r \in Requests, InsertUser(r) PROVE Stay
  BY <1>1, <1>t, <1>p DEF InsertUser
<1>2. ASSUME NEW r \in Requests, InsertUserConflicts(r) PROVE Stay
  BY <1>2, <1>t, <1>p DEF InsertUserConflicts
<1>3. ASSUME NEW r \in Requests, InsertUserFails(r) PROVE Stay
  BY <1>3, <1>t, <1>p DEF InsertUserFails
<1>4. ASSUME NEW r \in Requests, Commit(r) PROVE Stay
  BY <1>4, <1>t, <1>p DEF Commit, EndTransaction, EndedRow
<1>5. ASSUME NEW r \in Requests, CommitBreaks(r) PROVE Stay
  BY <1>5, <1>t, <1>p DEF CommitBreaks, EndTransaction, EndedRow
<1>6. ASSUME NEW r \in Requests, ListenerFailed(r) PROVE Stay
  BY <1>6, <1>t, <1>p DEF ListenerFailed, EndTransaction, EndedRow
<1>7. ASSUME NEW r \in Requests, Rollback(r) PROVE Stay
  BY <1>7, <1>t, <1>p DEF Rollback, EndTransaction, EndedRow, Answer
<1>8. ASSUME NEW r \in Requests, InsertWallet(r) PROVE Stay
  BY <1>8, <1>t, <1>p DEF InsertWallet
<1>9. ASSUME NEW r \in Requests, InsertWalletFails(r) PROVE Stay
  BY <1>9, <1>t, <1>p DEF InsertWalletFails
<1>10. ASSUME NEW r \in Requests, WalletSettles(r) PROVE Stay
  BY <1>10, <1>t, <1>p DEF WalletSettles
<1>11. ASSUME NEW r \in Requests, InsertSaga(r) PROVE Stay
  BY <1>11, <1>t, <1>p DEF InsertSaga
<1>12. ASSUME NEW r \in Requests, ProjectUser(r) PROVE Stay
  BY <1>12, <1>t, <1>p DEF ProjectUser
<1>13. ASSUME NEW r \in Requests, FindSaga(r) PROVE Stay
  BY <1>13, <1>t, <1>p DEF FindSaga
<1>14. ASSUME NEW r \in Requests, CompleteSaga(r) PROVE Stay
  BY <1>14, <1>t, <1>p DEF CompleteSaga
<1>15. ASSUME NEW r \in Requests, ProjectWallet(r) PROVE Stay
  BY <1>15, <1>t, <1>p DEF ProjectWallet
<1>16. ASSUME NEW r \in Requests, Begin(r) PROVE Stay
  BY <1>16, <1>t, <1>p DEF Begin
<1>17. ASSUME NEW r \in Requests, BeginTimesOut(r) PROVE Stay
  BY <1>17, <1>t, <1>p DEF BeginTimesOut
<1>18. ASSUME NEW r \in Requests, NEW k \in OnPool, PoolListenerFails(r, k) PROVE Stay
  BY <1>18 DEF PoolListenerFails
<1>19. ASSUME NEW d \in Deleters, Deletion(d) PROVE Stay
  BY <1>19, <1>t DEF Deletion, FindUser, DeleteRow, DeletionFails
<1>20. CASE Crash
  BY <1>20, <1>t DEF Crash, EndedRow
<1>21. CASE UNCHANGED vars
  BY <1>21 DEF vars
<1> QED
  BY <1>1, <1>2, <1>3, <1>4, <1>5, <1>6, <1>7, <1>8, <1>9, <1>10, <1>11, <1>12, <1>13, <1>14,
     <1>15, <1>16, <1>17, <1>18, <1>19, <1>20, <1>21 DEF Next, Service, WalletListener,
     SagaUserListener, ProjUserListener, SagaWalletListener, ProjWalletListener

(* Deletions report success only for rows that are deleted.                *)
DeletionsAreTrue ==
  \A d \in Deleters : deletion[d].at = "true" => userRow[deletion[d].user] = "deleted"

(* Of several deletions of one user, at most one reports success           *)
(* (OneDeletionSucceeds): the DELETE itself tells whether it met the row,  *)
(* however many found the user before.                                     *)
THEOREM OneDeletion == Spec => []OneDeletionSucceeds
<1> DEFINE J == DeletionsAreTrue /\ OneDeletionSucceeds
<1>1. Init => J
  BY DEF Init, DeletionsAreTrue, OneDeletionSucceeds
<1>2. IInv /\ J /\ [Next]_vars => J'
  <2> SUFFICES ASSUME IInv, J, [Next]_vars PROVE J'
    OBVIOUS
  <2>t. TypeOK
    BY DEF IInv
  <2>1. CASE UNCHANGED deletion
    <3>1. \A d \in Deleters : deletion[d].at = "true" => deletion[d].user \in Requests
      BY <2>t DEF TypeOK, Deletions
    <3> QED
      BY <2>1, <3>1, RowsStay DEF DeletionsAreTrue, OneDeletionSucceeds
  <2>2. ASSUME NEW d \in Deleters, NEW u \in Requests, FindUser(d, u) PROVE J'
    <3>1. /\ \A e \in Deleters \ {d} : deletion'[e] = deletion[e]
          /\ deletion'[d].at \in {"found", "notFound"}
      BY <2>2, <2>t DEF FindUser, SetDeletion, TypeOK
    <3>2. userRow' = userRow
      BY <2>2 DEF FindUser
    <3> QED
      BY <3>1, <3>2 DEF DeletionsAreTrue, OneDeletionSucceeds
  <2>3. ASSUME NEW d \in Deleters, DeletionFails(d) PROVE J'
    BY <2>3, <2>t DEF DeletionFails, SetDeletion, TypeOK, Deletions, DeletionsAreTrue,
                      OneDeletionSucceeds
  <2>4. ASSUME NEW d \in Deleters, DeleteRow(d) PROVE J'
    <3> DEFINE u == deletion[d].user
    <3>1. u \in Requests
      BY <2>4, <2>t DEF DeleteRow, TypeOK, Deletions
    <3>2. \A e \in Deleters \ {d} : deletion'[e] = deletion[e]
      BY <2>4, <2>t DEF DeleteRow, SetDeletion, TypeOK
    <3>3. CASE userRow[u] = "stored"
      <4>1. userRow' = [userRow EXCEPT ![u] = "deleted"]
        BY <2>4, <3>3 DEF DeleteRow
      <4>2. \A e \in Deleters : deletion[e].at = "true" => deletion[e].user # u
        BY <3>3 DEF DeletionsAreTrue
      <4>3. deletion'[d].user = u
        BY <2>4, <2>t, <3>3 DEF DeleteRow, Deletes, SetDeletion, TypeOK
      <4>4. userRow \in [Requests -> Rows]
        BY <2>t DEF TypeOK
      <4>5. \A e \in Deleters : deletion[e].at = "true" => userRow'[deletion[e].user] = "deleted"
        <5> SUFFICES ASSUME NEW e \in Deleters, deletion[e].at = "true"
                     PROVE  userRow'[deletion[e].user] = "deleted"
          OBVIOUS
        <5>1. deletion[e].user \in Requests
          BY <2>t DEF TypeOK, Deletions
        <5>2. userRow[deletion[e].user] = "deleted"
          BY DEF DeletionsAreTrue
        <5> QED
          BY <5>1, <5>2, <4>1, <4>4
      <4>6. DeletionsAreTrue'
        BY <3>1, <3>2, <4>1, <4>3, <4>4, <4>5 DEF DeletionsAreTrue
      <4>7. OneDeletionSucceeds'
        BY <3>2, <4>2, <4>3 DEF OneDeletionSucceeds
      <4> QED
        BY <4>6, <4>7
    <3>4. CASE userRow[u] # "stored"
      <4>1. deletion'[d].at = "false" /\ userRow' = userRow
        BY <2>4, <2>t, <3>1, <3>4 DEF DeleteRow, Deletes, SetDeletion, TypeOK, Deletions
      <4> QED
        BY <3>2, <4>1 DEF DeletionsAreTrue, OneDeletionSucceeds
    <3> QED
      BY <3>3, <3>4
  <2>5. CASE Crash
    <3>1. \A d \in Deleters : deletion'[d].at = "true" => deletion'[d] = deletion[d]
      BY <2>5, <2>t DEF Crash, TypeOK, Deletions
    <3>2. \A d \in Deleters : deletion[d].at = "true" => deletion[d].user \in Requests
      BY <2>t DEF TypeOK, Deletions
    <3> QED
      BY <3>1, <3>2, RowsStay DEF DeletionsAreTrue, OneDeletionSucceeds
  <2>6. ASSUME NEW r \in Requests,
               \/ Begin(r) \/ BeginTimesOut(r) \/ Service(r) \/ WalletListener(r)
               \/ SagaUserListener(r) \/ ProjUserListener(r)
               \/ SagaWalletListener(r) \/ ProjWalletListener(r)
        PROVE  UNCHANGED deletion
    BY <2>6 DEF Begin, BeginTimesOut, Service, InsertUser, InsertUserConflicts, InsertUserFails,
       Commit, CommitBreaks, ListenerFailed, Rollback, WalletListener, InsertWallet,
       InsertWalletFails, WalletSettles, SagaUserListener, ProjUserListener, SagaWalletListener,
       ProjWalletListener, InsertSaga, ProjectUser, FindSaga, CompleteSaga, ProjectWallet,
       PoolListenerFails
  <2>7. CASE UNCHANGED vars
    BY <2>1, <2>7 DEF vars
  <2> QED
    BY <2>1, <2>2, <2>3, <2>4, <2>5, <2>6, <2>7 DEF Next, Deletion
<1> QED
  BY <1>1, <1>2, Invariant, PTL DEF Spec

(* A request reports a conflict only from the step that met a stored row.  *)
LEMMA ConflictsArise ==
  ASSUME TypeOK, [Next]_vars, NEW r \in Requests, stage'[r] \in {"conflicting", "conflict"}
  PROVE  stage[r] \in {"conflicting", "conflict"} \/ EmailTaken(r)
<1> DEFINE Arises == stage[r] \in {"conflicting", "conflict"} \/ EmailTaken(r)
<1> USE DEF TypeOK
<1>1. ASSUME NEW q \in Requests, InsertUserConflicts(q) PROVE Arises
  BY <1>1 DEF InsertUserConflicts
<1>2. ASSUME NEW q \in Requests, Rollback(q) PROVE Arises
  BY <1>2 DEF Rollback, Answer
<1>3. ASSUME NEW q \in Requests,
             \/ Begin(q) \/ BeginTimesOut(q) \/ InsertUser(q) \/ InsertUserFails(q)
             \/ Commit(q) \/ CommitBreaks(q) \/ ListenerFailed(q)
      PROVE  Arises
  <2>1. PICK to \in {"inserting", "error", "publishing", "failing", "ok"} :
          stage' = [stage EXCEPT ![q] = to]
    BY <1>3 DEF Begin, BeginTimesOut, InsertUser, InsertUserFails, Commit, CommitBreaks,
                ListenerFailed
  <2> QED
    BY <2>1
<1>4. CASE Crash
  BY <1>4 DEF Crash
<1>5. ASSUME NEW q \in Requests,
             \/ WalletListener(q) \/ SagaUserListener(q) \/ ProjUserListener(q)
             \/ SagaWalletListener(q) \/ ProjWalletListener(q)
      PROVE  UNCHANGED stage
  BY <1>5 DEF WalletListener, InsertWallet, InsertWalletFails, WalletSettles, SagaUserListener,
     ProjUserListener, SagaWalletListener, ProjWalletListener, InsertSaga, ProjectUser, FindSaga,
     CompleteSaga, ProjectWallet, PoolListenerFails
<1>6. ASSUME NEW d \in Deleters, Deletion(d) PROVE UNCHANGED stage
  BY <1>6 DEF Deletion, FindUser, DeleteRow, DeletionFails
<1>7. CASE UNCHANGED vars
  BY <1>7 DEF vars
<1> QED
  BY <1>1, <1>2, <1>3, <1>4, <1>5, <1>6, <1>7 DEF Next, Service

(* A conflict is reported only because of a user that was really stored    *)
(* (ConflictIsGenuine): an insert waits for an open transaction with the   *)
(* same address, and what is stored is never taken back, only deleted.     *)
THEOREM GenuineConflicts == Spec => []ConflictIsGenuine
<1>1. Init => ConflictIsGenuine
  BY DEF Init, ConflictIsGenuine
<1>2. IInv /\ ConflictIsGenuine /\ [Next]_vars => ConflictIsGenuine'
  <2> SUFFICES ASSUME IInv, ConflictIsGenuine, [Next]_vars,
                      NEW r \in Requests, stage'[r] \in {"conflicting", "conflict"}
               PROVE  \E q \in Requests \ {r} : /\ emailOf'[q] = emailOf'[r]
                                                /\ userRow'[q] \in {"stored", "deleted"}
    BY DEF ConflictIsGenuine
  <2>1. \E q \in Requests \ {r} : emailOf[q] = emailOf[r] /\ userRow[q] \in {"stored", "deleted"}
    <3>1. stage[r] \in {"conflicting", "conflict"} \/ EmailTaken(r)
      BY ConflictsArise DEF IInv
    <3> QED
      BY <3>1 DEF ConflictIsGenuine, EmailTaken
  <2> QED
    BY <2>1, RowsStay DEF given
<1> QED
  BY <1>1, <1>2, Invariant, PTL DEF Spec
-----------------------------------------------------------------------------
(* An acquisition always ends: either a connection is free, or all of them *)
(* are taken and the timeout fires.                                        *)
LEMMA AcquisitionEnds ==
  ASSUME NEW r \in Requests, NEW k \in OnPool
  PROVE  ConnectionFree \/ GivesUp({<<r, k>>})
<1>1. IsFiniteSet(Connected)
  BY RequestsAssumption, FS_Subset DEF Connected
<1>2. IsFiniteSet(Statements \ {<<r, k>>})
  <2>1. IsFiniteSet(OnPool)
    <3>1. \A S, l : IsFiniteSet(S) => IsFiniteSet(S \cup {l})
      BY FS_AddElement
    <3>2. IsFiniteSet((({"sagaUser"} \cup {"projUser"}) \cup {"sagaWallet"}) \cup {"projWallet"})
      BY <3>1, FS_Singleton, Zenon
    <3> QED
      BY <3>2, OnPool = (({"sagaUser"} \cup {"projUser"}) \cup {"sagaWallet"}) \cup {"projWallet"}
  <2>2. IsFiniteSet(Requests \X OnPool)
    BY <2>1, RequestsAssumption, FS_Product
  <2> QED
    BY <2>2, FS_Subset DEF Statements
<1>3. Cardinality(Connected) \in Nat /\ Cardinality(Statements \ {<<r, k>>}) \in Nat
  BY <1>1, <1>2, FS_CardinalityType
<1> QED
  BY <1>3, PoolAssumption DEF ConnectionFree, GivesUp

(* A request that publishes can go on: a listener on the pool gets its     *)
(* connection or gives up, the wallet's INSERT finds its transaction open, *)
(* and once the listeners are through, so is the promise that waits.       *)
LEMMA PublishingAdvances ==
  ASSUME IInv, NEW r \in Requests, stage[r] = "publishing"
  PROVE  CanAdvance(r)
<1> USE DEF IInv
<1>1. /\ \A k \in Handlers : handler[r][k] \in HandlerStates
      /\ \A k \in OnUserCreated : handler[r][k] # "off"
      /\ suppresses \in BOOLEAN
  BY DEF TypeOK, StagesFollowListeners
<1>2. CASE \E k \in OnPool : handler[r][k] \in {"queued", "found"}
  BY <1>2, AcquisitionEnds DEF CanAdvance
<1>3. CASE handler[r]["wallet"] = "queued"
  <2>1. tx[r] = "active"
    BY <1>3 DEF StagesFollowListeners
  <2> QED
    BY <1>3, <2>1 DEF CanAdvance
<1>4. CASE /\ \A k \in OnPool : handler[r][k] \notin {"queued", "found"}
           /\ handler[r]["wallet"] = "publishing"
  <2>1. \A k \in OnWalletCreated : handler[r][k] \in {"done", "missed", "failed"}
    BY <1>1, <1>4 DEF StagesFollowListeners, ListenersRecord
  <2>2. Resolved(r, OnWalletCreated) \/ Rejected(r, OnWalletCreated)
    BY <1>1, <2>1 DEF Resolved, Rejected
  <2> QED
    BY <1>4, <2>2 DEF CanAdvance
<1>5. CASE /\ \A k \in OnPool : handler[r][k] \notin {"queued", "found"}
           /\ handler[r]["wallet"] \notin {"queued", "publishing"}
  <2>1. \A k \in OnUserCreated : handler[r][k] \in {"done", "missed", "failed"}
    BY <1>1, <1>5 DEF ListenersRecord
  <2>2. Resolved(r, OnUserCreated) \/ Rejected(r, OnUserCreated)
    BY <1>1, <2>1 DEF Resolved, Rejected
  <2> QED
    BY <1>5, <2>2 DEF CanAdvance
<1> QED
  BY <1>2, <1>3, <1>4, <1>5

(* No circular wait (NobodyIsStuck), however small the pool: an insert     *)
(* waits only for a request that publishes, and that one can go on.        *)
THEOREM NeverStuck == Spec => []NobodyIsStuck
<1>1. IInv => NobodyIsStuck
  <2> SUFFICES ASSUME IInv, NEW r \in Requests, stage[r] \in Started
               PROVE  \E q \in Requests : stage[q] \in Started /\ CanAdvance(q)
    BY DEF NobodyIsStuck
  <2>1. CASE stage[r] = "inserting" /\ EmailLocked(r)
    <3>1. PICK q \in Requests : userRow[q] = "pending"
      BY <2>1 DEF EmailLocked
    <3>2. stage[q] = "publishing"
      BY <3>1 DEF IInv, RowsFollowStage
    <3> QED
      BY <3>2, PublishingAdvances
  <2>2. CASE stage[r] = "inserting" /\ ~EmailLocked(r)
    BY <2>2 DEF CanAdvance
  <2>3. CASE stage[r] = "publishing"
    BY <2>3, PublishingAdvances
  <2>4. CASE stage[r] \in {"conflicting", "failing"}
    BY <2>4 DEF CanAdvance
  <2> QED
    BY <2>1, <2>2, <2>3, <2>4
<1> QED
  BY <1>1, Invariant, PTL

-----------------------------------------------------------------------------
(* How far a request and a listener are.                                   *)

Depth(at) ==
  IF at = "idle" THEN 0 ELSE IF at = "inserting" THEN 1
  ELSE IF at \in {"publishing", "conflicting", "failing"} THEN 2 ELSE 3

Age(state) ==
  IF state = "off" THEN 0 ELSE IF state = "queued" THEN 1
  ELSE IF state \in {"found", "publishing"} THEN 2 ELSE 3

Moves(r) == stage'[r] # stage[r] \/ \E k \in Handlers : handler'[r][k] # handler[r][k]

Forward ==
  \A r \in Requests :
    /\ stage'[r] # stage[r] => Depth(stage'[r]) > Depth(stage[r])
    /\ \A k \in Handlers :
         handler'[r][k] # handler[r][k] => Age(handler'[r][k]) > Age(handler[r][k])

LEMMA ServiceForward ==
  ASSUME TypeOK, handler' = handler, NEW r \in Requests, NEW to \in Stages,
         stage' = [stage EXCEPT ![r] = to], Depth(to) > Depth(stage[r])
  PROVE  Forward
<1>1. \A q \in Requests : stage'[q] = IF q = r THEN to ELSE stage[q]
  BY DEF TypeOK
<1> QED
  BY <1>1 DEF Forward

LEMMA ListenerForward ==
  ASSUME TypeOK, stage' = stage, NEW r \in Requests, NEW k \in Handlers, NEW to,
         SetHandler(r, k, to), Age(to) > Age(handler[r][k])
  PROVE  Forward
<1>1. \A q \in Requests, l \in Handlers :
        handler'[q][l] = IF q = r /\ l = k THEN to ELSE handler[q][l]
  BY SetHandlerEffect
<1> QED
  BY <1>1 DEF Forward

LEMMA ForwardStep == IInv /\ [Next]_vars => Forward
<1> SUFFICES ASSUME IInv, [Next]_vars PROVE Forward
  OBVIOUS
<1>t. TypeOK
  BY DEF IInv
<1>1. ASSUME NEW r \in Requests, InsertUser(r) PROVE Forward
  <2>1. \A k \in Handlers : handler[r][k] = "off"
    BY <1>1 DEF IInv, StagesFollowListeners, InsertUser
  <2>2. \A q \in Requests, l \in Handlers :
          handler'[q][l] = IF q # r THEN handler[q][l]
                           ELSE IF l \in OnUserCreated THEN "queued" ELSE handler[q][l]
    <3>1. "none" \notin Handlers
      OBVIOUS
    <3>2. Emit(r, "none", "off", OnUserCreated)
      BY <1>1 DEF InsertUser
    <3>3. \A q \in Requests, l \in Handlers :
            handler'[q][l] = IF q # r THEN handler[q][l]
                             ELSE IF l \in OnUserCreated THEN "queued"
                             ELSE IF l = "none" THEN "off" ELSE handler[q][l]
      BY <1>t, <3>2, EmitEffect
    <3> QED
      BY <3>1, <3>3
  <2>3. \A q \in Requests : stage'[q] = IF q = r THEN "publishing" ELSE stage[q]
    BY <1>1, <1>t DEF InsertUser, TypeOK
  <2>4. stage[r] = "inserting"
    BY <1>1 DEF InsertUser
  <2> QED
    BY <2>1, <2>2, <2>3, <2>4 DEF Forward, Depth, Age
<1>2. ASSUME NEW r \in Requests, Begin(r) \/ BeginTimesOut(r) PROVE Forward
  BY <1>2, <1>t, ServiceForward DEF Begin, BeginTimesOut, Depth
<1>3. ASSUME NEW r \in Requests, InsertUserConflicts(r) \/ InsertUserFails(r) PROVE Forward
  BY <1>3, <1>t, ServiceForward DEF InsertUserConflicts, InsertUserFails, Depth
<1>4. ASSUME NEW r \in Requests, Commit(r) \/ CommitBreaks(r) \/ ListenerFailed(r) PROVE Forward
  <2>1. PICK to \in {"ok", "error"} : stage' = [stage EXCEPT ![r] = to]
    BY <1>4 DEF Commit, CommitBreaks, ListenerFailed
  <2>2. handler' = handler /\ stage[r] = "publishing"
    BY <1>4 DEF Commit, CommitBreaks, ListenerFailed
  <2>3. to \in Stages /\ Depth(to) > Depth(stage[r])
    BY <2>2 DEF Depth
  <2> QED
    BY <1>t, <2>1, <2>2, <2>3, ServiceForward
<1>5. ASSUME NEW r \in Requests, Rollback(r) PROVE Forward
  <2>1. PICK to \in {"conflict", "error"} : stage' = [stage EXCEPT ![r] = to]
    BY <1>5 DEF Rollback, Answer
  <2>2. handler' = handler /\ stage[r] \in {"conflicting", "failing"}
    BY <1>5 DEF Rollback
  <2>3. to \in Stages /\ Depth(to) > Depth(stage[r])
    BY <2>2 DEF Depth
  <2> QED
    BY <1>t, <2>1, <2>2, <2>3, ServiceForward
<1>6. ASSUME NEW r \in Requests, InsertWallet(r) PROVE Forward
  <2>1. handler[r]["wallet"] = "queued" /\ \A k \in OnWalletCreated : handler[r][k] = "off"
    BY <1>6 DEF IInv, WalletListeners, InsertWallet
  <2>2. \A q \in Requests, l \in Handlers :
          handler'[q][l] = IF q # r THEN handler[q][l]
                           ELSE IF l \in OnWalletCreated THEN "queued"
                           ELSE IF l = "wallet" THEN "publishing" ELSE handler[q][l]
    BY <1>6, <1>t, EmitEffect DEF InsertWallet
  <2>3. stage' = stage
    BY <1>6 DEF InsertWallet
  <2> QED
    BY <2>1, <2>2, <2>3 DEF Forward, Age
<1>7. ASSUME NEW r \in Requests, InsertWalletFails(r) \/ WalletSettles(r) PROVE Forward
  BY <1>7, <1>t, ListenerForward DEF InsertWalletFails, WalletSettles, Age
<1>8. ASSUME NEW r \in Requests, InsertSaga(r) \/ ProjectUser(r) PROVE Forward
  BY <1>8, <1>t, ListenerForward DEF InsertSaga, ProjectUser, Age
<1>9. ASSUME NEW r \in Requests, FindSaga(r) \/ CompleteSaga(r) \/ ProjectWallet(r) PROVE Forward
  BY <1>9, <1>t, ListenerForward DEF FindSaga, CompleteSaga, ProjectWallet, Age
<1>10. ASSUME NEW r \in Requests, NEW k \in OnPool, PoolListenerFails(r, k) PROVE Forward
  BY <1>10, <1>t, ListenerForward DEF PoolListenerFails, Age
<1>11. ASSUME NEW d \in Deleters, Deletion(d) PROVE Forward
  BY <1>11 DEF Deletion, FindUser, DeleteRow, DeletionFails, Forward
<1>12. CASE Crash
  <2>1. \A r \in Requests : stage'[r] = IF stage[r] \in Started THEN "lost" ELSE stage[r]
    BY <1>12 DEF Crash
  <2>2. \A r \in Requests, k \in Handlers :
          handler'[r][k] = IF handler[r][k] \in Running THEN "failed" ELSE handler[r][k]
    BY <1>12 DEF Crash
  <2> QED
    BY <2>1, <2>2 DEF Forward, Depth, Age
<1>13. CASE UNCHANGED vars
  BY <1>13 DEF vars, Forward
<1> QED
  BY <1>1, <1>2, <1>3, <1>4, <1>5, <1>6, <1>7, <1>8, <1>9, <1>10, <1>11, <1>12, <1>13
  DEF Next, Service, WalletListener, SagaUserListener, ProjUserListener, SagaWalletListener,
      ProjWalletListener

LEMMA AdvancesMoves ==
  ASSUME IInv, NEW r \in Requests, Advances(r)
  PROVE  Moves(r)
<1>t. TypeOK
  BY DEF IInv
<1>1. ASSUME NEW to, stage' = [stage EXCEPT ![r] = to], to # stage[r] PROVE Moves(r)
  BY <1>1, <1>t DEF TypeOK, Moves
<1>2. ASSUME NEW k \in Handlers, NEW to, SetHandler(r, k, to), to # handler[r][k] PROVE Moves(r)
  BY <1>2, <1>t, SetHandlerEffect DEF Moves
<1>3. CASE InsertUser(r) \/ InsertUserConflicts(r)
  BY <1>1, <1>3 DEF InsertUser, InsertUserConflicts
<1>4. CASE Commit(r) \/ ListenerFailed(r) \/ Rollback(r)
  BY <1>1, <1>4 DEF Commit, ListenerFailed, Rollback, Answer
<1>5. CASE InsertWallet(r)
  <2>1. handler'[r]["wallet"] = "publishing" /\ handler[r]["wallet"] = "queued"
    BY <1>5, <1>t, EmitEffect DEF InsertWallet
  <2> QED
    BY <2>1 DEF Moves
<1>6. CASE WalletSettles(r) \/ InsertSaga(r) \/ ProjectUser(r)
  BY <1>2, <1>6 DEF WalletSettles, InsertSaga, ProjectUser
<1>7. CASE FindSaga(r) \/ CompleteSaga(r) \/ ProjectWallet(r)
  BY <1>2, <1>7 DEF FindSaga, CompleteSaga, ProjectWallet
<1>8. ASSUME NEW k \in OnPool, PoolListenerFails(r, k) PROVE Moves(r)
  BY <1>2, <1>8 DEF PoolListenerFails
<1> QED
  BY <1>3, <1>4, <1>5, <1>6, <1>7, <1>8 DEF Advances

(* No step takes a request back to an earlier stage or changes its answer, *)
(* and no listener is begun or ends twice; what the event loop, the        *)
(* database and the acquisition timeout do for a request by themselves     *)
(* always takes it or one of its listeners further.  With NeverStuck: of   *)
(* finitely many requests none can be served for ever.                     *)
THEOREM OnlyForward ==
  Spec => [][Forward /\ \A r \in Requests : Advances(r) => Moves(r)]_vars
<1>1. IInv /\ [Next]_vars => [Forward /\ \A r \in Requests : Advances(r) => Moves(r)]_vars
  BY ForwardStep, AdvancesMoves
<1> QED
  BY <1>1, Invariant, PTL DEF Spec
=============================================================================
