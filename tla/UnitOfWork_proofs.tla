-------------------------- MODULE UnitOfWork_proofs --------------------------
(***************************************************************************)
(* For any set of listeners, any nesting of transaction() calls, either    *)
(* kind of emitter and any faults.                                         *)
(***************************************************************************)
EXTENDS UnitOfWork, TLAPS

USE NamesAssumption DEF Chains

(* Effects of the shared operators. *)
LEMMA GoEffect ==
  ASSUME TypeOK, NEW t \in Chains, NEW to, Go(t, to)
  PROVE  \A q \in Chains : at'[q] = IF q = t THEN to ELSE at[q]
  BY DEF TypeOK, Go

LEMMA SettleEffect ==
  ASSUME NEW S, NEW to, Settle(S, to)
  PROVE  \A q \in Chains : row'[q] = IF q \in S THEN to ELSE row[q]
  BY DEF Settle

LEMMA PublishedEffect ==
  ASSUME TypeOK, NEW t \in Chains, Published(t)
  PROVE  \A q \in Chains :
           at'[q] = IF t = Service THEN IF q = Service THEN "publishing" ELSE "ready"
                    ELSE IF q # t THEN at[q]
                    ELSE IF t \in nests THEN "leavingOk" ELSE "done"
  BY GoEffect DEF Published, Returns, TypeOK, Go

(* Every step keeps the types. *)
LEMMA TypeStep == TypeOK /\ [Next]_vars => TypeOK'
<1> SUFFICES ASSUME TypeOK, [Next]_vars PROVE TypeOK'
  OBVIOUS
<1> USE DEF TypeOK, fixed, Inside, Ending, Over, Go
<1>1. ASSUME NEW t \in Chains, Open(t) PROVE TypeOK'
  BY <1>1 DEF Open
<1>2. ASSUME NEW t \in Chains, Enter(t) PROVE TypeOK'
  BY <1>2 DEF Enter, Held, PendingOn
<1>3. ASSUME NEW t \in Chains, OpenFails(t) \/ Leave(t) PROVE TypeOK'
  BY <1>3 DEF OpenFails, Leave, Cleared
<1>4. ASSUME NEW t \in Chains, EndTransaction(t) \/ CommitBreaks(t) PROVE TypeOK'
  BY <1>4 DEF EndTransaction, CommitBreaks, Settle
<1>5. ASSUME NEW t \in Chains, EndSavepoint(t) PROVE TypeOK'
  BY <1>5 DEF EndSavepoint, Settle
<1>6. ASSUME NEW t \in Chains, Write(t) PROVE TypeOK'
  BY <1>6 DEF Write, Target, Published, Returns
<1>7. ASSUME NEW t \in Chains, WriteFails(t) PROVE TypeOK'
  BY <1>7 DEF WriteFails, Throws
<1>8. CASE ThrowsWithoutContext \/ PublishEnds
  BY <1>8 DEF ThrowsWithoutContext, PublishEnds, Returns, Throws
<1>9. CASE Crash
  BY <1>9 DEF Crash
<1>10. ASSUME NEW to \in {"stored", "lost"}, Audit(to) PROVE TypeOK'
  BY <1>10 DEF Audit
<1>11. CASE UNCHANGED vars
  BY <1>11 DEF vars
<1> QED
  BY <1>1, <1>2, <1>3, <1>4, <1>5, <1>6, <1>7, <1>8, <1>9, <1>10, <1>11
     DEF Next, Transaction, FromCli, FromMessage

(* The service runs alone until it publishes. *)
LEMMA ServiceFirstStep == TypeOK /\ ServiceFirst /\ [Next]_vars => ServiceFirst'
<1> SUFFICES ASSUME TypeOK, ServiceFirst, [Next]_vars PROVE ServiceFirst'
  OBVIOUS
<1> USE DEF TypeOK, ServiceFirst, fixed, Inside, Ending, Over
<1>1. ASSUME NEW t \in Chains, Open(t) PROVE ServiceFirst'
  BY <1>1, GoEffect DEF Open
<1>2. ASSUME NEW t \in Chains, Enter(t) PROVE ServiceFirst'
  BY <1>2, GoEffect DEF Enter, Held
<1>3. ASSUME NEW t \in Chains, OpenFails(t) PROVE ServiceFirst'
  BY <1>3, GoEffect DEF OpenFails
<1>4. ASSUME NEW t \in Chains, Leave(t) PROVE ServiceFirst'
  BY <1>4, GoEffect DEF Leave, Cleared
<1>5. ASSUME NEW t \in Chains, EndTransaction(t) \/ CommitBreaks(t) PROVE ServiceFirst'
  <2>1. CASE EndTransaction(t)
    BY <2>1, GoEffect, SettleEffect DEF EndTransaction
  <2>2. CASE CommitBreaks(t)
    BY <2>2, GoEffect, SettleEffect DEF CommitBreaks
  <2> QED
    BY <1>5, <2>1, <2>2
<1>6. ASSUME NEW t \in Chains, EndSavepoint(t) PROVE ServiceFirst'
  BY <1>6, GoEffect, SettleEffect DEF EndSavepoint
<1>7. ASSUME NEW t \in Chains, Write(t) PROVE ServiceFirst'
  <2>1. CASE t = Service
    BY <1>7, <2>1, PublishedEffect DEF Write, Writes
  <2>2. CASE t \in Listeners
    BY <1>7, <2>2, PublishedEffect DEF Write, Writes
  <2> QED
    BY <2>1, <2>2
<1>8. ASSUME NEW t \in Chains, WriteFails(t) PROVE ServiceFirst'
  BY <1>8, GoEffect DEF WriteFails, Writes, Throws
<1>9. CASE ThrowsWithoutContext
  BY <1>9, GoEffect DEF ThrowsWithoutContext
<1>10. CASE PublishEnds
  BY <1>10, GoEffect DEF PublishEnds, Returns, Throws
<1>11. CASE Crash
  BY <1>11 DEF Crash
<1>12. ASSUME NEW to \in {"stored", "lost"}, Audit(to) PROVE ServiceFirst'
  BY <1>12 DEF Audit
<1>13. CASE UNCHANGED vars
  BY <1>13 DEF vars
<1> QED
  BY <1>1, <1>2, <1>3, <1>4, <1>5, <1>6, <1>7, <1>8, <1>9, <1>10, <1>11, <1>12, <1>13
     DEF Next, Transaction, FromCli, FromMessage

(* The context holds a connection only while a call on it is in its        *)
(* handler: entering adds such a call, and every finally clears.           *)
LEMMA ContextStep ==
  TypeOK /\ ServiceFirst /\ ContextHasUser /\ [Next]_vars => ContextHasUser'
<1> SUFFICES ASSUME TypeOK, ServiceFirst, ContextHasUser, [Next]_vars PROVE ContextHasUser'
  OBVIOUS
<1> USE DEF TypeOK, ServiceFirst, ContextHasUser, fixed, Inside, Ending, Over
<1>1. ASSUME NEW t \in Chains, Open(t) PROVE ContextHasUser'
  BY <1>1, GoEffect DEF Open
<1>2. ASSUME NEW t \in Chains, Enter(t) PROVE ContextHasUser'
  BY <1>2, GoEffect DEF Enter, Held
<1>3. ASSUME NEW t \in Chains, OpenFails(t) PROVE ContextHasUser'
  BY <1>3, GoEffect DEF OpenFails
<1>4. ASSUME NEW t \in Chains, Leave(t) PROVE ContextHasUser'
  BY <1>4 DEF Leave, Cleared
<1>5. ASSUME NEW t \in Chains, EndTransaction(t) \/ CommitBreaks(t) \/ EndSavepoint(t)
      PROVE  ContextHasUser'
  BY <1>5, GoEffect DEF EndTransaction, CommitBreaks, EndSavepoint
<1>6. ASSUME NEW t \in Chains, Write(t) PROVE ContextHasUser'
  BY <1>6, PublishedEffect DEF Write, Writes
<1>7. ASSUME NEW t \in Chains, WriteFails(t) PROVE ContextHasUser'
  BY <1>7, GoEffect DEF WriteFails, Writes, Throws
<1>8. CASE ThrowsWithoutContext
  BY <1>8, GoEffect DEF ThrowsWithoutContext
<1>9. CASE PublishEnds
  BY <1>9, GoEffect DEF PublishEnds, Returns, Throws
<1>10. CASE Crash
  BY <1>10 DEF Crash
<1>11. ASSUME NEW to \in {"stored", "lost"}, Audit(to) PROVE ContextHasUser'
  BY <1>11 DEF Audit
<1>12. CASE UNCHANGED vars
  BY <1>12 DEF vars
<1> QED
  BY <1>1, <1>2, <1>3, <1>4, <1>5, <1>6, <1>7, <1>8, <1>9, <1>10, <1>11, <1>12
     DEF Next, Transaction, FromCli, FromMessage

(* While the unit is unbroken, no savepoint and no other transaction ended *)
(* and the context still holds the service's connection.                   *)
LEMMA UnitStep ==
  TypeOK /\ ServiceFirst /\ UnitOfService /\ SharedFate /\ [Next]_vars
    => UnitOfService' /\ SharedFate'
<1> SUFFICES ASSUME TypeOK, ServiceFirst, UnitOfService, SharedFate, [Next]_vars, Unbroken'
             PROVE  /\ UnitOfService' /\ SharedFate'
  BY DEF UnitOfService, SharedFate
<1> USE DEF TypeOK, ServiceFirst, UnitOfService, SharedFate, Unbroken, fixed, Inside, Ending, Over
<1> DEFINE Goal == UnitOfService' /\ SharedFate'
<1>1. ASSUME NEW t \in Chains, Open(t) PROVE Goal
  BY <1>1, GoEffect DEF Open
<1>2. ASSUME NEW t \in Chains, Enter(t) PROVE Goal
  BY <1>2, GoEffect DEF Enter, Held
<1>3. ASSUME NEW t \in Chains, OpenFails(t) PROVE Goal
  BY <1>3, GoEffect DEF OpenFails
<1>4. ASSUME NEW t \in Chains, Leave(t) PROVE Goal
  BY <1>4, GoEffect DEF Leave, Cleared
<1>5. ASSUME NEW t \in Chains, EndTransaction(t) \/ CommitBreaks(t) PROVE Goal
  <2>1. CASE EndTransaction(t)
    BY <2>1, GoEffect, SettleEffect DEF EndTransaction, PendingOn
  <2>2. CASE CommitBreaks(t)
    BY <2>2, GoEffect, SettleEffect DEF CommitBreaks, PendingOn
  <2> QED
    BY <1>5, <2>1, <2>2
<1>6. ASSUME NEW t \in Chains, EndSavepoint(t) PROVE Goal
  BY <1>6, GoEffect, SettleEffect DEF EndSavepoint
<1>7. ASSUME NEW t \in Chains, Write(t) PROVE Goal
  BY <1>7, PublishedEffect DEF Write, Writes, Target
<1>8. ASSUME NEW t \in Chains, WriteFails(t) PROVE Goal
  BY <1>8, GoEffect DEF WriteFails, Writes, Throws
<1>9. CASE ThrowsWithoutContext
  BY <1>9, GoEffect DEF ThrowsWithoutContext
<1>10. CASE PublishEnds
  BY <1>10, GoEffect DEF PublishEnds, Returns, Throws, Resolves
<1>11. CASE Crash
  BY <1>11 DEF Crash
<1>12. ASSUME NEW to \in {"stored", "lost"}, Audit(to) PROVE Goal
  BY <1>12 DEF Audit
<1>13. CASE UNCHANGED vars
  BY <1>13 DEF vars
<1> QED
  BY <1>1, <1>2, <1>3, <1>4, <1>5, <1>6, <1>7, <1>8, <1>9, <1>10, <1>11, <1>12, <1>13
     DEF Next, Transaction, FromCli, FromMessage

(* Rows stay pending only as long as the transaction they are in.          *)
LEMMA RowsStep ==
  TypeOK /\ ServiceFirst /\ RowsFollowTransactions /\ [Next]_vars => RowsFollowTransactions'
<1> SUFFICES ASSUME TypeOK, ServiceFirst, RowsFollowTransactions, [Next]_vars
             PROVE  RowsFollowTransactions'
  OBVIOUS
<1> USE DEF TypeOK, ServiceFirst, RowsFollowTransactions, fixed, Inside, Ending, Over
<1>1. ASSUME NEW t \in Chains, Open(t) PROVE RowsFollowTransactions'
  BY <1>1, GoEffect DEF Open
<1>2. ASSUME NEW t \in Chains, Enter(t) PROVE RowsFollowTransactions'
  BY <1>2, GoEffect DEF Enter, Held
<1>3. ASSUME NEW t \in Chains, OpenFails(t) PROVE RowsFollowTransactions'
  BY <1>3, GoEffect DEF OpenFails
<1>4. ASSUME NEW t \in Chains, Leave(t) PROVE RowsFollowTransactions'
  BY <1>4, GoEffect DEF Leave, Cleared
<1>5. ASSUME NEW t \in Chains, EndTransaction(t) \/ CommitBreaks(t) PROVE RowsFollowTransactions'
  <2>1. CASE EndTransaction(t)
    BY <2>1, GoEffect, SettleEffect DEF EndTransaction, PendingOn
  <2>2. CASE CommitBreaks(t)
    BY <2>2, GoEffect, SettleEffect DEF CommitBreaks, PendingOn
  <2> QED
    BY <1>5, <2>1, <2>2
<1>6. ASSUME NEW t \in Chains, EndSavepoint(t) PROVE RowsFollowTransactions'
  BY <1>6, GoEffect, SettleEffect DEF EndSavepoint
<1>7. ASSUME NEW t \in Chains, Write(t) PROVE RowsFollowTransactions'
  BY <1>7, PublishedEffect DEF Write, Writes, Target
<1>8. ASSUME NEW t \in Chains, WriteFails(t) PROVE RowsFollowTransactions'
  BY <1>8, GoEffect DEF WriteFails, Writes, Throws
<1>9. CASE ThrowsWithoutContext
  BY <1>9, GoEffect DEF ThrowsWithoutContext
<1>10. CASE PublishEnds
  BY <1>10, GoEffect DEF PublishEnds, Returns, Throws, Resolves
<1>11. CASE Crash
  BY <1>11 DEF Crash
<1>12. ASSUME NEW to \in {"stored", "lost"}, Audit(to) PROVE RowsFollowTransactions'
  BY <1>12 DEF Audit
<1>13. CASE UNCHANGED vars
  BY <1>13 DEF vars
<1> QED
  BY <1>1, <1>2, <1>3, <1>4, <1>5, <1>6, <1>7, <1>8, <1>9, <1>10, <1>11, <1>12, <1>13
     DEF Next, Transaction, FromCli, FromMessage

(* Nothing is rolled back, or bound to be, without an error under way.     *)
LEMMA LossStep ==
  /\ TypeOK /\ ServiceFirst /\ RowsFollowTransactions /\ LossesAreKnown /\ [Next]_vars
  => LossesAreKnown'
<1> SUFFICES ASSUME TypeOK, ServiceFirst, RowsFollowTransactions, LossesAreKnown, [Next]_vars
             PROVE  LossesAreKnown'
  OBVIOUS
<1> USE DEF TypeOK, ServiceFirst, RowsFollowTransactions, LossesAreKnown, fixed,
            Inside, Ending, Over
<1>1. ASSUME NEW t \in Chains, Open(t) PROVE LossesAreKnown'
  BY <1>1, GoEffect DEF Open
<1>2. ASSUME NEW t \in Chains, Enter(t) PROVE LossesAreKnown'
  BY <1>2, GoEffect DEF Enter, Held
<1>3. ASSUME NEW t \in Chains, OpenFails(t) PROVE LossesAreKnown'
  BY <1>3, GoEffect DEF OpenFails
<1>4. ASSUME NEW t \in Chains, Leave(t) PROVE LossesAreKnown'
  BY <1>4, GoEffect DEF Leave, Cleared
<1>5. ASSUME NEW t \in Chains, EndTransaction(t) \/ CommitBreaks(t) PROVE LossesAreKnown'
  <2>1. CASE EndTransaction(t)
    BY <2>1, GoEffect, SettleEffect DEF EndTransaction, PendingOn
  <2>2. CASE CommitBreaks(t)
    BY <2>2, GoEffect, SettleEffect DEF CommitBreaks, PendingOn
  <2> QED
    BY <1>5, <2>1, <2>2
<1>6. ASSUME NEW t \in Chains, EndSavepoint(t) PROVE LossesAreKnown'
  BY <1>6, GoEffect, SettleEffect DEF EndSavepoint
<1>7. ASSUME NEW t \in Chains, Write(t) PROVE LossesAreKnown'
  BY <1>7, PublishedEffect DEF Write, Writes, Target
<1>8. ASSUME NEW t \in Chains, WriteFails(t) PROVE LossesAreKnown'
  BY <1>8, GoEffect DEF WriteFails, Writes, Throws
<1>9. CASE ThrowsWithoutContext
  BY <1>9, GoEffect DEF ThrowsWithoutContext
<1>10. CASE PublishEnds
  BY <1>10, GoEffect DEF PublishEnds, Returns, Throws, Resolves
<1>11. CASE Crash
  BY <1>11 DEF Crash
<1>12. ASSUME NEW to \in {"stored", "lost"}, Audit(to) PROVE LossesAreKnown'
  BY <1>12 DEF Audit
<1>13. CASE UNCHANGED vars
  BY <1>13 DEF vars
<1> QED
  BY <1>1, <1>2, <1>3, <1>4, <1>5, <1>6, <1>7, <1>8, <1>9, <1>10, <1>11, <1>12, <1>13
     DEF Next, Transaction, FromCli, FromMessage

(* When every chain is through, nothing is pending any more, and what was  *)
(* rolled back left a failed chain behind.                                 *)
LEMMA LossesAreTold == TypeOK /\ RowsFollowTransactions /\ LossesAreKnown => NoSilentLoss
<1> SUFFICES ASSUME TypeOK, RowsFollowTransactions, LossesAreKnown PROVE NoSilentLoss
  OBVIOUS
<1> USE DEF TypeOK, RowsFollowTransactions, LossesAreKnown, Inside, Ending, Over
<1>1. ASSUME \A t \in Chains : at[t] = "done" PROVE \A t \in Chains : row[t] = "stored"
  BY <1>1
<1>2. ASSUME audit = "stored"
      PROVE  row[Service] = "stored" \/ \E l \in Listeners : at[l] = "failed"
  <2>1. at[Service] = "done" /\ \A l \in Listeners : at[l] \in Over
    BY <1>2
  <2>2. row[Service] \in {"stored", "rolledBack"}
    BY <2>1
  <2> QED
    BY <2>1, <2>2
<1> QED
  BY <1>1, <1>2 DEF NoSilentLoss

LEMMA Inductive == IInv /\ [Next]_vars => IInv'
<1> SUFFICES ASSUME IInv, [Next]_vars PROVE IInv'
  OBVIOUS
<1>1. /\ TypeOK' /\ ServiceFirst' /\ ContextHasUser' /\ UnitOfService' /\ SharedFate'
      /\ RowsFollowTransactions' /\ LossesAreKnown'
  BY TypeStep, ServiceFirstStep, ContextStep, UnitStep, RowsStep, LossStep DEF IInv
<1>2. NoSilentLoss'
  <2>1. TypeOK' /\ RowsFollowTransactions' /\ LossesAreKnown' => NoSilentLoss'
    BY LossesAreTold, PTL
  <2> QED
    BY <1>1, <2>1
<1> QED
  BY <1>1, <1>2 DEF IInv

(* The inductive invariant: at no point of a request does the context      *)
(* disagree with the transaction() calls that are running.                 *)
THEOREM Invariant == Spec => []IInv
<1>1. Init => IInv
  BY DEF Init, IInv, TypeOK, ServiceFirst, ContextHasUser, UnitOfService, SharedFate, Unbroken,
         RowsFollowTransactions, LossesAreKnown, NoSilentLoss, Inside, Ending, Over
<1> QED
  BY <1>1, Inductive, PTL DEF Spec

(* transaction()'s finally: whatever calls nest or overlap, the context    *)
(* holds a connection only while a call on it is in its handler.           *)
THEOREM ContextIsClean == Spec => []ContextHasUser
<1>1. IInv => ContextHasUser
  BY DEF IInv
<1> QED
  BY <1>1, Invariant, PTL

(* The transaction that the service opens is the one that its listeners    *)
(* write in: their rows share one fate with the service's.                 *)
THEOREM OneUnit == Spec => []SharedFate
<1>1. IInv => SharedFate
  BY DEF IInv
<1> QED
  BY <1>1, Invariant, PTL

(* What is lost is lost with an error (NoSilentLoss): every rollback, of a *)
(* transaction or to a savepoint, follows a chain that threw, and the      *)
(* service returns only after its listeners are through.                   *)
THEOREM LossesHaveErrors == Spec => []NoSilentLoss
<1>1. IInv => NoSilentLoss
  BY DEF IInv
<1> QED
  BY <1>1, Invariant, PTL
=============================================================================
