-------------------------- MODULE UserRegistration --------------------------
(***************************************************************************)
(* Creating and deleting users in the API application.                     *)
(*                                                                         *)
(* CreateUserService opens a database transaction and inserts the user     *)
(* through it.  SqlRepositoryBase.writeQuery then publishes UserCreated    *)
(* and waits for its three listeners, which run concurrently:              *)
(*   "wallet"     inserts the wallet on the transaction's connection and   *)
(*                publishes WalletCreated to the two listeners below;      *)
(*   "sagaUser"   inserts the registration saga;                           *)
(*   "projUser"   inserts the row of the read model user_wallet_summary;   *)
(*   "sagaWallet" looks the saga up and, if it finds it, completes it;     *)
(*   "projWallet" writes the wallet into the read model's row, if any.     *)
(* The last four use the plain pool: each statement takes a connection of  *)
(* its own and commits by itself.                                          *)
(*                                                                         *)
(* A user is named by the request that creates it: every execution draws a *)
(* fresh UUID, which is also the key of its wallet, saga and summary rows. *)
(* An operator X_Y is a mutant of X.                                       *)
(***************************************************************************)
EXTENDS FiniteSets, Integers

CONSTANTS
  Requests,        \* executions of CreateUserService
  Deleters,        \* executions of DeleteUserService
  Emails,
  PoolSize,        \* connections of the database pool
  Faults           \* what may fail: statements, COMMIT, the process

ASSUME PoolAssumption == PoolSize \in Nat \ {0}
ASSUME FaultsAssumption == Faults \subseteq {"query", "commit", "crash"}
ASSUME RequestsAssumption == IsFiniteSet(Requests) /\ "nobody" \notin Requests

VARIABLES
  emailOf,     \* the address in each request's command
  suppresses,  \* whether the event emitter swallows a listener's error
  stage,       \* where each request is; the last four are its outcome
  tx,          \* the request's database transaction, as PostgreSQL sees it
  userRow,     \* the users row of each request
  walletRow,   \* the wallets row of that user
  saga,        \* the sagas row of that user
  summary,     \* the user_wallet_summary row of that user
  handler,     \* the state of each listener of each request
  deletion     \* the state and the target of each deletion

vars == <<emailOf, suppresses, stage, tx, userRow, walletRow, saga, summary, handler, deletion>>
given == <<emailOf, suppresses>>
tables == <<userRow, walletRow, saga, summary>>

OnUserCreated == {"wallet", "sagaUser", "projUser"}
OnWalletCreated == {"sagaWallet", "projWallet"}
Handlers == OnUserCreated \cup OnWalletCreated
OnPool == Handlers \ {"wallet"}

Outcomes == {"ok", "conflict", "error", "lost"}
Stages == {"idle", "inserting", "publishing", "conflicting", "failing"} \cup Outcomes
Running == {"queued", "found", "publishing"}     \* a listener still at work
HandlerStates == {"off", "done", "missed", "failed"} \cup Running
Sagas == {"absent", "started", "completed"}      \* no listener sets another state
Summaries == {"absent", "unlinked", "linked"}    \* without or with a wallet
Rows == {"absent", "pending", "stored", "rolledBack", "deleted"}

\* A deletion and its target, as long as that row was there for it.
Deletions == [at : {"idle", "false", "notFound", "error"}, user : {"nobody"}]
               \cup [at : {"found", "true"}, user : Requests]

TypeOK ==
  /\ emailOf \in [Requests -> Emails] /\ suppresses \in BOOLEAN
  /\ stage \in [Requests -> Stages]
  /\ tx \in [Requests -> {"none", "active", "aborted"}]
  /\ userRow \in [Requests -> Rows]
  /\ walletRow \in [Requests -> Rows \ {"deleted"}]
  /\ saga \in [Requests -> Sagas]
  /\ summary \in [Requests -> Summaries]
  /\ handler \in [Requests -> [Handlers -> HandlerStates]]
  /\ deletion \in [Deleters -> Deletions]

\* The application leaves the emitter as it comes: it suppresses errors, and
\* lets them through where a listener asks for it.
Init ==
  /\ emailOf \in [Requests -> Emails]
  /\ suppresses \in BOOLEAN
  /\ stage = [r \in Requests |-> "idle"]
  /\ tx = [r \in Requests |-> "none"]
  /\ userRow = [r \in Requests |-> "absent"]
  /\ walletRow = [r \in Requests |-> "absent"]
  /\ saga = [r \in Requests |-> "absent"]
  /\ summary = [r \in Requests |-> "absent"]
  /\ handler = [r \in Requests |-> [k \in Handlers |-> "off"]]
  /\ deletion = [d \in Deleters |-> [at |-> "idle", user |-> "nobody"]]

-----------------------------------------------------------------------------
(* The database and its pool, and the event emitter.                       *)

\* A transaction keeps its connection from BEGIN to COMMIT or ROLLBACK; a
\* statement outside one needs a free connection only while it runs.
Connected == {r \in Requests : tx[r] # "none"}
ConnectionFree == Cardinality(Connected) < PoolSize

\* An acquisition that finds no connection gives up after connectionTimeout:
\* transactions, and other listeners' statements, may hold them all for so long.
Statements == {p \in Requests \X OnPool : handler[p[1]][p[2]] \in {"queued", "found"}}
GivesUp_Never(own) == FALSE
GivesUp(own) == Cardinality(Connected) + Cardinality(Statements \ own) >= PoolSize

\* An insert of an address that another open transaction inserted waits for
\* that transaction to end.
EmailLocked(r) == \E q \in Requests \ {r} :
                    userRow[q] = "pending" /\ emailOf[q] = emailOf[r]
EmailTaken(r) == \E q \in Requests \ {r} :
                    userRow[q] = "stored" /\ emailOf[q] = emailOf[r]

\* PostgreSQL refuses to commit a transaction in which a statement failed:
\* its COMMIT succeeds and rolls back.
Persists(r) == tx[r] = "active"
EndedRow(row, commit) ==
  IF row = "pending" THEN IF commit THEN "stored" ELSE "rolledBack" ELSE row

EndTransaction(r, commit) ==
  /\ tx' = [tx EXCEPT ![r] = "none"]
  /\ userRow' = [userRow EXCEPT ![r] = EndedRow(@, commit)]
  /\ walletRow' = [walletRow EXCEPT ![r] = EndedRow(@, commit)]

\* The promise of emitAsync: it resolves when every listener is through, and
\* rejects as soon as one failed, unless the emitter swallowed the error.
Resolved_Detached(r, listeners) == \A k \in listeners : handler[r][k] # "off"
Resolved(r, listeners) ==
  \A k \in listeners : \/ handler[r][k] \in {"done", "missed"}
                       \/ suppresses /\ handler[r][k] = "failed"
Rejected(r, listeners) ==
  /\ ~suppresses
  /\ \E k \in listeners : handler[r][k] = "failed"

SetHandler(r, k, to) == handler' = [handler EXCEPT ![r][k] = to]

\* emitAsync starts every listener at once.
Emit(r, k, to, listeners) ==
  handler' = [handler EXCEPT ![r] =
                [l \in Handlers |-> IF l \in listeners THEN "queued"
                                    ELSE IF l = k THEN to ELSE @[l]]]

-----------------------------------------------------------------------------
(* CreateUserService.execute around SqlRepositoryBase.transaction.         *)

Begin(r) ==
  /\ stage[r] = "idle"
  /\ ConnectionFree
  /\ stage' = [stage EXCEPT ![r] = "inserting"]
  /\ tx' = [tx EXCEPT ![r] = "active"]
  /\ UNCHANGED <<given, tables, handler, deletion>>

BeginTimesOut(r) ==
  /\ stage[r] = "idle"
  /\ GivesUp({})
  /\ stage' = [stage EXCEPT ![r] = "error"]
  /\ UNCHANGED <<given, tx, tables, handler, deletion>>

InsertUser(r) ==
  /\ stage[r] = "inserting"
  /\ ~EmailLocked(r) /\ ~EmailTaken(r)
  /\ userRow' = [userRow EXCEPT ![r] = "pending"]
  /\ stage' = [stage EXCEPT ![r] = "publishing"]
  /\ Emit(r, "none", "off", OnUserCreated)
  /\ UNCHANGED <<given, tx, walletRow, saga, summary, deletion>>

\* The unique index on users.email: insert turns it into ConflictException.
InsertUserConflicts(r) ==
  /\ stage[r] = "inserting"
  /\ ~EmailLocked(r) /\ EmailTaken(r)
  /\ tx' = [tx EXCEPT ![r] = "aborted"]
  /\ stage' = [stage EXCEPT ![r] = "conflicting"]
  /\ UNCHANGED <<given, tables, handler, deletion>>

InsertUserFails(r) ==
  /\ stage[r] = "inserting"
  /\ "query" \in Faults
  /\ tx' = [tx EXCEPT ![r] = "aborted"]
  /\ stage' = [stage EXCEPT ![r] = "failing"]
  /\ UNCHANGED <<given, tables, handler, deletion>>

\* UserCreated is handled: the callback returns and the pool sends COMMIT.
Commit(r) ==
  /\ stage[r] = "publishing"
  /\ Resolved(r, OnUserCreated)
  /\ EndTransaction(r, Persists(r))
  /\ stage' = [stage EXCEPT ![r] = "ok"]
  /\ UNCHANGED <<given, saga, summary, handler, deletion>>

\* The connection breaks during COMMIT: only the database knows the outcome.
CommitBreaks(r) ==
  /\ stage[r] = "publishing"
  /\ "commit" \in Faults
  /\ Resolved(r, OnUserCreated)
  /\ \E reached \in BOOLEAN : EndTransaction(r, reached /\ Persists(r))
  /\ stage' = [stage EXCEPT ![r] = "error"]
  /\ UNCHANGED <<given, saga, summary, handler, deletion>>

\* A listener's error reaches the callback.  The ROLLBACK queues behind the
\* wallet's INSERT on the same connection.
ListenerFailed(r) ==
  /\ stage[r] = "publishing"
  /\ Rejected(r, OnUserCreated)
  /\ handler[r]["wallet"] # "queued"
  /\ stage' = [stage EXCEPT ![r] = "error"]
  /\ EndTransaction(r, FALSE)
  /\ UNCHANGED <<given, saga, summary, handler, deletion>>

\* Only a ConflictException becomes UserAlreadyExistsError.
Answer_AnyError(at) == "conflict"
Answer(at) == IF at = "conflicting" THEN "conflict" ELSE "error"

\* ROLLBACK after the user's own INSERT failed, and the answer.
Rollback(r) ==
  /\ stage[r] \in {"conflicting", "failing"}
  /\ stage' = [stage EXCEPT ![r] = Answer(@)]
  /\ EndTransaction(r, FALSE)
  /\ UNCHANGED <<given, saga, summary, handler, deletion>>

-----------------------------------------------------------------------------
(* The listeners.                                                          *)

\* Mutant: the wallet's INSERT goes to the pool and commits by itself.
InsertWallet_OnPool(r) ==
  /\ handler[r]["wallet"] = "queued" /\ ConnectionFree
  /\ walletRow' = [walletRow EXCEPT ![r] = "stored"]
  /\ Emit(r, "wallet", "publishing", OnWalletCreated)
  /\ UNCHANGED <<given, stage, tx, userRow, saga, summary, deletion>>

InsertWallet(r) ==
  /\ handler[r]["wallet"] = "queued"
  /\ tx[r] = "active"
  /\ walletRow' = [walletRow EXCEPT ![r] = "pending"]
  /\ Emit(r, "wallet", "publishing", OnWalletCreated)
  /\ UNCHANGED <<given, stage, tx, userRow, saga, summary, deletion>>

InsertWalletFails(r) ==
  /\ handler[r]["wallet"] = "queued"
  /\ "query" \in Faults
  /\ tx' = [tx EXCEPT ![r] = "aborted"]
  /\ SetHandler(r, "wallet", "failed")
  /\ UNCHANGED <<given, stage, tables, deletion>>

\* writeQuery waits for WalletCreated's listeners before it returns.
WalletSettles(r) ==
  /\ handler[r]["wallet"] = "publishing"
  /\ \/ Resolved(r, OnWalletCreated) /\ SetHandler(r, "wallet", "done")
     \/ Rejected(r, OnWalletCreated) /\ SetHandler(r, "wallet", "failed")
  /\ UNCHANGED <<given, stage, tx, tables, deletion>>

CreateSaga == "started"
InsertSaga(r) ==
  /\ handler[r]["sagaUser"] = "queued" /\ ConnectionFree
  /\ saga' = [saga EXCEPT ![r] = CreateSaga]
  /\ SetHandler(r, "sagaUser", "done")
  /\ UNCHANGED <<given, stage, tx, userRow, walletRow, summary, deletion>>

ProjectUser(r) ==
  /\ handler[r]["projUser"] = "queued" /\ ConnectionFree
  /\ summary' = [summary EXCEPT ![r] = IF @ = "absent" THEN "unlinked" ELSE @]
  /\ SetHandler(r, "projUser", "done")
  /\ UNCHANGED <<given, stage, tx, userRow, walletRow, saga, deletion>>

\* findByAggregateId; without a saga the listener logs a warning and returns.
FindSaga(r) ==
  /\ handler[r]["sagaWallet"] = "queued" /\ ConnectionFree
  /\ SetHandler(r, "sagaWallet", IF saga[r] = "absent" THEN "missed" ELSE "found")
  /\ UNCHANGED <<given, stage, tx, tables, deletion>>

\* walletCreated(), complete() and update.
CompleteSaga(r) ==
  /\ handler[r]["sagaWallet"] = "found" /\ ConnectionFree
  /\ saga' = [saga EXCEPT ![r] = "completed"]
  /\ SetHandler(r, "sagaWallet", "done")
  /\ UNCHANGED <<given, stage, tx, userRow, walletRow, summary, deletion>>

\* An UPDATE by user id, which changes nothing when the row is not there yet.
ProjectWallet(r) ==
  /\ handler[r]["projWallet"] = "queued" /\ ConnectionFree
  /\ summary' = [summary EXCEPT ![r] = IF @ = "absent" THEN @ ELSE "linked"]
  /\ SetHandler(r, "projWallet", IF summary[r] = "absent" THEN "missed" ELSE "done")
  /\ UNCHANGED <<given, stage, tx, userRow, walletRow, saga, deletion>>

\* A listener on the pool gets no connection in time, or its statement fails.
PoolListenerFails(r, k) ==
  /\ handler[r][k] \in {"queued", "found"}
  /\ GivesUp({<<r, k>>}) \/ "query" \in Faults
  /\ SetHandler(r, k, "failed")
  /\ UNCHANGED <<given, stage, tx, tables, deletion>>

-----------------------------------------------------------------------------
(* DeleteUserService.execute, which runs outside any transaction.          *)

SetDeletion(d, to, u) ==
  deletion' = [deletion EXCEPT ![d] =
    [at |-> to, user |-> IF to \in {"found", "true"} THEN u ELSE "nobody"]]

FindUser(d, u) ==
  /\ deletion[d].at = "idle" /\ ConnectionFree
  /\ SetDeletion(d, IF userRow[u] = "stored" THEN "found" ELSE "notFound", u)
  /\ UNCHANGED <<given, stage, tx, tables, handler>>

\* Whether the DELETE met a row: the result of SqlRepositoryBase.delete.
Deletes_Unchecked(u) == TRUE
Deletes(u) == userRow[u] = "stored"

DeleteRow(d) ==
  LET u == deletion[d].user IN
  /\ deletion[d].at = "found" /\ ConnectionFree
  /\ userRow' = [userRow EXCEPT ![u] = IF @ = "stored" THEN "deleted" ELSE @]
  /\ SetDeletion(d, IF Deletes(u) THEN "true" ELSE "false", u)
  /\ UNCHANGED <<given, stage, tx, walletRow, saga, summary, handler>>

DeletionFails(d) ==
  /\ deletion[d].at \in {"idle", "found"}
  /\ GivesUp({}) \/ "query" \in Faults
  /\ SetDeletion(d, "error", "nobody")
  /\ UNCHANGED <<given, stage, tx, tables, handler>>

-----------------------------------------------------------------------------
(* The process dies and starts again: what was in flight is gone, and the  *)
(* database rolls the open transactions back.                              *)

Started == {"inserting", "publishing", "conflicting", "failing"}
Crash ==
  /\ "crash" \in Faults
  /\ \E r \in Requests : stage[r] \in Started
  /\ stage' = [r \in Requests |-> IF stage[r] \in Started THEN "lost" ELSE stage[r]]
  /\ tx' = [r \in Requests |-> "none"]
  /\ userRow' = [r \in Requests |-> EndedRow(userRow[r], FALSE)]
  /\ walletRow' = [r \in Requests |-> EndedRow(walletRow[r], FALSE)]
  /\ handler' = [r \in Requests |-> [k \in Handlers |->
                   IF handler[r][k] \in Running THEN "failed" ELSE handler[r][k]]]
  /\ deletion' = [d \in Deleters |->
                   IF deletion[d].at = "found" THEN [at |-> "error", user |-> "nobody"]
                                               ELSE deletion[d]]
  /\ UNCHANGED <<given, saga, summary>>

-----------------------------------------------------------------------------
Service(r) ==
  \/ InsertUser(r) \/ InsertUserConflicts(r) \/ InsertUserFails(r)
  \/ Commit(r) \/ CommitBreaks(r) \/ ListenerFailed(r) \/ Rollback(r)

WalletListener(r) == InsertWallet(r) \/ InsertWalletFails(r) \/ WalletSettles(r)

SagaUserListener(r) == InsertSaga(r) \/ PoolListenerFails(r, "sagaUser")
ProjUserListener(r) == ProjectUser(r) \/ PoolListenerFails(r, "projUser")
SagaWalletListener(r) == FindSaga(r) \/ CompleteSaga(r) \/ PoolListenerFails(r, "sagaWallet")
ProjWalletListener(r) == ProjectWallet(r) \/ PoolListenerFails(r, "projWallet")

Deletion(d) == (\E u \in Requests : FindUser(d, u)) \/ DeleteRow(d) \/ DeletionFails(d)

Next ==
  \/ \E r \in Requests :
        \/ Begin(r) \/ BeginTimesOut(r) \/ Service(r) \/ WalletListener(r)
        \/ SagaUserListener(r) \/ ProjUserListener(r)
        \/ SagaWalletListener(r) \/ ProjWalletListener(r)
  \/ \E d \in Deleters : Deletion(d)
  \/ Crash

Spec == Init /\ [][Next]_vars

-----------------------------------------------------------------------------
(* Properties.                                                             *)

\* User and wallet rows become visible together and addresses stay unique,
\* whatever fails and whether or not the emitter swallows a listener's error:
\* the wallet insert shares the user's transaction, which PostgreSQL refuses
\* to commit once the insert failed.
Acc == INSTANCE Accounts WITH
  Ids <- Requests,
  users <- {r \in Requests : userRow[r] = "stored"},
  wallets <- {r \in Requests : walletRow[r] = "stored"},
  removed <- {r \in Requests : userRow[r] = "deleted"}
ImplementsAccounts == Acc!Spec

\* A user is in the table exactly when its wallet is, until it is deleted:
\* the wallet listener shares the transaction of the insert that woke it.
UserIffWallet ==
  \A r \in Requests : userRow[r] \in {"stored", "deleted"} <=> walletRow[r] = "stored"

\* insert publishes its events and waits for completion: once the user is
\* visible none of its listeners is still running.
ListenersEndBeforeCommit ==
  \A r \in Requests : userRow[r] \in {"stored", "deleted"} =>
    \A k \in Handlers : handler[r][k] \notin Running

\* A request is refused only because of a user that really was stored, never
\* because of one whose transaction rolled back.
ConflictIsGenuine ==
  \A r \in Requests : stage[r] \in {"conflicting", "conflict"} =>
    \E q \in Requests \ {r} : /\ emailOf[q] = emailOf[r]
                              /\ userRow[q] \in {"stored", "deleted"}

\* A request that answers with a user id has stored that user and its wallet,
\* completed its saga and linked the wallet in its read model.  Only two things
\* make it answer otherwise: a listener's error that the emitter swallowed, and
\* a listener of WalletCreated that overtook the listener of UserCreated whose
\* row it needs ("missed"), which leaves the saga or the summary as it is.
OkIsStored ==
  \A r \in Requests : stage[r] = "ok" =>
    \/ /\ userRow[r] \in {"stored", "deleted"} /\ walletRow[r] = "stored"
       /\ saga[r] = IF handler[r]["sagaWallet"] = "missed" THEN "started" ELSE "completed"
       /\ summary[r] = IF handler[r]["projWallet"] = "missed" THEN "unlinked" ELSE "linked"
    \/ suppresses /\ \E k \in Handlers : handler[r][k] = "failed"

\* The saga completes, and the read model shows a wallet, only after the
\* wallet's INSERT succeeded: writeQuery publishes after its statement.
WalletPrecedesItsEffects ==
  \A r \in Requests :
    saga[r] = "completed" \/ summary[r] = "linked" => walletRow[r] # "absent"

\* Of the concurrent deletions of one user at most one reports success.
OneDeletionSucceeds ==
  \A d, e \in Deleters :
    /\ deletion[d].at = "true" /\ deletion[e].at = "true"
    /\ deletion[d].user = deletion[e].user
    => d = e

\* The strengthening that makes the two invariants above inductive: a row is
\* pending only while its request publishes; the wallet's INSERT belongs to
\* that time; and a transaction that is still active past it holds the wallet.
RowsFollowStage ==
  \A r \in Requests :
    /\ stage[r] = "publishing" <=> userRow[r] = "pending"
    /\ stage[r] \in {"inserting", "publishing"} => tx[r] # "none"
    /\ walletRow[r] = "pending" => userRow[r] = "pending"
    /\ stage[r] \in {"idle", "inserting", "conflicting", "failing"} =>
          userRow[r] = "absent" /\ walletRow[r] = "absent"

WalletInTransaction ==
  \A r \in Requests :
    /\ handler[r]["wallet"] = "queued" =>
          stage[r] = "publishing" /\ walletRow[r] = "absent"
    /\ stage[r] = "publishing" => handler[r]["wallet"] # "off"
    /\ /\ stage[r] = "publishing" /\ tx[r] = "active"
       /\ handler[r]["wallet"] # "queued"
       => walletRow[r] = "pending"

AddressesDiffer ==
  \A q, r \in Requests :
    /\ q # r
    /\ userRow[q] \in {"pending", "stored"} /\ userRow[r] \in {"pending", "stored"}
    => emailOf[q] # emailOf[r]

WalletListeners ==
  \A r \in Requests :
    /\ handler[r]["wallet"] \in {"off", "queued"} =>
          \A k \in OnWalletCreated : handler[r][k] = "off"
    /\ \/ handler[r]["wallet"] \in {"done", "missed"}
       \/ suppresses /\ handler[r]["wallet"] = "failed"
       => \A k \in OnWalletCreated : handler[r][k] \notin Running
    /\ walletRow[r] = "absent" =>
          \A k \in OnWalletCreated : handler[r][k] = "off"

\* What each listener's state tells about the rows it alone writes.
ListenersRecord ==
  \A r \in Requests :
    /\ handler[r]["wallet"] \notin {"found", "missed"}
    /\ \A k \in {"sagaUser", "projUser"} : handler[r][k] \notin {"found", "publishing", "missed"}
    /\ \A k \in OnWalletCreated : handler[r][k] # "publishing"
    /\ handler[r]["projWallet"] # "found"
    /\ saga[r] # "absent" <=> handler[r]["sagaUser"] = "done"
    /\ saga[r] = "completed" <=> handler[r]["sagaWallet"] = "done"
    /\ handler[r]["sagaWallet"] = "found" => saga[r] # "absent"
    /\ summary[r] # "absent" <=> handler[r]["projUser"] = "done"
    /\ summary[r] = "linked" <=> handler[r]["projWallet"] = "done"

\* What the stage of a request tells about its listeners and transaction.
StagesFollowListeners ==
  \A r \in Requests :
    /\ stage[r] \in {"idle", "inserting", "conflicting", "failing"} =>
          \A k \in Handlers : handler[r][k] = "off"
    /\ handler[r]["wallet"] \in {"publishing", "done"} =>
          \A k \in OnWalletCreated : handler[r][k] # "off"
    /\ handler[r]["wallet"] = "done" => Resolved(r, OnWalletCreated)
    /\ stage[r] = "inserting" => tx[r] = "active"
    /\ stage[r] = "publishing" => \A k \in OnUserCreated : handler[r][k] # "off"
    /\ stage[r] = "publishing" => tx[r] = "active" \/ handler[r]["wallet"] = "failed"
    /\ stage[r] = "ok" =>
          /\ Resolved(r, OnUserCreated)
          /\ \/ userRow[r] \in {"stored", "deleted"} /\ walletRow[r] = "stored"
             \/ handler[r]["wallet"] = "failed"

IInv ==
  /\ TypeOK
  /\ RowsFollowStage
  /\ WalletInTransaction
  /\ AddressesDiffer
  /\ WalletListeners
  /\ ListenersRecord
  /\ StagesFollowListeners
  /\ UserIffWallet
  /\ ListenersEndBeforeCommit
  /\ WalletPrecedesItsEffects

\* What the event loop and the database do by themselves for a request: every
\* promise that can proceed does, and an acquisition gets a connection or
\* times out.  Each of these steps brings the request nearer to its answer.
Advances(r) ==
  \/ InsertUser(r) \/ InsertUserConflicts(r)
  \/ Commit(r) \/ ListenerFailed(r) \/ Rollback(r)
  \/ InsertWallet(r) \/ WalletSettles(r)
  \/ InsertSaga(r) \/ ProjectUser(r) \/ FindSaga(r) \/ CompleteSaga(r) \/ ProjectWallet(r)
  \/ \E k \in OnPool : GivesUp({<<r, k>>}) /\ PoolListenerFails(r, k)

\* The guards of those steps.
CanAdvance(r) ==
  \/ stage[r] = "inserting" /\ ~EmailLocked(r)
  \/ stage[r] = "publishing" /\ Resolved(r, OnUserCreated)
  \/ stage[r] = "publishing" /\ Rejected(r, OnUserCreated) /\ handler[r]["wallet"] # "queued"
  \/ stage[r] \in {"conflicting", "failing"}
  \/ handler[r]["wallet"] = "queued" /\ tx[r] = "active"
  \/ handler[r]["wallet"] = "publishing"
       /\ (Resolved(r, OnWalletCreated) \/ Rejected(r, OnWalletCreated))
  \/ \E k \in OnPool : /\ handler[r][k] \in {"queued", "found"}
                       /\ ConnectionFree \/ GivesUp({<<r, k>>})

\* Requests that wait for the answer never all wait for one another, although
\* their listeners compete for the pool with the transactions that wait for
\* them: the acquisition timeout breaks the circle.
NobodyIsStuck ==
  (\E r \in Requests : stage[r] \in Started) =>
    \E r \in Requests : stage[r] \in Started /\ CanAdvance(r)

\* And whoever is past those guards really has a step to take.
SomebodyAdvances ==
  NobodyIsStuck /\ \A r \in Requests : CanAdvance(r) => ENABLED Advances(r)

\* A user id that a client receives is that of a user it can then list
\* (create-user.feature).
ReceivedIdIsListed ==
  \A r \in Requests : stage[r] = "ok" => userRow[r] \in {"stored", "deleted"}
=============================================================================
