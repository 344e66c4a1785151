----------------------------- MODULE UnitOfWork -----------------------------
(***************************************************************************)
(* The transaction that SqlRepositoryBase keeps in the request context.    *)
(*                                                                         *)
(* A request runs a service and, once the service wrote its row and        *)
(* published, the listeners of its events: concurrent promise chains that  *)
(* share one context.  Every chain writes one row through a repository,    *)
(* inside a transaction() call of its own or not.  transaction() opens a   *)
(* transaction on the pool, or a savepoint if the context already holds a  *)
(* connection; it stores its connection in an empty context, and clears    *)
(* the context when its handler is through.  UserRegistration is the case  *)
(* in which the service alone calls transaction().                         *)
(*                                                                         *)
(* A connection is named by the chain whose transaction() call opened it.  *)
(* An operator X_Y is a mutant of X.                                       *)
(***************************************************************************)
EXTENDS FiniteSets

CONSTANTS
  Listeners,
  Service,
  None,
  Faults     \* what may fail: statements, a COMMIT, the process

ASSUME NamesAssumption == Service \notin Listeners /\ None \notin Listeners \cup {Service}
ASSUME FaultsAssumption == Faults \subseteq {"query", "commit", "crash"}

VARIABLES
  entry,       \* the entry point that received the request
  suppresses,  \* whether the event emitter swallows a listener's error
  nests,       \* the chains that call transaction()
  context,     \* the connection in the request context
  at,          \* where each chain is
  on,          \* the connection that its transaction() call uses
  tx,          \* the transaction on the connection that it opened
  mark,        \* the rows pending on that connection at its savepoint
  row,         \* the row that it writes
  home,        \* the connection on which that row was written
  audit        \* the audit_logs row of the request

vars == <<entry, suppresses, nests, context, at, on, tx, mark, row, home, audit>>
fixed == <<entry, suppresses, nests>>

Chains == Listeners \cup {Service}

\* The HTTP controller and the GraphQL resolver, the command line, and the
\* message pattern.  The middleware of RequestContextModule, which creates the
\* context of a request, stands before the first alone.
EntryPoints == {"web", "cli", "message"}
HasContext == entry = "web"

Inside == {"inside", "publishing", "leavingOk", "leavingErr"}  \* before the finally
Ending == {"endingOk", "endingErr"}                            \* after it
Over == {"done", "failed"}

TypeOK ==
  /\ entry \in EntryPoints
  /\ suppresses \in BOOLEAN
  /\ nests \subseteq Chains
  /\ context \in Chains \cup {None}
  /\ at \in [Chains -> {"off", "ready", "opening"} \cup Inside \cup Ending \cup Over]
  /\ on \in [Chains -> Chains \cup {None}]
  /\ tx \in [Chains -> {"none", "active", "aborted"}]
  /\ mark \in [Chains -> SUBSET Chains]
  /\ row \in [Chains -> {"absent", "pending", "stored", "rolledBack"}]
  /\ home \in [Chains -> Chains \cup {None}]
  /\ audit \in {"none", "stored", "lost"}

Init ==
  /\ entry \in EntryPoints
  /\ suppresses \in BOOLEAN
  /\ nests \in SUBSET Chains
  /\ context = None
  /\ at = [t \in Chains |-> IF t = Service THEN "ready" ELSE "off"]
  /\ on = [t \in Chains |-> None]
  /\ tx = [t \in Chains |-> "none"]
  /\ mark = [t \in Chains |-> {}]
  /\ row = [t \in Chains |-> "absent"]
  /\ home = [t \in Chains |-> None]
  /\ audit = "none"

-----------------------------------------------------------------------------
Go(t, to) == at' = [at EXCEPT ![t] = to]

\* Where a chain goes when its work succeeds, or throws.
Throws_Swallowed(t) == IF t \in nests THEN "leavingOk" ELSE "done"
Returns(t) == IF t \in nests THEN "leavingOk" ELSE "done"
Throws(t) == IF t \in nests THEN "leavingErr" ELSE "failed"

PendingOn(c) == {t \in Chains : row[t] = "pending" /\ home[t] = c}
Settle(S, to) == row' = [t \in Chains |-> IF t \in S THEN to ELSE row[t]]

\* A command reads the id of its request when it is constructed: without a
\* current context that throws, before the service is called.
ThrowsWithoutContext ==
  /\ ~HasContext
  /\ at[Service] = "ready"
  /\ Go(Service, "failed")
  /\ UNCHANGED <<fixed, context, on, tx, mark, row, home, audit>>

FromCli == entry = "cli" /\ ThrowsWithoutContext
FromMessage == entry = "message" /\ ThrowsWithoutContext

-----------------------------------------------------------------------------
(* transaction().                                                          *)

\* this.pool: the connection of the context, or else the pool.
Open(t) ==
  /\ HasContext /\ t \in nests
  /\ at[t] = "ready"
  /\ on' = [on EXCEPT ![t] = IF context = None THEN t ELSE context]
  /\ Go(t, "opening")
  /\ UNCHANGED <<fixed, context, tx, mark, row, home, audit>>

\* BEGIN or SAVEPOINT is through: the callback keeps what the context holds.
Held(t) == IF context = None THEN on[t] ELSE context

Enter(t) ==
  /\ at[t] = "opening"
  /\ on[t] # t => tx[on[t]] = "active"
  /\ tx' = [tx EXCEPT ![on[t]] = "active"]
  /\ mark' = [mark EXCEPT ![t] = PendingOn(on[t])]
  /\ context' = Held(t)
  /\ Go(t, "inside")
  /\ UNCHANGED <<fixed, on, row, home, audit>>

\* No connection, or no transaction on it any more: the callback never runs.
OpenFails(t) ==
  /\ at[t] = "opening"
  /\ "query" \in Faults \/ (on[t] # t /\ tx[on[t]] # "active")
  /\ Go(t, "failed")
  /\ UNCHANGED <<fixed, context, on, tx, mark, row, home, audit>>

\* The finally clears the context, whichever call set it.
Cleared(t) == None

Leave(t) ==
  /\ at[t] \in {"leavingOk", "leavingErr"}
  /\ context' = Cleared(t)
  /\ Go(t, IF at[t] = "leavingOk" THEN "endingOk" ELSE "endingErr")
  /\ UNCHANGED <<fixed, on, tx, mark, row, home, audit>>

\* COMMIT, which rolls back after a failed statement, or ROLLBACK.
EndTransaction(t) ==
  /\ at[t] \in Ending /\ on[t] = t
  /\ Settle(PendingOn(t), IF at[t] = "endingOk" /\ tx[t] = "active" THEN "stored"
                                                                    ELSE "rolledBack")
  /\ tx' = [tx EXCEPT ![t] = "none"]
  /\ Go(t, IF at[t] = "endingOk" THEN "done" ELSE "failed")
  /\ UNCHANGED <<fixed, context, on, mark, home, audit>>

\* The COMMIT fails, or its answer is lost: transaction() throws, and its rows
\* may be stored all the same.
CommitBreaks(t) ==
  /\ "commit" \in Faults
  /\ at[t] = "endingOk" /\ on[t] = t
  /\ \/ Settle(PendingOn(t), "rolledBack")
     \/ tx[t] = "active" /\ Settle(PendingOn(t), "stored")
  /\ tx' = [tx EXCEPT ![t] = "none"]
  /\ Go(t, "failed")
  /\ UNCHANGED <<fixed, context, on, mark, home, audit>>

\* A savepoint is left as it is, or rolled back to together with everything
\* that was written on its connection since.
EndSavepoint(t) ==
  /\ at[t] \in Ending /\ on[t] # t
  /\ IF at[t] = "endingErr" /\ tx[on[t]] # "none"
     THEN /\ Settle(PendingOn(on[t]) \ mark[t], "rolledBack")
          /\ tx' = [tx EXCEPT ![on[t]] = "active"]
     ELSE UNCHANGED <<row, tx>>
  /\ Go(t, IF at[t] = "endingOk" THEN "done" ELSE "failed")
  /\ UNCHANGED <<fixed, context, on, mark, home, audit>>

-----------------------------------------------------------------------------
(* insert: writeQuery on this.pool, then the events.                       *)

Writes(t) == HasContext /\ at[t] = IF t \in nests THEN "inside" ELSE "ready"

\* Slonik may refuse a query on a connection on which a savepoint is open.
MayRefuse == \E t \in Chains : on[t] = context /\ t # context /\ at[t] \in Inside \cup Ending

\* After its statement the service starts the listeners and waits for them.
Published(t) ==
  IF t = Service
  THEN at' = [l \in Chains |-> IF l = Service THEN "publishing" ELSE "ready"]
  ELSE Go(t, Returns(t))

\* this.pool again.  (Mutant: a listener on the plain pool, as SagaRepository.)
Target_Pool(t) == IF t = Service THEN context ELSE None
Target(t) == context

Write(t) ==
  /\ Writes(t)
  /\ Target(t) # None => tx[Target(t)] = "active"
  /\ row' = [row EXCEPT ![t] = IF Target(t) = None THEN "stored" ELSE "pending"]
  /\ home' = [home EXCEPT ![t] = Target(t)]
  /\ Published(t)
  /\ UNCHANGED <<fixed, context, on, tx, mark, audit>>

\* The statement fails in the database, which aborts its transaction, or
\* does not reach it.
WriteFails(t) ==
  /\ Writes(t)
  /\ \/ "query" \in Faults
     \/ context # None /\ (tx[context] # "active" \/ MayRefuse)
  /\ \/ UNCHANGED tx
     \/ /\ context # None /\ tx[context] = "active"
        /\ tx' = [tx EXCEPT ![context] = "aborted"]
  /\ Go(t, Throws(t))
  /\ UNCHANGED <<fixed, context, on, mark, row, home, audit>>

\* emitAsync resolves when every listener is through and rejects as soon as
\* one failed, unless the emitter swallowed the error.
Resolves == \A l \in Listeners : at[l] = "done" \/ (suppresses /\ at[l] = "failed")

PublishEnds ==
  /\ at[Service] = "publishing"
  /\ \/ Resolves /\ Go(Service, Returns(Service))
     \/ /\ ~suppresses /\ \E l \in Listeners : at[l] = "failed"
        /\ Go(Service, Throws(Service))
  /\ UNCHANGED <<fixed, context, on, tx, mark, row, home, audit>>

-----------------------------------------------------------------------------
\* AuditInterceptor: once the handler returned, an insert on the plain pool
\* that nobody awaits and whose error is swallowed.
AuditEnds == IF "query" \in Faults THEN {"stored", "lost"} ELSE {"stored"}
Audit(to) ==
  /\ at[Service] = "done" /\ audit = "none"
  /\ to \in AuditEnds
  /\ audit' = to
  /\ UNCHANGED <<fixed, context, at, on, tx, mark, row, home>>

Crash ==
  /\ "crash" \in Faults
  /\ \E t \in Chains : at[t] \notin {"off"} \cup Over
  /\ context' = None
  /\ at' = [t \in Chains |-> IF at[t] = "done" THEN "done" ELSE "failed"]
  /\ tx' = [t \in Chains |-> "none"]
  /\ row' = [t \in Chains |-> IF row[t] = "pending" THEN "rolledBack" ELSE row[t]]
  /\ audit' = IF audit = "none" THEN "lost" ELSE audit
  /\ UNCHANGED <<fixed, on, mark, home>>

-----------------------------------------------------------------------------
Transaction(t) ==
  \/ Open(t) \/ Enter(t) \/ OpenFails(t) \/ Leave(t)
  \/ EndTransaction(t) \/ CommitBreaks(t) \/ EndSavepoint(t)

Next ==
  \/ \E t \in Chains : Transaction(t) \/ Write(t) \/ WriteFails(t)
  \/ FromCli \/ FromMessage \/ PublishEnds \/ Crash
  \/ \E to \in {"stored", "lost"} : Audit(to)

Spec == Init /\ [][Next]_vars

-----------------------------------------------------------------------------
(* Properties.                                                             *)

\* Whenever the context holds a connection, some transaction() call on that
\* connection is still in its handler: when the last one is through, no
\* statement of the request can reach a connection that went back to the pool.
ContextHasUser ==
  context # None => \E t \in Chains : on[t] = context /\ at[t] \in Inside

\* "Start a global transaction to save results of all event handlers in one
\* operation" (sql-repository.base.ts): the rows of service and listeners
\* share one fate, as long as no listener's own transaction() call has ended
\* and no error made the service stop waiting for its listeners.
Unbroken ==
  /\ Service \in nests
  /\ \A l \in Listeners \cap nests : at[l] \notin Ending \cup Over
  /\ suppresses \/ \A l \in Listeners : at[l] # "failed"

SharedFate == Unbroken => \A l \in Listeners : row[l] \in {"absent", row[Service]}

\* What is lost, is lost with an error: if every chain returned without one,
\* every row is stored, however transactions nest; and the audit log tells of
\* a service's row that is not stored only if a listener failed.
NoSilentLoss ==
  /\ (\A t \in Chains : at[t] = "done") => \A t \in Chains : row[t] = "stored"
  /\ audit = "stored" =>
       row[Service] = "stored" \/ \E l \in Listeners : at[l] = "failed"

\* The strengthening: the service runs alone until it publishes, and while
\* the unit is unbroken every row goes to its transaction.
ServiceFirst ==
  /\ at[Service] \in {"ready", "opening", "inside"} =>
        /\ \A l \in Listeners : at[l] = "off"
        /\ \A t \in Chains : row[t] = "absent"
        /\ at[Service] # "inside" => context = None
  /\ \A t \in Chains :
        /\ t \notin nests => at[t] \notin {"opening", "inside", "leavingOk", "leavingErr"} \cup Ending
        /\ t \notin nests \/ at[t] \in {"off", "ready"} => on[t] = None
        /\ t \in Listeners => at[t] # "publishing"
  /\ Service \in nests /\ at[Service] \in {"opening"} \cup Inside \cup Ending => on[Service] = Service

UnitOfService ==
  Unbroken =>
    /\ at[Service] \in Inside => context = Service
    /\ at[Service] \in Inside \cup Ending =>
          \A t \in Chains : row[t] = "absent" \/ (row[t] = "pending" /\ home[t] = Service)
    /\ at[Service] = "publishing" => row[Service] = "pending"
    /\ row[Service] = "absent" => \A l \in Listeners : row[l] = "absent"
    /\ at[Service] \notin {"ready", "opening", "inside", "publishing"} =>
          \A l \in Listeners : at[l] \in {"off"} \cup Over

\* A connection is in a transaction only while the call that opened it is
\* under way, and rows are pending only in a transaction.
RowsFollowTransactions ==
  \A t \in Chains :
    /\ tx[t] # "none" => on[t] = t /\ at[t] \in Inside \cup Ending
    /\ row[t] = "pending" => home[t] # None /\ tx[home[t]] # "none"
    /\ at[t] \in {"publishing", "leavingOk", "endingOk", "done"} => row[t] # "absent"

\* A row that was rolled back, and a transaction that will be, belong to an
\* error on its way to a caller; and the service succeeds after its listeners.
LossesAreKnown ==
  /\ (\E t \in Chains : row[t] = "rolledBack" \/ tx[t] = "aborted") =>
        \E u \in Chains : at[u] \in {"leavingErr", "endingErr", "failed"}
  /\ at[Service] \in {"leavingOk", "endingOk", "done"} => \A l \in Listeners : at[l] \in Over
  /\ audit = "stored" => at[Service] = "done"

IInv ==
  /\ TypeOK
  /\ ServiceFirst
  /\ ContextHasUser
  /\ UnitOfService
  /\ SharedFate
  /\ RowsFollowTransactions
  /\ LossesAreKnown
  /\ NoSilentLoss
=============================================================================
