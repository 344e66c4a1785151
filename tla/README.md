# TLA+ models of ddd-starter-nestjs

This directory holds formal models of the API application (`src/apps/api`) and of the two
packages that it is built on (`src/packages/core`, `src/packages/infra`).  TLC checks them on
small instances; TLAPS proves the main safety results for every value of the constants.
Paths below are relative to the repository.

## 1. The system

A NestJS monolith over PostgreSQL.  Commands run inside the process; repositories talk to the
database through a Slonik pool (10 connections by default, an acquisition gives up after
`connectionTimeout`, 5 s); domain events go through an in-process event emitter
(`EventEmitterModule.forRoot()`, `apps/api/src/app.module.ts:94`).  Cron jobs run on the same
event loop.  Nothing is shared between two instances of the process but the database.

| Part | State it keeps | Operations | Interacts with |
|---|---|---|---|
| User registration and deletion (`apps/api/src/modules/user`, `core/src/db`, `core/src/ddd`) | tables `users`, `wallets`, `sagas`, `user_wallet_summary`; the transaction and the promises of each request | `CreateUserService`, five event listeners, `DeleteUserService`, `SqlRepositoryBase.insert/delete/transaction` | event emitter, pool, database |
| Sessions (`apps/api/src/modules/auth`) | `refresh_tokens`, `users` | register, login, refresh (rotation), logout; cascade of a user's deletion; expiry | create-user command, pool |
| Wallet transfers (`apps/api/src/modules/wallet`) | `wallets` | `TransferFundsService`, `TransferFundsDomainService`, creation of a wallet | event emitter, pool |
| Transactional outbox (`infra/src/outbox`) | `outbox`; the batch of a run | insert, poll, emit, mark | cron, event emitter |
| Dead letters (`infra/src/dead-letter`, `infra/src/scheduler`) | `failed_events`; what a run has read | record, find due, retry, resolve, update | cron, event emitter |
| Idempotency keys (`infra/src/idempotency`, `infra/src/scheduler`) | `idempotency_keys`; the call and its asynchronous store | look up, replay, run, store, expire, clean up | HTTP handlers, cron |
| Request context and transactions (`core/src/application/context`, `core/src/db`, `infra/src/audit`) | the connection in `AsyncLocalStorage` per request; `audit_logs` | `transaction()` of services and of listeners, `this.pool`, the audit of a finished request | every repository, event emitter |
| Webhooks (`infra/src/webhook`) | `webhook_deliveries` | dispatch, concurrent deliveries, recording of outcomes | subscribers over HTTP |
| Cache, `Retryable`, circuit breaker (`infra/src/cache`, `core/src/decorators`, `infra/src/circuit-breaker`) | the entry of a key; attempts of a call; the circuit | look up, fill, invalidate, expire, retry, break | the decorated method, Redis or memory |
| Entities and their repositories (`core/src/ddd`, `core/src/db`, `user/domain`, `user/database`, `user/queries/find-users`) | `UserEntity` objects and the events they hold; the rows of `users` | create, change, load, save, publish, clear; list page by page | event emitter, database, clients |
| Event bus (`infra/src/event-bus`) | listeners, one subscriber connection per process, messages on their way | publish, subscribe, deliver, shut down | Redis or the event emitter |
| Queue (`infra/src/queue`) | jobs, kept by BullMQ | enqueue | BullMQ |

Webhooks, the cache, `Retryable`, the circuit breaker, the event bus, the queue, the dead letters'
`recordFailure` and the outbox's `insertEvent` are building blocks that the application itself does
not call yet, as are the changes of a `UserEntity` after its creation.

What is hard here, and what makes each part correct:

* **Registration.** The user's insert waits for its listeners *inside* the transaction.  The
  wallet listener uses the transaction's connection; the saga and read-model listeners use the
  injected pool and commit by themselves.  The listeners of one event run concurrently, and the
  wallet's listener publishes a second event.  An emitter that swallows listener errors
  (the default, `suppressErrors`) hides a failed statement, yet PostgreSQL turns the COMMIT of an
  aborted transaction into a ROLLBACK.  A transaction keeps its connection while its listeners
  wait for another one of the same pool.  Correct means: a user and its wallet become visible
  together or not at all; addresses are unique; a conflict is reported only because of a stored
  user; no listener runs on when the user is visible; those who wait never all wait for one another.
* **Sessions.** `RefreshTokenRepository.transaction` ignores the connection it is given, so a
  rotation is two separate commits while a third connection sits idle.  Correct means: a token
  and its successor are never valid together, a valid token has a user, a refresh is answered.
* **Transfers.** Two reads outside any transaction, then two inserts in one.  Correct means:
  money is conserved whatever interleaves, refusals are justified, and a valid transfer succeeds.
* **Outbox and dead letters.** Runs overlap (a slow run, a second instance), work on what they
  read earlier, and can crash between an emission and its mark.  Correct means: nothing is
  retired that no listener handled; everything is eventually handled or given up; nothing is
  given up early.
* **Idempotency.** Nothing reserves a key, the store is asynchronous and nobody awaits it.
  Correct means: outside overlaps, expiries and failed stores a key executes once, and a replay
  is the response of a completed execution under the same key.
* **Transactions in the request context.** One variable per request says which connection its
  repositories use; concurrent listeners share it, every `transaction()` call clears it at its
  end.  Correct means: it never names a connection that no call is using, the rows of service
  and listeners share one fate, and nothing is lost without an error.
* **Webhooks.** Deliveries run concurrently and are only recorded in a row of their own.  Correct
  means: no false success, no delivery without a trace, none left pending, and `dispatch` returns
  (which a subscriber whose body never ends can prevent).
* **Entities and repositories.** An object holds its events until a save has published them; the
  publication awaits listeners, and meanwhile the object can change and be saved again.  Rows are
  validated when they are read.  Lists are cut into pages without an ORDER BY, so that two
  SELECTs may see two orders.  Correct means: no event is lost or repeated, every stored row can be
  read, and the pages hold as many items as users match; which users these are nothing guarantees.
* **Event bus.** `subscribe` returns before Redis knows of it, all listeners of a process hear one
  connection, nobody awaits a handler, connections are lost and come back.  Correct means: who was
  subscribed begins every message of its own name, in the order of Redis.
* **Decorated calls.** What the method returns is stored after the value may have changed; what
  the circuit breaker gave up runs on beside its retry.  Correct means: staleness has one known
  cause, retries follow technical failures only, calls fail only after the last one, all are answered.

`PROJECT.json` lists every hazard with its line and the properties that watch it.

## 2. Modules

| Module | Models | Correspondence |
|---|---|---|
| `Accounts` | abstract specification of creating and deleting users | `Open` = COMMIT of a registration, `Remove` = the DELETE |
| `UserRegistration` | `create-user.service.ts`, `delete-user.service.ts`, `sql-repository.base.ts`, `aggregate-root.base.ts`, the listeners in `user/application` and `wallet/application` | `stage` and `tx` are a request and its transaction, `userRow`..`summary` the tables, `handler` the promise of each listener, `deletion` the deletions. A statement is one action; `Emit` is `emitAsync`; `Resolved`/`Rejected` are its promise |
| `Sessions` | `auth/commands`, `token.service.ts`, `refresh-token.repository.ts` | `status`, `owner`, `parent` are the token rows (`parent` is history: which refresh issued it), `call` the executions. Each query is an action of its own. `Authenticated` is the access-token guard in front of logout, `Unauthorized` its refusal |
| `WalletTransfers` | `transfer-funds.service.ts`, `transfer-funds.domain-service.ts`, `wallet.entity.ts` | `ReadSource`, `ReadTarget` are the two queries, `Save` the transaction |
| `AtLeastOnce` | abstract specification of a store that redelivers | accept, handle, retire |
| `Outbox` | `outbox.repository.ts`, `outbox.publisher.ts` | `run` is one invocation of the job: the batch left and `publishedIds` |
| `DeadLetter` | `dead-letter.*.ts` and the job of `cleanup.scheduler.ts` | `run[p].read` is the `attempts` column as the run read it |
| `Idempotency` | `idempotency.*.ts` and the other job of `cleanup.scheduler.ts` | `call[c].save` is the promise in `tap`; `excused` is history |
| `UnitOfWork` | `sql-repository.base.ts`, `AppRequestContext.ts`, `command.base.ts`, the controllers of create-user, `audit.interceptor.ts` | `entry` is the controller that received the request, which has a context or not; a chain is a service or a listener, each with or without its own `transaction()`; `context` is `RequestContextService`'s connection, `on` the connection of a call, `mark` its savepoint. `UserRegistration` details the case in which only the service has one |
| `Repository` | `entity.base.ts`, `aggregate-root.base.ts`, `user.entity.ts`, the address value object, `user.mapper.ts`, `user.repository.ts`, every statement of `sql-repository.base.ts`, `find-users.query-handler.ts` | `object` is an instance of `UserEntity` (`held` are its `domainEvents`), `row` the table, `call` a save between its statement, its publication and `clearEvents`, `walk` a client that turns pages. Each SELECT of a page picks an order from `Scans`. Statements run on the plain pool; `UnitOfWork` has the transactions |
| `Messaging` | `event-bus.module.ts`, `in-memory.adapter.ts`, `redis-pubsub.adapter.ts` | `listener` is a `subscribe` call, `channels` and `link` the subscriber connection of a process, `inbox` what Redis pushed to it, `publish` and `awaits` the promise of a publication, `running` the handlers at work; `wire`, `started`, `failed`, `owed` are history |
| `Webhooks` | `webhook.dispatcher.ts`, `webhook.repository.ts` | `delivery` is where `deliverToSubscription` is, `row` its row; `arrived` and `accepted` are what the subscriber saw |
| `DecoratedCalls` | `cacheable.decorator.ts` and adapters, `retryable.decorator.ts`, `circuit-breaker.*.ts` | the database row is its version; `running` are the executions of the method by attempt, `breaker` the circuit of opossum (external) |
| `MC*` | instances for TLC | model values and symmetry |
| `*_proofs` | TLAPS proofs | see section 5 |

Conventions.  An operator `X_Y` is a plausible wrong version of `X`; no specification uses it, it
serves to show that the properties notice the difference.  History variables (`parent`,
`handled`, `retries`, `excused`, `executed`, `announced`, `accepted`, `arrived`, `raced`, `technical`,
`told`, `late`, `refused`, `disturbed`, `scan`, `steady`, `wire`, `started`, `owed`) exist for properties and guard no action of the code
(`retries` is capped by `MaxRetries`).  A user, token, event or call is a model value: ids are fresh
UUIDs in the code.  External code (Slonik, PostgreSQL, EventEmitter2) is modelled as
`src` uses it and marked external in `PROJECT.json`.

Whether the emitter swallows the errors of listeners is the variable `suppresses`, chosen at the
start and never changed, in `UserRegistration` and `UnitOfWork`, and the constant `SuppressErrors` in
`Outbox` and `DeadLetter`.  The application leaves the emitter as it comes, which swallows them; the runs
with FALSE show what holds once errors propagate.

## 3. Runs

| Run | Instance | Shows |
|---|---|---|
| `reg_accounts` | 2 registrations, 2 deletions, 2 addresses, pool of 2, errors swallowed or not, every fault | `IInv` (with `ListenersEndBeforeCommit`, `WalletPrecedesItsEffects`), `UserIffWallet`, `ConflictIsGenuine`, `OkIsStored`, `OneDeletionSucceeds`, `SomebodyAdvances`; implements `Accounts` |
| `reg_received_id` | 1 registration, statement failures, errors swallowed | an id is answered for a user that is not stored (finding) |
| `ses_rotation` | 3 calls of any kind, 3 tokens, 1 user, pool of 2, statement failures and crashes | `IInv`, `OneGenerationValid`, `ValidTokenHasUser`, `RefreshAnswered` |
| `out_store` | 3 events, batches of 2, 2 overlapping runs, 1 poisonous event, every fault, errors propagate | implements `AtLeastOnce`; `EventuallyHandled` |
| `dlq_retry` | 2 events, 2 runs that may or may not overlap, `MaxAttempts` 3, every fault, errors propagate | always: `ExhaustedAfterRetries`, `EventuallySettled`, `IInv` (with `ResolvedWasHandled`); without overlap: implements `AtLeastOnce` |
| `xfer_succeeds` | 1 transfer, 2 wallets, amounts 1 and 2, `MaxBalance` 3, no fault | a transfer between two stored wallets with enough money and room throws (finding) |
| `idem_keys` | 3 calls, 2 keys, every fault | `OneExecutionPerKey`, `ReplayIsGenuine`, `IInv` |
| `uow_nested` | a service and 3 listeners, every choice of who calls `transaction()`, every entry point, errors swallowed or not, every fault, a COMMIT that breaks included | `SharedFate`, `NoSilentLoss`, `IInv` (with `ContextHasUser`) |
| `hook_deliver` | 3 subscriptions of which any are active, a payload with or without JSON, every fault | `ReturnLeavesNoPending`, `DispatchReturns` (on the condition that bodies end), `IInv` (with `SuccessWasAccepted`, `ArrivalsAreRecorded`) |
| `call_cached` | 2 calls, 1 retry, 2 changes of the row, any of the decorators, every fault | `IInv`, `StaleOnlyByRace`, `RetriesAreGenuine`, `Answered` |
| `repo_users` | 2 users, 2 addresses, 2 objects, 2 saves, 2 events per object, lengths 0 and 2, pages of 1 and of the default 2, any order in every SELECT, every fault | `IInv` (stored rows can be read), `NoEventLost`, `NoEventRepeated`, `PagesCountUsers`, `PagesCoverUsers` |
| `bus_delivery` | 2 processes, 2 handlers, 2 messages, 2 names, either adapter, 1 lost connection, 1 lost reply, every fault | `IInv` (own channel only), `OwedIsKept`, `StartsInOrder`, `PublishAwaitsHandlers` |

`IInv` is the inductive invariant of its module: the type invariant, the safety properties named with it
and the facts that make them inductive.

Why the bounds are enough.  The hazards are races of two: two registrations race for one address
and for a pool of two, whose connections their transactions can hold both while all their listeners
wait for one (what any number of transactions on as many connections do); two deletions race for one
row; a refresh races with a second refresh, a logout or a deletion, and three calls are the
register-refresh-refresh chain that a token, its child and a rival need; two runs overlap; a
batch limit of two below three events makes batches wrap; three idempotent calls give original,
overlap and retry; three listeners are one that opens the second transaction, one that joins it and
one that comes after it; two calls are a cache's filler and its reader or the two calls around a
half-open circuit, and two changes of the row make an entry stale twice; two saves of one object, or
of two objects on one row, overlap, and two events tell the one that is published from the one that is raised
meanwhile; two users are a full page, a page and a rest, or one page per user, in two orders, and a third
deletion or write changes nothing that two do not; two processes with two handlers are two
listeners on one connection or on two, and two messages have an order.  Of transfers the run is a counterexample, and one is enough for it.
Symmetry is used only in runs without liveness.

`CHECK_DEADLOCK FALSE`: requests, calls and events are finite and each is served once, so
every instance really ends.

`Repository` checks lengths 0 (a missing field) and 2 (the shortest valid one): the bounds of the
other end are the same comparison.  A default page is 20 in the code and 2 here.

Liveness and registration.  Whether a registration is answered is stated as `SomebodyAdvances`: whenever
requests are under way, a step that the event loop, the database or the acquisition timeout takes by itself
is enabled for one of them.  Each of these steps brings its request nearer to its answer (a
listener never goes back, a request is in each stage once), so with finitely many requests this is
what an answer needs of the code; it holds without a fairness assumption and with two connections held
at once.  `NeverStuck` proves the guards of such a step for any number of requests and any pool, `OnlyForward` that each of
them, like every other step, only takes its request or a listener further.  With `GivesUp_Never`, no acquisition timeout, two transactions whose listeners all wait for a
connection violate it.

Fairness.  `FairSpec` assumes that the event loop runs every promise that can proceed (weak
fairness on the steps of a call that has started) and that an acquisition which finds no
connection times out; that requests arrive, clients delete or faults strike is never assumed.
The cron jobs fire for ever (`@Cron`), which is weak fairness of `Progress`.  Where statements,
listeners or the process may fail again and again, liveness needs that a fault does not hit the same
step every time: that is the strong fairness in `Outbox` and `DeadLetter`, per run and event; a poisonous event of
`Outbox` fails always, and a dead letter's listener may.  A dispatch of `Webhooks` assumes that
statements end (in success or failure) and that `fetch` gives up a subscriber that sends no status line
(the `AbortController`).  Nothing is assumed of the body: `webhook.dispatcher.ts:78` clears the timer before
line 80 reads it, and the HTTP client's limit is on the gap between two chunks.  `DispatchReturns` therefore names
`BodiesEnd` as its condition; a subscriber that keeps sending small pieces holds `dispatch` for ever.
A call of `DecoratedCalls` assumes timers and the cache's answer or error, never
the end of the method.

## 4. Where the code and its documents differ

Shown by a run:

* `reg_received_id`: `create-user.feature:10-11` lists the user whose id was received; with
  swallowed listener errors the id can be that of a rolled-back user.
* `xfer_succeeds`: `transfer-funds.feature:3-8` expects a valid transfer to succeed.  The service saves
  both wallets with `insert`, a plain INSERT, and both are stored, so the first one conflicts and the command
  throws.  The unit test behind the scenario replaces the repository by a mock; `TransfersNeverComplete` proves that no
  transfer ever completes, whatever the wallets, the amounts and the interleaving.

Visible in the models, without a run of their own:

* `saga-event-handlers.ts:17` says "The saga insert completes before the wallet event handler fires";
  the two listeners run concurrently, so the wallet's can finish first, and the saga stays at
  STARTED (the state `"missed"` of `UserRegistration!FindSaga`, which `OkIsStored` has to allow for).
* `paginated.response.base.ts:7` documents `count` as the "Total number of items"; the queries fill
  in the number of items on the page (`Repository!Count`).
* `UserEntity.updateAddress` takes partial properties (`user.types.ts:19-24`) and spreads an
  `Address` whose fields are getters of its class: a patch without all fields throws
  (`Repository!Patched`; streets behave as the two fields that are modelled).
* `makeAdmin` and `makeModerator` raise `UserRoleChanged`; no statement of `user.repository.ts`
  writes the role, so the event can be published and the change is not stored (`Repository!RaiseEvent`).
* `findOneByEmail` finds soft-deleted users, the other finders do not (`Repository!Found`).
* `sql-repository.base.ts:146` says of a save "also publishes domain events and waits for completion"; an event raised while
  earlier ones are published is dropped unpublished by `clearEvents` (`late` in `Repository`).
* `insert` of an array writes `models[0]` alone and publishes the events of every entity
  (`sql-repository.base.ts:208`); no caller passes an array, and the models insert one entity.
* `refresh-token.service.ts:42` says "Revoke old token and generate new tokens atomically"; the two
  statements commit separately on other connections (`Sessions!Revoke`, `Sessions!Issue`), and the first does not
  look whether it revoked anything: two refreshes of one token that overlap each issue a successor.
* `create-user.service.ts:33-34` says that all domain events are processed atomically; saga and
  read model commit outside the transaction and survive its rollback.
* `logout.http.controller.ts:18` revokes all refresh tokens; a refresh that looked its token up
  before issues one that outlives the logout.
* `login.feature:13-16` expects `InvalidCredentialsError` for an unknown address; `pool.one` throws
  (`Sessions!Login`).
* `docs/plans/2026-03-09-real-world-template-design.md:241` says of the outbox "Guarantees
  at-least-once delivery"; with `SuppressErrors` an event is marked that no listener handled, and
  as many poisonous events as a batch holds starve the rest.
* `dead-letter.types.ts:5` calls `maxAttempts` the maximum number of retries; the first
  delivery counts, so there are `maxAttempts - 1` (`ExhaustedAfterRetries` states what holds).
* `docs/plans/2026-03-09-real-world-template-plan.md:1259` stores a response before it is
  returned; the store and the answer race.
* Overlapping retry runs can move `attempts` back and reopen a settled event; therefore
  the refinement speaks of runs that do not overlap.
* `docs/plans/2026-03-09-real-world-template-design.md:437` calls the webhook dispatcher "HTTP POST
  with retry"; `maxRetries` is unused and nothing reads `nextRetryAt`.  A delivery that succeeded and
  whose update failed is recorded as failed.
* `transaction()` clears the context when it ends although an outer call may have set it
  (`UnitOfWork!Cleared`): what a listener with its own transaction writes after that, and what the other
  listeners write, leaves the service's transaction.  `SharedFate` therefore speaks of an unbroken unit.

## 5. Proofs

Every theorem is `Spec => [] ...` (a refinement: `Spec => Abstract!Spec`) for any sets of requests, events, calls, listeners,
objects, processes or subscriptions, any pool size and any faults, under the named assumptions of the modules only: `DeadLetter`
needs some event (`EventsAssumption`) and a positive `MaxAttempts`, `UnitOfWork` names that differ, `Repository` finitely many
users (a table is finite) and a `Nothing` that is no value, and the bounds are natural numbers.  TLC checks each inductive invariant first: it is
the `IInv` of the module's run.  Only `WalletTransfers` has none: its run is a counterexample, so its safety is a matter of the theorems alone.

`Delivery_proofs` extends `DeadLetter` and instantiates `Outbox` and `Webhooks`; `Repository_proofs` extends
`Repository` and instantiates `WalletTransfers`, whose save is a call of that repository.  Theorems about an instance
state the assumptions of its module as hypotheses (`Ranges`) and write its properties with the instance's name (`Out!`, `Hook!`, `Xfer!`).

| Module | Theorems | Argument |
|---|---|---|
| `UserRegistration_proofs` | `TypeCorrect`, `Invariant`, `OkIsTrue`, `WalletAtomicity`, `ListenersAwaited`, `EffectsFollowWallet`, `RefinesAccounts`, `OneDeletion`, `GenuineConflicts`, `NeverStuck`, `OnlyForward` | `IInv` ties each row to the stage of its request (`RowsFollowStage`), the wallet to the transaction (`WalletInTransaction`), the second event's listeners to the wallet's promise (`WalletListeners`), and keeps open and stored addresses apart (`AddressesDiffer`). `UserIffWallet` alone is not inductive: at COMMIT one must know that an active transaction whose listeners ended holds the wallet. `OkIsStored` needs the state of each listener to tell its row (`ListenersRecord`) and the stages after the publication to tell that all listeners ended (`StagesFollowListeners`). The refinement uses `AddressesDiffer` for `Open` and maps everything but COMMIT and DELETE to a stutter. `RowsStay` (what is stored may only be deleted) carries the last two: a success is a row that is deleted already (`DeletionsAreTrue`), and a conflict arises only at the step that meets a stored row. `NeverStuck`: an insert waits only for a request that publishes (`RowsFollowStage`); the promises of that one are done, or one of its listeners waits for a connection, and either a connection is free or the holders of all of them make the acquisition time out (`AcquisitionEnds`, by the cardinalities of `Connected` and `Statements`). `OnlyForward` gives each stage a depth and each listener an age, which only grow |
| `Sessions_proofs` | `Invariant`, `RotationReplaces`, `TokensHaveUsers`, `SpentForGood` | `Lineage`: a call past its revoke names a token that is not valid, and a row never inserted has no child. `SpentForGood` is about steps: only an insert makes a row valid, and it takes one that was never inserted |
| `Delivery_proofs`, dead letters | `Invariant`, `NothingDropped`, `NotGivenUpEarly`, `RefinesAtLeastOnce` | `RunsAreSound`: what a run will resolve was handled. `RetriesCovered`: what the column counts, and what a run has read of it, never exceeds the retries made, so that `ExhaustedAfterRetries` survives stale reads. `AloneOnPending`: a run alone works on pending events only, hence no step of the refinement touches a resolved row. `NothingDropped` and the refinement assume `~SuppressErrors`: the swallowing emitter violates them |
| `Delivery_proofs`, outbox | `OutboxInvariant`, `OutboxNothingLost`, `OutboxRefines` | what a run will mark was handled; with errors that propagate |
| `Delivery_proofs`, webhooks | `WebhooksInvariant`, `WebhooksSuccess`, `WebhooksTraced`, `WebhooksSettle` | `StagesKnow`: what each stage of a delivery knows of its row and its subscriber; `ReturnedIsSettled`: `dispatch` has returned only when no delivery is waiting |
| `UnitOfWork_proofs` | `Invariant`, `ContextIsClean`, `OneUnit`, `LossesHaveErrors` | `ServiceFirst`: until the service publishes, nobody else runs and no connection is in the context; `UnitOfService`: while the unit is unbroken, the context is the service's connection and all rows are pending on it. `SharedFate` alone does not say where a pending row lives, nor that an ended unit has no listener left. `NoSilentLoss` needs that a row pending on a connection is one of an open transaction (`RowsFollowTransactions`) and that every rollback follows a chain that threw (`LossesAreKnown`) |
| `DecoratedCalls_proofs` | `Invariant`, `StaleAfterRaceOnly`, `RetriesGenuine` | `CountsAgree`: the failures counted for a call agree with its attempt and with where it is. `FreshUnlessRaced`: what was computed without a race is as new as every invalidation that began, unless the one under way will delete it; `StaleOnlyByRace` alone says nothing of results not yet stored |
| `Repository_proofs`, entities | `ObjectsInvariant`, `EventsAreKept`, `EventsGoOutOnce` | `Histories`: while calls publish an object, all it holds was published but what was raised meanwhile (`late`); in between, nothing it holds was, unless publications raced or were refused. Neither property alone says what `clearEvents` may drop or the next save will publish |
| `Repository_proofs`, pages | `Invariant`, `PagesCount`, `PagesCover` | `WalkCounts`: whatever order each SELECT returns, the pages that an undisturbed client has read hold as many items as its offset, and as users match when it stops; `PagesCountUsers` says nothing before the last page. Which users these are is known only of a walk that met one order (`steady`): `WalkFollowsScan`, the pages are the first `Offset(page)` rows of it. `ScanFact` says that a scan lists the matching users, each once, and `Cut` and `PageFact` join a page to those before it |
| `Repository_proofs`, transfers | `TransfersInvariant`, `TransfersNeverComplete`, `BalancesStay`, `MoneyIsConserved` | no save succeeds, so balances that a transfer read stay current (`ReadsAreCurrent`), and refusals stay due. A step leaves what each wallet is worth (`Worth`, 0 for one that is not stored), hence any sum of it. The hypothesis is `Ranges`: natural balances, integer amounts |
| `Messaging_proofs` | `Invariant`, `OwedArrives`, `OrderIsKept`, `PublicationAwaits` | `ArrivesInOrder`: what a handler began *followed by* what is under way to it is Redis's order without some elements; `StartsInOrder` alone does not constrain the inbox. The lemmas show that `Within` is a preorder which appending and skipping respect. `CopiesAreSent` bounds the copies of a message with a handler or under way by the PUBLISHes executed, counting occurrences (`TimesOfTail` by a bijection). `OwedListen` and `WorkIsAwaited` carry the other two |
| `Idempotency_proofs` | `Invariant`, `KeysExecuteOnce`, `ReplaysAreGenuine` | `UnexcusedKeys`: of an unexcused key at most one call is in flight, and only while no row is stored |

Only model-checked: liveness (`Answered` of `DecoratedCalls`, `RefreshAnswered`, `EventuallyHandled`,
`EventuallySettled`, and `DispatchReturns` under `BodiesEnd`), which needs ENABLED and fairness, and of `SomebodyAdvances` that a request past
the guards of `CanAdvance` has a step (ENABLED); the guards themselves are proved (`NeverStuck`).

## 6. Not modelled

* The queue: `infra/src/queue` hands jobs to BullMQ and contains no worker; what happens to a job is
  BullMQ's.  The circuit of opossum and its rolling error rate are external too: after an
  error the circuit of `DecoratedCalls` may open or not.
* Guards and JWT: each request is checked by itself, without state.  Only the access token of logout is in
  `Sessions`; that of a transfer decides only whether the request arrives, the other routes modelled are
  public, and no route names roles.
* Configuration, feature flags, logging, health, security headers, storage and notification
  adapters, telemetry, `nestjs-slonik`, the testing package and the seeds (but that some users are stored at the start): input and output
  through third-party clients, or no state that a property could be about.
* Of modelled parts: the filters of `find-users`, what the query for one wallet summary selects, and the
  translation of results into responses, which only read; `insert` of an array (section 4);
  `deleteExpired` of the refresh tokens, which nothing calls; the roles of a user, which no statement stores.
* Growth of tables, SQL text, JSON, hashing, validation of requests and the wording of answers
  are abstracted away.

## 7. Plan

Modelled in this order: registration, sessions, outbox and dead letters, transfers, idempotency,
transactions in the request context, webhooks, decorated calls, entities and repositories, event
bus.  Next:

1. An abstract specification of the bus (per handler, a queue of what it is owed) that `Messaging`
   implements, with its refinement proved.
2. A composition of `UserRegistration` and `Sessions` in place of the single step `Register`.
3. Login, guards and roles on tokens that outlive a change of their user.
