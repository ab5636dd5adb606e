# Meterplex in TLA+

Meterplex meters usage, enforces entitlements and bills tenants: a NestJS
application over PostgreSQL (Prisma), Redis and Kafka. This directory holds TLA+
models of its core, TLC configurations that check them on small instances, and
TLAPS proofs of the properties that matter most, for every size of the system.

The models are translated from the TypeScript code (`src/src/...`) and the
database schema (`src/prisma/schema.prisma`). Documentation is quoted only where
the code disagrees with it. `PROJECT.json` names, for each definition, the lines
it stands for.

1. [The system](#1-the-system)
2. [The plan](#2-the-plan)
3. [UsagePipeline](#3-usagepipeline)
4. [UsageIngestion](#4-usageingestion)
5. [InvoiceLifecycle](#5-invoicelifecycle)
6. [Billing](#6-billing)
7. [Payments](#7-payments)
8. [Usage accounting](#8-usage-accounting)
9. [Back office](#9-back-office)
10. [The runs](#10-the-runs)
11. [The proofs](#11-the-proofs)
12. [Divergences](#12-divergences)
13. [What is not modelled](#13-what-is-not-modelled)

## 1. The system

```
 client --POST /usage/events--> UsageEventsService.ingest --+  one transaction
 client --consume-------------> EntitlementCheckService ----+
                                                            v
                                  usage_events + outbox_events  (Postgres)
                                                            |
                            OutboxPublisher (every second, any instances)
                                                            v
                                        usage.raw --> validation consumer
                                                       |          |
                                             usage.validated   usage.dead-letter
                                                       |          |
                                      aggregation consumer   dead-letter consumer
                                                       |          |
                          usage_aggregates + Redis mirror   dead_letter_events
                                     |                          |
              billing cron -> invoices, ledger           admin retry / discard
                                     |
                  payment intents <-> provider webhooks
```

| Component | State it keeps | Operations | What is hard | What makes it correct |
|---|---|---|---|---|
| Ingestion (`usage-events.service.ts`) | `usage_events`, `outbox_events`, Redis `usage:event:{id}` | `ingest(batch)` | overlapping batches, a unique violation inside a transaction, a Redis key set before the event's fate is known | a stored event has exactly one outbox row; what a client is told is true |
| Outbox publisher (`outbox-publisher.service.ts`) | `outbox_events.status`, `retry_count` | `drainOutbox` each second: select, publish, mark, or count the failure | several instances see the same row; crash between publish and mark; stale `retry_count` | no row is lost; a row given up has a dead letter |
| Kafka base (`kafka-consumer.base.ts`, `kafka-producer.service.ts`) | topics, offsets | publish, `eachMessage` | redelivery; errors swallowed and acknowledged | a message is processed or its loss is on record |
| Validation consumer | `usage_events.status` | `handleMessage`: tenant, time, duplicate, subscription, entitlement | two copies at once; tenant and plan change meanwhile | an event is dropped as a duplicate only if it was dealt with |
| Aggregation consumer | `usage_aggregates`, Redis mirror, event status | upsert, mark AGGREGATED | crash between the two | each accepted event is counted (once) |
| Dead letters (consumer, `dead-letter.service.ts`) | `dead_letter_events` | store, retry, discard | retry racing discard, retry of an event already counted | parked events are never forgotten |
| Invoice lifecycle (`invoice-lifecycle.service.ts`, `invoice-number.service.ts`) | `invoices.status`, `invoice_number`, `billing_ledger_entries`, `invoice_sequences` | finalize, markPaid, void | the status is checked before, not in, the transaction; cron, webhook and administrator act at once | unique numbers; status and ledger agree |
| Invoice generation, periods, cron (`invoice-generation`, `billing-period`, `billing-cron`) | `invoices`, `subscriptions.current_period_*` | generate, finalize, advance; prorated invoices of cancelled subscriptions | crash between the three steps; manual generation beside the cron | no period is billed twice by the cron, and none is left behind unbilled |
| Payments (`payment-intent`, `webhook-processing`, handlers, adapters) | `payment_attempts`, `webhook_events` | create an intent, webhook success / failure, retry date, PAST_DUE | webhooks early, late, repeated or out of order; handlers that fail after the 200 | no payment is recorded that was not taken; money taken settles its invoice |
| Entitlement check (`entitlement-check.service.ts`) | Redis counters | `check`, `consume` with a Lua limit, seeding, fallback | expiry and seeding race increments and the consumer's mirror | the hard limit holds; a counter is off only for a known reason |
| Subscriptions (`subscriptions.service.ts`) | `subscriptions`, `entitlement_snapshots` | create (replaces the active one), cancel | concurrent creations; catalogue edits between its reads | one live subscription; a complete snapshot |
| Reconciliation (`reconciliation.service.ts`) | `reconciliation_runs`, `reconciliation_issues` | run, acknowledge, resolve | two unrelated reads while consumers move; crashes | reports drift, and only drift |
| Auth (`auth.service.ts`), API keys (`api-keys.service.ts`) | `refresh_tokens`, `password_reset_tokens`, `api_keys` | register, login, refresh, logout, reset, change; create, revoke, authenticate | concurrent rotation, revocation racing issue, an update nobody waits for | a token is used once; what is revoked stays revoked |
| Users, memberships, tenants | `users`, `memberships`, `tenants` | register, create with owner, add, update, remove | `is_active` is global, roles are per tenant | every tenant keeps its owner |
| Rate limiter (`rate-limit.guard.ts`) | Redis counter per window | `canActivate` | increment, expiry and comparison are separate; presets share counters | bounded requests per window |
| Catalogue (plans, prices, features, entitlements) | their tables | CRUD | partial updates, removal and re-creation | field rules by feature type hold for what is billed |
| Guards, interceptors, filters, configuration, health | none | request checks, formatting | | |

The hazards this code is exposed to, each at its line and with the properties
that watch it, are listed under `hazards` in `PROJECT.json`.

## 2. The plan

| Order | Module | Models | State |
|---|---|---|---|
| 1 | `UsageBilling` | abstract: an accepted event is billed or parked | done |
| 2 | `UsagePipeline` | outbox, topics, three consumers, administrators; implements `UsageBilling` | done, proved |
| 3 | `UsageIngestion` | `ingest()` | done, proved |
| 4 | `InvoiceLifecycle` | finalize, markPaid, void, numbers, ledger | done, proved |
| 5 | `Billing` | cron, periods, generation, manual generation, subscriptions | done, proved |
| 6 | `Payments` | EXTENDS `InvoiceLifecycle`: who calls it and what follows; intents, webhooks, periods, audit; implements `InvoiceLifecycle` | done, proved |
| 7 | `UsageCounters` | the Redis counter, check and consume, the aggregation's mirror | done, proved |
| 8 | `Reconciliation` | EXTENDS `UsageCounters`: the usage check beside the consumers | done, proved |
| 9 | `BillingRules`, `UsageInvoices` | EXTENDS `Reconciliation`: period ends, period keys, overage, proration; which usage invoices charge | done, proved |
| 10 | `Access` | sessions, resets, members, tenants, API keys, guards | done, proved |
| 11 | `Catalogue` | EXTENDS `Access`: plans, features, prices, entitlements, subscriptions with snapshots; implements `Access` | done, proved |
| 12 | `RateLimiter`, `BackOffice` | the guard's counters; `BackOffice` composes it with `Catalogue` and implements both | done, proved |

`MC...` modules give the instances, `...Proofs` the theorems: every invariant of a
run is proved. What may still be worth doing: `consume()` with the transaction of its
event, whose failure leaves the counter incremented; invoices with several features,
which would add the partial failure of a generation.

## 3. UsagePipeline

`UsagePipeline.tla` follows an event from its outbox row to `usage_aggregates`.
An action stands for what a handler does between two `await`s, so instances of
all services interleave freely.

| Variable | Code |
|---|---|
| `status`, `payload` | `usage_events.status`; whether the outbox payload carries what validation wants (`consume()` writes one without id and feature) |
| `outbox`, `retries` | `outbox_events.status`, `retry_count` |
| `batch`, `pub` | a publisher's selected rows with the `retry_count` read, and where it is in `publishRow` |
| `raw`, `validated`, `dlq` | topics, as bags: copies not taken yet |
| `val`, `agg` | the local state of each consumer instance's `handleMessage` |
| `counted` | how often the event's amount was added to its aggregate |
| `rows`, `adm` | `dead_letter_events`; an administrator's `retry` in progress |
| `tenantOk`, `entitled` | what the validator's queries return at the moment |
| `lost`, `retried`, `faults` | history: events about which a handler dropped an error; re-publications; faults |

| Actions | Code |
|---|---|
| `Persist` | the commit of `ingest()` or `consume()` |
| `SelectBatch`, `PublishRow`, `MarkPublished`, `RecordFailure` | `processBatch`, `publishRow` and its catch block |
| `PublishRowFails`, `MarkPublishedFails`, `AbandonBatch` | a send fails (with or without effect), the update fails, the process dies |
| `TakeRaw`, `CheckTenant`, `CheckDuplicate`, `CheckSubscription`, `PublishValidated`, `MarkValidated`, `SendDeadLetter`, `MarkRejected`, `AckRaw` | the validation consumer, one await each |
| `ValidatorThrows`, `DeadLetterSendFails`, `MarkFails`, `ValidatorCrash` | its failures: `processMessage` swallows and acknowledges, the two helpers swallow, a crash redelivers |
| `TakeValidated`, `Upsert`, `MarkAggregated`, `SendAggregationDeadLetter`, `AckValidated` and the failures | the aggregation consumer |
| `StoreDeadLetter`, `StoreDeadLetterFails` | the dead-letter consumer |
| `RetryRead`, `RetryPublish`, `RetryUpdate`, `RetryFails`, `Discard` | `DeadLetterService` |
| `TenantChanges`, `EntitlementChanges` | what other services do to the data validation reads |

Two facts about the code shape the model. `FOR UPDATE SKIP LOCKED` in
`processBatch` runs outside a transaction, so its locks end with the statement
and two publishers may hold one row. And `processMessage` catches every error and
returns, so Kafka sees a success; only a crash redelivers.

Properties:

- `NoUntracedLoss`: once its outbox row is no longer pending, an event is in
  flight, counted or dead-lettered, or a handler dropped an error about it. The
  variable `lost` grows in exactly four places of the code, the four that log an
  error and go on; everything else must keep track of the event by itself. That
  includes the duplicate check, which drops a message because of a status.
- `StatusIsJustified`: that status is never written before the event is
  downstream.
- `AggregatedMeansCounted`: the premise of the reconciliation.
- `GivenUpMeansDeadLetter`: a FAILED outbox row has its dead letter, for good.
- `ImplementsAtLeastOnce`: refinement of `UsageBilling` (accepted events only,
  nothing undone).
- `CountedAtMostOnce`, `ImplementsExactlyOnce`: with one validator and faults of
  publishers only, every accepted event is billed exactly once or parked, in the
  end.

## 4. UsageIngestion

`UsageIngestion.tla` models `ingest()` for several open requests: the loop over
Redis `SET NX` and `preValidate`, the interactive transaction, the response.
`req` holds the local variables of each call, `told` every answer a client ever
got. Postgres is external and modelled from how the code meets it: an insert
waits for an open transaction that inserted the same key, a violation aborts the
whole transaction (later statements fail, COMMIT rolls back), a cycle of waiting
transactions loses one of them.

A *deployment* says what clients submit (batches), which events `preValidate`
may refuse and which faults happen; a behaviour chooses one at the start. One run
so covers six of them, from single events under an unreliable Redis to
overlapping batches in opposite orders under database failures.

- `OneOutboxRow`: the transactional outbox, always.
- `AcceptedIsPersisted`, `AcceptedOnce`: an event answered `accepted` is stored,
  and answered so once, as long as Redis works or requests carry one event. The
  unconditional statement is false, see [Divergences](#12-divergences).
- `DuplicateIsCovered`: an event answered `duplicate` is stored or about to be
  stored by an open request, where nothing is refused and no transaction fails.
- `EveryRequestEnds`: no request hangs, although batches can lock each other out.

## 5. InvoiceLifecycle

`InvoiceLifecycle.tla` models `finalize`, `markPaid` and `void`. Each call reads
the invoice and checks its status (`Request`, `Check`), `finalize` draws a number
(`GenerateNumber`), and a transaction writes status and ledger entry (`Commit`)
without looking at the status again. `CallFails` ends a call at its number or its
transaction, with or without effect. `overlapped` remembers the invoices on which
two calls were past their check at once.

- `NumbersUnique`: whoever finalizes at once, also around New Year.
- `LedgerBacksStatus`: however calls overlap, a FINALIZED or PAID invoice has its
  number, a charge and, if PAID, a payment.
- `LedgerMatchesStatus`, `FollowsLifecycle`: an invoice whose calls did not
  overlap has exactly the entries its status asks for and follows DRAFT ->
  FINALIZED -> PAID, FINALIZED -> VOID, DRAFT -> VOID. Overlapping calls may
  charge twice, or void a paid invoice: that is why the qualification is there.

## 6. Billing

`Billing.tla` models the subscriptions of one tenant, their periods, and who
turns a period into an invoice: the daily cron, and administrators who generate,
finalize and void by hand. What an administrator finalizes may be paid, and
the handler of that payment advances the period as the cron does. `finalize`,
`markPaid` and `void` are single steps here; their insides are `InvoiceLifecycle`'s.

| Variable | Code |
|---|---|
| `now` | the clock; the cron may tick at any time |
| `sub` | `subscriptions`: status, current period, `cancelled_at`, `created_at` |
| `creating` | an open transaction of `create()`: its time and the active subscriptions its `updateMany` saw |
| `invoices` | `invoices`: subscription, period, status, and whether the notes make it a prorated one |
| `cancelling` | subscriptions that a `cancel()` has found live |
| `cron` | local variables of `handleBillingCycle` and its two searches |
| `manual` | the subscription a `generateForTenant` call has read |
| `paying` | payments of what administrators finalized: the intent, and the success handler behind `markPaid` and behind its look at the subscription |
| `deployment` | who acts and what fails in this behaviour, chosen at the start |
| `acts`, `faults` | history: what administrators have asked for, faults |

| Actions | Code |
|---|---|
| `CreateBegin`, `CreateCommit` | `SubscriptionsService.create`: the time it takes, and its transaction |
| `CancelRead`, `CancelWrite` | `cancel`: the look-up, and the update by id alone |
| `Tick`, `Filter`, `FindCancelled` | the two searches: one query for subscriptions, then one per subscription for its invoice |
| `GenerateInvoice`, `FinalizeInvoice`, `Advance` | the loop body, one awaited call each |
| `GenerateFails`, `FinalizeFails`, `AdvanceFails` | a call fails, with or without effect; the loop goes on with the next subscription |
| `TickEnds`, `TickAborts` | the end of a tick; a failed search or the death of the process |
| `ManualRead`, `ManualGenerate` | `generateForTenant`, which asks for no existing invoice and advances nothing |
| `AdminFinalize`, `AdminVoid` | the administrator's endpoints; the former starts a payment |
| `PaymentSucceeds`, `PaymentReads`, `PaymentAdvances` | `PaymentSuccessHandler`: `markPaid`, the look at the subscription, `advancePeriod` |

Properties:

- `NothingBilledTwice`: no two invoices of one period (`OneInvoicePerPeriod`), and
  a subscription cancelled while the cron bills it is not charged for the same days
  in full and prorated (`FullAndProratedDisjoint`). No unique constraint stands
  behind the former, only the order of the steps and the search for an existing
  invoice; it holds for the cron under failures, crashes, cancellations and
  administrators that void; manual generation breaks it, and is excluded. The
  latter needs a cron without failures: a period that was invoiced and not advanced
  is prorated again.
- `NoPeriodSkipped`: every period a subscription has left behind was charged, by a
  full invoice that is no draft any more or by one that was paid, although the cron and the
  payments advance the period beside each other. The condition `ChargedOnce` is what
  the code needs and does not ensure: once two invoices of one period are charged (one
  generated by hand beside the cron's, or a prorated one that is paid), each of them may
  advance the subscription, and a period passes that nobody is charged for.
- `ExpiredIsBilled`: the cron catches up with expired periods, if nothing fails
  (see [Divergences](#12-divergences)) and nobody interferes.
- `CancelledIsInvoiced`: a subscription cancelled before the end of its period gets
  an invoice of that period, prorated or, where the cron had seen it live, in full. It
  claims no more than `billing-period.service.ts:189-193` does: nothing about later
  cancellations, and any invoice of the period will do. Where a step of the cron
  may fail, it does not claim that the invoice is finalized.

## 7. Payments

`Payments.tla` extends `InvoiceLifecycle` by those who call it, for one
subscription whose periods are numbered. A period may have several invoices: the
manual generation looks at none, and the cron looks before it generates. A call of the
invoice service is still its own sequence of steps; here the caller is the cron,
an administrator's request or a webhook handler, and goes on after it.

| Variable | Code |
|---|---|
| `period`, `pastDue` | `subscriptions.current_period_*`, `status` PAST_DUE |
| `periodOf` | the period an invoice is for |
| `cron` | where `handleBillingCycle` is, with the period it has read and its invoice |
| `manual` | the period a `generateForTenant` call has read |
| `job` | `createForInvoice`, which the finalize endpoint starts and does not wait for |
| `provider`, `emitted` | the provider's side: intents, money taken, events issued |
| `attempt`, `retryAt`, `recent` | `payment_attempts`: status and number, `next_retry_at`, `created_at` against the subscription's `updated_at` |
| `received`, `handler` | `webhook_events` and the webhook requests being processed |
| `issues` | `reconciliation_issues` about payments |
| `finalizations`, `early`, `disordered`, `payFaults` | history |

| Actions | Code |
|---|---|
| `CronFind`, `CronFilter` | the search for the subscription, and the one for its invoices |
| `CronGenerate`, `CronFinalize`, `CronCall`, `CronAdvance`, `CronFails` | the cron's loop body |
| `ManualRead`, `ManualGenerate` | `generateForTenant`: the current period, and a draft for it |
| `AdminRequest`, `AdminCall` | `InvoicesController` |
| `JobChecks`, `JobCreatesIntent`, `JobRecords`, `JobFails` | `createForInvoice`: four queries, the provider, the row |
| `Emit` | the provider decides, or the customer pays; both adapters' mappings |
| `Receive` | the webhook row and the 200; a known event is not processed again |
| `Find`, `UpdateSucceeded`, `HandlerCall`, `ReadSubscription`, `HandlerAdvance` | the success handler |
| `UpdateFailed`, `Schedule`, `SetPastDue` | the failure handler |
| `HandlerFails`, `CallerFails` | processing fails after the 200; the caller's process dies |
| `Audit`, `AuditFails` | three checks of the reconciliation's payment audit |

Properties, besides the types: `PaymentsAreCharges` (the ledger never records
more payments than the provider took), `PeriodsBilled` (no period is left behind
without a finalized invoice, although two actors advance it, as long as no period is
charged twice), `SuccessIsFinal`, `LedgerIssuesAreRight` (no false alarm of the ledger
audit), and, in the end, `ChargedIsPaid`: money taken settles its invoice. The
exceptions the properties name are what the code really does: a success that overtakes
the attempt's row is lost, a failure first delivered after the success overwrites it,
two finalizations at once, or two invoices of one period, charge twice and advance
twice.

## 8. Usage accounting

Three modules on top of each other, about one tenant and one feature.

`UsageCounters.tla`: the rows of `usage_aggregates` of each month (`agg`), one per
subscription - the one before and the one after a change of plan -, the
Redis key of each month or of the feature's lifetime (`cache`, with its value
and whether it expires), and those who touch them. A request of `check` or
`consume`, which needs a live subscription (`live`, `SubscriptionChanges`), reads the
key (`Begin`, `Get`), seeds it when it is missing (`ReadAggregate`, `Set`) from a row
that a `findFirst` without subscription returns (`SomeRow`), then counts in the Lua
script (`CountHard`) or by INCRBY and EXPIRE (`CountSoft`, `ExpireShort`), or, if Redis
fails at either, falls back to a row without a reservation (`CountFails`, `ExpireFails`,
`Fallback`). A consumer takes a message (`pending`, which counts copies too), adds its
event to the row of its month and subscription whatever the event's status (`Upsert`),
mirrors it (`Mirror`, `ExpirePeriod`), marks it (`Mark`) and commits (`Commit`). Redis
or Postgres fail (`GetFails`, `ReadFails`, `SetFails`, `UpsertFails`, `MirrorFails`,
`MarkFails`), keys expire, consumers crash, months turn.

- `GrantsBounded`: the script grants no more than the limit for every time its
  key was set or created, however requests and consumers interleave.
- `CounterExact`: a key that is not off for one of five reasons is the sum of the rows,
  less what is still to be mirrored, plus what was consumed. The reasons (`disturbed`):
  a SET that was overtaken, a seed read between an upsert and its mirror, a seed from
  one of two rows after a change of plan, an INCRBY on an expired key, a lost mirror.

`Reconciliation.tla`: a run (`StartRun`, `FindTenants`, `SumEvents`, `ReadRow`,
`Compare`, `Complete`) beside the consumers; failures, crashes, and what administrators
do with its issue. `FindTenants` passes over a tenant without a live subscription, and
`ReadRow` compares with one of the rows, the last the `Map` was given.
`ReportsAreRight`: a drift there was is reported, and none is made up. The former is
claimed of runs that found the tenant, the latter where events name a source and no
consumer moved, both only in the first month and for a tenant with one subscription;
outside those conditions the code does miss drift and make it up, as the comments of
`DriftReported` and `NoFalseAlarm` say.

`UsageInvoices.tla`, with the arithmetic of `BillingRules.tla` (`NextPeriodEnd`,
`UsageKey`, `Overage`, `ProratedFee`): the periods of the old subscription end and are
charged by the cron (`BillPeriod`), it is cancelled (`CancelSubscription`) and prorated
at every tick (`BillCancelled`), and an administrator generates and finalizes invoices
by hand (`BillByHand`), whose payments advance the period (`PaidByHand`), while consumers
go on. `UsageIsBilled`: each month's usage is on exactly one invoice, but for what is
counted after it, for a month too short for the day the subscription began (no
invoice will have its usage), and for the last period of a cancelled subscription,
whose usage every tick charges again. Nothing is claimed once a period with an
invoice by hand has another invoice (`Doubled`), nor of annual periods.

## 9. Back office

`Access.tla`: users, memberships, tenants, sessions, password resets, API keys.
A password is its version number; a token row has an owner, a state, whether it
is past its time, and the password version it was issued under.

| Actions | Code |
|---|---|
| `LoginRead`, `Register`, `Issue` | `login`, `register`: credentials are checked, then tokens are issued |
| `RefreshRead`, `Rotate`, `RevokeAll` | `refresh`: look-up, revocation of the old token, the new pair; reuse revokes all |
| `Logout`, `LogoutAll` | |
| `ForgotPassword`, `CreateReset`, `ResetRead`, `ResetCommit`, `ChangeRead`, `ChangeCommit` | resets and changes, each a read and a transaction |
| `TokenExpires`, `ResetExpires`, `ClientFails` | time, and a request that ends between two steps |
| `CreateTenant`, `UpdateTenant`, `RemoveTenant`, `AddMember`, `UpdateUser` | `TenantsService`, `UsersService` |
| `CreateKey`, `RevokeKey`, `KeyExpires`, `AuthenticateDue`, `MarkExpired` | `ApiKeysService`, and the EXPIRED update it does not wait for |

The guards are state functions (`Authenticated`, `Member`, `HasRole`,
`PlatformAdmin`); every action of a route has its guard as a conjunct.

- `TokensUsedOnce`: a refresh token buys one pair and a reset token one password,
  unless two requests used it at the same time.
- `PasswordEndsSessions`: no session begun with an old password survives, but
  for requests under way at the change, and what is refreshed from them.
- `OwnerKept`: a tenant keeps its one owner, and he is active unless he is a
  member elsewhere too, whose owner may have deactivated him everywhere.
- `KeyStaysDead`: a key never becomes ACTIVE again, whatever update lands late.

`Catalogue.tla` adds plans, features, prices, entitlements and the requests for a
subscription, which read plan, price and entitlements one after the other and
write in a transaction (`OrderPlan`, `OrderPrice`, `OrderEntitlements`,
`OrderCancel`, `OrderCommit`) and cancel it (`CancelFind`, `CancelUpdate`, an update by
id alone). An entitlement is the set of its columns that are not NULL.

- `OneSubscription`: one live subscription, if no two requests for one overlapped.
- `SnapshotsShaped`: what is billed by has the fields that the code's check requires of
  its feature's type - the limit of a QUOTA, the overage price of a METERED one - and none
  that it refuses, through any edits, and after an entitlement was removed and created
  anew; `null` in a body gets past what is required. The check enforces less than its
  comment lists, see [Divergences](#12-divergences): neither `value` of a BOOLEAN nor
  `resetPeriod` of any type is looked at.

`RateLimiter.tla`: the guard reads the clock, increments, sets the time to live
if it was first, and compares. `RateBounded`: no window lets through more requests
of a preset than its limit, unless Redis failed or a request was held up until its
counter had expired. `BackOffice.tla` composes the three.

## 10. The runs

| Run | Instance | Shows |
|---|---|---|
| `pipeline` | 1 event, 1 publisher, 2 validators, 2 aggregators, 1 administrator, 2 dead-letter rows, `MaxRetries` 1, two faults of any kind | the invariants and at-least-once |
| `pipeline_settles` | 2 publishers, 1 validator, 1 aggregator, `MaxRetries` 2, two faults of publishers | every accepted event is billed exactly once or parked, in the end |
| `ingestion` | 2 events, 2 open requests, 3 submissions, 2 faults, six deployments | ingestion, including termination |
| `invoices` | 2 invoices, 2 callers, 2 years, 1 fault | the lifecycle |
| `billing` | 2 subscriptions, periods of 1 up to time 2, 2 full and 2 prorated invoices each, 1 fault, 2 acts of administrators, four deployments | the billing of periods, including liveness |
| `payments` | 2 invoices, 2 payment intents, the cron, 2 administrators, 2 webhook requests, 2 attempts per invoice, 1 fault, twelve deployments | payments, including that money taken settles its invoice |
| `usage_accounting` | 2 events, 2 subscriptions, 2 requests, 2 consumers, limit 1, 4 months, 3 grants, 2 faults, 2 reconciliation runs, 2 invoices per month, 22 deployments | counters, reconciliation, and what invoices charge for usage |
| `back_office` | 2 users, 2 tenants, 2 session requests, 3 refresh and 2 reset tokens, 1 key, 1 plan, 2 features, 1 price, 3 subscriptions with 2 requests for them; 4 rate-limited requests, 2 at a time, in 2 windows; twelve deployments | sessions, members, keys, catalogue, subscriptions, rate limits |
| `doc_counted_at_most_once` | 1 worker each, one consumer crash | a documented claim that fails |
| `doc_accepted_means_stored` | 2 events, 2 requests, Redis errors | a documented claim that fails |
| `doc_failed_is_retried` | 2 subscriptions, 1 database error | a documented claim that fails |
| `doc_prorated_once` | 2 subscriptions, no faults | a documented claim that fails |

*Bounds.* Events do not interact in the pipeline: every table, topic and worker
step is about one event, so one event meets everything except a batch of several,
which `RecordFailure` and `MarkPublished` treat row by row. Two consumers of
each kind race in `pipeline`, two publishers in `pipeline_settles`; a copy too
many is made in the former by a send that fails after delivery. With `MaxRetries`
1 a single fault already leads to giving up a row, with `MaxRetries` 2 and two
faults (`pipeline_settles`) a row survives one failed attempt and is retried. Two
faults are what it takes to lose a message of the aggregation (its update and its
dead letter). `Rows` bounds dead letters: at
the bound, storing one is not enabled; two rows are enough for a row of the
publisher and one of a consumer. `MaxAdminRetries` allows one re-publication. In
the ingestion, two open requests can block each other, a third submission comes
after an answer. In the billing, two subscriptions are one and its replacement,
created concurrently or not; time 2 is two expired periods of the first, or one
and a cancellation in the second. At `MaxFull` and `MaxProrated` a generation
fails, so that the cron's endless prorated invoices stay finite; two of each are
a duplicate, and allow one failed finalization before the one that succeeds. The
four deployments are: nothing disturbs the cron, its steps fail, administrators
finalize and void while a step fails, and manual generation is added.

A deployment of the payments says who acts (cron, generation, finalization,
manual payment, voiding, audits), which events the provider sends, whether faults
occur, and how many invoices, administrators and handlers take part; the twelve of
`MCPayments` put two actors on the same thing in every combination the hazards
name: cron and administrator, two webhooks of one payment or of two invoices that may
be of one period, a webhook and a manual payment or a void, two administrators, an
invoice made by hand beside the cron's, the audit beside any of them. Two
attempts make an invoice PAST_DUE (`MaxAttempts` stands for both limits of 3 in
the code). In the accounting, limit 1 and three grants exceed the limit; months 0
to 3 hold a February and the periods around it; two runs overlap; two events are one
for each subscription, or one and what was counted before; a second invoice of a month
is what charges it twice (at `MaxInvoices` a generation is not enabled). In the back
office, three refresh tokens are a login and two rotations, or a reuse; two tenants
with a common member are what it takes to deactivate somebody else's owner; the
limits are 1 and 2 per window with three requests beyond them.

Where a theorem states the property of a run, the proof removes all these bounds.

*Symmetry* is used for interchangeable instances (`WorkerSymmetry`,
`LifecycleSymmetry`) and only in runs without liveness properties.

*Deadlock* checking is off where a model may run to an end (bounded submissions,
events, rows, invoices, tokens and faults). It is on in the billing, whose cron always ticks again.

*Fairness.* In `FairSpec` of the pipeline each publisher and each consumer
instance keeps taking its own steps: the publisher is a cron job of every second,
a consumer an endless `eachMessage` loop. It assumes a connected producer (one
whose first connection fails never connects again). Clients, administrators,
faults and the outside world are not fair. In the ingestion, a request that was
received keeps running; none has to be submitted. In the billing, the cron keeps
ticking and keeps taking the steps of its loop, which `@Cron` and the `finally`
that clears `isProcessing` justify; time, people and faults are not fair. In the
payments (`FairPaySpec`), an administrator's request and a webhook request, once
received, keep running, and the provider delivers each of its events at least once,
which Stripe promises and the 200 of the controller ends; customers, the cron and
administrators need not act. Fairness is per instance, not per branch: which
outcome a query has remains open.

*Mutants.* For every property of a passing run there is a plausible bug of the
code (a missing constraint, a reordered or dropped write, a wrong guard) under
which that run fails. They stand beside the definition they change, marked
"Mutant", and are used by nothing else.

## 11. The proofs

The `...Proofs` modules are checked by TLAPS, for every number of events, batches, workers,
callers, rows, retries, faults, years, payments, users, tokens, subscriptions and
requests. They rest on the named assumptions about the constants
(`PipelineAssumption`, `IngestionAssumption`, `LifecycleAssumption`, `PaymentsAssumption`,
`BillingAssumption`, `CountersAssumption`, `ReconciliationAssumption`,
`UsageInvoicesAssumption`, `AccessAssumption`, `CatalogueAssumption`, `RateAssumption`),
which give their types, that some bounds are positive, that sets of actors are disjoint
where the code's are, and that the sets whose members are counted (payments, metered
events and their consumers, rate-limited requests) are finite. TLC evaluates them in
every run.

*Pipeline.* `TypeInv` strengthens the types: workers have an event exactly when
they are not idle, only accepted events are anywhere, and a pending row has
attempts left (without which a stale count could leave its range). `Safety` adds
`Traced`: a publisher about to mark has put the event in flight; a validator about
to mark or acknowledge has put it downstream; an aggregator about to mark has
counted it. `NoUntracedLoss` is not inductive alone: a message dropped as a
duplicate leaves the event in flight only because its status is justified
(`InFlightStable` cites `StatusIsJustified`), and the status is justified only
because of `Traced`. `DownstreamStable` shows that nothing comes back.
`TypeCorrect`, `NoLoss`, `StatusJustified`, `AggregatedCounted` and
`GivenUpHasDeadLetter` are the invariants of the run; `AtLeastOnce` proves the
refinement, each step mapping to a step of `UsageBilling` or to a stutter.

`CountedAtMostOnce` does not hold of the code (section 12), and the proof says where the
line is. Its one hypothesis, `Careful`, is the deployment of `pipeline_settles`: one
validator at most, faults of publishers and unsent messages only. Then a validated copy
is in one place (`InOnePlace`), and an event still PENDING has none unless its validator
is about to mark it (`FirstCopy`): whatever is published twice or retried, the duplicate
check catches every copy (`CountedOnce`). The steps of `AtLeastOnce` thus are steps of
the exactly-once specification (`ExactlyOnce`), the safety half of
`ImplementsExactlyOnce`. Each hypothesis is needed: with a second validator, a lost
answer, a failing update or a crashing consumer a copy escapes.

*Ingestion.* `OutboxInv` adds to `OneOutboxRow` that open transactions hold
different events, none of them stored (`Apart`): that is what the unique constraint
and the waiting for an open transaction give (`OutboxIsTransactional`). What clients
are told needs the history of a call. `Plain` holds of every call: what it calls
accepted its own transaction has inserted. In the two regimes of the properties an
aborted transaction had nothing else in it, for two reasons: with Redis, what
a call is about to store is new, and no other call's (`Fresh`); with one event per
batch, it is alone in its transaction (`Alone`). With `Apart` follow
`AcceptedIsStored` and `AcceptedByOneResponse`. `Honest` adds that a call blames an
earlier submission only where a row or an open call has the event, and that no cycle
of waiting transactions arises in the regimes (`NoDeadlock`): `DuplicateIsSafe`.

*Invoices.* `NumbersIssued`: a number in the table or in a call has been issued,
and is in one place only. `SeenBacked`: what a call saw FINALIZED has its number
and charge, whatever happened since. `LoneCalls`: without overlap, one call at
most is past its check and the status is still what it read. From these:
`UniqueNumbers`, `LedgerBacks`, `LedgerMatches`, and the action property
`Lifecycle`.

*Billing.* `TypeInv` says what the cron's local variables hold at each step (`Shape`)
and why a subscription is among those it has found (`Reasons`). `Subs`, `InvoicesGrid`
and `Snapshots` put every period that is read or invoiced on the grid that begins with
the subscription's creation; where no administrator acts, only the cron advances, and
what it has read is the current period still. `CronInvoice` and `Payments` say whose
invoice the cron, or a payment, is busy with. `NoneSkipped` then follows from `Turns`:
while a subscription is charged for no period twice, nothing read or invoiced is ahead
of it, and whatever is about to advance it - the cron past its invoice, or a
payment - has charged its current period (`TurnsOf`); so an advance leaves a charged
period behind, and nobody is left to advance for the same one. Two charges
of one period end that argument, as they end the property: `ChargedOnce` is an
assumption about the invoices, not about who acts, and `paying` includes the payments
of whatever administrators finalized. `Once` adds that what is still to be billed in
full has no full invoice, for which the manual generation must be off; `Apart` places
every full invoice behind the current period, except the one the cron is about to pass,
and every prorated one at a cancelled subscription that is not being billed: without
faults, no day is charged twice (`NothingTwice`).

*Payments.* `PayInv` adds to the types that what is referred to exists
(`References`) and who holds a call of the invoice service (`CallsHeld`): the cron
only while it finalizes, a handler only while it marks paid. With it every step of
`Payments` is a step of `InvoiceLifecycle` or a stutter of it
(`PaymentsImplementLifecycle`), and the lifecycle's theorems hold of the
composition without a new induction (`PaidIsBacked`, `PaymentsFollowLifecycle`).
`AuditInv` counts: the charges in the ledger are the finalizations, so an invoice
without its charge was never finalized and one with two was finalized twice
(`LedgerIssuesRight`). `SettledInv` follows an attempt from its success: the event
of the success is received, its failure was received before or is disordered, a row
is made once, and a handler about to write failure over it is of such a payment
(`SuccessesFinal`).

`CoveredInv` covers the ledger by events: a payment of an invoice is *entered* when the
request on its success has been through markPaid, entries are at most as many as payments
entered, and each of those is charged at the provider (`EntriesAreCharges`). It needs that
two requests never share an event, which the unique constraint gives (`Requests`), and
for which invoice each caller's call is (`Calls`). `PeriodsInv` follows who may advance
the period: a finalization gives one *turn*, to the cron or to the job it starts, the job
passes it to its intent, and the cron or the request on the intent's success uses it up
by advancing; there is never a second turn for an invoice finalized once (`Turns`).
Nothing read or generated is ahead of the current period (`Reached`), so that, as
long as no period is charged twice, whoever advances does so from the current period to
the next, and behind a finalized invoice (`PeriodsAreBilled`). What a request read of the
subscription is still true when it writes, for the same reason (`Dated`). `RowsDated`,
which ties invoices to periods, needs no such condition.

*Usage accounting.* One proof for the three modules, since each is the environment of
the next. `CountersInv`: `Grants` bounds what a key has granted in its present life by
what it counts, because the Lua script counts before it grants. `Exact`: what is not
yet mirrored is in the rows, and a read that no one has overtaken is still what they add
up to - which a read of one of two rows never was -, so that a SET of it is
right (`CountersAreExact`). A step is first reduced to its effect on one key (`Effects`),
and only the effects are held against the invariant. `ReconInv`: the rows have more than
the events added if and only if one was added twice, and each row has an event
of its subscription, so that for a tenant with one subscription the row a run reads is
the sum (`Rows`); what a run that found the tenant has seen so far differs accordingly at
each of its steps (`Sees`; `ReportsRight`). `InvoicesInv`: periods begin on the day of the
first one, or on a day every month has once a month was too short for it (`Grid`). While
no period has had an invoice by hand and another one, at most one payment is
to come, for the invoice of the current period (`Charges`); then months are charged in
order, each with what its row held, and only the last one of a cancelled subscription more
than once (`ChargedMonth`; `UsageBilled`).

*Access.* `AccessInv` adds the references between requests and rows. `OwnerInv`
needs that only two roles are ever given and that an absent tenant has no members;
`MarkInv`, that an update under way is of a key found past its date; `SessionInv`,
that what a request is about to write is of the present password unless the request
is late; `OnceInv`, that a token that is not overlapped has one request exchanging
it at most, and none after its one exchange.

*Catalogue, rate limiter, back office.* `CatalogueKeepsAccess` shows that `Catalogue`
implements `Access`. `OneLiveInv`: the request that is about to commit has seen every
live subscription. `ShapedInv`: what requests have read has passed the check of
entitlements as well. `CountInv`: what was let through plus what is about to be is
covered by the counter, or the counter is gone and its window over; the latter set is
counted by its cardinality, so the proof uses the library's finite sets.
`BackOfficeKeepsCatalogue` and `BackOfficeKeepsLimiter` carry all of it over to the
composition (`BackOfficeSafe`).

*Only model-checked:* liveness, which is outside the reach of the prover: that accepted
events settle (`ImplementsExactlyOnce`), `EveryRequestEnds`, `ExpiredIsBilled`,
`CancelledIsInvoiced` and `ChargedIsPaid`. Every invariant and every action property of
a passing run is proved.

## 12. Divergences

Shown by runs that TLC refutes:

- `doc_counted_at_most_once`: the aggregation's upsert is called safe to retry
  (`docs/architecture/phase-3-usage-pipeline.md:439`), but a consumer that dies
  between the upsert and its offset commit counts the redelivered event again.
- `doc_accepted_means_stored`: the unique violation is caught inside the
  transaction as an "idempotent success" (`usage-events.service.ts:202`,
  `docs/phases/phase-3.md:62`), but Postgres has aborted that transaction; events
  before the duplicate are answered `accepted` and rolled back.
- `doc_failed_is_retried`: the cron's next tick is said to retry a failed
  subscription (`billing-cron.service.ts:11-13`), but if the failure comes after
  the generation, the leftover DRAFT hides the subscription from every later tick.
- `doc_prorated_once`: the second search wants cancelled subscriptions without a
  prorated invoice (`billing-period.service.ts:191`), but looks for `prorated`
  with a case-sensitive `contains` (line 233) while the note says `Prorated`
  (`invoice-generation.service.ts:309`): each tick prorates again.

Seen while reading, and modelled as the code does it:

*Pipeline and invoices.*
- `phase-3-usage-pipeline.md:204` says the row locks prevent duplicate publishes;
  they end with the SELECT. `SelectBatch` models what happens.
- `kafka-producer.service.ts:53-62` relies on the publisher to retry, but a
  producer whose first connection failed never connects again.
- `dead-letter.service.ts:191` calls DISCARDED terminal; a retry already running
  writes RETRYING over it. RESOLVED is never written.
- The invoice sequence is called gap-free (`schema.prisma:1579`); a failed
  transaction leaves a gap (`CallFails`).

*Subscriptions and billing.*
- `subscriptions.service.ts:292-294` says a cancelled subscription stays active until
  its period ends; the update sets CANCELLED at once (`CancelWrite`), and every look-up
  of an active subscription fails from then on.
- `billing-period.service.ts:189-193` lists what the second search wants: no invoice of
  the period, and `cancelledAt < currentPeriodEnd`. The query has neither condition:
  subscriptions cancelled after their period ended are prorated as well (at
  the whole fee), and an invoice in full does not keep a
  prorated one away. `CancelledIsInvoiced` is claimed of what the comment lists
  only. A prorated DRAFT left by a failed finalization is followed by another invoice only
  because the `contains` is case-sensitive; so the property does not claim that the
  invoice is finalized where a step may fail.
- `payment-success.handler.ts:92-93` and `:112` leave a failed advance to the
  billing cron; but the period has an invoice, which makes the cron's search pass over
  the subscription at every tick (`AlreadyInvoiced`). What is left of the payment in
  `paying` is never resumed.
- `generateForTenant` looks for no invoice of the period. Beside the cron's, or called
  twice, it makes a second one; if both are charged, both may advance the
  subscription, and a period passes uncharged (the condition of `NoPeriodSkipped` and
  `PeriodsBilled`).

*Payments.*
- `payment-intent.service.ts:8-9` says an immediate success triggers the success
  handler; the attempt becomes SUCCEEDED and the invoice stays FINALIZED.
- `next_retry_at` is written (`Schedule`) and read by nobody. PAST_DUE asks for
  three attempts, but only the finalize endpoint makes attempts, one each time.
- `schema.prisma:1706-1712` keeps webhook rows for replay; both routes answer 200
  before processing and a known event is skipped, so a FAILED one stays so.
- Invoices that the cron finalizes get no payment intent at all.

*Usage accounting.*
- `consume()` writes events that are never aggregated, so each expiry of its key
  forgets what was consumed, and the hard limit begins anew.
- The aggregation consumer passes the feature's type where its reset period is
  wanted: it never mirrors to the keys of ANNUALLY and NEVER features.
- `usage_aggregates` has a row per subscription (`schema.prisma:1187-1195`), but
  `getUsageFromPostgres` (`entitlement-check.service.ts:446-465`), called "slower but
  always correct", takes the first row of the tenant it is given. After a change
  of plan within a month it answers, and seeds Redis, with one of two rows.
- The reconciliation sums events of all subscriptions and compares with one of the
  rows: after a change of plan it makes up drift, or overlooks it. It does not look at
  tenants without a live subscription (`reconciliation.service.ts:118-127`), so that
  drift of the month in which a tenant cancelled is never reported.
- The usage of a cancelled subscription's last period is on the prorated invoice of
  every tick (`BillCancelled`; `doc_prorated_once` shows the repetition).
- With a null `limitBehavior`, `check()` denies beyond the limit and `consume()`
  grants.
- `subscriptions.service.ts:338` speaks of a day capped at 28; `setMonth` carries
  over, so a period from January 31st ends on March 3rd (`NextPeriodEnd`).
- An annual period looks for the usage key of a year (`UsageKey`), which no consumer
  writes, although the comment at `invoice-generation.service.ts:367` promises the
  aggregation's format.
- The reconciliation sums all months and compares with one; events without
  metadata are not in the sum; a crashed run stays RUNNING.

*Access and catalogue.*
- `entitlements.service.ts:287-303` lists `value` as required for BOOLEAN features,
  `resetPeriod` as required for QUOTA and METERED ones and forbidden for BOOLEAN, and
  `limitBehavior` as defaulting to HARD. The check below it (lines 309-357) does none of
  this: `Required` and `Forbidden` of `Catalogue` are what it does.
- Reset tokens are called single-use (`schema.prisma:332`); two resets at once both
  succeed, as do two refreshes with one token.
- `refresh` does not look at `is_active`; `tenants.status` is read by no guard.
- The rate limiter calls itself a sliding window with a key per category
  (`rate-limit.guard.ts`, header); it is a fixed window per key type, so `AUTH` and
  `AUTH_STRICT` share a counter, as do `USAGE` and `INVOICE`. It runs before the
  guard that identifies users, so a route without a preset is not limited.
- One active subscription per tenant (`subscriptions.service.ts:18`): two creations
  at once leave two.
- `deactivatePrice` ignores the plan in its path.

## 13. What is not modelled

- Backoff delays, batch limits and polling intervals: a row may or may not be
  selected at any time.
- Kafka connections, partitions and order. The topics are bags, which allows more
  than Kafka does; no property depends on order. Messages published before the
  consumer group's first join, which `fromBeginning: false` skips, are left out.
- Amounts and currencies: events carry an amount that is counted as one unit; an
  invoice's entries are all for its total. Invoices with several features.
- Calendar arithmetic in `Billing`, whose periods have the same length (the calendar
  is `BillingRules`'), and more than one process running the cron, whose flag is per
  process. Leap years and time zones.
- The reconciliation's search for cancelled subscriptions without a prorated invoice.
  Its query wants a FINALIZED or PAID invoice of any period that ended by the
  cancellation, so one of an earlier period answers it: what it reports says
  little about the period of the cancellation.
- More than one change of plan in a month, or to a plan with another limit.
- Refunds: the adapters have them, nothing calls them, and their webhook is logged.
- Within the catalogue an edit is one step: it reads and writes rows whose unique
  constraints decide when two edits meet, and a status read before the write only
  decides on an error message or an edit of something archived meanwhile.
- Read-only routes, the audit log (written by an interceptor after the response,
  shown to administrators), the exception filter, DTO validation (but for `null`), password
  hashing, token contents, formatting, logging, health, configuration, start-up and
  seed data: no state the properties speak of.
