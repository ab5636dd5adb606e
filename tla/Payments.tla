------------------------------ MODULE Payments ------------------------------
(***************************************************************************)
(* Payments of one subscription's invoices, on top of InvoiceLifecycle:    *)
(* who calls it and what they do next.                                     *)
(*                                                                         *)
(*   - the billing cron generates an invoice of the current period,        *)
(*     finalizes it and advances the period;                               *)
(*   - an administrator generates, finalizes, marks paid and voids; a      *)
(*     finalization starts a job that creates a payment intent;            *)
(*   - the provider collects the money and sends webhooks, which the       *)
(*     success handler turns into a PAID invoice and a further advance.    *)
(*                                                                         *)
(* An invoice is for the period its generation has read; nothing but the   *)
(* cron's filter keeps a period to one invoice.  The webhook table keeps   *)
(* an event's id here; its status column is written and never read.        *)
(***************************************************************************)
EXTENDS InvoiceLifecycle

CONSTANTS
    Cron,         \* the billing cron as a caller
    Admins,       \* administrators' requests that may run at the same time
    Handlers,     \* webhook requests that may run at the same time
    Payment,      \* payment intents, by the provider's id
    None,         \* no invoice
    MaxAttempts,  \* MAX_RETRIES and MAX_ATTEMPTS: attempts per invoice
    Deployments   \* the surroundings to consider: operations, provider, events, sizes

EventTypes == {"succeeded", "failed", "requires_action"}

\* The audit's queries of invoices, attempts and ledger.
AuditKinds == {"overdue", "pastDue", "ledger"}

ASSUME PaymentsAssumption ==
    /\ None \notin Invoices
    /\ IsFiniteSet(Payment)
    /\ Callers = {Cron} \union Admins \union Handlers
    /\ Cron \notin Admins \union Handlers
    /\ Admins \intersect Handlers = {}
    /\ MaxAttempts \in Nat \ {0}
    /\ \A d \in Deployments :
        /\ d.ops \subseteq Operation \union AuditKinds \union {"generate", "cron"}
        /\ d.provider \in {"stripe", "fake"}
        /\ d.events \subseteq EventTypes
        /\ d.faulty \in BOOLEAN
        /\ d.invoices \subseteq Invoices /\ d.admins \subseteq Admins
        /\ d.handlers \subseteq Handlers

VARIABLES
    period,         \* subscriptions: the current period
    periodOf,       \* invoices: the period an invoice is for, 0 before the row exists
    manual,         \* the period a generateForTenant has read, 0 if there is none
    pastDue,        \* subscriptions.status is PAST_DUE
    cron,           \* where handleBillingCycle is, and with which invoice
    job,            \* per administrator: its createForInvoice, still running
    provider,       \* the provider: the intent's invoice, whether money was taken
    attempt,        \* payment_attempts: status and attempt number
    retryAt,        \* payment_attempts with a next_retry_at
    emitted,        \* webhook events the provider has issued
    received,       \* webhook_events: events that have a row
    handler,        \* local state of each webhook request
    deployment,     \* the deployment of this behaviour
    finalizations,  \* history: committed finalizations per invoice
    early,          \* history: payments whose success found no attempt
    disordered,     \* history: payments whose failure was not handled before success
    recent,         \* payment_attempts created since the subscription was last updated
    issues,         \* reconciliation_issues about payments: kind and invoice
    payFaults       \* history: faults outside the calls of the service

payVars == <<period, periodOf, manual, pastDue, cron, job, provider, attempt, retryAt,
             emitted, received, handler, deployment, finalizations, early, disordered,
             payFaults, recent, issues>>
allVars == <<vars, payVars>>

-----------------------------------------------------------------------------

AttemptStatus == {"ABSENT", "PENDING", "REQUIRES_ACTION", "SUCCEEDED", "FAILED"}
Event == [pay : Payment, type : EventTypes]

CronIdle == [step |-> "idle", inv |-> None, period |-> 0]
NoJob == [step |-> "none", inv |-> None, count |-> 0, pay |-> {}]
NoIntent == [inv |-> None, paid |-> FALSE, outcome |-> "none"]
NoAttempt == [status |-> "ABSENT", number |-> 0]
Idle == [step |-> "idle", event |-> {}, period |-> 0]

Period == Nat \ {0}

CronState == {CronIdle} \union
    [step : {"filter", "generate"}, inv : {None}, period : Period] \union
    [step : {"generated", "finalize", "advance"}, inv : Invoices, period : Period]
Job == {NoJob} \union
    [step : {"invoice", "success", "count", "provider", "record"},
     inv : Invoices, count : Nat, pay : SUBSET Payment]
Intent == {NoIntent} \union
    [inv : Invoices, paid : BOOLEAN, outcome : {"requires_action", "succeeded", "failed"}]
Attempt == [status : AttemptStatus, number : Nat]
WebhookRequest == {Idle} \union
    [step : {"find", "update", "markPaid", "subscription", "advance", "schedule", "pastDue"},
     event : {{e} : e \in Event}, period : Nat]

PayTypeOK ==
    /\ TypeOK
    /\ period \in Period /\ pastDue \in BOOLEAN
    /\ periodOf \in [Invoices -> Nat] /\ manual \in Nat
    /\ cron \in CronState
    /\ job \in [Admins -> Job]
    /\ provider \in [Payment -> Intent]
    /\ attempt \in [Payment -> Attempt]
    /\ received \subseteq emitted /\ emitted \subseteq Event
    /\ handler \in [Handlers -> WebhookRequest]
    /\ deployment \in Deployments
    /\ finalizations \in [Invoices -> Nat]
    /\ retryAt \subseteq Payment /\ early \subseteq Payment
    /\ disordered \subseteq Payment /\ recent \subseteq Payment
    /\ issues \subseteq AuditKinds \X Invoices
    /\ payFaults \in 0 .. MaxFaults

PayInit ==
    /\ Init
    /\ period = 1
    /\ periodOf = [i \in Invoices |-> 0]
    /\ manual = 0
    /\ pastDue = FALSE
    /\ cron = CronIdle
    /\ job = [a \in Admins |-> NoJob]
    /\ provider = [p \in Payment |-> NoIntent]
    /\ attempt = [p \in Payment |-> NoAttempt]
    /\ retryAt = {}
    /\ emitted = {}
    /\ received = {}
    /\ handler = [h \in Handlers |-> Idle]
    /\ deployment \in Deployments
    /\ finalizations = [i \in Invoices |-> 0]
    /\ early = {}
    /\ disordered = {}
    /\ payFaults = 0
    /\ recent = {}
    /\ issues = {}

\* A statement fails, or the process dies.
Fault ==
    /\ deployment.faulty
    /\ payFaults < MaxFaults
    /\ payFaults' = payFaults + 1
    /\ UNCHANGED vars

-----------------------------------------------------------------------------
(* The billing cron *)

\* advancePeriod: whatever period it is now, it is the one after k next.
AdvanceFrom(k) == period' = k + 1 /\ recent' = {}

\* findBillableSubscriptions: the expired period, then its invoices, of any status.
CronFind ==
    /\ "cron" \in deployment.ops
    /\ cron = CronIdle
    /\ ~pastDue
    /\ cron' = [CronIdle EXCEPT !.step = "filter", !.period = period]
    /\ UNCHANGED vars
    /\ UNCHANGED <<period, pastDue, job, provider, attempt, retryAt, emitted, received,
                   handler, deployment, periodOf, manual, payFaults, finalizations, early,
                   disordered, recent, issues>>

CronFilter ==
    /\ cron.step = "filter"
    /\ cron' = IF \E i \in Invoices : periodOf[i] = cron.period
               THEN CronIdle ELSE [cron EXCEPT !.step = "generate"]
    /\ UNCHANGED vars
    /\ UNCHANGED <<period, pastDue, job, provider, attempt, retryAt, emitted, received,
                   handler, deployment, periodOf, manual, payFaults, finalizations, early,
                   disordered, recent, issues>>

\* A new row for a period that was read before.
Generate(i, k) ==
    /\ i \in deployment.invoices
    /\ CreateDraft(i)
    /\ periodOf' = [periodOf EXCEPT ![i] = k]

CronGenerate ==
    /\ cron.step = "generate"
    /\ \E i \in Invoices :
        /\ Generate(i, cron.period)
        /\ cron' = [cron EXCEPT !.step = "generated", !.inv = i]
    /\ UNCHANGED <<period, pastDue, job, provider, attempt, retryAt, emitted, received,
                   handler, deployment, manual, payFaults, finalizations, early,
                   disordered, recent, issues>>

CronFinalize ==
    /\ cron.step = "generated"
    /\ Request(Cron, "finalize", cron.inv)
    /\ cron' = [cron EXCEPT !.step = "finalize"]
    /\ UNCHANGED <<period, pastDue, job, provider, attempt, retryAt, emitted, received,
                   handler, deployment, periodOf, manual, payFaults, finalizations, early,
                   disordered, recent, issues>>

\* The call is over when its caller has none any more; it has committed if that
\* was its last step.
Ended(c) == call'[c] = NoCall
Committed(c) == Ended(c) /\ call[c].step = "commit"

\* Mutant: a rejected finalization counts as done.
CronResumesAnyway ==
    cron' = IF Ended(Cron) THEN [cron EXCEPT !.step = "advance"] ELSE cron

\* An exception of finalize leaves the loop body.
CronResumes ==
    cron' = CASE Committed(Cron) -> [cron EXCEPT !.step = "advance"]
              [] Ended(Cron) /\ ~Committed(Cron) -> CronIdle
              [] OTHER -> cron

CountFinalization(c) ==
    finalizations' = IF call[c].op = "finalize" /\ Committed(c)
                     THEN [finalizations EXCEPT ![call[c].inv] = @ + 1]
                     ELSE finalizations

\* A step of the service for a caller.
Serve(c) == Check(c) \/ GenerateNumber(c) \/ Commit(c)

CronCall ==
    /\ Serve(Cron)
    /\ CronResumes
    /\ CountFinalization(Cron)
    /\ UNCHANGED <<period, pastDue, job, provider, attempt, retryAt, emitted, received,
                   handler, deployment, periodOf, manual, payFaults, early, disordered, recent,
                   issues>>

CronAdvance ==
    /\ cron.step = "advance"
    /\ AdvanceFrom(cron.period)
    /\ cron' = CronIdle
    /\ UNCHANGED vars
    /\ UNCHANGED <<pastDue, job, provider, attempt, retryAt, emitted, received, handler,
                   deployment, periodOf, manual, payFaults, finalizations, early, disordered,
                   issues>>

CronFails ==
    /\ cron # CronIdle
    /\ call[Cron] = NoCall
    /\ Fault
    /\ cron' = CronIdle
    /\ UNCHANGED <<period, recent>> \/ (cron.step = "advance" /\ AdvanceFrom(cron.period))
    /\ UNCHANGED <<pastDue, job, provider, attempt, retryAt, emitted, received, handler,
                   deployment, periodOf, manual, finalizations, early, disordered, issues>>

-----------------------------------------------------------------------------
(* Administrators, and the intent a finalization starts *)

\* generateForTenant reads the current period, and generates without a look at the
\* invoices there are.  One that fails before its row is written is never seen.
ManualRead ==
    /\ "generate" \in deployment.ops
    /\ manual = 0
    /\ ~pastDue
    /\ manual' = period
    /\ UNCHANGED vars
    /\ UNCHANGED <<period, pastDue, cron, job, provider, attempt, retryAt, emitted, received,
                   handler, deployment, periodOf, payFaults, finalizations, early,
                   disordered, recent, issues>>

ManualGenerate ==
    /\ manual # 0
    /\ \E i \in Invoices : Generate(i, manual)
    /\ manual' = 0
    /\ UNCHANGED <<period, pastDue, cron, job, provider, attempt, retryAt, emitted, received,
                   handler, deployment, payFaults, finalizations, early, disordered,
                   recent, issues>>

AdminRequest(a, op, i) ==
    /\ a \in deployment.admins
    /\ op \in deployment.ops
    /\ job[a] = NoJob
    /\ Request(a, op, i)
    /\ UNCHANGED payVars

\* The controller starts createForInvoice when finalize has returned, and answers.
AdminCall(a) ==
    /\ Serve(a)
    /\ job' = IF call[a].op = "finalize" /\ Committed(a)
              THEN [job EXCEPT ![a] = [NoJob EXCEPT !.step = "invoice", !.inv = call[a].inv]]
              ELSE job
    /\ CountFinalization(a)
    /\ UNCHANGED <<period, pastDue, cron, provider, attempt, retryAt, emitted, received,
                   handler, deployment, periodOf, manual, payFaults, early, disordered, recent,
                   issues>>

Goto(a, step) == job' = [job EXCEPT ![a].step = step]
EndJob(a) == job' = [job EXCEPT ![a] = NoJob]

AttemptsOf(i) == {p \in Payment : attempt[p].status # "ABSENT" /\ provider[p].inv = i}

\* createForInvoice: a look at the invoice, one at successful attempts, one at
\* their number.
JobChecks(a) ==
    LET i == job[a].inv
    IN  /\ \/ /\ job[a].step = "invoice"
              /\ IF status[i] = "FINALIZED" THEN Goto(a, "success") ELSE EndJob(a)
           \/ /\ job[a].step = "success"
              /\ IF \E p \in AttemptsOf(i) : attempt[p].status = "SUCCEEDED"
                 THEN EndJob(a) ELSE Goto(a, "count")
           \/ /\ job[a].step = "count"
              /\ IF Cardinality(AttemptsOf(i)) >= MaxAttempts
                 THEN EndJob(a)
                 ELSE job' = [job EXCEPT ![a].step = "provider",
                                         ![a].count = Cardinality(AttemptsOf(i))]
        /\ UNCHANGED vars
        /\ UNCHANGED <<period, pastDue, cron, provider, attempt, retryAt, emitted, received,
                       handler, deployment, periodOf, manual, payFaults, finalizations, early,
                       disordered, recent, issues>>

\* The answer to a new intent: Stripe waits for the customer, the fake adapter
\* charges, or refuses, at once.
Answers == IF deployment.provider = "stripe" THEN {"requires_action"}
                                              ELSE {"succeeded", "failed"}

NewIntent(p, i) ==
    /\ provider[p] = NoIntent
    /\ \E o \in Answers :
        provider' = [provider EXCEPT ![p] = [inv |-> i, paid |-> o = "succeeded", outcome |-> o]]

JobCreatesIntent(a) ==
    /\ job[a].step = "provider"
    /\ \E p \in Payment :
        /\ NewIntent(p, job[a].inv)
        /\ job' = [job EXCEPT ![a].step = "record", ![a].pay = {p}]
    /\ UNCHANGED vars
    /\ UNCHANGED <<period, pastDue, cron, attempt, retryAt, emitted, received, handler,
                   deployment, periodOf, manual, payFaults, finalizations, early, disordered,
                   recent, issues>>

\* Mutant: the provider's status is stored as it comes.
InitialStatusRaw(o) == o

\* mapInitialStatus.
InitialStatus(o) ==
    CASE o = "succeeded" -> "SUCCEEDED"
      [] o = "failed" -> "FAILED"
      [] o = "requires_action" -> "REQUIRES_ACTION"

RecordAttempt(a) ==
    \E p \in job[a].pay :
        /\ attempt' = [attempt EXCEPT ![p] = [status |-> InitialStatus(provider[p].outcome),
                                              number |-> job[a].count]]
        /\ recent' = recent \union {p}

JobRecords(a) ==
    /\ job[a].step = "record"
    /\ RecordAttempt(a)
    /\ EndJob(a)
    /\ UNCHANGED vars
    /\ UNCHANGED <<period, pastDue, cron, provider, retryAt, emitted, received, handler,
                   deployment, periodOf, manual, payFaults, finalizations, early, disordered,
                   issues>>

\* An error is logged; the intent, or the row, may exist all the same.
JobFails(a) ==
    /\ job[a] # NoJob
    /\ Fault
    /\ EndJob(a)
    /\ \/ UNCHANGED <<provider, attempt, recent>>
       \/ job[a].step = "provider" /\ UNCHANGED <<attempt, recent>>
            /\ \E p \in Payment : NewIntent(p, job[a].inv)
       \/ job[a].step = "record" /\ RecordAttempt(a) /\ UNCHANGED provider
    /\ UNCHANGED <<period, pastDue, cron, retryAt, emitted, received, handler, deployment,
                   periodOf, manual, finalizations, early, disordered, issues>>

-----------------------------------------------------------------------------
(* The provider *)

\* A customer's payment fails or succeeds; after a failure another try may follow.
Emit(p, type) ==
    /\ type \in deployment.events
    /\ provider[p].outcome = "requires_action"
    /\ ~provider[p].paid
    /\ [pay |-> p, type |-> type] \notin emitted
    /\ emitted' = emitted \union {[pay |-> p, type |-> type]}
    /\ provider' = [provider EXCEPT ![p].paid = (type = "succeeded")]
    /\ UNCHANGED vars
    /\ UNCHANGED <<period, pastDue, cron, job, attempt, retryAt, received, handler, deployment,
                   periodOf, manual, payFaults, finalizations, early, disordered, recent,
                   issues>>

-----------------------------------------------------------------------------
(* Webhooks *)

Handling(h) == handler[h].event
PaymentOf(h) == (CHOOSE e \in Handling(h) : TRUE).pay
TypeOf(h) == (CHOOSE e \in Handling(h) : TRUE).type
InvoiceOf(h) == provider[PaymentOf(h)].inv

\* Mutant: no unique constraint on provider_event_id.
Always(e) == TRUE

\* Mutant: one event per payment is enough.
FirstOfPayment(e) == \A f \in received : f.pay # e.pay

\* The insert into webhook_events: a violation of its unique constraint ends the
\* request.  Deliveries come in any order and any number of times, those that end
\* here included.
Fresh(e) == e \notin received

Disorders(e) ==
    LET success == [e EXCEPT !.type = "succeeded"]
        failure == [e EXCEPT !.type = "failed"]
    IN  \/ e = failure /\ failure \notin received /\ success \in received
        \/ e = success /\ \E h \in Handlers : failure \in Handling(h)

Receive(h, e) ==
    /\ h \in deployment.handlers
    /\ handler[h] = Idle
    /\ e \in emitted
    /\ Fresh(e)
    /\ received' = received \union {e}
    /\ handler' = [handler EXCEPT ![h] = [step |-> "find", event |-> {e}, period |-> 0]]
    /\ disordered' = IF Disorders(e) THEN disordered \union {e.pay} ELSE disordered
    /\ UNCHANGED vars
    /\ UNCHANGED <<period, pastDue, cron, job, provider, attempt, retryAt, emitted, deployment,
                   periodOf, manual, payFaults, finalizations, early, recent, issues>>

Proceed(h, step) == handler' = [handler EXCEPT ![h].step = step]
Finish(h) == handler' = [handler EXCEPT ![h] = Idle]

\* The handlers read the attempt with its invoice.  An unknown payment is logged
\* and done, as is a success for a PAID invoice; other types have no handler.
Find(h) ==
    LET known == attempt[PaymentOf(h)].status # "ABSENT"
        wanted == \/ TypeOf(h) = "failed"
                  \/ TypeOf(h) = "succeeded" /\ status[InvoiceOf(h)] # "PAID"
    IN  /\ handler[h].step = "find"
        /\ IF known /\ wanted THEN Proceed(h, "update") ELSE Finish(h)
        /\ early' = IF ~known /\ TypeOf(h) = "succeeded" THEN early \union {PaymentOf(h)}
                                                         ELSE early
        /\ UNCHANGED vars
        /\ UNCHANGED <<period, pastDue, cron, job, provider, attempt, retryAt, emitted,
                       received, deployment, periodOf, manual, payFaults, finalizations,
                       disordered, recent, issues>>

SetAttempt(h, s) == attempt' = [attempt EXCEPT ![PaymentOf(h)].status = s]

\* The attempt succeeded, and markPaid is called.
UpdateSucceeded(h) ==
    /\ handler[h].step = "update"
    /\ TypeOf(h) = "succeeded"
    /\ SetAttempt(h, "SUCCEEDED")
    /\ Request(h, "markPaid", InvoiceOf(h))
    /\ Proceed(h, "markPaid")
    /\ UNCHANGED <<period, pastDue, cron, job, provider, retryAt, emitted, received,
                   deployment, periodOf, manual, payFaults, finalizations, early, disordered,
                   recent, issues>>

\* An exception of markPaid ends the handler, and the row is FAILED for good.
HandlerCall(h) ==
    /\ Serve(h)
    /\ handler' = CASE Committed(h) -> [handler EXCEPT ![h].step = "subscription"]
                    [] Ended(h) /\ ~Committed(h) -> [handler EXCEPT ![h] = Idle]
                    [] OTHER -> handler
    /\ UNCHANGED <<period, pastDue, cron, job, provider, attempt, retryAt, emitted, received,
                   deployment, periodOf, manual, payFaults, finalizations, early, disordered,
                   recent, issues>>

ReadSubscription(h) ==
    /\ handler[h].step = "subscription"
    /\ handler' = [handler EXCEPT ![h].step = "advance", ![h].period = period]
    /\ UNCHANGED vars
    /\ UNCHANGED <<period, pastDue, cron, job, provider, attempt, retryAt, emitted, received,
                   deployment, periodOf, manual, payFaults, finalizations, early, disordered,
                   recent, issues>>

HandlerAdvance(h) ==
    /\ handler[h].step = "advance"
    /\ AdvanceFrom(handler[h].period)
    /\ Finish(h)
    /\ UNCHANGED vars
    /\ UNCHANGED <<pastDue, cron, job, provider, attempt, retryAt, emitted, received,
                   deployment, periodOf, manual, payFaults, finalizations, early, disordered,
                   issues>>

UpdateFailed(h) ==
    /\ handler[h].step = "update"
    /\ TypeOf(h) = "failed"
    /\ SetAttempt(h, "FAILED")
    /\ Proceed(h, IF attempt[PaymentOf(h)].number + 1 < MaxAttempts
                  THEN "schedule" ELSE "pastDue")
    /\ UNCHANGED vars
    /\ UNCHANGED <<period, pastDue, cron, job, provider, retryAt, emitted, received,
                   deployment, periodOf, manual, payFaults, finalizations, early, disordered,
                   recent, issues>>

\* scheduleRetry writes a time; nobody reads it.
Schedule(h) ==
    /\ handler[h].step = "schedule"
    /\ retryAt' = IF attempt[PaymentOf(h)].status = "FAILED"
                  THEN retryAt \union {PaymentOf(h)} ELSE retryAt
    /\ Finish(h)
    /\ UNCHANGED vars
    /\ UNCHANGED <<period, pastDue, cron, job, provider, attempt, emitted, received,
                   deployment, periodOf, manual, payFaults, finalizations, early, disordered,
                   recent, issues>>

SetPastDue(h) ==
    /\ handler[h].step = "pastDue"
    /\ pastDue' = TRUE
    /\ recent' = {}
    /\ Finish(h)
    /\ UNCHANGED vars
    /\ UNCHANGED <<period, cron, job, provider, attempt, retryAt, emitted, received,
                   deployment, periodOf, manual, payFaults, finalizations, early, disordered,
                   issues>>

\* An error in a handler: the provider has had its 200 already.
HandlerFails(h) ==
    /\ handler[h] # Idle
    /\ call[h] = NoCall
    /\ Fault
    /\ Finish(h)
    /\ \/ UNCHANGED <<attempt, period, recent>>
       \/ handler[h].step = "update" /\ UNCHANGED <<period, recent>>
            /\ SetAttempt(h, IF TypeOf(h) = "failed" THEN "FAILED" ELSE "SUCCEEDED")
       \/ handler[h].step = "advance" /\ AdvanceFrom(handler[h].period) /\ UNCHANGED attempt
    /\ UNCHANGED <<pastDue, cron, job, provider, retryAt, emitted, received, deployment,
                   periodOf, manual, finalizations, early, disordered, issues>>

\* A call of the service fails, with or without effect: its caller gives up.
CallerFails(c) ==
    /\ deployment.faulty
    /\ CallFails(c)
    /\ cron' = IF c = Cron THEN CronIdle ELSE cron
    /\ handler' = IF c \in Handlers THEN [handler EXCEPT ![c] = Idle] ELSE handler
    /\ finalizations' = IF call[c].op = "finalize" /\ ledger' # ledger
                        THEN [finalizations EXCEPT ![call[c].inv] = @ + 1]
                        ELSE finalizations
    /\ UNCHANGED <<period, pastDue, job, provider, attempt, retryAt, emitted, received,
                   deployment, periodOf, manual, payFaults, early, disordered, recent, issues>>

-----------------------------------------------------------------------------
(* Reconciliation of payments: checkSubscriptionPaymentConsistency *)

\* Its four queries, less the one for cancelled subscriptions: invoices unpaid while
\* the subscription is ACTIVE; paid by a new attempt while it is PAST_DUE; charged
\* another amount than their total.
Unpaid == IF pastDue THEN {} ELSE {i \in Invoices : status[i] = "FINALIZED"}

PaidSince ==
    IF pastDue THEN {provider[p].inv : p \in {q \in recent : attempt[q].status = "SUCCEEDED"}}
               ELSE {}

\* Mutant: invoices of any status.
MismatchedAny == {i \in Invoices : status[i] # "ABSENT" /\ ledger[i]["CHARGE"] # 1}

Mismatched == {i \in Invoices : status[i] \in {"FINALIZED", "PAID"} /\ ledger[i]["CHARGE"] # 1}

Found == [overdue |-> Unpaid, pastDue |-> PaidSince, ledger |-> Mismatched]

Report(kind, found) == issues' = issues \union ({kind} \X found)

\* One query and its issues: runs may overlap, so any query is next.  Any of the
\* unpaid invoices may be past its due date.
Audit(kind) ==
    /\ kind \in deployment.ops
    /\ \E found \in SUBSET Found[kind] :
        /\ kind # "overdue" => found = Found[kind]
        /\ Report(kind, found)
    /\ UNCHANGED vars
    /\ UNCHANGED <<period, pastDue, cron, job, provider, attempt, retryAt, emitted, received,
                   handler, deployment, periodOf, manual, payFaults, finalizations, early,
                   disordered, recent>>

\* The run is FAILED, with the issues written so far.
AuditFails(kind) ==
    /\ kind \in deployment.ops
    /\ Fault
    /\ \E found \in SUBSET Found[kind] : Report(kind, found)
    /\ UNCHANGED <<period, pastDue, cron, job, provider, attempt, retryAt, emitted, received,
                   handler, deployment, periodOf, manual, finalizations, early, disordered,
                   recent>>

-----------------------------------------------------------------------------

CronStep == CronFind \/ CronFilter \/ CronGenerate \/ CronFinalize \/ CronCall \/ CronAdvance
AdminStep(a) == AdminCall(a) \/ JobChecks(a) \/ JobCreatesIntent(a) \/ JobRecords(a)
HandlerStep(h) ==
    \/ Find(h) \/ UpdateSucceeded(h) \/ HandlerCall(h) \/ ReadSubscription(h)
    \/ HandlerAdvance(h) \/ UpdateFailed(h) \/ Schedule(h) \/ SetPastDue(h)

PayNext ==
    \/ CronStep \/ CronFails
    \/ ManualRead \/ ManualGenerate
    \/ \E kind \in AuditKinds : Audit(kind) \/ AuditFails(kind)
    \/ \E a \in Admins :
        \/ \E op \in Operation, i \in Invoices : AdminRequest(a, op, i)
        \/ AdminStep(a) \/ JobFails(a)
    \/ \E p \in Payment, type \in EventTypes : Emit(p, type)
    \/ \E h \in Handlers :
        \/ \E e \in emitted : Receive(h, e)
        \/ HandlerStep(h) \/ HandlerFails(h)
    \/ \E c \in Callers : CallerFails(c)

PaySpec == PayInit /\ [][PayNext]_allVars

\* The provider delivers each event at least once; what was received or started is
\* carried on with.  Customers and administrators need not act.
FairPaySpec ==
    /\ PaySpec
    /\ \A a \in Admins : WF_allVars(AdminStep(a))
    /\ \A h \in Handlers : WF_allVars(HandlerStep(h))
    /\ \A p \in Payment, type \in EventTypes :
        WF_allVars(\E h \in Handlers : Receive(h, [pay |-> p, type |-> type]))

-----------------------------------------------------------------------------
(* Properties *)

\* Two calls of finalize that overlap on one invoice both succeed.
FinalizedOnce(i) == finalizations[i] <= 1

Charges(i) == {p \in Payment : provider[p].inv = i /\ provider[p].paid}

\* The ledger never records more payments of an invoice than the provider took,
\* however often and in whatever order webhooks arrive, if none is entered by hand.
PaymentsAreCharges ==
    "markPaid" \notin deployment.ops =>
        \A i \in Invoices : ledger[i]["PAYMENT"] <= Cardinality(Charges(i))

\* No period is charged twice: by two calls of finalize on an invoice, or by two
\* invoices that are both finalized.
Charged(k) == {i \in Invoices : periodOf[i] = k /\ finalizations[i] >= 1}

ChargedOnce ==
    /\ \A i \in Invoices : FinalizedOnce(i)
    /\ \A i, j \in Invoices :
        i # j /\ i \in Charged(periodOf[i]) => j \notin Charged(periodOf[i])

\* Both the cron and the success handler advance the period, and still no period is
\* left behind without an invoice that was finalized, as long as no period is charged
\* twice.  Then two payments, or the cron and a payment, may pass two periods for one.
PeriodsBilled == ChargedOnce => \A k \in 1 .. period - 1 : Charged(k) # {}

\* The audit of the ledger raises no false alarm: an invoice whose charge it finds
\* wrong was finalized by two calls at once, whatever else overlapped or failed.
LedgerIssuesAreRight == \A i \in Invoices : <<"ledger", i>> \in issues => ~FinalizedOnce(i)

\* A successful attempt stays successful, unless the failure of an earlier try was
\* first delivered later or was still being handled.  Redelivered failures do not
\* disturb it.
SuccessIsFinal ==
    [][\A p \in Payment :
         attempt[p].status = "SUCCEEDED" /\ p \notin disordered'
            => attempt'[p].status = "SUCCEEDED"]_allVars

\* Money the provider took settles its invoice in the end, if nothing fails and
\* nobody voids invoices, except when the webhook overtook the attempt's row or two
\* finalizations overlapped.  The fake adapter sends no webhook.
ChargedIsPaid ==
    \A p \in Payment, i \in Invoices :
        (/\ p \in Charges(i)
         /\ deployment.provider = "stripe" /\ ~deployment.faulty
         /\ "void" \notin deployment.ops)
        ~> (status[i] = "PAID" \/ p \in early \/ ~FinalizedOnce(i))

=============================================================================
