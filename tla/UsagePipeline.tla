--------------------------- MODULE UsagePipeline ---------------------------
(***************************************************************************)
(* The asynchronous usage pipeline, from the row an API request commits to *)
(* the counter the invoice is computed from:                               *)
(*                                                                         *)
(*   ingest -> outbox_events -> usage.raw -> validation consumer           *)
(*          -> usage.validated -> aggregation consumer -> usage_aggregates *)
(*                                                                         *)
(* with the dead-letter topic, its table, and the administrator's retry    *)
(* and discard.  Every await of the TypeScript handlers separates two      *)
(* actions here, so any interleaving of the instances of each service is a *)
(* behaviour.                                                              *)
(*                                                                         *)
(* A topic is a bag: for each event, the number of copies not yet taken.   *)
(* Kafka orders messages of one key only, and a retry uses another key     *)
(* than the first publication, so no order between copies is assumed.      *)
(***************************************************************************)
EXTENDS Naturals, FiniteSets

CONSTANTS
    Events,       \* usage events clients may submit, by event id
    NoEvent,      \* what an idle worker works on
    Publishers,   \* instances of OutboxPublisherService
    Validators,   \* instances of UsageValidationConsumer
    Aggregators,  \* instances of UsageAggregationConsumer
    Admins,       \* administrators working on the dead-letter table
    Rows,         \* bound: ids of rows of dead_letter_events
    NoId,         \* the row of an idle administrator
    MaxRetries,   \* MAX_RETRIES of the outbox publisher
    FaultKinds,   \* the kinds of fault that may happen
    MaxFaults,    \* bound: how many faults happen in a behaviour
    MaxAdminRetries  \* bound: how often administrators retry one event

ASSUME PipelineAssumption ==
    /\ NoEvent \notin Events
    /\ Rows \subseteq Nat
    /\ NoId \notin Rows
    /\ MaxRetries \in Nat \ {0}
    /\ MaxFaults \in Nat
    /\ MaxAdminRetries \in Nat
    /\ FaultKinds \subseteq
         {"send", "ack", "db", "publisherCrash", "consumerCrash"}

VARIABLES
    status,     \* usage_events.status, "ABSENT" before the row exists
    outbox,     \* outbox_events.status of the event's row
    retries,    \* outbox_events.retry_count
    batch,      \* per publisher: rows the SELECT returned and not yet done
    pub,        \* per publisher: the row being published and the next step
    raw,        \* copies in usage.raw
    val,        \* per validator: current event and next step
    validated,  \* copies in usage.validated
    agg,        \* per aggregator: current event and next step
    counted,    \* how often the event's amount was added to usage_aggregates
    dlq,        \* copies in usage.dead-letter
    rows,       \* dead_letter_events: source event and status of each row
    adm,        \* per administrator: the row a retry works on and its next step
    tenantOk,   \* tenant ACTIVE and timestamp in the window, as validation sees it
    entitled,   \* active subscription that covers the feature and its amount
    payload,    \* per event: what the payload of its outbox row holds
    lost,       \* history: events for which a handler dropped an error
    retried,    \* history: how often administrators re-published the event
    faults      \* history: number of faults so far

publisherVars == <<outbox, retries, batch, pub>>
validatorVars == <<val>>
aggregatorVars == <<agg, counted>>
deadLetterVars == <<dlq, rows>>
adminVars == <<adm, retried>>
envVars == <<tenantOk, entitled, payload>>
histVars == <<lost, faults>>
vars == <<status, raw, validated, publisherVars, validatorVars, aggregatorVars,
          deadLetterVars, adminVars, envVars, histVars>>

-----------------------------------------------------------------------------
(* Types and helpers *)

EventStatus == {"ABSENT", "PENDING", "VALIDATED", "AGGREGATED", "REJECTED"}
OutboxStatus == {"ABSENT", "PENDING", "PUBLISHED", "FAILED"}
DeadLetterStatus == {"FAILED", "RETRYING", "DISCARDED"}
\* consume() writes a payload without id and feature; a client may choose an
\* eventId that is not a UUID.
Payload == {"complete", "notUuid", "noFields"}
ValidatorSteps == {"idle", "tenant", "duplicate", "subscription", "publish",
                   "markValidated", "deadLetter", "markRejected", "ack"}
AggregatorSteps == {"idle", "upsert", "mark", "deadLetter", "ack"}
MaybeEvent == Events \union {NoEvent}

\* What processBatch reads of an outbox row: the event and its retry_count.
Selection == [ev : Events, n : 0 .. MaxRetries - 1]

TypeOK ==
    /\ status \in [Events -> EventStatus]
    /\ outbox \in [Events -> OutboxStatus]
    /\ retries \in [Events -> 0 .. MaxRetries]
    /\ batch \in [Publishers -> SUBSET Selection]
    /\ pub \in [Publishers -> [step : {"idle", "mark", "fail"}, ev : MaybeEvent,
                               n : 0 .. MaxRetries - 1]]
    /\ raw \in [Events -> Nat]
    /\ val \in [Validators -> [step : ValidatorSteps, ev : MaybeEvent]]
    /\ validated \in [Events -> Nat]
    /\ agg \in [Aggregators -> [step : AggregatorSteps, ev : MaybeEvent]]
    /\ counted \in [Events -> Nat]
    /\ dlq \in [Events -> Nat]
    /\ rows \in [Rows -> [ev : MaybeEvent, status : DeadLetterStatus]]
    /\ adm \in [Admins -> [step : {"idle", "publish", "update"}, row : Rows \union {NoId}]]
    /\ tenantOk \in BOOLEAN
    /\ entitled \in BOOLEAN
    /\ payload \in [Events -> Payload]
    /\ lost \in SUBSET Events
    /\ retried \in [Events -> 0 .. MaxAdminRetries]
    /\ faults \in 0 .. MaxFaults

At(step, e) == [step |-> step, ev |-> e]
Idle == At("idle", NoEvent)
PubIdle == [step |-> "idle", ev |-> NoEvent, n |-> 0]
AdminIdle == [step |-> "idle", row |-> NoId]
NoRow == [ev |-> NoEvent, status |-> "FAILED"]

Put(topic, e) == [topic EXCEPT ![e] = @ + 1]
Take(topic, e) == [topic EXCEPT ![e] = @ - 1]

Fault(kind) ==
    /\ kind \in FaultKinds
    /\ faults < MaxFaults
    /\ faults' = faults + 1

\* deadLetterEvent.create: a row with a new id (the next one), status FAILED.
CreateRow(e) ==
    \E r \in Rows :
        /\ rows[r] = NoRow
        /\ \A q \in Rows : rows[q] = NoRow => r <= q
        /\ rows' = [rows EXCEPT ![r] = [ev |-> e, status |-> "FAILED"]]

Init ==
    /\ status = [e \in Events |-> "ABSENT"]
    /\ outbox = [e \in Events |-> "ABSENT"]
    /\ retries = [e \in Events |-> 0]
    /\ batch = [p \in Publishers |-> {}]
    /\ pub = [p \in Publishers |-> PubIdle]
    /\ raw = [e \in Events |-> 0]
    /\ val = [v \in Validators |-> Idle]
    /\ validated = [e \in Events |-> 0]
    /\ agg = [a \in Aggregators |-> Idle]
    /\ counted = [e \in Events |-> 0]
    /\ dlq = [e \in Events |-> 0]
    /\ rows = [r \in Rows |-> NoRow]
    /\ adm = [d \in Admins |-> AdminIdle]
    /\ tenantOk = TRUE
    /\ entitled = TRUE
    /\ payload \in [Events -> Payload]
    /\ lost = {}
    /\ retried = [e \in Events |-> 0]
    /\ faults = 0

-----------------------------------------------------------------------------
(* The API commits an event *)

\* The transaction of ingest(), or of consume(): the usage event and its outbox
\* row appear together.  UsageIngestion models what leads up to it.
Persist(e) ==
    /\ status[e] = "ABSENT"
    /\ status' = [status EXCEPT ![e] = "PENDING"]
    /\ outbox' = [outbox EXCEPT ![e] = "PENDING"]
    /\ UNCHANGED <<raw, validated, retries, batch, pub, validatorVars, aggregatorVars,
                   deadLetterVars, adminVars, envVars, histVars>>

-----------------------------------------------------------------------------
(* Outbox publisher *)

\* Mutant: a failed row is selected again.
SelectBatchFailed(p) ==
    /\ pub[p] = PubIdle
    /\ batch[p] = {}
    /\ \E S \in SUBSET {e \in Events : outbox[e] \in {"PENDING", "FAILED"}} :
        /\ S # {}
        /\ batch' = [batch EXCEPT ![p] = {[ev |-> e, n |-> retries[e]] : e \in S}]
    /\ UNCHANGED <<status, raw, validated, outbox, retries, pub, validatorVars,
                   aggregatorVars, deadLetterVars, adminVars, envVars, histVars>>

\* Mutant: the rows are claimed, by marking them published, before the publish.
SelectBatchClaims(p) ==
    /\ pub[p] = PubIdle
    /\ batch[p] = {}
    /\ \E S \in SUBSET {e \in Events : outbox[e] = "PENDING"} :
        /\ S # {}
        /\ batch' = [batch EXCEPT ![p] = {[ev |-> e, n |-> retries[e]] : e \in S}]
        /\ outbox' = [e \in Events |-> IF e \in S THEN "PUBLISHED" ELSE outbox[e]]
    /\ UNCHANGED <<status, raw, validated, retries, pub, validatorVars,
                   aggregatorVars, deadLetterVars, adminVars, envVars, histVars>>

\* Mutant: rows with a next_retry_at are never selected again.
SelectBatchOnce(p) ==
    /\ pub[p] = PubIdle
    /\ batch[p] = {}
    /\ \E S \in SUBSET {e \in Events : outbox[e] = "PENDING" /\ retries[e] = 0} :
        /\ S # {}
        /\ batch' = [batch EXCEPT ![p] = {[ev |-> e, n |-> retries[e]] : e \in S}]
    /\ UNCHANGED <<status, raw, validated, outbox, retries, pub, validatorVars,
                   aggregatorVars, deadLetterVars, adminVars, envVars, histVars>>

\* The raw SELECT ... FOR UPDATE SKIP LOCKED runs outside a transaction: its row
\* locks end with the statement, so rows another instance is publishing are
\* returned too.  LIMIT, a lock held by a concurrent SELECT and next_retry_at
\* can only make the result smaller, hence any non-empty subset.
SelectBatch(p) ==
    /\ pub[p] = PubIdle
    /\ batch[p] = {}
    /\ \E S \in SUBSET {e \in Events : outbox[e] = "PENDING"} :
        /\ S # {}
        /\ batch' = [batch EXCEPT ![p] = {[ev |-> e, n |-> retries[e]] : e \in S}]
    /\ UNCHANGED <<status, raw, validated, outbox, retries, pub, validatorVars,
                   aggregatorVars, deadLetterVars, adminVars, envVars, histVars>>

\* publishRow: Kafka acknowledges the message.
PublishRow(p) ==
    /\ pub[p] = PubIdle
    /\ \E s \in batch[p] :
        /\ pub' = [pub EXCEPT ![p] = [step |-> "mark", ev |-> s.ev, n |-> s.n]]
        /\ raw' = Put(raw, s.ev)
    /\ UNCHANGED <<status, validated, outbox, retries, batch, validatorVars,
                   aggregatorVars, deadLetterVars, adminVars, envVars, histVars>>

\* publishRow: the producer throws, with the message written to the topic ("ack")
\* or not ("send").
PublishRowFails(p) ==
    /\ pub[p] = PubIdle
    /\ \E s \in batch[p] :
        /\ pub' = [pub EXCEPT ![p] = [step |-> "fail", ev |-> s.ev, n |-> s.n]]
        /\ \/ Fault("send") /\ UNCHANGED raw
           \/ Fault("ack") /\ raw' = Put(raw, s.ev)
    /\ UNCHANGED <<status, validated, outbox, retries, batch, validatorVars,
                   aggregatorVars, deadLetterVars, adminVars, envVars, lost>>

Done(p) == {s \in batch[p] : s.ev # pub[p].ev}

MarkPublished(p) ==
    /\ pub[p].step = "mark"
    /\ outbox' = [outbox EXCEPT ![pub[p].ev] = "PUBLISHED"]
    /\ batch' = [batch EXCEPT ![p] = Done(p)]
    /\ pub' = [pub EXCEPT ![p] = PubIdle]
    /\ UNCHANGED <<status, raw, validated, retries, validatorVars, aggregatorVars,
                   deadLetterVars, adminVars, envVars, histVars>>

\* The update after the publish is inside the same try: its failure is handled
\* as a failed publish.
MarkPublishedFails(p) ==
    /\ pub[p].step = "mark"
    /\ Fault("db")
    /\ pub' = [pub EXCEPT ![p].step = "fail"]
    /\ UNCHANGED <<status, raw, validated, outbox, retries, batch, validatorVars,
                   aggregatorVars, deadLetterVars, adminVars, envVars, lost>>

\* Mutant: the outbox row is given up without a dead letter.
RecordFailureSilently(p) ==
    LET newRetryCount == pub[p].n + 1
    IN  /\ pub[p].step = "fail"
        /\ retries' = [retries EXCEPT ![pub[p].ev] = newRetryCount]
        /\ outbox' = IF newRetryCount >= MaxRetries
                     THEN [outbox EXCEPT ![pub[p].ev] = "FAILED"] ELSE outbox
        /\ batch' = [batch EXCEPT ![p] = Done(p)]
        /\ pub' = [pub EXCEPT ![p] = PubIdle]
        /\ UNCHANGED <<status, raw, validated, validatorVars, aggregatorVars,
                       deadLetterVars, adminVars, envVars, histVars>>

\* The catch block.  The new count comes from the retry_count the SELECT read,
\* not from the row; the status is left alone until MAX_RETRIES is reached, and
\* then set, with the dead-letter row, in one transaction.
RecordFailure(p) ==
    LET e == pub[p].ev
        newRetryCount == pub[p].n + 1
    IN  /\ pub[p].step = "fail"
        /\ retries' = [retries EXCEPT ![e] = newRetryCount]
        /\ \/ /\ newRetryCount >= MaxRetries
              /\ outbox' = [outbox EXCEPT ![e] = "FAILED"]
              /\ CreateRow(e)
           \/ /\ newRetryCount < MaxRetries
              /\ UNCHANGED <<outbox, rows>>
        /\ batch' = [batch EXCEPT ![p] = Done(p)]
        /\ pub' = [pub EXCEPT ![p] = PubIdle]
        /\ UNCHANGED <<status, raw, validated, validatorVars, aggregatorVars, dlq,
                       adminVars, envVars, histVars>>

\* The publisher stops anywhere: its process dies, or the catch block's own
\* writes fail and drainOutbox drops the rest of the batch.
AbandonBatch(p) ==
    /\ batch[p] # {}
    /\ Fault("publisherCrash")
    /\ batch' = [batch EXCEPT ![p] = {}]
    /\ pub' = [pub EXCEPT ![p] = PubIdle]
    /\ UNCHANGED <<status, raw, validated, outbox, retries, validatorVars,
                   aggregatorVars, deadLetterVars, adminVars, envVars, lost>>

Publisher(p) == SelectBatch(p) \/ PublishRow(p) \/ MarkPublished(p) \/ RecordFailure(p)

PublisherFaults(p) == PublishRowFails(p) \/ MarkPublishedFails(p) \/ AbandonBatch(p)

-----------------------------------------------------------------------------
(* Validation consumer: handleMessage, one action per await *)

ValStep(v, from, to) ==
    /\ val[v].step = from
    /\ val' = [val EXCEPT ![v].step = to]

\* eachMessage hands over a message; the checks of the payload itself come
\* before the first await.
TakeRaw(v) ==
    /\ val[v] = Idle
    /\ \E e \in {x \in Events : raw[x] > 0} :
        /\ raw' = Take(raw, e)
        /\ val' = [val EXCEPT ![v] =
                     At(IF payload[e] = "complete" THEN "tenant" ELSE "deadLetter", e)]
    /\ UNCHANGED <<status, validated, publisherVars, aggregatorVars, deadLetterVars,
                   adminVars, envVars, histVars>>

\* The tenant and timestamp checks, which precede the check for a duplicate.
CheckTenant(v) ==
    /\ ValStep(v, "tenant", IF tenantOk THEN "duplicate" ELSE "deadLetter")
    /\ UNCHANGED <<status, raw, validated, publisherVars, aggregatorVars,
                   deadLetterVars, adminVars, envVars, histVars>>

\* Mutant: the status is not looked at.
CheckDuplicateNever(v) ==
    /\ ValStep(v, "duplicate", "subscription")
    /\ UNCHANGED <<status, raw, validated, publisherVars, aggregatorVars,
                   deadLetterVars, adminVars, envVars, histVars>>

\* An event that is not PENDING is reported to usage.duplicates, which nothing
\* consumes, and dropped.
CheckDuplicate(v) ==
    /\ ValStep(v, "duplicate",
               IF status[val[v].ev] # "PENDING" THEN "ack" ELSE "subscription")
    /\ UNCHANGED <<status, raw, validated, publisherVars, aggregatorVars,
                   deadLetterVars, adminVars, envVars, histVars>>

\* Mutant: the event is marked VALIDATED before it is published.
CheckSubscriptionMarks(v) ==
    /\ ValStep(v, "subscription", IF entitled THEN "publish" ELSE "deadLetter")
    /\ status' = IF entitled THEN [status EXCEPT ![val[v].ev] = "VALIDATED"] ELSE status
    /\ UNCHANGED <<raw, validated, publisherVars, aggregatorVars,
                   deadLetterVars, adminVars, envVars, histVars>>

\* Subscription, snapshot, feature type and amount, read by one query.
CheckSubscription(v) ==
    /\ ValStep(v, "subscription", IF entitled THEN "publish" ELSE "deadLetter")
    /\ UNCHANGED <<status, raw, validated, publisherVars, aggregatorVars,
                   deadLetterVars, adminVars, envVars, histVars>>

PublishValidated(v) ==
    /\ ValStep(v, "publish", "markValidated")
    /\ validated' = Put(validated, val[v].ev)
    /\ UNCHANGED <<status, raw, publisherVars, aggregatorVars, deadLetterVars,
                   adminVars, envVars, histVars>>

\* updateEventStatus writes whatever the status is by now.
MarkValidated(v) ==
    /\ ValStep(v, "markValidated", "ack")
    /\ status' = [status EXCEPT ![val[v].ev] = "VALIDATED"]
    /\ UNCHANGED <<raw, validated, publisherVars, aggregatorVars, deadLetterVars,
                   adminVars, envVars, histVars>>

SendDeadLetter(v) ==
    /\ ValStep(v, "deadLetter", "markRejected")
    /\ dlq' = Put(dlq, val[v].ev)
    /\ UNCHANGED <<status, raw, validated, publisherVars, aggregatorVars, rows,
                   adminVars, envVars, histVars>>

\* A payload without an id matches no row: the update throws, and
\* updateEventStatus swallows the error.
MarkRejected(v) ==
    /\ ValStep(v, "markRejected", "ack")
    /\ status' = IF payload[val[v].ev] = "noFields"
                 THEN status
                 ELSE [status EXCEPT ![val[v].ev] = "REJECTED"]
    /\ UNCHANGED <<raw, validated, publisherVars, aggregatorVars, deadLetterVars,
                   adminVars, envVars, histVars>>

\* The handler is over, whether it returned or threw: the offset moves on.
AckRaw(v) ==
    /\ val[v].step = "ack"
    /\ val' = [val EXCEPT ![v] = Idle]
    /\ UNCHANGED <<status, raw, validated, publisherVars, aggregatorVars,
                   deadLetterVars, adminVars, envVars, histVars>>

\* A query or the publish to usage.validated throws.  processMessage logs the
\* error and moves to the next message; the message may have been delivered.
ValidatorThrows(v) ==
    /\ \/ val[v].step \in {"tenant", "duplicate", "subscription"} /\ Fault("db")
                                                           /\ UNCHANGED validated
       \/ val[v].step = "publish" /\ Fault("send") /\ UNCHANGED validated
       \/ /\ val[v].step = "publish"
          /\ Fault("ack")
          /\ validated' = Put(validated, val[v].ev)
    /\ val' = [val EXCEPT ![v].step = "ack"]
    /\ lost' = lost \union {val[v].ev}
    /\ UNCHANGED <<status, raw, publisherVars, aggregatorVars, deadLetterVars,
                   adminVars, envVars>>

\* sendToDeadLetter swallows the producer's error, and the event is marked
\* REJECTED all the same.
DeadLetterSendFails(v) ==
    /\ ValStep(v, "deadLetter", "markRejected")
    /\ Fault("send")
    /\ lost' = lost \union {val[v].ev}
    /\ UNCHANGED <<status, raw, validated, publisherVars, aggregatorVars,
                   deadLetterVars, adminVars, envVars>>

\* updateEventStatus swallows the error of its update.
MarkFails(v) ==
    /\ val[v].step \in {"markValidated", "markRejected"}
    /\ Fault("db")
    /\ val' = [val EXCEPT ![v].step = "ack"]
    /\ UNCHANGED <<status, raw, validated, publisherVars, aggregatorVars,
                   deadLetterVars, adminVars, envVars, lost>>

\* The instance dies, or is fenced by a rebalance, before its offset is
\* committed: the message is delivered again.
ValidatorCrash(v) ==
    /\ val[v] # Idle
    /\ Fault("consumerCrash")
    /\ raw' = Put(raw, val[v].ev)
    /\ val' = [val EXCEPT ![v] = Idle]
    /\ UNCHANGED <<status, validated, publisherVars, aggregatorVars, deadLetterVars,
                   adminVars, envVars, lost>>

Validator(v) ==
    \/ TakeRaw(v) \/ CheckTenant(v) \/ CheckDuplicate(v) \/ CheckSubscription(v)
    \/ PublishValidated(v) \/ MarkValidated(v) \/ SendDeadLetter(v)
    \/ MarkRejected(v) \/ AckRaw(v)

ValidatorFaults(v) ==
    \/ ValidatorThrows(v) \/ DeadLetterSendFails(v) \/ MarkFails(v) \/ ValidatorCrash(v)

-----------------------------------------------------------------------------
(* Aggregation consumer *)

AggStep(a, from, to) ==
    /\ agg[a].step = from
    /\ agg' = [agg EXCEPT ![a].step = to]

TakeValidated(a) ==
    /\ agg[a] = Idle
    /\ \E e \in {x \in Events : validated[x] > 0} :
        /\ validated' = Take(validated, e)
        /\ agg' = [agg EXCEPT ![a] = At("upsert", e)]
    /\ UNCHANGED <<status, raw, publisherVars, validatorVars, counted, deadLetterVars,
                   adminVars, envVars, histVars>>

\* Mutant: only a VALIDATED event is added, as if that mark preceded its message.
UpsertValidated(a) ==
    /\ AggStep(a, "upsert", "mark")
    /\ counted' = IF status[agg[a].ev] = "VALIDATED" THEN Put(counted, agg[a].ev) ELSE counted
    /\ UNCHANGED <<status, raw, validated, publisherVars, validatorVars,
                   deadLetterVars, adminVars, envVars, histVars>>

\* INSERT ... ON CONFLICT DO UPDATE SET amount = amount + EXCLUDED.amount, with
\* no look at usage_events.status.  The Redis mirror that follows swallows its
\* errors and is EntitlementCache's business.
Upsert(a) ==
    /\ AggStep(a, "upsert", "mark")
    /\ counted' = [counted EXCEPT ![agg[a].ev] = @ + 1]
    /\ UNCHANGED <<status, raw, validated, publisherVars, validatorVars,
                   deadLetterVars, adminVars, envVars, histVars>>

MarkAggregated(a) ==
    /\ AggStep(a, "mark", "ack")
    /\ status' = [status EXCEPT ![agg[a].ev] = "AGGREGATED"]
    /\ UNCHANGED <<raw, validated, counted, publisherVars, validatorVars,
                   deadLetterVars, adminVars, envVars, histVars>>

\* Any error of the upsert (committed or not) or of the update goes to the
\* dead-letter topic.
AggregationFails(a) ==
    /\ agg[a].step \in {"upsert", "mark"}
    /\ Fault("db")
    /\ \/ UNCHANGED counted
       \/ /\ agg[a].step = "upsert"
          /\ counted' = [counted EXCEPT ![agg[a].ev] = @ + 1]
    /\ agg' = [agg EXCEPT ![a].step = "deadLetter"]
    /\ UNCHANGED <<status, raw, validated, publisherVars, validatorVars,
                   deadLetterVars, adminVars, envVars, lost>>

SendAggregationDeadLetter(a) ==
    /\ AggStep(a, "deadLetter", "ack")
    /\ dlq' = Put(dlq, agg[a].ev)
    /\ UNCHANGED <<status, raw, validated, counted, publisherVars, validatorVars, rows,
                   adminVars, envVars, histVars>>

\* Thrown from the catch block, swallowed by processMessage.
AggregationDeadLetterFails(a) ==
    /\ AggStep(a, "deadLetter", "ack")
    /\ Fault("send")
    /\ lost' = lost \union {agg[a].ev}
    /\ UNCHANGED <<status, raw, validated, counted, publisherVars, validatorVars,
                   deadLetterVars, adminVars, envVars>>

AckValidated(a) ==
    /\ agg[a].step = "ack"
    /\ agg' = [agg EXCEPT ![a] = Idle]
    /\ UNCHANGED <<status, raw, validated, counted, publisherVars, validatorVars,
                   deadLetterVars, adminVars, envVars, histVars>>

AggregatorCrash(a) ==
    /\ agg[a] # Idle
    /\ Fault("consumerCrash")
    /\ validated' = Put(validated, agg[a].ev)
    /\ agg' = [agg EXCEPT ![a] = Idle]
    /\ UNCHANGED <<status, raw, counted, publisherVars, validatorVars, deadLetterVars,
                   adminVars, envVars, lost>>

Aggregator(a) ==
    \/ TakeValidated(a) \/ Upsert(a) \/ MarkAggregated(a)
    \/ SendAggregationDeadLetter(a) \/ AckValidated(a)

AggregatorFaults(a) ==
    AggregationFails(a) \/ AggregationDeadLetterFails(a) \/ AggregatorCrash(a)

-----------------------------------------------------------------------------
(* Dead letters: the consumer that stores them, and the administrators *)

\* One insert per message; a crash before the offset is committed leaves the
\* message to be stored again.
StoreDeadLetter ==
    /\ \E e \in {x \in Events : dlq[x] > 0} :
        /\ CreateRow(e)
        /\ \/ dlq' = Take(dlq, e) /\ UNCHANGED faults
           \/ Fault("consumerCrash") /\ UNCHANGED dlq
    /\ UNCHANGED <<status, raw, validated, publisherVars, validatorVars,
                   aggregatorVars, adminVars, envVars, lost>>

\* The insert fails: the error is logged and the message is acknowledged.
StoreDeadLetterFails ==
    /\ \E e \in {x \in Events : dlq[x] > 0} :
        /\ dlq' = Take(dlq, e)
        /\ lost' = lost \union {e}
    /\ Fault("db")
    /\ UNCHANGED <<status, raw, validated, rows, publisherVars, validatorVars,
                   aggregatorVars, adminVars, envVars>>

\* retry() finds a row that is neither RESOLVED (nothing ever writes RESOLVED)
\* nor DISCARDED.
RetryRead(d, r) ==
    /\ adm[d] = AdminIdle
    /\ rows[r] # NoRow
    /\ rows[r].status # "DISCARDED"
    /\ retried[rows[r].ev] < MaxAdminRetries
    /\ adm' = [adm EXCEPT ![d] = [step |-> "publish", row |-> r]]
    /\ UNCHANGED <<status, raw, validated, retried, publisherVars, validatorVars,
                   aggregatorVars, deadLetterVars, envVars, histVars>>

\* The row's topic is usage.raw whatever the stage it failed at.
RetryPublish(d) ==
    LET e == rows[adm[d].row].ev
    IN  /\ adm[d].step = "publish"
        /\ retried[e] < MaxAdminRetries
        /\ raw' = Put(raw, e)
        /\ retried' = [retried EXCEPT ![e] = @ + 1]
        /\ adm' = [adm EXCEPT ![d].step = "update"]
        /\ UNCHANGED <<status, validated, publisherVars, validatorVars,
                       aggregatorVars, deadLetterVars, envVars, histVars>>

\* Mutant: the row of a retried event is deleted.
RetryDeletes(d) ==
    /\ adm[d].step = "update"
    /\ rows' = [rows EXCEPT ![adm[d].row] = NoRow]
    /\ adm' = [adm EXCEPT ![d] = AdminIdle]
    /\ UNCHANGED <<status, raw, validated, dlq, retried, publisherVars,
                   validatorVars, aggregatorVars, envVars, histVars>>

\* The status read before the publish is not looked at again.
RetryUpdate(d) ==
    /\ adm[d].step = "update"
    /\ rows' = [rows EXCEPT ![adm[d].row].status = "RETRYING"]
    /\ adm' = [adm EXCEPT ![d] = AdminIdle]
    /\ UNCHANGED <<status, raw, validated, dlq, retried, publisherVars,
                   validatorVars, aggregatorVars, envVars, histVars>>

\* The publish or the update fails, or the process dies: the request ends.
RetryFails(d) ==
    /\ adm[d] # AdminIdle
    /\ \/ adm[d].step = "publish" /\ Fault("send")
       \/ adm[d].step = "update" /\ Fault("db")
    /\ adm' = [adm EXCEPT ![d] = AdminIdle]
    /\ UNCHANGED <<status, raw, validated, retried, publisherVars, validatorVars,
                   aggregatorVars, deadLetterVars, envVars, lost>>

\* discard() refuses RESOLVED rows only, so its read cannot matter.
Discard(r) ==
    /\ rows[r] # NoRow
    /\ rows' = [rows EXCEPT ![r].status = "DISCARDED"]
    /\ UNCHANGED <<status, raw, validated, dlq, publisherVars, validatorVars,
                   aggregatorVars, adminVars, envVars, histVars>>

Admin(d) == (\E r \in Rows : RetryRead(d, r)) \/ RetryPublish(d) \/ RetryUpdate(d)

-----------------------------------------------------------------------------
(* The world validation looks at *)

TenantChanges ==
    /\ tenantOk' = ~tenantOk
    /\ UNCHANGED <<status, raw, validated, publisherVars, validatorVars,
                   aggregatorVars, deadLetterVars, adminVars, entitled, payload, histVars>>

EntitlementChanges ==
    /\ entitled' = ~entitled
    /\ UNCHANGED <<status, raw, validated, publisherVars, validatorVars,
                   aggregatorVars, deadLetterVars, adminVars, tenantOk, payload, histVars>>

Next ==
    \/ \E e \in Events : Persist(e)
    \/ \E p \in Publishers : Publisher(p) \/ PublisherFaults(p)
    \/ \E v \in Validators : Validator(v) \/ ValidatorFaults(v)
    \/ \E a \in Aggregators : Aggregator(a) \/ AggregatorFaults(a)
    \/ StoreDeadLetter \/ StoreDeadLetterFails
    \/ \E d \in Admins : Admin(d) \/ RetryFails(d)
    \/ \E r \in Rows : Discard(r)
    \/ TenantChanges \/ EntitlementChanges

Spec == Init /\ [][Next]_vars

\* Every instance keeps taking its own steps; clients, administrators, faults and
\* the outside world need not.
Fairness ==
    /\ \A p \in Publishers : WF_vars(Publisher(p))
    /\ \A v \in Validators : WF_vars(Validator(v))
    /\ \A a \in Aggregators : WF_vars(Aggregator(a))
    /\ WF_vars(StoreDeadLetter)

FairSpec == Spec /\ Fairness

-----------------------------------------------------------------------------
(* Properties *)

HasRow(e) == \E r \in Rows : rows[r].ev = e

\* The event has left validation with a trace that stays: a validated copy, its
\* aggregation, a dead letter, or an error some handler dropped.
Downstream(e) ==
    \/ validated[e] > 0
    \/ \E a \in Aggregators : agg[a].ev = e /\ agg[a].step \in {"upsert", "deadLetter"}
    \/ counted[e] > 0
    \/ dlq[e] > 0
    \/ HasRow(e)
    \/ e \in lost

\* The event is in usage.raw, before the decision of a validator, or downstream.
InFlight(e) ==
    \/ raw[e] > 0
    \/ \E v \in Validators :
        /\ val[v].ev = e
        /\ val[v].step \in {"tenant", "duplicate", "subscription", "publish", "deadLetter"}
    \/ Downstream(e)

\* No event disappears: once its outbox row is no longer pending, an event is in
\* flight, counted, dead-lettered, or one of the handlers has dropped an error
\* about it (the four places where lost grows).  In particular an event dropped
\* as a duplicate has been dealt with before.
NoUntracedLoss ==
    \A e \in Events : outbox[e] \in {"PUBLISHED", "FAILED"} => InFlight(e)

\* A status other than PENDING is believed by the duplicate check, so it must
\* never be written before the event went downstream.
StatusIsJustified ==
    \A e \in Events : status[e] \notin {"ABSENT", "PENDING"} => Downstream(e)

\* Reconciliation sums AGGREGATED events: each of them has been added to the
\* aggregate (usage-aggregation.consumer.ts updates the status last).
AggregatedMeansCounted ==
    \A e \in Events : status[e] = "AGGREGATED" => counted[e] > 0

\* An outbox row given up has its dead letter: both are written by one
\* transaction, and the row of dead_letter_events survives everything.
GivenUpMeansDeadLetter ==
    \A e \in Events : outbox[e] = "FAILED" => HasRow(e)

\* No event is billed twice.
CountedAtMostOnce == \A e \in Events : counted[e] <= 1

-----------------------------------------------------------------------------
(* The pipeline implements UsageBilling *)

Parked == {e \in Events : HasRow(e) \/ e \in lost}
Accepted == {e \in Events : status[e] # "ABSENT"}

ExactlyOnceBilling == INSTANCE UsageBilling WITH
    ExactlyOnce <- TRUE, accepted <- Accepted, billed <- counted, parked <- Parked

AtLeastOnceBilling == INSTANCE UsageBilling WITH
    ExactlyOnce <- FALSE, accepted <- Accepted, billed <- counted, parked <- Parked

\* Whatever fails, only accepted events are billed or parked, one per step, and
\* neither is ever undone.
ImplementsAtLeastOnce == AtLeastOnceBilling!Spec

\* With a single validator and faults of publishers only: billed exactly once,
\* and every accepted event is settled in the end.
ImplementsExactlyOnce == ExactlyOnceBilling!FairSpec

=============================================================================
