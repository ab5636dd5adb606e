------------------------ MODULE UsagePipelineProofs ------------------------
(***************************************************************************)
(* Proofs about UsagePipeline, for every number of events, instances,      *)
(* administrators, rows and faults.                                        *)
(***************************************************************************)
EXTENDS UsagePipeline, TLAPS

\* A worker has an event exactly while it is not idle, and a retry works on a
\* stored row.
WorkersOK ==
    /\ \A p \in Publishers : pub[p].step = "idle" <=> pub[p].ev = NoEvent
    /\ \A v \in Validators : val[v].step = "idle" <=> val[v].ev = NoEvent
    /\ \A a \in Aggregators : agg[a].step = "idle" <=> agg[a].ev = NoEvent
    /\ \A r \in Rows : rows[r].ev = NoEvent => rows[r] = NoRow
    /\ \A d \in Admins :
        adm[d].step # "idle" => adm[d].row \in Rows /\ rows[adm[d].row].ev \in Events

\* Only accepted events are anywhere in the pipeline.
OnlyAccepted ==
    /\ \A e \in Events \ Accepted :
        /\ outbox[e] = "ABSENT" /\ retries[e] = 0
        /\ raw[e] = 0 /\ validated[e] = 0 /\ counted[e] = 0 /\ dlq[e] = 0
        /\ e \notin lost
    /\ \A p \in Publishers :
        /\ pub[p].ev \in Accepted \union {NoEvent}
        /\ \A s \in batch[p] : s.ev \in Accepted
    /\ \A v \in Validators : val[v].ev \in Accepted \union {NoEvent}
    /\ \A a \in Aggregators : agg[a].ev \in Accepted \union {NoEvent}
    /\ \A r \in Rows : rows[r].ev \in Accepted \union {NoEvent}

\* A row that is still pending has attempts left, so the count that RecordFailure
\* computes from an old read stays within MAX_RETRIES.
AttemptsLeft == \A e \in Events : outbox[e] = "PENDING" => retries[e] < MaxRetries

TypeInv == TypeOK /\ WorkersOK /\ OnlyAccepted /\ AttemptsLeft

LEMMA TypeInvInit == Init => TypeInv
  BY PipelineAssumption
  DEF Init, TypeInv, TypeOK, WorkersOK, OnlyAccepted, Accepted, AttemptsLeft, EventStatus, OutboxStatus,
      DeadLetterStatus, Payload, ValidatorSteps, AggregatorSteps, MaybeEvent, Selection, Idle, At,
      PubIdle, AdminIdle, NoRow

LEMMA TypeInvStep == TypeInv /\ [Next]_vars => TypeInv'
<1> USE PipelineAssumption
    DEF TypeInv, TypeOK, WorkersOK, OnlyAccepted, Accepted, AttemptsLeft, EventStatus, OutboxStatus,
        DeadLetterStatus, Payload, ValidatorSteps, AggregatorSteps, MaybeEvent, Selection, Idle,
        At, PubIdle, AdminIdle, NoRow, publisherVars, validatorVars, aggregatorVars,
        deadLetterVars, adminVars, envVars, histVars
<1> SUFFICES ASSUME TypeInv, [Next]_vars PROVE TypeInv'
  OBVIOUS
<1>1. CASE UNCHANGED vars
  BY <1>1 DEF vars
<1>2. ASSUME NEW e \in Events, Persist(e) PROVE TypeInv'
  BY <1>2 DEF Persist
<1>3. ASSUME NEW p \in Publishers, Publisher(p) \/ PublisherFaults(p) PROVE TypeInv'
  <2>1. CASE SelectBatch(p)
    BY <2>1 DEF SelectBatch
  <2>2. CASE PublishRow(p)
    BY <2>2 DEF PublishRow, Put
  <2>3. CASE MarkPublished(p)
    BY <2>3 DEF MarkPublished, Done
  <2>4. CASE RecordFailure(p)
    <3> DEFINE e == pub[p].ev
    <3> DEFINE n == pub[p].n + 1
    <3>1. /\ e \in Accepted
          /\ n \in 0 .. MaxRetries
          /\ retries' = [retries EXCEPT ![e] = n]
          /\ batch' = [batch EXCEPT ![p] = Done(p)]
          /\ pub' = [pub EXCEPT ![p] = PubIdle]
          /\ UNCHANGED <<status, raw, validated, validatorVars, aggregatorVars, dlq,
                         adminVars, envVars, histVars>>
      BY <2>4 DEF RecordFailure
    <3>2. CASE /\ n >= MaxRetries
               /\ outbox' = [outbox EXCEPT ![e] = "FAILED"]
               /\ CreateRow(e)
      <4> PICK r \in Rows : /\ rows[r] = NoRow
                            /\ rows' = [rows EXCEPT ![r] = [ev |-> e, status |-> "FAILED"]]
        BY <3>2 DEF CreateRow
      <4> HIDE DEF e, n
      <4> QED
        BY <3>1, <3>2 DEF Done
    <3>3. CASE n < MaxRetries /\ UNCHANGED <<outbox, rows>>
      <4> HIDE DEF e, n
      <4> QED
        BY <3>1, <3>3 DEF Done
    <3> QED
      BY <2>4, <3>2, <3>3 DEF RecordFailure
  <2>5. CASE PublishRowFails(p)
    <3> PICK s \in batch[p] :
          /\ pub' = [pub EXCEPT ![p] = [step |-> "fail", ev |-> s.ev, n |-> s.n]]
          /\ UNCHANGED raw \/ raw' = Put(raw, s.ev)
          /\ faults' = faults + 1 /\ faults < MaxFaults
          /\ UNCHANGED <<status, validated, outbox, retries, batch, validatorVars,
                         aggregatorVars, deadLetterVars, adminVars, envVars, lost>>
      BY <2>5 DEF PublishRowFails, Fault
    <3>1. CASE UNCHANGED raw
      BY <3>1
    <3>2. CASE raw' = Put(raw, s.ev)
      BY <3>2 DEF Put
    <3> QED
      BY <3>1, <3>2
  <2>6. CASE MarkPublishedFails(p)
    <3> DEFINE Fields == [step : {"idle", "mark", "fail"}, ev : MaybeEvent, n : 0 .. MaxRetries - 1]
               old == pub[p]
               new == [old EXCEPT !.step = "fail"]
    <3>1. /\ old.step = "mark" /\ pub' = [pub EXCEPT ![p] = new]
          /\ faults' \in 0 .. MaxFaults
          /\ pub \in [Publishers -> Fields] /\ old \in Fields
      BY <2>6 DEF MarkPublishedFails, Fault
    <3> HIDE DEF old
    <3>2. new \in Fields /\ new.ev = old.ev /\ new.step = "fail"
      BY <3>1
    <3> HIDE DEF Fields, new
    <3>3. pub' \in [Publishers -> Fields]
      BY <3>1, <3>2
    <3>4. \A q \in Publishers :
            pub'[q].ev = pub[q].ev /\ (pub'[q].step = "idle" <=> pub[q].step = "idle")
      BY <3>1, <3>2 DEF old
    <3> QED
      BY <2>6, <3>1, <3>3, <3>4 DEF MarkPublishedFails, Fields
  <2>7. CASE AbandonBatch(p)
    BY <2>7 DEF AbandonBatch, Fault
  <2> QED
    BY <1>3, <2>1, <2>2, <2>3, <2>4, <2>5, <2>6, <2>7 DEF Publisher, PublisherFaults
<1>4. ASSUME NEW v \in Validators, Validator(v) \/ ValidatorFaults(v) PROVE TypeInv'
  <2>0. ASSUME NEW to \in ValidatorSteps \ {"idle"}, val[v].step # "idle",
               val' = [val EXCEPT ![v].step = to]
        PROVE  /\ val' \in [Validators -> [step : ValidatorSteps, ev : MaybeEvent]]
               /\ \A w \in Validators :
                    val'[w].ev = val[w].ev /\ (val'[w].step = "idle" <=> val[w].step = "idle")
    BY <2>0
  <2>1. CASE TakeRaw(v)
    BY <2>1 DEF TakeRaw, Take
  <2>2. CASE CheckTenant(v) \/ CheckDuplicate(v) \/ CheckSubscription(v)
    <3>1. /\ val' \in [Validators -> [step : ValidatorSteps, ev : MaybeEvent]]
          /\ \A w \in Validators :
               val'[w].ev = val[w].ev /\ (val'[w].step = "idle" <=> val[w].step = "idle")
      BY <2>0, <2>2 DEF CheckTenant, CheckDuplicate, CheckSubscription, ValStep
    <3>2. UNCHANGED <<status, raw, validated, publisherVars, aggregatorVars,
                      deadLetterVars, adminVars, envVars, histVars>>
      BY <2>2 DEF CheckTenant, CheckDuplicate, CheckSubscription
    <3> QED
      BY <3>1, <3>2
  <2>5. CASE PublishValidated(v)
    BY <2>5 DEF PublishValidated, ValStep, Put
  <2>6. CASE MarkValidated(v)
    BY <2>6 DEF MarkValidated, ValStep
  <2>7. CASE SendDeadLetter(v)
    BY <2>7 DEF SendDeadLetter, ValStep, Put
  <2>8. CASE MarkRejected(v)
    BY <2>8 DEF MarkRejected, ValStep
  <2>9. CASE AckRaw(v)
    BY <2>9 DEF AckRaw
  <2>10. CASE ValidatorThrows(v)
    <3>1. /\ val' \in [Validators -> [step : ValidatorSteps, ev : MaybeEvent]]
          /\ \A w \in Validators :
               val'[w].ev = val[w].ev /\ (val'[w].step = "idle" <=> val[w].step = "idle")
      BY <2>0, <2>10 DEF ValidatorThrows
    <3>2. val[v].ev \in Accepted /\ lost' = lost \union {val[v].ev} /\ faults' \in 0 .. MaxFaults
      BY <2>10 DEF ValidatorThrows, Fault
    <3>3. UNCHANGED validated \/ validated' = Put(validated, val[v].ev)
      BY <2>10 DEF ValidatorThrows
    <3>4. /\ validated' \in [Events -> Nat]
          /\ \A e \in Events \ Accepted : validated'[e] = 0
      BY <3>2, <3>3 DEF Put
    <3> QED
      BY <2>10, <3>1, <3>2, <3>4 DEF ValidatorThrows
  <2>11. CASE DeadLetterSendFails(v)
    <3>1. /\ val' \in [Validators -> [step : ValidatorSteps, ev : MaybeEvent]]
          /\ \A w \in Validators :
               val'[w].ev = val[w].ev /\ (val'[w].step = "idle" <=> val[w].step = "idle")
      BY <2>0, <2>11 DEF DeadLetterSendFails, ValStep
    <3>2. val[v].ev \in Accepted /\ lost' = lost \union {val[v].ev} /\ faults' \in 0 .. MaxFaults
      BY <2>11 DEF DeadLetterSendFails, ValStep, Fault
    <3> QED
      BY <2>11, <3>1, <3>2 DEF DeadLetterSendFails
  <2>12. CASE MarkFails(v)
    BY <2>12 DEF MarkFails, Fault
  <2>13. CASE ValidatorCrash(v)
    BY <2>13 DEF ValidatorCrash, Put, Fault
  <2> QED
    BY <1>4, <2>1, <2>2, <2>5, <2>6, <2>7, <2>8, <2>9, <2>10, <2>11, <2>12, <2>13 DEF Validator, ValidatorFaults
<1>5. ASSUME NEW a \in Aggregators, Aggregator(a) \/ AggregatorFaults(a) PROVE TypeInv'
  <2>1. CASE TakeValidated(a)
    BY <2>1 DEF TakeValidated, Take
  <2>2. CASE Upsert(a)
    BY <2>2 DEF Upsert, AggStep
  <2>3. CASE MarkAggregated(a)
    BY <2>3 DEF MarkAggregated, AggStep
  <2>4. CASE SendAggregationDeadLetter(a)
    BY <2>4 DEF SendAggregationDeadLetter, AggStep, Put
  <2>5. CASE AckValidated(a)
    BY <2>5 DEF AckValidated
  <2>6. CASE AggregationFails(a)
    <3>1. CASE UNCHANGED counted
      BY <2>6, <3>1 DEF AggregationFails, Fault
    <3>2. CASE counted' = [counted EXCEPT ![agg[a].ev] = @ + 1]
      BY <2>6, <3>2 DEF AggregationFails, Fault
    <3> QED
      BY <2>6, <3>1, <3>2 DEF AggregationFails
  <2>7. CASE AggregationDeadLetterFails(a)
    BY <2>7 DEF AggregationDeadLetterFails, AggStep, Fault
  <2>8. CASE AggregatorCrash(a)
    BY <2>8 DEF AggregatorCrash, Put, Fault
  <2> QED
    BY <1>5, <2>1, <2>2, <2>3, <2>4, <2>5, <2>6, <2>7, <2>8 DEF Aggregator, AggregatorFaults
<1>6. CASE StoreDeadLetter
  BY <1>6 DEF StoreDeadLetter, CreateRow, Take, Fault
<1>7. CASE StoreDeadLetterFails
  BY <1>7 DEF StoreDeadLetterFails, Take, Fault
<1>8. ASSUME NEW d \in Admins, Admin(d) \/ RetryFails(d) PROVE TypeInv'
  <2>1. ASSUME NEW r \in Rows, RetryRead(d, r) PROVE TypeInv'
    BY <2>1 DEF RetryRead
  <2>2. CASE RetryPublish(d)
    <3> DEFINE e == rows[adm[d].row].ev
    <3>1. e \in Accepted
      BY <2>2 DEF RetryPublish
    <3> HIDE DEF e
    <3>2. /\ raw' = [raw EXCEPT ![e] = @ + 1]
          /\ retried[e] < MaxAdminRetries
          /\ retried' = [retried EXCEPT ![e] = @ + 1]
          /\ adm' = [adm EXCEPT ![d].step = "update"]
          /\ adm[d].step = "publish"
          /\ UNCHANGED <<status, validated, publisherVars, validatorVars,
                         aggregatorVars, deadLetterVars, envVars, histVars>>
      BY <2>2 DEF RetryPublish, Put, e
    <3> QED
      BY <3>1, <3>2
  <2>3. CASE RetryUpdate(d)
    BY <2>3 DEF RetryUpdate
  <2>4. CASE RetryFails(d)
    BY <2>4 DEF RetryFails, Fault
  <2> QED
    BY <1>8, <2>1, <2>2, <2>3, <2>4 DEF Admin
<1>9. ASSUME NEW r \in Rows, Discard(r) PROVE TypeInv'
  BY <1>9 DEF Discard
<1>10. CASE TenantChanges \/ EntitlementChanges
  <2>1. tenantOk' \in BOOLEAN /\ entitled' \in BOOLEAN
    BY <1>10, Zenon DEF TenantChanges, EntitlementChanges
  <2>2. UNCHANGED <<status, raw, validated, publisherVars, validatorVars,
                    aggregatorVars, deadLetterVars, adminVars, payload, histVars>>
    BY <1>10, Zenon DEF TenantChanges, EntitlementChanges
  <2> QED
    BY <2>1, <2>2
<1> QED
  BY <1>1, <1>2, <1>3, <1>4, <1>5, <1>6, <1>7, <1>8, <1>9, <1>10 DEF Next

\* The pipeline's tables and workers only ever hold what their columns and
\* fields allow; in particular no handler runs for a missing event.
THEOREM TypeCorrect == Spec => []TypeOK
<1>1. TypeInv => TypeOK
  BY DEF TypeInv
<1> QED
  BY <1>1, TypeInvInit, TypeInvStep, PTL DEF Spec

-----------------------------------------------------------------------------
(* No event leaves the pipeline without a trace *)

\* Once an event is downstream it stays there: a validated copy is taken only to
\* be upserted, a dead letter only to be stored, and counters, rows and dropped
\* errors remain.
LEMMA DownstreamStable ==
  ASSUME NEW e \in Events, TypeInv, [Next]_vars, Downstream(e)
  PROVE  Downstream(e)'
<1> USE DEF TypeInv, TypeOK, WorkersOK, Downstream, HasRow, MaybeEvent, Idle, At, NoRow,
        publisherVars, validatorVars, aggregatorVars, deadLetterVars, adminVars, envVars,
        histVars
<1> USE PipelineAssumption
<1>1. CASE UNCHANGED <<validated, agg, counted, dlq, rows, lost>>
  BY <1>1
<1>2. ASSUME NEW p \in Publishers, RecordFailure(p) PROVE Downstream(e)'
  <2>1. UNCHANGED <<validated, agg, counted, dlq, lost>>
    BY <1>2 DEF RecordFailure
  <2>2. UNCHANGED rows \/ CreateRow(pub[p].ev)
    BY <1>2 DEF RecordFailure
  <2>3. ASSUME HasRow(e) PROVE HasRow(e)'
    <3>1. PICK r \in Rows : rows[r].ev = e
      BY <2>3
    <3>2. CASE CreateRow(pub[p].ev)
      <4> PICK q \in Rows : /\ rows[q] = NoRow
                            /\ rows' = [rows EXCEPT ![q] = [ev |-> pub[p].ev, status |-> "FAILED"]]
        BY <3>2 DEF CreateRow
      <4>1. rows[q].ev # e
        BY PipelineAssumption
      <4> QED
        BY <3>1, <4>1
    <3> QED
      BY <2>2, <3>1, <3>2
  <2> QED
    BY <2>1, <2>3
<1>3. ASSUME NEW v \in Validators, Validator(v) \/ ValidatorFaults(v) PROVE Downstream(e)'
  <2>1. CASE PublishValidated(v)
    BY <2>1 DEF PublishValidated, Put
  <2>2. CASE SendDeadLetter(v)
    BY <2>2 DEF SendDeadLetter, Put
  <2>3. CASE ValidatorThrows(v)
    BY <2>3 DEF ValidatorThrows, Put
  <2>4. CASE DeadLetterSendFails(v)
    BY <2>4 DEF DeadLetterSendFails
  <2> QED
    BY <1>1, <1>3, <2>1, <2>2, <2>3, <2>4
    DEF Validator, ValidatorFaults, TakeRaw, CheckTenant, CheckDuplicate,
        CheckSubscription, MarkValidated, MarkRejected, AckRaw, MarkFails, ValidatorCrash
<1>4. ASSUME NEW a \in Aggregators, Aggregator(a) \/ AggregatorFaults(a)
      PROVE  Downstream(e)'
  <2>1. CASE TakeValidated(a)
    BY <2>1 DEF TakeValidated, Take
  <2>2. CASE Upsert(a)
    BY <2>2 DEF Upsert, AggStep
  <2>3. CASE MarkAggregated(a)
    BY <2>3 DEF MarkAggregated, AggStep
  <2>4. CASE SendAggregationDeadLetter(a)
    BY <2>4 DEF SendAggregationDeadLetter, AggStep, Put
  <2>5. CASE AckValidated(a)
    BY <2>5 DEF AckValidated
  <2>6. CASE AggregationFails(a)
    BY <2>6 DEF AggregationFails
  <2>7. CASE AggregationDeadLetterFails(a)
    BY <2>7 DEF AggregationDeadLetterFails, AggStep
  <2>8. CASE AggregatorCrash(a)
    BY <2>8 DEF AggregatorCrash, Put
  <2> QED
    BY <1>4, <2>1, <2>2, <2>3, <2>4, <2>5, <2>6, <2>7, <2>8 DEF Aggregator, AggregatorFaults
<1>5. CASE StoreDeadLetter
  BY <1>5 DEF StoreDeadLetter, CreateRow, Take
<1>6. CASE StoreDeadLetterFails
  BY <1>6 DEF StoreDeadLetterFails, Take
<1>7. ASSUME NEW d \in Admins, Admin(d) \/ RetryFails(d) PROVE Downstream(e)'
  <2>1. CASE RetryUpdate(d)
    BY <2>1 DEF RetryUpdate
  <2> QED
    BY <1>1, <1>7, <2>1 DEF Admin, RetryRead, RetryPublish, RetryFails
<1>8. ASSUME NEW r \in Rows, Discard(r) PROVE Downstream(e)'
  BY <1>8 DEF Discard
<1> QED
  BY <1>1, <1>2, <1>3, <1>4, <1>5, <1>6, <1>7, <1>8
  DEF Next, vars, Persist, Publisher, PublisherFaults, SelectBatch, PublishRow,
      MarkPublished, PublishRowFails, MarkPublishedFails, AbandonBatch, TenantChanges,
      EntitlementChanges

\* The places where an event's status, or a worker's next step, records that the
\* event is in flight or downstream.
Traced ==
    /\ \A p \in Publishers : pub[p].step = "mark" => InFlight(pub[p].ev)
    /\ \A v \in Validators :
        val[v].step \in {"markValidated", "markRejected", "ack"} => Downstream(val[v].ev)
    /\ \A a \in Aggregators : agg[a].step = "mark" => counted[agg[a].ev] > 0

\* An event dropped as a duplicate stays in flight because its status is
\* justified: this is where the invariant about the status is needed.
LEMMA InFlightStable ==
  ASSUME NEW e \in Events, TypeInv, StatusIsJustified, [Next]_vars, InFlight(e)
  PROVE  InFlight(e)'
<1> USE DEF TypeInv, TypeOK, WorkersOK, InFlight, MaybeEvent, Idle, At, publisherVars,
        validatorVars, aggregatorVars, deadLetterVars, adminVars, envVars, histVars
<1>1. CASE Downstream(e)
  BY <1>1, DownstreamStable
<1>2. CASE ~Downstream(e)
  <2>1. CASE UNCHANGED <<raw, val>>
    BY <1>2, <2>1
  <2>2. ASSUME NEW p \in Publishers, Publisher(p) \/ PublisherFaults(p)
        PROVE  InFlight(e)'
    <3>1. ASSUME NEW x \in Events, raw' = Put(raw, x), UNCHANGED val
          PROVE  InFlight(e)'
      BY <1>2, <3>1 DEF Put
    <3>2. CASE PublishRow(p)
      BY <3>1, <3>2 DEF PublishRow, Selection
    <3>3. CASE PublishRowFails(p)
      BY <2>1, <3>1, <3>3 DEF PublishRowFails, Selection
    <3>4. CASE UNCHANGED <<raw, val>>
      BY <2>1, <3>4
    <3> QED
      BY <2>2, <3>2, <3>3, <3>4
      DEF Publisher, PublisherFaults, SelectBatch, MarkPublished, RecordFailure,
          MarkPublishedFails, AbandonBatch
  <2>3. ASSUME NEW v \in Validators, Validator(v) \/ ValidatorFaults(v)
        PROVE  InFlight(e)'
    <3>1. CASE TakeRaw(v)
      BY <1>2, <3>1 DEF TakeRaw, Take
    <3>2. CASE CheckTenant(v)
      BY <1>2, <3>2 DEF CheckTenant, ValStep
    <3>3. CASE CheckDuplicate(v)
      BY <1>2, <3>3 DEF CheckDuplicate, ValStep, StatusIsJustified, OnlyAccepted, Accepted,
                       EventStatus
    <3>4. CASE CheckSubscription(v)
      BY <1>2, <3>4 DEF CheckSubscription, ValStep
    <3>5. CASE PublishValidated(v)
      BY <1>2, <3>5 DEF PublishValidated, ValStep, Put, Downstream
    <3>6. CASE MarkValidated(v)
      BY <1>2, <3>6 DEF MarkValidated, ValStep
    <3>7. CASE SendDeadLetter(v)
      BY <1>2, <3>7 DEF SendDeadLetter, ValStep, Put, Downstream
    <3>8. CASE MarkRejected(v)
      BY <1>2, <3>8 DEF MarkRejected, ValStep
    <3>9. CASE AckRaw(v)
      BY <1>2, <3>9 DEF AckRaw
    <3>10. CASE ValidatorThrows(v)
      BY <1>2, <3>10 DEF ValidatorThrows, Put, Downstream
    <3>11. CASE DeadLetterSendFails(v)
      BY <1>2, <3>11 DEF DeadLetterSendFails, ValStep, Downstream
    <3>12. CASE MarkFails(v)
      BY <1>2, <3>12 DEF MarkFails
    <3>13. CASE ValidatorCrash(v)
      BY <1>2, <3>13 DEF ValidatorCrash, Put
    <3> QED
      BY <2>3, <3>1, <3>2, <3>3, <3>4, <3>5, <3>6, <3>7, <3>8, <3>9, <3>10, <3>11, <3>12, <3>13 DEF Validator, ValidatorFaults
  <2>4. ASSUME NEW d \in Admins, RetryPublish(d) PROVE InFlight(e)'
    BY <1>2, <2>4 DEF RetryPublish, Put
  <2> QED
    BY <2>1, <2>2, <2>3, <2>4
    DEF Next, vars, Persist, Aggregator, AggregatorFaults, TakeValidated, Upsert,
        MarkAggregated, SendAggregationDeadLetter, AckValidated, AggregationFails,
        AggregationDeadLetterFails, AggregatorCrash, StoreDeadLetter,
        StoreDeadLetterFails, Admin, RetryRead, RetryUpdate, RetryFails, Discard,
        TenantChanges, EntitlementChanges
<1> QED
  BY <1>1, <1>2

Safety ==
    /\ StatusIsJustified
    /\ NoUntracedLoss
    /\ AggregatedMeansCounted
    /\ GivenUpMeansDeadLetter
    /\ Traced

LEMMA SafetyInit == Init => Safety
  BY PipelineAssumption
  DEF Init, Safety, StatusIsJustified, NoUntracedLoss, AggregatedMeansCounted,
      GivenUpMeansDeadLetter, Traced, PubIdle, Idle, At

\* A status is written only by the three Mark actions, each by a worker whose
\* step records why.
LEMMA StatusStep ==
  ASSUME TypeInv, Safety, [Next]_vars
  PROVE  StatusIsJustified' /\ AggregatedMeansCounted'
<1> USE DEF TypeInv, TypeOK, WorkersOK, Safety, StatusIsJustified, AggregatedMeansCounted,
        EventStatus
<1>1. ASSUME NEW e \in Events PROVE Downstream(e) => Downstream(e)'
  BY <1>1, DownstreamStable
<1>2. ASSUME NEW e \in Events PROVE counted[e] > 0 => counted'[e] > 0
  <2>1. CASE UNCHANGED counted
    BY <2>1
  <2>2. ASSUME NEW a \in Aggregators, Upsert(a) \/ AggregationFails(a)
        PROVE  counted[e] > 0 => counted'[e] > 0
    BY <2>2 DEF Upsert, AggregationFails
  <2> QED
    BY <2>1, <2>2
    DEF Next, vars, Persist, Publisher, PublisherFaults, SelectBatch, PublishRow,
        MarkPublished, RecordFailure, PublishRowFails, MarkPublishedFails, AbandonBatch,
        Validator, ValidatorFaults, TakeRaw, CheckTenant, CheckDuplicate,
        CheckSubscription, PublishValidated, MarkValidated, SendDeadLetter, MarkRejected,
        AckRaw, ValidatorThrows, DeadLetterSendFails, MarkFails, ValidatorCrash,
        Aggregator, AggregatorFaults, TakeValidated, MarkAggregated,
        SendAggregationDeadLetter, AckValidated, AggregationDeadLetterFails,
        AggregatorCrash, StoreDeadLetter, StoreDeadLetterFails, Admin, RetryRead,
        RetryPublish, RetryUpdate, RetryFails, Discard, TenantChanges,
        EntitlementChanges, aggregatorVars
<1>3. CASE UNCHANGED status
  BY <1>1, <1>2, <1>3
<1>4. ASSUME NEW x \in Events, Persist(x)
      PROVE  StatusIsJustified' /\ AggregatedMeansCounted'
  BY <1>1, <1>2, <1>4 DEF Persist
<1>5. ASSUME NEW v \in Validators, MarkValidated(v) \/ MarkRejected(v)
      PROVE  StatusIsJustified' /\ AggregatedMeansCounted'
  <2>1. val[v].ev \in Events /\ Downstream(val[v].ev)
    BY <1>5 DEF MarkValidated, MarkRejected, ValStep, Traced, MaybeEvent
  <2>2. \A e \in Events : status'[e] # status[e] => e = val[v].ev
    BY <1>5 DEF MarkValidated, MarkRejected
  <2>3. status'[val[v].ev] # "AGGREGATED" \/ UNCHANGED status
    BY <1>5, <2>1 DEF MarkValidated, MarkRejected
  <2> QED
    BY <1>1, <1>2, <2>1, <2>2, <2>3
<1>6. ASSUME NEW a \in Aggregators, MarkAggregated(a)
      PROVE  StatusIsJustified' /\ AggregatedMeansCounted'
  <2>1. counted[agg[a].ev] > 0 /\ Downstream(agg[a].ev)
    BY <1>6 DEF MarkAggregated, AggStep, Traced, Downstream
  <2> QED
    BY <1>1, <1>2, <1>6, <2>1 DEF MarkAggregated, AggStep
<1> QED
  BY <1>3, <1>4, <1>5, <1>6
  DEF Next, vars, Publisher, PublisherFaults, SelectBatch, PublishRow,
      MarkPublished, RecordFailure, PublishRowFails, MarkPublishedFails, AbandonBatch,
      Validator, ValidatorFaults, TakeRaw, CheckTenant, CheckDuplicate,
      CheckSubscription, PublishValidated, SendDeadLetter,
      AckRaw, ValidatorThrows, DeadLetterSendFails, MarkFails, ValidatorCrash,
      Aggregator, AggregatorFaults, TakeValidated, Upsert,
      SendAggregationDeadLetter, AckValidated, AggregationFails,
      AggregationDeadLetterFails, AggregatorCrash, StoreDeadLetter,
      StoreDeadLetterFails, Admin, RetryRead, RetryPublish, RetryUpdate, RetryFails,
      Discard, TenantChanges, EntitlementChanges

LEMMA PublisherStep ==
  ASSUME TypeInv, Safety, [Next]_vars
  PROVE  NoUntracedLoss' /\ GivenUpMeansDeadLetter'
<1> USE DEF TypeInv, TypeOK, WorkersOK, Safety, NoUntracedLoss, GivenUpMeansDeadLetter,
        OutboxStatus, MaybeEvent
<1>1. ASSUME NEW e \in Events PROVE InFlight(e) => InFlight(e)'
  BY <1>1, InFlightStable
<1>2. ASSUME NEW e \in Events PROVE HasRow(e) => HasRow(e)'
  <2>1. CASE UNCHANGED rows
    BY <2>1 DEF HasRow
  <2>2. ASSUME NEW x \in Events, CreateRow(x) PROVE HasRow(e) => HasRow(e)'
    <3> SUFFICES ASSUME NEW r \in Rows, rows[r].ev = e PROVE HasRow(e)'
      BY DEF HasRow
    <3> PICK q \in Rows : /\ rows[q] = NoRow
                          /\ rows' = [rows EXCEPT ![q] = [ev |-> x, status |-> "FAILED"]]
      BY <2>2 DEF CreateRow
    <3>1. r # q
      BY PipelineAssumption DEF NoRow
    <3> QED
      BY <3>1 DEF HasRow
  <2>3. ASSUME NEW d \in Admins, RetryUpdate(d) PROVE HasRow(e) => HasRow(e)'
    BY <2>3 DEF HasRow, RetryUpdate
  <2>4. ASSUME NEW r \in Rows, Discard(r) PROVE HasRow(e) => HasRow(e)'
    BY <2>4 DEF HasRow, Discard
  <2>5. ASSUME NEW p \in Publishers, RecordFailure(p) PROVE HasRow(e) => HasRow(e)'
    BY <2>1, <2>2, <2>5 DEF RecordFailure
  <2> QED
    BY <2>1, <2>2, <2>3, <2>4, <2>5
    DEF Next, vars, Persist, Publisher, PublisherFaults, SelectBatch, PublishRow,
        MarkPublished, PublishRowFails, MarkPublishedFails, AbandonBatch,
        Validator, ValidatorFaults, TakeRaw, CheckTenant, CheckDuplicate,
        CheckSubscription, PublishValidated, MarkValidated, SendDeadLetter, MarkRejected,
        AckRaw, ValidatorThrows, DeadLetterSendFails, MarkFails, ValidatorCrash,
        Aggregator, AggregatorFaults, TakeValidated, Upsert, MarkAggregated,
        SendAggregationDeadLetter, AckValidated, AggregationFails,
        AggregationDeadLetterFails, AggregatorCrash, StoreDeadLetter,
        StoreDeadLetterFails, Admin, RetryRead, RetryPublish, RetryFails,
        TenantChanges, EntitlementChanges, deadLetterVars
<1>3. CASE UNCHANGED outbox
  BY <1>1, <1>2, <1>3
<1>4. ASSUME NEW x \in Events, Persist(x)
      PROVE  NoUntracedLoss' /\ GivenUpMeansDeadLetter'
  BY <1>1, <1>2, <1>4 DEF Persist
<1>5. ASSUME NEW p \in Publishers, MarkPublished(p)
      PROVE  NoUntracedLoss' /\ GivenUpMeansDeadLetter'
  <2>1. pub[p].ev \in Events /\ InFlight(pub[p].ev)
    BY <1>5 DEF MarkPublished, Traced
  <2> QED
    BY <1>1, <1>2, <1>5, <2>1 DEF MarkPublished
<1>6. ASSUME NEW p \in Publishers, RecordFailure(p)
      PROVE  NoUntracedLoss' /\ GivenUpMeansDeadLetter'
  <2>1. pub[p].ev \in Events
    BY <1>6 DEF RecordFailure
  <2>2. ASSUME NEW x \in Events, outbox' = [outbox EXCEPT ![x] = "FAILED"], CreateRow(x)
        PROVE  NoUntracedLoss' /\ GivenUpMeansDeadLetter'
    <3>1. HasRow(x)'
      BY <2>2 DEF CreateRow, HasRow
    <3>2. InFlight(x)'
      BY <3>1 DEF InFlight, Downstream
    <3> QED
      BY <1>1, <1>2, <2>2, <3>1, <3>2
  <2> QED
    BY <1>3, <1>6, <2>1, <2>2 DEF RecordFailure
<1> QED
  BY <1>3, <1>4, <1>5, <1>6
  DEF Next, vars, publisherVars, Publisher, PublisherFaults, SelectBatch, PublishRow,
      PublishRowFails, MarkPublishedFails, AbandonBatch,
      Validator, ValidatorFaults, TakeRaw, CheckTenant, CheckDuplicate,
      CheckSubscription, PublishValidated, MarkValidated, SendDeadLetter, MarkRejected,
      AckRaw, ValidatorThrows, DeadLetterSendFails, MarkFails, ValidatorCrash,
      Aggregator, AggregatorFaults, TakeValidated, Upsert, MarkAggregated,
      SendAggregationDeadLetter, AckValidated, AggregationFails,
      AggregationDeadLetterFails, AggregatorCrash, StoreDeadLetter,
      StoreDeadLetterFails, Admin, RetryRead, RetryPublish, RetryUpdate, RetryFails,
      Discard, TenantChanges, EntitlementChanges

LEMMA TracedStep ==
  ASSUME TypeInv, Safety, [Next]_vars
  PROVE  Traced'
<1> USE DEF TypeInv, TypeOK, WorkersOK, Safety, MaybeEvent
<1>1. ASSUME NEW e \in Events PROVE InFlight(e) => InFlight(e)'
  BY <1>1, InFlightStable
<1>2. ASSUME NEW e \in Events PROVE Downstream(e) => Downstream(e)'
  BY <1>2, DownstreamStable
<1>3. ASSUME NEW p \in Publishers, pub'[p].step = "mark",
             NEW x \in Events, x = pub'[p].ev
      PROVE  InFlight(x)'
  <2>1. CASE pub'[p] = pub[p]
    BY <1>1, <1>3, <2>1 DEF Traced
  <2>2. CASE PublishRow(p)
    BY <1>3, <2>2 DEF PublishRow, Put, InFlight
  <2>3. ASSUME NEW q \in Publishers, q # p, Publisher(q) \/ PublisherFaults(q)
        PROVE  pub'[p] = pub[p]
    BY <2>3
    DEF Publisher, PublisherFaults, SelectBatch, PublishRow, MarkPublished,
        RecordFailure, PublishRowFails, MarkPublishedFails, AbandonBatch
  <2>4. CASE (Publisher(p) \/ PublisherFaults(p)) /\ ~PublishRow(p)
    BY <1>3, <2>1, <2>4
    DEF Publisher, PublisherFaults, SelectBatch, MarkPublished, RecordFailure,
        PublishRowFails, MarkPublishedFails, AbandonBatch, PubIdle
  <2> QED
    BY <2>1, <2>2, <2>3, <2>4
    DEF Next, vars, Persist, Validator, ValidatorFaults, TakeRaw, CheckTenant,
        CheckDuplicate, CheckSubscription, PublishValidated, MarkValidated,
        SendDeadLetter, MarkRejected, AckRaw, ValidatorThrows, DeadLetterSendFails,
        MarkFails, ValidatorCrash, Aggregator, AggregatorFaults, TakeValidated,
        Upsert, MarkAggregated, SendAggregationDeadLetter, AckValidated,
        AggregationFails, AggregationDeadLetterFails, AggregatorCrash,
        StoreDeadLetter, StoreDeadLetterFails, Admin, RetryRead, RetryPublish,
        RetryUpdate, RetryFails, Discard, TenantChanges, EntitlementChanges,
        publisherVars
<1>4. ASSUME NEW v \in Validators, NEW x \in Events, x = val'[v].ev,
             val'[v].step \in {"markValidated", "markRejected", "ack"}
      PROVE  Downstream(x)'
  <2>1. CASE val'[v] = val[v]
    BY <1>2, <1>4, <2>1 DEF Traced
  <2>2. ASSUME NEW w \in Validators, w # v, Validator(w) \/ ValidatorFaults(w)
        PROVE  val'[v] = val[v]
    BY <2>2
    DEF Validator, ValidatorFaults, TakeRaw, CheckTenant, CheckDuplicate,
        CheckSubscription, PublishValidated, MarkValidated, SendDeadLetter, MarkRejected,
        AckRaw, ValidatorThrows, DeadLetterSendFails, MarkFails, ValidatorCrash, ValStep
  <2>3. CASE TakeRaw(v) \/ CheckTenant(v) \/ CheckSubscription(v) \/ AckRaw(v)
             \/ ValidatorCrash(v)
    BY <1>4, <2>3
    DEF TakeRaw, CheckTenant, CheckSubscription, AckRaw, ValidatorCrash, ValStep, Idle, At
  <2>4. CASE CheckDuplicate(v)
    <3>1. x = val[v].ev /\ status[x] # "PENDING"
      BY <1>4, <2>4 DEF CheckDuplicate, ValStep
    <3>2. status[x] # "ABSENT"
      BY PipelineAssumption, <1>4, <3>1 DEF OnlyAccepted, Accepted
    <3> QED
      BY <1>2, <3>1, <3>2 DEF StatusIsJustified
  <2>5. CASE PublishValidated(v)
    BY <1>4, <2>5 DEF PublishValidated, ValStep, Put, Downstream
  <2>6. CASE SendDeadLetter(v)
    BY <1>4, <2>6 DEF SendDeadLetter, ValStep, Put, Downstream
  <2>7. CASE MarkValidated(v) \/ MarkRejected(v) \/ MarkFails(v)
    <3>1. x = val[v].ev /\ val[v].step \in {"markValidated", "markRejected"}
      BY <1>4, <2>7 DEF MarkValidated, MarkRejected, MarkFails, ValStep
    <3> QED
      BY <1>2, <3>1 DEF Traced
  <2>8. CASE ValidatorThrows(v) \/ DeadLetterSendFails(v)
    BY <1>4, <2>8 DEF ValidatorThrows, DeadLetterSendFails, ValStep, Downstream
  <2>9. CASE Validator(v) \/ ValidatorFaults(v)
    BY <2>3, <2>4, <2>5, <2>6, <2>7, <2>8, <2>9 DEF Validator, ValidatorFaults
  <2> QED
    BY <2>1, <2>2, <2>9
    DEF Next, vars, Persist, Publisher, PublisherFaults, SelectBatch, PublishRow,
        MarkPublished, RecordFailure, PublishRowFails, MarkPublishedFails,
        AbandonBatch, Aggregator, AggregatorFaults, TakeValidated, Upsert,
        MarkAggregated, SendAggregationDeadLetter, AckValidated, AggregationFails,
        AggregationDeadLetterFails, AggregatorCrash, StoreDeadLetter,
        StoreDeadLetterFails, Admin, RetryRead, RetryPublish, RetryUpdate, RetryFails,
        Discard, TenantChanges, EntitlementChanges, validatorVars
<1>6. TypeInv'
  BY TypeInvStep
<1>5. ASSUME NEW a \in Aggregators, agg'[a].step = "mark",
             NEW x \in Events, x = agg'[a].ev
      PROVE  counted'[x] > 0
  <2>1. CASE agg'[a] = agg[a] /\ UNCHANGED counted
    BY <1>5, <2>1 DEF Traced
  <2>2. ASSUME NEW b \in Aggregators, b # a, Aggregator(b) \/ AggregatorFaults(b)
        PROVE  agg'[a] = agg[a] /\ counted'[x] >= counted[x]
    <3>1. agg'[a] = agg[a]
      BY <2>2
      DEF Aggregator, AggregatorFaults, TakeValidated, Upsert, MarkAggregated,
          SendAggregationDeadLetter, AckValidated, AggregationFails,
          AggregationDeadLetterFails, AggregatorCrash, AggStep
    <3>2. ASSUME counted' = [counted EXCEPT ![agg[b].ev] = @ + 1]
          PROVE  counted'[x] >= counted[x]
      BY <3>2
    <3>3. UNCHANGED counted \/ counted' = [counted EXCEPT ![agg[b].ev] = @ + 1]
      BY <2>2
      DEF Aggregator, AggregatorFaults, TakeValidated, Upsert, MarkAggregated,
          SendAggregationDeadLetter, AckValidated, AggregationFails,
          AggregationDeadLetterFails, AggregatorCrash
    <3>4. counted[x] \in Nat
      OBVIOUS
    <3> QED
      BY <3>1, <3>2, <3>3, <3>4
  <2>3. CASE Upsert(a)
    BY <1>5, <2>3 DEF Upsert, AggStep
  <2>4. CASE (Aggregator(a) \/ AggregatorFaults(a)) /\ ~Upsert(a)
    BY <1>5, <2>4
    DEF Aggregator, AggregatorFaults, TakeValidated, MarkAggregated,
        SendAggregationDeadLetter, AckValidated, AggregationFails,
        AggregationDeadLetterFails, AggregatorCrash, AggStep, Idle, At
  <2>5. CASE agg'[a] = agg[a] /\ counted'[x] >= counted[x]
    <3>1. counted[x] > 0
      BY <1>5, <2>5 DEF Traced
    <3>2. counted[x] \in Nat /\ counted'[x] \in Nat
      BY <1>6
    <3> QED
      BY <2>5, <3>1, <3>2
  <2> QED
    BY <2>1, <2>2, <2>3, <2>4, <2>5
    DEF Next, vars, Persist, Publisher, PublisherFaults, SelectBatch, PublishRow,
        MarkPublished, RecordFailure, PublishRowFails, MarkPublishedFails,
        AbandonBatch, Validator, ValidatorFaults, TakeRaw, CheckTenant,
        CheckDuplicate, CheckSubscription, PublishValidated, MarkValidated,
        SendDeadLetter, MarkRejected, AckRaw, ValidatorThrows, DeadLetterSendFails,
        MarkFails, ValidatorCrash, StoreDeadLetter, StoreDeadLetterFails, Admin,
        RetryRead, RetryPublish, RetryUpdate, RetryFails, Discard, TenantChanges,
        EntitlementChanges, aggregatorVars
<1>7. ASSUME NEW p \in Publishers, pub'[p].step = "mark" PROVE InFlight(pub[p].ev)'
  BY <1>3, <1>6, <1>7
<1>8. ASSUME NEW v \in Validators,
             val'[v].step \in {"markValidated", "markRejected", "ack"}
      PROVE  Downstream(val[v].ev)'
  BY <1>4, <1>6, <1>8
<1>9. ASSUME NEW a \in Aggregators, agg'[a].step = "mark"
      PROVE  (counted[agg[a].ev] > 0)'
  BY <1>5, <1>6, <1>9
<1> QED
  BY <1>7, <1>8, <1>9 DEF Traced

LEMMA InvariantStep == TypeInv /\ Safety /\ [Next]_vars => (TypeInv /\ Safety)'
  BY TypeInvStep, StatusStep, PublisherStep, TracedStep DEF Safety

\* The inductive invariant of the whole pipeline.
THEOREM Invariant == Spec => [](TypeInv /\ Safety)
  BY TypeInvInit, SafetyInit, InvariantStep, PTL DEF Spec

\* No event disappears: an event whose outbox row is done is in flight, counted,
\* dead-lettered, or one of the handlers has dropped an error about it.
THEOREM NoLoss == Spec => []NoUntracedLoss
<1>1. TypeInv /\ Safety => NoUntracedLoss
  BY DEF Safety
<1> QED
  BY <1>1, Invariant, PTL

\* A status that makes validators drop an event as a duplicate is never written
\* before the event went downstream.
THEOREM StatusJustified == Spec => []StatusIsJustified
<1>1. TypeInv /\ Safety => StatusIsJustified
  BY DEF Safety
<1> QED
  BY <1>1, Invariant, PTL

\* An event marked AGGREGATED has been added to its aggregate.
THEOREM AggregatedCounted == Spec => []AggregatedMeansCounted
<1>1. TypeInv /\ Safety => AggregatedMeansCounted
  BY DEF Safety
<1> QED
  BY <1>1, Invariant, PTL

\* An outbox row given up has its row in dead_letter_events.
THEOREM GivenUpHasDeadLetter == Spec => []GivenUpMeansDeadLetter
<1>1. TypeInv /\ Safety => GivenUpMeansDeadLetter
  BY DEF Safety
<1> QED
  BY <1>1, Invariant, PTL

-----------------------------------------------------------------------------
(* The pipeline implements UsageBilling with at-least-once billing *)

\* What one step may do to the billing view: park one accepted event.
LEMMA CreateRowParks ==
  ASSUME NEW e \in Accepted, TypeInv, CreateRow(e), UNCHANGED lost
  PROVE  Parked' = Parked \union {e}
<1> USE DEF TypeInv, TypeOK, WorkersOK, Parked, HasRow, NoRow, Accepted
<1> PICK q \in Rows : /\ rows[q] = NoRow
                      /\ rows' = [rows EXCEPT ![q] = [ev |-> e, status |-> "FAILED"]]
  BY DEF CreateRow
<1>1. \A x \in Events : HasRow(x)' <=> HasRow(x) \/ x = e
  BY PipelineAssumption
<1> QED
  BY <1>1

LEMMA BillingStep ==
  ASSUME TypeInv, [Next]_vars
  PROVE  [AtLeastOnceBilling!Next]_(AtLeastOnceBilling!billingVars)
<1> USE DEF TypeInv, TypeOK, WorkersOK, AtLeastOnceBilling!Next,
        AtLeastOnceBilling!billingVars, MaybeEvent
<1>1. CASE UNCHANGED <<Accepted, counted, Parked>>
  BY <1>1
<1>2. ASSUME NEW e \in Accepted, Parked' = Parked \union {e},
             UNCHANGED <<Accepted, counted>>
      PROVE  AtLeastOnceBilling!Next
  BY <1>2 DEF AtLeastOnceBilling!Park, Accepted
<1>3. ASSUME NEW e \in Events, Persist(e) PROVE AtLeastOnceBilling!Next
  <2>1. e \notin Accepted /\ Accepted' = Accepted \union {e}
    BY <1>3 DEF Persist, Accepted
  <2>2. UNCHANGED <<counted, Parked>>
    BY <1>3 DEF Persist, Parked, HasRow, aggregatorVars, deadLetterVars, histVars
  <2> QED
    BY <2>1, <2>2 DEF AtLeastOnceBilling!Accept
<1>4. ASSUME UNCHANGED <<rows, lost>> PROVE UNCHANGED Parked
  BY <1>4 DEF Parked, HasRow
<1>5. ASSUME UNCHANGED status PROVE UNCHANGED Accepted
  BY <1>5 DEF Accepted
<1>6. ASSUME NEW p \in Publishers, Publisher(p) \/ PublisherFaults(p)
      PROVE  [AtLeastOnceBilling!Next]_(AtLeastOnceBilling!billingVars)
  <2>1. CASE UNCHANGED <<status, counted, rows, lost>>
    BY <1>1, <1>4, <1>5, <2>1
  <2>2. ASSUME RecordFailure(p), CreateRow(pub[p].ev)
        PROVE  AtLeastOnceBilling!Next
    <3>1. pub[p].ev \in Accepted
      BY <2>2 DEF RecordFailure, OnlyAccepted
    <3>2. UNCHANGED <<status, counted, lost>>
      BY <2>2 DEF RecordFailure, aggregatorVars, histVars
    <3> QED
      BY <1>2, <1>5, <3>1, <3>2, <2>2, CreateRowParks
  <2> QED
    BY <1>6, <2>1, <2>2
    DEF Publisher, PublisherFaults, SelectBatch, PublishRow, MarkPublished,
        RecordFailure, PublishRowFails, MarkPublishedFails, AbandonBatch,
        aggregatorVars, deadLetterVars, histVars
<1>7. ASSUME NEW v \in Validators, Validator(v) \/ ValidatorFaults(v)
      PROVE  [AtLeastOnceBilling!Next]_(AtLeastOnceBilling!billingVars)
  <2>1. UNCHANGED <<counted, rows>>
    BY <1>7
    DEF Validator, ValidatorFaults, TakeRaw, CheckTenant, CheckDuplicate,
        CheckSubscription, PublishValidated, MarkValidated, SendDeadLetter,
        MarkRejected, AckRaw, ValidatorThrows, DeadLetterSendFails, MarkFails,
        ValidatorCrash, aggregatorVars, deadLetterVars
  <2>2. CASE MarkValidated(v) \/ MarkRejected(v)
    <3>1. val[v].ev \in Accepted
      BY <2>2 DEF MarkValidated, MarkRejected, ValStep, OnlyAccepted
    <3>2. UNCHANGED <<Accepted, lost>>
      BY <2>2, <3>1 DEF MarkValidated, MarkRejected, Accepted, histVars
    <3> QED
      BY <1>1, <1>4, <2>1, <3>2
  <2>3. CASE ValidatorThrows(v) \/ DeadLetterSendFails(v)
    <3>1. val[v].ev \in Accepted
      BY <2>3 DEF ValidatorThrows, DeadLetterSendFails, ValStep, OnlyAccepted
    <3>2. UNCHANGED status /\ lost' = lost \union {val[v].ev}
      BY <2>3 DEF ValidatorThrows, DeadLetterSendFails
    <3>3. Parked' = Parked \union {val[v].ev}
      BY <2>1, <3>1, <3>2 DEF Parked, HasRow, Accepted
    <3> QED
      BY <1>2, <1>5, <2>1, <3>1, <3>2, <3>3
  <2>4. CASE UNCHANGED <<status, lost>>
    BY <1>1, <1>4, <1>5, <2>1, <2>4
  <2> QED
    BY <1>7, <2>2, <2>3, <2>4
    DEF Validator, ValidatorFaults, TakeRaw, CheckTenant, CheckDuplicate,
        CheckSubscription, PublishValidated, SendDeadLetter, AckRaw, MarkFails,
        ValidatorCrash, histVars
<1>8. ASSUME NEW a \in Aggregators, Aggregator(a) \/ AggregatorFaults(a)
      PROVE  [AtLeastOnceBilling!Next]_(AtLeastOnceBilling!billingVars)
  <2>1. UNCHANGED rows
    BY <1>8
    DEF Aggregator, AggregatorFaults, TakeValidated, Upsert, MarkAggregated,
        SendAggregationDeadLetter, AckValidated, AggregationFails,
        AggregationDeadLetterFails, AggregatorCrash, deadLetterVars
  <2>2. agg[a].step # "idle" => agg[a].ev \in Accepted
    BY DEF OnlyAccepted
  <2>3. ASSUME UNCHANGED <<status, lost>>, agg[a].ev \in Accepted,
               counted' = [counted EXCEPT ![agg[a].ev] = @ + 1]
        PROVE  AtLeastOnceBilling!Next
    BY <1>4, <1>5, <2>1, <2>3 DEF AtLeastOnceBilling!Bill, Accepted
  <2>4. CASE Upsert(a) \/ AggregationFails(a)
    BY <1>1, <1>4, <1>5, <2>1, <2>2, <2>3, <2>4
    DEF Upsert, AggregationFails, AggStep, histVars
  <2>5. CASE MarkAggregated(a)
    <3>1. UNCHANGED <<Accepted, counted, lost>>
      BY <2>2, <2>5 DEF MarkAggregated, AggStep, Accepted, histVars
    <3> QED
      BY <1>1, <1>4, <2>1, <3>1
  <2>6. CASE AggregationDeadLetterFails(a)
    <3>1. agg[a].ev \in Accepted
      BY <2>2, <2>6 DEF AggregationDeadLetterFails, AggStep
    <3>2. UNCHANGED <<status, counted>> /\ lost' = lost \union {agg[a].ev}
      BY <2>6 DEF AggregationDeadLetterFails
    <3>3. Parked' = Parked \union {agg[a].ev}
      BY <2>1, <3>1, <3>2 DEF Parked, HasRow, Accepted
    <3> QED
      BY <1>2, <1>5, <3>1, <3>2, <3>3
  <2>7. CASE UNCHANGED <<status, counted, lost>>
    BY <1>1, <1>4, <1>5, <2>1, <2>7
  <2> QED
    BY <1>8, <2>4, <2>5, <2>6, <2>7
    DEF Aggregator, AggregatorFaults, TakeValidated, SendAggregationDeadLetter,
        AckValidated, AggregatorCrash, histVars
<1>9. CASE StoreDeadLetter
  <2> PICK e \in Events : dlq[e] > 0 /\ CreateRow(e)
    BY <1>9 DEF StoreDeadLetter
  <2>1. e \in Accepted
    BY DEF OnlyAccepted
  <2>2. UNCHANGED <<status, counted, lost>>
    BY <1>9 DEF StoreDeadLetter, aggregatorVars
  <2> QED
    BY <1>2, <1>5, <2>1, <2>2, CreateRowParks
<1>10. CASE StoreDeadLetterFails
  <2> PICK e \in Events : dlq[e] > 0 /\ lost' = lost \union {e}
    BY <1>10 DEF StoreDeadLetterFails
  <2>1. e \in Accepted
    BY DEF OnlyAccepted
  <2>2. UNCHANGED <<status, counted, rows>>
    BY <1>10 DEF StoreDeadLetterFails, aggregatorVars
  <2>3. Parked' = Parked \union {e}
    BY <2>1, <2>2 DEF Parked, HasRow, Accepted
  <2> QED
    BY <1>2, <1>5, <2>1, <2>2, <2>3
<1>11. ASSUME NEW r \in Rows, NEW s \in DeadLetterStatus,
              rows' = [rows EXCEPT ![r].status = s],
              UNCHANGED <<status, counted, lost>>
       PROVE  UNCHANGED <<Accepted, counted, Parked>>
  BY <1>5, <1>11 DEF Parked, HasRow
<1>12. ASSUME NEW d \in Admins, RetryUpdate(d)
       PROVE  UNCHANGED <<Accepted, counted, Parked>>
  <2>1. adm[d].row \in Rows
    BY <1>12 DEF RetryUpdate
  <2> QED
    BY <1>11, <1>12, <2>1 DEF RetryUpdate, DeadLetterStatus, aggregatorVars, histVars
<1>13. ASSUME NEW r \in Rows, Discard(r)
       PROVE  UNCHANGED <<Accepted, counted, Parked>>
  BY <1>11, <1>13 DEF Discard, DeadLetterStatus, aggregatorVars, histVars
<1>14. CASE UNCHANGED <<status, counted, rows, lost>>
  BY <1>1, <1>4, <1>5, <1>14
<1> QED
  BY <1>1, <1>3, <1>6, <1>7, <1>8, <1>9, <1>10, <1>12, <1>13, <1>14
  DEF Next, vars, Admin, RetryRead, RetryPublish, RetryFails, TenantChanges,
      EntitlementChanges, aggregatorVars, deadLetterVars, histVars

\* Whatever crashes, fails or is delivered twice, every step of the pipeline is
\* one step of the billing specification: it accepts, bills or parks one accepted
\* event, or shows nothing.
THEOREM AtLeastOnce == Spec => ImplementsAtLeastOnce
<1>1. Init => AtLeastOnceBilling!Init
  BY PipelineAssumption
  DEF Init, AtLeastOnceBilling!Init, Accepted, Parked, HasRow, NoRow
<1>2. TypeInv /\ [Next]_vars =>
        [AtLeastOnceBilling!Next]_(AtLeastOnceBilling!billingVars)
  BY BillingStep
<1> QED
  BY <1>1, <1>2, TypeInvInit, TypeInvStep, PTL
  DEF Spec, ImplementsAtLeastOnce, AtLeastOnceBilling!Spec

-----------------------------------------------------------------------------
(* Billed exactly once, as long as one validator works and no consumer fails *)

\* One instance of UsageValidationConsumer at most, and faults that lose no answer:
\* a message that is not sent, a publisher that stops.
Careful ==
    /\ \A v, w \in Validators : v = w
    /\ FaultKinds \subseteq {"send", "publisherCrash"}

Upserting(e) == {a \in Aggregators : agg[a].step = "upsert" /\ agg[a].ev = e}

\* A validated copy has been made.
Forwarded(e) == validated[e] > 0 \/ Upserting(e) # {} \/ counted[e] > 0

\* It is in one place: in the topic, with one aggregator, or in the aggregate.
InOnePlace(e) ==
    /\ validated[e] + counted[e] <= 1
    /\ Upserting(e) # {} => validated[e] + counted[e] = 0
    /\ \A a, b \in Upserting(e) : a = b

\* An event that is still PENDING has none, unless its validator is about to say so,
\* and a validator that has seen it PENDING makes the first.
FirstCopy ==
    /\ \A e \in Events : Forwarded(e) /\ status[e] = "PENDING" =>
         \E v \in Validators : val[v].step = "markValidated" /\ val[v].ev = e
    /\ \A v \in Validators, e \in Events :
         val[v].step \in {"subscription", "publish"} /\ val[v].ev = e => ~Forwarded(e)

OnceInv == (\A e \in Events : InOnePlace(e)) /\ FirstCopy

LEMMA OnceInit == Init => OnceInv
  BY PipelineAssumption
  DEF Init, OnceInv, InOnePlace, FirstCopy, Forwarded, Upserting, Idle, At

\* What a step that makes no copy and moves none has to show.
LEMMA CopiesRest ==
  ASSUME TypeInv, OnceInv, UNCHANGED <<validated, agg, counted>>,
         \A e \in Events : Forwarded(e) /\ status'[e] = "PENDING" => status[e] = "PENDING",
         \A v \in Validators, e \in Events :
           val[v].step = "markValidated" /\ val[v].ev = e /\ status'[e] = "PENDING" =>
             val'[v].step = "markValidated" /\ val'[v].ev = e,
         \A v \in Validators, e \in Events :
           val'[v].step \in {"subscription", "publish"} /\ val'[v].ev = e => ~Forwarded(e)
  PROVE  OnceInv'
<1>1. \A e \in Events : Upserting(e)' = Upserting(e) /\ (Forwarded(e)' <=> Forwarded(e))
  BY DEF Upserting, Forwarded
<1>2. \A e \in Events : InOnePlace(e)'
  BY <1>1 DEF OnceInv, InOnePlace
<1>3. FirstCopy'
  BY <1>1 DEF OnceInv, FirstCopy
<1> QED
  BY <1>2, <1>3 DEF OnceInv

LEMMA ValidatorMoves ==
  ASSUME TypeInv, NEW v \in Validators, NEW to \in ValidatorSteps,
         val' = [val EXCEPT ![v].step = to]
  PROVE  /\ val'[v].step = to /\ val'[v].ev = val[v].ev
         /\ \A w \in Validators \ {v} : val'[w] = val[w]
  BY DEF TypeInv, TypeOK

LEMMA ValidatorOnce ==
  ASSUME Careful, TypeInv, OnceInv, NEW v \in Validators, Validator(v) \/ ValidatorFaults(v)
  PROVE  OnceInv'
<1>0. /\ \A w \in Validators : w = v
      /\ val \in [Validators -> [step : ValidatorSteps, ev : MaybeEvent]]
      /\ \A e \in Events : status[e] \in EventStatus
      /\ NoEvent \notin Events
      /\ val[v].step = "idle" <=> val[v].ev = NoEvent
  BY PipelineAssumption DEF Careful, TypeInv, TypeOK, WorkersOK
<1>1. ASSUME UNCHANGED <<status, validated, agg, counted>>,
             val[v].step # "markValidated",
             \A e \in Events :
               val'[v].step \in {"subscription", "publish"} /\ val'[v].ev = e => ~Forwarded(e)
      PROVE  OnceInv'
  BY <1>0, <1>1, CopiesRest
\* Steps that do not reach the point where a copy is decided.
<1>2. ASSUME UNCHANGED <<status, validated, agg, counted>>, val[v].step # "markValidated",
             val'[v].step \notin {"subscription", "publish"}
      PROVE  OnceInv'
  BY <1>1, <1>2
<1> USE DEF ValidatorSteps, aggregatorVars
<1>3. CASE TakeRaw(v)
  <2>1. val[v].step = "idle" /\ UNCHANGED <<status, validated, agg, counted>>
    BY <1>3 DEF TakeRaw, Idle, At
  <2>2. val'[v].step \in {"tenant", "deadLetter"}
    BY <1>0, <1>3 DEF TakeRaw, At
  <2> QED
    BY <1>2, <2>1, <2>2
<1>4. CASE CheckTenant(v) \/ SendDeadLetter(v) \/ DeadLetterSendFails(v)
  BY <1>2, <1>4, ValidatorMoves DEF CheckTenant, SendDeadLetter, DeadLetterSendFails, ValStep
<1>5. CASE AckRaw(v)
  <2>1. val'[v].step = "idle"
    BY <1>0, <1>5 DEF AckRaw, Idle, At
  <2> QED
    BY <1>2, <1>5, <2>1 DEF AckRaw
<1>6. CASE CheckDuplicate(v)
  <2>1. /\ val[v].step = "duplicate" /\ UNCHANGED <<status, validated, agg, counted>>
        /\ val'[v].step = IF status[val[v].ev] # "PENDING" THEN "ack" ELSE "subscription"
        /\ val'[v].ev = val[v].ev
    BY <1>6, ValidatorMoves DEF CheckDuplicate, ValStep
  <2>2. ASSUME NEW e \in Events, val'[v].step \in {"subscription", "publish"}, val'[v].ev = e
        PROVE  ~Forwarded(e)
    <3>1. status[e] = "PENDING" /\ val[v].step # "markValidated"
      BY <2>1, <2>2
    <3> QED
      BY <1>0, <3>1 DEF OnceInv, FirstCopy
  <2> QED
    BY <1>1, <2>1, <2>2
<1>7. CASE CheckSubscription(v)
  <2>1. /\ val[v].step = "subscription" /\ UNCHANGED <<status, validated, agg, counted>>
        /\ val'[v].ev = val[v].ev
    BY <1>7, ValidatorMoves DEF CheckSubscription, ValStep
  <2>2. \A e \in Events : val'[v].ev = e => ~Forwarded(e)
    BY <2>1 DEF OnceInv, FirstCopy
  <2> QED
    BY <1>1, <2>1, <2>2
<1>8. CASE PublishValidated(v)
  <2>1. /\ val[v].step = "publish" /\ UNCHANGED <<status, agg, counted>>
        /\ val'[v].step = "markValidated" /\ val'[v].ev = val[v].ev
        /\ validated' = Put(validated, val[v].ev)
    BY <1>8, ValidatorMoves DEF PublishValidated, ValStep
  <2>2. PICK x \in Events : x = val[v].ev
    BY <1>0, <2>1 DEF MaybeEvent
  <2>3. ~Forwarded(x)
    BY <2>1, <2>2 DEF OnceInv, FirstCopy
  <2>4. /\ validated[x] = 0 /\ counted[x] = 0 /\ Upserting(x) = {}
        /\ validated'[x] = 1 /\ \A e \in Events \ {x} : validated'[e] = validated[e]
    BY <2>1, <2>2, <2>3 DEF Forwarded, TypeInv, TypeOK, Put
  <2>5. \A e \in Events : Upserting(e)' = Upserting(e)
    BY <2>1 DEF Upserting
  <2>6. \A e \in Events : InOnePlace(e)'
    BY <2>1, <2>4, <2>5 DEF OnceInv, InOnePlace
  <2>7. FirstCopy'
    BY <1>0, <2>1, <2>2, <2>4, <2>5 DEF OnceInv, FirstCopy, Forwarded
  <2> QED
    BY <2>6, <2>7 DEF OnceInv
<1>9. CASE MarkValidated(v) \/ MarkRejected(v)
  <2>1. /\ val[v].step \in {"markValidated", "markRejected"} /\ val'[v].step = "ack"
        /\ UNCHANGED <<validated, agg, counted>>
    BY <1>9, ValidatorMoves DEF MarkValidated, MarkRejected, ValStep
  <2>2. PICK x \in Events : x = val[v].ev
    BY <1>0, <2>1 DEF MaybeEvent
  <2>3. \A e \in Events : status'[e] = "PENDING" =>
          status[e] = "PENDING" /\ ~(e = x /\ val[v].step = "markValidated")
    BY <1>0, <1>9, <2>2 DEF MarkValidated, MarkRejected, ValStep, TypeInv, TypeOK
  <2> QED
    BY <1>0, <2>1, <2>2, <2>3, CopiesRest
<1>10. CASE ValidatorThrows(v)
  <2>1. val[v].step = "publish" /\ UNCHANGED <<status, validated, agg, counted>>
    BY <1>10 DEF ValidatorThrows, Fault, Careful
  <2>2. val'[v].step = "ack"
    BY <1>10, ValidatorMoves DEF ValidatorThrows
  <2> QED
    BY <1>2, <2>1, <2>2
<1>11. CASE MarkFails(v) \/ ValidatorCrash(v)
  BY <1>11 DEF MarkFails, ValidatorCrash, Fault, Careful
<1> QED
  BY <1>3, <1>4, <1>5, <1>6, <1>7, <1>8, <1>9, <1>10, <1>11 DEF Validator, ValidatorFaults

\* A step of an aggregator that is not about its copy.
LEMMA AggregatorRests ==
  ASSUME TypeInv, OnceInv, NEW a \in Aggregators, UNCHANGED <<val, validated, counted>>,
         agg[a].step # "upsert", agg'[a].step # "upsert",
         \A b \in Aggregators \ {a} : agg'[b] = agg[b],
         \A e \in Events : status'[e] = "PENDING" => status[e] = "PENDING"
  PROVE  OnceInv'
<1>1. \A e \in Events : Upserting(e)' = Upserting(e) /\ (Forwarded(e)' <=> Forwarded(e))
  BY DEF Upserting, Forwarded
<1>2. \A e \in Events : InOnePlace(e)'
  BY <1>1 DEF OnceInv, InOnePlace
<1>3. FirstCopy'
  BY <1>1 DEF OnceInv, FirstCopy
<1> QED
  BY <1>2, <1>3 DEF OnceInv

LEMMA AggregatorOnce ==
  ASSUME Careful, TypeInv, OnceInv, NEW a \in Aggregators, Aggregator(a) \/ AggregatorFaults(a)
  PROVE  OnceInv'
<1>0. /\ agg \in [Aggregators -> [step : AggregatorSteps, ev : MaybeEvent]]
      /\ \A e \in Events : validated[e] \in Nat /\ counted[e] \in Nat
      /\ NoEvent \notin Events
      /\ agg[a].step = "idle" <=> agg[a].ev = NoEvent
      /\ \A e \in Events : InOnePlace(e)
  BY PipelineAssumption DEF TypeInv, TypeOK, WorkersOK, OnceInv
\* The copy goes from one place to the next.
<1>1. ASSUME NEW x \in Events, Forwarded(x),
             \A e \in Events \ {x} :
               /\ Upserting(e)' = Upserting(e)
               /\ validated'[e] = validated[e] /\ counted'[e] = counted[e],
             InOnePlace(x)', UNCHANGED <<status, val>>
      PROVE  OnceInv'
  <2>1. \A e \in Events : Forwarded(e)' => Forwarded(e)
    BY <1>1 DEF Forwarded
  <2>2. FirstCopy'
    BY <1>1, <2>1 DEF OnceInv, FirstCopy
  <2>3. \A e \in Events : InOnePlace(e)'
    BY <1>0, <1>1 DEF InOnePlace
  <2> QED
    BY <2>2, <2>3 DEF OnceInv
<1> USE DEF publisherVars, validatorVars, aggregatorVars
<1>2. CASE TakeValidated(a)
  <2>1. PICK x \in Events : /\ validated[x] > 0 /\ validated' = Take(validated, x)
                            /\ agg' = [agg EXCEPT ![a] = At("upsert", x)]
    BY <1>2 DEF TakeValidated
  <2>2. UNCHANGED <<status, val, counted>>
    BY <1>2 DEF TakeValidated
  <2>3. agg[a].step = "idle"
    BY <1>2 DEF TakeValidated, Idle, At
  <2>4. validated[x] = 1 /\ counted[x] = 0 /\ Upserting(x) = {}
    BY <1>0, <2>1 DEF InOnePlace
  <2>5. validated'[x] = 0 /\ \A e \in Events \ {x} : validated'[e] = validated[e]
    BY <2>1, <2>4 DEF TypeInv, TypeOK, Take
  <2>6. Upserting(x)' = {a} /\ \A e \in Events \ {x} : Upserting(e)' = Upserting(e)
    BY <1>0, <2>1, <2>3, <2>4 DEF Upserting, At
  <2>7. InOnePlace(x)'
    BY <2>2, <2>4, <2>5, <2>6 DEF InOnePlace
  <2>8. Forwarded(x)
    BY <2>1 DEF Forwarded
  <2> QED
    BY <1>1, <2>2, <2>5, <2>6, <2>7, <2>8
<1>3. CASE Upsert(a)
  <2>1. PICK x \in Events : x = agg[a].ev
    BY <1>0, <1>3 DEF Upsert, AggStep, MaybeEvent
  <2>2. /\ agg[a].step = "upsert" /\ UNCHANGED <<status, val, validated>>
        /\ counted' = [counted EXCEPT ![x] = @ + 1]
        /\ agg' = [agg EXCEPT ![a].step = "mark"]
    BY <1>3, <2>1 DEF Upsert, AggStep
  <2>3. agg'[a].step = "mark" /\ \A b \in Aggregators \ {a} : agg'[b] = agg[b]
    BY <1>0, <2>2
  <2>4. a \in Upserting(x)
    BY <2>1, <2>2 DEF Upserting
  <2>5. validated[x] = 0 /\ counted[x] = 0 /\ \A b \in Upserting(x) : b = a
    BY <1>0, <2>4 DEF InOnePlace
  <2>6. counted'[x] = 1 /\ \A e \in Events \ {x} : counted'[e] = counted[e]
    BY <2>2, <2>5 DEF TypeInv, TypeOK
  <2>7. Upserting(x)' = {}
    BY <2>3, <2>5 DEF Upserting
  <2>8. \A e \in Events \ {x} : Upserting(e)' = Upserting(e)
    BY <2>1, <2>3 DEF Upserting
  <2>9. InOnePlace(x)'
    BY <2>2, <2>5, <2>6, <2>7 DEF InOnePlace
  <2>10. Forwarded(x)
    BY <2>4 DEF Forwarded
  <2> QED
    BY <1>1, <2>2, <2>6, <2>8, <2>9, <2>10
<1>4. CASE MarkAggregated(a)
  <2>1. /\ agg[a].step = "mark" /\ agg'[a].step = "ack" /\ UNCHANGED <<val, validated, counted>>
        /\ \A b \in Aggregators \ {a} : agg'[b] = agg[b]
    BY <1>0, <1>4 DEF MarkAggregated, AggStep
  <2>2. \A e \in Events : status'[e] = "PENDING" => status[e] = "PENDING"
    BY <1>4 DEF MarkAggregated, TypeInv, TypeOK
  <2> QED
    BY <2>1, <2>2, AggregatorRests
<1>5. CASE SendAggregationDeadLetter(a) \/ AggregationDeadLetterFails(a)
  <2>1. /\ agg[a].step = "deadLetter" /\ agg'[a].step = "ack"
        /\ UNCHANGED <<status, val, validated, counted>>
        /\ \A b \in Aggregators \ {a} : agg'[b] = agg[b]
    BY <1>0, <1>5 DEF SendAggregationDeadLetter, AggregationDeadLetterFails, AggStep
  <2> QED
    BY <2>1, AggregatorRests
<1>6. CASE AckValidated(a)
  <2>1. /\ agg[a].step = "ack" /\ agg'[a].step = "idle"
        /\ UNCHANGED <<status, val, validated, counted>>
        /\ \A b \in Aggregators \ {a} : agg'[b] = agg[b]
    BY <1>0, <1>6 DEF AckValidated, Idle, At
  <2> QED
    BY <2>1, AggregatorRests
<1>7. CASE AggregationFails(a) \/ AggregatorCrash(a)
  BY <1>7 DEF AggregationFails, AggregatorCrash, Fault, Careful
<1> QED
  BY <1>2, <1>3, <1>4, <1>5, <1>6, <1>7 DEF Aggregator, AggregatorFaults

LEMMA OnceStep ==
  ASSUME Careful, TypeInv, OnceInv, [Next]_vars PROVE OnceInv'
<1>1. CASE UNCHANGED <<status, val, validated, agg, counted>>
  BY <1>1, CopiesRest DEF OnceInv, FirstCopy
<1>2. ASSUME NEW x \in Events, Persist(x) PROVE OnceInv'
  <2>1. /\ status[x] = "ABSENT" /\ status' = [status EXCEPT ![x] = "PENDING"]
        /\ UNCHANGED <<val, validated, agg, counted>>
    BY <1>2 DEF Persist, validatorVars, aggregatorVars
  <2>2. ~Forwarded(x)
    BY <2>1, PipelineAssumption DEF Forwarded, Upserting, TypeInv, OnlyAccepted, Accepted
  <2>3. \A e \in Events : Forwarded(e) /\ status'[e] = "PENDING" => status[e] = "PENDING"
    BY <2>1, <2>2 DEF TypeInv, TypeOK
  <2> QED
    BY <2>1, <2>3, CopiesRest DEF OnceInv, FirstCopy
<1> QED
  BY <1>1, <1>2, ValidatorOnce, AggregatorOnce
  DEF Next, vars, Publisher, PublisherFaults, SelectBatch, PublishRow, MarkPublished,
      RecordFailure, PublishRowFails, MarkPublishedFails, AbandonBatch, StoreDeadLetter,
      StoreDeadLetterFails, Admin, RetryRead, RetryPublish, RetryUpdate, RetryFails, Discard,
      TenantChanges, EntitlementChanges, validatorVars, aggregatorVars

\* Whatever publishers publish twice and administrators retry, an event is added to
\* usage_aggregates once at most if one validator works and only publishers fail: the
\* duplicate check catches every copy.
THEOREM CountedOnce ==
  ASSUME Careful PROVE Spec => []CountedAtMostOnce
<1>1. TypeInv /\ OnceInv /\ [Next]_vars => OnceInv'
  BY OnceStep
<1>2. TypeInv /\ OnceInv => CountedAtMostOnce
  BY DEF OnceInv, InOnePlace, CountedAtMostOnce, TypeInv, TypeOK
<1> QED
  BY <1>1, <1>2, TypeInvInit, TypeInvStep, OnceInit, PTL DEF Spec

\* Then every step of the pipeline is a step of the billing specification that bills
\* each event exactly once.
THEOREM ExactlyOnce ==
  ASSUME Careful PROVE Spec => ExactlyOnceBilling!Spec
<1>1. Init => ExactlyOnceBilling!Init
  BY PipelineAssumption
  DEF Init, ExactlyOnceBilling!Init, Accepted, Parked, HasRow, NoRow
<1>2. TypeInv /\ OnceInv /\ [Next]_vars => TypeInv' /\ OnceInv'
  BY TypeInvStep, OnceStep
<1>3. TypeInv /\ OnceInv /\ [Next]_vars =>
        [ExactlyOnceBilling!Next]_(ExactlyOnceBilling!billingVars)
  <2> SUFFICES ASSUME TypeInv, OnceInv, [Next]_vars
               PROVE  [ExactlyOnceBilling!Next]_(ExactlyOnceBilling!billingVars)
    OBVIOUS
  <2>1. [AtLeastOnceBilling!Next]_(AtLeastOnceBilling!billingVars)
    BY BillingStep
  <2>2. CASE UNCHANGED AtLeastOnceBilling!billingVars
    BY <2>2 DEF AtLeastOnceBilling!billingVars, ExactlyOnceBilling!billingVars
  <2>3. ASSUME NEW e \in Events, AtLeastOnceBilling!Accept(e) \/ AtLeastOnceBilling!Park(e)
        PROVE  ExactlyOnceBilling!Next
    BY <2>3 DEF AtLeastOnceBilling!Accept, AtLeastOnceBilling!Park, ExactlyOnceBilling!Next,
       ExactlyOnceBilling!Accept, ExactlyOnceBilling!Park
  <2>4. ASSUME NEW e \in Events, AtLeastOnceBilling!Bill(e) PROVE ExactlyOnceBilling!Next
    <3>1. /\ e \in Accepted /\ UNCHANGED <<Accepted, Parked>>
          /\ counted' = [counted EXCEPT ![e] = @ + 1]
      BY <2>4 DEF AtLeastOnceBilling!Bill
    <3>2. counted[e] \in Nat /\ counted'[e] = counted[e] + 1
      BY <3>1 DEF TypeInv, TypeOK
    <3>3. validated'[e] \in Nat /\ validated'[e] + counted'[e] <= 1
      BY <1>2 DEF TypeInv, TypeOK, OnceInv, InOnePlace
    <3>4. counted[e] = 0
      BY <3>2, <3>3
    <3> QED
      BY <3>1, <3>4 DEF ExactlyOnceBilling!Next, ExactlyOnceBilling!Bill
  <2> QED
    BY <2>1, <2>2, <2>3, <2>4 DEF AtLeastOnceBilling!Next
<1> QED
  BY <1>1, <1>2, <1>3, TypeInvInit, OnceInit, PTL DEF Spec, ExactlyOnceBilling!Spec

=============================================================================
