--------------------------- MODULE PaymentsProofs ---------------------------
(***************************************************************************)
(* Proofs about Payments, for every number of invoices, payments,          *)
(* administrators, webhook requests, attempts and faults, and every        *)
(* deployment.                                                             *)
(*                                                                         *)
(* The first theorem is a refinement: whatever the cron, the               *)
(* administrators and the webhooks do, they only use the service's calls,  *)
(* so PaySpec implements the Spec of InvoiceLifecycle and inherits the     *)
(* theorems about it.                                                      *)
(***************************************************************************)
EXTENDS Payments, InvoiceLifecycleProofs, FiniteSetTheorems

\* Events are of intents that wait for the customer, requests are for events that
\* have a row, and attempts, written or about to be, are of intents that exist.
References ==
    /\ \A e \in emitted : provider[e.pay].outcome = "requires_action"
    /\ \A h \in Handlers : handler[h].event \subseteq received
    /\ \A p \in Payment : attempt[p].status # "ABSENT" => provider[p] # NoIntent
    /\ \A a \in Admins : \A p \in job[a].pay : provider[p] # NoIntent

\* The cron only finalizes and a webhook request only marks invoices paid, and both
\* wait for the call.
CallsHeld ==
    /\ call[Cron] # NoCall => cron.step = "finalize"
    /\ \A h \in Handlers :
         call[h] # NoCall => handler[h].step = "markPaid" /\ call[h].op = "markPaid"

PayInv == PayTypeOK /\ References /\ CallsHeld

LEMMA PayInvInit == PayInit => PayInv
<1> SUFFICES ASSUME PayInit PROVE PayInv
  OBVIOUS
<1>1. TypeOK
  BY TypeInit DEF PayInit
<1>2. /\ period \in Period /\ deployment \in Deployments /\ payFaults = 0
      /\ finalizations = [i \in Invoices |-> 0]
      /\ periodOf \in [Invoices -> Nat] /\ manual \in Nat
  BY DEF PayInit, Period
<1>3. pastDue \in BOOLEAN
  BY DEF PayInit
<1>4. /\ cron \in CronState
      /\ job \in [Admins -> Job]
      /\ provider \in [Payment -> Intent]
      /\ handler \in [Handlers -> WebhookRequest]
  BY DEF PayInit, CronState, Job, Intent, WebhookRequest
<1>5. attempt \in [Payment -> Attempt]
  BY DEF PayInit, Attempt, NoAttempt, AttemptStatus
<1>6. /\ retryAt = {} /\ emitted = {} /\ received = {} /\ early = {} /\ disordered = {}
      /\ recent = {} /\ issues = {}
      /\ \A h \in Handlers : handler[h].event = {}
  BY DEF PayInit, Idle
<1>7. PayTypeOK
  BY <1>1, <1>2, <1>3, <1>4, <1>5, <1>6, LifecycleAssumption DEF PayTypeOK
<1>8. References
  BY <1>6 DEF References, PayInit, NoAttempt, NoJob
<1>9. CallsHeld
  BY PaymentsAssumption DEF CallsHeld, PayInit, Init
<1> QED
  BY <1>7, <1>8, <1>9 DEF PayInv

\* A request at work is at work on one event, whose payment is for an invoice.
LEMMA AtWork ==
  ASSUME PayInv, NEW h \in Handlers, handler[h].step # "idle"
  PROVE  /\ PaymentOf(h) \in Payment /\ TypeOf(h) \in EventTypes
         /\ Handling(h) = {[pay |-> PaymentOf(h), type |-> TypeOf(h)]}
         /\ [pay |-> PaymentOf(h), type |-> TypeOf(h)] \in received
         /\ InvoiceOf(h) \in Invoices
<1>1. handler[h] # Idle /\ handler[h] \in WebhookRequest
  BY DEF Idle, PayInv, PayTypeOK
<1>2. PICK e \in Event : handler[h].event = {e}
  BY <1>1 DEF WebhookRequest
<1>3. e \in received /\ e \in emitted
  BY <1>2 DEF PayInv, PayTypeOK, References
<1>4. (CHOOSE x \in Handling(h) : TRUE) = e
  BY <1>2 DEF Handling
<1>5. PaymentOf(h) = e.pay /\ TypeOf(h) = e.type
  BY <1>4 DEF PaymentOf, TypeOf
<1>6. e = [pay |-> e.pay, type |-> e.type] /\ e.pay \in Payment /\ e.type \in EventTypes
  BY <1>2 DEF Event
<1>7. provider[e.pay] \in Intent /\ provider[e.pay] # NoIntent
  BY <1>3, <1>6 DEF PayInv, PayTypeOK, References, NoIntent
<1>8. provider[e.pay].inv \in Invoices
  BY <1>7 DEF Intent
<1> QED
  BY <1>2, <1>3, <1>5, <1>6, <1>8 DEF Handling, InvoiceOf

\* A step of a caller's call is one of the lifecycle.
LEMMA CallStep ==
  ASSUME NEW c \in Callers, Serve(c) \/ CallFails(c)
  PROVE  Next
  BY DEF Serve, Next

\* A call that has committed was for an invoice.
LEMMA CommittedCall ==
  ASSUME TypeOK, NEW c \in Callers, call[c].step = "commit"
  PROVE  call[c] \in Checked /\ call[c].inv \in Invoices
  BY DEF TypeOK, NoCall, Reading, Checked

LEMMA RefinesStep == PayInv /\ [PayNext]_allVars => [Next]_vars
<1> SUFFICES ASSUME PayInv, [PayNext]_allVars PROVE [Next]_vars
  OBVIOUS
<1> USE PaymentsAssumption DEF Operation
\* The steps outside the service.
<1>1. CASE UNCHANGED vars
  BY <1>1
<1>2. CASE CronAdvance \/ CronFails
  BY <1>2 DEF CronAdvance, CronFails, Fault
<1>3. ASSUME NEW a \in Admins, JobChecks(a) \/ JobCreatesIntent(a) \/ JobRecords(a) \/ JobFails(a)
      PROVE  UNCHANGED vars
  BY <1>3 DEF JobChecks, JobCreatesIntent, JobRecords, JobFails, Fault
<1>4. ASSUME NEW p \in Payment, NEW type \in EventTypes, Emit(p, type) PROVE UNCHANGED vars
  BY <1>4 DEF Emit
<1>5. ASSUME NEW h \in Handlers, NEW e \in emitted, Receive(h, e) PROVE UNCHANGED vars
  BY <1>5 DEF Receive
<1>6. ASSUME NEW h \in Handlers,
             \/ Find(h) \/ ReadSubscription(h) \/ HandlerAdvance(h) \/ UpdateFailed(h)
             \/ Schedule(h) \/ SetPastDue(h) \/ HandlerFails(h)
      PROVE  UNCHANGED vars
  BY <1>6 DEF Find, ReadSubscription, HandlerAdvance, UpdateFailed, Schedule, SetPastDue,
              HandlerFails, Fault
<1>7. ASSUME NEW kind \in AuditKinds, Audit(kind) \/ AuditFails(kind) PROVE UNCHANGED vars
  BY <1>7 DEF Audit, AuditFails, Fault
\* The steps of the service.
<1>8. CASE CronFind \/ CronFilter \/ CronGenerate \/ ManualRead \/ ManualGenerate
  BY <1>8
  DEF CronFind, CronFilter, CronGenerate, ManualRead, ManualGenerate, Generate, Next
<1>9. CASE CronFinalize
  <2>1. cron.inv \in Invoices
    BY <1>9 DEF CronFinalize, PayInv, PayTypeOK, CronState, CronIdle
  <2> QED
    BY <1>9, <2>1 DEF CronFinalize, Next
<1>10. CASE CronCall
  BY <1>10, CallStep DEF CronCall
<1>11. ASSUME NEW a \in Admins, NEW op \in Operation, NEW i \in Invoices, AdminRequest(a, op, i)
       PROVE  Next
  BY <1>11 DEF AdminRequest, Next
<1>12. ASSUME NEW a \in Admins, AdminCall(a) PROVE Next
  BY <1>12, CallStep DEF AdminCall
<1>13. ASSUME NEW h \in Handlers, UpdateSucceeded(h) PROVE Next
  <2>1. InvoiceOf(h) \in Invoices
    BY <1>13, AtWork DEF UpdateSucceeded
  <2> QED
    BY <1>13, <2>1 DEF UpdateSucceeded, Next
<1>14. ASSUME NEW h \in Handlers, HandlerCall(h) PROVE Next
  BY <1>14, CallStep DEF HandlerCall
<1>15. ASSUME NEW c \in Callers, CallerFails(c) PROVE Next
  BY <1>15, CallStep DEF CallerFails
<1> QED
  BY <1>1, <1>2, <1>3, <1>4, <1>5, <1>6, <1>7, <1>8, <1>9, <1>10, <1>11, <1>12, <1>13,
     <1>14, <1>15
  DEF PayNext, CronStep, AdminStep, HandlerStep, allVars

\* The attempts of an invoice can be counted.
LEMMA AttemptsCounted ==
  ASSUME NEW i
  PROVE  Cardinality(AttemptsOf(i)) \in Nat
  BY PaymentsAssumption, FS_Subset, FS_CardinalityType DEF AttemptsOf

\* A call stays the operation it is until it ends, and is nobody else's business.
LEMMA OwnCall ==
  ASSUME TypeOK, NEW c \in Callers, Serve(c) \/ CallFails(c)
  PROVE  /\ \A d \in Callers \ {c} : call'[d] = call[d]
         /\ call[c] # NoCall
         /\ call'[c] # NoCall => call'[c].op = call[c].op
<1> USE DEF TypeOK, Reading, Checked, NoCall
<1>1. CASE Check(c)
  BY <1>1 DEF Check
<1>2. CASE GenerateNumber(c)
  BY <1>2 DEF GenerateNumber
<1>3. CASE Commit(c) \/ CallFails(c)
  BY <1>3 DEF Commit, CallFails
<1> QED
  BY <1>1, <1>2, <1>3 DEF Serve

LEMMA CallsHeldStep == PayInv /\ [PayNext]_allVars => CallsHeld'
<1> SUFFICES ASSUME PayInv, [PayNext]_allVars PROVE CallsHeld'
  OBVIOUS
<1>0. /\ TypeOK /\ CallsHeld
      /\ cron \in CronState
      /\ handler \in [Handlers -> WebhookRequest]
      /\ job \in [Admins -> Job]
  BY DEF PayInv, PayTypeOK
<1>a. /\ Callers = {Cron} \union Admins \union Handlers
      /\ Cron \notin Admins /\ Cron \notin Handlers /\ Admins \intersect Handlers = {}
  BY PaymentsAssumption
\* Steps that leave the calls and whoever waits for one alone.
<1>1. ASSUME UNCHANGED call,
             cron.step = "finalize" /\ call[Cron] # NoCall => cron'.step = "finalize",
             \A h \in Handlers : handler[h].step = "markPaid" /\ call[h] # NoCall =>
               handler'[h].step = "markPaid"
      PROVE  CallsHeld'
  BY <1>0, <1>1 DEF CallsHeld
<1>2. ASSUME UNCHANGED <<call, cron, handler>> PROVE CallsHeld'
  BY <1>1, <1>2
<1>3. CASE UNCHANGED allVars
  BY <1>2, <1>3 DEF allVars, payVars, vars
<1>4. CASE CronFind \/ CronFilter \/ CronGenerate
  <2>0. cron.step # "finalize"
    <3>1. CASE CronFind
      BY <3>1 DEF CronFind, CronIdle
    <3>2. CASE CronFilter \/ CronGenerate
      BY <3>2 DEF CronFilter, CronGenerate
    <3> QED
      BY <1>4, <3>1, <3>2
  <2>1. call[Cron] = NoCall
    BY <1>0, <2>0 DEF CallsHeld
  <2>2. UNCHANGED <<call, handler>>
    BY <1>4 DEF CronFind, CronFilter, CronGenerate, Generate, CreateDraft, vars
  <2> QED
    BY <1>1, <2>1, <2>2
<1>5. CASE CronFinalize
  <2>1. /\ call' = [call EXCEPT ![Cron] = [step |-> "read", op |-> "finalize", inv |-> cron.inv]]
        /\ cron' = [cron EXCEPT !.step = "finalize"] /\ UNCHANGED handler
    BY <1>5 DEF CronFinalize, Request
  <2>2. cron'.step = "finalize" /\ \A h \in Handlers : call'[h] = call[h]
    BY <1>0, <1>a, <2>1 DEF TypeOK, CronState, CronIdle
  <2> QED
    BY <1>0, <2>1, <2>2 DEF CallsHeld
<1>6. CASE CronCall
  <2>1. \A h \in Handlers : call'[h] = call[h]
    BY <1>0, <1>6, <1>a, OwnCall DEF CronCall
  <2>2. call'[Cron] # NoCall => cron' = cron
    BY <1>6 DEF CronCall, CronResumes, Committed, Ended
  <2>3. call[Cron] # NoCall /\ UNCHANGED handler
    BY <1>0, <1>6, <1>a, OwnCall DEF CronCall
  <2> QED
    BY <1>0, <2>1, <2>2, <2>3 DEF CallsHeld
<1>7. CASE CronAdvance \/ CronFails
  BY <1>1, <1>7 DEF CronAdvance, CronFails, Fault, vars
<1>8. CASE ManualRead \/ ManualGenerate
  BY <1>2, <1>8 DEF ManualRead, ManualGenerate, Generate, CreateDraft, vars
<1>9. ASSUME NEW kind \in AuditKinds, Audit(kind) \/ AuditFails(kind) PROVE CallsHeld'
  BY <1>2, <1>9 DEF Audit, AuditFails, Fault, vars
<1>10. ASSUME NEW a \in Admins, NEW op \in Operation, NEW i \in Invoices, AdminRequest(a, op, i)
       PROVE  CallsHeld'
  <2>1. call'[Cron] = call[Cron] /\ \A h \in Handlers : call'[h] = call[h]
    BY <1>0, <1>10, <1>a DEF AdminRequest, Request, TypeOK
  <2> QED
    BY <1>0, <1>10, <2>1 DEF AdminRequest, payVars, CallsHeld
<1>11. ASSUME NEW a \in Admins, AdminCall(a) PROVE CallsHeld'
  <2>1. call'[Cron] = call[Cron] /\ \A h \in Handlers : call'[h] = call[h]
    BY <1>0, <1>11, <1>a, OwnCall DEF AdminCall
  <2> QED
    BY <1>0, <1>11, <2>1 DEF AdminCall, CallsHeld
<1>12. ASSUME NEW a \in Admins, JobChecks(a) \/ JobCreatesIntent(a) \/ JobRecords(a) \/ JobFails(a)
       PROVE  CallsHeld'
  BY <1>2, <1>12 DEF JobChecks, JobCreatesIntent, JobRecords, JobFails, Fault, vars
<1>13. ASSUME NEW p \in Payment, NEW type \in EventTypes, Emit(p, type) PROVE CallsHeld'
  BY <1>2, <1>13 DEF Emit, vars
<1>14. ASSUME NEW h \in Handlers,
              \/ \E e \in emitted : Receive(h, e)
              \/ Find(h) \/ ReadSubscription(h) \/ HandlerAdvance(h) \/ UpdateFailed(h)
              \/ Schedule(h) \/ SetPastDue(h) \/ HandlerFails(h)
       PROVE  CallsHeld'
  <2>1. UNCHANGED <<call, cron>>
    BY <1>14 DEF Receive, Find, ReadSubscription, HandlerAdvance, UpdateFailed, Schedule,
                 SetPastDue, HandlerFails, Fault, vars
  <2>2. \A g \in Handlers \ {h} : handler'[g] = handler[g]
    BY <1>0, <1>14 DEF Receive, Find, ReadSubscription, HandlerAdvance, UpdateFailed, Schedule,
                 SetPastDue, HandlerFails, Proceed, Finish
  <2>3. handler[h].step # "markPaid" \/ call[h] = NoCall
    BY <1>14 DEF Receive, Find, ReadSubscription, HandlerAdvance, UpdateFailed, Schedule,
                 SetPastDue, HandlerFails, Idle
  <2> QED
    BY <1>1, <2>1, <2>2, <2>3
<1>15. ASSUME NEW h \in Handlers, UpdateSucceeded(h) PROVE CallsHeld'
  <2>1. /\ call' = [call EXCEPT ![h] = [step |-> "read", op |-> "markPaid", inv |-> InvoiceOf(h)]]
        /\ handler' = [handler EXCEPT ![h].step = "markPaid"] /\ UNCHANGED cron
    BY <1>15 DEF UpdateSucceeded, Request, Proceed
  <2>2. /\ call'[Cron] = call[Cron] /\ call'[h].op = "markPaid"
        /\ \A g \in Handlers \ {h} : call'[g] = call[g] /\ handler'[g] = handler[g]
    BY <1>0, <1>a, <2>1 DEF TypeOK
  <2>3. handler'[h].step = "markPaid"
    BY <1>0, <2>1 DEF WebhookRequest, Idle
  <2> QED
    BY <1>0, <2>1, <2>2, <2>3 DEF CallsHeld
<1>16. ASSUME NEW h \in Handlers, HandlerCall(h) PROVE CallsHeld'
  <2>1. \A d \in Callers \ {h} : call'[d] = call[d]
    BY <1>0, <1>16, <1>a, OwnCall DEF HandlerCall
  <2>2. \A g \in Handlers \ {h} : handler'[g] = handler[g]
    BY <1>0, <1>16 DEF HandlerCall
  <2>3. call[h] # NoCall /\ (call'[h] # NoCall => handler' = handler /\ call'[h].op = call[h].op)
    BY <1>0, <1>16, <1>a, OwnCall DEF HandlerCall, Committed, Ended
  <2> QED
    BY <1>0, <1>16, <1>a, <2>1, <2>2, <2>3 DEF HandlerCall, CallsHeld
<1>17. ASSUME NEW c \in Callers, CallerFails(c) PROVE CallsHeld'
  <2>1. \A d \in Callers \ {c} : call'[d] = call[d]
    BY <1>0, <1>17, OwnCall DEF CallerFails
  <2>2. call'[c] = NoCall
    BY <1>0, <1>17 DEF CallerFails, CallFails, TypeOK
  <2>3. c # Cron => cron' = cron
    BY <1>17 DEF CallerFails
  <2>4. \A g \in Handlers \ {c} : handler'[g] = handler[g]
    BY <1>0, <1>17 DEF CallerFails
  <2> QED
    BY <1>0, <1>a, <2>1, <2>2, <2>3, <2>4 DEF CallsHeld
<1> QED
  BY <1>3, <1>4, <1>5, <1>6, <1>7, <1>8, <1>9, <1>10, <1>11, <1>12, <1>13, <1>14, <1>15,
     <1>16, <1>17
  DEF PayNext, CronStep, AdminStep, HandlerStep

\* What the records hold once their actor is at work.
LEMMA RecordsAtWork ==
  ASSUME PayInv
  PROVE  /\ cron.step # "idle" => cron.period \in Period
         /\ cron.step \in {"generated", "finalize", "advance"} => cron.inv \in Invoices
         /\ \A a \in Admins : job[a].step # "none" =>
              /\ job[a].inv \in Invoices /\ job[a].count \in Nat
              /\ job[a].pay \subseteq Payment
         /\ \A h \in Handlers : handler[h].period \in Nat
  BY DEF PayInv, PayTypeOK, CronState, CronIdle, Job, NoJob, WebhookRequest, Idle

\* Rows of payment_attempts, updated and new.
LEMMA StatusWritten ==
  ASSUME PayInv, NEW h \in Handlers, handler[h].step # "idle",
         NEW s \in {"SUCCEEDED", "FAILED"}, SetAttempt(h, s)
  PROVE  /\ attempt' \in [Payment -> Attempt]
         /\ \A p \in Payment : attempt'[p].status # "ABSENT" => provider[p] # NoIntent
<1> DEFINE p == PaymentOf(h)
<1>1. p \in Payment /\ [pay |-> p, type |-> TypeOf(h)] \in emitted
  BY AtWork DEF PayInv, PayTypeOK
<1>2. provider[p].outcome = "requires_action"
  BY <1>1 DEF PayInv, References
<1>3. attempt' = [attempt EXCEPT ![p].status = s]
  BY DEF SetAttempt
<1> HIDE DEF p
<1>4. attempt' \in [Payment -> Attempt] /\ \A q \in Payment \ {p} : attempt'[q] = attempt[q]
  BY <1>1, <1>3 DEF PayInv, PayTypeOK, Attempt, AttemptStatus
<1>5. provider[p] # NoIntent
  BY <1>2 DEF NoIntent
<1>6. \A q \in Payment : attempt[q].status # "ABSENT" => provider[q] # NoIntent
  BY DEF PayInv, References
<1> QED
  BY <1>4, <1>5, <1>6

LEMMA AttemptRecorded ==
  ASSUME PayInv, NEW a \in Admins, job[a].step = "record", RecordAttempt(a)
  PROVE  /\ attempt' \in [Payment -> Attempt] /\ recent' \subseteq Payment
         /\ \A p \in Payment : attempt'[p].status # "ABSENT" => provider[p] # NoIntent
<1>1. job[a].pay \subseteq Payment /\ job[a].count \in Nat
  BY RecordsAtWork
<1>2. PICK p \in job[a].pay :
        /\ attempt' = [attempt EXCEPT ![p] = [status |-> InitialStatus(provider[p].outcome),
                                              number |-> job[a].count]]
        /\ recent' = recent \union {p}
  BY DEF RecordAttempt
<1>3. p \in Payment /\ provider[p] \in Intent \ {NoIntent}
  BY <1>1 DEF PayInv, PayTypeOK, References
<1>4. InitialStatus(provider[p].outcome) \in AttemptStatus
  BY <1>3 DEF Intent, InitialStatus, AttemptStatus
<1>5. [status |-> InitialStatus(provider[p].outcome), number |-> job[a].count] \in Attempt
  BY <1>1, <1>4 DEF Attempt
<1> QED
  BY <1>2, <1>3, <1>5 DEF PayInv, PayTypeOK, References

\* The count of finalizations.
LEMMA FinalizationsCounted ==
  ASSUME PayInv, NEW c \in Callers, CountFinalization(c)
  PROVE  finalizations' \in [Invoices -> Nat]
<1>1. finalizations \in [Invoices -> Nat]
  BY DEF PayInv, PayTypeOK
<1>2. CASE finalizations' # finalizations
  <2>1. call[c].inv \in Invoices
    BY <1>2, CommittedCall DEF CountFinalization, Committed, PayInv, PayTypeOK
  <2> QED
    BY <1>1, <1>2, <2>1 DEF CountFinalization
<1> QED
  BY <1>1, <1>2

\* Moving on.
LEMMA JobMoves ==
  ASSUME PayInv, NEW a \in Admins, job[a].step # "none",
         \/ EndJob(a)
         \/ \E step \in {"success", "count", "provider", "record"} : Goto(a, step)
  PROVE  job' \in [Admins -> Job]
  BY DEF PayInv, PayTypeOK, EndJob, Goto, Job, NoJob

LEMMA RequestMoves ==
  ASSUME PayInv, NEW h \in Handlers, handler[h].step # "idle",
         \/ Finish(h)
         \/ \E step \in {"update", "markPaid", "subscription", "advance", "schedule", "pastDue"} :
              Proceed(h, step)
  PROVE  /\ handler' \in [Handlers -> WebhookRequest]
         /\ \A g \in Handlers : handler'[g].event \subseteq handler[g].event
<1>1. handler[h] \in WebhookRequest \ {Idle} /\ Idle \in WebhookRequest /\ Idle.event = {}
  BY DEF PayInv, PayTypeOK, WebhookRequest, Idle
<1>2. CASE Finish(h)
  BY <1>1, <1>2 DEF Finish, PayInv, PayTypeOK
<1>3. ASSUME NEW step \in {"update", "markPaid", "subscription", "advance", "schedule", "pastDue"},
             Proceed(h, step)
      PROVE  /\ handler' \in [Handlers -> WebhookRequest]
             /\ \A g \in Handlers : handler'[g].event \subseteq handler[g].event
  <2>1. [handler[h] EXCEPT !.step = step] \in WebhookRequest
    BY <1>1 DEF WebhookRequest
  <2> QED
    BY <1>1, <1>3, <2>1 DEF Proceed, PayInv, PayTypeOK, WebhookRequest
<1> QED
  BY <1>2, <1>3

LEMMA IntentCreated ==
  ASSUME PayInv, NEW p \in Payment, NEW i \in Invoices, NewIntent(p, i)
  PROVE  /\ provider' \in [Payment -> Intent]
         /\ \A q \in Payment : provider[q] # NoIntent => provider'[q] = provider[q]
<1>1. PICK o \in Answers :
        provider' = [provider EXCEPT ![p] = [inv |-> i, paid |-> o = "succeeded", outcome |-> o]]
  BY DEF NewIntent
<1>2. o \in {"requires_action", "succeeded", "failed"}
  BY DEF Answers
<1>3. (o = "succeeded") \in BOOLEAN
  OBVIOUS
<1>4. [inv |-> i, paid |-> o = "succeeded", outcome |-> o] \in Intent
  BY <1>2, <1>3 DEF Intent
<1> QED
  BY <1>1, <1>4 DEF NewIntent, PayInv, PayTypeOK

\* The events so far stay events of intents that wait for the customer, and who had
\* an intent still has it.
LEMMA IntentsKept ==
  ASSUME PayInv, UNCHANGED emitted,
         \A q \in Payment : provider[q] # NoIntent => provider'[q] = provider[q]
  PROVE  /\ \A e \in emitted' : provider'[e.pay].outcome = "requires_action"
         /\ \A p \in Payment : provider[p] # NoIntent => provider'[p] # NoIntent
  BY DEF PayInv, PayTypeOK, References, Event, NoIntent

LEMMA PayInvStep == PayInv /\ [PayNext]_allVars => PayInv'
<1> SUFFICES ASSUME PayInv, [PayNext]_allVars PROVE PayInv'
  OBVIOUS
<1>0. TypeOK'
  BY RefinesStep, TypeStep DEF PayInv, PayTypeOK
<1>a. CallsHeld'
  BY CallsHeldStep
<1> USE <1>0, <1>a DEF PayInv, PayTypeOK, References
<1>1. CASE UNCHANGED allVars
  BY <1>1 DEF allVars, payVars
<1>2. CASE CronFind \/ CronFilter \/ CronGenerate \/ CronFinalize
  <2>1. CASE CronFind
    BY <1>0, <2>1 DEF CronFind, CronState, CronIdle
  <2>2. CASE CronFilter
    <3>1. [cron EXCEPT !.step = "generate"] \in CronState
      BY <2>2 DEF CronFilter, CronState, CronIdle
    <3>2. cron' \in CronState
      BY <2>2, <3>1 DEF CronFilter, CronState
    <3> QED
      BY <2>2, <3>2 DEF CronFilter
  <2>3. CASE CronGenerate
    <3>1. PICK i \in Invoices :
            Generate(i, cron.period) /\ cron' = [cron EXCEPT !.step = "generated", !.inv = i]
      BY <2>3 DEF CronGenerate
    <3>2. cron.period \in Period /\ cron.period \in Nat /\ cron # CronIdle
      BY <2>3, RecordsAtWork DEF CronGenerate, CronIdle, Period
    <3>3. cron' = [step |-> "generated", inv |-> i, period |-> cron.period]
      BY <3>1, <3>2 DEF CronState
    <3>4. cron' \in CronState
      BY <3>2, <3>3 DEF CronState
    <3>5. periodOf' \in [Invoices -> Nat]
      BY <3>1, <3>2 DEF Generate
    <3> QED
      BY <2>3, <3>1, <3>4, <3>5 DEF CronGenerate
  <2>4. CASE CronFinalize
    <3>1. cron' \in CronState
      BY <2>4, RecordsAtWork DEF CronFinalize, CronState, CronIdle
    <3> QED
      BY <2>4, <3>1 DEF CronFinalize
  <2> QED
    BY <1>2, <2>1, <2>2, <2>3, <2>4
<1>3. CASE CronCall
  <2>1. finalizations' \in [Invoices -> Nat]
    BY <1>3, FinalizationsCounted, PaymentsAssumption DEF CronCall
  <2>2. cron.step = "finalize" /\ cron.inv \in Invoices
    BY <1>3, PaymentsAssumption, OwnCall, RecordsAtWork DEF CronCall, CallsHeld
  <2>3. cron' \in {cron, CronIdle, [cron EXCEPT !.step = "advance"]}
    BY <1>3 DEF CronCall, CronResumes
  <2>4. [cron EXCEPT !.step = "advance"] \in CronState
    BY <2>2 DEF CronState, CronIdle
  <2>5. cron' \in CronState
    BY <2>3, <2>4 DEF CronState
  <2> QED
    BY <1>3, <2>1, <2>5 DEF CronCall
<1>4. CASE CronAdvance \/ CronFails
  <2>1. cron' \in CronState
    BY <1>4 DEF CronAdvance, CronFails, CronState
  <2>2. cron.step # "idle"
    BY <1>4 DEF CronAdvance, CronFails, CronState, CronIdle
  <2>3. cron.period + 1 \in Period
    BY <2>2, RecordsAtWork DEF Period
  <2>4. period' \in Period /\ recent' \subseteq Payment
    BY <1>4, <2>3 DEF CronAdvance, CronFails, AdvanceFrom
  <2>5. payFaults' \in 0 .. MaxFaults
    BY <1>4, LifecycleAssumption DEF CronAdvance, CronFails, Fault
  <2> QED
    BY <1>4, <2>1, <2>4, <2>5 DEF CronAdvance, CronFails
<1>5. CASE ManualRead \/ ManualGenerate
  <2>1. CASE ManualRead
    BY <2>1 DEF ManualRead, Period
  <2>2. CASE ManualGenerate
    <3>1. PICK i \in Invoices : Generate(i, manual)
      BY <2>2 DEF ManualGenerate
    <3>2. periodOf' \in [Invoices -> Nat]
      BY <3>1 DEF Generate
    <3> QED
      BY <2>2, <3>2 DEF ManualGenerate
  <2> QED
    BY <1>5, <2>1, <2>2
<1>6. ASSUME NEW kind \in AuditKinds, Audit(kind) \/ AuditFails(kind) PROVE PayInv'
  <2>1. Unpaid \subseteq Invoices /\ Mismatched \subseteq Invoices
    BY DEF Unpaid, Mismatched
  <2>2. PaidSince \subseteq Invoices
    BY DEF PaidSince, Intent
  <2>3. Found[kind] \subseteq Invoices
    BY <2>1, <2>2 DEF Found, AuditKinds
  <2>4. issues' \subseteq AuditKinds \X Invoices
    BY <1>6, <2>3 DEF Audit, AuditFails, Report
  <2>5. payFaults' \in 0 .. MaxFaults
    BY <1>6, LifecycleAssumption DEF Audit, AuditFails, Fault
  <2> QED
    BY <1>6, <2>4, <2>5 DEF Audit, AuditFails
<1>7. ASSUME NEW a \in Admins, NEW op \in Operation, NEW i \in Invoices, AdminRequest(a, op, i)
      PROVE  PayInv'
  BY <1>7 DEF AdminRequest, payVars
<1>8. ASSUME NEW a \in Admins, AdminCall(a) PROVE PayInv'
  <2>1. finalizations' \in [Invoices -> Nat]
    BY <1>8, FinalizationsCounted, PaymentsAssumption DEF AdminCall
  <2>2. job' \in [Admins -> Job]
    BY <1>8, PaymentsAssumption, CommittedCall DEF AdminCall, Committed, Job, NoJob
  <2>3. \A b \in Admins : job'[b].pay \subseteq job[b].pay
    BY <1>8 DEF AdminCall, Job, NoJob
  <2> QED
    BY <1>8, <2>1, <2>2, <2>3 DEF AdminCall
<1>9. ASSUME NEW a \in Admins, JobChecks(a) PROVE PayInv'
  <2>1. job' \in [Admins -> Job]
    <3>1. CASE EndJob(a) \/ Goto(a, "success") \/ Goto(a, "count")
      BY <1>9, <3>1, JobMoves DEF JobChecks
    <3>2. CASE job' = [job EXCEPT ![a].step = "provider",
                                  ![a].count = Cardinality(AttemptsOf(job[a].inv))]
      <4>1. job[a] \in Job \ {NoJob}
        BY <1>9 DEF JobChecks, NoJob
      <4>2. [job[a] EXCEPT !.step = "provider",
                           !.count = Cardinality(AttemptsOf(job[a].inv))] \in Job
        BY <4>1, AttemptsCounted DEF Job
      <4> QED
        BY <3>2, <4>2
    <3> QED
      BY <1>9, <3>1, <3>2 DEF JobChecks
  <2>2. \A b \in Admins : job'[b].pay \subseteq job[b].pay
    BY <1>9 DEF JobChecks, Goto, EndJob, NoJob, Job
  <2> QED
    BY <1>9, <2>1, <2>2 DEF JobChecks
<1>10. ASSUME NEW a \in Admins, JobCreatesIntent(a) PROVE PayInv'
  <2>1. PICK p \in Payment :
          /\ NewIntent(p, job[a].inv)
          /\ job' = [job EXCEPT ![a].step = "record", ![a].pay = {p}]
    BY <1>10 DEF JobCreatesIntent
  <2>2. job[a].inv \in Invoices
    BY <1>10, RecordsAtWork DEF JobCreatesIntent
  <2>3. job' \in [Admins -> Job]
    <3>1. job[a] \in Job \ {NoJob}
      BY <1>10 DEF JobCreatesIntent, NoJob
    <3>2. [job[a] EXCEPT !.step = "record", !.pay = {p}] \in Job
      BY <3>1 DEF Job
    <3> QED
      BY <2>1, <3>2
  <2>4. /\ provider' \in [Payment -> Intent]
        /\ \A e \in emitted' : provider'[e.pay].outcome = "requires_action"
        /\ \A q \in Payment : provider[q] # NoIntent => provider'[q] # NoIntent
    BY <1>10, <2>1, <2>2, IntentCreated, IntentsKept DEF JobCreatesIntent
  <2>5. provider'[p] # NoIntent
    BY <2>1, <2>2 DEF NewIntent, NoIntent, Answers
  <2>6. \A b \in Admins : \A q \in job'[b].pay : provider'[q] # NoIntent
    <3>1. \A b \in Admins \ {a} : job'[b] = job[b]
      BY <2>1
    <3>2. job'[a].pay = {p}
      BY <1>10, <2>1 DEF JobCreatesIntent, Job, NoJob
    <3>3. \A b \in Admins : job[b].pay \subseteq Payment
      BY DEF Job, NoJob
    <3> QED
      BY <2>4, <2>5, <3>1, <3>2, <3>3
  <2> QED
    BY <1>10, <2>3, <2>4, <2>6 DEF JobCreatesIntent
<1>11. ASSUME NEW a \in Admins, JobRecords(a) PROVE PayInv'
  <2>1. job' \in [Admins -> Job] /\ \A b \in Admins : job'[b].pay \subseteq job[b].pay
    BY <1>11, JobMoves DEF JobRecords, EndJob, NoJob
  <2>2. /\ attempt' \in [Payment -> Attempt] /\ recent' \subseteq Payment
        /\ \A p \in Payment : attempt'[p].status # "ABSENT" => provider[p] # NoIntent
    BY <1>11, AttemptRecorded DEF JobRecords
  <2> QED
    BY <1>11, <2>1, <2>2 DEF JobRecords
<1>12. ASSUME NEW a \in Admins, JobFails(a) PROVE PayInv'
  <2>1. job[a].step # "none" /\ job[a].inv \in Invoices
    BY <1>12, RecordsAtWork DEF JobFails, Job, NoJob
  <2>2. job' \in [Admins -> Job] /\ payFaults' \in 0 .. MaxFaults
    BY <1>12, <2>1, JobMoves, LifecycleAssumption DEF JobFails, Fault
  <2>3. \A b \in Admins : job'[b].pay \subseteq job[b].pay /\ job[b].pay \subseteq Payment
    BY <1>12 DEF JobFails, EndJob, Job, NoJob
  <2>4. /\ attempt' \in [Payment -> Attempt] /\ recent' \subseteq Payment
        /\ \A p \in Payment : attempt'[p].status # "ABSENT" => provider[p] # NoIntent
    BY <1>12, AttemptRecorded DEF JobFails
  <2>5. /\ provider' \in [Payment -> Intent]
        /\ \A e \in emitted' : provider'[e.pay].outcome = "requires_action"
        /\ \A p \in Payment : provider[p] # NoIntent => provider'[p] # NoIntent
    <3>1. CASE UNCHANGED provider
      BY <1>12, <3>1 DEF JobFails
    <3>2. CASE \E p \in Payment : NewIntent(p, job[a].inv)
      BY <1>12, <2>1, <3>2, IntentCreated, IntentsKept DEF JobFails
    <3> QED
      BY <1>12, <3>1, <3>2 DEF JobFails
  <2> QED
    BY <1>12, <2>2, <2>3, <2>4, <2>5 DEF JobFails
<1>13. ASSUME NEW p \in Payment, NEW type \in EventTypes, Emit(p, type) PROVE PayInv'
  <2>1. /\ emitted' = emitted \union {[pay |-> p, type |-> type]}
        /\ provider' = [provider EXCEPT ![p].paid = (type = "succeeded")]
        /\ provider[p].outcome = "requires_action"
    BY <1>13 DEF Emit
  <2>2. emitted' \subseteq Event
    BY <2>1 DEF Event
  <2>3. provider[p] \in Intent \ {NoIntent} /\ (type = "succeeded") \in BOOLEAN
    BY <2>1 DEF NoIntent
  <2>4. /\ [provider[p] EXCEPT !.paid = (type = "succeeded")] \in Intent
        /\ [provider[p] EXCEPT !.paid = (type = "succeeded")].outcome = "requires_action"
    BY <2>1, <2>3 DEF Intent
  <2>5. provider' \in [Payment -> Intent] /\ provider'[p].outcome = "requires_action"
    BY <2>1, <2>4
  <2>6. \A q \in Payment : q # p => provider'[q] = provider[q]
    BY <2>1
  <2>7. \A e \in emitted' : provider'[e.pay].outcome = "requires_action"
    BY <2>1, <2>5, <2>6 DEF Event
  <2>8. \A q \in Payment : provider[q] # NoIntent => provider'[q] # NoIntent
    BY <2>5, <2>6 DEF NoIntent
  <2>9. \A b \in Admins : job[b].pay \subseteq Payment
    BY DEF Job, NoJob
  <2> QED
    BY <1>13, <2>2, <2>5, <2>7, <2>8, <2>9 DEF Emit
<1>14. ASSUME NEW h \in Handlers, NEW e \in emitted, Receive(h, e) PROVE PayInv'
  <2>1. [step |-> "find", event |-> {e}, period |-> 0] \in WebhookRequest
    BY DEF WebhookRequest
  <2>2. handler' \in [Handlers -> WebhookRequest]
    BY <1>14, <2>1 DEF Receive
  <2>3. \A g \in Handlers : handler'[g].event \subseteq received'
    BY <1>14 DEF Receive
  <2>4. disordered' \subseteq Payment
    BY <1>14 DEF Receive, Event
  <2> QED
    BY <1>14, <2>2, <2>3, <2>4 DEF Receive
<1>15. ASSUME NEW h \in Handlers, Find(h) PROVE PayInv'
  <2>1. /\ handler' \in [Handlers -> WebhookRequest]
        /\ \A g \in Handlers : handler'[g].event \subseteq handler[g].event
    BY <1>15, RequestMoves DEF Find
  <2>2. early' \subseteq Payment
    BY <1>15, AtWork DEF Find
  <2> QED
    BY <1>15, <2>1, <2>2 DEF Find
<1>16. ASSUME NEW h \in Handlers, UpdateSucceeded(h) \/ UpdateFailed(h) PROVE PayInv'
  <2>1. /\ attempt' \in [Payment -> Attempt]
        /\ \A p \in Payment : attempt'[p].status # "ABSENT" => provider[p] # NoIntent
    BY <1>16, StatusWritten DEF UpdateSucceeded, UpdateFailed
  <2>2. /\ handler' \in [Handlers -> WebhookRequest]
        /\ \A g \in Handlers : handler'[g].event \subseteq handler[g].event
    BY <1>16, RequestMoves DEF UpdateSucceeded, UpdateFailed
  <2> QED
    BY <1>16, <2>1, <2>2 DEF UpdateSucceeded, UpdateFailed
<1>17. ASSUME NEW h \in Handlers, HandlerCall(h) PROVE PayInv'
  <2>1. handler[h].step # "idle"
    BY <1>17, PaymentsAssumption, OwnCall DEF HandlerCall, CallsHeld
  <2>2. \/ UNCHANGED handler
        \/ Proceed(h, "subscription") \/ Finish(h)
    BY <1>17 DEF HandlerCall, Proceed, Finish
  <2>3. /\ handler' \in [Handlers -> WebhookRequest]
        /\ \A g \in Handlers : handler'[g].event \subseteq handler[g].event
    BY <2>1, <2>2, RequestMoves
  <2> QED
    BY <1>17, <2>3 DEF HandlerCall
<1>18. ASSUME NEW h \in Handlers, ReadSubscription(h) PROVE PayInv'
  <2>1. handler[h] \in WebhookRequest \ {Idle}
    BY <1>18 DEF ReadSubscription, Idle
  <2>2. [handler[h] EXCEPT !.step = "advance", !.period = period] \in WebhookRequest
    BY <2>1 DEF WebhookRequest, Period
  <2>3. handler' = [handler EXCEPT ![h] = [handler[h] EXCEPT !.step = "advance",
                                                             !.period = period]]
    BY <1>18 DEF ReadSubscription
  <2>4. handler' \in [Handlers -> WebhookRequest]
    BY <2>2, <2>3
  <2>5. \A g \in Handlers : handler'[g].event = handler[g].event
    BY <2>1, <2>3 DEF WebhookRequest
  <2> QED
    BY <1>18, <2>4, <2>5 DEF ReadSubscription
<1>19. ASSUME NEW h \in Handlers, HandlerAdvance(h) \/ Schedule(h) \/ SetPastDue(h) PROVE PayInv'
  <2>1. /\ handler' \in [Handlers -> WebhookRequest]
        /\ \A g \in Handlers : handler'[g].event \subseteq handler[g].event
    BY <1>19, RequestMoves DEF HandlerAdvance, Schedule, SetPastDue
  <2>2. period' \in Period /\ recent' \subseteq Payment
    BY <1>19, RecordsAtWork DEF HandlerAdvance, AdvanceFrom, Schedule, SetPastDue, Period
  <2>3. pastDue' \in BOOLEAN
    BY <1>19 DEF HandlerAdvance, Schedule, SetPastDue
  <2>4. retryAt' \subseteq Payment
    <3>1. PaymentOf(h) \in Payment
      BY <1>19, AtWork DEF HandlerAdvance, Schedule, SetPastDue
    <3> QED
      BY <1>19, <3>1 DEF HandlerAdvance, Schedule, SetPastDue
  <2> QED
    BY <1>19, <2>1, <2>2, <2>3, <2>4 DEF HandlerAdvance, Schedule, SetPastDue
<1>20. ASSUME NEW h \in Handlers, HandlerFails(h) PROVE PayInv'
  <2>1. handler[h].step # "idle"
    BY <1>20 DEF HandlerFails, WebhookRequest, Idle
  <2>2. /\ handler' \in [Handlers -> WebhookRequest]
        /\ \A g \in Handlers : handler'[g].event \subseteq handler[g].event
    BY <1>20, <2>1, RequestMoves DEF HandlerFails
  <2>3. /\ attempt' \in [Payment -> Attempt]
        /\ \A p \in Payment : attempt'[p].status # "ABSENT" => provider[p] # NoIntent
    BY <1>20, <2>1, StatusWritten DEF HandlerFails
  <2>4. period' \in Period /\ recent' \subseteq Payment
    BY <1>20, RecordsAtWork DEF HandlerFails, AdvanceFrom, Period
  <2>5. payFaults' \in 0 .. MaxFaults
    BY <1>20, LifecycleAssumption DEF HandlerFails, Fault
  <2> QED
    BY <1>20, <2>2, <2>3, <2>4, <2>5 DEF HandlerFails
<1>21. ASSUME NEW c \in Callers, CallerFails(c) PROVE PayInv'
  <2>1. /\ handler' \in [Handlers -> WebhookRequest]
        /\ \A g \in Handlers : handler'[g].event \subseteq handler[g].event
    BY <1>21 DEF CallerFails, WebhookRequest, Idle
  <2>2. cron' \in CronState
    BY <1>21 DEF CallerFails, CronState
  <2>3. finalizations' \in [Invoices -> Nat]
    <3>1. call[c].inv \in Invoices
      BY <1>21 DEF CallerFails, CallFails, TypeOK, NoCall, Reading, Checked
    <3> QED
      BY <1>21, <3>1 DEF CallerFails
  <2> QED
    BY <1>21, <2>1, <2>2, <2>3 DEF CallerFails
<1> QED
  BY <1>1, <1>2, <1>3, <1>4, <1>5, <1>6, <1>7, <1>8, <1>9, <1>10, <1>11, <1>12, <1>13,
     <1>14, <1>15, <1>16, <1>17, <1>18, <1>19, <1>20, <1>21
  DEF PayNext, CronStep, AdminStep, HandlerStep

-----------------------------------------------------------------------------
(* Refinement *)

\* The tables, the jobs and the requests hold what they should.
THEOREM PaymentsTypes == PaySpec => []PayTypeOK
<1>1. PayInv => PayTypeOK
  BY DEF PayInv
<1> QED
  BY <1>1, PayInvInit, PayInvStep, PTL DEF PaySpec

\* The cron, the administrators and the webhooks together are callers of the
\* lifecycle: each of their steps is one of its steps, or leaves invoices, numbers and
\* ledger alone.
THEOREM PaymentsImplementLifecycle == PaySpec => Spec
<1>1. PayInit => Init
  BY DEF PayInit
<1> QED
  BY <1>1, PayInvInit, PayInvStep, RefinesStep, PTL DEF PaySpec, Spec

\* So an invoice that a payment has settled has its number, its charge and its payment
\* in the ledger, whatever webhooks came when.
THEOREM PaidIsBacked == PaySpec => []LedgerBacksStatus
  BY PaymentsImplementLifecycle, LedgerBacks, PTL

\* And no webhook, cron run or administrator takes an invoice out of the documented
\* state machine unless two calls overlap on it.
THEOREM PaymentsFollowLifecycle == PaySpec => FollowsLifecycle
  BY PaymentsImplementLifecycle, Lifecycle, PTL

-----------------------------------------------------------------------------
(* The audit of the ledger *)

\* The charges of an invoice are its finalizations.
ChargesCounted == \A i \in Invoices : ledger[i]["CHARGE"] = finalizations[i]

AuditInv == PayInv /\ BackedInv /\ ChargesCounted /\ LedgerIssuesAreRight

LEMMA AuditInit == PayInit => AuditInv
<1> SUFFICES ASSUME PayInit PROVE AuditInv
  OBVIOUS
<1>1. PayInv /\ BackedInv
  BY PayInvInit, BackedInit DEF PayInit
<1>2. ChargesCounted
  BY DEF PayInit, Init, ChargesCounted, EntryType
<1>3. LedgerIssuesAreRight
  BY DEF PayInit, LedgerIssuesAreRight
<1> QED
  BY <1>1, <1>2, <1>3 DEF AuditInv

\* A transaction charges its invoice once if it finalizes it, and no invoice otherwise.
LEMMA WriteCharges ==
  ASSUME TypeOK, NEW k \in Checked, Write(k)
  PROVE  \A i \in Invoices : ledger'[i]["CHARGE"] =
            ledger[i]["CHARGE"] + (IF k.op = "finalize" /\ i = k.inv THEN 1 ELSE 0)
<1> USE DEF TypeOK, Checked, EntryType, Post
<1>1. CASE k.op = "finalize" /\ WriteFinalized(k.inv, k.num)
  BY <1>1 DEF WriteFinalized
<1>2. CASE k.op = "markPaid" /\ WritePaid(k.inv)
  BY <1>2 DEF WritePaid
<1>3. CASE k.op = "void" /\ WriteVoid(k.inv, k.seen)
  BY <1>3 DEF WriteVoid
<1> QED
  BY <1>1, <1>2, <1>3 DEF Write

\* A step of a call: a charge is a finalization that has committed.
LEMMA ServeCharges ==
  ASSUME PayInv, ChargesCounted, NEW c \in Callers, Serve(c),
         \/ CountFinalization(c)
         \/ UNCHANGED finalizations /\ call[c].op # "finalize"
  PROVE  /\ ChargesCounted'
         /\ \A i \in Invoices : finalizations'[i] >= finalizations[i]
<1>1. TypeOK /\ finalizations \in [Invoices -> Nat]
  BY DEF PayInv, PayTypeOK
<1>2. CASE Commit(c)
  <2>1. call[c] \in Checked /\ call[c].inv \in Invoices /\ call'[c] = NoCall
    BY <1>1, <1>2, CommittedCall DEF Commit, TypeOK
  <2>2. Committed(c)
    BY <1>2, <2>1 DEF Commit, Committed, Ended
  <2>3. \A i \in Invoices : finalizations'[i] =
          finalizations[i] + (IF call[c].op = "finalize" /\ i = call[c].inv THEN 1 ELSE 0)
    BY <1>1, <2>1, <2>2 DEF CountFinalization
  <2>4. \A i \in Invoices : ledger'[i]["CHARGE"] =
          ledger[i]["CHARGE"] + (IF call[c].op = "finalize" /\ i = call[c].inv THEN 1 ELSE 0)
    BY <1>1, <1>2, <2>1, WriteCharges DEF Commit
  <2> QED
    BY <1>1, <2>3, <2>4 DEF ChargesCounted
<1>3. CASE Check(c) \/ GenerateNumber(c)
  <2>1. UNCHANGED ledger /\ call[c].step # "commit"
    BY <1>3 DEF Check, GenerateNumber
  <2>2. UNCHANGED finalizations
    BY <2>1 DEF CountFinalization, Committed
  <2> QED
    BY <1>1, <2>1, <2>2 DEF ChargesCounted
<1> QED
  BY <1>2, <1>3 DEF Serve

\* A call that fails: its transaction may have committed.
LEMMA FailureCharges ==
  ASSUME PayInv, ChargesCounted, NEW c \in Callers, CallerFails(c)
  PROVE  /\ ChargesCounted'
         /\ \A i \in Invoices : finalizations'[i] >= finalizations[i]
<1>1. TypeOK /\ finalizations \in [Invoices -> Nat]
  BY DEF PayInv, PayTypeOK
<1>2. CASE UNCHANGED ledger
  <2>1. UNCHANGED finalizations
    BY <1>2 DEF CallerFails
  <2> QED
    BY <1>1, <1>2, <2>1 DEF ChargesCounted
<1>3. CASE ledger' # ledger
  <2>1. call[c].step = "commit" /\ Write(call[c])
    BY <1>3 DEF CallerFails, CallFails
  <2>2. call[c] \in Checked /\ call[c].inv \in Invoices
    BY <1>1, <2>1, CommittedCall
  <2>3. \A i \in Invoices : ledger'[i]["CHARGE"] =
          ledger[i]["CHARGE"] + (IF call[c].op = "finalize" /\ i = call[c].inv THEN 1 ELSE 0)
    BY <1>1, <2>1, <2>2, WriteCharges
  <2>4. \A i \in Invoices : finalizations'[i] =
          finalizations[i] + (IF call[c].op = "finalize" /\ i = call[c].inv THEN 1 ELSE 0)
    BY <1>1, <1>3, <2>2 DEF CallerFails
  <2> QED
    BY <1>1, <2>3, <2>4 DEF ChargesCounted
<1> QED
  BY <1>2, <1>3

LEMMA AuditStep == AuditInv /\ [PayNext]_allVars => AuditInv'
<1> SUFFICES ASSUME AuditInv, [PayNext]_allVars PROVE ChargesCounted' /\ LedgerIssuesAreRight'
  BY PayInvStep, RefinesStep, BackedStep DEF AuditInv
<1>0. /\ PayInv /\ ChargesCounted /\ LedgerIssuesAreRight
      /\ finalizations \in [Invoices -> Nat]
      /\ Callers = {Cron} \union Admins \union Handlers
  BY PaymentsAssumption DEF AuditInv, PayInv, PayTypeOK
\* Issues that were right stay right.
<1>1. ASSUME UNCHANGED issues, \A i \in Invoices : finalizations'[i] >= finalizations[i]
      PROVE  LedgerIssuesAreRight'
  <2>1. finalizations' \in [Invoices -> Nat]
    BY PayInvStep, <1>0 DEF PayInv, PayTypeOK
  <2> QED
    BY <1>0, <1>1, <2>1 DEF LedgerIssuesAreRight, FinalizedOnce
<1>2. ASSUME UNCHANGED <<ledger, finalizations, issues>>
      PROVE  ChargesCounted' /\ LedgerIssuesAreRight'
  BY <1>0, <1>2 DEF ChargesCounted, LedgerIssuesAreRight, FinalizedOnce
<1>3. CASE \/ UNCHANGED allVars \/ CronFind \/ CronFilter \/ CronGenerate \/ CronFinalize
           \/ CronAdvance \/ CronFails \/ ManualRead \/ ManualGenerate
  BY <1>2, <1>3
  DEF allVars, payVars, vars, CronFind, CronFilter, CronGenerate, CronFinalize, CronAdvance,
      CronFails, Fault, ManualRead, ManualGenerate, Generate, CreateDraft, Request
<1>4. CASE CronCall
  BY <1>0, <1>1, <1>4, ServeCharges DEF CronCall
<1>5. ASSUME NEW kind \in AuditKinds, Audit(kind) \/ AuditFails(kind)
      PROVE  ChargesCounted' /\ LedgerIssuesAreRight'
  <2>1. UNCHANGED <<ledger, finalizations>>
    BY <1>5 DEF Audit, AuditFails, Fault, vars
  <2>2. PICK found \in SUBSET Found[kind] : issues' = issues \union ({kind} \X found)
    BY <1>5 DEF Audit, AuditFails, Report
  <2>3. Found["ledger"] = Mismatched
    BY DEF Found
  <2>4. \A i \in Mismatched : i \in Invoices /\ ledger[i]["CHARGE"] > 0 /\ ledger[i]["CHARGE"] # 1
    BY DEF Mismatched, AuditInv, BackedInv, LedgerBacksStatus
  <2>5. \A i \in Mismatched : finalizations[i] > 1
    BY <1>0, <2>4 DEF ChargesCounted
  <2>6. LedgerIssuesAreRight'
    BY <1>0, <2>1, <2>2, <2>3, <2>5 DEF LedgerIssuesAreRight, FinalizedOnce
  <2> QED
    BY <1>0, <2>1, <2>6 DEF ChargesCounted
<1>6. ASSUME NEW a \in Admins, AdminCall(a) PROVE ChargesCounted' /\ LedgerIssuesAreRight'
  BY <1>0, <1>1, <1>6, ServeCharges DEF AdminCall
<1>7. ASSUME NEW a \in Admins,
             \/ \E op \in Operation, i \in Invoices : AdminRequest(a, op, i)
             \/ JobChecks(a) \/ JobCreatesIntent(a) \/ JobRecords(a) \/ JobFails(a)
      PROVE  ChargesCounted' /\ LedgerIssuesAreRight'
  BY <1>2, <1>7 DEF AdminRequest, Request, JobChecks, JobCreatesIntent, JobRecords, JobFails,
                    Fault, vars, payVars
<1>8. ASSUME NEW p \in Payment, NEW type \in EventTypes, Emit(p, type)
      PROVE  ChargesCounted' /\ LedgerIssuesAreRight'
  BY <1>2, <1>8 DEF Emit, vars
<1>9. ASSUME NEW h \in Handlers,
             \/ \E e \in emitted : Receive(h, e)
             \/ Find(h) \/ UpdateSucceeded(h) \/ ReadSubscription(h) \/ HandlerAdvance(h)
             \/ UpdateFailed(h) \/ Schedule(h) \/ SetPastDue(h) \/ HandlerFails(h)
      PROVE  ChargesCounted' /\ LedgerIssuesAreRight'
  BY <1>2, <1>9 DEF Receive, Find, UpdateSucceeded, Request, ReadSubscription, HandlerAdvance,
                    UpdateFailed, Schedule, SetPastDue, HandlerFails, Fault, vars
<1>10. ASSUME NEW h \in Handlers, HandlerCall(h) PROVE ChargesCounted' /\ LedgerIssuesAreRight'
  <2>1. Serve(h) /\ UNCHANGED <<finalizations, issues>>
    BY <1>10 DEF HandlerCall
  <2>2. call[h].op # "finalize"
    BY <1>0, <2>1, OwnCall DEF PayInv, PayTypeOK, CallsHeld
  <2> QED
    BY <1>0, <1>1, <2>1, <2>2, ServeCharges
<1>11. ASSUME NEW c \in Callers, CallerFails(c) PROVE ChargesCounted' /\ LedgerIssuesAreRight'
  <2>1. UNCHANGED issues
    BY <1>11 DEF CallerFails
  <2> QED
    BY <1>0, <1>1, <1>11, <2>1, FailureCharges
<1> QED
  BY <1>3, <1>4, <1>5, <1>6, <1>7, <1>8, <1>9, <1>10, <1>11
  DEF PayNext, CronStep, AdminStep, HandlerStep

\* The audit of the ledger raises no false alarm: an invoice it reports was finalized
\* more than once.
THEOREM LedgerIssuesRight == PaySpec => []LedgerIssuesAreRight
<1>1. AuditInv => LedgerIssuesAreRight
  BY DEF AuditInv
<1> QED
  BY <1>1, AuditInit, AuditStep, PTL DEF PaySpec

-----------------------------------------------------------------------------
(* Successful attempts *)

EventOf(p, type) == [pay |-> p, type |-> type]

\* An attempt that succeeded did so at once, or by a webhook.
SuccessesKnown ==
    \A p \in Payment : attempt[p].status = "SUCCEEDED" =>
        provider[p].outcome = "succeeded" \/ EventOf(p, "succeeded") \in received

\* Once a success has come, the failures of the payment have been dealt with.
FailuresBefore ==
    \A p \in Payment \ disordered : EventOf(p, "succeeded") \in received =>
        \A h \in Handlers : EventOf(p, "failed") \notin Handling(h)

\* An attempt is written once, by one job.
RowsOnce ==
    /\ \A a \in Admins : \A p \in job[a].pay : attempt[p].status = "ABSENT"
    /\ \A a, b \in Admins : a # b => job[a].pay \intersect job[b].pay = {}

\* Only attempts that exist are updated, for the two events that have a handler.
Updates(e) == attempt[e.pay].status # "ABSENT" /\ e.type # "requires_action"

UpdatesKnown ==
    \A h \in Handlers : handler[h].step = "update" => \A e \in Handling(h) : Updates(e)

SettledInv == PayInv /\ SuccessesKnown /\ FailuresBefore /\ RowsOnce /\ UpdatesKnown

\* What SuccessIsFinal says of one step.
StaysSuccessful ==
    \A p \in Payment : attempt[p].status = "SUCCEEDED" /\ p \notin disordered'
        => attempt'[p].status = "SUCCEEDED"

LEMMA SettledInit == PayInit => SettledInv
<1> SUFFICES ASSUME PayInit PROVE SettledInv
  OBVIOUS
<1>1. PayInv
  BY PayInvInit
<1>2. SuccessesKnown /\ FailuresBefore
  BY DEF PayInit, SuccessesKnown, FailuresBefore, NoAttempt
<1>3. RowsOnce /\ UpdatesKnown
  BY DEF PayInit, RowsOnce, UpdatesKnown, NoJob, Idle
<1> QED
  BY <1>1, <1>2, <1>3 DEF SettledInv

\* Steps that write no attempt.
LEMMA SettledFrame ==
  ASSUME SettledInv, UNCHANGED <<attempt, received, disordered>>,
         \A p \in Payment : provider[p] # NoIntent => provider'[p].outcome = provider[p].outcome,
         \A a \in Admins : job'[a].pay \subseteq job[a].pay,
         \A h \in Handlers :
            /\ handler'[h].event \subseteq handler[h].event
            /\ handler'[h].step = "update" =>
                 handler[h].step = "update"
                 \/ \A e \in handler'[h].event : Updates(e)
  PROVE  SuccessesKnown' /\ FailuresBefore' /\ RowsOnce' /\ UpdatesKnown' /\ StaysSuccessful
<1>1. SuccessesKnown'
  BY DEF SettledInv, PayInv, References, SuccessesKnown
<1>2. FailuresBefore'
  BY DEF SettledInv, FailuresBefore, Handling
<1>3. RowsOnce'
  BY DEF SettledInv, RowsOnce
<1>4. UpdatesKnown'
  BY DEF SettledInv, UpdatesKnown, Updates, Handling
<1> QED
  BY <1>1, <1>2, <1>3, <1>4 DEF StaysSuccessful

\* A job writes its attempt.
LEMMA SettledRecord ==
  ASSUME SettledInv, NEW a \in Admins, job[a].step = "record", RecordAttempt(a), EndJob(a),
         UNCHANGED <<provider, received, disordered, handler>>
  PROVE  SuccessesKnown' /\ FailuresBefore' /\ RowsOnce' /\ UpdatesKnown' /\ StaysSuccessful
<1>1. PICK p \in job[a].pay :
        attempt' = [attempt EXCEPT ![p] = [status |-> InitialStatus(provider[p].outcome),
                                           number |-> job[a].count]]
  BY DEF RecordAttempt
<1>2. p \in Payment /\ provider[p] \in Intent \ {NoIntent} /\ attempt[p].status = "ABSENT"
  BY RecordsAtWork DEF SettledInv, PayInv, PayTypeOK, References, RowsOnce
<1>3. /\ attempt'[p].status = InitialStatus(provider[p].outcome)
      /\ \A q \in Payment \ {p} : attempt'[q] = attempt[q]
  BY <1>1, <1>2 DEF SettledInv, PayInv, PayTypeOK
<1>4. /\ attempt'[p].status # "ABSENT"
      /\ attempt'[p].status = "SUCCEEDED" => provider[p].outcome = "succeeded"
  BY <1>2, <1>3 DEF Intent, InitialStatus
<1>5. /\ job'[a].pay = {}
      /\ \A b \in Admins \ {a} : job'[b] = job[b]
      /\ \A b \in Admins : job[b].pay \subseteq Payment
  BY DEF EndJob, NoJob, Job, SettledInv, PayInv, PayTypeOK
<1>6. SuccessesKnown'
  BY <1>3, <1>4 DEF SettledInv, SuccessesKnown
<1>7. FailuresBefore'
  BY DEF SettledInv, FailuresBefore, Handling
<1>8. RowsOnce'
  <2>1. \A b \in Admins \ {a} : p \notin job[b].pay
    BY DEF SettledInv, RowsOnce
  <2> QED
    BY <1>3, <1>5, <2>1 DEF SettledInv, RowsOnce
<1>9. UpdatesKnown'
  <2>1. \A h \in Handlers : \A e \in handler[h].event : e.pay \in Payment
    BY DEF SettledInv, PayInv, PayTypeOK, References, Event
  <2> QED
    BY <1>3, <1>4, <2>1 DEF SettledInv, UpdatesKnown, Updates, Handling
<1>10. StaysSuccessful
  BY <1>2, <1>3 DEF StaysSuccessful
<1> QED
  BY <1>6, <1>7, <1>8, <1>9, <1>10

\* A request writes the outcome its event tells.
LEMMA SettledUpdate ==
  ASSUME SettledInv, NEW h \in Handlers, handler[h].step = "update",
         NEW s \in {"SUCCEEDED", "FAILED"}, SetAttempt(h, s),
         s = IF TypeOf(h) = "failed" THEN "FAILED" ELSE "SUCCEEDED",
         Finish(h) \/ \E step \in {"markPaid", "schedule", "pastDue"} : Proceed(h, step),
         UNCHANGED <<provider, received, disordered, job>>
  PROVE  SuccessesKnown' /\ FailuresBefore' /\ RowsOnce' /\ UpdatesKnown' /\ StaysSuccessful
<1> DEFINE p == PaymentOf(h)
<1>1. /\ p \in Payment /\ EventOf(p, TypeOf(h)) \in received
      /\ EventOf(p, TypeOf(h)) \in Handling(h)
      /\ EventOf(p, TypeOf(h)).pay = p
  BY AtWork DEF SettledInv, EventOf
<1>2. attempt' = [attempt EXCEPT ![p].status = s]
  BY DEF SetAttempt
<1>a. TypeOf(h) \in {"succeeded", "failed"}
  BY <1>1, AtWork DEF SettledInv, UpdatesKnown, Updates, EventOf, EventTypes
<1>3. provider[p].outcome = "requires_action"
  BY <1>1 DEF SettledInv, PayInv, PayTypeOK, References
<1>4. attempt[p].status # "ABSENT"
  BY <1>1 DEF SettledInv, UpdatesKnown, Updates
<1> HIDE DEF p
<1>5. attempt'[p].status = s /\ \A q \in Payment \ {p} : attempt'[q] = attempt[q]
  BY <1>1, <1>2 DEF SettledInv, PayInv, PayTypeOK, Attempt
<1>6. /\ \A g \in Handlers : handler'[g].event \subseteq handler[g].event
      /\ \A g \in Handlers : handler'[g].step = "update" => handler'[g] = handler[g]
  <2>1. handler \in [Handlers -> WebhookRequest]
    BY DEF SettledInv, PayInv, PayTypeOK
  <2>2. CASE Finish(h)
    BY <2>1, <2>2 DEF Finish, Idle
  <2>3. ASSUME NEW step \in {"markPaid", "schedule", "pastDue"}, Proceed(h, step)
        PROVE  <1>6!1 /\ <1>6!2
    BY <2>1, <2>3 DEF Proceed, WebhookRequest, Idle
  <2> QED
    BY <2>2, <2>3
<1>7. SuccessesKnown'
  BY <1>1, <1>5, <1>a DEF SettledInv, SuccessesKnown
<1>8. FailuresBefore'
  BY <1>6 DEF SettledInv, FailuresBefore, Handling
<1>9. RowsOnce'
  <2>1. \A a \in Admins : job[a].pay \subseteq Payment
    BY DEF SettledInv, PayInv, PayTypeOK, Job, NoJob
  <2> QED
    BY <1>4, <1>5, <2>1 DEF SettledInv, RowsOnce
<1>10. UpdatesKnown'
  <2>1. \A g \in Handlers : \A e \in handler[g].event : e.pay \in Payment
    BY DEF SettledInv, PayInv, PayTypeOK, References, Event
  <2> QED
    BY <1>5, <1>6, <2>1 DEF SettledInv, UpdatesKnown, Updates, Handling
<1>11. StaysSuccessful
  <2>1. s = "FAILED" /\ attempt[p].status = "SUCCEEDED" => p \in disordered
    BY <1>1, <1>3, <1>a DEF SettledInv, SuccessesKnown, FailuresBefore
  <2> QED
    BY <1>5, <2>1 DEF StaysSuccessful
<1> QED
  BY <1>7, <1>8, <1>9, <1>10, <1>11

LEMMA SettledStep == SettledInv /\ [PayNext]_allVars => SettledInv' /\ StaysSuccessful
<1> DEFINE Goal == SuccessesKnown' /\ FailuresBefore' /\ RowsOnce' /\ UpdatesKnown'
                   /\ StaysSuccessful
<1> SUFFICES ASSUME SettledInv, [PayNext]_allVars PROVE Goal
  BY PayInvStep DEF SettledInv
<1>0. /\ PayInv
      /\ job \in [Admins -> Job] /\ handler \in [Handlers -> WebhookRequest]
      /\ provider \in [Payment -> Intent]
  BY DEF SettledInv, PayInv, PayTypeOK
<1> HIDE DEF Goal
<1>1. ASSUME UNCHANGED <<attempt, provider, received, disordered, job, handler>> PROVE Goal
  BY <1>1, SettledFrame DEF Goal
<1>2. CASE UNCHANGED allVars
  BY <1>1, <1>2 DEF allVars, payVars
<1>3. CASE CronStep \/ CronFails \/ ManualRead \/ ManualGenerate
  BY <1>1, <1>3
  DEF CronStep, CronFind, CronFilter, CronGenerate, CronFinalize, CronCall, CronAdvance,
      CronFails, ManualRead, ManualGenerate
<1>4. ASSUME NEW kind \in AuditKinds, Audit(kind) \/ AuditFails(kind) PROVE Goal
  BY <1>1, <1>4 DEF Audit, AuditFails
<1>5. ASSUME NEW a \in Admins, NEW op \in Operation, NEW i \in Invoices, AdminRequest(a, op, i)
      PROVE  Goal
  BY <1>1, <1>5 DEF AdminRequest, payVars
<1>6. ASSUME NEW a \in Admins, AdminCall(a) \/ JobChecks(a) PROVE Goal
  <2>1. UNCHANGED <<attempt, provider, received, disordered, handler>>
    BY <1>6 DEF AdminCall, JobChecks
  <2>2. \A b \in Admins : job'[b].pay \subseteq job[b].pay
    <3>1. CASE AdminCall(a)
      BY <1>0, <3>1 DEF AdminCall, NoJob
    <3>2. CASE EndJob(a) \/ Goto(a, "success") \/ Goto(a, "count")
      BY <1>0, <3>2 DEF Goto, EndJob, Job, NoJob
    <3>3. CASE job' = [job EXCEPT ![a].step = "provider",
                                  ![a].count = Cardinality(AttemptsOf(job[a].inv))]
      BY <1>0, <3>3 DEF Job, NoJob
    <3> QED
      BY <1>6, <3>1, <3>2, <3>3 DEF JobChecks
  <2> QED
    BY <2>1, <2>2, SettledFrame DEF Goal
<1>7. ASSUME NEW a \in Admins, JobCreatesIntent(a) PROVE Goal
  <2>1. PICK p \in Payment :
          /\ NewIntent(p, job[a].inv)
          /\ job' = [job EXCEPT ![a].step = "record", ![a].pay = {p}]
    BY <1>7 DEF JobCreatesIntent
  <2>2. /\ provider[p] = NoIntent
        /\ \A q \in Payment : provider[q] # NoIntent => provider'[q] = provider[q]
    BY <1>0, <1>7, <2>1, RecordsAtWork, IntentCreated DEF JobCreatesIntent, NewIntent
  <2>3. /\ attempt[p].status = "ABSENT"
        /\ \A b \in Admins : p \notin job[b].pay
    BY <1>0, <2>2 DEF PayInv, References
  <2>4. /\ job'[a].pay = {p}
        /\ \A b \in Admins \ {a} : job'[b] = job[b]
    <3>1. job[a] \in Job \ {NoJob}
      BY <1>0, <1>7 DEF JobCreatesIntent, NoJob
    <3>2. [job[a] EXCEPT !.step = "record", !.pay = {p}].pay = {p}
      BY <3>1 DEF Job
    <3> QED
      BY <1>0, <2>1, <3>2
  <2>5. UNCHANGED <<attempt, received, disordered, handler>>
    BY <1>7 DEF JobCreatesIntent
  <2>6. RowsOnce'
    BY <2>3, <2>4, <2>5 DEF SettledInv, RowsOnce
  <2>7. SuccessesKnown'
    BY <1>0, <2>2, <2>5 DEF SettledInv, SuccessesKnown, PayInv, References
  <2>8. FailuresBefore' /\ UpdatesKnown'
    BY <2>5 DEF SettledInv, FailuresBefore, UpdatesKnown, Updates, Handling
  <2> QED
    BY <2>5, <2>6, <2>7, <2>8 DEF Goal, StaysSuccessful
<1>8. ASSUME NEW a \in Admins, JobRecords(a) PROVE Goal
  BY <1>8, SettledRecord DEF JobRecords, Goal
<1>9. ASSUME NEW a \in Admins, JobFails(a) PROVE Goal
  <2>1. CASE job[a].step = "record" /\ RecordAttempt(a) /\ UNCHANGED provider
    BY <1>9, <2>1, SettledRecord DEF JobFails, Goal
  <2>2. CASE UNCHANGED attempt /\ \A q \in Payment : provider[q] # NoIntent =>
                                                       provider'[q] = provider[q]
    <3>1. UNCHANGED <<received, disordered, handler>>
      BY <1>9 DEF JobFails
    <3>2. \A b \in Admins : job'[b].pay \subseteq job[b].pay
      BY <1>0, <1>9 DEF JobFails, EndJob, NoJob
    <3> QED
      BY <2>2, <3>1, <3>2, SettledFrame DEF Goal
  <2>3. job[a].inv \in Invoices
    BY <1>0, <1>9, RecordsAtWork DEF JobFails, Job, NoJob
  <2> QED
    BY <1>0, <1>9, <2>1, <2>2, <2>3, IntentCreated DEF JobFails
<1>10. ASSUME NEW p \in Payment, NEW type \in EventTypes, Emit(p, type) PROVE Goal
  <2>1. UNCHANGED <<attempt, received, disordered, job, handler>>
    BY <1>10 DEF Emit
  <2>2. provider' = [provider EXCEPT ![p].paid = (type = "succeeded")]
    BY <1>10 DEF Emit
  <2>3. provider[p] \in Intent \ {NoIntent}
    BY <1>0, <1>10 DEF Emit, NoIntent
  <2>4. \A q \in Payment : provider'[q].outcome = provider[q].outcome
    BY <1>0, <2>2, <2>3 DEF Intent
  <2> QED
    BY <2>1, <2>4, SettledFrame DEF Goal
<1>11. ASSUME NEW h \in Handlers, NEW e \in emitted, Receive(h, e) PROVE Goal
  <2>1. /\ UNCHANGED <<attempt, provider, job>>
        /\ received' = received \union {e}
        /\ handler' = [handler EXCEPT ![h] = [step |-> "find", event |-> {e}, period |-> 0]]
        /\ disordered' = IF Disorders(e) THEN disordered \union {e.pay} ELSE disordered
        /\ handler[h] = Idle /\ e \notin received
    BY <1>11 DEF Receive, Fresh
  <2>2. /\ handler'[h].event = {e} /\ handler'[h].step = "find"
        /\ \A g \in Handlers \ {h} : handler'[g] = handler[g]
    BY <1>0, <2>1
  <2>3. e \in Event /\ e.pay \in Payment
    BY <1>0 DEF PayInv, PayTypeOK, Event
  <2>4. SuccessesKnown' /\ RowsOnce'
    BY <2>1 DEF SettledInv, SuccessesKnown, RowsOnce
  <2>5. UpdatesKnown'
    BY <2>1, <2>2 DEF SettledInv, UpdatesKnown, Updates, Handling
  <2>6. FailuresBefore'
    <3> SUFFICES ASSUME NEW p \in Payment, p \notin disordered',
                        EventOf(p, "succeeded") \in received',
                        NEW g \in Handlers, EventOf(p, "failed") \in Handling(g)'
                 PROVE  FALSE
      BY DEF FailuresBefore
    <3>1. p \notin disordered
      BY <2>1
    <3>2. CASE e = EventOf(p, "succeeded")
      <4>1. [e EXCEPT !.type = "failed"] = EventOf(p, "failed") /\ [e EXCEPT !.type = "succeeded"] = e
        BY <3>2 DEF EventOf
      <4>2. g # h /\ EventOf(p, "failed") \in Handling(g)
        BY <2>2, <3>2 DEF Handling, EventOf
      <4>3. Disorders(e)
        BY <4>1, <4>2 DEF Disorders
      <4> QED
        BY <2>1, <3>2, <4>3 DEF EventOf
    <3>3. CASE e # EventOf(p, "succeeded")
      <4>1. EventOf(p, "succeeded") \in received
        BY <2>1, <3>3
      <4>2. g = h /\ e = EventOf(p, "failed")
        BY <2>2, <3>1, <4>1 DEF SettledInv, FailuresBefore, Handling
      <4>3. [e EXCEPT !.type = "failed"] = e /\ [e EXCEPT !.type = "succeeded"] = EventOf(p, "succeeded")
        BY <4>2 DEF EventOf
      <4>4. Disorders(e)
        BY <2>1, <4>1, <4>3 DEF Disorders
      <4> QED
        BY <2>1, <4>2, <4>4 DEF EventOf
    <3> QED
      BY <3>2, <3>3
  <2> QED
    BY <2>1, <2>4, <2>5, <2>6 DEF Goal, StaysSuccessful
<1>12. ASSUME NEW h \in Handlers, Find(h) PROVE Goal
  <2>1. UNCHANGED <<attempt, provider, received, disordered, job>> /\ handler[h].step = "find"
    BY <1>12 DEF Find
  <2>2. \A g \in Handlers \ {h} : handler'[g] = handler[g]
    BY <1>0, <1>12 DEF Find, Proceed, Finish
  <2>3. handler'[h].event \subseteq handler[h].event
    BY <1>0, <1>12, RequestMoves DEF Find
  <2>4. handler'[h].step = "update" =>
          attempt[PaymentOf(h)].status # "ABSENT" /\ TypeOf(h) # "requires_action"
    BY <1>0, <1>12 DEF Find, Finish, Idle
  <2>5. handler[h].event = {[pay |-> PaymentOf(h), type |-> TypeOf(h)]}
    BY <1>0, <2>1, AtWork DEF Handling
  <2> QED
    BY <2>1, <2>2, <2>3, <2>4, <2>5, SettledFrame DEF Goal, Updates
<1>13. ASSUME NEW h \in Handlers, UpdateSucceeded(h) PROVE Goal
  <2>1. /\ handler[h].step = "update" /\ TypeOf(h) = "succeeded"
        /\ SetAttempt(h, "SUCCEEDED") /\ Proceed(h, "markPaid")
        /\ UNCHANGED <<provider, received, disordered, job>>
    BY <1>13 DEF UpdateSucceeded
  <2> QED
    BY <2>1, SettledUpdate DEF Goal
<1>14. ASSUME NEW h \in Handlers, UpdateFailed(h) PROVE Goal
  <2>1. /\ handler[h].step = "update" /\ TypeOf(h) = "failed"
        /\ SetAttempt(h, "FAILED")
        /\ Proceed(h, "schedule") \/ Proceed(h, "pastDue")
        /\ UNCHANGED <<provider, received, disordered, job>>
    BY <1>14 DEF UpdateFailed
  <2> QED
    BY <2>1, SettledUpdate DEF Goal
<1>15. ASSUME NEW h \in Handlers,
              HandlerCall(h) \/ ReadSubscription(h) \/ HandlerAdvance(h) \/ Schedule(h)
              \/ SetPastDue(h) \/ (HandlerFails(h) /\ UNCHANGED attempt)
       PROVE  Goal
  <2>1. UNCHANGED <<attempt, provider, received, disordered, job>>
    BY <1>15 DEF HandlerCall, ReadSubscription, HandlerAdvance, Schedule, SetPastDue, HandlerFails
  <2>2. \A g \in Handlers : handler'[g].event \subseteq handler[g].event
                            /\ (handler'[g].step = "update" => handler[g].step = "update")
    BY <1>0, <1>15 DEF HandlerCall, ReadSubscription, HandlerAdvance, Schedule, SetPastDue,
                      HandlerFails, Finish, Idle, WebhookRequest
  <2> QED
    BY <2>1, <2>2, SettledFrame DEF Goal
<1>16. ASSUME NEW h \in Handlers, HandlerFails(h), attempt' # attempt PROVE Goal
  <2>1. /\ handler[h].step = "update" /\ Finish(h)
        /\ SetAttempt(h, IF TypeOf(h) = "failed" THEN "FAILED" ELSE "SUCCEEDED")
        /\ UNCHANGED <<provider, received, disordered, job>>
    BY <1>16 DEF HandlerFails
  <2> QED
    BY <2>1, SettledUpdate DEF Goal
<1>17. ASSUME NEW c \in Callers, CallerFails(c) PROVE Goal
  <2>1. UNCHANGED <<attempt, provider, received, disordered, job>>
    BY <1>17 DEF CallerFails
  <2>2. \A g \in Handlers : handler'[g].event \subseteq handler[g].event
                            /\ (handler'[g].step = "update" => handler[g].step = "update")
    BY <1>0, <1>17 DEF CallerFails, Idle
  <2> QED
    BY <2>1, <2>2, SettledFrame DEF Goal
<1> QED
  BY <1>2, <1>3, <1>4, <1>5, <1>6, <1>7, <1>8, <1>9, <1>10, <1>11, <1>12, <1>13, <1>14,
     <1>15, <1>16, <1>17
  DEF PayNext, AdminStep, HandlerStep

\* A successful attempt stays successful, whatever else is redelivered, reordered or
\* fails, unless a failure and a success of its payment were out of order.
THEOREM SuccessesFinal == PaySpec => SuccessIsFinal
<1>1. SettledInv /\ [PayNext]_allVars => [StaysSuccessful]_allVars
  BY SettledStep
<1>2. PaySpec => [][StaysSuccessful]_allVars
  BY <1>1, SettledInit, SettledStep, PTL DEF PaySpec
<1> QED
  BY <1>2 DEF SuccessIsFinal, StaysSuccessful

-----------------------------------------------------------------------------
(* Payments and periods *)

\* An event is one request's, only successes go beyond the attempt, and the provider
\* has taken the money of each.
Requests ==
    /\ \A g, h \in Handlers : g # h => Handling(g) \intersect Handling(h) = {}
    /\ \A h \in Handlers : handler[h].step \in {"markPaid", "subscription", "advance"} =>
         \A e \in Handling(h) : e.type = "succeeded"
    /\ \A p \in Payment : EventOf(p, "succeeded") \in emitted => provider[p].paid

\* Whose call is for what.
Calls ==
    /\ \A c \in Callers : call[c] # NoCall => status[call[c].inv] # "ABSENT"
    /\ call[Cron] # NoCall => call[Cron].op = "finalize" /\ call[Cron].inv = cron.inv
    /\ \A a \in Admins : call[a] # NoCall => call[a].op \in deployment.ops
    /\ \A h \in Handlers : call[h] # NoCall =>
         \A e \in Handling(h) : provider[e.pay].inv = call[h].inv

\* Payments of an invoice whose success has been through markPaid.
Entered(i) ==
    {p \in Payment :
        /\ provider[p].inv = i
        /\ EventOf(p, "succeeded") \in received
        /\ \A h \in Handlers : EventOf(p, "succeeded") \in Handling(h) =>
             handler[h].step \notin {"find", "update", "markPaid"}}

EntriesCovered ==
    "markPaid" \notin deployment.ops =>
        \A i \in Invoices : ledger[i]["PAYMENT"] <= Cardinality(Entered(i))

FinalizedKnown ==
    \A i \in Invoices : finalizations[i] >= 1 => status[i] \in {"FINALIZED", "PAID", "VOID"}

CoveredInv == AuditInv /\ Requests /\ Calls /\ EntriesCovered /\ FinalizedKnown

LEMMA CoveredInit == PayInit => CoveredInv
<1> SUFFICES ASSUME PayInit PROVE CoveredInv
  OBVIOUS
<1>1. AuditInv
  BY AuditInit
<1>2. Requests
  BY DEF PayInit, Requests, Handling, Idle
<1>3. Calls
  BY PaymentsAssumption DEF PayInit, Init, Calls
<1>4. EntriesCovered
  <2>1. \A i \in Invoices : ledger[i]["PAYMENT"] = 0
    BY DEF PayInit, Init, EntryType
  <2>2. \A i \in Invoices : Cardinality(Entered(i)) \in Nat
    BY PaymentsAssumption, FS_Subset, FS_CardinalityType DEF Entered
  <2> QED
    BY <2>1, <2>2 DEF EntriesCovered
<1>5. FinalizedKnown
  BY DEF PayInit, FinalizedKnown
<1> QED
  BY <1>1, <1>2, <1>3, <1>4, <1>5 DEF CoveredInv

\* What a transaction does to the status and the entries of an invoice.
LEMMA WriteEffects ==
  ASSUME TypeOK, NEW k \in Checked, Write(k)
  PROVE  \A i \in Invoices :
           /\ \/ status'[i] = status[i] /\ ledger'[i]["CHARGE"] = ledger[i]["CHARGE"]
              \/ /\ i = k.inv /\ status'[i] \in {"FINALIZED", "PAID", "VOID"}
           /\ ledger'[i]["PAYMENT"] =
                ledger[i]["PAYMENT"] + (IF k.op = "markPaid" /\ i = k.inv THEN 1 ELSE 0)
<1> USE DEF TypeOK, Checked, EntryType, Post
<1>1. CASE k.op = "finalize" /\ WriteFinalized(k.inv, k.num)
  BY <1>1 DEF WriteFinalized
<1>2. CASE k.op = "markPaid" /\ WritePaid(k.inv)
  BY <1>2 DEF WritePaid
<1>3. CASE k.op = "void" /\ WriteVoid(k.inv, k.seen)
  BY <1>3 DEF WriteVoid
<1> QED
  BY <1>1, <1>2, <1>3 DEF Write

\* A step of a call: nothing, or the transaction and the end of the call.
LEMMA CallEffects ==
  ASSUME TypeOK, NEW c \in Callers, Serve(c) \/ CallFails(c)
  PROVE  /\ call[c] # NoCall /\ call[c].inv \in Invoices
         /\ \A d \in Callers \ {c} : call'[d] = call[d]
         /\ call'[c] # NoCall => call'[c].op = call[c].op /\ call'[c].inv = call[c].inv
         /\ \A i \in Invoices :
              /\ \/ status'[i] = status[i] /\ ledger'[i]["CHARGE"] = ledger[i]["CHARGE"]
                 \/ i = call[c].inv /\ status'[i] \in {"FINALIZED", "PAID", "VOID"}
              /\ \/ ledger'[i]["PAYMENT"] = ledger[i]["PAYMENT"]
                 \/ /\ i = call[c].inv /\ call[c].op = "markPaid" /\ call'[c] = NoCall
                    /\ ledger'[i]["PAYMENT"] = ledger[i]["PAYMENT"] + 1
<1>1. /\ call[c] # NoCall /\ call[c].inv \in Invoices
      /\ \A d \in Callers \ {c} : call'[d] = call[d]
  BY OwnCall DEF TypeOK, NoCall, Reading, Checked, Serve, Check, GenerateNumber, Commit, CallFails
<1>2. call'[c] # NoCall => call'[c].op = call[c].op /\ call'[c].inv = call[c].inv
  <2>1. CASE Check(c)
    BY <2>1 DEF TypeOK, Check
  <2>2. CASE GenerateNumber(c)
    BY <2>2 DEF TypeOK, GenerateNumber, NoCall, Reading, Checked
  <2>3. CASE Commit(c) \/ CallFails(c)
    BY <2>3 DEF TypeOK, Commit, CallFails
  <2> QED
    BY <2>1, <2>2, <2>3 DEF Serve
<1>3. CASE call[c].step = "commit" /\ Write(call[c]) /\ call'[c] = NoCall
  <2>1. call[c] \in Checked
    BY <1>3, CommittedCall
  <2> QED
    BY <1>1, <1>2, <1>3, <2>1, WriteEffects DEF TypeOK, EntryType
<1>4. CASE UNCHANGED <<status, ledger>>
  BY <1>1, <1>2, <1>4
<1>5. \/ UNCHANGED <<status, ledger>>
      \/ call[c].step = "commit" /\ Write(call[c]) /\ call'[c] = NoCall
  BY DEF TypeOK, Serve, Check, GenerateNumber, Commit, CallFails
<1> QED
  BY <1>3, <1>4, <1>5

\* The moves of a request: it takes an event nobody has had, drops it, or goes on.
Takes(h, e) ==
    /\ handler[h].event = {} /\ e \in emitted \ received
    /\ received' = received \union {e}
    /\ handler'[h].event = {e} /\ handler'[h].step = "find"

Drops(h) == received' = received /\ handler'[h].event = {} /\ handler'[h].step = "idle"

Onward ==
    {<<"find", "update">>, <<"update", "markPaid">>, <<"update", "schedule">>,
     <<"update", "pastDue">>, <<"markPaid", "subscription">>, <<"subscription", "advance">>}

GoesOn(h) ==
    /\ received' = received
    /\ handler'[h].event = handler[h].event
    /\ <<handler[h].step, handler'[h].step>> \in Onward
    /\ handler'[h].step = "markPaid" => \A e \in Handling(h) : e.type = "succeeded"
    /\ handler'[h].step = "advance" => handler'[h].period = period

OthersRest(h) == \A g \in Handlers \ {h} : handler'[g] = handler[g]

RequestMove ==
    \/ UNCHANGED <<handler, received>>
    \/ \E h \in Handlers : OthersRest(h) /\ ((\E e \in Event : Takes(h, e)) \/ Drops(h) \/ GoesOn(h))

\* Intents stay what they are for, and charged.
IntentMove ==
    /\ \A p \in Payment : provider[p] # NoIntent =>
         /\ provider'[p] # NoIntent /\ provider'[p].inv = provider[p].inv
         /\ provider[p].paid => provider'[p].paid
    /\ \A p \in Payment : EventOf(p, "succeeded") \in emitted' =>
         EventOf(p, "succeeded") \in emitted \/ provider'[p].paid

LEMMA RequestMoved ==
  ASSUME PayInv, NEW h \in Handlers, UNCHANGED received,
         \/ Finish(h)
         \/ \E step \in {"update", "markPaid", "schedule", "pastDue", "subscription"} :
              /\ handler[h].step # "idle"
              /\ Proceed(h, step) /\ <<handler[h].step, step>> \in Onward
              /\ step = "markPaid" => \A e \in Handling(h) : e.type = "succeeded"
  PROVE  OthersRest(h) /\ (Drops(h) \/ GoesOn(h))
<1>1. handler \in [Handlers -> WebhookRequest]
  BY DEF PayInv, PayTypeOK
<1>2. CASE Finish(h)
  BY <1>1, <1>2 DEF Finish, Idle, Drops, OthersRest
<1>3. ASSUME NEW step \in {"update", "markPaid", "schedule", "pastDue", "subscription"},
             handler[h].step # "idle", Proceed(h, step), <<handler[h].step, step>> \in Onward,
             step = "markPaid" => \A e \in Handling(h) : e.type = "succeeded"
      PROVE  OthersRest(h) /\ GoesOn(h)
  <2>1. handler[h] \in WebhookRequest \ {Idle}
    BY <1>1, <1>3 DEF Idle
  <2>2. OthersRest(h) /\ handler'[h] = [handler[h] EXCEPT !.step = step]
    BY <1>1, <1>3 DEF Proceed, OthersRest
  <2>3. handler'[h].step = step /\ handler'[h].event = handler[h].event
    BY <2>1, <2>2 DEF WebhookRequest
  <2> QED
    BY <1>3, <2>2, <2>3 DEF GoesOn
<1> QED
  BY <1>2, <1>3

LEMMA HandlingSuccess ==
  ASSUME PayInv, NEW h \in Handlers, handler[h].step # "idle", TypeOf(h) = "succeeded"
  PROVE  \A e \in Handling(h) : e.type = "succeeded" /\ e = EventOf(PaymentOf(h), "succeeded")
<1>1. Handling(h) = {[pay |-> PaymentOf(h), type |-> TypeOf(h)]}
  BY AtWork
<1>2. Handling(h) = {EventOf(PaymentOf(h), "succeeded")}
  BY <1>1 DEF EventOf
<1> QED
  BY <1>2 DEF EventOf

LEMMA RequestsMove == PayInv /\ [PayNext]_allVars => RequestMove
<1> SUFFICES ASSUME PayInv, [PayNext]_allVars PROVE RequestMove
  OBVIOUS
<1>0. handler \in [Handlers -> WebhookRequest] /\ received \subseteq emitted /\ emitted \subseteq Event
  BY DEF PayInv, PayTypeOK
<1>1. ASSUME UNCHANGED <<handler, received>> PROVE RequestMove
  BY <1>1 DEF RequestMove
<1>2. ASSUME NEW h \in Handlers, OthersRest(h) /\ (Drops(h) \/ GoesOn(h)) PROVE RequestMove
  BY <1>2 DEF RequestMove
<1>3. CASE UNCHANGED allVars \/ CronStep \/ CronFails \/ ManualRead \/ ManualGenerate
  BY <1>1, <1>3
  DEF allVars, payVars, CronStep, CronFind, CronFilter, CronGenerate, CronFinalize, CronCall,
      CronAdvance, CronFails, ManualRead, ManualGenerate
<1>4. ASSUME NEW kind \in AuditKinds, Audit(kind) \/ AuditFails(kind) PROVE RequestMove
  BY <1>1, <1>4 DEF Audit, AuditFails
<1>5. ASSUME NEW a \in Admins,
             \/ \E op \in Operation, i \in Invoices : AdminRequest(a, op, i)
             \/ AdminStep(a) \/ JobFails(a)
      PROVE  RequestMove
  BY <1>1, <1>5 DEF AdminRequest, AdminStep, AdminCall, JobChecks, JobCreatesIntent, JobRecords,
     JobFails, payVars
<1>6. ASSUME NEW p \in Payment, NEW type \in EventTypes, Emit(p, type) PROVE RequestMove
  BY <1>1, <1>6 DEF Emit
<1>7. ASSUME NEW h \in Handlers, NEW e \in emitted, Receive(h, e) PROVE RequestMove
  <2>1. OthersRest(h) /\ Takes(h, e) /\ e \in Event
    BY <1>0, <1>7 DEF Receive, Fresh, Idle, OthersRest, Takes
  <2> QED
    BY <2>1 DEF RequestMove
<1>8. ASSUME NEW h \in Handlers, Find(h) PROVE RequestMove
  BY <1>2, <1>8, RequestMoved DEF Find, Onward
<1>9. ASSUME NEW h \in Handlers, UpdateSucceeded(h) PROVE RequestMove
  BY <1>2, <1>9, RequestMoved, HandlingSuccess DEF UpdateSucceeded, Onward
<1>10. ASSUME NEW h \in Handlers, HandlerCall(h) PROVE RequestMove
  <2>1. handler[h].step = "markPaid" /\ received' = received
    BY <1>10, OwnCall, PaymentsAssumption DEF HandlerCall, PayInv, PayTypeOK, CallsHeld
  <2>2. UNCHANGED handler \/ Proceed(h, "subscription") \/ Finish(h)
    BY <1>10 DEF HandlerCall, Proceed, Finish
  <2> QED
    BY <1>1, <1>2, <2>1, <2>2, RequestMoved DEF Onward
<1>11. ASSUME NEW h \in Handlers, ReadSubscription(h) PROVE RequestMove
  <2>1. handler[h] \in WebhookRequest \ {Idle} /\ handler[h].step = "subscription"
    BY <1>0, <1>11 DEF ReadSubscription, Idle
  <2>2. /\ handler'[h] = [handler[h] EXCEPT !.step = "advance", !.period = period]
        /\ OthersRest(h) /\ received' = received
    BY <1>0, <1>11 DEF ReadSubscription, OthersRest
  <2>3. /\ handler'[h].step = "advance" /\ handler'[h].event = handler[h].event
        /\ handler'[h].period = period
    BY <2>1, <2>2 DEF WebhookRequest
  <2> QED
    BY <1>2, <2>1, <2>2, <2>3 DEF GoesOn, Onward
<1>12. ASSUME NEW h \in Handlers, UpdateFailed(h) PROVE RequestMove
  BY <1>2, <1>12, RequestMoved DEF UpdateFailed, Onward
<1>13. ASSUME NEW h \in Handlers,
              HandlerAdvance(h) \/ Schedule(h) \/ SetPastDue(h) \/ HandlerFails(h)
       PROVE  RequestMove
  BY <1>2, <1>13, RequestMoved DEF HandlerAdvance, Schedule, SetPastDue, HandlerFails
<1>14. ASSUME NEW c \in Callers, CallerFails(c) PROVE RequestMove
  <2>1. received' = received
    BY <1>14 DEF CallerFails
  <2>2. UNCHANGED handler \/ (c \in Handlers /\ Finish(c))
    BY <1>14 DEF CallerFails, Finish
  <2> QED
    BY <1>1, <1>2, <2>1, <2>2, RequestMoved
<1> QED
  BY <1>3, <1>4, <1>5, <1>6, <1>7, <1>8, <1>9, <1>10, <1>11, <1>12, <1>13, <1>14
  DEF PayNext, AdminStep, HandlerStep

LEMMA IntentsMove ==
  PayInv /\ [PayNext]_allVars => IntentMove /\ deployment' = deployment
<1> SUFFICES ASSUME PayInv, [PayNext]_allVars PROVE IntentMove /\ deployment' = deployment
  OBVIOUS
<1>0. provider \in [Payment -> Intent]
  BY DEF PayInv, PayTypeOK
<1>1. ASSUME UNCHANGED <<provider, emitted, deployment>> PROVE IntentMove /\ deployment' = deployment
  BY <1>1 DEF IntentMove
<1>2. ASSUME NEW p \in Payment, NEW i \in Invoices, NewIntent(p, i),
             UNCHANGED <<emitted, deployment>>
      PROVE  IntentMove /\ deployment' = deployment
  BY <1>2, IntentCreated DEF IntentMove
<1>3. CASE UNCHANGED allVars \/ CronStep \/ CronFails \/ ManualRead \/ ManualGenerate
  BY <1>1, <1>3
  DEF allVars, payVars, CronStep, CronFind, CronFilter, CronGenerate, CronFinalize, CronCall,
      CronAdvance, CronFails, ManualRead, ManualGenerate
<1>4. ASSUME NEW kind \in AuditKinds, Audit(kind) \/ AuditFails(kind)
      PROVE  IntentMove /\ deployment' = deployment
  BY <1>1, <1>4 DEF Audit, AuditFails
<1>5. ASSUME NEW a \in Admins,
             \/ \E op \in Operation, i \in Invoices : AdminRequest(a, op, i)
             \/ AdminCall(a) \/ JobChecks(a) \/ JobRecords(a)
      PROVE  IntentMove /\ deployment' = deployment
  BY <1>1, <1>5 DEF AdminRequest, AdminCall, JobChecks, JobRecords, payVars
<1>6. ASSUME NEW a \in Admins, JobCreatesIntent(a) \/ JobFails(a)
      PROVE  IntentMove /\ deployment' = deployment
  <2>1. UNCHANGED <<emitted, deployment>>
    BY <1>6 DEF JobCreatesIntent, JobFails
  <2>2. job[a].inv \in Invoices
    BY <1>6, RecordsAtWork DEF JobCreatesIntent, JobFails, PayInv, PayTypeOK, Job, NoJob
  <2>3. UNCHANGED provider \/ \E p \in Payment : NewIntent(p, job[a].inv)
    BY <1>6 DEF JobCreatesIntent, JobFails
  <2> QED
    BY <1>1, <1>2, <2>1, <2>2, <2>3
<1>7. ASSUME NEW p \in Payment, NEW type \in EventTypes, Emit(p, type)
      PROVE  IntentMove /\ deployment' = deployment
  <2>1. /\ emitted' = emitted \union {[pay |-> p, type |-> type]}
        /\ provider' = [provider EXCEPT ![p].paid = (type = "succeeded")]
        /\ provider[p].outcome = "requires_action" /\ ~provider[p].paid /\ deployment' = deployment
    BY <1>7 DEF Emit
  <2>2. provider[p] \in Intent \ {NoIntent}
    BY <1>0, <2>1 DEF NoIntent
  <2>3. /\ provider'[p].inv = provider[p].inv /\ provider'[p].outcome = "requires_action"
        /\ provider'[p].paid <=> (type = "succeeded")
    BY <1>0, <2>1, <2>2 DEF Intent
  <2>4. \A q \in Payment \ {p} : provider'[q] = provider[q]
    BY <1>0, <2>1
  <2>5. \A q \in Payment : EventOf(q, "succeeded") \in emitted' =>
          EventOf(q, "succeeded") \in emitted \/ (q = p /\ type = "succeeded")
    BY <2>1 DEF EventOf
  <2> QED
    BY <2>1, <2>3, <2>4, <2>5 DEF IntentMove, NoIntent
<1>8. ASSUME NEW h \in Handlers, (\E e \in emitted : Receive(h, e)) \/ HandlerStep(h) \/ HandlerFails(h)
      PROVE  IntentMove /\ deployment' = deployment
  BY <1>1, <1>8 DEF HandlerStep, Receive, Find, UpdateSucceeded, HandlerCall, ReadSubscription,
     HandlerAdvance, UpdateFailed, Schedule, SetPastDue, HandlerFails
<1>9. ASSUME NEW c \in Callers, CallerFails(c) PROVE IntentMove /\ deployment' = deployment
  BY <1>1, <1>9 DEF CallerFails
<1> QED
  BY <1>3, <1>4, <1>5, <1>6, <1>7, <1>8, <1>9 DEF PayNext, AdminStep

LEMMA RequestsStep ==
  ASSUME PayInv, Requests, RequestMove, IntentMove PROVE Requests'
<1>1. ASSUME NEW p \in Payment, EventOf(p, "succeeded") \in emitted' PROVE provider'[p].paid
  <2>1. CASE EventOf(p, "succeeded") \in emitted
    <3>1. provider[p].paid /\ provider[p] # NoIntent
      BY <2>1 DEF Requests, NoIntent
    <3> QED
      BY <3>1 DEF IntentMove
  <2> QED
    BY <1>1, <2>1 DEF IntentMove
<1>2. CASE UNCHANGED <<handler, received>>
  BY <1>1, <1>2 DEF Requests, Handling
<1>3. ASSUME NEW h \in Handlers, OthersRest(h), (\E e \in Event : Takes(h, e)) \/ Drops(h) \/ GoesOn(h)
      PROVE  Requests'
  <2>1. \A g \in Handlers : handler[g].event \subseteq received
    BY DEF PayInv, References
  <2>2. \A g \in Handlers : g # h => handler'[g].event \intersect handler'[h].event = {}
    BY <1>3, <2>1 DEF OthersRest, Takes, Drops, GoesOn, Requests, Handling
  <2>3. \A f, g \in Handlers : f # g => handler'[f].event \intersect handler'[g].event = {}
    BY <1>3, <2>2 DEF OthersRest, Requests, Handling
  <2>4. \A g \in Handlers : handler'[g].step \in {"markPaid", "subscription", "advance"} =>
          \A e \in handler'[g].event : e.type = "succeeded"
    BY <1>3 DEF OthersRest, Takes, Drops, GoesOn, Onward, Requests, Handling
  <2> QED
    BY <1>1, <2>3, <2>4 DEF Requests, Handling
<1> QED
  BY <1>2, <1>3 DEF RequestMove

\* What has been through markPaid stays so, and adds up.
LEMMA EnteredKept ==
  ASSUME PayInv, Requests, RequestMove, IntentMove, NEW i \in Invoices
  PROVE  /\ Entered(i) \subseteq Entered(i)'
         /\ Cardinality(Entered(i)) \in Nat /\ Cardinality(Entered(i)') \in Nat
         /\ Cardinality(Entered(i)) <= Cardinality(Entered(i)')
<1>1. /\ \A g \in Handlers : handler[g].event \subseteq received
      /\ None \notin Invoices
  BY PaymentsAssumption DEF PayInv, References
<1>2. ASSUME NEW p \in Entered(i) PROVE p \in Entered(i)'
  <2>1. /\ p \in Payment /\ provider[p].inv = i /\ EventOf(p, "succeeded") \in received
        /\ \A g \in Handlers : EventOf(p, "succeeded") \in Handling(g) =>
             handler[g].step \notin {"find", "update", "markPaid"}
    BY DEF Entered
  <2>2. provider'[p].inv = i
    BY <1>1, <2>1 DEF IntentMove, NoIntent
  <2>3. EventOf(p, "succeeded") \in received'
    BY <2>1 DEF RequestMove, Takes, Drops, GoesOn
  <2>4. ASSUME NEW g \in Handlers, EventOf(p, "succeeded") \in Handling(g)'
        PROVE  handler'[g].step \notin {"find", "update", "markPaid"}
    <3>1. CASE UNCHANGED <<handler, received>>
      BY <2>1, <2>4, <3>1 DEF Handling
    <3>2. ASSUME NEW h \in Handlers, OthersRest(h),
                 (\E e \in Event : Takes(h, e)) \/ Drops(h) \/ GoesOn(h)
          PROVE  handler'[g].step \notin {"find", "update", "markPaid"}
      BY <1>1, <2>1, <2>4, <3>2 DEF OthersRest, Takes, Drops, GoesOn, Onward, Handling
    <3> QED
      BY <3>1, <3>2 DEF RequestMove
  <2> QED
    BY <2>1, <2>2, <2>3, <2>4 DEF Entered
<1>3. IsFiniteSet(Entered(i)) /\ IsFiniteSet(Entered(i)')
  BY PaymentsAssumption, FS_Subset DEF Entered
<1> QED
  BY <1>2, <1>3, FS_Subset, FS_CardinalityType

\* Invoices that exist go on existing, for the same period, which had been read before;
\* finalizations add up, and leave their mark.
Progress ==
    \A i \in Invoices :
        /\ status[i] # "ABSENT" => status'[i] # "ABSENT"
        /\ \/ status'[i] = status[i] /\ ledger'[i]["CHARGE"] = ledger[i]["CHARGE"]
                /\ periodOf'[i] = periodOf[i]
           \/ status[i] = "ABSENT" /\ status'[i] = "DRAFT"
                /\ periodOf'[i] \in {cron.period, manual} \ {0}
                /\ ledger'[i]["CHARGE"] = ledger[i]["CHARGE"]
           \/ status[i] # "ABSENT" /\ status'[i] \in {"FINALIZED", "PAID", "VOID"}
                /\ periodOf'[i] = periodOf[i]
        /\ finalizations'[i] >= finalizations[i]

LEMMA SameInvoices ==
  ASSUME PayInv, UNCHANGED <<status, ledger, finalizations, periodOf>>
  PROVE  Progress
BY DEF Progress, PayInv, PayTypeOK

LEMMA DraftProgress ==
  ASSUME PayInv, NEW i \in Invoices, NEW k \in {cron.period, manual} \ {0}, Generate(i, k),
         UNCHANGED finalizations
  PROVE  Progress
BY DEF Progress, PayInv, PayTypeOK, TypeOK, Generate, CreateDraft

LEMMA ProgressStep == CoveredInv /\ [PayNext]_allVars => Progress
<1> SUFFICES ASSUME CoveredInv, [PayNext]_allVars PROVE Progress
  OBVIOUS
<1>0. /\ PayInv /\ TypeOK /\ ChargesCounted /\ Calls
      /\ Callers = {Cron} \union Admins \union Handlers
      /\ finalizations \in [Invoices -> Nat]
  BY PaymentsAssumption DEF CoveredInv, AuditInv, PayInv, PayTypeOK
<1>1. ASSUME UNCHANGED <<status, ledger, finalizations, periodOf>> PROVE Progress
  BY <1>0, <1>1, SameInvoices
<1>2. ASSUME NEW c \in Callers, Serve(c) \/ CallFails(c),
             \A i \in Invoices : finalizations'[i] >= finalizations[i],
             UNCHANGED periodOf
      PROVE  Progress
  BY <1>0, <1>2, CallEffects DEF Progress, Calls
<1>3. CASE \/ UNCHANGED allVars \/ CronFind \/ CronFilter \/ CronFinalize \/ CronAdvance
           \/ CronFails \/ ManualRead
  BY <1>1, <1>3
  DEF allVars, payVars, vars, CronFind, CronFilter, CronFinalize, CronAdvance, CronFails,
      ManualRead, Fault, Request
<1>4. CASE CronGenerate \/ ManualGenerate
  <2>1. CASE CronGenerate
    <3>1. cron.period \in {cron.period, manual} \ {0}
      BY <1>0, <2>1, RecordsAtWork DEF CronGenerate, Period
    <3> QED
      BY <1>0, <2>1, <3>1, DraftProgress DEF CronGenerate
  <2>2. CASE ManualGenerate
    <3>1. manual \in {cron.period, manual} \ {0}
      BY <2>2 DEF ManualGenerate
    <3> QED
      BY <1>0, <2>2, <3>1, DraftProgress DEF ManualGenerate
  <2> QED
    BY <1>4, <2>1, <2>2
<1>5. CASE CronCall
  BY <1>0, <1>2, <1>5, ServeCharges DEF CronCall
<1>6. ASSUME NEW kind \in AuditKinds, Audit(kind) \/ AuditFails(kind) PROVE Progress
  BY <1>1, <1>6 DEF Audit, AuditFails, Fault, vars
<1>7. ASSUME NEW a \in Admins, AdminCall(a) PROVE Progress
  BY <1>0, <1>2, <1>7, ServeCharges DEF AdminCall
<1>8. ASSUME NEW a \in Admins,
             \/ \E op \in Operation, i \in Invoices : AdminRequest(a, op, i)
             \/ JobChecks(a) \/ JobCreatesIntent(a) \/ JobRecords(a) \/ JobFails(a)
      PROVE  Progress
  BY <1>1, <1>8 DEF AdminRequest, Request, JobChecks, JobCreatesIntent, JobRecords, JobFails,
     Fault, vars, payVars
<1>9. ASSUME NEW p \in Payment, NEW type \in EventTypes, Emit(p, type) PROVE Progress
  BY <1>1, <1>9 DEF Emit, vars
<1>10. ASSUME NEW h \in Handlers,
              \/ \E e \in emitted : Receive(h, e)
              \/ Find(h) \/ UpdateSucceeded(h) \/ ReadSubscription(h) \/ HandlerAdvance(h)
              \/ UpdateFailed(h) \/ Schedule(h) \/ SetPastDue(h) \/ HandlerFails(h)
       PROVE  Progress
  BY <1>1, <1>10 DEF Receive, Find, UpdateSucceeded, Request, ReadSubscription, HandlerAdvance,
     UpdateFailed, Schedule, SetPastDue, HandlerFails, Fault, vars
<1>11. ASSUME NEW h \in Handlers, HandlerCall(h) PROVE Progress
  BY <1>0, <1>2, <1>11 DEF HandlerCall
<1>12. ASSUME NEW c \in Callers, CallerFails(c) PROVE Progress
  BY <1>0, <1>2, <1>12, FailureCharges DEF CallerFails
<1> QED
  BY <1>3, <1>4, <1>5, <1>6, <1>7, <1>8, <1>9, <1>10, <1>11, <1>12
  DEF PayNext, CronStep, AdminStep, HandlerStep

LEMMA FinalizedStep ==
  ASSUME CoveredInv, Progress, ChargesCounted' PROVE FinalizedKnown'
<1>1. ASSUME NEW i \in Invoices, finalizations'[i] >= 1
      PROVE  status'[i] \in {"FINALIZED", "PAID", "VOID"}
  <2>1. finalizations[i] = ledger[i]["CHARGE"] /\ finalizations'[i] = ledger'[i]["CHARGE"]
    BY DEF CoveredInv, AuditInv, ChargesCounted
  <2>2. finalizations[i] >= 1 => status[i] \in {"FINALIZED", "PAID", "VOID"}
    BY DEF CoveredInv, FinalizedKnown
  <2> QED
    BY <1>1, <2>1, <2>2 DEF Progress
<1> QED
  BY <1>1 DEF FinalizedKnown

LEMMA CallsKept ==
  ASSUME PayInv, Calls, RequestMove, IntentMove, deployment' = deployment, Progress,
         call'[Cron] # NoCall /\ call[Cron] # NoCall => cron'.inv = cron.inv,
         \A c \in Callers : call'[c] # NoCall =>
           \/ call[c] # NoCall /\ call'[c].op = call[c].op /\ call'[c].inv = call[c].inv
              /\ call[c].inv \in Invoices
           \/ /\ call'[c].inv \in Invoices /\ status[call'[c].inv] # "ABSENT"
              /\ c = Cron => call'[c].op = "finalize" /\ call'[c].inv = cron'.inv
              /\ c \in Admins => call'[c].op \in deployment.ops
              /\ c \in Handlers => \A e \in Handling(c)' : provider'[e.pay].inv = call'[c].inv
  PROVE  Calls'
<1>1. Callers = {Cron} \union Admins \union Handlers
  BY PaymentsAssumption
<1>2. ASSUME NEW h \in Handlers, call[h] # NoCall, NEW e \in Handling(h)'
      PROVE  e \in Handling(h) /\ provider'[e.pay].inv = provider[e.pay].inv
  <2>1. handler[h].step = "markPaid" /\ handler[h].event # {}
    <3>1. handler[h].step = "markPaid"
      BY <1>1, <1>2 DEF PayInv, CallsHeld
    <3> QED
      BY <3>1, AtWork DEF Handling
  <2>2. e \in handler[h].event
    BY <1>2, <2>1 DEF RequestMove, OthersRest, Takes, Drops, GoesOn, Handling
  <2>3. e.pay \in Payment /\ provider[e.pay] # NoIntent
    BY <2>2 DEF PayInv, PayTypeOK, References, Event, NoIntent
  <2> QED
    BY <2>2, <2>3 DEF IntentMove, Handling
<1>3. \A c \in Callers : call'[c] # NoCall => status'[call'[c].inv] # "ABSENT"
  BY DEF Calls, Progress
<1>4. call'[Cron] # NoCall => call'[Cron].op = "finalize" /\ call'[Cron].inv = cron'.inv
  BY <1>1 DEF Calls
<1>5. \A a \in Admins : call'[a] # NoCall => call'[a].op \in deployment'.ops
  BY <1>1 DEF Calls
<1>6. \A h \in Handlers : call'[h] # NoCall =>
        \A e \in Handling(h)' : provider'[e.pay].inv = call'[h].inv
  BY <1>1, <1>2 DEF Calls
<1> QED
  BY <1>3, <1>4, <1>5, <1>6 DEF Calls

LEMMA CallsStep == CoveredInv /\ [PayNext]_allVars => Calls'
<1> SUFFICES ASSUME CoveredInv, [PayNext]_allVars PROVE Calls'
  OBVIOUS
<1>0. /\ PayInv /\ TypeOK /\ Calls /\ CallsHeld
      /\ Callers = {Cron} \union Admins \union Handlers
      /\ Cron \notin Admins /\ Cron \notin Handlers /\ Admins \intersect Handlers = {}
      /\ cron \in CronState /\ handler \in [Handlers -> WebhookRequest]
  BY PaymentsAssumption DEF CoveredInv, AuditInv, PayInv, PayTypeOK
<1>a. RequestMove /\ IntentMove /\ deployment' = deployment /\ Progress
  BY <1>0, RequestsMove, IntentsMove, ProgressStep
<1>b. \A c \in Callers : call[c] # NoCall => call[c].inv \in Invoices
  BY <1>0 DEF TypeOK, Reading, Checked
<1>1. ASSUME UNCHANGED call, call[Cron] # NoCall => cron'.inv = cron.inv PROVE Calls'
  BY <1>0, <1>a, <1>b, <1>1, CallsKept
<1>2. ASSUME NEW c \in Callers, Serve(c) \/ CallFails(c),
             call'[Cron] # NoCall /\ call[Cron] # NoCall => cron'.inv = cron.inv
      PROVE  Calls'
  <2>1. /\ \A d \in Callers \ {c} : call'[d] = call[d]
        /\ call[c] # NoCall
        /\ call'[c] # NoCall => call'[c].op = call[c].op /\ call'[c].inv = call[c].inv
    BY <1>0, <1>2, CallEffects
  <2>2. \A d \in Callers : call'[d] # NoCall =>
          /\ call[d] # NoCall /\ call'[d].op = call[d].op /\ call'[d].inv = call[d].inv
          /\ call[d].inv \in Invoices
    BY <1>b, <2>1
  <2> QED
    BY <1>0, <1>a, <1>2, <2>2, CallsKept
<1>3. ASSUME NEW c \in Callers, NEW op \in Operation, NEW i \in Invoices, Request(c, op, i),
             call[Cron] # NoCall => cron'.inv = cron.inv,
             c = Cron => op = "finalize" /\ i = cron'.inv,
             c \in Admins => op \in deployment.ops,
             c \in Handlers => \A e \in Handling(c)' : provider'[e.pay].inv = i
      PROVE  Calls'
  <2>1. /\ \A d \in Callers \ {c} : call'[d] = call[d]
        /\ call'[c].op = op /\ call'[c].inv = i /\ status[i] # "ABSENT"
    BY <1>0, <1>3 DEF Request, TypeOK
  <2>2. \A d \in Callers : call'[d] # NoCall =>
          \/ call[d] # NoCall /\ call'[d].op = call[d].op /\ call'[d].inv = call[d].inv
             /\ call[d].inv \in Invoices
          \/ /\ call'[d].inv \in Invoices /\ status[call'[d].inv] # "ABSENT"
             /\ d = Cron => call'[d].op = "finalize" /\ call'[d].inv = cron'.inv
             /\ d \in Admins => call'[d].op \in deployment.ops
             /\ d \in Handlers => \A e \in Handling(d)' : provider'[e.pay].inv = call'[d].inv
    BY <1>b, <1>3, <2>1
  <2> QED
    BY <1>0, <1>a, <1>3, <2>2, CallsKept
<1>4. CASE UNCHANGED allVars \/ ManualRead \/ ManualGenerate
  BY <1>1, <1>4 DEF allVars, vars, payVars, ManualRead, ManualGenerate, Generate, CreateDraft
<1>5. CASE CronFind \/ CronFilter \/ CronGenerate \/ CronAdvance \/ CronFails
  <2>1. call[Cron] = NoCall
    <3>1. PayInv /\ CallsHeld
      BY <1>0 DEF CoveredInv, AuditInv, PayInv
    <3>2. cron.step # "finalize" \/ CronFails
      <4>1. CASE CronFind
        BY <4>1 DEF CronFind, CronIdle
      <4>2. CASE CronFilter \/ CronGenerate \/ CronAdvance
        BY <4>2 DEF CronFilter, CronGenerate, CronAdvance
      <4> QED
        BY <1>5, <4>1, <4>2
    <3> QED
      BY <3>1, <3>2 DEF CallsHeld, CronFails
  <2> QED
    BY <1>1, <1>5, <2>1
    DEF CronFind, CronFilter, CronGenerate, CronAdvance, CronFails, Generate, CreateDraft,
        Fault, vars
<1>6. CASE CronFinalize
  <2>1. cron'.inv = cron.inv /\ cron.inv \in Invoices
    BY <1>0, <1>6, RecordsAtWork DEF CronFinalize, CronState, CronIdle
  <2>2. Request(Cron, "finalize", cron.inv) /\ "finalize" \in Operation
    BY <1>6 DEF CronFinalize, Operation
  <2> QED
    BY <1>0, <1>3, <2>1, <2>2
<1>7. CASE CronCall
  <2>1. Serve(Cron) /\ (call'[Cron] # NoCall => cron' = cron)
    BY <1>7 DEF CronCall, CronResumes, Committed, Ended
  <2> QED
    BY <1>0, <1>2, <2>1
<1>8. ASSUME NEW kind \in AuditKinds, Audit(kind) \/ AuditFails(kind) PROVE Calls'
  BY <1>1, <1>8 DEF Audit, AuditFails, Fault, vars
<1>9. ASSUME NEW a \in Admins, NEW op \in Operation, NEW i \in Invoices, AdminRequest(a, op, i)
      PROVE  Calls'
  BY <1>0, <1>3, <1>9 DEF AdminRequest, payVars
<1>10. ASSUME NEW a \in Admins, AdminCall(a) PROVE Calls'
  BY <1>0, <1>2, <1>10 DEF AdminCall
<1>11. ASSUME NEW a \in Admins, JobChecks(a) \/ JobCreatesIntent(a) \/ JobRecords(a) \/ JobFails(a)
       PROVE  Calls'
  BY <1>1, <1>11 DEF JobChecks, JobCreatesIntent, JobRecords, JobFails, Fault, vars
<1>12. ASSUME NEW p \in Payment, NEW type \in EventTypes, Emit(p, type) PROVE Calls'
  BY <1>1, <1>12 DEF Emit, vars
<1>13. ASSUME NEW h \in Handlers,
              \/ \E e \in emitted : Receive(h, e)
              \/ Find(h) \/ ReadSubscription(h) \/ HandlerAdvance(h) \/ UpdateFailed(h)
              \/ Schedule(h) \/ SetPastDue(h) \/ HandlerFails(h)
       PROVE  Calls'
  BY <1>1, <1>13 DEF Receive, Find, ReadSubscription, HandlerAdvance, UpdateFailed, Schedule,
     SetPastDue, HandlerFails, Fault, vars
<1>14. ASSUME NEW h \in Handlers, UpdateSucceeded(h) PROVE Calls'
  <2>1. /\ handler[h].step = "update" /\ TypeOf(h) = "succeeded"
        /\ Request(h, "markPaid", InvoiceOf(h)) /\ "markPaid" \in Operation
        /\ cron' = cron /\ provider' = provider
    BY <1>14 DEF UpdateSucceeded, Operation
  <2>2. InvoiceOf(h) \in Invoices /\ handler[h].step # "idle"
    BY <1>0, <2>1, AtWork
  <2>3. \A e \in Handling(h) : provider[e.pay].inv = InvoiceOf(h)
    <3>1. \A e \in Handling(h) : e.pay = PaymentOf(h)
      BY <1>0, <2>1, <2>2, HandlingSuccess DEF EventOf
    <3> QED
      BY <3>1 DEF InvoiceOf
  <2>4. handler'[h].event = handler[h].event
    BY <1>0, <1>14, <2>2 DEF UpdateSucceeded, Proceed, WebhookRequest, Idle
  <2>5. \A e \in Handling(h)' : provider'[e.pay].inv = InvoiceOf(h)
    BY <2>1, <2>3, <2>4 DEF Handling
  <2> DEFINE i == InvoiceOf(h)
  <2>6. i \in Invoices /\ Request(h, "markPaid", i)
        /\ \A e \in Handling(h)' : provider'[e.pay].inv = i
    BY <2>1, <2>2, <2>5
  <2> HIDE DEF i
  <2> QED
    BY <1>0, <1>3, <2>1, <2>6
<1>15. ASSUME NEW h \in Handlers, HandlerCall(h) PROVE Calls'
  BY <1>0, <1>2, <1>15 DEF HandlerCall
<1>16. ASSUME NEW c \in Callers, CallerFails(c) PROVE Calls'
  <2>1. c = Cron => call'[Cron] = NoCall
    BY <1>0, <1>16 DEF CallerFails, CallFails, TypeOK
  <2>2. c # Cron => cron' = cron
    BY <1>16 DEF CallerFails
  <2> QED
    BY <1>0, <1>2, <1>16, <2>1, <2>2 DEF CallerFails
<1> QED
  BY <1>4, <1>5, <1>6, <1>7, <1>8, <1>9, <1>10, <1>11, <1>12, <1>13, <1>14, <1>15, <1>16
  DEF PayNext, CronStep, AdminStep, HandlerStep

\* A payment that is entered is the success of one request, which is now through.
LEMMA PaymentEntered ==
  ASSUME CoveredInv, RequestMove, IntentMove, NEW h \in Handlers, call[h] # NoCall,
         handler[h].step = "markPaid", handler'[h].step \in {"subscription", "idle"},
         NEW i \in Invoices, i = call[h].inv
  PROVE  Cardinality(Entered(i)) + 1 <= Cardinality(Entered(i)')
<1>0. PayInv /\ Requests /\ Calls /\ handler \in [Handlers -> WebhookRequest]
  BY DEF CoveredInv, AuditInv, PayInv, PayTypeOK
<1>2. PICK p \in Payment : Handling(h) = {EventOf(p, "succeeded")} /\ provider[p].inv = i
  <2>1. /\ PaymentOf(h) \in Payment /\ TypeOf(h) \in EventTypes
        /\ Handling(h) = {[pay |-> PaymentOf(h), type |-> TypeOf(h)]}
    BY <1>0, AtWork
  <2>2. PICK q \in Payment, t \in EventTypes : Handling(h) = {[pay |-> q, type |-> t]}
    BY <2>1
  <2>3. t = "succeeded"
    <3>1. \A e \in Handling(h) : e.type = "succeeded"
      BY <1>0 DEF Requests
    <3> QED
      BY <2>2, <3>1
  <2>4. provider[q].inv = i
    <3>1. \A e \in Handling(h) : provider[e.pay].inv = i
      BY <1>0 DEF Calls
    <3> QED
      BY <2>2, <3>1
  <2> QED
    BY <2>2, <2>3, <2>4 DEF EventOf
<1>3. EventOf(p, "succeeded") \in received /\ \A g \in Handlers : handler[g].event \subseteq received
  BY <1>0, <1>2 DEF PayInv, References, Handling
<1>4. p \notin Entered(i)
  BY <1>2 DEF Entered
<1>5. /\ received \subseteq received'
      /\ handler'[h].event \subseteq handler[h].event
      /\ \A g \in Handlers \ {h} : EventOf(p, "succeeded") \notin handler'[g].event
  <2>1. \A g \in Handlers \ {h} : EventOf(p, "succeeded") \notin handler[g].event
    BY <1>0, <1>2 DEF Requests, Handling
  <2> QED
    BY <1>3, <2>1 DEF RequestMove, OthersRest, Takes, Drops, GoesOn, Handling
<1>6. provider'[p].inv = i
  BY <1>2, PaymentsAssumption DEF IntentMove, NoIntent
<1>7. p \in Entered(i)'
  BY <1>3, <1>5, <1>6 DEF Entered, Handling
<1>8. Entered(i) \subseteq Entered(i)'
  BY <1>0, EnteredKept
<1>9. IsFiniteSet(Entered(i)) /\ IsFiniteSet(Entered(i)')
  BY PaymentsAssumption, FS_Subset DEF Entered
<1>10. /\ Cardinality(Entered(i) \union {p}) = Cardinality(Entered(i)) + 1
       /\ Cardinality(Entered(i) \union {p}) <= Cardinality(Entered(i)')
  <2>1. Entered(i) \union {p} \subseteq Entered(i)'
    BY <1>7, <1>8
  <2> QED
    BY <1>4, <1>9, <2>1, FS_AddElement, FS_Subset
<1> QED
  BY <1>10

LEMMA CoveredStep == CoveredInv /\ [PayNext]_allVars => CoveredInv' /\ Progress
<1> SUFFICES ASSUME CoveredInv, [PayNext]_allVars PROVE CoveredInv' /\ Progress
  OBVIOUS
<1>0. /\ PayInv /\ TypeOK /\ Calls /\ Requests /\ CallsHeld
      /\ Callers = {Cron} \union Admins \union Handlers
      /\ handler \in [Handlers -> WebhookRequest]
  BY PaymentsAssumption DEF CoveredInv, AuditInv, PayInv, PayTypeOK
<1>1. /\ RequestMove /\ IntentMove /\ deployment' = deployment /\ Progress
      /\ Requests' /\ Calls' /\ AuditInv'
  BY <1>0, RequestsMove, IntentsMove, ProgressStep, CallsStep, RequestsStep, AuditStep
     DEF CoveredInv
<1>2. FinalizedKnown'
  BY <1>1, FinalizedStep DEF AuditInv
<1>3. ASSUME \A i \in Invoices : ledger'[i]["PAYMENT"] = ledger[i]["PAYMENT"]
      PROVE  EntriesCovered'
  <2> SUFFICES ASSUME "markPaid" \notin deployment.ops, NEW i \in Invoices
               PROVE  ledger'[i]["PAYMENT"] <= Cardinality(Entered(i)')
    BY <1>1 DEF EntriesCovered
  <2>1. ledger[i]["PAYMENT"] <= Cardinality(Entered(i)) /\ ledger[i]["PAYMENT"] \in Nat
    BY <1>0 DEF CoveredInv, EntriesCovered, TypeOK, EntryType
  <2> QED
    BY <1>0, <1>1, <1>3, <2>1, EnteredKept
<1>4. ASSUME UNCHANGED ledger PROVE EntriesCovered'
  BY <1>3, <1>4
<1>5. ASSUME NEW c \in Callers, c \notin Handlers, Serve(c) \/ CallFails(c) PROVE EntriesCovered'
  <2>1. CASE call[c].op = "markPaid"
    <3>1. call[c] # NoCall
      BY <1>0, <1>5, CallEffects
    <3> QED
      BY <1>0, <1>1, <1>5, <2>1, <3>1 DEF Calls, EntriesCovered
  <2>2. CASE call[c].op # "markPaid"
    BY <1>0, <1>3, <1>5, <2>2, CallEffects
  <2> QED
    BY <2>1, <2>2
<1>6. ASSUME NEW h \in Handlers, Serve(h) \/ CallFails(h),
             call'[h] = NoCall => handler'[h].step \in {"subscription", "idle"}
      PROVE  EntriesCovered'
  <2>1. /\ call[h] # NoCall /\ call[h].inv \in Invoices
        /\ \A i \in Invoices :
             \/ ledger'[i]["PAYMENT"] = ledger[i]["PAYMENT"]
             \/ /\ i = call[h].inv /\ call'[h] = NoCall
                /\ ledger'[i]["PAYMENT"] = ledger[i]["PAYMENT"] + 1
    BY <1>0, <1>6, CallEffects
  <2>2. handler[h].step = "markPaid"
    BY <1>0, <2>1 DEF CallsHeld
  <2> SUFFICES ASSUME "markPaid" \notin deployment.ops, NEW i \in Invoices
               PROVE  ledger'[i]["PAYMENT"] <= Cardinality(Entered(i)')
    BY <1>1 DEF EntriesCovered
  <2>3. ledger[i]["PAYMENT"] <= Cardinality(Entered(i)) /\ ledger[i]["PAYMENT"] \in Nat
    BY <1>0 DEF CoveredInv, EntriesCovered, TypeOK, EntryType
  <2>4. /\ Cardinality(Entered(i)) \in Nat /\ Cardinality(Entered(i)') \in Nat
        /\ Cardinality(Entered(i)) <= Cardinality(Entered(i)')
    BY <1>0, <1>1, EnteredKept
  <2>5. CASE ledger'[i]["PAYMENT"] = ledger[i]["PAYMENT"]
    BY <2>3, <2>4, <2>5
  <2>6. CASE /\ i = call[h].inv /\ call'[h] = NoCall
             /\ ledger'[i]["PAYMENT"] = ledger[i]["PAYMENT"] + 1
    <3>1. Cardinality(Entered(i)) + 1 <= Cardinality(Entered(i)')
      BY <1>1, <1>6, <2>1, <2>2, <2>6, PaymentEntered
    <3> QED
      BY <2>3, <2>4, <2>6, <3>1
  <2> QED
    BY <2>1, <2>5, <2>6
<1>7. ASSUME \/ UNCHANGED allVars \/ CronFind \/ CronFilter \/ CronGenerate
             \/ CronFinalize \/ CronAdvance \/ CronFails \/ ManualRead \/ ManualGenerate
      PROVE  EntriesCovered'
  <2>1. UNCHANGED ledger
    BY <1>7
    DEF allVars, payVars, vars, CronFind, CronFilter, CronGenerate, CronFinalize, CronAdvance,
        CronFails, Fault, ManualRead, ManualGenerate, Generate, CreateDraft, Request
  <2> QED
    BY <1>4, <2>1
<1>8. ASSUME CronCall PROVE EntriesCovered'
  <2>1. Cron \in Callers /\ Cron \notin Handlers
    BY PaymentsAssumption
  <2> QED
    BY <1>5, <1>8, <2>1 DEF CronCall
<1>9. ASSUME NEW kind \in AuditKinds, Audit(kind) \/ AuditFails(kind) PROVE EntriesCovered'
  BY <1>4, <1>9 DEF Audit, AuditFails, Fault, vars
<1>10. ASSUME NEW a \in Admins, AdminCall(a) PROVE EntriesCovered'
  BY <1>0, <1>5, <1>10, PaymentsAssumption DEF AdminCall
<1>11. ASSUME NEW a \in Admins,
              \/ \E op \in Operation, i \in Invoices : AdminRequest(a, op, i)
              \/ JobChecks(a) \/ JobCreatesIntent(a) \/ JobRecords(a) \/ JobFails(a)
       PROVE  EntriesCovered'
  BY <1>4, <1>11 DEF AdminRequest, Request, JobChecks, JobCreatesIntent, JobRecords, JobFails,
     Fault, vars, payVars
<1>12. ASSUME NEW p \in Payment, NEW type \in EventTypes, Emit(p, type) PROVE EntriesCovered'
  BY <1>4, <1>12 DEF Emit, vars
<1>13. ASSUME NEW h \in Handlers,
              \/ \E e \in emitted : Receive(h, e)
              \/ Find(h) \/ UpdateSucceeded(h) \/ ReadSubscription(h) \/ HandlerAdvance(h)
              \/ UpdateFailed(h) \/ Schedule(h) \/ SetPastDue(h) \/ HandlerFails(h)
       PROVE  EntriesCovered'
  BY <1>4, <1>13 DEF Receive, Find, UpdateSucceeded, Request, ReadSubscription, HandlerAdvance,
     UpdateFailed, Schedule, SetPastDue, HandlerFails, Fault, vars
<1>14. ASSUME NEW h \in Handlers, HandlerCall(h) PROVE EntriesCovered'
  <2>1. call[h] # NoCall
    BY <1>0, <1>14, CallEffects DEF HandlerCall
  <2>2. handler[h].step = "markPaid" /\ handler[h] \in WebhookRequest \ {Idle}
    BY <1>0, <2>1 DEF CallsHeld, Idle
  <2>3. call'[h] = NoCall => handler'[h].step \in {"subscription", "idle"}
    <3>1. CASE Committed(h)
      BY <1>0, <1>14, <2>2, <3>1 DEF HandlerCall, WebhookRequest
    <3>2. CASE Ended(h) /\ ~Committed(h)
      BY <1>0, <1>14, <3>2 DEF HandlerCall, Idle
    <3> QED
      BY <3>1, <3>2 DEF Ended
  <2> QED
    BY <1>6, <1>14, <2>3 DEF HandlerCall
<1>15. ASSUME NEW c \in Callers, CallerFails(c) PROVE EntriesCovered'
  <2>1. CASE c \in Handlers
    <3>1. handler'[c].step = "idle"
      BY <1>0, <1>15, <2>1 DEF CallerFails, Idle
    <3> QED
      BY <1>6, <1>15, <2>1, <3>1 DEF CallerFails
  <2>2. CASE c \notin Handlers
    BY <1>5, <1>15, <2>2 DEF CallerFails
  <2> QED
    BY <2>1, <2>2
<1>16. EntriesCovered'
  BY <1>7, <1>8, <1>9, <1>10, <1>11, <1>12, <1>13, <1>14, <1>15
  DEF PayNext, CronStep, AdminStep, HandlerStep
<1> QED
  BY <1>1, <1>2, <1>16 DEF CoveredInv

LEMMA CoveredImplies == CoveredInv => PaymentsAreCharges
<1> SUFFICES ASSUME CoveredInv, "markPaid" \notin deployment.ops, NEW i \in Invoices
             PROVE  ledger[i]["PAYMENT"] <= Cardinality(Charges(i))
  BY DEF PaymentsAreCharges
<1>1. ledger[i]["PAYMENT"] <= Cardinality(Entered(i)) /\ ledger[i]["PAYMENT"] \in Nat
  BY DEF CoveredInv, AuditInv, PayInv, PayTypeOK, EntriesCovered, TypeOK, EntryType
<1>2. Entered(i) \subseteq Charges(i)
  BY DEF CoveredInv, AuditInv, PayInv, PayTypeOK, Requests, Entered, Charges
<1>3. IsFiniteSet(Charges(i)) /\ IsFiniteSet(Entered(i))
  BY PaymentsAssumption, FS_Subset DEF Charges, Entered
<1> QED
  BY <1>1, <1>2, <1>3, FS_Subset, FS_CardinalityType

\* However often, in whatever order and by whatever requests webhooks are handled, and
\* whatever fails, handlePaymentSuccess never enters more payments of an invoice than
\* the provider has taken, if administrators enter none by hand.
THEOREM EntriesAreCharges == PaySpec => []PaymentsAreCharges
  BY CoveredInit, CoveredStep, CoveredImplies, PTL DEF PaySpec

-----------------------------------------------------------------------------
(* Who advances the period *)

\* The success of a payment has come and gone.
Done(p) ==
    /\ EventOf(p, "succeeded") \in received
    /\ \A h \in Handlers : EventOf(p, "succeeded") \notin Handling(h)

BeforeIntent == {"invoice", "success", "count", "provider"}

\* Who may still advance past the period of invoice i: the cron that has finalized it,
\* the job an administrator's finalization started, the payment the job led to.  Or
\* nobody any more, because it is past.
Turn(i, kind, who) ==
    \/ kind = "cron" /\ who = None /\ cron.step = "advance" /\ cron.inv = i
    \/ kind = "job" /\ who \in Admins /\ job[who].step \in BeforeIntent /\ job[who].inv = i
    \/ kind = "payment" /\ who \in Payment /\ provider[who].inv = i /\ ~Done(who)
    \/ kind = "past" /\ who = None /\ period > periodOf[i] /\ finalizations[i] >= 1

\* A finalization gives one turn, which passes from hand to hand.
Turns ==
    \A i \in Invoices : \A kind, who : Turn(i, kind, who) =>
        /\ finalizations[i] >= 1
        /\ \A k, w : Turn(i, k, w) => k = kind /\ w = who

\* Each period left behind was charged.
Left == \A k \in 1 .. period - 1 : Charged(k) # {}

\* No invoice is ahead of the period, nor is what has been read of it.
Reached ==
    /\ \A i \in Invoices : periodOf[i] <= period
    /\ manual <= period /\ cron.period <= period

\* A request that has read the period has read its invoice's.
Dated ==
    \A h \in Handlers : handler[h].step = "advance" =>
        \A e \in Handling(h) : periodOf[provider[e.pay].inv] = handler[h].period

\* The rows have periods, and the cron's invoice is for the one it has read.
RowsDated ==
    /\ \A i \in Invoices : status[i] = "ABSENT" <=> periodOf[i] = 0
    /\ cron.step \in {"generated", "finalize", "advance"} => periodOf[cron.inv] = cron.period

PeriodsInv ==
    CoveredInv /\ RowsDated /\ (ChargedOnce => Left /\ Reached /\ Dated /\ Turns)

LEMMA PeriodsInit == PayInit => PeriodsInv
<1> SUFFICES ASSUME PayInit PROVE PeriodsInv
  OBVIOUS
<1>1. CoveredInv
  BY CoveredInit
<1>2. Reached
  BY DEF PayInit, Reached, CronIdle
<1>3. Dated
  BY DEF PayInit, Dated, Idle
<1>4. \A i \in Invoices : \A k, w : ~Turn(i, k, w)
  <2>1. \A i \in Invoices : finalizations[i] = 0
    BY DEF PayInit
  <2>2. cron.step # "advance"
    BY DEF PayInit, CronIdle
  <2>3. \A a \in Admins : job[a].step \notin BeforeIntent
    BY DEF PayInit, NoJob, BeforeIntent
  <2>4. \A q \in Payment : provider[q].inv \notin Invoices
    BY PaymentsAssumption DEF PayInit, NoIntent
  <2> QED
    BY <2>1, <2>2, <2>3, <2>4 DEF Turn
<1>5. Left
  BY DEF PayInit, Left
<1>6. RowsDated
  BY DEF PayInit, Init, RowsDated, CronIdle
<1> QED
  BY <1>1, <1>2, <1>3, <1>4, <1>5, <1>6 DEF PeriodsInv, Turns

\* Whoever has a turn has it for the current period.
LEMMA InTurn ==
  ASSUME CoveredInv, Reached, Turns, NEW i \in Invoices, NEW k, NEW w, Turn(i, k, w), k # "past"
  PROVE  period = periodOf[i] /\ finalizations[i] >= 1
<1>1. periodOf[i] \in Nat /\ period \in Nat
  BY DEF CoveredInv, AuditInv, PayInv, PayTypeOK, Period
<1>2. finalizations[i] >= 1
  BY DEF Turns
<1>3. ~Turn(i, "past", None)
  BY DEF Turns
<1>4. ~(period > periodOf[i])
  BY <1>2, <1>3 DEF Turn
<1> QED
  BY <1>1, <1>2, <1>4 DEF Reached

\* A charged invoice keeps its period.
LEMMA ChargedKeeps ==
  ASSUME CoveredInv, CoveredInv', Progress, NEW i \in Invoices, finalizations[i] >= 1
  PROVE  periodOf'[i] = periodOf[i] /\ finalizations'[i] >= 1
<1>1. status[i] # "ABSENT"
  BY DEF CoveredInv, FinalizedKnown
<1>2. finalizations[i] \in Nat /\ finalizations'[i] \in Nat
  BY DEF CoveredInv, AuditInv, PayInv, PayTypeOK
<1>3. finalizations'[i] >= 1
  BY <1>2 DEF Progress
<1> QED
  BY <1>1, <1>2, <1>3 DEF Progress

\* A request on a success has its payment's turn.
LEMMA RequestTurn ==
  ASSUME CoveredInv, Reached, Turns, NEW h \in Handlers, handler[h].step \in {"subscription", "advance"}
  PROVE  \E p \in Payment :
           /\ Handling(h) = {EventOf(p, "succeeded")}
           /\ provider[p].inv \in Invoices /\ provider[p] # NoIntent
           /\ Turn(provider[p].inv, "payment", p)
           /\ finalizations[provider[p].inv] >= 1 /\ period = periodOf[provider[p].inv]
<1>0. PayInv /\ Requests
  BY DEF CoveredInv, AuditInv
<1>1. PICK q \in Payment, t \in EventTypes : Handling(h) = {[pay |-> q, type |-> t]}
  BY <1>0, AtWork
<1>2. t = "succeeded"
  <2>1. \A e \in Handling(h) : e.type = "succeeded"
    BY <1>0 DEF Requests
  <2> QED
    BY <1>1, <2>1
<1>3. Handling(h) = {EventOf(q, "succeeded")}
  BY <1>1, <1>2 DEF EventOf
<1>4. [pay |-> q, type |-> t] \in emitted
  BY <1>0, <1>1 DEF PayInv, PayTypeOK, References, Handling
<1>5. provider[q].outcome = "requires_action" /\ provider[q] \in Intent
  BY <1>0, <1>4 DEF PayInv, PayTypeOK, References
<1>6. provider[q].inv \in Invoices /\ provider[q] # NoIntent
  BY <1>5 DEF Intent, NoIntent
<1>7. Turn(provider[q].inv, "payment", q)
  BY <1>3 DEF Turn, Done
<1>8. PICK i \in Invoices : i = provider[q].inv
  BY <1>6
<1>9. period = periodOf[i] /\ finalizations[i] >= 1
  BY <1>7, <1>8, InTurn
<1> QED
  BY <1>3, <1>6, <1>7, <1>8, <1>9

LEMMA DatedStep ==
  ASSUME CoveredInv, CoveredInv', Progress, Reached, Dated, Turns, RequestMove, IntentMove
  PROVE  Dated'
<1> SUFFICES ASSUME NEW h \in Handlers, handler'[h].step = "advance", NEW e \in handler'[h].event
             PROVE  periodOf'[provider'[e.pay].inv] = handler'[h].period
  BY DEF Dated, Handling
<1>1. ASSUME NEW p \in Payment, provider[p] # NoIntent, provider[p].inv \in Invoices,
             finalizations[provider[p].inv] >= 1
      PROVE  periodOf'[provider'[p].inv] = periodOf[provider[p].inv]
  BY <1>1, ChargedKeeps DEF IntentMove
<1>2. CASE handler'[h] = handler[h]
  <2>1. PICK p \in Payment :
          /\ Handling(h) = {EventOf(p, "succeeded")} /\ provider[p] # NoIntent
          /\ provider[p].inv \in Invoices /\ finalizations[provider[p].inv] >= 1
    BY <1>2, RequestTurn
  <2>2. e = EventOf(p, "succeeded") /\ e.pay = p /\ e \in Handling(h)
    BY <1>2, <2>1 DEF Handling, EventOf
  <2>3. periodOf'[provider'[p].inv] = periodOf[provider[p].inv]
    BY <1>1, <2>1
  <2> QED
    BY <1>2, <2>2, <2>3 DEF Dated
<1>3. CASE GoesOn(h)
  <2>1. /\ handler[h].step = "subscription" /\ handler'[h].period = period
        /\ e \in Handling(h)
    BY <1>3 DEF GoesOn, Onward, Handling
  <2>2. PICK p \in Payment :
          /\ Handling(h) = {EventOf(p, "succeeded")} /\ provider[p] # NoIntent
          /\ provider[p].inv \in Invoices /\ finalizations[provider[p].inv] >= 1
          /\ period = periodOf[provider[p].inv]
    BY <2>1, RequestTurn
  <2>3. e.pay = p
    BY <2>1, <2>2 DEF EventOf
  <2>4. periodOf'[provider'[p].inv] = periodOf[provider[p].inv]
    BY <1>1, <2>2
  <2> QED
    BY <2>1, <2>2, <2>3, <2>4
<1> QED
  BY <1>2, <1>3 DEF RequestMove, OthersRest, Takes, Drops

\* What is read of the period, and for which period rows are written.
PeriodRead ==
    /\ manual' \in {0, manual, period}
    /\ cron'.period \in {0, cron.period, period}
    /\ cron'.step \in {"generated", "finalize", "advance"} =>
         \/ cron.step = "generate" /\ cron'.inv \in Invoices
              /\ periodOf'[cron'.inv] = cron.period /\ cron'.period = cron.period
         \/ cron.step \in {"generated", "finalize", "advance"}
              /\ cron'.inv = cron.inv /\ cron'.period = cron.period

LEMMA ReachedStep ==
  ASSUME CoveredInv, Reached, Progress, PeriodRead, period' \in Nat, period' >= period
  PROVE  Reached'
<1>1. /\ period \in Nat /\ manual \in Nat /\ cron.period \in Nat
      /\ \A i \in Invoices : periodOf[i] \in Nat
  BY DEF CoveredInv, AuditInv, PayInv, PayTypeOK, Period, CronState, CronIdle
<1>2. \A i \in Invoices : periodOf'[i] \in {periodOf[i], cron.period, manual}
  BY DEF Progress
<1>3. \A i \in Invoices : periodOf'[i] <= period'
  BY <1>1, <1>2 DEF Reached
<1>4. manual' <= period' /\ cron'.period <= period'
  BY <1>1 DEF Reached, PeriodRead
<1> QED
  BY <1>3, <1>4 DEF Reached

LEMMA RowsDatedStep ==
  ASSUME CoveredInv, RowsDated, Progress, PeriodRead PROVE RowsDated'
<1>1. \A i \in Invoices : status'[i] = "ABSENT" <=> periodOf'[i] = 0
  BY DEF RowsDated, Progress
<1>2. ASSUME cron'.step \in {"generated", "finalize", "advance"}
      PROVE  periodOf'[cron'.inv] = cron'.period
  <2>1. CASE cron.step = "generate" /\ periodOf'[cron'.inv] = cron.period
               /\ cron'.period = cron.period
    BY <2>1
  <2>2. CASE cron.step \in {"generated", "finalize", "advance"}
               /\ cron'.inv = cron.inv /\ cron'.period = cron.period
    <3>1. /\ cron.inv \in Invoices /\ cron.period \in Period
          /\ periodOf[cron.inv] = cron.period
      BY <2>2, RecordsAtWork DEF CoveredInv, AuditInv, RowsDated
    <3>2. status[cron.inv] # "ABSENT"
      BY <3>1 DEF RowsDated, Period
    <3> QED
      BY <2>2, <3>1, <3>2 DEF Progress
  <2> QED
    BY <1>2, <2>1, <2>2 DEF PeriodRead
<1> QED
  BY <1>1, <1>2 DEF RowsDated

\* The turns stay, or a finalization, the only one of its invoice, gives one.
LEMMA TurnsKept ==
  ASSUME Turns, Progress, CoveredInv, CoveredInv',
         \A i \in Invoices : \A k, w : Turn(i, k, w)' => Turn(i, k, w)
  PROVE  Turns'
<1>1. finalizations \in [Invoices -> Nat] /\ finalizations' \in [Invoices -> Nat]
  BY DEF CoveredInv, AuditInv, PayInv, PayTypeOK
<1> QED
  BY <1>1 DEF Turns, Progress

LEMMA TurnGiven ==
  ASSUME Turns, Progress, CoveredInv, CoveredInv', ChargedOnce', NEW j \in Invoices,
         finalizations'[j] = finalizations[j] + 1, NEW k1, NEW w1,
         \A i \in Invoices : \A k, w : Turn(i, k, w)' =>
           Turn(i, k, w) \/ (i = j /\ k = k1 /\ w = w1)
  PROVE  Turns'
<1>1. finalizations \in [Invoices -> Nat] /\ finalizations' \in [Invoices -> Nat]
  BY DEF CoveredInv, AuditInv, PayInv, PayTypeOK
<1>2. finalizations[j] = 0 /\ finalizations'[j] >= 1
  BY <1>1 DEF ChargedOnce, FinalizedOnce
<1>3. \A k, w : ~Turn(j, k, w)
  BY <1>2 DEF Turns
<1>4. \A i \in Invoices : finalizations[i] >= 1 => finalizations'[i] >= 1
  BY <1>1 DEF Progress
<1>5. ASSUME NEW i \in Invoices, NEW k, NEW w, Turn(i, k, w)'
      PROVE  finalizations'[i] >= 1 /\ \A l, v : Turn(i, l, v)' => l = k /\ v = w
  BY <1>2, <1>3, <1>4, <1>5 DEF Turns
<1> QED
  BY <1>5 DEF Turns

\* What is done with stays so.
LEMMA DoneKept ==
  ASSUME PayInv, RequestMove, NEW p \in Payment, Done(p) PROVE Done(p)'
<1>1. CASE UNCHANGED <<handler, received>>
  BY <1>1 DEF Done, Handling
<1>2. ASSUME NEW h \in Handlers, OthersRest(h), (\E e \in Event : Takes(h, e)) \/ Drops(h) \/ GoesOn(h)
      PROVE  Done(p)'
  <2>1. EventOf(p, "succeeded") \in received'
    BY <1>2 DEF Done, Takes, Drops, GoesOn
  <2>2. EventOf(p, "succeeded") \notin handler'[h].event
    BY <1>2 DEF Done, Takes, Drops, GoesOn, Handling
  <2> QED
    BY <1>2, <2>1, <2>2 DEF Done, Handling, OthersRest
<1> QED
  BY <1>1, <1>2 DEF RequestMove

\* An invoice's period may be past only by its own turn.
NewPast(j, kind, who) ==
    \A i \in Invoices : period' > periodOf'[i] /\ finalizations'[i] >= 1 =>
        \/ period > periodOf[i] /\ finalizations[i] >= 1
        \/ i = j /\ kind = "past" /\ who = None

\* At most one turn is new in a step: that of who, of this kind, on invoice j.
NewTurn(j, kind, who) ==
    /\ cron'.step = "advance" =>
         \/ cron.step = "advance" /\ cron'.inv = cron.inv
         \/ cron'.inv = j /\ kind = "cron" /\ who = None
    /\ \A a \in Admins : job'[a].step \in BeforeIntent =>
         \/ job[a].step \in BeforeIntent /\ job'[a].inv = job[a].inv
         \/ job'[a].inv = j /\ kind = "job" /\ who = a
    /\ \A p \in Payment : provider'[p] # NoIntent =>
         \/ provider[p] # NoIntent
         \/ provider'[p].inv = j /\ kind = "payment" /\ who = p
    /\ NewPast(j, kind, who)

LEMMA TurnIsNew ==
  ASSUME PayInv, PayInv', RequestMove, IntentMove, NEW j, NEW k1, NEW w1, NewTurn(j, k1, w1),
         NEW i \in Invoices, NEW k, NEW w, Turn(i, k, w)'
  PROVE  Turn(i, k, w) \/ (i = j /\ k = k1 /\ w = w1)
<1>0. i # None
  BY PaymentsAssumption
<1>1. CASE k = "cron" /\ w = None /\ cron'.step = "advance" /\ cron'.inv = i
  BY <1>1 DEF NewTurn, Turn
<1>2. CASE k = "job" /\ w \in Admins /\ job'[w].step \in BeforeIntent /\ job'[w].inv = i
  BY <1>2 DEF NewTurn, Turn
<1>3. CASE k = "payment" /\ w \in Payment /\ provider'[w].inv = i /\ ~Done(w)'
  <2>1. provider'[w] # NoIntent
    BY <1>0, <1>3 DEF NoIntent
  <2>2. CASE provider[w] # NoIntent
    <3>1. provider[w].inv = i
      BY <1>3, <2>2 DEF IntentMove
    <3>2. ~Done(w)
      BY <1>3, DoneKept
    <3> QED
      BY <1>3, <3>1, <3>2 DEF Turn
  <2> QED
    BY <1>3, <2>1, <2>2 DEF NewTurn
<1>4. CASE k = "past" /\ w = None /\ period' > periodOf'[i] /\ finalizations'[i] >= 1
  BY <1>4 DEF NewTurn, NewPast, Turn
<1> QED
  BY <1>1, <1>2, <1>3, <1>4 DEF Turn

\* What every step has to go on, and where it leads.
Before ==
    /\ CoveredInv /\ CoveredInv' /\ Progress /\ RequestMove /\ IntentMove /\ PeriodRead
    /\ RowsDated /\ ChargedOnce' /\ Left /\ Reached /\ Dated /\ Turns

After == Left' /\ Reached' /\ Dated' /\ Turns'

LEMMA BeforeKnows ==
  ASSUME Before
  PROVE  /\ PayInv /\ PayInv' /\ Requests /\ Calls /\ CallsHeld
         /\ period \in Nat \ {0} /\ period' \in Nat \ {0} /\ cron \in CronState
         /\ periodOf \in [Invoices -> Nat]
         /\ finalizations \in [Invoices -> Nat] /\ finalizations' \in [Invoices -> Nat]
         /\ job \in [Admins -> Job] /\ provider \in [Payment -> Intent]
         /\ handler \in [Handlers -> WebhookRequest]
  BY DEF Before, CoveredInv, AuditInv, PayInv, PayTypeOK, Period

\* An invoice that is charged afterwards had its row, and its period.
LEMMA ChargedRow ==
  ASSUME Before, NEW i \in Invoices, finalizations'[i] >= 1
  PROVE  periodOf'[i] = periodOf[i] /\ periodOf[i] \in Period
<1>1. status'[i] \in {"FINALIZED", "PAID", "VOID"}
  BY DEF Before, CoveredInv, FinalizedKnown
<1>2. status[i] # "ABSENT" /\ periodOf'[i] = periodOf[i]
  BY <1>1 DEF Before, Progress
<1> QED
  BY <1>2, BeforeKnows DEF Before, RowsDated, Period

\* While the period stays, none becomes past: a period left behind has been charged.
LEMMA PastRests ==
  ASSUME Before, period' = period, NEW j, NEW kind, NEW who
  PROVE  NewPast(j, kind, who)
<1> SUFFICES ASSUME NEW i \in Invoices, period > periodOf'[i], finalizations'[i] >= 1,
                    ~(finalizations[i] >= 1)
             PROVE  FALSE
  <2>1. \A i \in Invoices : finalizations'[i] >= 1 => periodOf'[i] = periodOf[i]
    BY ChargedRow
  <2> QED
    BY <2>1 DEF NewPast
<1>1. periodOf'[i] = periodOf[i] /\ periodOf[i] \in 1 .. period - 1
  BY BeforeKnows, ChargedRow DEF Period
<1>2. PICK l \in Charged(periodOf[i]) : TRUE
  BY <1>1 DEF Before, Left
<1>3. l \in Invoices /\ periodOf[l] = periodOf[i] /\ finalizations[l] >= 1
  BY <1>2 DEF Charged
<1>4. l # i /\ periodOf'[l] = periodOf'[i] /\ finalizations'[l] >= 1
  BY <1>1, <1>3, ChargedKeeps DEF Before
<1> QED
  BY <1>3, <1>4 DEF Before, ChargedOnce, Charged

\* When it goes on, the period it leaves is that of the one invoice charged for it.
LEMMA PastPasses ==
  ASSUME Before, NEW j \in Invoices, finalizations[j] >= 1, periodOf[j] = period,
         period' = period + 1, UNCHANGED finalizations
  PROVE  NewPast(j, "past", None)
<1> SUFFICES ASSUME NEW i \in Invoices, period + 1 > periodOf[i], finalizations[i] >= 1,
                    ~(period > periodOf[i])
             PROVE  i = j
  <2>1. \A i \in Invoices : finalizations'[i] >= 1 => periodOf'[i] = periodOf[i]
    BY ChargedRow
  <2> QED
    BY <2>1 DEF NewPast
<1>1. periodOf[i] = period
  BY BeforeKnows
<1>2. periodOf'[i] = period /\ periodOf'[j] = period
  BY <1>1, ChargedRow
<1> QED
  BY <1>2 DEF Before, ChargedOnce, Charged

LEMMA LeftStep ==
  ASSUME Before,
         \/ period' = period
         \/ /\ period' = period + 1
            /\ \E j \in Invoices : finalizations[j] >= 1 /\ periodOf[j] = period
  PROVE  Left'
<1>1. ASSUME NEW k, Charged(k) # {} PROVE Charged(k)' # {}
  <2>1. PICK i \in Charged(k) : TRUE
    BY <1>1
  <2>2. i \in Charged(k)'
    BY <2>1, ChargedKeeps DEF Charged, Before
  <2> QED
    BY <2>2
<1>2. CASE period' = period
  BY <1>1, <1>2 DEF Before, Left
<1>3. ASSUME period' = period + 1, NEW j \in Invoices, finalizations[j] >= 1, periodOf[j] = period
      PROVE  Left'
  <2>1. Charged(period) # {}
    BY <1>3 DEF Charged
  <2>2. \A k \in 1 .. period : Charged(k) # {}
    BY <2>1, BeforeKnows DEF Before, Left
  <2>3. \A k \in 1 .. period : Charged(k)' # {}
    BY <1>1, <2>2
  <2> QED
    BY <1>3, <2>3, BeforeKnows DEF Left
<1> QED
  BY <1>2, <1>3

\* Nobody gets a turn.
LEMMA NoTurn ==
  ASSUME Before, period' = period, NEW j, NewTurn(j, "none", None) PROVE After
<1>1. \A i \in Invoices : \A k, w : Turn(i, k, w)' => Turn(i, k, w)
  <2> SUFFICES ASSUME NEW i \in Invoices, NEW k, NEW w, Turn(i, k, w)' PROVE Turn(i, k, w)
    OBVIOUS
  <2>1. k # "none"
    BY DEF Turn
  <2> QED
    BY <2>1, BeforeKnows, TurnIsNew DEF Before
<1>2. Turns'
  BY <1>1, TurnsKept DEF Before
<1>3. Reached'
  BY BeforeKnows, ReachedStep DEF Before
<1>4. Left'
  BY LeftStep
<1> QED
  BY <1>2, <1>3, <1>4, DatedStep DEF Before, After

\* Who has the turn hands it over.
LEMMA TurnGoes ==
  ASSUME Before, NEW j \in Invoices,
         period' = period \/ (period' = period + 1 /\ periodOf[j] = period),
         NEW k0, NEW w0, NEW k1, NEW w1, NewTurn(j, k1, w1),
         Turn(j, k0, w0), ~Turn(j, k0, w0)'
  PROVE  After
<1>1. \A i \in Invoices : \A k, w : Turn(i, k, w)' => Turn(i, k, w) \/ (i = j /\ k = k1 /\ w = w1)
  BY BeforeKnows, TurnIsNew DEF Before
<1>2. Turns'
  <2>1. Turns /\ \A i \in Invoices : finalizations[i] >= 1 => finalizations'[i] >= 1
    BY DEF Before, Progress, CoveredInv, AuditInv, PayInv, PayTypeOK
  <2>2. \A k, w : Turn(j, k, w)' => k = k1 /\ w = w1
    BY <1>1, <2>1 DEF Turns
  <2>3. \A i \in Invoices \ {j} : \A k, w : Turn(i, k, w)' => Turn(i, k, w)
    BY <1>1
  <2>4. ASSUME NEW i \in Invoices, NEW k, NEW w, Turn(i, k, w)'
        PROVE  finalizations'[i] >= 1 /\ \A l, v : Turn(i, l, v)' => l = k /\ v = w
    <3>1. CASE i = j
      BY <2>1, <2>2, <2>4, <3>1 DEF Turns
    <3>2. CASE i # j
      BY <2>1, <2>3, <2>4, <3>2 DEF Turns
    <3> QED
      BY <3>1, <3>2
  <2> QED
    BY <2>4 DEF Turns
<1>3. Reached'
  BY BeforeKnows, ReachedStep DEF Before
<1>4. finalizations[j] >= 1
  BY DEF Before, Turns
<1>5. Left'
  BY <1>4, LeftStep
<1> QED
  BY <1>2, <1>3, <1>5, DatedStep DEF Before, After

\* A finalization makes a turn.
LEMMA TurnComes ==
  ASSUME Before, period' = period, NEW j \in Invoices, NEW k1, NEW w1,
         NewTurn(j, k1, w1), finalizations'[j] = finalizations[j] + 1
  PROVE  After
<1>1. \A i \in Invoices : \A k, w : Turn(i, k, w)' => Turn(i, k, w) \/ (i = j /\ k = k1 /\ w = w1)
  BY BeforeKnows, TurnIsNew DEF Before
<1>2. Turns'
  BY <1>1, TurnGiven DEF Before
<1>3. Reached'
  BY BeforeKnows, ReachedStep DEF Before
<1>4. Left'
  BY LeftStep
<1> QED
  BY <1>2, <1>3, <1>4, DatedStep DEF Before, After

\* Steps that leave the turns alone.
LEMMA TurnsRest ==
  ASSUME Before, UNCHANGED <<period, cron, job, provider>> PROVE After
<1>1. NewTurn(None, "none", None)
  BY BeforeKnows, PastRests DEF NewTurn
<1> QED
  BY <1>1, NoTurn

LEMMA CronEnds ==
  ASSUME Before, UNCHANGED <<period, job, provider>>, cron'.step # "advance" PROVE After
<1>1. NewTurn(None, "none", None)
  BY BeforeKnows, PastRests DEF NewTurn
<1> QED
  BY <1>1, NoTurn

\* createForInvoice looks, and gives up.
LEMMA JobLooks ==
  ASSUME Before, NEW a \in Admins, job[a].step # "none", UNCHANGED <<period, cron, provider>>,
         \/ EndJob(a)
         \/ /\ job[a].step \in BeforeIntent
            /\ job'[a].inv = job[a].inv
            /\ \A b \in Admins \ {a} : job'[b] = job[b]
  PROVE  After
<1>1. NewTurn(None, "none", None)
  <2>1. CASE EndJob(a)
    BY <2>1, BeforeKnows, PastRests DEF EndJob, NewTurn, NoJob, BeforeIntent
  <2>2. CASE /\ job[a].step \in BeforeIntent
             /\ job'[a].inv = job[a].inv
             /\ \A b \in Admins \ {a} : job'[b] = job[b]
    BY <2>2, BeforeKnows, PastRests DEF NewTurn
  <2> QED
    BY <2>1, <2>2
<1> QED
  BY <1>1, NoTurn

\* The job's intent takes over from it.
LEMMA JobTurnGoes ==
  ASSUME Before, NEW a \in Admins, job[a].step = "provider", UNCHANGED <<period, cron>>,
         NEW p \in Payment, NewIntent(p, job[a].inv),
         job'[a].step \notin BeforeIntent, \A b \in Admins \ {a} : job'[b] = job[b]
  PROVE  After
<1>1. PICK i \in Invoices : i = job[a].inv
  BY BeforeKnows, RecordsAtWork
<1>2. Turn(i, "job", a) /\ ~Turn(i, "job", a)'
  BY <1>1 DEF Turn, BeforeIntent
<1>3. provider'[p].inv = i /\ \A q \in Payment \ {p} : provider'[q] = provider[q]
  BY <1>1, BeforeKnows DEF NewIntent
<1>4. NewTurn(i, "payment", p)
  BY <1>3, BeforeKnows, PastRests DEF NewTurn
<1> QED
  BY <1>2, <1>4, BeforeKnows, TurnGoes

\* The cron advances in its turn.
LEMMA CronTurnGoes ==
  ASSUME Before, cron.step = "advance", AdvanceFrom(cron.period), cron' = CronIdle,
         UNCHANGED <<job, provider, finalizations>>
  PROVE  After
<1>1. PICK i \in Invoices : i = cron.inv
  BY BeforeKnows, RecordsAtWork
<1>2. Turn(i, "cron", None) /\ ~Turn(i, "cron", None)'
  BY <1>1 DEF Turn, CronIdle
<1>3. period = periodOf[i] /\ finalizations[i] >= 1 /\ period = cron.period
  BY <1>1, <1>2, InTurn DEF Before, RowsDated
<1>4. period' = period + 1
  BY <1>3 DEF AdvanceFrom
<1>5. NewTurn(i, "past", None)
  BY <1>3, <1>4, BeforeKnows, PastPasses DEF NewTurn, CronIdle
<1> QED
  BY <1>2, <1>3, <1>4, <1>5, BeforeKnows, TurnGoes

\* A webhook request advances in its payment's turn.
LEMMA RequestTurnGoes ==
  ASSUME Before, NEW h \in Handlers, handler[h].step = "advance", AdvanceFrom(handler[h].period),
         Finish(h), UNCHANGED <<cron, job, provider, received, finalizations>>
  PROVE  After
<1>1. PICK p \in Payment :
        /\ Handling(h) = {EventOf(p, "succeeded")}
        /\ provider[p].inv \in Invoices
        /\ Turn(provider[p].inv, "payment", p) /\ period = periodOf[provider[p].inv]
        /\ finalizations[provider[p].inv] >= 1
  BY RequestTurn DEF Before
<1>2. PICK i \in Invoices : i = provider[p].inv
  BY <1>1
<1>3. EventOf(p, "succeeded").pay = p
  BY DEF EventOf
<1>4. handler[h].period = periodOf[i]
  BY <1>1, <1>2, <1>3 DEF Before, Dated
<1>5. EventOf(p, "succeeded") \in received
  BY <1>1, BeforeKnows DEF PayInv, References, Handling
<1>6. \A g \in Handlers : EventOf(p, "succeeded") \notin handler'[g].event
  <2>1. handler'[h].event = {}
    BY BeforeKnows DEF Finish, Idle
  <2>2. ASSUME NEW g \in Handlers \ {h} PROVE EventOf(p, "succeeded") \notin handler'[g].event
    <3>1. handler'[g] = handler[g]
      BY BeforeKnows DEF Finish
    <3>2. Handling(g) \intersect Handling(h) = {}
      BY BeforeKnows DEF Requests
    <3> QED
      BY <1>1, <3>1, <3>2 DEF Handling
  <2> QED
    BY <2>1, <2>2
<1>7. Done(p)'
  BY <1>5, <1>6 DEF Done, Handling
<1>8. Turn(i, "payment", p) /\ ~Turn(i, "payment", p)'
  BY <1>1, <1>2, <1>7 DEF Turn
<1>9. period = periodOf[i] /\ period' = period + 1
  BY <1>1, <1>2, <1>4 DEF AdvanceFrom
<1>10. NewTurn(i, "past", None)
  BY <1>1, <1>2, <1>9, BeforeKnows, PastPasses DEF NewTurn
<1> QED
  BY <1>8, <1>9, <1>10, BeforeKnows, TurnGoes

LEMMA FinalizationServed ==
  ASSUME Before, NEW c \in Callers, Serve(c), Committed(c), call[c].op = "finalize",
         CountFinalization(c)
  PROVE  call[c].inv \in Invoices /\ finalizations'[call[c].inv] = finalizations[call[c].inv] + 1
<1>1. call[c].inv \in Invoices
  BY CommittedCall, BeforeKnows DEF Committed, PayInv, PayTypeOK
<1>2. finalizations \in [Invoices -> Nat]
  BY BeforeKnows DEF PayInv, PayTypeOK
<1> QED
  BY <1>1, <1>2 DEF CountFinalization

\* The cron's call of finalize.
LEMMA CronServed ==
  ASSUME Before, CronCall PROVE After
<1>0. /\ Cron \in Callers /\ Serve(Cron) /\ CountFinalization(Cron) /\ CronResumes
      /\ UNCHANGED <<period, job, provider>>
  BY PaymentsAssumption DEF CronCall
<1>1. call[Cron] # NoCall
  BY <1>0, BeforeKnows, CallEffects DEF PayInv, PayTypeOK
<1>2. /\ cron.step = "finalize" /\ cron \in CronState \ {CronIdle}
      /\ call[Cron].op = "finalize" /\ call[Cron].inv = cron.inv
  BY <1>1, BeforeKnows DEF Calls, CallsHeld, CronIdle
<1>3. CASE Committed(Cron)
  <2>1. PICK j \in Invoices : j = call[Cron].inv /\ finalizations'[j] = finalizations[j] + 1
    BY <1>0, <1>2, <1>3, FinalizationServed
  <2>2. cron'.inv = j
    BY <1>0, <1>2, <1>3, <2>1 DEF CronResumes, CronState
  <2>3. NewTurn(j, "cron", None)
    BY <1>0, <2>2, BeforeKnows, PastRests DEF NewTurn
  <2> QED
    BY <1>0, <2>1, <2>3, TurnComes
<1>4. CASE ~Committed(Cron)
  <2>1. cron'.step # "advance"
    BY <1>0, <1>2, <1>4 DEF CronResumes, CronIdle
  <2> QED
    BY <1>0, <2>1, CronEnds
<1> QED
  BY <1>3, <1>4

\* An administrator's call of finalize, and the job it starts.
LEMMA AdminServed ==
  ASSUME Before, NEW a \in Admins, AdminCall(a) PROVE After
<1>0. /\ a \in Callers /\ Serve(a) /\ CountFinalization(a)
      /\ UNCHANGED <<period, cron, provider>>
  BY PaymentsAssumption DEF AdminCall
<1>1. CASE call[a].op = "finalize" /\ Committed(a)
  <2>1. PICK j \in Invoices : j = call[a].inv /\ finalizations'[j] = finalizations[j] + 1
    BY <1>0, <1>1, FinalizationServed
  <2>2. job' = [job EXCEPT ![a] = [NoJob EXCEPT !.step = "invoice", !.inv = call[a].inv]]
    BY <1>1 DEF AdminCall
  <2>3. job'[a].inv = j /\ \A b \in Admins \ {a} : job'[b] = job[b]
    BY <2>1, <2>2, BeforeKnows DEF NoJob
  <2>4. NewTurn(j, "job", a)
    BY <1>0, <2>3, BeforeKnows, PastRests DEF NewTurn
  <2> QED
    BY <1>0, <2>1, <2>4, TurnComes
<1>2. CASE ~(call[a].op = "finalize" /\ Committed(a))
  BY <1>0, <1>2, TurnsRest DEF AdminCall
<1> QED
  BY <1>1, <1>2

\* createForInvoice.
LEMMA JobServed ==
  ASSUME Before, NEW a \in Admins,
         JobChecks(a) \/ JobCreatesIntent(a) \/ JobRecords(a) \/ JobFails(a)
  PROVE  After
<1>0. job \in [Admins -> Job]
  BY BeforeKnows
<1>1. CASE JobChecks(a)
  <2>1. UNCHANGED <<period, cron, provider>> /\ job[a].step \in {"invoice", "success", "count"}
    BY <1>1 DEF JobChecks
  <2>2. job[a] \in Job \ {NoJob} /\ job[a].step # "none"
    BY <1>0, <2>1 DEF NoJob
  <2>3. ASSUME NEW step, Goto(a, step)
        PROVE  job'[a].inv = job[a].inv /\ \A b \in Admins \ {a} : job'[b] = job[b]
    BY <1>0, <2>2, <2>3 DEF Goto, Job
  <2>4. ASSUME job' = [job EXCEPT ![a].step = "provider",
                                  ![a].count = Cardinality(AttemptsOf(job[a].inv))]
        PROVE  job'[a].inv = job[a].inv /\ \A b \in Admins \ {a} : job'[b] = job[b]
    BY <1>0, <2>2, <2>4 DEF Job
  <2>5. \/ EndJob(a)
        \/ \E step : Goto(a, step)
        \/ job' = [job EXCEPT ![a].step = "provider",
                              ![a].count = Cardinality(AttemptsOf(job[a].inv))]
    BY <1>1 DEF JobChecks
  <2>6. job[a].step \in BeforeIntent
    BY <2>1 DEF BeforeIntent
  <2> QED
    BY <2>1, <2>2, <2>3, <2>4, <2>5, <2>6, JobLooks
<1>2. CASE JobCreatesIntent(a)
  <2>1. PICK p \in Payment :
          /\ NewIntent(p, job[a].inv)
          /\ job' = [job EXCEPT ![a].step = "record", ![a].pay = {p}]
    BY <1>2 DEF JobCreatesIntent
  <2>2. job[a].step = "provider" /\ UNCHANGED <<period, cron>>
    BY <1>2 DEF JobCreatesIntent
  <2>3. job[a] \in Job \ {NoJob}
    BY <1>0, <2>2 DEF NoJob
  <2>4. job'[a].step = "record" /\ \A b \in Admins \ {a} : job'[b] = job[b]
    BY <1>0, <2>1, <2>3 DEF Job
  <2>5. job'[a].step \notin BeforeIntent
    BY <2>4 DEF BeforeIntent
  <2> QED
    BY <2>1, <2>2, <2>4, <2>5, JobTurnGoes
<1>3. CASE JobRecords(a)
  BY <1>3, JobLooks DEF JobRecords
<1>4. CASE JobFails(a)
  <2>1. job[a] \in Job /\ job[a] # NoJob /\ EndJob(a) /\ UNCHANGED <<period, cron>>
    BY <1>0, <1>4 DEF JobFails
  <2>2. job[a].step # "none"
    BY <2>1 DEF Job
  <2>3. CASE UNCHANGED provider
    BY <2>1, <2>2, <2>3, JobLooks
  <2>4. ASSUME job[a].step = "provider", NEW p \in Payment, NewIntent(p, job[a].inv)
        PROVE  After
    <3>1. job'[a].step \notin BeforeIntent /\ \A b \in Admins \ {a} : job'[b] = job[b]
      BY <1>0, <2>1 DEF EndJob, NoJob, BeforeIntent
    <3> QED
      BY <2>1, <2>4, <3>1, JobTurnGoes
  <2> QED
    BY <1>4, <2>3, <2>4 DEF JobFails
<1> QED
  BY <1>1, <1>2, <1>3, <1>4

\* What the cron and the administrators read of the period.
LEMMA PeriodReadStep == CoveredInv /\ [PayNext]_allVars => PeriodRead
<1> SUFFICES ASSUME CoveredInv, [PayNext]_allVars PROVE PeriodRead
  OBVIOUS
<1>0. PayInv /\ cron \in CronState
  BY DEF CoveredInv, AuditInv, PayInv, PayTypeOK
<1>1. ASSUME UNCHANGED <<cron, manual>> PROVE PeriodRead
  BY <1>1 DEF PeriodRead
<1>2. ASSUME UNCHANGED manual, cron' = CronIdle PROVE PeriodRead
  BY <1>2 DEF PeriodRead, CronIdle
<1>3. CASE UNCHANGED allVars
  BY <1>1, <1>3 DEF allVars, payVars
<1>4. CASE CronFind
  BY <1>4 DEF CronFind, PeriodRead, CronIdle
<1>5. CASE CronFilter
  <2>1. cron' \in {CronIdle, [cron EXCEPT !.step = "generate"]} /\ UNCHANGED manual
    BY <1>5 DEF CronFilter
  <2>2. cron # CronIdle
    BY <1>5 DEF CronFilter, CronIdle
  <2> QED
    BY <1>0, <1>2, <2>1, <2>2 DEF PeriodRead, CronState
<1>6. CASE CronGenerate
  <2>1. PICK i \in Invoices :
          /\ Generate(i, cron.period)
          /\ cron' = [cron EXCEPT !.step = "generated", !.inv = i]
    BY <1>6 DEF CronGenerate
  <2>2. periodOf'[i] = cron.period
    BY <1>0, <2>1 DEF Generate, PayInv, PayTypeOK
  <2>3. cron' = [step |-> "generated", inv |-> i, period |-> cron.period]
    BY <1>0, <1>6, <2>1 DEF CronGenerate, CronState, CronIdle
  <2> QED
    BY <1>6, <2>2, <2>3 DEF CronGenerate, PeriodRead
<1>7. ASSUME UNCHANGED manual, cron.step \in {"generated", "finalize"}, NEW step,
             cron' = [cron EXCEPT !.step = step]
      PROVE  PeriodRead
  <2>1. cron # CronIdle
    BY <1>7 DEF CronIdle
  <2>2. cron'.inv = cron.inv /\ cron'.period = cron.period
    BY <1>0, <1>7, <2>1 DEF CronState
  <2> QED
    BY <1>7, <2>2 DEF PeriodRead
<1>8. CASE CronFinalize
  BY <1>7, <1>8 DEF CronFinalize
<1>9. CASE CronCall
  <2>1. cron.step = "finalize"
    BY <1>0, <1>9, PaymentsAssumption, OwnCall DEF CronCall, PayInv, PayTypeOK, CallsHeld
  <2>2. UNCHANGED manual /\ cron' \in {cron, CronIdle, [cron EXCEPT !.step = "advance"]}
    BY <1>9 DEF CronCall, CronResumes
  <2> QED
    BY <1>1, <1>2, <1>7, <2>1, <2>2
<1>10. CASE CronAdvance \/ CronFails
  BY <1>2, <1>10 DEF CronAdvance, CronFails
<1>11. CASE ManualRead \/ ManualGenerate
  BY <1>11 DEF ManualRead, ManualGenerate, PeriodRead
<1>12. ASSUME NEW kind \in AuditKinds, Audit(kind) \/ AuditFails(kind) PROVE PeriodRead
  BY <1>1, <1>12 DEF Audit, AuditFails
<1>13. ASSUME NEW a \in Admins,
              \/ \E op \in Operation, i \in Invoices : AdminRequest(a, op, i)
              \/ AdminCall(a) \/ JobChecks(a) \/ JobCreatesIntent(a) \/ JobRecords(a)
              \/ JobFails(a)
       PROVE  PeriodRead
  BY <1>1, <1>13
  DEF AdminRequest, payVars, AdminCall, JobChecks, JobCreatesIntent, JobRecords, JobFails
<1>14. ASSUME NEW p \in Payment, NEW type \in EventTypes, Emit(p, type) PROVE PeriodRead
  BY <1>1, <1>14 DEF Emit
<1>15. ASSUME NEW h \in Handlers,
              \/ \E e \in emitted : Receive(h, e)
              \/ HandlerStep(h) \/ HandlerFails(h)
       PROVE  PeriodRead
  BY <1>1, <1>15
  DEF Receive, HandlerStep, Find, UpdateSucceeded, HandlerCall, ReadSubscription,
      HandlerAdvance, UpdateFailed, Schedule, SetPastDue, HandlerFails
<1>16. ASSUME NEW c \in Callers, CallerFails(c) PROVE PeriodRead
  BY <1>1, <1>2, <1>16 DEF CallerFails
<1> QED
  BY <1>3, <1>4, <1>5, <1>6, <1>8, <1>9, <1>10, <1>11, <1>12, <1>13, <1>14, <1>15, <1>16
  DEF PayNext, CronStep, AdminStep

LEMMA PeriodsStep == PeriodsInv /\ [PayNext]_allVars => PeriodsInv'
<1> SUFFICES ASSUME PeriodsInv, [PayNext]_allVars PROVE PeriodsInv'
  OBVIOUS
<1>0. CoveredInv /\ CoveredInv' /\ Progress /\ PeriodRead /\ RowsDated
  BY CoveredStep, PeriodReadStep DEF PeriodsInv
<1>r. RowsDated'
  BY <1>0, RowsDatedStep
<1> SUFFICES ASSUME ChargedOnce' PROVE After
  BY <1>0, <1>r DEF PeriodsInv, After
<1>1. ChargedOnce
  <2>1. finalizations \in [Invoices -> Nat] /\ finalizations' \in [Invoices -> Nat]
    BY <1>0 DEF CoveredInv, AuditInv, PayInv, PayTypeOK
  <2>2. \A i \in Invoices : FinalizedOnce(i)
    BY <1>0, <2>1 DEF ChargedOnce, FinalizedOnce, Progress
  <2>3. \A i \in Invoices : finalizations[i] >= 1 =>
          finalizations'[i] >= 1 /\ periodOf'[i] = periodOf[i]
    BY <1>0, ChargedKeeps
  <2>4. ASSUME NEW i \in Invoices, NEW j \in Invoices, i # j, i \in Charged(periodOf[i]),
               j \in Charged(periodOf[i])
        PROVE  FALSE
    <3>1. i \in Charged(periodOf[i])' /\ j \in Charged(periodOf[i])'
      BY <2>3, <2>4 DEF Charged
    <3> QED
      BY <2>4, <3>1 DEF ChargedOnce
  <2> QED
    BY <2>2, <2>4 DEF ChargedOnce
<1>2. RequestMove /\ IntentMove
  BY <1>0, RequestsMove, IntentsMove DEF CoveredInv, AuditInv
<1>3. Before
  BY <1>0, <1>1, <1>2 DEF Before, PeriodsInv
<1>4. ASSUME UNCHANGED <<period, cron, job, provider>> PROVE After
  BY <1>3, <1>4, TurnsRest
<1>5. ASSUME UNCHANGED <<period, job, provider>>, cron'.step # "advance" PROVE After
  BY <1>3, <1>5, CronEnds
<1>6. CASE UNCHANGED allVars \/ ManualRead \/ ManualGenerate
  BY <1>4, <1>6 DEF allVars, payVars, ManualRead, ManualGenerate
<1>7. CASE CronFind \/ CronFilter \/ CronGenerate
  <2>1. cron'.step # "advance"
    <3>1. CASE CronFind
      BY <3>1 DEF CronFind, CronIdle
    <3>2. CASE CronFilter
      BY <1>3, <3>2, BeforeKnows DEF CronFilter, CronState, CronIdle
    <3>3. CASE CronGenerate
      BY <1>3, <3>3, BeforeKnows DEF CronGenerate, CronState, CronIdle
    <3> QED
      BY <1>7, <3>1, <3>2, <3>3
  <2> QED
    BY <1>5, <1>7, <2>1 DEF CronFind, CronFilter, CronGenerate
<1>8. CASE CronFinalize
  <2>1. cron \in CronState \ {CronIdle} /\ cron' = [cron EXCEPT !.step = "finalize"]
    BY <1>3, <1>8, BeforeKnows DEF CronFinalize, CronIdle
  <2>2. cron'.step = "finalize"
    BY <2>1 DEF CronState
  <2> QED
    BY <1>5, <1>8, <2>2 DEF CronFinalize
<1>9. CASE CronCall
  BY <1>3, <1>9, CronServed
<1>10. CASE CronAdvance
  BY <1>3, <1>10, CronTurnGoes DEF CronAdvance
<1>11. CASE CronFails
  <2>1. cron' = CronIdle /\ UNCHANGED <<job, provider, finalizations>> /\ cron'.step # "advance"
    BY <1>11 DEF CronFails, CronIdle
  <2>2. CASE UNCHANGED period
    BY <1>5, <2>1, <2>2
  <2>3. CASE cron.step = "advance" /\ AdvanceFrom(cron.period)
    BY <1>3, <2>1, <2>3, CronTurnGoes
  <2> QED
    BY <1>11, <2>2, <2>3 DEF CronFails
<1>12. ASSUME NEW kind \in AuditKinds, Audit(kind) \/ AuditFails(kind) PROVE After
  BY <1>4, <1>12 DEF Audit, AuditFails
<1>13. ASSUME NEW a \in Admins, \E op \in Operation, i \in Invoices : AdminRequest(a, op, i)
       PROVE  After
  BY <1>4, <1>13 DEF AdminRequest, payVars
<1>14. ASSUME NEW a \in Admins, AdminCall(a) PROVE After
  BY <1>3, <1>14, AdminServed
<1>15. ASSUME NEW a \in Admins,
              JobChecks(a) \/ JobCreatesIntent(a) \/ JobRecords(a) \/ JobFails(a)
       PROVE  After
  BY <1>3, <1>15, JobServed
<1>16. ASSUME NEW p \in Payment, NEW type \in EventTypes, Emit(p, type) PROVE After
  <2>1. provider \in [Payment -> Intent] /\ provider[p] # NoIntent
    BY <1>3, <1>16, BeforeKnows DEF Emit, NoIntent
  <2>2. \A q \in Payment : provider'[q] # NoIntent => provider[q] # NoIntent
    BY <1>16, <2>1 DEF Emit
  <2>3. UNCHANGED <<period, cron, job>>
    BY <1>16 DEF Emit
  <2>4. NewTurn(None, "none", None)
    BY <1>3, <2>2, <2>3, BeforeKnows, PastRests DEF NewTurn
  <2> QED
    BY <1>3, <2>3, <2>4, NoTurn
<1>17. ASSUME NEW h \in Handlers,
              \/ \E e \in emitted : Receive(h, e)
              \/ Find(h) \/ UpdateSucceeded(h) \/ HandlerCall(h) \/ ReadSubscription(h)
              \/ UpdateFailed(h) \/ Schedule(h) \/ SetPastDue(h)
       PROVE  After
  BY <1>4, <1>17 DEF Receive, Find, UpdateSucceeded, HandlerCall, ReadSubscription,
     UpdateFailed, Schedule, SetPastDue
<1>18. ASSUME NEW h \in Handlers, HandlerAdvance(h) PROVE After
  BY <1>3, <1>18, RequestTurnGoes DEF HandlerAdvance
<1>19. ASSUME NEW h \in Handlers, HandlerFails(h) PROVE After
  <2>1. Finish(h) /\ UNCHANGED <<cron, job, provider, received, finalizations>>
    BY <1>19 DEF HandlerFails
  <2>2. CASE UNCHANGED period
    BY <1>4, <2>1, <2>2
  <2>3. CASE handler[h].step = "advance" /\ AdvanceFrom(handler[h].period)
    BY <1>3, <2>1, <2>3, RequestTurnGoes
  <2> QED
    BY <1>19, <2>2, <2>3 DEF HandlerFails
<1>20. ASSUME NEW c \in Callers, CallerFails(c) PROVE After
  <2>1. UNCHANGED <<period, job, provider>> /\ cron' = IF c = Cron THEN CronIdle ELSE cron
    BY <1>20 DEF CallerFails
  <2>2. CASE c = Cron
    BY <1>5, <2>1, <2>2 DEF CronIdle
  <2>3. CASE c # Cron
    BY <1>4, <2>1, <2>3
  <2> QED
    BY <2>2, <2>3
<1> QED
  BY <1>6, <1>7, <1>8, <1>9, <1>10, <1>11, <1>12, <1>13, <1>14, <1>15, <1>16, <1>17,
     <1>18, <1>19, <1>20
  DEF PayNext, CronStep, AdminStep, HandlerStep

LEMMA PeriodsImplies == PeriodsInv => PeriodsBilled
BY DEF PeriodsInv, PeriodsBilled, Left

\* However the cron, administrators and webhook requests advance the period, whatever
\* invoices are generated beside each other, and whatever fails, no period is left
\* behind without an invoice that was finalized, as long as none is charged twice.
THEOREM PeriodsAreBilled == PaySpec => []PeriodsBilled
  BY PeriodsInit, PeriodsStep, PeriodsImplies, PTL DEF PaySpec

=============================================================================
