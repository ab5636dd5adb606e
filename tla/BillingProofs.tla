----------------------------- MODULE BillingProofs -----------------------------
(***************************************************************************)
(* Proofs about Billing, for every number of subscriptions, periods,       *)
(* invoices, administrators' requests and faults, and every length of a    *)
(* period.                                                                 *)
(***************************************************************************)
EXTENDS Billing, SequenceTheorems, TLAPS

(* Types *)

Row == [status : SubscriptionStatus, start : Nat, end : Nat,
        cancelledAt : Times \union {None}, created : Times]

\* The snapshots the cron has not done with.
Handled == cron.found \union cron.billable \union
           {x \in {cron.at} : cron.step \in {"finalize", "advance"}}

\* What the local variables of the cron hold at each of its steps.
Shape ==
    /\ cron.step \in {"idle", "search"} => cron.at = None /\ cron.inv = 0
    /\ cron.step = "idle" => cron.kind = "full" /\ cron.found = {} /\ cron.billable = {}
    /\ cron.step \in {"finalize", "advance"} =>
         cron.at \in BillableSubscription /\ cron.inv \in DOMAIN invoices /\ cron.found = {}
    /\ cron.step = "advance" => cron.kind = "full"

\* Only expired periods are billed in full, only cancelled ones are prorated.
Reasons ==
    \A x \in Handled : IF cron.kind = "full" THEN x.end <= now ELSE x.cancelledAt # None

\* Payments are of invoices that exist.
PaysInvoices == \A p \in paying : p.inv \in DOMAIN invoices

TypeInv == TypeOK /\ Shape /\ Reasons /\ PaysInvoices

LEMMA CronIdleFields ==
  /\ CronIdle.step = "idle" /\ CronIdle.kind = "full" /\ CronIdle.found = {}
  /\ CronIdle.billable = {} /\ CronIdle.at = None /\ CronIdle.inv = 0
BY DEF CronIdle

LEMMA TypesInit == Init => TypeInv
<1> SUFFICES ASSUME Init PROVE TypeInv
  OBVIOUS
<1>1. /\ 0 \in Times /\ 0 \in Nat /\ 0 \in 0 .. MaxActs /\ 0 \in 0 .. MaxFaults
      /\ None \notin Nat
  BY BillingAssumption DEF Times
<1>2. invoices \in Seq(Invoice) /\ 0 \in 0 .. Len(invoices)
  BY DEF Init
<1>3. TypeOK
  BY <1>1, <1>2 DEF Init, TypeOK, CronIdle, SubscriptionStatus, Kinds
<1>4. Shape /\ Reasons /\ PaysInvoices
  BY CronIdleFields DEF Init, Shape, Reasons, Handled, PaysInvoices
<1> QED
  BY <1>3, <1>4 DEF TypeInv

-----------------------------------------------------------------------------
(* What the steps do to the invoices *)

\* Invoices are not removed, and only their status changes, never back to DRAFT
\* and not once they are paid.
Kept ==
    /\ invoices' \in Seq(Invoice)
    /\ Len(invoices) <= Len(invoices')
    /\ \A i \in DOMAIN invoices :
         /\ i \in DOMAIN invoices'
         /\ invoices'[i].sub = invoices[i].sub /\ invoices'[i].start = invoices[i].start
         /\ invoices'[i].end = invoices[i].end /\ invoices'[i].kind = invoices[i].kind
         /\ invoices[i].status # "DRAFT" => invoices'[i].status # "DRAFT"
         /\ invoices[i].status = "PAID" => invoices'[i].status = "PAID"

SameInvoices == Kept /\ DOMAIN invoices' = DOMAIN invoices

LEMMA InvoiceFields ==
  ASSUME TypeOK
  PROVE  /\ invoices \in Seq(Invoice) /\ Len(invoices) \in Nat
         /\ DOMAIN invoices = 1 .. Len(invoices)
         /\ \A i \in DOMAIN invoices :
              /\ invoices[i] \in Invoice /\ invoices[i].sub \in Subscriptions
              /\ invoices[i].start \in Nat /\ invoices[i].end \in Nat
              /\ invoices[i].kind \in Kinds
<1>1. invoices \in Seq(Invoice)
  BY DEF TypeOK
<1>2. Len(invoices) \in Nat /\ DOMAIN invoices = 1 .. Len(invoices)
  BY <1>1, LenProperties
<1>3. \A i \in DOMAIN invoices : invoices[i] \in Invoice
  BY <1>1, <1>2, ElementOfSeq
<1> QED
  BY <1>1, <1>2, <1>3 DEF Invoice

LEMMA Unchanged == ASSUME TypeOK, UNCHANGED invoices PROVE SameInvoices
BY InvoiceFields DEF Kept, SameInvoices

\* The row that CreateInvoice appends.
LEMMA Created ==
  ASSUME TypeOK, NEW x \in BillableSubscription, NEW kind \in Kinds,
         kind = "prorated" => x.cancelledAt # None, CreateInvoice(x, kind)
  PROVE  /\ Kept
         /\ DOMAIN invoices' = 1 .. (Len(invoices) + 1)
         /\ Len(invoices') = Len(invoices) + 1
         /\ \A i \in DOMAIN invoices : invoices'[i] = invoices[i]
         /\ invoices'[Len(invoices) + 1].sub = x.sub
         /\ invoices'[Len(invoices) + 1].start = x.start
         /\ invoices'[Len(invoices) + 1].kind = kind
         /\ kind = "full" => invoices'[Len(invoices) + 1].end = x.end
         /\ invoices'[Len(invoices) + 1].status = "DRAFT"
<1> DEFINE end == IF kind = "full" THEN x.end ELSE x.cancelledAt
           row == [sub |-> x.sub, start |-> x.start, end |-> end, kind |-> kind,
                   status |-> "DRAFT"]
<1>1. /\ x.sub \in Subscriptions /\ x.start \in Nat /\ x.end \in Nat
      /\ x.cancelledAt \in Times \union {None}
  BY DEF BillableSubscription
<1>2. end \in Nat
  BY <1>1 DEF Kinds, Times
<1>3. row \in Invoice
  BY <1>1, <1>2 DEF Invoice
<1>4. /\ row.sub = x.sub /\ row.start = x.start /\ row.kind = kind /\ row.status = "DRAFT"
      /\ kind = "full" => row.end = x.end
  OBVIOUS
<1>5. invoices' = Append(invoices, row)
  BY DEF CreateInvoice
<1> HIDE DEF end, row
<1>6. /\ invoices' \in Seq(Invoice) /\ Len(invoices') = Len(invoices) + 1
      /\ \A i \in 1 .. Len(invoices) : invoices'[i] = invoices[i]
      /\ invoices'[Len(invoices) + 1] = row
  BY <1>3, <1>5, InvoiceFields, AppendProperties
<1>7. /\ DOMAIN invoices' = 1 .. (Len(invoices) + 1)
      /\ \A i \in 1 .. Len(invoices) : i \in 1 .. (Len(invoices) + 1)
      /\ Len(invoices) <= Len(invoices) + 1
  BY <1>6, InvoiceFields, LenProperties
<1> QED
  BY <1>4, <1>6, <1>7, InvoiceFields DEF Kept

\* A status is written.
LEMMA Rewritten ==
  ASSUME TypeOK, NEW i \in DOMAIN invoices, NEW status \in {"FINALIZED", "PAID", "VOID"},
         invoices[i].status # "PAID",
         invoices' = [invoices EXCEPT ![i].status = status]
  PROVE  /\ SameInvoices /\ Len(invoices') = Len(invoices)
         /\ invoices'[i].status = status
         /\ \A j \in DOMAIN invoices \ {i} : invoices'[j] = invoices[j]
<1> DEFINE row == [invoices[i] EXCEPT !.status = status]
<1>1. invoices[i] \in Invoice
  BY InvoiceFields
<1>2. /\ row \in Invoice /\ row.status = status /\ row.sub = invoices[i].sub
      /\ row.start = invoices[i].start /\ row.end = invoices[i].end
      /\ row.kind = invoices[i].kind
  BY <1>1 DEF Invoice
<1>3. invoices' = [invoices EXCEPT ![i] = row]
  OBVIOUS
<1> HIDE DEF row
<1>4. /\ invoices' \in Seq(Invoice) /\ Len(invoices') = Len(invoices)
      /\ DOMAIN invoices' = DOMAIN invoices
      /\ \A j \in DOMAIN invoices : invoices'[j] = IF j = i THEN row ELSE invoices[j]
  <2>1. invoices \in Seq(Invoice) /\ i \in 1 .. Len(invoices) /\ DOMAIN invoices = 1 .. Len(invoices)
    BY InvoiceFields
  <2> QED
    BY <1>2, <1>3, <2>1, ExceptSeq
<1>5. /\ row.status # "DRAFT"
      /\ \A j \in DOMAIN invoices : invoices[j].status = "PAID" => j # i
  BY <1>2
<1>6. ASSUME NEW j \in DOMAIN invoices
      PROVE  /\ invoices'[j].sub = invoices[j].sub /\ invoices'[j].start = invoices[j].start
             /\ invoices'[j].end = invoices[j].end /\ invoices'[j].kind = invoices[j].kind
             /\ invoices[j].status # "DRAFT" => invoices'[j].status # "DRAFT"
             /\ invoices[j].status = "PAID" => invoices'[j].status = "PAID"
  BY <1>2, <1>4, <1>5
<1>7. Kept
  BY <1>4, <1>6, InvoiceFields DEF Kept
<1>8. \A j \in DOMAIN invoices \ {i} : invoices'[j] = invoices[j]
  BY <1>4
<1> QED
  BY <1>2, <1>4, <1>7, <1>8 DEF SameInvoices

-----------------------------------------------------------------------------
(* What the steps do to the cron *)

CronRow ==
    [step : {"idle", "search", "finalize", "advance"}, kind : Kinds,
     found : SUBSET BillableSubscription, billable : SUBSET BillableSubscription,
     at : BillableSubscription \union {None}, inv : Nat]

LEMMA CronFields ==
  ASSUME TypeOK
  PROVE  /\ cron \in CronRow
         /\ cron.step \in {"idle", "search", "finalize", "advance"} /\ cron.kind \in Kinds
         /\ cron.found \subseteq BillableSubscription
         /\ cron.billable \subseteq BillableSubscription
         /\ cron.at \in BillableSubscription \union {None} /\ cron.inv \in 0 .. Len(invoices)
BY InvoiceFields DEF TypeOK, CronRow

\* The cron is at a step with these local variables.
CronIs(step, kind, found, billable, at, inv) ==
    /\ cron' \in CronRow
    /\ cron'.step = step /\ cron'.kind = kind /\ cron'.found = found
    /\ cron'.billable = billable /\ cron'.at = at /\ cron'.inv = inv

LEMMA SnapshotFields ==
  ASSUME TypeOK, NEW s \in Subscriptions
  PROVE  /\ Snapshot(s) \in BillableSubscription
         /\ Snapshot(s).sub = s /\ Snapshot(s).start = sub[s].start
         /\ Snapshot(s).end = sub[s].end /\ Snapshot(s).cancelledAt = sub[s].cancelledAt
BY DEF TypeOK, Snapshot, BillableSubscription

LEMMA TickCron ==
  ASSUME TypeOK, Tick
  PROVE  CronIs("search", "full", {Snapshot(s) : s \in Expired}, {}, None, 0)
<1> DEFINE found == {Snapshot(s) : s \in Expired}
<1>1. cron' = [CronIdle EXCEPT !.step = "search", !.found = found]
  BY DEF Tick
<1>t. found \subseteq BillableSubscription
  BY SnapshotFields DEF Expired, Active
<1> HIDE DEF found
<1>2. CronIs("search", "full", found, {}, None, 0)
  BY <1>1, <1>t DEF CronIs, CronIdle, CronRow, Kinds
<1> QED
  BY <1>2 DEF found

\* One snapshot is looked up.
LEMMA FilterCron ==
  ASSUME TypeOK, Filter
  PROVE  \E x \in cron.found : \E billable \in {cron.billable, cron.billable \union {x}} :
           /\ billable = cron.billable \/ ~AlreadyInvoiced(x)
           /\ CronIs("search", cron.kind, cron.found \ {x}, billable, cron.at, cron.inv)
<1>1. PICK x \in cron.found :
        cron' = [cron EXCEPT !.found = @ \ {x},
                   !.billable = IF AlreadyInvoiced(x) THEN @ ELSE @ \union {x}]
  BY DEF Filter
<1> DEFINE billable == IF AlreadyInvoiced(x) THEN cron.billable ELSE cron.billable \union {x}
<1>2. /\ billable \in {cron.billable, cron.billable \union {x}}
      /\ billable = cron.billable \/ ~AlreadyInvoiced(x)
      /\ billable \subseteq BillableSubscription
  BY CronFields
<1>3. cron' = [cron EXCEPT !.found = cron.found \ {x}, !.billable = billable]
  BY <1>1
<1> HIDE DEF billable
<1>4. CronIs("search", cron.kind, cron.found \ {x}, billable, cron.at, cron.inv)
  BY <1>2, <1>3, CronFields DEF CronIs, CronRow, Filter
<1> QED
  BY <1>2, <1>4

\* The loop goes on to the next subscription.
LEMMA NextCron ==
  ASSUME TypeOK, NextSubscription
  PROVE  CronIs("search", cron.kind, cron.found, cron.billable, None, 0)
BY CronFields DEF NextSubscription, CronIs, CronRow

LEMMA AfterFinalizeCron ==
  ASSUME TypeOK, AfterFinalize
  PROVE  IF cron.kind = "full"
         THEN CronIs("advance", cron.kind, cron.found, cron.billable, cron.at, cron.inv)
         ELSE CronIs("search", cron.kind, cron.found, cron.billable, None, 0)
BY CronFields, NextCron DEF AfterFinalize, CronIs, CronRow

LEMMA FindCancelledCron ==
  ASSUME TypeOK, FindCancelled
  PROVE  CronIs("search", "prorated", {Snapshot(s) : s \in Cancelled}, cron.billable, cron.at,
                cron.inv)
<1> DEFINE found == {Snapshot(s) : s \in Cancelled}
<1>1. cron' = [cron EXCEPT !.kind = "prorated", !.found = found]
  BY DEF FindCancelled
<1>t. found \subseteq BillableSubscription
  BY SnapshotFields DEF Cancelled
<1> HIDE DEF found
<1>2. CronIs("search", "prorated", found, cron.billable, cron.at, cron.inv)
  BY <1>1, <1>t, CronFields DEF CronIs, CronRow, FindCancelled, PhaseDone, Kinds
<1> QED
  BY <1>2 DEF found

LEMMA IdleCron ==
  ASSUME cron' = CronIdle PROVE CronIs("idle", "full", {}, {}, None, 0)
BY DEF CronIs, CronIdle, CronRow, Kinds

\* One subscription is taken out of the loop, and its invoice remembered, or not.
LEMMA GenerateCron ==
  ASSUME TypeOK, GenerateInvoice
  PROVE  \E x \in cron.billable :
           /\ Billing(x) /\ CreateInvoice(x, cron.kind)
           /\ CronIs("finalize", cron.kind, cron.found, cron.billable \ {x}, x, Len(invoices) + 1)
<1>1. PICK x \in cron.billable :
        /\ Billing(x) /\ CreateInvoice(x, cron.kind)
        /\ cron' = [cron EXCEPT !.step = "finalize", !.billable = @ \ {x}, !.at = x,
                                !.inv = Len(invoices) + 1]
  BY DEF GenerateInvoice
<1> DEFINE n == Len(invoices) + 1
<1>n. n \in Nat /\ x \in BillableSubscription
  BY InvoiceFields, CronFields
<1>2. cron' = [cron EXCEPT !.step = "finalize", !.billable = @ \ {x}, !.at = x, !.inv = n]
  BY <1>1
<1> HIDE DEF n
<1>3. CronIs("finalize", cron.kind, cron.found, cron.billable \ {x}, x, n)
  BY <1>n, <1>2, CronFields DEF CronIs, CronRow
<1> QED
  BY <1>1, <1>3 DEF n

LEMMA DroppedCron ==
  ASSUME TypeOK, NEW x \in cron.billable, cron' = [cron EXCEPT !.billable = @ \ {x}]
  PROVE  CronIs(cron.step, cron.kind, cron.found, cron.billable \ {x}, cron.at, cron.inv)
BY CronFields DEF CronIs, CronRow

-----------------------------------------------------------------------------
(* What the steps do to the subscriptions *)

LEMMA SubFields ==
  ASSUME TypeOK
  PROVE  /\ sub \in [Subscriptions -> Row]
         /\ \A s \in Subscriptions :
              /\ sub[s] \in Row /\ sub[s].status \in SubscriptionStatus
              /\ sub[s].start \in Nat /\ sub[s].end \in Nat
              /\ sub[s].cancelledAt \in Times \union {None} /\ sub[s].created \in Times
BY DEF TypeOK, Row

\* Everybody else's subscription.
OtherSubs(s) == \A q \in Subscriptions \ {s} : sub'[q] = sub[q]

\* The period of s starts anew at e.
Advanced(s, e) ==
    /\ sub' \in [Subscriptions -> Row] /\ OtherSubs(s)
    /\ sub'[s].start = e /\ sub'[s].end = e + PeriodLength
    /\ sub'[s].status = sub[s].status /\ sub'[s].created = sub[s].created
    /\ sub'[s].cancelledAt = sub[s].cancelledAt

LEMMA AdvanceSub ==
  ASSUME TypeOK, NEW s \in Subscriptions, NEW e \in Nat,
         sub' = [sub EXCEPT ![s].start = e, ![s].end = e + PeriodLength]
  PROVE  Advanced(s, e)
<1> DEFINE end == e + PeriodLength
           row == [sub[s] EXCEPT !.start = e, !.end = end]
<1>1. end \in Nat
  BY BillingAssumption
<1>2. sub' = [sub EXCEPT ![s] = row]
  BY SubFields
<1> HIDE DEF end
<1>3. /\ row \in Row /\ row.start = e /\ row.end = end
      /\ row.status = sub[s].status /\ row.created = sub[s].created
      /\ row.cancelledAt = sub[s].cancelledAt
  BY <1>1, SubFields DEF Row
<1> HIDE DEF row
<1>4. /\ sub' \in [Subscriptions -> Row] /\ sub'[s] = row /\ OtherSubs(s)
  BY <1>2, <1>3, SubFields DEF OtherSubs
<1> QED
  BY <1>3, <1>4 DEF end, Advanced

LEMMA CancelSub ==
  ASSUME TypeOK, NEW s \in Subscriptions, CancelWrite(s)
  PROVE  /\ sub' \in [Subscriptions -> Row] /\ OtherSubs(s)
         /\ sub'[s].status = "CANCELLED" /\ sub'[s].cancelledAt = now
         /\ sub'[s].start = sub[s].start /\ sub'[s].end = sub[s].end
         /\ sub'[s].created = sub[s].created
<1> DEFINE row == [sub[s] EXCEPT !.status = "CANCELLED", !.cancelledAt = now]
<1>1. sub' = [sub EXCEPT ![s] = row]
  BY SubFields DEF CancelWrite
<1>2. now \in Times
  BY DEF TypeOK
<1>3. /\ row \in Row /\ row.status = "CANCELLED" /\ row.cancelledAt = now
      /\ row.start = sub[s].start /\ row.end = sub[s].end /\ row.created = sub[s].created
  BY <1>2, SubFields DEF Row, SubscriptionStatus
<1> HIDE DEF row
<1>4. /\ sub' \in [Subscriptions -> Row] /\ sub'[s] = row /\ OtherSubs(s)
  BY <1>1, <1>3, SubFields DEF OtherSubs
<1> QED
  BY <1>1, <1>3, <1>4

\* The new subscription is ACTIVE, and some others are cancelled.
LEMMA CommitSub ==
  ASSUME TypeOK, NEW s \in Subscriptions, CreateCommit(s), sub[s].status = "ABSENT"
  PROVE  /\ sub' \in [Subscriptions -> Row]
         /\ sub'[s].status = "ACTIVE" /\ sub'[s].cancelledAt = None
         /\ sub'[s].created = sub'[s].start /\ sub'[s].end = sub'[s].start + PeriodLength
         /\ \A q \in Subscriptions \ {s} :
              \/ sub'[q] = sub[q]
              \/ /\ sub[q].status = "ACTIVE" /\ sub'[q].status = "CANCELLED"
                 /\ sub'[q].cancelledAt \in Times /\ sub'[q].start = sub[q].start
                 /\ sub'[q].end = sub[q].end /\ sub'[q].created = sub[q].created
<1> DEFINE at == creating[s].at
           new == [status |-> "ACTIVE", start |-> at, end |-> at + PeriodLength,
                   cancelledAt |-> None, created |-> at]
           old(q) == [sub[q] EXCEPT !.status = "CANCELLED", !.cancelledAt = at]
           gone == creating[s].seen \intersect Active
<1>1. at \in Times /\ at \in Nat /\ at + PeriodLength \in Nat
  <2>1. creating[s] \in [at : Times, seen : SUBSET Subscriptions]
    BY DEF CreateCommit, TypeOK
  <2>2. at \in Times
    BY <2>1
  <2> HIDE DEF at
  <2> QED
    BY <2>2, BillingAssumption DEF Times
<1>2. /\ new \in Row /\ new.status = "ACTIVE" /\ new.cancelledAt = None
      /\ new.created = new.start /\ new.end = new.start + PeriodLength
  BY <1>1 DEF Row, SubscriptionStatus
<1>3. ASSUME NEW q \in Subscriptions
      PROVE  /\ old(q) \in Row /\ old(q).status = "CANCELLED" /\ old(q).cancelledAt = at
             /\ old(q).start = sub[q].start /\ old(q).end = sub[q].end
             /\ old(q).created = sub[q].created
  BY <1>1, SubFields DEF Row, SubscriptionStatus
<1>4. sub' = [q \in Subscriptions |-> CASE q = s -> new
                                        [] q \in gone -> old(q)
                                        [] OTHER -> sub[q]]
  BY DEF CreateCommit
<1>5. s \notin gone /\ \A q \in gone : sub[q].status = "ACTIVE"
  BY DEF Active
<1> HIDE DEF new, old, gone
<1>6. /\ sub'[s] = new
      /\ \A q \in Subscriptions \ {s} : sub'[q] = IF q \in gone THEN old(q) ELSE sub[q]
  BY <1>4, <1>5
<1>7. sub' \in [Subscriptions -> Row]
  BY <1>2, <1>3, <1>4, <1>5, <1>6, SubFields
<1> QED
  BY <1>1, <1>2, <1>3, <1>5, <1>6, <1>7

-----------------------------------------------------------------------------
(* The steps, by what they do *)

\* The cron alone moves.
CronMoves == UNCHANGED <<now, sub, creating, cancelling, manual, paying, deployment>>

\* A subscription is taken out of the loop: its generation failed, perhaps too late.
Drops ==
    /\ CronMoves
    /\ cron.step = "search" /\ cron.found = {}
    /\ \E x \in cron.billable :
         /\ cron' = [cron EXCEPT !.billable = @ \ {x}]
         /\ \/ UNCHANGED invoices
            \/ deployment.kinds # {} /\ CreateInvoice(x, cron.kind)

\* The invoice becomes FINALIZED, and the loop goes on behind it.
Finalizes ==
    /\ CronMoves
    /\ cron.step = "finalize"
    /\ invoices[cron.inv].status = "DRAFT" /\ Finalize(cron.inv) /\ AfterFinalize

\* The loop goes on to the next subscription without an advance.
GivesUp ==
    /\ CronMoves
    /\ cron.step \in {"finalize", "advance"}
    /\ NextSubscription
    /\ \/ UNCHANGED invoices
       \/ cron.step = "finalize" /\ invoices[cron.inv].status = "DRAFT" /\ Finalize(cron.inv)
    /\ \/ deployment.kinds # {}
       \/ cron.step = "finalize" /\ invoices[cron.inv].status # "DRAFT"

\* The period advances.
Advances ==
    /\ UNCHANGED <<now, creating, cancelling, manual, paying, deployment, invoices>>
    /\ cron.step = "advance"
    /\ AdvancePeriod(cron.at)
    /\ NextSubscription

\* The tick is over.
Stops ==
    /\ CronMoves
    /\ UNCHANGED invoices
    /\ cron' = CronIdle
    /\ PhaseDone \/ deployment.kinds # {}

\* An administrator or a payment writes a status.
Rewrites ==
    /\ UNCHANGED <<now, sub, creating, cancelling, cron, manual, deployment>>
    /\ deployment.actors # {} \/ paying # {}
    /\ \E i \in DOMAIN invoices : \E status \in {"FINALIZED", "PAID", "VOID"} :
         /\ invoices[i].status # "PAID"
         /\ invoices' = [invoices EXCEPT ![i].status = status]

\* At most time passes, or somebody has read something.
Rests ==
    /\ UNCHANGED <<sub, creating, invoices, cron, manual, deployment>>
    /\ now' \in Times /\ now <= now'

LEMMA StepCases ==
  ASSUME TypeOK, PaysInvoices, [Next]_vars
  PROVE  \/ Rests
         \/ \E s \in Subscriptions : CreateBegin(s) \/ CreateCommit(s) \/ CancelWrite(s)
         \/ \E p \in paying : PaymentAdvances(p)
         \/ Tick \/ Filter \/ GenerateInvoice \/ Drops \/ Finalizes \/ GivesUp \/ Advances
         \/ FindCancelled \/ Stops
         \/ ManualRead \/ ManualGenerate \/ Rewrites
<1>1. CASE UNCHANGED vars
  <2>1. now \in Times /\ now <= now
    BY DEF TypeOK, Times
  <2> QED
    BY <1>1, <2>1 DEF vars, Rests
<1>2. CASE TimePasses
  <2>1. now' \in Times /\ now <= now'
    BY <1>2, BillingAssumption DEF TimePasses, TypeOK, Times
  <2> QED
    BY <1>2, <2>1 DEF TimePasses, Rests
<1>3. CASE GenerateFails \/ GenerateAtBound
  BY <1>3 DEF GenerateFails, GenerateAtBound, Billing, Fault, Drops, CronMoves
<1>4. CASE FinalizeInvoice \/ FinalizeFails
  BY <1>4 DEF FinalizeInvoice, FinalizeFails, Fault, Finalizes, GivesUp, CronMoves
<1>5. CASE Advance \/ AdvanceFails
  BY <1>5 DEF Advance, AdvanceFails, Fault, Advances, GivesUp, CronMoves
<1>6. CASE TickEnds \/ TickAborts
  BY <1>6 DEF TickEnds, TickAborts, Fault, Stops, CronMoves
<1>7. ASSUME NEW i \in DOMAIN invoices, AdminFinalize(i) \/ AdminVoid(i) PROVE Rewrites
  BY <1>7 DEF AdminFinalize, AdminVoid, Act, Finalize, Rewrites
<1>8. ASSUME NEW p \in paying, PaymentSucceeds(p) PROVE Rewrites
  BY <1>8 DEF PaymentSucceeds, Rewrites, PaysInvoices
<1>9. ASSUME NEW p \in paying, PaymentReads(p) PROVE Rests
  <2>1. now \in Times /\ now <= now
    BY DEF TypeOK, Times
  <2> QED
    BY <1>9, <2>1 DEF PaymentReads, Rests
<1>10. ASSUME NEW s \in Subscriptions, CancelRead(s) PROVE Rests
  <2>1. now \in Times /\ now <= now
    BY DEF TypeOK, Times
  <2> QED
    BY <1>10, <2>1 DEF CancelRead, Rests
<1> QED
  BY <1>1, <1>2, <1>3, <1>4, <1>5, <1>6, <1>7, <1>8, <1>9, <1>10 DEF Next, Cron, CronFaults

\* Who acts and what fails does not change, and the histories stay in their bounds.
LEMMA BoundsStep ==
  ASSUME TypeOK, [Next]_vars
  PROVE  /\ deployment' = deployment /\ deployment' \in Deployments
         /\ acts' \in 0 .. MaxActs /\ faults' \in 0 .. MaxFaults
<1>1. deployment' = deployment
  BY DEF Next, vars, TimePasses, CreateBegin, CreateCommit, CancelWrite, Cron, CronFaults,
     Tick,
     Filter, GenerateInvoice, GenerateAtBound, FinalizeInvoice, Advance, FindCancelled,
     TickEnds, GenerateFails, FinalizeFails, AdvanceFails, TickAborts, ManualRead,
     ManualGenerate, AdminFinalize, AdminVoid, CancelRead, PaymentSucceeds, PaymentReads,
     PaymentAdvances
<1>2. acts' = acts \/ (acts < MaxActs /\ acts' = acts + 1)
  BY DEF Next, vars, TimePasses, CreateBegin, CreateCommit, CancelWrite, Cron, CronFaults,
     Tick,
     Filter, GenerateInvoice, GenerateAtBound, FinalizeInvoice, Advance, FindCancelled,
     TickEnds, GenerateFails, FinalizeFails, AdvanceFails, TickAborts, ManualRead,
     ManualGenerate, AdminFinalize, AdminVoid, CancelRead, PaymentSucceeds, PaymentReads,
     PaymentAdvances, Act
<1>3. faults' = faults \/ (faults < MaxFaults /\ faults' = faults + 1)
  BY DEF Next, vars, TimePasses, CreateBegin, CreateCommit, CancelWrite, Cron, CronFaults,
     Tick,
     Filter, GenerateInvoice, GenerateAtBound, FinalizeInvoice, Advance, FindCancelled,
     TickEnds, GenerateFails, FinalizeFails, AdvanceFails, TickAborts, ManualRead,
     ManualGenerate, AdminFinalize, AdminVoid, CancelRead, PaymentSucceeds, PaymentReads,
     PaymentAdvances, Fault
<1> QED
  BY <1>1, <1>2, <1>3, BillingAssumption DEF TypeOK

-----------------------------------------------------------------------------
(* The invariant *)

\* The start of a period of s: a number of period lengths after its creation.
OnGrid(s, start) == \E n \in Nat : start = sub[s].created + n * PeriodLength

\* A subscription is cancelled for good, appears once, and its periods follow each
\* other from its creation.
Subs ==
    \A s \in Subscriptions :
        /\ sub[s].cancelledAt # None <=> sub[s].status = "CANCELLED"
        /\ creating[s] # None => sub[s].status = "ABSENT"
        /\ s \in cancelling => sub[s].status # "ABSENT"
        /\ sub[s].status = "ABSENT" => sub[s].start = 0 /\ sub[s].created = 0
        /\ sub[s].status # "ABSENT" =>
             sub[s].end = sub[s].start + PeriodLength /\ OnGrid(s, sub[s].start)

\* What was read of a subscription: one of its periods.
Read(x) ==
    /\ sub[x.sub].status # "ABSENT" /\ OnGrid(x.sub, x.start)
    /\ x.end = x.start + PeriodLength

\* Where no administrator acts only the cron advances periods, so that the snapshots
\* it has not done with are up to date, as far as the period goes.  A subscription
\* is billed once in a loop.
NoAdmin == "admin" \notin deployment.actors

Snapshots ==
    /\ \A x \in Handled :
         /\ Read(x)
         /\ NoAdmin => x.start = sub[x.sub].start
         /\ x.cancelledAt # None => sub[x.sub].status = "CANCELLED"
    /\ \A x, y \in Handled : x.sub = y.sub => x = y
    /\ cron.step \in {"finalize", "advance"} => cron.at \notin cron.billable
    /\ manual # None => Read(manual)

\* Invoices are for periods of their subscriptions.
InvoicesGrid ==
    \A i \in DOMAIN invoices :
        sub[invoices[i].sub].status # "ABSENT" /\ OnGrid(invoices[i].sub, invoices[i].start)

\* An invoice that an administrator has finalized is paid once, and the cron has not
\* finalized it as well.
Payments ==
    /\ paying # {} => ~NoAdmin
    /\ \A p \in paying :
         /\ invoices[p.inv].status # "DRAFT"
         /\ p.step # "intent" => invoices[p.inv].status = "PAID"
         /\ p.step = "advance" => OnGrid(invoices[p.inv].sub, p.end)
         /\ cron.step = "advance" => cron.inv # p.inv
    /\ \A p, q \in paying : p.inv = q.inv => p = q

\* The invoice the cron has generated for the subscription it is billing.
CronInvoice ==
    cron.step \in {"finalize", "advance"} =>
        /\ invoices[cron.inv].sub = cron.at.sub
        /\ invoices[cron.inv].start = cron.at.start
        /\ invoices[cron.inv].kind = cron.kind
        /\ cron.kind = "full" => invoices[cron.inv].end = cron.at.end
        /\ cron.step = "advance" => invoices[cron.inv].status # "DRAFT"

Inv == TypeInv /\ Subs /\ Snapshots /\ CronInvoice /\ InvoicesGrid /\ Payments

\* An invoice that is about to advance the period of its subscription.
Turn(i) ==
    \/ cron.step = "advance" /\ cron.inv = i
    \/ \E p \in paying : p.inv = i

\* While s is charged for no period twice, what was read of it and what was invoiced
\* is not ahead of it, and what is about to advance it is an invoice of its current
\* period.
TurnsOf(s) ==
    ChargedOnce(s) =>
        /\ \A x \in Handled : x.sub = s => x.start <= sub[s].start
        /\ manual # None /\ manual.sub = s => manual.start <= sub[s].start
        /\ \A i \in DOMAIN invoices :
             invoices[i].sub = s => invoices[i].start <= sub[s].start
        /\ \A i \in Charged(s) : Turn(i) => invoices[i].start = sub[s].start
        /\ \A p \in paying :
             p.step = "advance" /\ invoices[p.inv].sub = s => p.end = sub[s].end

Turns == \A s \in Subscriptions : TurnsOf(s)

\* Without the manual generation, what is left to be billed in full has no full
\* invoice yet, and full invoices are whole periods.
NoManual == "manual" \notin deployment.actors

Once ==
    /\ manual # None => ~NoManual
    /\ NoManual =>
         /\ \A i \in DOMAIN invoices :
              invoices[i].kind = "full" => invoices[i].end = invoices[i].start + PeriodLength
         /\ cron.kind = "full" =>
              \A x \in cron.billable : \A i \in DOMAIN invoices :
                ~ /\ invoices[i].kind = "full"
                  /\ invoices[i].sub = x.sub /\ invoices[i].start = x.start
    /\ OneInvoicePerPeriod

\* While nothing fails and nobody interferes, what is invoiced in full lies behind
\* the current period, except for the invoice the cron is about to pass, and only
\* subscriptions that are cancelled and not being billed have prorated invoices.
Apart ==
    Undisturbed =>
        /\ \A i \in DOMAIN invoices :
             IF invoices[i].kind = "full"
             THEN \/ invoices[i].end <= sub[invoices[i].sub].start
                  \/ /\ cron.step \in {"finalize", "advance"}
                     /\ cron.kind = "full" /\ cron.inv = i
             ELSE /\ sub[invoices[i].sub].status = "CANCELLED"
                  /\ invoices[i].start = sub[invoices[i].sub].start
                  /\ cron.kind = "full" => \A x \in Handled : x.sub # invoices[i].sub
        /\ cron.step = "finalize" => invoices[cron.inv].status = "DRAFT"

FullInv == Inv /\ Turns /\ NoPeriodSkipped /\ Once /\ Apart

-----------------------------------------------------------------------------
(* Types and shapes are kept *)

LEMMA HandledFields ==
  ASSUME TypeInv, NEW x \in Handled
  PROVE  /\ x \in BillableSubscription
         /\ x.sub \in Subscriptions /\ x.start \in Nat /\ x.end \in Nat
         /\ cron.kind = "prorated" => x.cancelledAt # None
         /\ cron.kind = "full" => x.end \in Times
<1>1. x \in BillableSubscription
  BY CronFields DEF TypeInv, Handled, Shape
<1>2. now \in Times
  BY DEF TypeInv, TypeOK
<1>3. IF cron.kind = "full" THEN x.end <= now ELSE x.cancelledAt # None
  BY DEF TypeInv, Reasons
<1> QED
  BY <1>1, <1>2, <1>3, BillingAssumption DEF BillableSubscription, Times

\* The invoice that GenerateInvoice or a late failure appends.
LEMMA CronCreates ==
  ASSUME TypeInv, NEW x \in cron.billable, CreateInvoice(x, cron.kind)
  PROVE  /\ Kept
         /\ DOMAIN invoices' = 1 .. (Len(invoices) + 1)
         /\ Len(invoices') = Len(invoices) + 1
         /\ \A i \in DOMAIN invoices : invoices'[i] = invoices[i]
         /\ invoices'[Len(invoices) + 1].sub = x.sub
         /\ invoices'[Len(invoices) + 1].start = x.start
         /\ invoices'[Len(invoices) + 1].kind = cron.kind
         /\ cron.kind = "full" => invoices'[Len(invoices) + 1].end = x.end
         /\ invoices'[Len(invoices) + 1].status = "DRAFT"
<1>1. x \in Handled
  BY DEF Handled
<1> QED
  BY <1>1, HandledFields, CronFields, Created DEF TypeInv

LEMMA CronRewrites ==
  ASSUME TypeInv, cron.step = "finalize", invoices[cron.inv].status = "DRAFT",
         Finalize(cron.inv)
  PROVE  /\ SameInvoices /\ invoices'[cron.inv].status = "FINALIZED"
         /\ \A j \in DOMAIN invoices \ {cron.inv} : invoices'[j] = invoices[j]
<1>1. cron.inv \in DOMAIN invoices
  BY DEF TypeInv, Shape
<1> QED
  BY <1>1, Rewritten DEF Finalize, TypeInv

LEMMA KeptStep == ASSUME TypeInv, [Next]_vars PROVE Kept
<1>1. CASE UNCHANGED invoices
  BY <1>1, Unchanged DEF TypeInv, SameInvoices
<1>2. ASSUME NEW x \in cron.billable, CreateInvoice(x, cron.kind) PROVE Kept
  BY <1>2, CronCreates
<1>3. CASE /\ cron.step = "finalize" /\ invoices[cron.inv].status = "DRAFT"
          /\ Finalize(cron.inv)
  BY <1>3, CronRewrites DEF SameInvoices
<1>4. CASE Rewrites
  BY <1>4, Rewritten DEF Rewrites, TypeInv, SameInvoices
<1>5. CASE ManualGenerate
  <2>1. manual \in BillableSubscription /\ ManualKind \in Kinds
        /\ (ManualKind = "prorated" => manual.cancelledAt # None)
    BY <1>5 DEF ManualGenerate, ManualKind, Kinds, TypeInv, TypeOK
  <2> QED
    BY <1>1, <1>5, <2>1, Created DEF ManualGenerate, TypeInv
<1> QED
  BY <1>1, <1>2, <1>3, <1>4, <1>5, StepCases DEF TypeInv, Rests, PaymentAdvances,
     CreateBegin, CreateCommit,
     CancelWrite, Tick, Filter, GenerateInvoice, Drops, Finalizes, GivesUp, Advances,
     FindCancelled,
     Stops, ManualRead

LEMMA AtFields ==
  ASSUME TypeInv, cron.step \in {"finalize", "advance"}
  PROVE  cron.at \in Handled /\ cron.inv \in DOMAIN invoices /\ cron.found = {}
BY DEF TypeInv, Shape, Handled

\* What the cron has in hand, while it searches or not.
LEMMA HandledNow ==
  ASSUME TypeInv
  PROVE  /\ cron.step \in {"idle", "search"} => Handled = cron.found \union cron.billable
         /\ cron.step \in {"finalize", "advance"} => Handled = cron.billable \union {cron.at}
BY CronFields DEF TypeInv, Shape, Handled

\* The expired subscriptions found are expired, the cancelled ones cancelled.
LEMMA FoundFields ==
  ASSUME TypeOK
  PROVE  /\ \A x \in {Snapshot(s) : s \in Expired} :
              /\ x.sub \in Subscriptions /\ sub[x.sub].status = "ACTIVE" /\ x.end <= now
              /\ x.start = sub[x.sub].start /\ x.end = sub[x.sub].end
              /\ x.cancelledAt = sub[x.sub].cancelledAt /\ x = Snapshot(x.sub)
         /\ \A x \in {Snapshot(s) : s \in Cancelled} :
              /\ x.sub \in Subscriptions /\ sub[x.sub].cancelledAt # None
              /\ x.cancelledAt # None
              /\ x.start = sub[x.sub].start /\ x.end = sub[x.sub].end
              /\ x.cancelledAt = sub[x.sub].cancelledAt /\ x = Snapshot(x.sub)
BY SnapshotFields DEF Expired, Active, Cancelled

LEMMA CronStep ==
  ASSUME TypeInv, [Next]_vars
  PROVE  cron' \in CronRow /\ cron'.inv <= Len(invoices') /\ Shape' /\ Reasons'
<1> DEFINE Good == cron' \in CronRow /\ cron'.inv <= Len(invoices') /\ Shape' /\ Reasons'
<1>k. Kept
  BY KeptStep
<1>t. /\ cron \in CronRow /\ cron.inv <= Len(invoices) /\ Shape /\ Reasons
      /\ now \in Nat /\ now' \in Nat /\ now <= now'
      /\ Len(invoices) \in Nat /\ Len(invoices') \in Nat /\ Len(invoices) <= Len(invoices')
      /\ 0 <= Len(invoices')
  <2>1. now \in Nat /\ now' \in Nat /\ now <= now'
    <3>1. now \in Nat /\ LastTime \in Nat
      BY BillingAssumption DEF TypeInv, TypeOK, Times
    <3>2. now' = now \/ (now' \in Times /\ now <= now')
      BY StepCases DEF TypeInv, Rests, PaymentAdvances, CreateBegin, CreateCommit,
         CancelWrite, Tick, Filter,
         GenerateInvoice, Drops, Finalizes, GivesUp, Advances, FindCancelled, Stops, Rewrites,
         CronMoves, ManualRead, ManualGenerate
    <3> QED
      BY <3>1, <3>2 DEF Times
  <2>2. Len(invoices) \in Nat /\ Len(invoices') \in Nat /\ Len(invoices) <= Len(invoices')
    BY <1>k, InvoiceFields, LenProperties DEF Kept, TypeInv
  <2> QED
    BY <2>1, <2>2, CronFields DEF TypeInv
<1>f. /\ cron.step \in {"idle", "search", "finalize", "advance"} /\ cron.kind \in Kinds
      /\ \A x \in Handled : x.end \in Nat
  BY CronFields, HandledFields DEF TypeInv
<1>0. CASE UNCHANGED cron
  <2>1. cron' \in CronRow /\ cron'.inv <= Len(invoices')
    BY <1>0, <1>t DEF CronRow
  <2>2. Shape'
    BY <1>0, <1>k, <1>t DEF Shape, Kept
  <2>3. Reasons'
    BY <1>0, <1>t, <1>f DEF Reasons, Handled
  <2> QED
    BY <2>1, <2>2, <2>3
<1>1. CASE Tick
  <2>1. CronIs("search", "full", {Snapshot(s) : s \in Expired}, {}, None, 0) /\ now' = now
    BY <1>1, TickCron DEF TypeInv, Tick
  <2>2. Shape' /\ cron' \in CronRow /\ cron'.inv <= Len(invoices')
    BY <2>1, <1>t DEF Shape, CronIs
  <2>3. Reasons'
    BY <2>1, FoundFields DEF Reasons, Handled, CronIs, TypeInv
  <2> QED
    BY <2>2, <2>3
<1>2. CASE FindCancelled
  <2>1. /\ CronIs("search", "prorated", {Snapshot(s) : s \in Cancelled}, cron.billable, cron.at,
                  cron.inv)
        /\ now' = now /\ cron.billable = {} /\ cron.step = "search"
    BY <1>2, FindCancelledCron DEF TypeInv, FindCancelled, PhaseDone
  <2>2. Shape' /\ cron' \in CronRow /\ cron'.inv <= Len(invoices')
    BY <2>1, <1>t DEF Shape, CronIs
  <2>3. Reasons'
    BY <2>1, <1>t, FoundFields DEF Reasons, Handled, CronIs, TypeInv, Shape
  <2> QED
    BY <2>2, <2>3
<1>3. CASE Filter
  <2>1. PICK x \in cron.found : \E billable \in {cron.billable, cron.billable \union {x}} :
          CronIs("search", cron.kind, cron.found \ {x}, billable, cron.at, cron.inv)
    BY <1>3, FilterCron DEF TypeInv
  <2>2. cron.step = "search" /\ now' = now
    BY <1>3 DEF Filter
  <2>3. Shape' /\ cron' \in CronRow /\ cron'.inv <= Len(invoices')
    BY <2>1, <2>2, <1>t DEF Shape, CronIs
  <2>4. Reasons'
    BY <2>1, <2>2, <1>t DEF Reasons, Handled, CronIs
  <2> QED
    BY <2>3, <2>4
<1>4. CASE GenerateInvoice
  <2>1. PICK x \in cron.billable :
          /\ Billing(x) /\ CreateInvoice(x, cron.kind)
          /\ CronIs("finalize", cron.kind, cron.found, cron.billable \ {x}, x, Len(invoices) + 1)
    BY <1>4, GenerateCron DEF TypeInv
  <2>2. /\ now' = now /\ x \in Handled /\ x \in BillableSubscription /\ cron.found = {}
        /\ Len(invoices') = Len(invoices) + 1 /\ Len(invoices) + 1 \in DOMAIN invoices'
    <3>1. x \in Handled /\ cron.found = {} /\ now' = now
      BY <2>1, <1>4 DEF Handled, Billing, GenerateInvoice
    <3>2. x \in BillableSubscription
      BY <3>1, HandledFields
    <3> QED
      BY <2>1, <3>1, <3>2, CronCreates, <1>t
  <2>3. Shape' /\ cron' \in CronRow /\ cron'.inv <= Len(invoices')
    BY <2>1, <2>2, <1>t DEF Shape, CronIs
  <2>4. Reasons'
    BY <2>1, <2>2, <1>t DEF Reasons, Handled, CronIs
  <2> QED
    BY <2>3, <2>4
<1>5. CASE Drops
  <2>1. PICK x \in cron.billable : cron' = [cron EXCEPT !.billable = @ \ {x}]
    BY <1>5 DEF Drops
  <2>2. /\ CronIs(cron.step, cron.kind, cron.found, cron.billable \ {x}, cron.at, cron.inv)
        /\ cron.step = "search" /\ now' = now
    BY <1>5, <2>1, DroppedCron DEF Drops, CronMoves, TypeInv
  <2>3. Shape' /\ cron' \in CronRow /\ cron'.inv <= Len(invoices')
    BY <2>2, <1>t DEF Shape, CronIs
  <2>4. Reasons'
    BY <2>2, <1>t DEF Reasons, Handled, CronIs
  <2> QED
    BY <2>3, <2>4
<1>6. ASSUME cron.step \in {"finalize", "advance"}, NextSubscription, now' = now PROVE Good
  <2>1. CronIs("search", cron.kind, cron.found, cron.billable, None, 0)
    BY <1>6, NextCron DEF TypeInv
  <2>3. Shape' /\ cron' \in CronRow /\ cron'.inv <= Len(invoices')
    BY <2>1, <1>t DEF Shape, CronIs
  <2>4. Reasons'
    BY <2>1, <1>6, <1>t DEF Reasons, Handled, CronIs
  <2> QED
    BY <2>3, <2>4
<1>7. CASE Finalizes
  <2>1. CASE cron.kind = "full"
    <3>1. /\ CronIs("advance", cron.kind, cron.found, cron.billable, cron.at, cron.inv)
          /\ cron.step = "finalize" /\ now' = now
      BY <1>7, <2>1, AfterFinalizeCron DEF TypeInv, Finalizes, CronMoves
    <3>2. Shape' /\ cron' \in CronRow /\ cron'.inv <= Len(invoices')
      BY <2>1, <3>1, <1>t, <1>k DEF Shape, CronIs, Kept
    <3>3. Reasons'
      BY <3>1, <1>t DEF Reasons, Handled, CronIs
    <3> QED
      BY <3>2, <3>3
  <2>2. CASE cron.kind # "full"
    BY <1>6, <1>7, <2>2 DEF Finalizes, AfterFinalize, CronMoves
  <2> QED
    BY <2>1, <2>2
<1>8. CASE Stops
  <2>1. CronIs("idle", "full", {}, {}, None, 0)
    BY <1>8, IdleCron DEF Stops
  <2> QED
    BY <2>1, <1>t DEF Shape, Reasons, Handled, CronIs
<1> QED
  BY <1>0, <1>1, <1>2, <1>3, <1>4, <1>5, <1>6, <1>7, <1>8, StepCases DEF TypeInv, Rests,
     PaymentAdvances,
     CreateBegin, CreateCommit, CancelWrite, GivesUp, Advances, Rewrites, CronMoves,
     ManualRead,
     ManualGenerate

-----------------------------------------------------------------------------
(* Subscriptions *)

\* The period advances for the one the cron is billing.
LEMMA AdvancesFacts ==
  ASSUME Inv, Advances
  PROVE  /\ cron.at \in Handled /\ cron.at.sub \in Subscriptions /\ cron.kind = "full"
         /\ cron.at.end \in Times /\ cron.at.end \in Nat /\ Read(cron.at)
         /\ cron.inv \in DOMAIN invoices /\ cron.found = {}
         /\ Advanced(cron.at.sub, cron.at.end)
         /\ CronIs("search", cron.kind, cron.found, cron.billable, None, 0)
<1>1. /\ cron.at \in Handled /\ cron.kind = "full" /\ AdvancePeriod(cron.at)
      /\ cron.inv \in DOMAIN invoices /\ cron.found = {}
  BY AtFields DEF Advances, Inv, TypeInv, Shape
<1>2. /\ cron.at.sub \in Subscriptions /\ cron.at \in BillableSubscription
      /\ cron.at.end \in Times /\ cron.at.end \in Nat
  BY <1>1, HandledFields DEF Inv
<1>3. Read(cron.at)
  BY <1>1 DEF Inv, Snapshots
<1>4. Advanced(cron.at.sub, cron.at.end)
  BY <1>1, <1>2, AdvanceSub DEF Inv, TypeInv, AdvancePeriod
<1> QED
  BY <1>1, <1>2, <1>3, <1>4, NextCron DEF Inv, TypeInv, Advances

\* The period advances for a payment.
LEMMA PaymentFacts ==
  ASSUME TypeOK, PaysInvoices, NEW p \in paying
  PROVE  /\ p \in Payment /\ p.inv \in DOMAIN invoices /\ p.end \in Nat
         /\ p.step \in {"intent", "read", "advance"}
         /\ invoices[p.inv].sub \in Subscriptions
BY InvoiceFields DEF TypeOK, PaysInvoices, Payment

LEMMA PaymentAdvancesFacts ==
  ASSUME TypeOK, PaysInvoices, NEW p \in paying, PaymentAdvances(p)
  PROVE  Advanced(invoices[p.inv].sub, p.end)
<1>1. /\ AdvancePeriod([sub |-> invoices[p.inv].sub, end |-> p.end])
      /\ invoices[p.inv].sub \in Subscriptions /\ p.end \in Nat
  BY PaymentFacts DEF PaymentAdvances
<1> QED
  BY <1>1, AdvanceSub DEF AdvancePeriod

\* What the steps do to the payments.
LEMMA PaymentsStep ==
  ASSUME TypeInv, [Next]_vars
  PROVE  /\ paying' \subseteq Payment
         /\ \A p \in paying' : p.inv \in DOMAIN invoices
<1>k. \A p \in paying : p \in Payment /\ p.inv \in DOMAIN invoices
  BY PaymentFacts DEF TypeInv
<1>1. ASSUME NEW i \in DOMAIN invoices, AdminFinalize(i)
      PROVE  /\ paying' \subseteq Payment
             /\ \A p \in paying' : p.inv \in DOMAIN invoices
  <2>1. [inv |-> i, step |-> "intent", end |-> 0] \in Payment
    BY InvoiceFields DEF Payment, TypeInv
  <2> QED
    BY <1>1, <1>k, <2>1 DEF AdminFinalize
<1>2. ASSUME NEW p \in paying, PaymentSucceeds(p) \/ PaymentReads(p) \/ PaymentAdvances(p)
      PROVE  /\ paying' \subseteq Payment
             /\ \A q \in paying' : q.inv \in DOMAIN invoices
  <2>1. p.inv \in Nat /\ sub[invoices[p.inv].sub].end \in Nat
    BY PaymentFacts, SubFields DEF Payment, TypeInv
  <2>2. /\ [inv |-> p.inv, step |-> "read", end |-> 0] \in Payment
        /\ [inv |-> p.inv, step |-> "advance", end |-> sub[invoices[p.inv].sub].end]
              \in Payment
    BY <2>1 DEF Payment
  <2> QED
    BY <1>2, <1>k, <2>2 DEF PaymentSucceeds, PaymentReads, PaymentAdvances
<1>3. CASE UNCHANGED paying
  BY <1>3, <1>k
<1> QED
  BY <1>1, <1>2, <1>3 DEF Next, vars, TimePasses, CreateBegin, CreateCommit, CancelRead,
     CancelWrite, Cron, CronFaults, Tick, Filter, GenerateInvoice, GenerateAtBound,
     FinalizeInvoice, Advance, FindCancelled, TickEnds, GenerateFails, FinalizeFails,
     AdvanceFails, TickAborts, ManualRead, ManualGenerate, AdminVoid

LEMMA CancellingStep ==
  ASSUME [Next]_vars
  PROVE  \A s \in cancelling' : s \in cancelling \/ (s \in Active /\ UNCHANGED sub)
BY DEF Next, vars, TimePasses, CreateBegin, CreateCommit, CancelRead,
   CancelWrite, Cron, CronFaults, Tick, Filter, GenerateInvoice, GenerateAtBound,
   FinalizeInvoice, Advance, FindCancelled, TickEnds, GenerateFails, FinalizeFails,
   AdvanceFails, TickAborts, ManualRead, ManualGenerate, AdminFinalize, AdminVoid,
   PaymentSucceeds, PaymentReads, PaymentAdvances

LEMMA TypeStep == Inv /\ [Next]_vars => TypeInv'
<1> SUFFICES ASSUME Inv, [Next]_vars PROVE TypeInv'
  OBVIOUS
<1>1. cron' \in CronRow /\ cron'.inv <= Len(invoices') /\ Shape' /\ Reasons'
  BY CronStep DEF Inv
<1>2. invoices' \in Seq(Invoice) /\ Len(invoices') \in Nat
  BY KeptStep, LenProperties DEF Inv, Kept
<1>3. cron' \in [step : {"idle", "search", "finalize", "advance"}, kind : Kinds,
                 found : SUBSET BillableSubscription, billable : SUBSET BillableSubscription,
                 at : BillableSubscription \union {None}, inv : 0 .. Len(invoices')]
  <2>1. cron'.inv \in 0 .. Len(invoices')
    BY <1>1, <1>2 DEF CronRow
  <2> QED
    BY <1>1, <2>1 DEF CronRow
<1>4. now' \in Times
  BY StepCases DEF Inv, TypeInv, TypeOK, Rests, PaymentAdvances, CreateBegin, CreateCommit,
     CancelWrite, Tick, Filter,
     GenerateInvoice, Drops, Finalizes, GivesUp, Advances, FindCancelled, Stops, Rewrites,
     CronMoves, ManualRead, ManualGenerate
<1>5. sub' \in [Subscriptions -> Row]
  <2>1. CASE UNCHANGED sub
    BY <2>1, SubFields DEF Inv, TypeInv
  <2>2. ASSUME NEW s \in Subscriptions, CreateCommit(s) PROVE sub' \in [Subscriptions -> Row]
    <3>1. sub[s].status = "ABSENT"
      BY <2>2 DEF CreateCommit, Inv, Subs
    <3> QED
      BY <2>2, <3>1, CommitSub DEF Inv, TypeInv
  <2>3. ASSUME NEW s \in Subscriptions, CancelWrite(s) PROVE sub' \in [Subscriptions -> Row]
    BY <2>3, CancelSub DEF Inv, TypeInv
  <2>4. CASE Advances
    BY <2>4, AdvancesFacts DEF Advanced
  <2>5. ASSUME NEW p \in paying, PaymentAdvances(p) PROVE sub' \in [Subscriptions -> Row]
    BY <2>5, PaymentAdvancesFacts DEF Advanced, Inv, TypeInv
  <2> QED
    BY <2>1, <2>2, <2>3, <2>4, <2>5, StepCases DEF Inv, TypeInv, Rests, PaymentAdvances,
       CreateBegin, Tick, Filter,
       GenerateInvoice, Drops, Finalizes, GivesUp, FindCancelled, Stops, Rewrites, CronMoves,
       ManualRead, ManualGenerate
<1>6. creating' \in [Subscriptions -> {None} \union [at : Times, seen : SUBSET Subscriptions]]
  <2>1. CASE UNCHANGED creating
    BY <2>1 DEF Inv, TypeInv, TypeOK
  <2>2. ASSUME NEW s \in Subscriptions, CreateBegin(s) \/ CreateCommit(s)
        PROVE  creating' \in [Subscriptions -> {None} \union
                                               [at : Times, seen : SUBSET Subscriptions]]
    <3>1. now \in Times /\ Active \subseteq Subscriptions
      BY DEF Inv, TypeInv, TypeOK, Active
    <3>2. [at |-> now, seen |-> Active] \in [at : Times, seen : SUBSET Subscriptions]
      BY <3>1
    <3> QED
      BY <2>2, <3>2 DEF Inv, TypeInv, TypeOK, CreateBegin, CreateCommit
  <2> QED
    BY <2>1, <2>2, StepCases DEF Inv, TypeInv, Rests, PaymentAdvances, CancelWrite, Tick,
       Filter, GenerateInvoice,
       Drops, Finalizes, GivesUp, Advances, FindCancelled, Stops, Rewrites, CronMoves,
       ManualRead, ManualGenerate
<1>7. manual' \in BillableSubscription \union {None}
  <2>1. CASE ManualRead
    BY <2>1, SnapshotFields DEF ManualRead, Active, Cancelled, Inv, TypeInv
  <2> QED
    BY <2>1, StepCases DEF Inv, TypeInv, TypeOK, Rests, PaymentAdvances, CreateBegin,
       CreateCommit, CancelWrite, Tick,
       Filter, GenerateInvoice, Drops, Finalizes, GivesUp, Advances, FindCancelled, Stops,
       Rewrites, CronMoves, ManualGenerate
<1>8. /\ deployment' \in Deployments /\ acts' \in 0 .. MaxActs /\ faults' \in 0 .. MaxFaults
  BY BoundsStep DEF Inv, TypeInv
<1>9. paying' \subseteq Payment /\ cancelling' \subseteq Subscriptions
  BY PaymentsStep, CancellingStep DEF Inv, TypeInv, TypeOK, Active
<1>10. TypeOK'
  BY <1>2, <1>3, <1>4, <1>5, <1>6, <1>7, <1>8, <1>9 DEF TypeOK, Row
<1>11. PaysInvoices'
  BY PaymentsStep, KeptStep DEF Inv, Kept, PaysInvoices
<1> QED
  BY <1>1, <1>10, <1>11 DEF TypeInv

\* A period further is one more period length.
LEMMA OneMore ==
  ASSUME NEW c \in Nat, NEW n \in Nat
  PROVE  /\ n + 1 \in Nat
         /\ (c + n * PeriodLength) + PeriodLength = c + (n + 1) * PeriodLength
BY BillingAssumption

LEMMA ZeroPeriods == ASSUME NEW c \in Nat PROVE c = c + 0 * PeriodLength
BY BillingAssumption

\* The end of a period is the start of the next.
LEMMA NextOnGrid ==
  ASSUME TypeOK, NEW s \in Subscriptions, NEW start, OnGrid(s, start)
  PROVE  OnGrid(s, start + PeriodLength)
<1>1. PICK n \in Nat : start = sub[s].created + n * PeriodLength
  BY DEF OnGrid
<1>2. sub[s].created \in Nat
  BY BillingAssumption DEF TypeOK, Times
<1>3. n + 1 \in Nat /\ start + PeriodLength = sub[s].created + (n + 1) * PeriodLength
  BY <1>1, <1>2, OneMore
<1> QED
  BY <1>3 DEF OnGrid


\* What does not change of a subscription that is there.
Lives(q) ==
    /\ sub'[q].created = sub[q].created /\ sub'[q].status # "ABSENT"
    /\ sub[q].status = "CANCELLED" => sub'[q].status = "CANCELLED"

\* A subscription that is there keeps its period, unless the cron or a payment
\* advances it.
Stays(q) == Lives(q) /\ sub'[q].start = sub[q].start /\ sub'[q].end = sub[q].end

PaysFor(q) == \E p \in paying : PaymentAdvances(p) /\ q = invoices[p.inv].sub

LEMMA SubsStay ==
  ASSUME Inv, [Next]_vars
  PROVE  \A q \in Subscriptions :
           sub[q].status # "ABSENT" =>
             /\ Lives(q)
             /\ Stays(q) \/ (Advances /\ q = cron.at.sub) \/ PaysFor(q)
<1>t. TypeOK /\ TypeInv /\ Subs
  BY DEF Inv, TypeInv
<1>1. CASE UNCHANGED sub
  BY <1>1 DEF Stays, Lives
<1>2. ASSUME NEW s \in Subscriptions, CreateCommit(s),
             NEW q \in Subscriptions, sub[q].status # "ABSENT"
      PROVE  Stays(q)
  <2>1. sub[s].status = "ABSENT"
    BY <1>2, <1>t DEF CreateCommit, Subs
  <2> QED
    BY <1>2, <1>t, <2>1, CommitSub DEF Stays, Lives
<1>3. ASSUME NEW s \in Subscriptions, CancelWrite(s),
             NEW q \in Subscriptions, sub[q].status # "ABSENT"
      PROVE  Stays(q)
  BY <1>3, <1>t, CancelSub DEF Stays, Lives, OtherSubs
<1>4. ASSUME NEW s, NEW e, Advanced(s, e),
             NEW q \in Subscriptions, sub[q].status # "ABSENT"
      PROVE  Lives(q) /\ (Stays(q) \/ q = s)
  BY <1>4 DEF Stays, Lives, OtherSubs, Advanced
<1>5. CASE Advances
  BY <1>4, <1>5, AdvancesFacts
<1>6. ASSUME NEW p \in paying, PaymentAdvances(p),
             NEW q \in Subscriptions, sub[q].status # "ABSENT"
      PROVE  Lives(q) /\ (Stays(q) \/ PaysFor(q))
  BY <1>4, <1>6, <1>t, PaymentAdvancesFacts DEF TypeInv, PaysFor
<1> QED
  BY <1>1, <1>2, <1>3, <1>5, <1>6, StepCases, <1>t
     DEF TypeInv, Stays, Rests, CreateBegin, Tick, Filter, GenerateInvoice, Drops, Finalizes,
     GivesUp, FindCancelled, Stops, Rewrites, CronMoves, ManualRead, ManualGenerate

LEMMA GridKept ==
  ASSUME NEW q, Lives(q), NEW start, OnGrid(q, start)
  PROVE  \E n \in Nat : start = sub'[q].created + n * PeriodLength
BY DEF Lives, OnGrid

LEMMA SubsStep == Inv /\ [Next]_vars => Subs'
<1> SUFFICES ASSUME Inv, [Next]_vars PROVE Subs'
  OBVIOUS
<1>t. TypeOK /\ TypeInv /\ TypeOK' /\ Subs
  BY TypeStep DEF Inv, TypeInv
<1>n. None \notin Times
  BY BillingAssumption DEF Times
<1>c. \A s \in Subscriptions : s \in cancelling' => sub'[s].status # "ABSENT"
  <2> SUFFICES ASSUME NEW s \in Subscriptions,
  s \in cancelling' PROVE sub'[s].status # "ABSENT"
    OBVIOUS
  <2>1. sub[s].status # "ABSENT"
    BY <1>t, CancellingStep DEF Subs, Active
  <2> QED
    BY <2>1, SubsStay DEF Lives
<1> DEFINE Others(s) ==
             /\ sub'[s].cancelledAt # None <=> sub'[s].status = "CANCELLED"
             /\ creating'[s] # None => sub'[s].status = "ABSENT"
             /\ sub'[s].status = "ABSENT" => sub'[s].start = 0 /\ sub'[s].created = 0
             /\ sub'[s].status # "ABSENT" =>
                  /\ sub'[s].end = sub'[s].start + PeriodLength
                  /\ \E n \in Nat : sub'[s].start = sub'[s].created + n * PeriodLength
<1>o. ASSUME NEW s \in Subscriptions
      PROVE  /\ sub[s].cancelledAt # None <=> sub[s].status = "CANCELLED"
             /\ creating[s] # None => sub[s].status = "ABSENT"
             /\ sub[s].status = "ABSENT" => sub[s].start = 0 /\ sub[s].created = 0
             /\ sub[s].status # "ABSENT" =>
                  /\ sub[s].end = sub[s].start + PeriodLength
                  /\ \E n \in Nat : sub[s].start = sub[s].created + n * PeriodLength
  BY <1>t DEF Subs, OnGrid
<1>1. CASE UNCHANGED <<sub, creating>>
  BY <1>1, <1>c, <1>o DEF Subs, OnGrid
<1>2. ASSUME NEW s \in Subscriptions, CreateBegin(s), NEW q \in Subscriptions PROVE Others(q)
  <2>1. /\ UNCHANGED sub /\ sub[s].status = "ABSENT"
        /\ \A x \in Subscriptions \ {s} : creating'[x] = creating[x]
    BY <1>2, <1>t DEF CreateBegin, TypeOK
  <2> QED
    BY <2>1, <1>o
<1>3. ASSUME NEW s \in Subscriptions, CreateCommit(s), NEW q \in Subscriptions PROVE Others(q)
  <2>1. sub[s].status = "ABSENT"
    BY <1>3, <1>t DEF CreateCommit, Subs
  <2>2. /\ creating'[s] = None
        /\ \A x \in Subscriptions \ {s} : creating'[x] = creating[x]
    BY <1>3, <1>t DEF CreateCommit, TypeOK
  <2>3. /\ sub'[s].status = "ACTIVE" /\ sub'[s].cancelledAt = None
        /\ sub'[s].created = sub'[s].start /\ sub'[s].end = sub'[s].start + PeriodLength
        /\ \A x \in Subscriptions \ {s} :
             \/ sub'[x] = sub[x]
             \/ /\ sub[x].status = "ACTIVE" /\ sub'[x].status = "CANCELLED"
                /\ sub'[x].cancelledAt \in Times /\ sub'[x].start = sub[x].start
                /\ sub'[x].end = sub[x].end /\ sub'[x].created = sub[x].created
    BY <1>3, <1>t, <2>1, CommitSub
  <2>4. CASE q = s
    <3>1. sub'[s].created \in Nat
      BY <1>t, BillingAssumption DEF TypeOK, Times
    <3>2. \E n \in Nat : sub'[s].start = sub'[s].created + n * PeriodLength
      BY <2>3, <3>1, ZeroPeriods
    <3> QED
      BY <2>2, <2>3, <2>4, <3>2
  <2>5. CASE q # s /\ sub'[q] = sub[q]
    BY <2>5, <2>2, <1>o
  <2>6. CASE q # s /\ sub'[q] # sub[q]
    BY <2>6, <2>2, <2>3, <1>o, <1>n
  <2> QED
    BY <2>4, <2>5, <2>6
<1>4. ASSUME NEW s \in Subscriptions, CancelWrite(s), NEW q \in Subscriptions PROVE Others(q)
  <2>1. /\ OtherSubs(s) /\ sub[s].status # "ABSENT"
        /\ sub'[s].status = "CANCELLED" /\ sub'[s].cancelledAt = now
        /\ sub'[s].start = sub[s].start /\ sub'[s].end = sub[s].end
        /\ sub'[s].created = sub[s].created
    BY <1>4, <1>t, CancelSub DEF CancelWrite, Subs
  <2>2. UNCHANGED creating /\ now # None
    BY <1>4, <1>t, <1>n DEF CancelWrite, TypeOK
  <2> QED
    BY <2>1, <2>2, <1>o DEF OtherSubs
\* The period of s starts anew, at the end of one of its periods.
<1>5. ASSUME NEW s \in Subscriptions, NEW start, OnGrid(s, start), start \in Nat,
             sub[s].status # "ABSENT",
             Advanced(s, start), UNCHANGED creating, NEW q \in Subscriptions
      PROVE  Others(q)
  <2>1. \E n \in Nat : sub'[s].start = sub'[s].created + n * PeriodLength
    BY <1>5 DEF OnGrid, Advanced
  <2>2. /\ sub'[s].end = sub'[s].start + PeriodLength /\ sub'[s].status = sub[s].status
        /\ sub'[s].created = sub[s].created /\ sub'[s].cancelledAt = sub[s].cancelledAt
        /\ OtherSubs(s)
    BY <1>5 DEF Advanced
  <2> QED
    BY <1>5, <2>1, <2>2, <1>o DEF OtherSubs
<1>6. ASSUME Advances, NEW q \in Subscriptions PROVE Others(q)
  <2>1. /\ cron.at.sub \in Subscriptions /\ cron.at.end \in Nat
        /\ Advanced(cron.at.sub, cron.at.end) /\ Read(cron.at)
    BY <1>6, AdvancesFacts
  <2>2. OnGrid(cron.at.sub, cron.at.end) /\ sub[cron.at.sub].status # "ABSENT"
    BY <2>1, <1>t, NextOnGrid DEF Read
  <2> QED
    BY <1>5, <1>6, <2>1, <2>2 DEF Advances
<1>7. ASSUME NEW p \in paying, PaymentAdvances(p), NEW q \in Subscriptions PROVE Others(q)
  <2>1. /\ invoices[p.inv].sub \in Subscriptions /\ p.end \in Nat
        /\ Advanced(invoices[p.inv].sub, p.end) /\ p.inv \in DOMAIN invoices
    BY <1>7, <1>t, PaymentAdvancesFacts, PaymentFacts DEF TypeInv
  <2>2. /\ OnGrid(invoices[p.inv].sub, p.end) /\ sub[invoices[p.inv].sub].status # "ABSENT"
        /\ UNCHANGED creating
    BY <1>7, <2>1 DEF Inv, Payments, InvoicesGrid, PaymentAdvances
  <2> QED
    BY <1>5, <2>1, <2>2
<1>8. ASSUME NEW q \in Subscriptions PROVE Others(q) \/ UNCHANGED <<sub, creating>>
  BY <1>2, <1>3, <1>4, <1>6, <1>7, StepCases, <1>t DEF TypeInv, Rests, Tick, Filter,
     GenerateInvoice, Drops, Finalizes, GivesUp, FindCancelled, Stops, Rewrites, CronMoves,
     ManualRead, ManualGenerate
<1>9. CASE \A q \in Subscriptions : Others(q)
  BY <1>9, <1>c DEF Subs, OnGrid
<1> QED
  BY <1>1, <1>8, <1>9

-----------------------------------------------------------------------------
(* The snapshots *)

\* Where the snapshots come from: they are taken by one of the two queries, or the
\* cron had them before.
LEMMA HandledStep ==
  ASSUME TypeInv, [Next]_vars
  PROVE  \/ /\ Tick /\ Handled' = {Snapshot(s) : s \in Expired}
            /\ cron'.kind = "full" /\ cron'.step = "search" /\ cron'.billable = {}
         \/ /\ FindCancelled /\ Handled' = {Snapshot(s) : s \in Cancelled}
            /\ cron'.kind = "prorated" /\ cron'.step = "search" /\ cron'.billable = {}
         \/ Handled' = {} /\ cron'.step = "idle"
         \/ Handled' \subseteq Handled /\ cron'.kind = cron.kind
<1>0. CASE UNCHANGED cron
  BY <1>0 DEF Handled
<1>1. CASE Tick
  BY <1>1, TickCron DEF TypeInv, CronIs, Handled
<1>2. CASE FindCancelled
  <2>1. cron.billable = {}
    BY <1>2 DEF FindCancelled, PhaseDone
  <2> QED
    BY <1>2, <2>1, FindCancelledCron DEF TypeInv, CronIs, Handled
<1>3. CASE Filter
  BY <1>3, FilterCron DEF TypeInv, CronIs, Handled
<1>4. CASE GenerateInvoice
  BY <1>4, GenerateCron DEF TypeInv, CronIs, Handled
<1>5. CASE Drops
  <2>1. PICK x \in cron.billable : cron' = [cron EXCEPT !.billable = @ \ {x}]
    BY <1>5 DEF Drops
  <2> QED
    BY <2>1, DroppedCron DEF TypeInv, CronIs, Handled
<1>6. CASE NextSubscription
  BY <1>6, NextCron DEF TypeInv, CronIs, Handled
<1>7. CASE Finalizes
  BY <1>6, <1>7, AfterFinalizeCron DEF TypeInv, CronIs, Handled, Finalizes
<1>8. CASE Stops
  BY <1>8, IdleCron DEF CronIs, Handled, Stops
<1> QED
  BY <1>0, <1>1, <1>2, <1>3, <1>4, <1>5, <1>6, <1>7, <1>8, StepCases DEF TypeInv, Rests,
     PaymentAdvances,
     CreateBegin, CreateCommit, CancelWrite, GivesUp, Advances, Rewrites, ManualRead,
     ManualGenerate

\* The one being billed is taken out of those that are left.
LEMMA AtLeaves ==
  ASSUME TypeInv, [Next]_vars,
         cron.step \in {"finalize", "advance"} => cron.at \notin cron.billable,
         cron'.step \in {"finalize", "advance"}
  PROVE  cron'.at \notin cron'.billable
<1>f. cron.step \in {"idle", "search", "finalize", "advance"}
  BY CronFields DEF TypeInv
<1>0. CASE UNCHANGED cron
  BY <1>0
<1>4. CASE GenerateInvoice
  BY <1>4, GenerateCron DEF TypeInv, CronIs
<1>5. CASE Drops
  <2>1. PICK x \in cron.billable : cron' = [cron EXCEPT !.billable = @ \ {x}]
    BY <1>5 DEF Drops
  <2> QED
    BY <1>5, <2>1, DroppedCron DEF TypeInv, CronIs, Drops
<1>7. CASE Finalizes
  BY <1>7, AfterFinalizeCron DEF TypeInv, CronIs, Finalizes
<1> QED
  BY <1>0, <1>4, <1>5, <1>7, StepCases, TickCron, FilterCron, FindCancelledCron, NextCron,
     IdleCron DEF TypeInv, CronIs, Rests, PaymentAdvances, CreateBegin, CreateCommit,
     CancelWrite, GivesUp, Advances,
     Rewrites, Stops, ManualRead, ManualGenerate

LEMMA ReadNow ==
  ASSUME Subs, NEW x, x.sub \in Subscriptions, sub[x.sub].status # "ABSENT",
         x.start = sub[x.sub].start, x.end = sub[x.sub].end
  PROVE  Read(x)
BY DEF Subs, Read

StillRead(x) ==
    /\ sub'[x.sub].status # "ABSENT"
    /\ \E n \in Nat : x.start = sub'[x.sub].created + n * PeriodLength
    /\ x.end = x.start + PeriodLength

LEMMA ReadKept ==
  ASSUME Inv, [Next]_vars, NEW x, x.sub \in Subscriptions, Read(x)
  PROVE  StillRead(x)
<1>1. Lives(x.sub)
  BY SubsStay DEF Read
<1> QED
  BY <1>1, GridKept DEF Read, StillRead, Lives

LEMMA ManualStep ==
  ASSUME TypeInv, [Next]_vars
  PROVE  \/ UNCHANGED manual
         \/ manual' = None
         \/ /\ UNCHANGED sub
            /\ \E s \in Active \union Cancelled : manual' = Snapshot(s)
BY StepCases DEF TypeInv, Rests, PaymentAdvances, CreateBegin, CreateCommit, CancelWrite, Tick,
   Filter, GenerateInvoice, Drops, Finalizes, GivesUp, Advances, FindCancelled, Stops,
   Rewrites,
   CronMoves, ManualRead, ManualGenerate

LEMMA SnapshotsStep == Inv /\ [Next]_vars => Snapshots'
<1> SUFFICES ASSUME Inv, [Next]_vars PROVE Snapshots'
  OBVIOUS
<1>t. TypeOK /\ TypeInv /\ Snapshots /\ Subs /\ NoAdmin' = NoAdmin
  BY BoundsStep DEF Inv, TypeInv, NoAdmin
<1>n. None \notin Times
  BY BillingAssumption DEF Times
<1>m. manual' # None => StillRead(manual')
  <2>1. CASE UNCHANGED manual /\ manual # None
    <3>1. manual.sub \in Subscriptions /\ Read(manual)
      BY <2>1, <1>t DEF TypeOK, Snapshots, BillableSubscription
    <3>2. StillRead(manual)
      BY <3>1, ReadKept
    <3> QED
      BY <2>1, <3>2
  <2>2. ASSUME UNCHANGED sub, NEW s \in Active \union Cancelled, manual' = Snapshot(s)
        PROVE  StillRead(manual')
    <3> DEFINE x == Snapshot(s)
    <3>1. /\ x.sub = s /\ s \in Subscriptions /\ x.start = sub[s].start /\ x.end = sub[s].end
          /\ sub[s].status # "ABSENT"
      BY <1>t, SnapshotFields DEF Active, Cancelled
    <3> HIDE DEF x
    <3>2. Read(x)
      BY <1>t, <3>1, ReadNow
    <3>3. StillRead(x)
      BY <3>1, <3>2, ReadKept
    <3> QED
      BY <2>2, <3>3 DEF x
  <2> QED
    BY <2>1, <2>2, <1>t, ManualStep
<1>a. ASSUME /\ \A x \in Handled' :
                  /\ x.sub \in Subscriptions /\ Read(x)
                  /\ NoAdmin => x.start = sub'[x.sub].start
                  /\ x.cancelledAt # None => sub'[x.sub].status = "CANCELLED"
             /\ \A x, y \in Handled' : x.sub = y.sub => x = y
             /\ cron'.step \in {"finalize", "advance"} => cron'.at \notin cron'.billable
      PROVE  Snapshots'
  <2>1. \A x \in Handled' : StillRead(x)
    BY <1>a, ReadKept
  <2> QED
    BY <1>a, <1>m, <1>t, <2>1 DEF Snapshots, Read, StillRead, OnGrid
<1>1. CASE Tick
  <2>1. /\ Handled' = {Snapshot(s) : s \in Expired} /\ cron'.billable = {}
        /\ sub' = sub
    BY <1>1, <1>t, TickCron DEF CronIs, Handled, Tick
  <2>2. \A x \in Handled' : x.sub \in Subscriptions /\ sub[x.sub].status # "ABSENT" /\ Read(x)
    BY <2>1, <1>t, FoundFields, ReadNow
  <2> QED
    BY <2>1, <2>2, <1>a, <1>n, <1>t, FoundFields DEF Subs
<1>2. CASE FindCancelled
  <2>1. /\ Handled' = {Snapshot(s) : s \in Cancelled} /\ cron'.billable = {}
        /\ sub' = sub
    BY <1>2, <1>t, FindCancelledCron DEF CronIs, Handled, FindCancelled, PhaseDone
  <2>2. \A x \in Handled' : x.sub \in Subscriptions /\ sub[x.sub].status = "CANCELLED" /\ Read(x)
    BY <2>1, <1>t, FoundFields, ReadNow DEF Subs
  <2> QED
    BY <2>1, <2>2, <1>a, <1>t, FoundFields
<1>3. CASE Handled' \subseteq Handled /\ ~Advances
  <2>1. \A x \in Handled' : x \in Handled /\ x.sub \in Subscriptions /\ Read(x)
    BY <1>3, <1>t, HandledFields DEF Snapshots
  <2>2. \A x \in Handled' : Lives(x.sub) /\ (NoAdmin => Stays(x.sub))
    BY <1>3, <1>t, <2>1, SubsStay DEF Read, PaysFor, Inv, Payments
  <2>3. cron'.step \in {"finalize", "advance"} => cron'.at \notin cron'.billable
    BY <1>3, <1>t, AtLeaves DEF Snapshots
  <2> QED
    BY <2>1, <2>2, <2>3, <1>a, <1>t DEF Snapshots, Stays, Lives
<1>4. CASE Advances
  <2>1. /\ Handled' = cron.billable /\ cron'.step = "search"
        /\ cron.at \in Handled /\ cron.at \notin cron.billable
    BY <1>4, <1>t, AdvancesFacts DEF CronIs, Handled, Advances, Snapshots
  <2>2. \A x \in Handled' : /\ x \in Handled /\ x.sub \in Subscriptions /\ x # cron.at
                            /\ Read(x)
    BY <2>1, <1>t, HandledFields DEF Handled, Snapshots
  <2>3. \A x \in Handled' : x.sub # cron.at.sub
    BY <1>t, <2>1, <2>2 DEF Snapshots
  <2>4. \A x \in Handled' : Lives(x.sub) /\ Stays(x.sub)
    BY <1>4, <2>2, <2>3, AdvancesFacts DEF Advanced, OtherSubs, Stays, Lives, Read
  <2> QED
    BY <2>1, <2>2, <2>3, <2>4, <1>a, <1>t DEF Snapshots, Stays, Lives
<1>5. CASE Handled' = {} /\ cron'.step = "idle"
  BY <1>5, <1>a
<1> QED
  BY <1>1, <1>2, <1>3, <1>4, <1>5, <1>t, HandledStep

LEMMA CronInvoiceStep == Inv /\ [Next]_vars => CronInvoice'
<1> SUFFICES ASSUME Inv, [Next]_vars, cron'.step \in {"finalize", "advance"}
             PROVE  CronInvoice'
  BY DEF CronInvoice
<1>t. TypeOK /\ TypeInv /\ CronInvoice
  BY DEF Inv, TypeInv
<1>f. cron.step \in {"idle", "search", "finalize", "advance"}
  BY CronFields, <1>t
<1>k. Kept
  BY <1>t, KeptStep
<1>0. CASE UNCHANGED cron
  <2>1. cron.inv \in DOMAIN invoices
    BY <1>0, <1>t, AtFields
  <2> QED
    BY <1>0, <1>k, <1>t, <2>1 DEF CronInvoice, Kept
<1>1. CASE GenerateInvoice
  <2>1. PICK x \in cron.billable :
          /\ Billing(x) /\ CreateInvoice(x, cron.kind)
          /\ CronIs("finalize", cron.kind, cron.found, cron.billable \ {x}, x, Len(invoices) + 1)
    BY <1>1, <1>t, GenerateCron
  <2>2. /\ invoices'[Len(invoices) + 1].sub = x.sub
        /\ invoices'[Len(invoices) + 1].start = x.start
        /\ invoices'[Len(invoices) + 1].kind = cron.kind
        /\ cron.kind = "full" => invoices'[Len(invoices) + 1].end = x.end
    BY <2>1, <1>t, CronCreates
  <2> QED
    BY <2>1, <2>2 DEF CronInvoice, CronIs
<1>2. CASE Finalizes
  <2>1. /\ cron.step = "finalize" /\ invoices'[cron.inv].status = "FINALIZED"
        /\ cron.inv \in DOMAIN invoices
    BY <1>2, <1>t, CronRewrites, AtFields DEF Finalizes
  <2>2. cron'.at = cron.at /\ cron'.inv = cron.inv /\ cron'.kind = cron.kind
    BY <1>2, <1>t, AfterFinalizeCron DEF Finalizes, CronIs
  <2> QED
    BY <2>1, <2>2, <1>k, <1>t DEF CronInvoice, Kept
<1>3. CASE Drops
  <2>1. PICK x \in cron.billable : cron' = [cron EXCEPT !.billable = @ \ {x}]
    BY <1>3 DEF Drops
  <2> QED
    BY <1>3, <2>1, DroppedCron, <1>t DEF CronIs, Drops
<1> QED
  BY <1>0, <1>1, <1>2, <1>3, <1>t, StepCases, TickCron, FilterCron, FindCancelledCron,
     NextCron, IdleCron DEF TypeInv, CronIs, Rests, PaymentAdvances, CreateBegin,
     CreateCommit, CancelWrite, GivesUp, Advances,
     Rewrites, Stops, ManualRead, ManualGenerate

\* Where an invoice of the cron comes from.
Generates(x) ==
    /\ CreateInvoice(x, cron.kind) /\ UNCHANGED <<sub, manual>>
    /\ \/ CronIs("finalize", cron.kind, {}, cron.billable \ {x}, x, Len(invoices) + 1)
       \/ /\ deployment.kinds # {}
          /\ CronIs("search", cron.kind, {}, cron.billable \ {x}, cron.at, cron.inv)

LEMMA InvoiceStep ==
  ASSUME TypeInv, [Next]_vars
  PROVE  \/ SameInvoices
         \/ ManualGenerate
         \/ cron.step = "search" /\ \E x \in cron.billable : Generates(x)
<1>1. CASE UNCHANGED invoices
  BY <1>1, Unchanged DEF TypeInv
<1>2. CASE GenerateInvoice
  <2>1. PICK x \in cron.billable :
          /\ Billing(x) /\ CreateInvoice(x, cron.kind)
          /\ CronIs("finalize", cron.kind, cron.found, cron.billable \ {x}, x, Len(invoices) + 1)
    BY <1>2, GenerateCron DEF TypeInv
  <2>2. cron.step = "search" /\ cron.found = {} /\ UNCHANGED <<sub, manual>>
    BY <1>2, <2>1 DEF Billing, GenerateInvoice
  <2> QED
    BY <2>1, <2>2 DEF Generates
<1>3. CASE Drops
  <2>1. PICK x \in cron.billable :
          /\ cron' = [cron EXCEPT !.billable = @ \ {x}]
          /\ UNCHANGED invoices \/ (deployment.kinds # {} /\ CreateInvoice(x, cron.kind))
    BY <1>3 DEF Drops
  <2>2. CronIs(cron.step, cron.kind, cron.found, cron.billable \ {x}, cron.at, cron.inv)
    BY <2>1, DroppedCron DEF TypeInv
  <2>3. cron.step = "search" /\ cron.found = {} /\ UNCHANGED <<sub, manual>>
    BY <1>3 DEF Drops, CronMoves
  <2>4. CASE UNCHANGED invoices
    BY <1>1, <2>4
  <2>5. CASE deployment.kinds # {} /\ CreateInvoice(x, cron.kind)
    <3>1. Generates(x)
      BY <2>2, <2>3, <2>5 DEF Generates
    <3> QED
      BY <2>3, <3>1
  <2> QED
    BY <2>1, <2>4, <2>5
<1>4. CASE /\ cron.step = "finalize" /\ invoices[cron.inv].status = "DRAFT"
          /\ Finalize(cron.inv)
  BY <1>4, CronRewrites
<1>5. CASE Rewrites
  BY <1>5, Rewritten DEF Rewrites, TypeInv
<1> QED
  BY <1>1, <1>2, <1>3, <1>4, <1>5, StepCases DEF TypeInv, Rests, PaymentAdvances,
     CreateBegin, CreateCommit,
     CancelWrite, Tick, Filter, Finalizes, GivesUp, Advances, FindCancelled, Stops, ManualRead

\* Whose invoices are made.
LEMMA CreatedRead ==
  ASSUME Inv, [Next]_vars, NEW i \in DOMAIN invoices', i \notin DOMAIN invoices
  PROVE  \E x \in Handled \union {manual} :
           /\ x \in Handled \/ manual # None
           /\ invoices'[i].sub = x.sub /\ invoices'[i].start = x.start
           /\ x.sub \in Subscriptions /\ Read(x) /\ invoices'[i].status = "DRAFT"
           /\ UNCHANGED sub /\ i = Len(invoices) + 1
<1>t. TypeOK /\ TypeInv /\ Snapshots
  BY DEF Inv, TypeInv
<1>d. DOMAIN invoices = 1 .. Len(invoices) /\ Len(invoices) \in Nat
  BY <1>t, InvoiceFields
<1>1. ~SameInvoices
  BY DEF SameInvoices
<1>2. CASE ManualGenerate
  <2>1. ~UNCHANGED invoices
    BY <1>1, <1>t, Unchanged
  <2>2. /\ manual # None /\ CreateInvoice(manual, ManualKind) /\ UNCHANGED sub
        /\ manual \in BillableSubscription /\ ManualKind \in Kinds
        /\ (ManualKind = "prorated" => manual.cancelledAt # None)
    BY <1>2, <2>1, <1>t DEF ManualGenerate, ManualKind, Kinds, TypeOK
  <2>3. /\ DOMAIN invoices' = 1 .. (Len(invoices) + 1)
        /\ invoices'[Len(invoices) + 1].sub = manual.sub
        /\ invoices'[Len(invoices) + 1].start = manual.start
        /\ invoices'[Len(invoices) + 1].status = "DRAFT"
    BY <2>2, <1>t, Created
  <2>4. i = Len(invoices) + 1
    BY <2>3, <1>d
  <2> QED
    BY <2>2, <2>3, <2>4, <1>t DEF Snapshots, BillableSubscription
<1>3. ASSUME NEW x \in cron.billable, CreateInvoice(x, cron.kind), UNCHANGED sub
      PROVE  /\ invoices'[i].sub = x.sub /\ invoices'[i].start = x.start
             /\ x.sub \in Subscriptions /\ Read(x) /\ invoices'[i].status = "DRAFT"
             /\ x \in Handled /\ i = Len(invoices) + 1
  <2>1. /\ DOMAIN invoices' = 1 .. (Len(invoices) + 1)
        /\ invoices'[Len(invoices) + 1].sub = x.sub
        /\ invoices'[Len(invoices) + 1].start = x.start
        /\ invoices'[Len(invoices) + 1].status = "DRAFT"
    BY <1>3, <1>t, CronCreates
  <2>2. i = Len(invoices) + 1
    BY <2>1, <1>d
  <2>3. x \in Handled /\ x.sub \in Subscriptions /\ Read(x)
    BY <1>t, HandledFields DEF Handled, Snapshots
  <2> QED
    BY <2>1, <2>2, <2>3
<1> QED
  BY <1>1, <1>2, <1>3, <1>t, InvoiceStep DEF Generates

LEMMA InvoicesGridStep == Inv /\ [Next]_vars => InvoicesGrid'
<1> SUFFICES ASSUME Inv, [Next]_vars, NEW i \in DOMAIN invoices'
             PROVE  /\ sub'[invoices'[i].sub].status # "ABSENT"
                    /\ \E n \in Nat : invoices'[i].start =
                                       sub'[invoices'[i].sub].created + n * PeriodLength
  BY DEF InvoicesGrid, OnGrid
<1>1. CASE i \in DOMAIN invoices
  <2>1. /\ invoices'[i].sub = invoices[i].sub /\ invoices'[i].start = invoices[i].start
        /\ invoices[i].sub \in Subscriptions
    BY <1>1, KeptStep, InvoiceFields DEF Kept, Inv, TypeInv
  <2>2. Lives(invoices[i].sub) /\ OnGrid(invoices[i].sub, invoices[i].start)
    BY <1>1, <2>1, SubsStay DEF Inv, InvoicesGrid
  <2> QED
    BY <2>1, <2>2 DEF Lives, OnGrid
<1>2. CASE i \notin DOMAIN invoices
  BY <1>2, CreatedRead DEF Read, OnGrid
<1> QED
  BY <1>1, <1>2

\* How an invoice of the cron comes to be about to advance a period.
LEMMA AdvanceNext ==
  ASSUME TypeInv, [Next]_vars, cron'.step = "advance"
  PROVE  \/ UNCHANGED cron
         \/ /\ Finalizes /\ cron'.inv = cron.inv /\ cron.kind = "full"
            /\ cron.inv \in DOMAIN invoices
<1>f. cron.step \in {"idle", "search", "finalize", "advance"}
  BY CronFields DEF TypeInv
<1>1. CASE GenerateInvoice
  BY <1>1, GenerateCron DEF TypeInv, CronIs
<1>2. CASE Drops
  <2>1. PICK x \in cron.billable : cron' = [cron EXCEPT !.billable = @ \ {x}]
    BY <1>2 DEF Drops
  <2> QED
    BY <1>2, <2>1, DroppedCron DEF TypeInv, CronIs, Drops
<1>3. CASE Finalizes
  BY <1>3, AfterFinalizeCron, AtFields DEF TypeInv, CronIs, Finalizes
<1> QED
  BY <1>1, <1>2, <1>3, StepCases, TickCron, FilterCron, FindCancelledCron,
     NextCron, IdleCron DEF TypeInv, CronIs, Rests, PaymentAdvances, CreateBegin, CreateCommit,
     CancelWrite, GivesUp, Advances, Rewrites, Stops, ManualRead, ManualGenerate

LEMMA PayingCases ==
  ASSUME [Next]_vars
  PROVE  \/ UNCHANGED paying
         \/ \E i \in DOMAIN invoices : AdminFinalize(i)
         \/ \E p \in paying : PaymentSucceeds(p) \/ PaymentReads(p) \/ PaymentAdvances(p)
BY DEF Next, vars, TimePasses, CreateBegin, CreateCommit, CancelRead, CancelWrite, Cron,
   CronFaults, Tick, Filter, GenerateInvoice, GenerateAtBound, FinalizeInvoice, Advance,
   FindCancelled, TickEnds, GenerateFails, FinalizeFails, AdvanceFails, TickAborts, ManualRead,
   ManualGenerate, AdminVoid

\* A payment that goes on.
Follows(p, q) ==
    /\ q.inv = p.inv
    /\ \/ PaymentSucceeds(p) /\ q.step = "read"
       \/ PaymentReads(p) /\ q.step = "advance" /\ q.end = sub[invoices[p.inv].sub].end

\* Where a payment comes from.
LEMMA PayingFrom ==
  ASSUME [Next]_vars, NEW q \in paying'
  PROVE  \/ q \in paying
         \/ q.step = "intent" /\ q.inv \in DOMAIN invoices /\ AdminFinalize(q.inv)
         \/ \E p \in paying : Follows(p, q)
<1>1. CASE UNCHANGED paying
  BY <1>1
<1>2. ASSUME NEW i \in DOMAIN invoices, AdminFinalize(i), q \notin paying
      PROVE  q.step = "intent" /\ q.inv = i
  BY <1>2 DEF AdminFinalize
<1>3. ASSUME NEW p \in paying, PaymentSucceeds(p) \/ PaymentReads(p), q \notin paying
      PROVE  Follows(p, q)
  BY <1>3 DEF PaymentSucceeds, PaymentReads, Follows
<1>4. ASSUME NEW p \in paying, PaymentAdvances(p) PROVE q \in paying
  BY <1>4 DEF PaymentAdvances
<1>5. ASSUME NEW i \in DOMAIN invoices, AdminFinalize(i), q \notin paying
      PROVE  q.inv \in DOMAIN invoices /\ AdminFinalize(q.inv)
  <2>1. q.inv = i
    BY <1>2, <1>5
  <2> QED
    BY <1>5, <2>1
<1> QED
  BY <1>1, <1>2, <1>3, <1>4, <1>5, PayingCases

LEMMA PaymentsInvStep == Inv /\ [Next]_vars => Payments'
<1> SUFFICES ASSUME Inv, [Next]_vars PROVE Payments'
  OBVIOUS
<1>t. /\ TypeOK /\ TypeInv /\ PaysInvoices /\ Payments /\ InvoicesGrid /\ CronInvoice
      /\ NoAdmin' = NoAdmin
  BY BoundsStep DEF Inv, TypeInv, NoAdmin
<1>k. Kept
  BY <1>t, KeptStep
<1>a. ASSUME NEW i \in DOMAIN invoices, AdminFinalize(i)
      PROVE  /\ ~NoAdmin /\ invoices[i].status = "DRAFT" /\ invoices'[i].status = "FINALIZED"
             /\ UNCHANGED cron
             /\ cron.step = "advance" => cron.inv # i
             /\ \A p \in paying : p.inv # i
  <2>1. /\ ~NoAdmin /\ invoices[i].status = "DRAFT" /\ UNCHANGED cron
        /\ invoices' = [invoices EXCEPT ![i].status = "FINALIZED"]
    BY <1>a DEF AdminFinalize, Act, Finalize, NoAdmin
  <2>2. invoices'[i].status = "FINALIZED"
    BY <2>1, <1>t, Rewritten
  <2> QED
    BY <2>1, <2>2, <1>t DEF CronInvoice, Payments
<1>b. ASSUME NEW p \in paying
      PROVE  /\ p.inv \in DOMAIN invoices /\ invoices'[p.inv].sub = invoices[p.inv].sub
             /\ invoices'[p.inv].status # "DRAFT"
             /\ invoices[p.inv].status = "PAID" => invoices'[p.inv].status = "PAID"
             /\ cron'.step = "advance" => cron'.inv # p.inv
             /\ Lives(invoices[p.inv].sub)
             /\ invoices[p.inv].sub \in Subscriptions
  <2>1. /\ p.inv \in DOMAIN invoices /\ invoices[p.inv].status # "DRAFT"
        /\ invoices[p.inv].sub \in Subscriptions /\ sub[invoices[p.inv].sub].status # "ABSENT"
    BY <1>t, PaymentFacts DEF Payments, InvoicesGrid
  <2>2. cron'.step = "advance" => cron'.inv # p.inv
    BY <2>1, <1>t, AdvanceNext DEF Finalizes, Payments
  <2> QED
    BY <2>1, <2>2, <1>k, SubsStay DEF Kept
<1>1. ASSUME NEW q \in paying'
      PROVE  /\ ~NoAdmin
             /\ invoices'[q.inv].status # "DRAFT"
             /\ q.step # "intent" => invoices'[q.inv].status = "PAID"
             /\ q.step = "advance" =>
                  \E n \in Nat : q.end = sub'[invoices'[q.inv].sub].created + n * PeriodLength
             /\ cron'.step = "advance" => cron'.inv # q.inv
  <2>1. CASE q \in paying
    BY <2>1, <1>b, <1>t DEF Payments, OnGrid, Lives
  <2>2. CASE q.step = "intent" /\ q.inv \in DOMAIN invoices /\ AdminFinalize(q.inv)
    BY <2>2, <1>a
  <2>3. ASSUME NEW p \in paying, Follows(p, q)
        PROVE  /\ ~NoAdmin
               /\ invoices'[q.inv].status # "DRAFT"
               /\ q.step # "intent" => invoices'[q.inv].status = "PAID"
               /\ q.step = "advance" =>
                    \E n \in Nat : q.end = sub'[invoices'[q.inv].sub].created + n * PeriodLength
               /\ cron'.step = "advance" => cron'.inv # q.inv
    <3> DEFINE s == invoices[p.inv].sub
    <3>1. CASE PaymentSucceeds(p) /\ q.step = "read"
      <4>1. /\ invoices[p.inv].status = "FINALIZED" /\ p.inv \in DOMAIN invoices
            /\ invoices' = [invoices EXCEPT ![p.inv].status = "PAID"]
        BY <3>1, <1>b DEF PaymentSucceeds
      <4>2. invoices'[p.inv].status = "PAID"
        BY <4>1, <1>t, Rewritten
      <4> QED
        BY <2>3, <3>1, <4>2, <1>b, <1>t DEF Follows, Payments
    <3>2. CASE PaymentReads(p) /\ q.step = "advance" /\ q.end = sub[s].end
      <4>1. invoices[p.inv].status = "PAID" /\ UNCHANGED <<sub, invoices>>
        BY <3>2, <1>t DEF PaymentReads, Payments
      <4>2. OnGrid(s, sub[s].end)
        BY <1>b, <1>t, NextOnGrid DEF Inv, Subs, InvoicesGrid
      <4> QED
        BY <2>3, <3>2, <4>1, <4>2, <1>b, <1>t DEF Follows, Payments, OnGrid
    <3> QED
      BY <2>3, <3>1, <3>2 DEF Follows
  <2> QED
    BY <2>1, <2>2, <2>3, PayingFrom
<1>2. ASSUME NEW x \in paying', NEW y \in paying', x.inv = y.inv PROVE x = y
  <2>1. CASE UNCHANGED paying
    BY <1>2, <2>1, <1>t DEF Payments
  <2>2. ASSUME NEW i \in DOMAIN invoices, AdminFinalize(i) PROVE x = y
    <3>1. \A p \in paying : p.inv # i
      BY <2>2, <1>a
    <3> QED
      BY <1>2, <2>2, <3>1, <1>t DEF AdminFinalize, Payments
  <2>3. ASSUME NEW p \in paying, PaymentSucceeds(p) \/ PaymentReads(p) \/ PaymentAdvances(p)
        PROVE  x = y
    <3>1. \A q \in paying : q.inv = p.inv => q = p
      BY <1>t DEF Payments
    <3> QED
      BY <1>2, <2>3, <3>1, <1>t DEF PaymentSucceeds, PaymentReads, PaymentAdvances, Payments
  <2> QED
    BY <2>1, <2>2, <2>3, PayingCases
<1> QED
  BY <1>1, <1>2, <1>t DEF Payments, OnGrid

LEMMA InvInit == Init => Inv
<1> SUFFICES ASSUME Init PROVE Inv
  OBVIOUS
<1>1. TypeInv
  BY TypesInit
<1>2. Subs
  BY DEF Init, Subs
<1>3. Snapshots /\ CronInvoice
  BY CronIdleFields DEF Init, Snapshots, CronInvoice, Handled
<1>4. InvoicesGrid /\ Payments
  BY EmptySeq DEF Init, InvoicesGrid, Payments
<1> QED
  BY <1>1, <1>2, <1>3, <1>4 DEF Inv

LEMMA InvStep == Inv /\ [Next]_vars => Inv'
BY TypeStep, SubsStep, SnapshotsStep, CronInvoiceStep, InvoicesGridStep,
   PaymentsInvStep DEF Inv

\* Every reachable state is of the declared type.
THEOREM BillingTypes == Spec => []TypeOK
<1>1. Inv => TypeOK
  BY DEF Inv, TypeInv
<1> QED
  BY InvInit, InvStep, <1>1, PTL DEF Spec

-----------------------------------------------------------------------------
(* No period is skipped *)

\* Periods do not overlap: one that starts before the end of another is that one
\* or an earlier one.
LEMMA PeriodOrder ==
  ASSUME NEW k \in Nat, NEW n \in Nat, k * PeriodLength < (n + 1) * PeriodLength, k # n
  PROVE  k * PeriodLength < n * PeriodLength
<1>1. PeriodLength \in Nat /\ PeriodLength > 0
  BY BillingAssumption
<1>2. k < n + 1
  <2>1. SUFFICES ASSUME k >= n + 1 PROVE FALSE
    OBVIOUS
  <2>2. PICK d \in Nat : k = (n + 1) + d
    <3>1. k - (n + 1) \in Nat /\ k = (n + 1) + (k - (n + 1))
      BY <2>1
    <3> QED
      BY <3>1
  <2>3. k * PeriodLength = (n + 1) * PeriodLength + d * PeriodLength
    BY <1>1, <2>2
  <2>4. d * PeriodLength \in Nat /\ (n + 1) * PeriodLength \in Nat
    BY <1>1
  <2> QED
    BY <2>3, <2>4
<1>3. PICK d \in Nat : n = (k + 1) + d
  <2>1. n - (k + 1) \in Nat /\ n = (k + 1) + (n - (k + 1))
    BY <1>2
  <2> QED
    BY <2>1
<1>4. n * PeriodLength = (k * PeriodLength + PeriodLength) + d * PeriodLength
  BY <1>1, <1>3
<1>5. d * PeriodLength \in Nat /\ k * PeriodLength \in Nat
  BY <1>1
<1> QED
  BY <1>1, <1>4, <1>5

\* Every period that s has left behind was charged.
LeftCharged(s) ==
    \A k \in Nat :
        sub[s].created + k * PeriodLength < sub[s].start =>
            \E i \in Charged(s) : invoices[i].start = sub[s].created + k * PeriodLength

Skips == \A s \in Subscriptions : ChargedOnce(s) => LeftCharged(s)

\* What is charged stays charged, and a new invoice is not.
LEMMA ChargedKept ==
  ASSUME Inv, [Next]_vars, NEW s
  PROVE  /\ Charged(s) \subseteq DOMAIN invoices
         /\ Charged(s)' \subseteq DOMAIN invoices
         /\ \A i \in DOMAIN invoices :
              invoices'[i].start = invoices[i].start /\ invoices'[i].sub = invoices[i].sub
         /\ Charged(s) \subseteq Charged(s)'
         /\ ChargedOnce(s)' => ChargedOnce(s)
<1>1. Kept
  BY KeptStep DEF Inv
<1>2. Charged(s) \subseteq DOMAIN invoices /\ Charged(s) \subseteq Charged(s)'
  BY <1>1 DEF Charged, Kept
<1>3. \A i \in DOMAIN invoices' \ DOMAIN invoices : invoices'[i].status = "DRAFT"
  BY CreatedRead
<1>4. Charged(s)' \subseteq DOMAIN invoices
  BY <1>3 DEF Charged
<1>5. ChargedOnce(s)' => ChargedOnce(s)
  BY <1>1, <1>2 DEF ChargedOnce, Kept
<1> QED
  BY <1>1, <1>2, <1>4, <1>5 DEF Kept

\* An invoice that comes to be charged is one of the current period, as the earlier
\* ones were charged before.
LEMMA NewlyCharged ==
  ASSUME Inv, Turns, Skips, [Next]_vars, NEW s \in Subscriptions, ChargedOnce(s)',
         NEW i \in Charged(s)', i \notin Charged(s)
  PROVE  invoices[i].start = sub[s].start
<1>1. /\ i \in DOMAIN invoices /\ invoices[i].sub = s /\ ChargedOnce(s)
      /\ invoices'[i].start = invoices[i].start
      /\ \A j \in Charged(s) : j \in Charged(s)' /\ invoices'[j].start = invoices[j].start
  <2>1. i \in DOMAIN invoices /\ invoices'[i].sub = s
    BY ChargedKept DEF Charged
  <2> QED
    BY <2>1, ChargedKept
<1>2. invoices[i].start <= sub[s].start /\ LeftCharged(s)
  BY <1>1 DEF Turns, TurnsOf, Skips
<1>3. PICK n \in Nat : invoices[i].start = sub[s].created + n * PeriodLength
  BY <1>1 DEF Inv, InvoicesGrid, OnGrid
<1>4. CASE invoices[i].start < sub[s].start
  <2>1. PICK j \in Charged(s) : invoices[j].start = invoices[i].start
    BY <1>2, <1>3, <1>4 DEF LeftCharged
  <2>2. j # i /\ j \in Charged(s)' /\ invoices'[j].start = invoices'[i].start
    BY <1>1, <2>1
  <2> QED
    BY <2>2 DEF ChargedOnce
<1>5. invoices[i].start \in Nat /\ sub[s].start \in Nat
  BY <1>1, InvoiceFields, SubFields DEF Inv, TypeInv
<1> QED
  BY <1>2, <1>4, <1>5

\* What comes to be about to advance a period comes to be charged as well, if it is
\* charged at all.
LEMMA TurnsFrom ==
  ASSUME Inv, [Next]_vars, NEW s, NEW i \in Charged(s), Turn(i)'
  PROVE  Turn(i)
<1>t. TypeInv /\ i \in DOMAIN invoices /\ invoices[i].status # "DRAFT"
  BY DEF Charged, Inv
<1>1. CASE cron'.step = "advance" /\ cron'.inv = i
  BY <1>1, <1>t, AdvanceNext DEF Finalizes, Turn
<1>2. ASSUME NEW q \in paying', q.inv = i PROVE Turn(i)
  BY <1>2, <1>t, PayingFrom DEF AdminFinalize, Follows, Turn
<1> QED
  BY <1>1, <1>2 DEF Turn

\* The invoice i of s makes s pass its period.
Passes(s, i) ==
    /\ i \in Charged(s) /\ Turn(i) /\ ~Turn(i)'
    /\ sub[s].status # "ABSENT" /\ Lives(s)
    /\ invoices[i].start = sub[s].start
    /\ sub'[s].start = sub[s].start + PeriodLength
    /\ UNCHANGED <<invoices, manual>>
    /\ Handled' \subseteq Handled
    /\ paying' \subseteq paying

LEMMA PassesStep ==
  ASSUME Inv, Turns, [Next]_vars, NEW s \in Subscriptions, ChargedOnce(s),
         (Advances /\ s = cron.at.sub) \/ PaysFor(s)
  PROVE  \E i \in DOMAIN invoices : Passes(s, i)
<1>t. /\ TypeOK /\ TypeInv /\ PaysInvoices /\ Subs /\ Payments /\ CronInvoice /\ InvoicesGrid
      /\ TurnsOf(s)
  BY DEF Inv, TypeInv, Turns
<1>1. CASE Advances /\ s = cron.at.sub
  <2>0. PICK i \in DOMAIN invoices : i = cron.inv
    BY <1>1, AdvancesFacts
  <2>1. /\ i \in DOMAIN invoices /\ Read(cron.at) /\ Advanced(s, cron.at.end)
        /\ CronIs("search", cron.kind, cron.found, cron.billable, None, 0)
        /\ cron.kind = "full" /\ cron.step = "advance"
        /\ UNCHANGED <<invoices, manual, paying>>
    BY <1>1, AdvancesFacts DEF Advances
  <2>2. /\ invoices[i].sub = s /\ invoices[i].start = cron.at.start
        /\ i \in Charged(s) /\ Turn(i)
    BY <1>1, <1>t, <2>0, <2>1 DEF CronInvoice, Charged, Turn
  <2>3. invoices[i].start = sub[s].start
    BY <1>t, <2>2 DEF TurnsOf
  <2>4. ~Turn(i)'
    BY <1>t, <2>0, <2>1 DEF Turn, CronIs, Payments
  <2>5. Handled' \subseteq Handled
    BY <2>1 DEF CronIs, Handled
  <2>6. sub[s].status # "ABSENT" /\ Lives(s) /\ sub'[s].start = sub[s].start + PeriodLength
    BY <1>1, <2>1, <2>2, <2>3 DEF Read, Advanced, Lives
  <2> QED
    BY <2>1, <2>2, <2>3, <2>4, <2>5, <2>6 DEF Passes
<1>2. ASSUME NEW p \in paying, PaymentAdvances(p), s = invoices[p.inv].sub
      PROVE  \E i \in DOMAIN invoices : Passes(s, i)
  <2> DEFINE i == p.inv
  <2>1. /\ i \in DOMAIN invoices /\ Advanced(s, p.end) /\ p.step = "advance"
        /\ UNCHANGED <<invoices, manual, cron>> /\ paying' = paying \ {p}
    BY <1>2, <1>t, PaymentFacts, PaymentAdvancesFacts DEF PaymentAdvances
  <2>2. i \in Charged(s) /\ Turn(i)
    BY <1>2, <1>t, <2>1 DEF Payments, Charged, Turn
  <2>3. invoices[i].start = sub[s].start /\ p.end = sub[s].end
    BY <1>2, <1>t, <2>1, <2>2 DEF TurnsOf
  <2>4. sub[s].status # "ABSENT" /\ sub[s].end = sub[s].start + PeriodLength
    BY <1>2, <1>t, <2>1 DEF InvoicesGrid, Subs
  <2>5. ~Turn(i)'
    BY <1>t, <2>1 DEF Turn, Payments
  <2>6. Handled' \subseteq Handled
    BY <2>1 DEF Handled
  <2>7. Lives(s) /\ sub'[s].start = sub[s].start + PeriodLength
    BY <2>1, <2>3, <2>4 DEF Advanced, Lives
  <2> QED
    BY <2>1, <2>2, <2>3, <2>4, <2>5, <2>6, <2>7 DEF Passes
<1> QED
  BY <1>1, <1>2 DEF PaysFor

\* A subscription that is not there yet has nothing to its name.
LEMMA AbsentStep ==
  ASSUME Inv, [Next]_vars, NEW s \in Subscriptions, sub[s].status = "ABSENT"
  PROVE  /\ \A x \in Handled' : x.sub # s
         /\ manual' # None => manual'.sub # s
         /\ \A i \in DOMAIN invoices' : invoices'[i].sub # s
         /\ \A p \in paying' : p.inv \in DOMAIN invoices'
<1>t. TypeOK /\ TypeInv /\ TypeInv' /\ Snapshots /\ InvoicesGrid /\ Subs
  BY InvStep DEF Inv, TypeInv
<1>n. None \notin Times
  BY BillingAssumption DEF Times
<1>1. \A x \in Handled' : x.sub # s
  <2>1. \A x \in Handled : x.sub # s
    BY <1>t DEF Snapshots, Read
  <2>2. \A x \in {Snapshot(q) : q \in Expired} : x.sub # s
    BY <1>t, FoundFields
  <2>3. \A x \in {Snapshot(q) : q \in Cancelled} : x.sub # s
    BY <1>t, FoundFields DEF Subs
  <2> QED
    BY <2>1, <2>2, <2>3, <1>t, HandledStep
<1>2. manual' # None => manual'.sub # s
  <2>1. \A q \in Active \union Cancelled : Snapshot(q).sub # s
    BY <1>t, SnapshotFields DEF Active, Cancelled, Subs
  <2> QED
    BY <2>1, <1>t, ManualStep DEF Snapshots, Read
<1>3. ASSUME NEW i \in DOMAIN invoices' PROVE invoices'[i].sub # s
  <2>1. CASE i \in DOMAIN invoices
    BY <2>1, <1>t, KeptStep DEF Kept, InvoicesGrid
  <2>2. CASE i \notin DOMAIN invoices
    BY <2>2, CreatedRead DEF Read
  <2> QED
    BY <2>1, <2>2
<1>4. \A p \in paying' : p.inv \in DOMAIN invoices'
  BY <1>t DEF TypeInv, PaysInvoices
<1> QED
  BY <1>1, <1>2, <1>3, <1>4

LEMMA TurnsStep == Inv /\ Turns /\ Skips /\ [Next]_vars => Turns'
<1> SUFFICES ASSUME Inv, Turns, Skips, [Next]_vars, NEW s \in Subscriptions, ChargedOnce(s)'
             PROVE  /\ \A x \in Handled' : x.sub = s => x.start <= sub'[s].start
                    /\ manual' # None /\ manual'.sub = s => manual'.start <= sub'[s].start
                    /\ \A i \in DOMAIN invoices' :
                         invoices'[i].sub = s => invoices'[i].start <= sub'[s].start
                    /\ \A i \in Charged(s)' : Turn(i)' => invoices'[i].start = sub'[s].start
                    /\ \A p \in paying' :
                         p.step = "advance" /\ invoices'[p.inv].sub = s => p.end = sub'[s].end
  BY DEF Turns, TurnsOf
<1>t. TypeOK /\ TypeInv /\ Snapshots /\ Subs /\ Payments /\ Payments' /\ TypeInv'
  BY InvStep DEF Inv, TypeInv
<1>o. ChargedOnce(s) /\ Charged(s) \subseteq DOMAIN invoices
  BY ChargedKept
<1>b. /\ \A x \in Handled : x.sub = s => x.start <= sub[s].start
      /\ manual # None /\ manual.sub = s => manual.start <= sub[s].start
      /\ \A i \in DOMAIN invoices :
           invoices[i].sub = s => invoices[i].start <= sub[s].start
      /\ \A i \in Charged(s) : Turn(i) => invoices[i].start = sub[s].start
      /\ \A p \in paying :
           p.step = "advance" /\ invoices[p.inv].sub = s => p.end = sub[s].end
  BY <1>o DEF Turns, TurnsOf
<1>n. sub[s].start \in Nat /\ PeriodLength \in Nat
  BY <1>t, SubFields, BillingAssumption
<1>1. CASE sub[s].status = "ABSENT"
  BY <1>1, AbsentStep DEF Charged
<1>2. CASE sub[s].status # "ABSENT" /\ Stays(s)
  <2>1. sub'[s].start = sub[s].start /\ sub'[s].end = sub[s].end
    BY <1>2 DEF Stays
  <2>2. ASSUME NEW x \in Handled', x.sub = s PROVE x.start <= sub'[s].start
    <3>1. \/ x \in Handled
          \/ x.start = sub[x.sub].start
      BY <1>t, HandledStep, FoundFields
    <3> QED
      BY <2>1, <2>2, <3>1, <1>b, <1>n
  <2>3. manual' # None /\ manual'.sub = s => manual'.start <= sub'[s].start
    <3>1. \A q \in Active \union Cancelled :
            Snapshot(q).start = sub[Snapshot(q).sub].start
      BY <1>t, SnapshotFields DEF Active, Cancelled
    <3> QED
      BY <2>1, <3>1, <1>b, <1>n, <1>t, ManualStep
  <2>4. ASSUME NEW i \in DOMAIN invoices', invoices'[i].sub = s
        PROVE  invoices'[i].start <= sub'[s].start
    <3>1. CASE i \in DOMAIN invoices
      BY <2>1, <2>4, <3>1, <1>b, <1>t, KeptStep DEF Kept
    <3>2. CASE i \notin DOMAIN invoices
      BY <2>1, <2>4, <3>2, <1>b, CreatedRead
    <3> QED
      BY <3>1, <3>2
  <2>5. ASSUME NEW i \in Charged(s)', Turn(i)' PROVE invoices'[i].start = sub'[s].start
    <3>1. i \in DOMAIN invoices /\ invoices'[i].start = invoices[i].start
      BY ChargedKept
    <3>2. CASE i \in Charged(s)
      BY <2>1, <2>5, <3>1, <3>2, <1>b, TurnsFrom
    <3>3. CASE i \notin Charged(s)
      BY <2>1, <3>1, <3>3, NewlyCharged
    <3> QED
      BY <3>2, <3>3
  <2>6. ASSUME NEW p \in paying', p.step = "advance", invoices'[p.inv].sub = s
        PROVE  p.end = sub'[s].end
    <3>1. CASE p \in paying
      <4>1. invoices[p.inv].sub = s
        BY <2>6, <3>1, <1>t, ChargedKept DEF TypeInv, PaysInvoices
      <4> QED
        BY <2>1, <2>6, <3>1, <4>1, <1>b
    <3>2. ASSUME NEW q \in paying, Follows(q, p) PROVE p.end = sub'[s].end
      <4>1. invoices[p.inv].sub = s
        BY <2>6, <3>2, <1>t, ChargedKept DEF TypeInv, PaysInvoices, Follows
      <4> QED
        BY <2>1, <2>6, <3>2, <4>1 DEF Follows
    <3> QED
      BY <2>6, <3>1, <3>2, PayingFrom
  <2> QED
    BY <2>2, <2>3, <2>4, <2>5, <2>6
<1>3. CASE (Advances /\ s = cron.at.sub) \/ PaysFor(s)
  <2>1. PICK i \in DOMAIN invoices : Passes(s, i)
    BY <1>3, <1>o, PassesStep
  <2>2. /\ i \in Charged(s) /\ ~Turn(i)' /\ invoices[i].start = sub[s].start
        /\ UNCHANGED <<invoices, manual>>
        /\ Handled' \subseteq Handled /\ paying' \subseteq paying
        /\ sub[s].start <= sub'[s].start /\ Charged(s)' = Charged(s)
    BY <2>1, <1>n DEF Passes, Charged
  <2>3. ASSUME NEW j \in Charged(s), Turn(j)' PROVE FALSE
    <3>1. j # i /\ Turn(j)
      BY <2>2, <2>3, TurnsFrom
    <3>2. invoices[j].start = invoices[i].start
      BY <2>2, <3>1, <1>b
    <3> QED
      BY <2>2, <3>1, <3>2, <1>o DEF ChargedOnce
  <2>4. ASSUME NEW p \in paying', p.step = "advance", invoices'[p.inv].sub = s PROVE FALSE
    <3>1. p.inv \in Charged(s) /\ Turn(p.inv)'
      BY <2>2, <2>4, <1>t DEF Payments, Charged, Turn, TypeInv, PaysInvoices
    <3> QED
      BY <3>1, <2>3
  <2>5. \A x \in Handled' : x.sub = s => x.start <= sub'[s].start
    <3> SUFFICES ASSUME NEW x \in Handled', x.sub = s PROVE x.start <= sub'[s].start
      OBVIOUS
    <3>1. x \in Handled /\ x.start \in Nat /\ sub'[s].start \in Nat
      BY <2>2, <1>t, HandledFields, InvStep DEF TypeInv, TypeOK
    <3> QED
      BY <2>2, <3>1, <1>b, <1>n
  <2>6. /\ manual' # None /\ manual'.sub = s => manual'.start <= sub'[s].start
        /\ \A j \in DOMAIN invoices' :
             invoices'[j].sub = s => invoices'[j].start <= sub'[s].start
    <3>1. /\ sub'[s].start \in Nat
          /\ manual # None => manual.start \in Nat
          /\ \A j \in DOMAIN invoices : invoices[j].start \in Nat
      BY <1>t, InvoiceFields DEF TypeInv, TypeOK, BillableSubscription
    <3>2. manual' # None /\ manual'.sub = s => manual'.start <= sub'[s].start
      BY <2>2, <3>1, <1>b, <1>n
    <3>3. ASSUME NEW j \in DOMAIN invoices', invoices'[j].sub = s
          PROVE  invoices'[j].start <= sub'[s].start
      <4>1. /\ j \in DOMAIN invoices /\ invoices[j].sub = s
            /\ invoices'[j].start = invoices[j].start
        BY <2>2, <3>3
      <4>2. invoices[j].start <= sub[s].start /\ invoices[j].start \in Nat
        BY <3>1, <4>1, <1>b
      <4> QED
        BY <2>2, <3>1, <4>1, <4>2, <1>n
    <3> QED
      BY <3>2, <3>3
  <2> QED
    BY <2>2, <2>3, <2>4, <2>5, <2>6
<1> QED
  BY <1>1, <1>2, <1>3, SubsStay

LEMMA SkipsStep == Inv /\ Turns /\ Skips /\ [Next]_vars => Skips'
<1> SUFFICES ASSUME Inv, Turns, Skips, [Next]_vars, NEW s \in Subscriptions, ChargedOnce(s)',
                    NEW k \in Nat, sub'[s].created + k * PeriodLength < sub'[s].start
             PROVE  \E i \in Charged(s)' :
                      invoices'[i].start = sub'[s].created + k * PeriodLength
  BY DEF Skips, LeftCharged
<1>t. TypeOK /\ TypeInv /\ TypeOK' /\ Subs
  BY InvStep DEF Inv, TypeInv
<1>o. ChargedOnce(s) /\ LeftCharged(s)
  BY ChargedKept DEF Skips
<1>n. /\ sub[s].created \in Nat /\ sub[s].start \in Nat
      /\ sub'[s].created \in Nat /\ sub'[s].start \in Nat /\ k * PeriodLength \in Nat
  BY <1>t, BillingAssumption DEF TypeOK, Times
<1> DEFINE start == sub[s].created + k * PeriodLength
<1>0. ASSUME sub'[s].created = sub[s].created, start < sub[s].start
      PROVE  \E i \in Charged(s)' :
               invoices'[i].start = sub'[s].created + k * PeriodLength
  <2>1. PICK i \in Charged(s) : invoices[i].start = start
    BY <1>0, <1>o DEF LeftCharged
  <2>2. i \in Charged(s)' /\ invoices'[i].start = start
    BY <2>1, ChargedKept
  <2> QED
    BY <1>0, <2>2
<1>1. CASE sub[s].status = "ABSENT"
  <2>1. CASE UNCHANGED sub
    BY <2>1, <1>0
  <2>2. ASSUME NEW q \in Subscriptions, CreateCommit(q)
        PROVE  sub'[s].created = sub'[s].start \/ sub'[s] = sub[s]
    <3>1. sub[q].status = "ABSENT"
      BY <2>2, <1>t DEF CreateCommit, Subs
    <3> QED
      BY <1>1, <1>t, <2>2, <3>1, CommitSub
  <2>3. ASSUME NEW q \in Subscriptions, CancelWrite(q) PROVE sub'[s] = sub[s]
    <3>1. q # s
      BY <1>1, <2>3, <1>t DEF CancelWrite, Subs
    <3>2. OtherSubs(q)
      BY <2>3, <1>t, CancelSub
    <3> QED
      BY <3>1, <3>2 DEF OtherSubs
  <2>4. CASE Advances
    <3>1. s # cron.at.sub /\ OtherSubs(cron.at.sub)
      BY <1>1, <2>4, AdvancesFacts DEF Read, Advanced
    <3> QED
      BY <3>1, <1>0 DEF OtherSubs
  <2>5. ASSUME NEW p \in paying, PaymentAdvances(p) PROVE sub'[s] = sub[s]
    <3>1. Advanced(invoices[p.inv].sub, p.end) /\ s # invoices[p.inv].sub
      BY <1>1, <2>5, <1>t, PaymentFacts, PaymentAdvancesFacts DEF TypeInv, Inv, InvoicesGrid
    <3> QED
      BY <3>1 DEF Advanced, OtherSubs
  <2>6. sub'[s].created # sub'[s].start
    BY <1>n
  <2>7. CASE sub'[s] = sub[s]
    BY <2>7, <1>0
  <2> QED
    BY <2>1, <2>2, <2>3, <2>4, <2>5, <2>6, <2>7, StepCases, <1>t
       DEF TypeInv, Rests, CreateBegin, Tick, Filter, GenerateInvoice, Drops, Finalizes,
       GivesUp, FindCancelled, Stops, Rewrites, CronMoves, ManualRead, ManualGenerate
<1>2. CASE sub[s].status # "ABSENT" /\ Stays(s)
  BY <1>2, <1>0 DEF Stays, Lives
<1>3. CASE sub[s].status # "ABSENT" /\ ((Advances /\ s = cron.at.sub) \/ PaysFor(s))
  <2>1. PICK i \in DOMAIN invoices : Passes(s, i)
    BY <1>3, <1>o, PassesStep
  <2>2. /\ sub'[s].created = sub[s].created
        /\ sub'[s].start = sub[s].start + PeriodLength
        /\ i \in Charged(s) /\ invoices[i].start = sub[s].start
    BY <2>1 DEF Passes, Lives
  <2>3. PICK n \in Nat : sub[s].start = sub[s].created + n * PeriodLength
    BY <1>3, <1>t DEF Subs, OnGrid
  <2>4. CASE k = n
    <3>1. i \in Charged(s)' /\ invoices'[i].start = start
      BY <2>2, <2>3, <2>4, ChargedKept
    <3> QED
      BY <2>2, <3>1
  <2>5. CASE k # n
    <3>1. n * PeriodLength \in Nat /\ (n + 1) * PeriodLength = n * PeriodLength + PeriodLength
          /\ (n + 1) * PeriodLength \in Nat /\ PeriodLength \in Nat
      BY BillingAssumption
    <3>2. k * PeriodLength < (n + 1) * PeriodLength
      BY <2>2, <2>3, <3>1, <1>n
    <3>3. k * PeriodLength < n * PeriodLength
      BY <1>n, <2>5, <3>2, PeriodOrder
    <3>4. start < sub[s].start
      BY <2>3, <3>1, <3>3, <1>n
    <3> QED
      BY <2>2, <3>4, <1>0
  <2> QED
    BY <2>4, <2>5
<1> QED
  BY <1>1, <1>2, <1>3, SubsStay

\* Every period a subscription has left behind was charged, as long as none is charged
\* twice: whatever advances it is an invoice of its current period that was charged.
THEOREM NoneSkipped == Spec => []NoPeriodSkipped
<1>1. Init => Turns /\ Skips
  <2> SUFFICES ASSUME Init PROVE Turns /\ Skips
    OBVIOUS
  <2>1. /\ Handled = {} /\ manual = None /\ DOMAIN invoices = {} /\ paying = {}
        /\ \A s : Charged(s) = {}
    BY CronIdleFields, EmptySeq DEF Init, Handled, Charged
  <2>2. \A s \in Subscriptions : sub[s].created = 0 /\ sub[s].start = 0
    BY DEF Init
  <2>3. \A k \in Nat : k * PeriodLength \in Nat
    BY BillingAssumption
  <2>4. ASSUME NEW s \in Subscriptions PROVE LeftCharged(s)
    BY <2>2, <2>3 DEF LeftCharged
  <2> QED
    BY <2>1, <2>4 DEF Turns, TurnsOf, Skips
<1>2. Inv /\ Turns /\ Skips /\ [Next]_vars => (Inv /\ Turns /\ Skips)'
  BY InvStep, TurnsStep, SkipsStep
<1>3. Inv /\ Turns /\ Skips => NoPeriodSkipped
  <2> SUFFICES ASSUME Inv, Skips, NEW s \in Subscriptions, NEW k \in 0 .. sub[s].start,
                      ChargedOnce(s), sub[s].created + k * PeriodLength < sub[s].start
               PROVE  \E i \in Charged(s) :
                        invoices[i].start = sub[s].created + k * PeriodLength
    BY DEF NoPeriodSkipped
  <2>1. k \in Nat
    BY SubFields DEF Inv, TypeInv
  <2> QED
    BY <2>1 DEF Skips, LeftCharged
<1> QED
  BY InvInit, <1>1, <1>2, <1>3, PTL DEF Spec

-----------------------------------------------------------------------------
(* No period is invoiced twice *)

\* The subscriptions that are still to be billed become fewer, but for the one that
\* the query for its invoices has let through.
LEMMA BillableStep ==
  ASSUME TypeInv, [Next]_vars
  PROVE  \/ cron'.kind # "full"
         \/ cron'.billable \subseteq cron.billable /\ cron.kind = "full"
         \/ cron'.billable = {}
         \/ /\ Filter
            /\ \E x \in cron.found :
                 cron'.billable = cron.billable \union {x} /\ ~AlreadyInvoiced(x)
<1>0. CASE UNCHANGED cron
  BY <1>0
<1>1. CASE Filter
  BY <1>1, FilterCron DEF TypeInv, CronIs
<1>2. CASE Drops
  <2>1. PICK x \in cron.billable : cron' = [cron EXCEPT !.billable = @ \ {x}]
    BY <1>2 DEF Drops
  <2> QED
    BY <2>1, DroppedCron DEF TypeInv, CronIs
<1>3. CASE Finalizes
  BY <1>3, AfterFinalizeCron DEF TypeInv, CronIs, Finalizes
<1>4. CASE GenerateInvoice
  BY <1>4, GenerateCron DEF TypeInv, CronIs
<1>5. CASE NextSubscription
  BY <1>5, NextCron DEF TypeInv, CronIs
<1> QED
  BY <1>0, <1>1, <1>2, <1>3, <1>4, <1>5, StepCases, TickCron, FindCancelledCron, IdleCron
     DEF TypeInv, CronIs, Rests, PaymentAdvances, CreateBegin, CreateCommit, CancelWrite,
     GivesUp, Advances, Rewrites,
     Stops, ManualRead, ManualGenerate

LEMMA OnceStep == Inv /\ Once /\ [Next]_vars => Once'
<1> SUFFICES ASSUME Inv, Once, [Next]_vars PROVE Once'
  OBVIOUS
<1>t. TypeOK /\ TypeInv /\ Snapshots /\ Subs /\ deployment' = deployment /\ NoManual' = NoManual
  BY BoundsStep DEF Inv, TypeInv, NoManual
<1>d. DOMAIN invoices = 1 .. Len(invoices) /\ Len(invoices) \in Nat
  BY <1>t, InvoiceFields
<1>m. manual' # None => ~NoManual
  BY StepCases, <1>t DEF TypeInv, Once, NoManual, Rests, PaymentAdvances, CreateBegin,
     CreateCommit, CancelWrite, Tick, Filter,
     GenerateInvoice, Drops, Finalizes, GivesUp, Advances, FindCancelled, Stops, Rewrites,
     CronMoves, ManualRead, ManualGenerate, Act
<1>g. ~ManualGenerate \/ ~NoManual
  BY DEF ManualGenerate, Once
<1>1. ASSUME NoManual, NEW i \in DOMAIN invoices', invoices'[i].kind = "full"
      PROVE  invoices'[i].end = invoices'[i].start + PeriodLength
  <2>1. CASE SameInvoices
    BY <1>1, <2>1 DEF SameInvoices, Kept, Once
  <2>2. ASSUME NEW x \in cron.billable, Generates(x)
        PROVE  invoices'[i].end = invoices'[i].start + PeriodLength
    <3>1. x \in Handled /\ x.sub \in Subscriptions
      BY <1>t, HandledFields DEF Handled
    <3>2. x.end = x.start + PeriodLength
      BY <3>1, <1>t DEF Snapshots, Read
    <3>3. CreateInvoice(x, cron.kind)
      BY <2>2 DEF Generates
    <3>4. CASE i \in DOMAIN invoices
      BY <1>1, <3>3, <3>4, <1>t, CronCreates DEF Once
    <3>5. CASE i = Len(invoices) + 1
      BY <1>1, <3>2, <3>3, <3>5, <1>t, CronCreates
    <3> QED
      BY <3>3, <3>4, <3>5, <1>t, <1>d, CronCreates
  <2> QED
    BY <1>1, <1>g, <1>t, <2>1, <2>2, InvoiceStep
<1>2. ASSUME NoManual, cron'.kind = "full", NEW x \in cron'.billable,
             NEW i \in DOMAIN invoices',
             invoices'[i].kind = "full", invoices'[i].sub = x.sub, invoices'[i].start = x.start
      PROVE  FALSE
  <2>1. CASE SameInvoices
    <3>1. /\ i \in DOMAIN invoices /\ invoices[i].kind = "full"
          /\ invoices[i].sub = x.sub /\ invoices[i].start = x.start
      BY <1>2, <2>1 DEF SameInvoices, Kept
    <3>2. CASE Filter /\ x \in cron.found /\ ~AlreadyInvoiced(x)
      <4>1. cron.kind = "full"
        BY <1>2, <3>2, <1>t, FilterCron DEF CronIs
      <4>2. x \in Handled /\ x.sub \in Subscriptions
        BY <3>2, <1>t, HandledFields DEF Handled
      <4>3. x.end = x.start + PeriodLength
        BY <4>2, <1>t DEF Snapshots, Read
      <4>4. invoices[i].end = x.end
        BY <1>2, <3>1, <4>3 DEF Once
      <4> QED
        BY <3>1, <3>2, <4>1, <4>4 DEF AlreadyInvoiced
    <3>3. CASE x \in cron.billable /\ cron.kind = "full"
      BY <1>2, <3>1, <3>3 DEF Once
    <3>4. CASE Filter
      <4>1. cron.kind = "full"
        BY <1>2, <3>4, <1>t, FilterCron DEF CronIs
      <4> QED
        BY <1>2, <1>t, <3>2, <3>3, <3>4, <4>1, BillableStep
    <3> QED
      BY <1>2, <1>t, <3>3, <3>4, BillableStep
  <2>2. ASSUME NEW y \in cron.billable, Generates(y) PROVE FALSE
    <3>1. /\ CreateInvoice(y, cron.kind) /\ cron.kind = "full"
          /\ x \in cron.billable /\ x # y
      BY <1>2, <2>2 DEF Generates, CronIs
    <3>2. x.sub # y.sub
      BY <1>t, <3>1 DEF Snapshots, Handled
    <3>3. CASE i \in DOMAIN invoices
      BY <1>2, <3>1, <3>3, <1>t, CronCreates DEF Once
    <3>4. CASE i = Len(invoices) + 1
      BY <1>2, <3>1, <3>2, <3>4, <1>t, CronCreates
    <3> QED
      BY <3>1, <3>3, <3>4, <1>t, <1>d, CronCreates
  <2> QED
    BY <1>2, <1>g, <1>t, <2>1, <2>2, InvoiceStep
<1>3. ASSUME NoManual, NEW i \in DOMAIN invoices', NEW j \in DOMAIN invoices', i # j,
             invoices'[i].kind = "full", invoices'[j].kind = "full",
             invoices'[i].sub = invoices'[j].sub, invoices'[i].start = invoices'[j].start
      PROVE  FALSE
  <2>o. \A k, l \in DOMAIN invoices :
          /\ k # l /\ invoices[k].kind = "full" /\ invoices[l].kind = "full"
          /\ invoices[k].sub = invoices[l].sub
          => invoices[k].start # invoices[l].start
    BY <1>3 DEF Once, OneInvoicePerPeriod, NoManual
  <2>1. CASE SameInvoices
    BY <1>3, <2>1, <2>o DEF SameInvoices, Kept
  <2>2. ASSUME NEW y \in cron.billable, Generates(y) PROVE FALSE
    <3>1. CreateInvoice(y, cron.kind)
      BY <2>2 DEF Generates
    <3>2. \A k \in DOMAIN invoices : invoices'[k] = invoices[k]
      BY <3>1, <1>t, CronCreates
    <3>3. \A k \in DOMAIN invoices' : k \in DOMAIN invoices \/ k = Len(invoices) + 1
      BY <3>1, <1>t, <1>d, CronCreates
    <3>4. CASE cron.kind = "full"
      <4>1. \A k \in DOMAIN invoices :
              ~ /\ invoices[k].kind = "full"
                /\ invoices[k].sub = y.sub /\ invoices[k].start = y.start
        BY <1>3, <3>4 DEF Once
      <4>2. /\ invoices'[Len(invoices) + 1].sub = y.sub
            /\ invoices'[Len(invoices) + 1].start = y.start
        BY <3>1, <1>t, CronCreates
      <4> QED
        BY <1>3, <2>o, <3>2, <3>3, <4>1, <4>2
    <3>5. CASE cron.kind # "full"
      <4>1. invoices'[Len(invoices) + 1].kind # "full"
        BY <3>1, <3>5, <1>t, CronCreates
      <4> QED
        BY <1>3, <2>o, <3>2, <3>3, <4>1
    <3> QED
      BY <3>4, <3>5
  <2> QED
    BY <1>3, <1>g, <1>t, <2>1, <2>2, InvoiceStep
<1> QED
  <2>1. OneInvoicePerPeriod'
    BY <1>3, <1>t DEF OneInvoicePerPeriod, NoManual
  <2>2. NoManual' =>
         /\ \A i \in DOMAIN invoices' :
              invoices'[i].kind = "full" => invoices'[i].end = invoices'[i].start + PeriodLength
         /\ cron'.kind = "full" =>
              \A x \in cron'.billable : \A i \in DOMAIN invoices' :
                ~ /\ invoices'[i].kind = "full"
                  /\ invoices'[i].sub = x.sub /\ invoices'[i].start = x.start
    BY <1>1, <1>2, <1>t
  <2> QED
    BY <1>m, <2>1, <2>2, <1>t DEF Once

-----------------------------------------------------------------------------
(* No day is charged in full and prorated *)

LEMMA Quiet == Inv /\ Undisturbed => NoAdmin /\ paying = {}
BY DEF Inv, Undisturbed, NoAdmin, Payments

LEMMA StartsGrow ==
  ASSUME Inv, Undisturbed, [Next]_vars, NEW q \in Subscriptions
  PROVE  sub[q].start \in Nat /\ sub'[q].start \in Nat /\ sub[q].start <= sub'[q].start
<1>t. TypeOK /\ TypeOK' /\ Subs
  BY InvStep DEF Inv, TypeInv
<1>1. sub[q].start \in Nat /\ sub'[q].start \in Nat
  BY <1>t, BillingAssumption DEF TypeOK, Times
<1>2. CASE sub[q].status = "ABSENT"
  BY <1>1, <1>2, <1>t DEF Subs
<1>3. CASE sub[q].status # "ABSENT" /\ Stays(q)
  BY <1>1, <1>3 DEF Stays
<1>4. CASE Advances /\ q = cron.at.sub
  <2>1. sub'[q].start = sub[q].start + PeriodLength
    BY <1>4, Quiet, AdvancesFacts DEF Advanced, Read, Inv, Snapshots
  <2> QED
    BY <1>1, <2>1, BillingAssumption
<1>5. ~PaysFor(q)
  BY Quiet DEF PaysFor
<1> QED
  BY <1>1, <1>2, <1>3, <1>4, <1>5, SubsStay

\* What can happen while nothing fails and nobody interferes.
LEMMA QuietCases ==
  ASSUME Inv, Once, Apart, Undisturbed, [Next]_vars
  PROVE  \/ UNCHANGED <<invoices, cron>>
         \/ Tick \/ FindCancelled \/ Advances \/ Finalizes
         \/ UNCHANGED invoices /\ cron.step = "search" /\ cron'.step \in {"idle", "search"}
         \/ /\ cron.step = "search"
            /\ \E x \in cron.billable :
                 /\ CreateInvoice(x, cron.kind) /\ UNCHANGED sub
                 /\ CronIs("finalize", cron.kind, {}, cron.billable \ {x}, x, Len(invoices) + 1)
<1>t. TypeInv /\ deployment.kinds = {} /\ deployment.actors = {}
  BY DEF Inv, Undisturbed
<1>1. ~ManualRead /\ ~ManualGenerate /\ ~Rewrites /\ paying = {}
  BY <1>t, Quiet DEF ManualRead, Act, ManualGenerate, Rewrites, Once, NoManual
<1>2. ~GivesUp
  BY <1>t DEF GivesUp, Apart
<1>3. CASE Filter
  BY <1>3, <1>t, FilterCron DEF CronIs, Filter, TypeInv
<1>4. CASE Drops
  <2>1. PICK x \in cron.billable : cron' = [cron EXCEPT !.billable = @ \ {x}]
    BY <1>4 DEF Drops
  <2> QED
    BY <1>4, <1>t, <2>1, DroppedCron DEF Drops, CronIs, TypeInv
<1>5. CASE Stops
  BY <1>5, <1>t, IdleCron DEF Stops, PhaseDone, CronIs
<1>6. CASE GenerateInvoice
  <2>1. PICK x \in cron.billable :
          /\ Billing(x) /\ CreateInvoice(x, cron.kind)
          /\ CronIs("finalize", cron.kind, cron.found, cron.billable \ {x}, x, Len(invoices) + 1)
    BY <1>6, <1>t, GenerateCron DEF TypeInv
  <2> QED
    BY <1>6, <2>1 DEF Billing, GenerateInvoice
<1> QED
  BY <1>1, <1>2, <1>3, <1>4, <1>5, <1>6, <1>t, StepCases DEF TypeInv, Rests, PaymentAdvances,
     CreateBegin,
     CreateCommit, CancelWrite

LEMMA ApartStep == Inv /\ Once /\ Apart /\ [Next]_vars => Apart'
<1> SUFFICES ASSUME Inv, Once, Apart, [Next]_vars, Undisturbed PROVE Apart'
  <2>1. TypeOK /\ [Next]_vars /\ Undisturbed' => Undisturbed
    BY BoundsStep DEF Undisturbed
  <2> QED
    BY <2>1 DEF Apart, Inv, TypeInv
<1>t. TypeOK /\ TypeInv /\ Snapshots /\ Subs /\ CronInvoice
  BY DEF Inv, TypeInv
<1>d. /\ DOMAIN invoices = 1 .. Len(invoices) /\ Len(invoices) \in Nat
      /\ \A i \in DOMAIN invoices : invoices[i].sub \in Subscriptions /\ invoices[i].end \in Nat
  BY <1>t, InvoiceFields
<1>a. \A i \in DOMAIN invoices :
        IF invoices[i].kind = "full"
        THEN \/ invoices[i].end <= sub[invoices[i].sub].start
             \/ cron.step \in {"finalize", "advance"} /\ cron.kind = "full" /\ cron.inv = i
        ELSE /\ sub[invoices[i].sub].status = "CANCELLED"
             /\ invoices[i].start = sub[invoices[i].sub].start
             /\ cron.kind = "full" => \A x \in Handled : x.sub # invoices[i].sub
  BY DEF Apart
<1>f. cron.step \in {"idle", "search", "finalize", "advance"}
  BY CronFields, <1>t
\* What was invoiced in full.
<1>1. ASSUME NEW i \in DOMAIN invoices, invoices[i].kind = "full"
      PROVE  \/ invoices[i].end <= sub'[invoices[i].sub].start
             \/ cron'.step \in {"finalize", "advance"} /\ cron'.kind = "full" /\ cron'.inv = i
  <2>1. CASE invoices[i].end <= sub[invoices[i].sub].start
    BY <2>1, <1>d, StartsGrow
  <2>2. CASE cron.step \in {"finalize", "advance"} /\ cron.kind = "full" /\ cron.inv = i
    <3>1. CASE Advances
      <4>1. /\ sub'[cron.at.sub].start = cron.at.end /\ invoices[i].sub = cron.at.sub
            /\ invoices[i].end = cron.at.end
        BY <2>2, <3>1, <1>t, AdvancesFacts DEF CronInvoice, Advanced
      <4> QED
        BY <4>1, <1>d
    <3>2. CASE Finalizes
      BY <2>2, <3>2, <1>t, AfterFinalizeCron DEF Finalizes, CronIs
    <3>3. ~Tick /\ ~FindCancelled
      BY <2>2, CronIdleFields DEF Tick, FindCancelled, PhaseDone
    <3> QED
      BY <2>2, <3>1, <3>2, <3>3, QuietCases
  <2> QED
    BY <1>1, <1>a, <2>1, <2>2
\* What was prorated.
<1>2. ASSUME NEW i \in DOMAIN invoices, invoices[i].kind # "full"
      PROVE  /\ sub'[invoices[i].sub].status = "CANCELLED"
             /\ invoices[i].start = sub'[invoices[i].sub].start
  <2> DEFINE q == invoices[i].sub
  <2>1. /\ q \in Subscriptions /\ sub[q].status = "CANCELLED" /\ invoices[i].start = sub[q].start
        /\ cron.kind = "full" => \A x \in Handled : x.sub # q
    BY <1>2, <1>a, <1>d
  <2>2. ~(Advances /\ q = cron.at.sub)
    BY <2>1, AdvancesFacts
  <2>3. Stays(q)
    BY <2>1, <2>2, Quiet, SubsStay DEF PaysFor
  <2> QED
    BY <2>1, <2>3 DEF Stays, Lives
<1>3. ASSUME NEW i \in DOMAIN invoices, invoices[i].kind # "full",
             cron'.kind = "full", NEW x \in Handled', x.sub = invoices[i].sub
      PROVE  FALSE
  <2>1. CASE Tick /\ Handled' = {Snapshot(s) : s \in Expired}
    BY <1>3, <2>1, <1>a, <1>t, FoundFields
  <2>2. CASE Handled' \subseteq Handled /\ cron'.kind = cron.kind
    BY <1>3, <2>2, <1>a
  <2> QED
    BY <1>3, <2>1, <2>2, <1>t, HandledStep
<1>4. CASE /\ cron.step = "search"
           /\ \E x \in cron.billable :
                /\ CreateInvoice(x, cron.kind) /\ UNCHANGED sub
                /\ CronIs("finalize", cron.kind, {}, cron.billable \ {x}, x, Len(invoices) + 1)
  <2>1. PICK x \in cron.billable :
          /\ CreateInvoice(x, cron.kind) /\ UNCHANGED sub
          /\ CronIs("finalize", cron.kind, {}, cron.billable \ {x}, x, Len(invoices) + 1)
    BY <1>4
  <2> DEFINE n == Len(invoices) + 1
  <2>2. /\ DOMAIN invoices' = 1 .. n
        /\ \A i \in DOMAIN invoices : invoices'[i] = invoices[i]
        /\ invoices'[n].sub = x.sub /\ invoices'[n].start = x.start
        /\ invoices'[n].kind = cron.kind /\ invoices'[n].status = "DRAFT"
    BY <2>1, <1>t, CronCreates
  <2>3. \A i \in DOMAIN invoices' : i \in DOMAIN invoices \/ i = n
    BY <2>2, <1>d
  <2>4. /\ cron'.step = "finalize" /\ cron'.kind = cron.kind /\ cron'.inv = n
    BY <2>1 DEF CronIs
  <2>5. x \in Handled /\ x.start = sub[x.sub].start
        /\ (cron.kind # "full" => sub[x.sub].status = "CANCELLED")
    <3>1. x \in Handled
      BY DEF Handled
    <3>2. cron.kind # "full" => x.cancelledAt # None
      BY <3>1, <1>t, HandledFields, CronFields DEF Kinds
    <3> QED
      BY <3>1, <3>2, <1>t, Quiet DEF Snapshots
  <2> HIDE DEF n
  <2>6. ASSUME NEW i \in DOMAIN invoices'
        PROVE  IF invoices'[i].kind = "full"
               THEN \/ invoices'[i].end <= sub'[invoices'[i].sub].start
                    \/ /\ cron'.step \in {"finalize", "advance"}
                       /\ cron'.kind = "full" /\ cron'.inv = i
               ELSE /\ sub'[invoices'[i].sub].status = "CANCELLED"
                    /\ invoices'[i].start = sub'[invoices'[i].sub].start
                    /\ cron'.kind = "full" => \A y \in Handled' : y.sub # invoices'[i].sub
    <3>1. CASE i \in DOMAIN invoices
      BY <3>1, <2>2, <1>1, <1>2, <1>3
    <3>2. CASE i = n
      BY <3>2, <2>1, <2>2, <2>4, <2>5
    <3> QED
      BY <3>1, <3>2, <2>3
  <2> QED
    BY <2>2, <2>4, <2>6 DEF Apart
<1>5. CASE Finalizes \/ UNCHANGED invoices
  <2>1. SameInvoices
    BY <1>5, <1>t, Unchanged, CronRewrites DEF Finalizes
  <2>2. cron'.step = "finalize" => UNCHANGED <<invoices, cron>>
    <3>1. CASE Tick \/ FindCancelled
      BY <3>1, <1>t, TickCron, FindCancelledCron DEF CronIs
    <3>2. CASE Finalizes
      BY <3>2, <1>t, AfterFinalizeCron DEF CronIs, Finalizes
    <3>3. CASE Advances
      BY <3>3, AdvancesFacts DEF CronIs
    <3>4. ASSUME NEW x \in cron.billable, CreateInvoice(x, cron.kind) PROVE ~UNCHANGED invoices
      BY <3>4, <1>t, <1>d, CronCreates
    <3> QED
      BY <1>5, <3>1, <3>2, <3>3, <3>4, QuietCases
  <2>3. cron'.step = "finalize" => invoices'[cron'.inv].status = "DRAFT"
    BY <2>2 DEF Apart
  <2>4. ASSUME NEW i \in DOMAIN invoices'
        PROVE  /\ i \in DOMAIN invoices
               /\ invoices'[i].sub = invoices[i].sub /\ invoices'[i].start = invoices[i].start
               /\ invoices'[i].end = invoices[i].end /\ invoices'[i].kind = invoices[i].kind
    BY <2>1 DEF SameInvoices, Kept
  <2> QED
    BY <2>3, <2>4, <1>1, <1>2, <1>3 DEF Apart
<1> QED
  BY <1>4, <1>5, QuietCases DEF Tick, FindCancelled, Advances

\* The cron does not charge a day twice: it invoices no period twice, whatever
\* fails, and while nothing fails no day is charged in full and prorated.
THEOREM NothingTwice == Spec => []NothingBilledTwice
<1>1. Init => Once /\ Apart
  <2> SUFFICES ASSUME Init PROVE Once /\ Apart
    OBVIOUS
  <2>1. /\ DOMAIN invoices = {} /\ manual = None /\ cron.billable = {}
        /\ cron.step = "idle"
    BY CronIdleFields, EmptySeq DEF Init
  <2> QED
    BY <2>1 DEF Once, Apart, OneInvoicePerPeriod
<1>2. Inv /\ Once /\ Apart /\ [Next]_vars => (Inv /\ Once /\ Apart)'
  BY InvStep, OnceStep, ApartStep
<1>3. Inv /\ Once /\ Apart => NothingBilledTwice
  <2> SUFFICES ASSUME Inv, Apart, Undisturbed,
                      NEW s \in Subscriptions, NEW i \in InvoicesOf(s, "full"),
                      NEW j \in InvoicesOf(s, "prorated")
               PROVE  invoices[i].end <= invoices[j].start
    BY DEF NothingBilledTwice, FullAndProratedDisjoint, Once
  <2>1. /\ i \in DOMAIN invoices /\ invoices[i].kind = "full" /\ invoices[i].sub = s
        /\ j \in DOMAIN invoices /\ invoices[j].kind # "full" /\ invoices[j].sub = s
    BY DEF InvoicesOf
  <2>2. /\ invoices[j].start = sub[s].start
        /\ cron.kind = "full" => \A x \in Handled : x.sub # s
    BY <2>1 DEF Apart
  <2>3. ~ /\ cron.step \in {"finalize", "advance"} /\ cron.kind = "full" /\ cron.inv = i
    BY <2>1, <2>2, AtFields DEF Inv, CronInvoice
  <2>4. invoices[i].end <= sub[s].start
    BY <2>1, <2>3 DEF Apart
  <2> QED
    BY <2>2, <2>4
<1> QED
  BY InvInit, <1>1, <1>2, <1>3, PTL DEF Spec

=============================================================================
