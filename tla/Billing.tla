------------------------------- MODULE Billing -------------------------------
(***************************************************************************)
(* Billing periods: subscriptions that are created, replaced and           *)
(* cancelled, the daily cron that invoices their expired periods, and what *)
(* administrators do beside it - the manual generation of invoices, and    *)
(* the finalization of drafts, whose payment advances the period too -,    *)
(* for one tenant.                                                         *)
(*                                                                         *)
(* The cron works from snapshots: it reads the subscriptions, then their   *)
(* invoices one by one, then generates, finalizes and advances one         *)
(* subscription after the other, while everything else goes on.  One       *)
(* process runs it; its flag isProcessing keeps ticks apart.               *)
(*                                                                         *)
(* finalize, markPaid and void are single steps here: what happens inside  *)
(* them is the business of InvoiceLifecycle, the rest of the payments that *)
(* of Payments.  A TRIALING subscription is billed as an ACTIVE one, so    *)
(* ACTIVE stands for both.                                                 *)
(***************************************************************************)
EXTENDS Naturals, Sequences, FiniteSets

CONSTANTS
    Subscriptions,  \* subscriptions the tenant may have, one after the other
    None,           \* a null time, an absent transaction or snapshot
    PeriodLength,   \* length of a billing period
    LastTime,       \* bound: time is 0 .. LastTime
    Deployments,    \* the surroundings to consider: who acts, what fails
    MaxFull,        \* bound: full invoices of a subscription
    MaxProrated,    \* bound: prorated invoices of a subscription
    MaxActs,        \* bound: what administrators do in a behaviour
    MaxFaults       \* bound: number of faults in a behaviour

ASSUME BillingAssumption ==
    /\ None \notin Nat \union Subscriptions
    /\ PeriodLength \in Nat \ {0}
    /\ LastTime \in Nat
    /\ MaxFull \in Nat
    /\ MaxProrated \in Nat
    /\ MaxActs \in Nat
    /\ MaxFaults \in Nat
    /\ \A d \in Deployments :
        /\ d.subscriptions \subseteq Subscriptions
        /\ d.actors \subseteq {"manual", "admin"}
        /\ d.kinds \subseteq {"db", "crash"}

VARIABLES
    now,         \* the time
    sub,         \* subscriptions: status, current period, cancelled_at, created_at
    creating,    \* per subscription: the transaction that creates it, if open
    cancelling,  \* the subscriptions whose cancel() has found them live
    invoices,    \* the rows of invoices, in order of creation
    cron,        \* local variables of handleBillingCycle
    manual,      \* the subscription a generateForTenant call has read
    paying,      \* payments of the invoices that administrators have finalized
    deployment,  \* the deployment of this behaviour
    acts,        \* history: number of administrators' requests so far
    faults       \* history: number of faults so far

vars == <<now, sub, creating, cancelling, invoices, cron, manual, paying, deployment, acts,
          faults>>

-----------------------------------------------------------------------------

Times == 0 .. LastTime
Kinds == {"full", "prorated"}
SubscriptionStatus == {"ABSENT", "ACTIVE", "CANCELLED"}

\* What findMany and findFirst select of a subscription.
BillableSubscription ==
    [sub : Subscriptions, start : Nat, end : Nat, cancelledAt : Times \union {None}]

\* kind: whether the notes say that the invoice is prorated.
Invoice == [sub : Subscriptions, start : Nat, end : Nat, kind : Kinds,
            status : {"DRAFT", "FINALIZED", "PAID", "VOID"}]

\* The payment of an invoice: its intent is created, or the handler of its success
\* is behind markPaid, or it has read the end of the subscription's period.
Payment == [inv : Nat, step : {"intent", "read", "advance"}, end : Nat]

\* found: not yet filtered; billable: not yet billed; at: the one being billed,
\* with the invoice generated for it.
CronIdle == [step |-> "idle", kind |-> "full", found |-> {}, billable |-> {},
             at |-> None, inv |-> 0]

TypeOK ==
    /\ now \in Times
    /\ sub \in [Subscriptions -> [status : SubscriptionStatus, start : Nat, end : Nat,
                                  cancelledAt : Times \union {None}, created : Times]]
    /\ creating \in [Subscriptions -> {None} \union
                                      [at : Times, seen : SUBSET Subscriptions]]
    /\ cancelling \subseteq Subscriptions
    /\ invoices \in Seq(Invoice)
    /\ cron \in [step : {"idle", "search", "finalize", "advance"}, kind : Kinds,
                 found : SUBSET BillableSubscription, billable : SUBSET BillableSubscription,
                 at : BillableSubscription \union {None}, inv : 0 .. Len(invoices)]
    /\ manual \in BillableSubscription \union {None}
    /\ paying \subseteq Payment
    /\ deployment \in Deployments
    /\ acts \in 0 .. MaxActs
    /\ faults \in 0 .. MaxFaults

Init ==
    /\ now = 0
    /\ sub = [s \in Subscriptions |-> [status |-> "ABSENT", start |-> 0, end |-> 0,
                                       cancelledAt |-> None, created |-> 0]]
    /\ creating = [s \in Subscriptions |-> None]
    /\ cancelling = {}
    /\ invoices = <<>>
    /\ cron = CronIdle
    /\ manual = None
    /\ paying = {}
    /\ deployment \in Deployments
    /\ acts = 0
    /\ faults = 0

Fault(kind) ==
    /\ kind \in deployment.kinds
    /\ faults < MaxFaults
    /\ faults' = faults + 1

TimePasses ==
    /\ now < LastTime
    /\ now' = now + 1
    /\ UNCHANGED <<sub, creating, cancelling, invoices, cron, manual, paying, deployment,
                   acts, faults>>

-----------------------------------------------------------------------------
(* Subscriptions *)

Active == {s \in Subscriptions : sub[s].status = "ACTIVE"}

\* create() takes the time, and its transaction's updateMany sees the active
\* subscriptions that are committed.
CreateBegin(s) ==
    /\ s \in deployment.subscriptions
    /\ sub[s].status = "ABSENT"
    /\ creating[s] = None
    /\ creating' = [creating EXCEPT ![s] = [at |-> now, seen |-> Active]]
    /\ UNCHANGED <<now, sub, cancelling, invoices, cron, manual, paying, deployment, acts,
                   faults>>

\* Those of them that are still active are cancelled, and the new one appears.
CreateCommit(s) ==
    LET at == creating[s].at
    IN  /\ creating[s] # None
        /\ sub' = [x \in Subscriptions |->
                     CASE x = s ->
                            [status |-> "ACTIVE", start |-> at, end |-> at + PeriodLength,
                             cancelledAt |-> None, created |-> at]
                       [] x \in creating[s].seen \intersect Active ->
                            [sub[x] EXCEPT !.status = "CANCELLED", !.cancelledAt = at]
                       [] OTHER -> sub[x]]
        /\ creating' = [creating EXCEPT ![s] = None]
        /\ UNCHANGED <<now, cancelling, invoices, cron, manual, paying, deployment, acts,
                       faults>>

\* cancel() looks the live subscription up ...
CancelRead(s) ==
    /\ s \in Active \ cancelling
    /\ cancelling' = cancelling \union {s}
    /\ UNCHANGED <<now, sub, creating, invoices, cron, manual, paying, deployment, acts,
                   faults>>

\* ... and cancels it by its id, whatever it looks like by now.
CancelWrite(s) ==
    /\ s \in cancelling
    /\ sub' = [sub EXCEPT ![s].status = "CANCELLED", ![s].cancelledAt = now]
    /\ cancelling' = cancelling \ {s}
    /\ UNCHANGED <<now, creating, invoices, cron, manual, paying, deployment, acts, faults>>

-----------------------------------------------------------------------------
(* Generation *)

Snapshot(s) == [sub |-> s, start |-> sub[s].start, end |-> sub[s].end,
                cancelledAt |-> sub[s].cancelledAt]

InvoicesOf(s, kind) == {i \in DOMAIN invoices : invoices[i].sub = s /\ invoices[i].kind = kind}

Room(s, kind) ==
    Cardinality(InvoicesOf(s, kind)) < (IF kind = "full" THEN MaxFull ELSE MaxProrated)

\* Mutant: every invoice ends at the cancellation.
CreateInvoiceCut(x, kind) ==
    /\ Room(x.sub, kind)
    /\ invoices' = Append(invoices, [sub |-> x.sub, start |-> x.start, end |-> x.cancelledAt,
                                     kind |-> kind, status |-> "DRAFT"])

\* generate() and generateProrated(): a DRAFT for the period, which ends at the
\* cancellation if it is prorated.
CreateInvoice(x, kind) ==
    /\ Room(x.sub, kind)
    /\ invoices' = Append(invoices,
                     [sub |-> x.sub, start |-> x.start,
                      end |-> IF kind = "full" THEN x.end ELSE x.cancelledAt,
                      kind |-> kind, status |-> "DRAFT"])

Finalize(i) == invoices' = [invoices EXCEPT ![i].status = "FINALIZED"]

\* Mutant: the new period starts where the old one did.
AdvancePeriodEnd(x) ==
    sub' = [sub EXCEPT ![x.sub].end = x.end + PeriodLength]

\* advancePeriod writes what follows the period it is given, whatever the
\* subscription looks like by now.
AdvancePeriod(x) ==
    sub' = [sub EXCEPT ![x.sub].start = x.end, ![x.sub].end = x.end + PeriodLength]

-----------------------------------------------------------------------------
(* handleBillingCycle *)

Expired == {s \in Active : sub[s].end <= now}

\* findBillableSubscriptions: the first query.
Tick ==
    /\ cron = CronIdle
    /\ cron' = [CronIdle EXCEPT !.step = "search", !.found = {Snapshot(s) : s \in Expired}]
    /\ UNCHANGED <<now, sub, creating, cancelling, invoices, manual, paying, deployment,
                   acts, faults>>

\* Mutant: the existing invoices are not looked at.
AlreadyInvoicedNever(x) == FALSE

\* Mutant: any invoice of the subscription will do.
AlreadyInvoicedEver(x) ==
    cron.kind = "full" /\ \E i \in DOMAIN invoices : invoices[i].sub = x.sub

\* The query for an invoice of the period: any status will do.  The one for a
\* prorated invoice looks for notes that contain "prorated", while the notes say
\* "Prorated"; the comparison is case-sensitive.
Note(kind) == IF kind = "prorated" THEN "Prorated" ELSE ""

AlreadyInvoiced(x) ==
    \E i \in DOMAIN invoices :
        /\ invoices[i].sub = x.sub
        /\ invoices[i].start = x.start
        /\ \/ cron.kind = "full" /\ invoices[i].end = x.end
           \/ cron.kind = "prorated" /\ Note(invoices[i].kind) = "prorated"

Filter ==
    /\ cron.step = "search"
    /\ \E x \in cron.found :
        cron' = [cron EXCEPT !.found = @ \ {x},
                             !.billable = IF AlreadyInvoiced(x) THEN @ ELSE @ \union {x}]
    /\ UNCHANGED <<now, sub, creating, cancelling, invoices, manual, paying, deployment,
                   acts, faults>>

Billing(x) ==
    /\ cron.step = "search"
    /\ cron.found = {}
    /\ x \in cron.billable

GenerateInvoice ==
    /\ \E x \in cron.billable :
        /\ Billing(x)
        /\ CreateInvoice(x, cron.kind)
        /\ cron' = [cron EXCEPT !.step = "finalize", !.billable = @ \ {x}, !.at = x,
                                !.inv = Len(invoices) + 1]
    /\ UNCHANGED <<now, sub, creating, cancelling, manual, paying, deployment, acts,
                   faults>>

\* An error leaves the loop body: the next subscription is billed.
NextSubscription == cron' = [cron EXCEPT !.step = "search", !.at = None, !.inv = 0]

GenerateFails ==
    /\ \E x \in cron.billable :
        /\ Billing(x)
        /\ UNCHANGED invoices \/ CreateInvoice(x, cron.kind)
        /\ cron' = [cron EXCEPT !.billable = @ \ {x}]
    /\ Fault("db")
    /\ UNCHANGED <<now, sub, creating, cancelling, manual, paying, deployment, acts>>

\* At the bounds of this model the generation fails as well.
GenerateAtBound ==
    /\ \E x \in cron.billable :
        /\ Billing(x)
        /\ ~Room(x.sub, cron.kind)
        /\ cron' = [cron EXCEPT !.billable = @ \ {x}]
    /\ UNCHANGED <<now, sub, creating, cancelling, invoices, manual, paying, deployment,
                   acts, faults>>

\* Prorated invoices are not followed by an advance.
AfterFinalize ==
    IF cron.kind = "full" THEN cron' = [cron EXCEPT !.step = "advance"] ELSE NextSubscription

\* finalize() throws if the invoice is no draft any more.
FinalizeInvoice ==
    /\ cron.step = "finalize"
    /\ \/ invoices[cron.inv].status = "DRAFT" /\ Finalize(cron.inv) /\ AfterFinalize
       \/ invoices[cron.inv].status # "DRAFT" /\ NextSubscription /\ UNCHANGED invoices
    /\ UNCHANGED <<now, sub, creating, cancelling, manual, paying, deployment, acts,
                   faults>>

\* Mutant: a failed finalization is logged, and the period advanced.
FinalizeFailsQuietly ==
    /\ cron.step = "finalize"
    /\ Fault("db")
    /\ AfterFinalize
    /\ UNCHANGED <<now, sub, creating, cancelling, invoices, manual, paying, deployment,
                   acts>>

FinalizeFails ==
    /\ cron.step = "finalize"
    /\ Fault("db")
    /\ UNCHANGED invoices \/ (invoices[cron.inv].status = "DRAFT" /\ Finalize(cron.inv))
    /\ NextSubscription
    /\ UNCHANGED <<now, sub, creating, cancelling, manual, paying, deployment, acts>>

Advance ==
    /\ cron.step = "advance"
    /\ AdvancePeriod(cron.at)
    /\ NextSubscription
    /\ UNCHANGED <<now, creating, cancelling, invoices, manual, paying, deployment, acts,
                   faults>>

AdvanceFails ==
    /\ cron.step = "advance"
    /\ Fault("db")
    /\ UNCHANGED sub \/ AdvancePeriod(cron.at)
    /\ NextSubscription
    /\ UNCHANGED <<now, creating, cancelling, invoices, manual, paying, deployment, acts>>

\* Mutant: only live subscriptions are looked for.
CancelledAndLive ==
    {s \in Subscriptions : sub[s].cancelledAt # None /\ sub[s].status = "ACTIVE"}

\* Cancelled subscriptions, whenever that was.
Cancelled ==
    {s \in Subscriptions : /\ sub[s].cancelledAt # None
                           /\ sub[s].status \in {"ACTIVE", "CANCELLED"}}

PhaseDone == cron.step = "search" /\ cron.found = {} /\ cron.billable = {}

\* findCancelledSubscriptionsNeedingInvoice: the first query.
FindCancelled ==
    /\ PhaseDone
    /\ cron.kind = "full"
    /\ cron' = [cron EXCEPT !.kind = "prorated", !.found = {Snapshot(s) : s \in Cancelled}]
    /\ UNCHANGED <<now, sub, creating, cancelling, invoices, manual, paying, deployment,
                   acts, faults>>

TickEnds ==
    /\ PhaseDone
    /\ cron.kind = "prorated"
    /\ cron' = CronIdle
    /\ UNCHANGED <<now, sub, creating, cancelling, invoices, manual, paying, deployment,
                   acts, faults>>

\* A query of the searches fails, or the process dies: the tick is over.
TickAborts ==
    /\ cron # CronIdle
    /\ \/ cron.step = "search" /\ (cron.found # {} \/ PhaseDone) /\ Fault("db")
       \/ Fault("crash")
    /\ cron' = CronIdle
    /\ UNCHANGED <<now, sub, creating, cancelling, invoices, manual, paying, deployment,
                   acts>>

Cron ==
    \/ Tick \/ Filter \/ GenerateInvoice \/ GenerateAtBound \/ FinalizeInvoice
    \/ Advance \/ FindCancelled \/ TickEnds

CronFaults == GenerateFails \/ FinalizeFails \/ AdvanceFails \/ TickAborts

-----------------------------------------------------------------------------
(* Administrators *)

Act(actor) ==
    /\ actor \in deployment.actors
    /\ acts < MaxActs
    /\ acts' = acts + 1

\* generateForTenant: the newest subscription, whatever invoices it has.
ManualRead ==
    /\ Act("manual")
    /\ manual = None
    /\ \E s \in Active \union Cancelled :
        /\ \A x \in Active \union Cancelled : sub[x].created <= sub[s].created
        /\ manual' = Snapshot(s)
    /\ UNCHANGED <<now, sub, creating, cancelling, invoices, cron, paying, deployment,
                   faults>>

ManualKind ==
    IF manual.cancelledAt # None /\ manual.cancelledAt < manual.end
    THEN "prorated" ELSE "full"

\* The period is not advanced.
ManualGenerate ==
    /\ manual # None
    /\ \/ CreateInvoice(manual, ManualKind)
       \/ ~Room(manual.sub, ManualKind) /\ UNCHANGED invoices
    /\ manual' = None
    /\ UNCHANGED <<now, sub, creating, cancelling, cron, paying, deployment, acts, faults>>

\* The controller starts the payment of what it has finalized; the cron does not.
AdminFinalize(i) ==
    /\ Act("admin")
    /\ invoices[i].status = "DRAFT"
    /\ Finalize(i)
    /\ paying' = paying \union {[inv |-> i, step |-> "intent", end |-> 0]}
    /\ UNCHANGED <<now, sub, creating, cancelling, cron, manual, deployment, faults>>

AdminVoid(i) ==
    /\ Act("admin")
    /\ invoices[i].status \in {"DRAFT", "FINALIZED"}
    /\ invoices' = [invoices EXCEPT ![i].status = "VOID"]
    /\ UNCHANGED <<now, sub, creating, cancelling, cron, manual, paying, deployment,
                   faults>>

-----------------------------------------------------------------------------
(* PaymentSuccessHandler.  A webhook that does not come, a payment that is   *)
(* refused and a handler that fails are steps that are not taken.            *)

\* markPaid(), which takes finalized invoices only.
PaymentSucceeds(p) ==
    /\ p.step = "intent"
    /\ invoices[p.inv].status = "FINALIZED"
    /\ invoices' = [invoices EXCEPT ![p.inv].status = "PAID"]
    /\ paying' = (paying \ {p}) \union {[inv |-> p.inv, step |-> "read", end |-> 0]}
    /\ UNCHANGED <<now, sub, creating, cancelling, cron, manual, deployment, acts, faults>>

PaymentReads(p) ==
    /\ p.step = "read"
    /\ paying' = (paying \ {p}) \union
                  {[inv |-> p.inv, step |-> "advance", end |-> sub[invoices[p.inv].sub].end]}
    /\ UNCHANGED <<now, sub, creating, cancelling, invoices, cron, manual, deployment,
                   acts, faults>>

PaymentAdvances(p) ==
    /\ p.step = "advance"
    /\ AdvancePeriod([sub |-> invoices[p.inv].sub, end |-> p.end])
    /\ paying' = paying \ {p}
    /\ UNCHANGED <<now, creating, cancelling, invoices, cron, manual, deployment, acts,
                   faults>>

-----------------------------------------------------------------------------

Next ==
    \/ TimePasses
    \/ \E s \in Subscriptions :
        CreateBegin(s) \/ CreateCommit(s) \/ CancelRead(s) \/ CancelWrite(s)
    \/ Cron \/ CronFaults
    \/ ManualRead \/ ManualGenerate
    \/ \E i \in DOMAIN invoices : AdminFinalize(i) \/ AdminVoid(i)
    \/ \E p \in paying : PaymentSucceeds(p) \/ PaymentReads(p) \/ PaymentAdvances(p)

Spec == Init /\ [][Next]_vars

\* The cron keeps ticking and working; time, people and faults need not go on.
FairSpec == Spec /\ WF_vars(Cron)

-----------------------------------------------------------------------------
(* Properties *)

\* The cron never invoices a period of a subscription twice, whatever fails and
\* whatever administrators do to its drafts.  The manual generation, which looks
\* at no invoice, may.
OneInvoicePerPeriod ==
    "manual" \notin deployment.actors =>
        \A i, j \in DOMAIN invoices :
            /\ i # j
            /\ invoices[i].kind = "full" /\ invoices[j].kind = "full"
            /\ invoices[i].sub = invoices[j].sub
            => invoices[i].start # invoices[j].start

\* Invoices a subscription may be past: the full ones that are no drafts any more,
\* and what was paid.
Charged(s) ==
    {i \in DOMAIN invoices :
        /\ invoices[i].sub = s
        /\ \/ invoices[i].kind = "full" /\ invoices[i].status # "DRAFT"
           \/ invoices[i].status = "PAID"}

ChargedOnce(s) ==
    \A i, j \in Charged(s) : i # j => invoices[i].start # invoices[j].start

\* No revenue is skipped: each period a subscription has left behind was charged, by a
\* full invoice that is no draft any more or by one that was paid, although the cron
\* and the payments advance its period beside each other.  True as long as no period
\* is charged twice: then the cron's advance and that of a payment, or those of two
\* payments, may pass two periods for one.
NoPeriodSkipped ==
    \A s \in Subscriptions : \A k \in 0 .. sub[s].start :
        LET start == sub[s].created + k * PeriodLength
        IN  ChargedOnce(s) /\ start < sub[s].start =>
              \E i \in Charged(s) : invoices[i].start = start

Undisturbed == deployment.actors = {} /\ deployment.kinds = {}

\* The same days are not charged in full and prorated, although subscriptions may
\* be cancelled while the cron bills them.  True only while no step of the cron
\* fails: a period invoiced but not advanced is prorated again.
FullAndProratedDisjoint ==
    Undisturbed =>
        \A s \in Subscriptions :
            \A i \in InvoicesOf(s, "full"), j \in InvoicesOf(s, "prorated") :
                invoices[i].end <= invoices[j].start

\* No day is charged twice by the cron, as far as the two properties above promise.
NothingBilledTwice == OneInvoicePerPeriod /\ FullAndProratedDisjoint

\* The cron catches up: an expired period is billed and left behind in the end,
\* unless the subscription is cancelled before, if nothing fails and nobody
\* interferes.
ExpiredIsBilled ==
    \A s \in Subscriptions : (Undisturbed /\ s \in Expired) ~> s \notin Expired

CancelledInPeriod(s) == sub[s].status = "CANCELLED" /\ sub[s].cancelledAt < sub[s].end

\* The period in which a subscription is cancelled is invoiced in the end, in full if
\* the cron was about to, whatever fails in between; the invoice is finalized if
\* nothing fails.
CancelledIsInvoiced ==
    \A s \in Subscriptions :
        (deployment.actors = {} /\ CancelledInPeriod(s)) ~>
            \E i \in DOMAIN invoices :
                /\ invoices[i].sub = s /\ invoices[i].start = sub[s].start
                /\ deployment.kinds # {} \/ invoices[i].status = "FINALIZED"

\* A subscription whose billing failed still looks expired, and has no invoice
\* that would hide it from the next tick.
FailedIsRetried ==
    cron = CronIdle =>
        \A s \in Expired : \A i \in InvoicesOf(s, "full") : invoices[i].start # sub[s].start

\* A period is prorated once.
ProratedOnce ==
    \A s \in Subscriptions : \A i, j \in InvoicesOf(s, "prorated") :
        i # j => invoices[i].start # invoices[j].start

=============================================================================
