---------------------------- MODULE UsageInvoices ----------------------------
(***************************************************************************)
(* What invoices charge for usage: beside the consumers of UsageCounters,  *)
(* which add events to the rows of calendar months, the periods of the     *)
(* tenant's old subscription end, and its invoices are charged by its row  *)
(* of the month a period began in.  A period need not begin with a month,  *)
(* nor in every month.                                                     *)
(*                                                                         *)
(* One generation and what follows it in the loop are one step: Billing    *)
(* has the steps in between, and what is lost when one of them fails.      *)
(***************************************************************************)
EXTENDS Reconciliation, BillingRules

CONSTANT MaxInvoices    \* bound: invoices for the periods that begin in one month

\* billed: whether cron and clients see to the subscription; byHand: whether an
\* administrator generates invoices, too; begins: its first day; interval, fee: of its
\* price; type, behavior, price, included: of the feature in its snapshot.
ASSUME UsageInvoicesAssumption ==
    /\ MaxInvoices \in Nat
    /\ \A d \in Deployments :
        /\ {d.billed, d.byHand} \subseteq BOOLEAN
        /\ d.begins \in Date
        /\ d.interval \in Intervals
        /\ {d.fee, d.price, d.included} \subseteq Nat

VARIABLES
    sub,     \* subscriptions: status, current period, and whether it has a full invoice
    billed,  \* per month: how many invoices began in it, usage and cents of the last
    intents, \* payments to come: of invoices that an administrator has finalized
    made,    \* history: months with an invoice that was generated by hand
    late     \* history: months whose row has grown after their last invoice

invoiceVars == <<sub, billed, intents, made, late>>
accountingVars == <<allVars, invoiceVars>>

-----------------------------------------------------------------------------

NoBill == [invoices |-> 0, used |-> 0, cents |-> 0]

InvoicesTypeOK ==
    /\ ReconTypeOK
    /\ sub \in [status : {"ACTIVE", "CANCELLED"}, start : Date, end : Date, invoiced : BOOLEAN]
    /\ billed \in [Months -> [invoices : Nat, used : Nat, cents : Nat]]
    /\ intents \in Nat
    /\ made \subseteq Months
    /\ late \subseteq Months

InvoicesInit ==
    /\ ReconInit
    /\ sub = [status |-> "ACTIVE", start |-> deployment.begins,
              end |-> NextPeriodEnd(deployment.begins, deployment.interval), invoiced |-> FALSE]
    /\ billed = [m \in Months |-> NoBill]
    /\ intents = 0
    /\ made = {}
    /\ late = {}

\* The row that generate and generateProrated look up: a year's is never written.
UsageOf(start) ==
    LET key == UsageKey(start, deployment.interval)
    IN  IF key \in Months THEN agg[key]["old"] ELSE 0

\* The lines of an invoice: the base fee, and the feature's overage.
Total(fee, used) ==
    fee + IF Charged(deployment.type, deployment.behavior)
          THEN Overage(used, deployment.included, deployment.price) ELSE 0

\* An invoice for the current period, by what the row says now.
Bill(fee) ==
    LET m == sub.start.month
        used == UsageOf(sub.start)
    IN  /\ m \in Months
        /\ billed[m].invoices < MaxInvoices
        /\ billed' = [billed EXCEPT ![m] = [invoices |-> @.invoices + 1, used |-> used,
                                            cents |-> Total(fee, used)]]
        /\ late' = late \ {m}

\* The fee of a subscription that was cancelled before, in the middle of or after its
\* period.
BillProrated == \E part \in 0 .. 2 : Bill(ProratedFee(deployment.fee, part, 2))

\* advancePeriod.
NextPeriod ==
    sub' = [sub EXCEPT !.start = sub.end, !.end = NextPeriodEnd(sub.end, deployment.interval),
                       !.invoiced = FALSE]

\* The cron, some day after the period has ended, unless it finds an invoice for it.
BillPeriod ==
    /\ deployment.billed
    /\ sub.status = "ACTIVE"
    /\ sub.end.month <= month
    /\ ~sub.invoiced
    /\ Bill(deployment.fee)
    /\ NextPeriod
    /\ UNCHANGED <<allVars, intents, made>>

\* A cancellation, and perhaps a new subscription in its place.
CancelSubscription ==
    /\ deployment.billed
    /\ sub.status = "ACTIVE"
    /\ sub' = [sub EXCEPT !.status = "CANCELLED"]
    /\ live' \in BOOLEAN
    /\ UNCHANGED <<month, agg, cache, req, worker, pending, eventStatus, applied, granted,
                   unchecked, lives, consumed, outdated, disturbed, deployment, faults,
                   reconVars, billed, intents, made, late>>

\* The cron charges a cancelled subscription at every tick: it looks for notes that
\* contain "prorated", and its own say "Prorated".
BillCancelled ==
    /\ sub.status = "CANCELLED"
    /\ BillProrated
    /\ UNCHANGED <<allVars, sub, intents, made>>

\* generateForTenant takes the newest subscription, whatever invoices it has, and whether
\* its period has ended or not; an administrator finalizes the invoice, and its payment
\* is started.
BillByHand ==
    /\ deployment.byHand
    /\ \/ sub.status = "ACTIVE" /\ Bill(deployment.fee) /\ sub' = [sub EXCEPT !.invoiced = TRUE]
       \/ sub.status = "CANCELLED" /\ ~live /\ BillProrated /\ UNCHANGED sub
    /\ intents' = intents + 1
    /\ made' = made \union {sub.start.month}
    /\ UNCHANGED allVars

\* The payment succeeds: whatever the current period is by now, and whatever the
\* subscription's status, it is advanced.
PaidByHand ==
    /\ intents > 0
    /\ intents' = intents - 1
    /\ NextPeriod
    /\ UNCHANGED <<allVars, billed, made, late>>

\* Whatever else happens; a row may grow after it was charged.
Accounting ==
    /\ ReconNext
    /\ late' = late \union {m \in Months : agg'[m]["old"] # agg[m]["old"] /\ billed[m] # NoBill}
    /\ UNCHANGED <<sub, billed, intents, made>>

InvoicesNext ==
    \/ Accounting \/ BillPeriod \/ CancelSubscription \/ BillCancelled
    \/ BillByHand \/ PaidByHand

InvoicesSpec == InvoicesInit /\ [][InvoicesNext]_accountingVars

-----------------------------------------------------------------------------
(* Properties *)

\* Months whose usage should be on an invoice by now: all before the current period.
Due(m) == deployment.begins.month <= m /\ m < sub.start.month

\* The first month that is too short for the day the subscription began is passed over.
PassedOver(m) ==
    LET begins == deployment.begins
    IN  begins.day > Length(m) /\ \A k \in begins.month .. (m - 1) : begins.day <= Length(k)

\* An invoice that was generated by hand is not the only one of its month.
Doubled == \E m \in made : billed[m].invoices > 1

\* With monthly periods, the usage of every month before the current period is charged for
\* exactly once, though periods and months do not coincide and consumers go on counting:
\* but for what is counted after the invoice, and for a month that is passed over, whose
\* usage no invoice will ever have.  The cron charges the usage of a cancelled
\* subscription's last period again at every tick; nothing is claimed once a period with
\* an invoice by hand has had another one, as each of the payments may advance the
\* period; nor of annual subscriptions, whose usage is looked up under a key that no
\* consumer writes.
UsageIsBilled ==
    deployment.billed /\ deployment.interval = "MONTHLY" /\ ~Doubled =>
        \A m \in Months :
            /\ billed[m].invoices <= 1 \/ (m = sub.start.month /\ sub.status = "CANCELLED")
            /\ Due(m) => PassedOver(m) \/ billed[m].invoices = 1
            /\ billed[m].invoices > 0 => m \in late \/ billed[m].used = agg[m]["old"]

=============================================================================
