-------------------------- MODULE MCUsageAccounting --------------------------
(* Instances of UsageCounters, Reconciliation and UsageInvoices for TLC. *)
EXTENDS UsageInvoices

CONSTANTS e1, e2

\* A deployment where nothing happens; the others differ from it.
Quiet == [ops |-> {}, behavior |-> "HARD", reset |-> "MONTHLY",
          monthOf |-> [e \in Events |-> 0], subOf |-> [e \in Events |-> "old"],
          copies |-> [e \in Events |-> 0], sourced |-> Events, until |-> 0, changes |-> FALSE,
          kinds |-> {}, runs |-> {}, billed |-> FALSE, byHand |-> FALSE,
          begins |-> [month |-> 0, day |-> 31], interval |-> "MONTHLY", fee |-> 9,
          type |-> "METERED", price |-> 150, included |-> 0]

Of(x, y) == [e \in Events |-> IF e = e1 THEN x ELSE y]

One == [Quiet EXCEPT !.copies = Of(1, 0)]
Two == [Quiet EXCEPT !.copies = Of(1, 1)]
Replaced == [Two EXCEPT !.subOf = Of("old", "new")]

\* A subscription, with events in two months.
Billed(i, j) == [Two EXCEPT !.monthOf = Of(i, j), !.until = LastMonth, !.billed = TRUE]

\* Concurrent consumption, with lost keys, a failing Redis, a failing database, a passing
\* month, a lifetime limit; consumption and checks beside aggregation, with faults, with
\* rows of two subscriptions, with and without a live one; reconciliation beside
\* aggregation, with messages that are repeated, crashes, events of two months, of two
\* subscriptions, and without a source; invoices of subscriptions that began on the 31st
\* and the 15th, by the month and by the year, by the cron and by hand.
MCDeployments ==
    {[Quiet EXCEPT !.ops = {"consume"}, !.kinds = {"redis", "expiry"}],
     [Quiet EXCEPT !.ops = {"consume"}, !.until = 1],
     [One EXCEPT !.ops = {"consume"}, !.reset = "ANNUALLY"],
     [Two EXCEPT !.ops = {"consume"}],
     [One EXCEPT !.ops = {"consume"}, !.behavior = "SOFT", !.kinds = {"redis"}],
     [One EXCEPT !.ops = {"check", "consume"}, !.behavior = "SOFT"],
     [Quiet EXCEPT !.ops = {"consume"}, !.kinds = {"redis", "database"}],
     [One EXCEPT !.ops = {"check"}, !.kinds = {"expiry", "crash"}],
     [Two EXCEPT !.ops = {"check"}, !.kinds = {"expiry"}],
     [Replaced EXCEPT !.ops = {"check"}, !.changes = TRUE],
     [One EXCEPT !.kinds = {"crash", "database"}, !.changes = TRUE, !.runs = {1}],
     [One EXCEPT !.copies = Of(2, 0), !.runs = Runs],
     [Two EXCEPT !.kinds = {"crash"}, !.runs = {1}],
     [Replaced EXCEPT !.copies = Of(2, 1), !.runs = {1}],
     [Two EXCEPT !.until = 1, !.monthOf = Of(0, 1), !.runs = {1}],
     [Two EXCEPT !.sourced = {e1}, !.runs = {1}],
     Billed(0, 1), Billed(0, 2),
     [Billed(0, 1) EXCEPT !.copies = Of(1, 0), !.begins.day = 15, !.byHand = TRUE, !.until = 1,
                          !.fee = 0],
     [Billed(0, 0) EXCEPT !.subOf = Of("old", "new"), !.begins.day = 15],
     [Billed(1, 1) EXCEPT !.copies = Of(1, 0), !.begins.day = 15, !.kinds = {"crash"}],
     [Billed(0, 1) EXCEPT !.interval = "ANNUALLY", !.type = "QUOTA"]}

=============================================================================
