----------------------------- MODULE MCPayments -----------------------------
(* Instances of Payments for TLC. *)
EXTENDS Payments

CONSTANTS a1, a2, h1, h2

Stripe(ops, events, invoices, admins, handlers) ==
    [ops |-> ops, provider |-> "stripe", events |-> events, faulty |-> FALSE,
     invoices |-> invoices, admins |-> admins, handlers |-> handlers]

Try == {"succeeded", "failed"}

\* The cron beside an administrator over two periods; two webhooks at once, on the
\* payments of two invoices that may be of one period, and on a payment that fails
\* first; the same with one webhook at a time; administrators who also enter payments
\* or void; two administrators at once, so that an invoice has two attempts and can
\* make the subscription PAST_DUE, and so that it is charged twice under the audit; the
\* fake adapter, with an invoice made by hand beside the cron's; faults.
MCDeployments ==
    {Stripe({"cron", "finalize"}, {"succeeded"}, {1, 2}, {a1}, {h1}),
     Stripe({"generate", "finalize"}, {"succeeded"}, {1, 2}, {a1}, {h1, h2}),
     Stripe({"generate", "finalize"}, Try, {1}, {a1}, {h1, h2}),
     Stripe({"generate", "finalize"}, Try, {1, 2}, {a1}, {h1}),
     Stripe({"generate", "finalize", "markPaid"}, {"succeeded", "requires_action"},
            {1}, {a1}, {h1, h2}),
     Stripe({"cron", "finalize", "void"}, {"succeeded"}, {1}, {a1}, {h1}),
     Stripe({"generate", "finalize", "pastDue"}, Try, {1}, {a1, a2}, {h1}),
     Stripe({"generate", "finalize", "ledger"}, {}, {1}, {a1, a2}, {}),
     [Stripe({"cron", "generate", "finalize"}, {}, {1, 2}, {a1}, {}) EXCEPT !.provider = "fake"],
     [Stripe({"cron", "generate", "finalize"}, {"succeeded"}, {1}, {a1}, {h1}) EXCEPT
        !.faulty = TRUE],
     [Stripe({"generate", "finalize"}, Try, {1}, {a1}, {h1}) EXCEPT !.faulty = TRUE],
     [Stripe({"generate", "finalize"} \union AuditKinds, {"succeeded"}, {1}, {a1}, {h1}) EXCEPT
        !.faulty = TRUE]}

=============================================================================
