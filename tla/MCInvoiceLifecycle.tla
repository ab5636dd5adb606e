------------------------- MODULE MCInvoiceLifecycle -------------------------
(* Instances of InvoiceLifecycle for TLC. *)
EXTENDS InvoiceLifecycle, TLC

\* Invoices are interchangeable, and so are the callers.
LifecycleSymmetry == Permutations(Invoices) \union Permutations(Callers)

=============================================================================
