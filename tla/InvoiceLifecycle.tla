-------------------------- MODULE InvoiceLifecycle --------------------------
(***************************************************************************)
(* InvoiceLifecycleService: finalize, markPaid and void, with the invoice  *)
(* number sequence and the billing ledger.  Each call reads the invoice,   *)
(* checks its status, and later writes the new status and a ledger entry   *)
(* in one transaction that looks at the status no more.  The calls come    *)
(* from the billing cron, the payment webhooks and the administrators.     *)
(*                                                                         *)
(* Amounts are abstracted: every entry of an invoice is for its total, so  *)
(* the ledger counts the entries of each type.                             *)
(***************************************************************************)
EXTENDS Naturals, FiniteSets

CONSTANTS
    Invoices,   \* invoices, by id
    Callers,    \* requests and jobs that may call the service at the same time
    LastYear,   \* bound: the calendar years are 1 .. LastYear
    MaxFaults   \* bound: number of database errors in a behaviour

ASSUME LifecycleAssumption == LastYear \in Nat \ {0} /\ MaxFaults \in Nat

VARIABLES
    status,      \* invoices.status, "ABSENT" before the row exists
    number,      \* invoices.invoice_number, NoNumber while null
    ledger,      \* billing_ledger_entries: number of entries per invoice and type
    lastValue,   \* invoice_sequences: last_value of each year
    year,        \* the current year
    call,        \* per caller: the call it is in
    overlapped,  \* history: invoices on which two calls overlapped
    faults       \* history: number of faults so far

vars == <<status, number, ledger, lastValue, year, call, overlapped, faults>>

-----------------------------------------------------------------------------

InvoiceStatus == {"ABSENT", "DRAFT", "FINALIZED", "PAID", "VOID"}
EntryType == {"CHARGE", "PAYMENT", "CREDIT"}
Operation == {"finalize", "markPaid", "void"}
Years == 1 .. LastYear
NoNumber == [year |-> 0, seq |-> 0]
InvoiceNumber == [year : Years, seq : Nat \ {0}]

\* Mutant: a PAID invoice can be voided.
AllowedFromPaid(op) ==
    CASE op = "finalize" -> {"DRAFT"}
      [] op = "markPaid" -> {"FINALIZED"}
      [] op = "void" -> {"DRAFT", "FINALIZED", "PAID"}

\* The statuses from which an operation is allowed.
AllowedFrom(op) ==
    CASE op = "finalize" -> {"DRAFT"}
      [] op = "markPaid" -> {"FINALIZED"}
      [] op = "void" -> {"DRAFT", "FINALIZED"}

\* A call that has passed its check holds the status it read, and the number it
\* was given.
NoCall == [step |-> "none"]
Reading == [step : {"read"}, op : Operation, inv : Invoices]
Checked == [step : {"number", "commit"}, op : Operation, inv : Invoices,
            seen : {"DRAFT", "FINALIZED"}, num : InvoiceNumber \union {NoNumber}]

TypeOK ==
    /\ status \in [Invoices -> InvoiceStatus]
    /\ number \in [Invoices -> InvoiceNumber \union {NoNumber}]
    /\ ledger \in [Invoices -> [EntryType -> Nat]]
    /\ lastValue \in [Years -> Nat]
    /\ year \in Years
    /\ call \in [Callers -> {NoCall} \union Reading \union Checked]
    /\ overlapped \in SUBSET Invoices
    /\ faults \in 0 .. MaxFaults

Init ==
    /\ status = [i \in Invoices |-> "ABSENT"]
    /\ number = [i \in Invoices |-> NoNumber]
    /\ ledger = [i \in Invoices |-> [t \in EntryType |-> 0]]
    /\ lastValue = [y \in Years |-> 0]
    /\ year = 1
    /\ call = [c \in Callers |-> NoCall]
    /\ overlapped = {}
    /\ faults = 0

-----------------------------------------------------------------------------

\* generate() or generateProrated(): a new row, without a number.
CreateDraft(i) ==
    /\ status[i] = "ABSENT"
    /\ status' = [status EXCEPT ![i] = "DRAFT"]
    /\ UNCHANGED <<number, ledger, lastValue, year, call, overlapped, faults>>

Request(c, op, i) ==
    /\ call[c] = NoCall
    /\ status[i] # "ABSENT"
    /\ call' = [call EXCEPT ![c] = [step |-> "read", op |-> op, inv |-> i]]
    /\ UNCHANGED <<status, number, ledger, lastValue, year, overlapped, faults>>

InProgress(c, i) == call[c] # NoCall /\ call[c].step # "read" /\ call[c].inv = i

\* findInvoiceForTenant and the check of the status: an invalid transition ends
\* the call.
Check(c) ==
    LET op == call[c].op
        i == call[c].inv
    IN  /\ call[c].step = "read"
        /\ \/ /\ status[i] \notin AllowedFrom(op)
              /\ call' = [call EXCEPT ![c] = NoCall]
              /\ UNCHANGED overlapped
           \/ /\ status[i] \in AllowedFrom(op)
              /\ call' = [call EXCEPT ![c] =
                            [step |-> IF op = "finalize" THEN "number" ELSE "commit",
                             op |-> op, inv |-> i, seen |-> status[i], num |-> NoNumber]]
              /\ overlapped' = IF \E d \in Callers : InProgress(d, i)
                               THEN overlapped \union {i}
                               ELSE overlapped
        /\ UNCHANGED <<status, number, ledger, lastValue, year, faults>>

\* Mutant: the next number is one more than the numbered invoices of the year.
NextNumberCounted ==
    lastValue' = [lastValue EXCEPT ![year] =
                    Cardinality({i \in Invoices : number[i].year = year})]

\* generateNext: one upsert on the year's row, outside the transaction.
NextNumber == lastValue' = [lastValue EXCEPT ![year] = @ + 1]

GenerateNumber(c) ==
    /\ call[c].step = "number"
    /\ NextNumber
    /\ call' = [call EXCEPT ![c].step = "commit",
                            ![c].num = [year |-> year, seq |-> lastValue[year] + 1]]
    /\ UNCHANGED <<status, number, ledger, year, overlapped, faults>>

Post(i, type) == ledger' = [ledger EXCEPT ![i][type] = @ + 1]

\* The transaction of the operation: the new status and its ledger entry.
WriteFinalized(i, num) ==
    /\ status' = [status EXCEPT ![i] = "FINALIZED"]
    /\ number' = [number EXCEPT ![i] = num]
    /\ Post(i, "CHARGE")

WritePaid(i) ==
    /\ status' = [status EXCEPT ![i] = "PAID"]
    /\ Post(i, "PAYMENT")
    /\ UNCHANGED number

\* Mutant: the charge is deleted instead of reversed.
WriteVoidDeletes(i, seen) ==
    /\ status' = [status EXCEPT ![i] = "VOID"]
    /\ ledger' = [ledger EXCEPT ![i]["CHARGE"] = 0]
    /\ UNCHANGED number

\* Mutant: a draft is credited too.
WriteVoidCredits(i, seen) ==
    /\ status' = [status EXCEPT ![i] = "VOID"]
    /\ Post(i, "CREDIT")
    /\ UNCHANGED number

\* The charge is reversed if the status read at the start was FINALIZED.
WriteVoid(i, seen) ==
    /\ status' = [status EXCEPT ![i] = "VOID"]
    /\ \/ seen = "FINALIZED" /\ Post(i, "CREDIT")
       \/ seen # "FINALIZED" /\ UNCHANGED ledger
    /\ UNCHANGED number

Write(k) ==
    \/ k.op = "finalize" /\ WriteFinalized(k.inv, k.num)
    \/ k.op = "markPaid" /\ WritePaid(k.inv)
    \/ k.op = "void" /\ WriteVoid(k.inv, k.seen)

Commit(c) ==
    /\ call[c].step = "commit"
    /\ Write(call[c])
    /\ call' = [call EXCEPT ![c] = NoCall]
    /\ UNCHANGED <<lastValue, year, overlapped, faults>>

\* A statement fails, or the process dies, with or without the statement's effect:
\* a number may be used up, and a transaction may have been committed.
CallFails(c) ==
    /\ call[c].step \in {"number", "commit"}
    /\ faults < MaxFaults
    /\ faults' = faults + 1
    /\ call' = [call EXCEPT ![c] = NoCall]
    /\ \/ UNCHANGED <<status, number, ledger, lastValue>>
       \/ call[c].step = "number" /\ NextNumber /\ UNCHANGED <<status, number, ledger>>
       \/ call[c].step = "commit" /\ Write(call[c]) /\ UNCHANGED lastValue
    /\ UNCHANGED <<year, overlapped>>

NewYear ==
    /\ year < LastYear
    /\ year' = year + 1
    /\ UNCHANGED <<status, number, ledger, lastValue, call, overlapped, faults>>

Next ==
    \/ \E i \in Invoices : CreateDraft(i)
    \/ \E c \in Callers :
        \/ \E op \in Operation, i \in Invoices : Request(c, op, i)
        \/ Check(c) \/ GenerateNumber(c) \/ Commit(c) \/ CallFails(c)
    \/ NewYear

Spec == Init /\ [][Next]_vars

-----------------------------------------------------------------------------
(* Properties *)

\* No two invoices have the same number, however many are finalized at once, and
\* although a year may end between the number and the transaction.  The UNIQUE
\* constraint on invoice_number is left out of the model: it never has to act.
NumbersUnique ==
    \A i, j \in Invoices : i # j /\ number[i] # NoNumber => number[i] # number[j]

\* Whatever calls overlap, an invoice the tenant owes or has paid has a number and
\* a charge, and a paid one a payment: the status never runs ahead of the ledger.
LedgerBacksStatus ==
    \A i \in Invoices :
        /\ status[i] \in {"FINALIZED", "PAID"} =>
             number[i] # NoNumber /\ ledger[i]["CHARGE"] > 0
        /\ status[i] = "PAID" => ledger[i]["PAYMENT"] > 0

Entries(i) == <<ledger[i]["CHARGE"], ledger[i]["PAYMENT"], ledger[i]["CREDIT"]>>

\* What the ledger says of an invoice whose calls came one after the other: owed
\* once while FINALIZED, settled when PAID, cancelled out when VOID.
EntriesOf(s) ==
    CASE s \in {"ABSENT", "DRAFT"} -> {<<0, 0, 0>>}
      [] s = "FINALIZED" -> {<<1, 0, 0>>}
      [] s = "PAID" -> {<<1, 1, 0>>}
      [] s = "VOID" -> {<<0, 0, 0>>, <<1, 0, 1>>}

\* The ledger agrees with the status of every invoice on which no two calls
\* overlapped, whatever failed in between.
LedgerMatchesStatus ==
    \A i \in Invoices \ overlapped : Entries(i) \in EntriesOf(status[i])

\* The documented state machine: DRAFT -> FINALIZED -> PAID, FINALIZED -> VOID and
\* DRAFT -> VOID.
Transitions ==
    {<<"ABSENT", "DRAFT">>, <<"DRAFT", "FINALIZED">>, <<"FINALIZED", "PAID">>,
     <<"FINALIZED", "VOID">>, <<"DRAFT", "VOID">>}

\* An invoice on which no two calls overlap follows it; with overlapping calls the
\* only certainty is that it does not become a draft again.
FollowsLifecycle ==
    [][\A i \in Invoices :
         /\ status'[i] # status[i] /\ i \notin overlapped' =>
              <<status[i], status'[i]>> \in Transitions
         /\ status'[i] \in {"ABSENT", "DRAFT"} => status[i] \in {"ABSENT", "DRAFT"}]_vars

=============================================================================
