----------------------- MODULE InvoiceLifecycleProofs -----------------------
(***************************************************************************)
(* Proofs about InvoiceLifecycle, for every number of invoices, callers,   *)
(* years and faults.                                                       *)
(***************************************************************************)
EXTENDS InvoiceLifecycle, TLAPS

LEMMA TypeInit == Init => TypeOK
  BY LifecycleAssumption
  DEF Init, TypeOK, InvoiceStatus, EntryType, Years, NoCall

\* Posting an entry leaves a ledger.
LEMMA PostType ==
  ASSUME NEW i \in Invoices, NEW type \in EntryType,
         ledger \in [Invoices -> [EntryType -> Nat]], Post(i, type)
  PROVE  ledger' \in [Invoices -> [EntryType -> Nat]]
  BY DEF Post

\* A transaction keeps the types.
LEMMA WriteType ==
  ASSUME TypeOK, NEW k \in Checked, Write(k)
  PROVE  /\ status' \in [Invoices -> InvoiceStatus]
         /\ number' \in [Invoices -> InvoiceNumber \union {NoNumber}]
         /\ ledger' \in [Invoices -> [EntryType -> Nat]]
<1> USE DEF TypeOK, Checked, InvoiceStatus, EntryType
<1>1. CASE k.op = "finalize" /\ WriteFinalized(k.inv, k.num)
  BY <1>1, PostType DEF WriteFinalized
<1>2. CASE k.op = "markPaid" /\ WritePaid(k.inv)
  BY <1>2, PostType DEF WritePaid
<1>3. CASE k.op = "void" /\ WriteVoid(k.inv, k.seen)
  BY <1>3, PostType DEF WriteVoid
<1> QED
  BY <1>1, <1>2, <1>3 DEF Write

LEMMA NextNumberType ==
  ASSUME TypeOK, NextNumber
  PROVE  /\ lastValue' \in [Years -> Nat]
         /\ [year |-> year, seq |-> lastValue[year] + 1] \in InvoiceNumber
  BY DEF TypeOK, NextNumber, InvoiceNumber, Years

LEMMA TypeStep == TypeOK /\ [Next]_vars => TypeOK'
<1> SUFFICES ASSUME TypeOK, [Next]_vars PROVE TypeOK'
  OBVIOUS
<1> USE DEF TypeOK
<1>1. CASE UNCHANGED vars
  BY <1>1 DEF vars
<1>2. ASSUME NEW i \in Invoices, CreateDraft(i) PROVE TypeOK'
  BY <1>2 DEF CreateDraft, InvoiceStatus
<1>3. ASSUME NEW c \in Callers, NEW op \in Operation, NEW i \in Invoices, Request(c, op, i)
      PROVE  TypeOK'
  BY <1>3 DEF Request, Reading
<1>4. ASSUME NEW c \in Callers, Check(c) PROVE TypeOK'
  <2>1. call[c] \in Reading
    BY <1>4 DEF Check, NoCall, Checked
  <2>2. call[c].op \in Operation /\ call[c].inv \in Invoices
    BY <2>1 DEF Reading
  <2>3. status[call[c].inv] \in AllowedFrom(call[c].op) =>
          status[call[c].inv] \in {"DRAFT", "FINALIZED"}
    BY <2>2 DEF AllowedFrom, Operation
  <2>4. call' \in [Callers -> {NoCall} \union Reading \union Checked]
    BY <1>4, <2>2, <2>3 DEF Check, Checked
  <2> QED
    BY <1>4, <2>2, <2>4 DEF Check
<1>5. ASSUME NEW c \in Callers, GenerateNumber(c) PROVE TypeOK'
  <2>1. call[c] \in Checked
    BY <1>5 DEF GenerateNumber, NoCall, Reading
  <2>2. call' \in [Callers -> {NoCall} \union Reading \union Checked]
    BY <1>5, <2>1, NextNumberType DEF GenerateNumber, Checked
  <2> QED
    BY <1>5, <2>2, NextNumberType DEF GenerateNumber
<1>6. ASSUME NEW c \in Callers, Commit(c) PROVE TypeOK'
  <2>1. call[c] \in Checked
    BY <1>6 DEF Commit, NoCall, Reading
  <2> QED
    BY <1>6, <2>1, WriteType DEF Commit
<1>7. ASSUME NEW c \in Callers, CallFails(c) PROVE TypeOK'
  <2>1. call[c] \in Checked
    BY <1>7 DEF CallFails, NoCall, Reading
  <2>2. /\ status' \in [Invoices -> InvoiceStatus]
        /\ number' \in [Invoices -> InvoiceNumber \union {NoNumber}]
        /\ ledger' \in [Invoices -> [EntryType -> Nat]]
        /\ lastValue' \in [Years -> Nat]
    BY <1>7, <2>1, WriteType, NextNumberType DEF CallFails
  <2>3. faults' \in 0 .. MaxFaults
    BY <1>7, LifecycleAssumption DEF CallFails
  <2> QED
    BY <1>7, <2>2, <2>3 DEF CallFails
<1>8. CASE NewYear
  BY <1>8, LifecycleAssumption DEF NewYear, Years
<1> QED
  BY <1>1, <1>2, <1>3, <1>4, <1>5, <1>6, <1>7, <1>8 DEF Next

\* The tables hold what their columns allow, and each call the record of its step.
THEOREM LifecycleTypes == Spec => []TypeOK
  BY TypeInit, TypeStep, PTL DEF Spec

-----------------------------------------------------------------------------
(* Invoice numbers *)

\* A number in the table or in a call has been issued, and in one place only.
Issued(n, counter) == n.seq <= counter[n.year]

NumbersIssued ==
    /\ \A i \in Invoices : number[i] # NoNumber => Issued(number[i], lastValue)
    /\ \A c \in Callers : call[c].step = "commit" /\ call[c].num # NoNumber =>
         /\ Issued(call[c].num, lastValue)
         /\ \A i \in Invoices : number[i] # call[c].num
         /\ \A d \in Callers \ {c} :
              call[d].step = "commit" => call[d].num # call[c].num
    /\ \A c \in Callers : call[c].step = "commit" /\ call[c].op = "finalize" =>
         call[c].num # NoNumber

NumberInv == TypeOK /\ NumbersUnique /\ NumbersIssued

LEMMA NumberInit == Init => NumberInv
  BY TypeInit DEF Init, NumberInv, NumbersUnique, NumbersIssued, NoCall

\* Writing the number of a call that ends moves it from the call to the invoice.
LEMMA NumberWrite ==
  ASSUME NumberInv, NEW c \in Callers, call[c].step = "commit", Write(call[c]),
         call' = [call EXCEPT ![c] = NoCall], UNCHANGED lastValue
  PROVE  NumbersUnique' /\ NumbersIssued'
<1> USE DEF NumberInv, NumbersUnique, NumbersIssued, TypeOK, Issued
<1>1. call[c] \in Checked
  BY DEF NoCall, Reading
<1>2. \A d \in Callers : call'[d].step = "commit" => d # c /\ call'[d] = call[d]
  BY DEF NoCall
<1>3. CASE UNCHANGED number
  BY <1>2, <1>3
<1>4. CASE call[c].op = "finalize" /\ WriteFinalized(call[c].inv, call[c].num)
  <2>1. /\ call[c].inv \in Invoices
        /\ call[c].num # NoNumber
        /\ number' = [number EXCEPT ![call[c].inv] = call[c].num]
    BY <1>1, <1>4 DEF Checked, WriteFinalized
  <2> QED
    BY <1>2, <2>1
<1> QED
  BY <1>3, <1>4 DEF Write, WritePaid, WriteVoid

LEMMA NumberStep == NumberInv /\ [Next]_vars => NumberInv'
<1> SUFFICES ASSUME NumberInv, [Next]_vars PROVE NumbersUnique' /\ NumbersIssued'
  BY TypeStep DEF NumberInv
<1> USE DEF NumberInv, NumbersUnique, NumbersIssued, TypeOK, Issued
<1>1. CASE UNCHANGED <<number, call, lastValue>>
  BY <1>1
<1>2. ASSUME NEW c \in Callers, call'[c].step # "commit",
             \A d \in Callers \ {c} : call'[d] = call[d],
             UNCHANGED <<number, lastValue>>
      PROVE  NumbersUnique' /\ NumbersIssued'
  BY <1>2
<1>3. ASSUME NEW c \in Callers, NEW op \in Operation, NEW i \in Invoices, Request(c, op, i)
      PROVE  NumbersUnique' /\ NumbersIssued'
  BY <1>2, <1>3 DEF Request
<1>4. ASSUME NEW c \in Callers, Check(c)
      PROVE  NumbersUnique' /\ NumbersIssued'
  <2>1. CASE call'[c].step # "commit"
    BY <1>2, <1>4, <2>1 DEF Check
  <2>2. CASE call'[c].step = "commit"
    <3>1. /\ call'[c].num = NoNumber
          /\ call'[c].op # "finalize"
          /\ \A d \in Callers \ {c} : call'[d] = call[d]
          /\ UNCHANGED <<number, lastValue>>
      BY <1>4, <2>2 DEF Check, NoCall
    <3>2. ASSUME NEW d \in Callers, call'[d].step = "commit", call'[d].num # NoNumber
          PROVE  /\ Issued(call'[d].num, lastValue')
                 /\ \A i \in Invoices : number'[i] # call'[d].num
                 /\ \A e \in Callers \ {d} :
                      call'[e].step = "commit" => call'[e].num # call'[d].num
      <4>1. d # c /\ call'[d] = call[d]
        BY <3>1, <3>2
      <4>2. \A e \in Callers \ {d} :
              call'[e].step = "commit" => call'[e].num # call'[d].num
        BY <3>1, <3>2, <4>1
      <4> QED
        BY <3>1, <3>2, <4>1, <4>2
    <3>3. \A d \in Callers : call'[d].step = "commit" /\ call'[d].op = "finalize" =>
            call'[d].num # NoNumber
      BY <3>1
    <3> QED
      BY <3>1, <3>2, <3>3
  <2> QED
    BY <2>1, <2>2
<1>5. ASSUME NextNumber PROVE \A n \in InvoiceNumber : Issued(n, lastValue) => Issued(n, lastValue')
  BY <1>5 DEF NextNumber, InvoiceNumber
<1>6. ASSUME NEW c \in Callers, GenerateNumber(c)
      PROVE  NumbersUnique' /\ NumbersIssued'
  <2> DEFINE n == [year |-> year, seq |-> lastValue[year] + 1]
  <2>1. call[c] \in Checked
    BY <1>6 DEF GenerateNumber, NoCall, Reading
  <2>2. n \in InvoiceNumber /\ ~Issued(n, lastValue) /\ Issued(n, lastValue')
    <3>1. NextNumber
      BY <1>6 DEF GenerateNumber
    <3>2. n \in InvoiceNumber
      BY <3>1, NextNumberType
    <3>3. /\ lastValue[year] \in Nat
          /\ lastValue' = [lastValue EXCEPT ![year] = lastValue[year] + 1]
          /\ year \in DOMAIN lastValue
      BY <3>1 DEF NextNumber
    <3> QED
      BY <3>2, <3>3
  <2>3. /\ call'[c].step = "commit" /\ call'[c].num = n
        /\ \A d \in Callers \ {c} : call'[d] = call[d]
        /\ UNCHANGED number
    BY <1>6, <2>1 DEF GenerateNumber, Checked
  <2>4. n # NoNumber
    BY <2>2 DEF InvoiceNumber, NoNumber
  <2>5. \A i \in Invoices : number[i] # NoNumber => Issued(number[i], lastValue')
    BY <1>5, <1>6 DEF GenerateNumber
  <2>6. \A d \in Callers : call[d].step = "commit" /\ call[d].num # NoNumber =>
          call[d].num \in InvoiceNumber
    BY DEF NoCall, Reading, Checked
  <2>7. \A d \in Callers : call[d].step = "commit" /\ call[d].num # NoNumber =>
          Issued(call[d].num, lastValue')
    BY <1>5, <1>6, <2>6 DEF GenerateNumber
  <2> HIDE DEF n
  <2>8. \A i \in Invoices : number[i] # n
    BY <2>2, <2>4
  <2>9. \A d \in Callers : call[d].step = "commit" => call[d].num # n
    BY <2>2, <2>4
  <2> QED
    BY <2>2, <2>3, <2>4, <2>5, <2>7, <2>8, <2>9
<1>7. ASSUME NEW c \in Callers, Commit(c)
      PROVE  NumbersUnique' /\ NumbersIssued'
  BY <1>7, NumberWrite DEF Commit
<1>8. ASSUME NEW c \in Callers, CallFails(c)
      PROVE  NumbersUnique' /\ NumbersIssued'
  <2>1. \A d \in Callers : call'[d].step = "commit" => d # c /\ call'[d] = call[d]
    BY <1>8 DEF CallFails, NoCall
  <2>2. CASE UNCHANGED <<number, lastValue>>
    BY <2>1, <2>2
  <2>3. CASE NextNumber /\ UNCHANGED number
    <3>1. \A d \in Callers : call[d].step = "commit" /\ call[d].num # NoNumber =>
            call[d].num \in InvoiceNumber
      BY DEF NoCall, Reading, Checked
    <3>2. \A d \in Callers : call[d].step = "commit" /\ call[d].num # NoNumber =>
            Issued(call[d].num, lastValue')
      BY <1>5, <2>3, <3>1
    <3>3. \A i \in Invoices : number[i] # NoNumber => Issued(number[i], lastValue')
      BY <1>5, <2>3
    <3> QED
      BY <2>1, <2>3, <3>2, <3>3
  <2>4. CASE call[c].step = "commit" /\ Write(call[c]) /\ UNCHANGED lastValue
    BY <1>8, <2>4, NumberWrite DEF CallFails
  <2> QED
    BY <1>8, <2>2, <2>3, <2>4 DEF CallFails
<1> QED
  BY <1>1, <1>3, <1>4, <1>6, <1>7, <1>8 DEF Next, vars, CreateDraft, NewYear

\* Two invoices never share a number.
THEOREM UniqueNumbers == Spec => []NumbersUnique
<1>1. NumberInv => NumbersUnique
  BY DEF NumberInv
<1> QED
  BY <1>1, NumberInit, NumberStep, PTL DEF Spec

-----------------------------------------------------------------------------
(* The status and the ledger, whatever calls overlap *)

\* An invoice that a call has seen FINALIZED has its number and its charge, also if
\* another call has changed its status since.
SeenBacked ==
    \A c \in Callers : call[c] \in Checked =>
        /\ call[c].seen \in AllowedFrom(call[c].op)
        /\ call[c].seen = "FINALIZED" =>
             number[call[c].inv] # NoNumber /\ ledger[call[c].inv]["CHARGE"] > 0

BackedInv == NumberInv /\ LedgerBacksStatus /\ SeenBacked

LEMMA StepsDiffer == NoCall \notin Checked /\ Reading \intersect Checked = {}
  BY DEF NoCall, Reading, Checked

LEMMA BackedInit == Init => BackedInv
<1> SUFFICES ASSUME Init PROVE LedgerBacksStatus /\ SeenBacked
  BY NumberInit DEF BackedInv
<1> QED
  BY StepsDiffer DEF Init, LedgerBacksStatus, SeenBacked

\* A transaction takes neither a number nor an entry away, and a status that needs
\* them is written together with them.
LEMMA BackedWrite ==
  ASSUME BackedInv, NEW c \in Callers, call[c].step = "commit", Write(call[c]),
         \A d \in Callers : call'[d] \in Checked => call'[d] = call[d]
  PROVE  LedgerBacksStatus' /\ SeenBacked'
<1> USE DEF BackedInv, NumberInv, TypeOK
<1> DEFINE k == call[c]
<1>1. k \in Checked
  BY DEF NoCall, Reading
<1>2. /\ k.inv \in Invoices /\ k.op \in Operation
      /\ k.seen \in AllowedFrom(k.op)
      /\ k.seen = "FINALIZED" => number[k.inv] # NoNumber /\ ledger[k.inv]["CHARGE"] > 0
      /\ k.op = "finalize" => k.num # NoNumber
  BY <1>1 DEF SeenBacked, Checked, NumbersIssued
<1>3. \A i \in Invoices, t \in EntryType : ledger[i][t] \in Nat
  OBVIOUS
<1> HIDE DEF k
<1>4. CASE k.op = "finalize" /\ WriteFinalized(k.inv, k.num)
  <2>1. /\ status' = [status EXCEPT ![k.inv] = "FINALIZED"]
        /\ number' = [number EXCEPT ![k.inv] = k.num]
        /\ ledger' = [ledger EXCEPT ![k.inv]["CHARGE"] = ledger[k.inv]["CHARGE"] + 1]
        /\ k.num # NoNumber
    BY <1>2, <1>4 DEF WriteFinalized, Post
  <2>2. \A i \in Invoices :
          /\ ledger'[i]["CHARGE"] >= ledger[i]["CHARGE"]
          /\ ledger'[i]["PAYMENT"] = ledger[i]["PAYMENT"]
          /\ number[i] # NoNumber => number'[i] # NoNumber
    BY <1>2, <1>3, <2>1 DEF EntryType
  <2>3. number'[k.inv] # NoNumber /\ ledger'[k.inv]["CHARGE"] > 0
    BY <1>2, <1>3, <2>1 DEF EntryType
  <2>4. LedgerBacksStatus'
    BY <1>2, <1>3, <2>1, <2>2, <2>3 DEF LedgerBacksStatus, EntryType
  <2>5. \A i \in Invoices :
          /\ ledger[i]["CHARGE"] > 0 => ledger'[i]["CHARGE"] > 0
          /\ number[i] # NoNumber => number'[i] # NoNumber
    BY <1>2, <1>3, <2>1, <2>2 DEF EntryType
  <2>6. \A d \in Callers : call[d] \in Checked => call[d].inv \in Invoices
    BY DEF Checked
  <2>7. SeenBacked'
    BY <2>5, <2>6 DEF SeenBacked
  <2> QED
    BY <2>4, <2>7
<1>5. CASE k.op = "markPaid" /\ WritePaid(k.inv)
  <2>1. /\ status' = [status EXCEPT ![k.inv] = "PAID"]
        /\ number' = number
        /\ ledger' = [ledger EXCEPT ![k.inv]["PAYMENT"] = ledger[k.inv]["PAYMENT"] + 1]
        /\ k.seen = "FINALIZED"
    BY <1>2, <1>5 DEF WritePaid, Post, AllowedFrom
  <2>2. \A i \in Invoices :
          /\ ledger'[i]["CHARGE"] = ledger[i]["CHARGE"]
          /\ ledger'[i]["PAYMENT"] >= ledger[i]["PAYMENT"]
    BY <1>2, <1>3, <2>1 DEF EntryType
  <2>3. ledger'[k.inv]["PAYMENT"] > 0
    BY <1>2, <1>3, <2>1 DEF EntryType
  <2>4. LedgerBacksStatus'
    BY <1>2, <1>3, <2>1, <2>2, <2>3 DEF LedgerBacksStatus, EntryType
  <2>5. SeenBacked'
    BY <1>3, <2>1, <2>2 DEF SeenBacked, Checked, EntryType
  <2> QED
    BY <2>4, <2>5
<1>6. CASE k.op = "void" /\ WriteVoid(k.inv, k.seen)
  <2>1. /\ status' = [status EXCEPT ![k.inv] = "VOID"]
        /\ number' = number
        /\ \A i \in Invoices :
             /\ ledger'[i]["CHARGE"] = ledger[i]["CHARGE"]
             /\ ledger'[i]["PAYMENT"] = ledger[i]["PAYMENT"]
    BY <1>2, <1>3, <1>6 DEF WriteVoid, Post, EntryType
  <2>2. LedgerBacksStatus'
    BY <1>2, <2>1 DEF LedgerBacksStatus
  <2>3. SeenBacked'
    BY <2>1 DEF SeenBacked, Checked
  <2> QED
    BY <2>2, <2>3
<1> QED
  BY <1>4, <1>5, <1>6 DEF Write, k

LEMMA BackedStep == BackedInv /\ [Next]_vars => BackedInv'
<1> SUFFICES ASSUME BackedInv, [Next]_vars PROVE LedgerBacksStatus' /\ SeenBacked'
  BY NumberStep DEF BackedInv
<1> USE DEF BackedInv, NumberInv, TypeOK
\* Steps that leave the rows alone, and start no call.
<1>1. ASSUME UNCHANGED <<status, number, ledger>>,
             \A d \in Callers : call'[d] \in Checked => call'[d] = call[d]
      PROVE  LedgerBacksStatus' /\ SeenBacked'
  BY <1>1 DEF LedgerBacksStatus, SeenBacked
<1>2. CASE UNCHANGED vars \/ NewYear
  BY <1>1, <1>2 DEF vars, NewYear
<1>3. ASSUME NEW i \in Invoices, CreateDraft(i)
      PROVE  LedgerBacksStatus' /\ SeenBacked'
  BY <1>3 DEF CreateDraft, LedgerBacksStatus, SeenBacked
<1>4. ASSUME NEW c \in Callers, NEW op \in Operation, NEW i \in Invoices, Request(c, op, i)
      PROVE  LedgerBacksStatus' /\ SeenBacked'
  <2>1. [step |-> "read", op |-> op, inv |-> i] \in Reading
    BY DEF Reading
  <2> QED
    BY <1>1, <1>4, <2>1, StepsDiffer DEF Request
<1>5. ASSUME NEW c \in Callers, Check(c)
      PROVE  LedgerBacksStatus' /\ SeenBacked'
  <2>1. call[c].inv \in Invoices
    BY <1>5 DEF Check, NoCall, Reading, Checked
  <2>2. CASE call' = [call EXCEPT ![c] = NoCall]
    BY <1>1, <1>5, <2>2, StepsDiffer DEF Check
  <2>3. CASE /\ status[call[c].inv] \in AllowedFrom(call[c].op)
             /\ call' = [call EXCEPT ![c] =
                  [step |-> IF call[c].op = "finalize" THEN "number" ELSE "commit",
                   op |-> call[c].op, inv |-> call[c].inv,
                   seen |-> status[call[c].inv], num |-> NoNumber]]
    <3>1. /\ call'[c].seen \in AllowedFrom(call'[c].op)
          /\ call'[c].seen = "FINALIZED" =>
               number[call'[c].inv] # NoNumber /\ ledger[call'[c].inv]["CHARGE"] > 0
      BY <2>1, <2>3 DEF LedgerBacksStatus
    <3>2. UNCHANGED <<status, number, ledger>> /\ \A d \in Callers \ {c} : call'[d] = call[d]
      BY <1>5, <2>3 DEF Check
    <3>3. SeenBacked'
      BY <3>1, <3>2 DEF SeenBacked
    <3> QED
      BY <3>2, <3>3 DEF LedgerBacksStatus
  <2> QED
    BY <1>5, <2>2, <2>3 DEF Check
<1>6. ASSUME NEW c \in Callers, GenerateNumber(c)
      PROVE  LedgerBacksStatus' /\ SeenBacked'
  <2>1. call[c] \in Checked
    BY <1>6 DEF GenerateNumber, NoCall, Reading
  <2>2. /\ call'[c].op = call[c].op /\ call'[c].inv = call[c].inv
        /\ call'[c].seen = call[c].seen
        /\ \A d \in Callers \ {c} : call'[d] = call[d]
        /\ UNCHANGED <<status, number, ledger>>
    BY <1>6, <2>1 DEF GenerateNumber, Checked
  <2>3. SeenBacked'
    BY <2>1, <2>2 DEF SeenBacked
  <2> QED
    BY <2>2, <2>3 DEF LedgerBacksStatus
<1>7. ASSUME NEW c \in Callers, Commit(c)
      PROVE  LedgerBacksStatus' /\ SeenBacked'
  BY <1>7, BackedWrite, StepsDiffer DEF Commit
<1>8. ASSUME NEW c \in Callers, CallFails(c)
      PROVE  LedgerBacksStatus' /\ SeenBacked'
  <2>1. \A d \in Callers : call'[d] \in Checked => call'[d] = call[d]
    BY <1>8, StepsDiffer DEF CallFails
  <2>2. CASE UNCHANGED <<status, number, ledger>>
    BY <1>1, <2>1, <2>2
  <2>3. CASE call[c].step = "commit" /\ Write(call[c])
    BY <2>1, <2>3, BackedWrite
  <2> QED
    BY <1>8, <2>2, <2>3 DEF CallFails
<1> QED
  BY <1>2, <1>3, <1>4, <1>5, <1>6, <1>7, <1>8 DEF Next

\* A FINALIZED or PAID invoice has its number and its charge, a PAID one its payment,
\* however the calls interleave and wherever they fail.
THEOREM LedgerBacks == Spec => []LedgerBacksStatus
<1>1. BackedInv => LedgerBacksStatus
  BY DEF BackedInv
<1> QED
  BY <1>1, BackedInit, BackedStep, PTL DEF Spec

-----------------------------------------------------------------------------
(* The status and the ledger of an invoice on which no two calls overlapped *)

\* Such an invoice has at most one call past its check, and the status is still the
\* one the call has read.
LoneCalls ==
    \A i \in Invoices \ overlapped, c \in Callers :
        call[c] \in Checked /\ call[c].inv = i =>
            /\ call[c].seen = status[i]
            /\ \A d \in Callers \ {c} : call[d] \in Checked => call[d].inv # i

LoneInv == BackedInv /\ LoneCalls /\ LedgerMatchesStatus

\* What FollowsLifecycle says of one step.
Follows ==
    \A i \in Invoices :
        /\ status'[i] # status[i] /\ i \notin overlapped' =>
             <<status[i], status'[i]>> \in Transitions
        /\ status'[i] \in {"ABSENT", "DRAFT"} => status[i] \in {"ABSENT", "DRAFT"}

\* Entries, of the ledger given.
EntriesIn(i, entries) ==
    <<entries[i]["CHARGE"], entries[i]["PAYMENT"], entries[i]["CREDIT"]>>

LEMMA EntriesOfStatus ==
  /\ EntriesOf("ABSENT") = {<<0, 0, 0>>}
  /\ EntriesOf("DRAFT") = {<<0, 0, 0>>}
  /\ EntriesOf("FINALIZED") = {<<1, 0, 0>>}
  /\ EntriesOf("PAID") = {<<1, 1, 0>>}
  /\ EntriesOf("VOID") = {<<0, 0, 0>>, <<1, 0, 1>>}
  BY DEF EntriesOf

LEMMA AllowedFromOperation ==
  /\ AllowedFrom("finalize") = {"DRAFT"}
  /\ AllowedFrom("markPaid") = {"FINALIZED"}
  /\ AllowedFrom("void") = {"DRAFT", "FINALIZED"}
  BY DEF AllowedFrom

LEMMA LoneInit == Init => LoneInv
<1> SUFFICES ASSUME Init PROVE LoneCalls /\ LedgerMatchesStatus
  BY BackedInit DEF LoneInv
<1>1. LoneCalls
  BY StepsDiffer DEF Init, LoneCalls
<1>2. LedgerMatchesStatus
  BY EntriesOfStatus DEF Init, LedgerMatchesStatus, Entries, EntryType
<1> QED
  BY <1>1, <1>2

\* What a transaction writes to its invoice, if the status is the one it has seen
\* and the ledger agrees with it.
LEMMA LoneWrite ==
  ASSUME TypeOK, NEW k \in Checked, Write(k), k.seen \in AllowedFrom(k.op),
         status[k.inv] = k.seen, EntriesIn(k.inv, ledger) \in EntriesOf(k.seen)
  PROVE  /\ EntriesIn(k.inv, ledger') \in EntriesOf(status'[k.inv])
         /\ <<status[k.inv], status'[k.inv]>> \in Transitions
<1> USE EntriesOfStatus, AllowedFromOperation DEF TypeOK
<1> DEFINE i == k.inv
<1>1. i \in Invoices
  BY DEF Checked
<1>2. ledger[i] \in [EntryType -> Nat]
  BY <1>1
<1>3. CASE k.op = "finalize" /\ WriteFinalized(i, k.num)
  <2>1. k.seen = "DRAFT" /\ status'[i] = "FINALIZED"
    BY <1>1, <1>3 DEF WriteFinalized
  <2>2. /\ ledger[i]["CHARGE"] = 0 /\ ledger[i]["PAYMENT"] = 0 /\ ledger[i]["CREDIT"] = 0
    BY <2>1 DEF EntriesIn
  <2>3. ledger' = [ledger EXCEPT ![i]["CHARGE"] = ledger[i]["CHARGE"] + 1]
    BY <1>3 DEF WriteFinalized, Post
  <2>4. /\ ledger'[i]["CHARGE"] = 1 /\ ledger'[i]["PAYMENT"] = 0 /\ ledger'[i]["CREDIT"] = 0
    BY <1>1, <1>2, <2>2, <2>3 DEF EntryType
  <2> QED
    BY <2>1, <2>4 DEF EntriesIn, Transitions
<1>4. CASE k.op = "markPaid" /\ WritePaid(i)
  <2>1. k.seen = "FINALIZED" /\ status'[i] = "PAID"
    BY <1>1, <1>4 DEF WritePaid
  <2>2. /\ ledger[i]["CHARGE"] = 1 /\ ledger[i]["PAYMENT"] = 0 /\ ledger[i]["CREDIT"] = 0
    BY <2>1 DEF EntriesIn
  <2>3. ledger' = [ledger EXCEPT ![i]["PAYMENT"] = ledger[i]["PAYMENT"] + 1]
    BY <1>4 DEF WritePaid, Post
  <2>4. /\ ledger'[i]["CHARGE"] = 1 /\ ledger'[i]["PAYMENT"] = 1 /\ ledger'[i]["CREDIT"] = 0
    BY <1>1, <1>2, <2>2, <2>3 DEF EntryType
  <2> QED
    BY <2>1, <2>4 DEF EntriesIn, Transitions
<1>5. CASE k.op = "void" /\ WriteVoid(i, k.seen) /\ k.seen = "FINALIZED"
  <2>1. status'[i] = "VOID" /\ Post(i, "CREDIT")
    BY <1>1, <1>5 DEF WriteVoid
  <2>2. /\ ledger[i]["CHARGE"] = 1 /\ ledger[i]["PAYMENT"] = 0 /\ ledger[i]["CREDIT"] = 0
    BY <1>5 DEF EntriesIn
  <2>3. ledger' = [ledger EXCEPT ![i]["CREDIT"] = ledger[i]["CREDIT"] + 1]
    BY <2>1 DEF Post
  <2>4. /\ ledger'[i]["CHARGE"] = 1 /\ ledger'[i]["PAYMENT"] = 0 /\ ledger'[i]["CREDIT"] = 1
    BY <1>1, <1>2, <2>2, <2>3 DEF EntryType
  <2> QED
    BY <1>5, <2>1, <2>4 DEF EntriesIn, Transitions
<1>6. CASE k.op = "void" /\ WriteVoid(i, k.seen) /\ k.seen # "FINALIZED"
  <2>1. k.seen = "DRAFT" /\ status'[i] = "VOID" /\ UNCHANGED ledger
    BY <1>1, <1>6 DEF WriteVoid
  <2> QED
    BY <2>1 DEF EntriesIn, Transitions
<1> QED
  BY <1>3, <1>4, <1>5, <1>6 DEF Write

LEMMA WriteElsewhere ==
  ASSUME TypeOK, NEW k \in Checked, Write(k)
  PROVE  /\ \A i \in Invoices \ {k.inv} : status'[i] = status[i] /\ ledger'[i] = ledger[i]
         /\ status'[k.inv] \in {"FINALIZED", "PAID", "VOID"}
  BY DEF TypeOK, Checked, Write, WriteFinalized, WritePaid, WriteVoid, Post

\* The transaction of a call, committed whether or not the caller learns of it.
LEMMA LoneCommit ==
  ASSUME LoneInv, NEW c \in Callers, call[c].step = "commit", Write(call[c]),
         call' = [call EXCEPT ![c] = NoCall], UNCHANGED overlapped
  PROVE  LoneCalls' /\ LedgerMatchesStatus' /\ Follows
<1> USE DEF LoneInv, BackedInv, NumberInv
<1> DEFINE k == call[c]
<1>1. k \in Checked /\ k.inv \in Invoices /\ k.seen \in AllowedFrom(k.op)
  BY DEF TypeOK, NoCall, Reading, Checked, SeenBacked
<1>2. /\ \A i \in Invoices \ {k.inv} : status'[i] = status[i] /\ ledger'[i] = ledger[i]
      /\ status'[k.inv] \in {"FINALIZED", "PAID", "VOID"}
  BY <1>1, WriteElsewhere
<1>3. k.inv \notin overlapped =>
        /\ EntriesIn(k.inv, ledger') \in EntriesOf(status'[k.inv])
        /\ <<status[k.inv], status'[k.inv]>> \in Transitions
        /\ \A d \in Callers \ {c} : call[d] \in Checked => call[d].inv # k.inv
  <2> SUFFICES ASSUME k.inv \notin overlapped
               PROVE  /\ EntriesIn(k.inv, ledger') \in EntriesOf(status'[k.inv])
                      /\ <<status[k.inv], status'[k.inv]>> \in Transitions
                      /\ \A d \in Callers \ {c} : call[d] \in Checked => call[d].inv # k.inv
    OBVIOUS
  <2>1. /\ status[k.inv] = k.seen
        /\ \A d \in Callers \ {c} : call[d] \in Checked => call[d].inv # k.inv
    BY <1>1 DEF LoneCalls
  <2>2. EntriesIn(k.inv, ledger) \in EntriesOf(k.seen)
    BY <1>1, <2>1 DEF LedgerMatchesStatus, Entries, EntriesIn
  <2> QED
    BY <1>1, <2>1, <2>2, LoneWrite
<1>4. /\ call'[c] \notin Checked
      /\ \A d \in Callers \ {c} : call'[d] = call[d]
      /\ overlapped' = overlapped
  BY StepsDiffer DEF TypeOK
<1> HIDE DEF k
<1>5. LoneCalls'
  BY <1>1, <1>2, <1>3, <1>4 DEF LoneCalls
<1>6. LedgerMatchesStatus'
  <2> SUFFICES ASSUME NEW i \in Invoices \ overlapped PROVE Entries(i)' \in EntriesOf(status'[i])
    BY <1>4 DEF LedgerMatchesStatus
  <2>1. CASE i = k.inv
    BY <1>3, <2>1 DEF Entries, EntriesIn
  <2>2. CASE i # k.inv
    BY <1>2, <2>2 DEF LedgerMatchesStatus, Entries
  <2> QED
    BY <2>1, <2>2
<1>7. Follows
  BY <1>1, <1>2, <1>3, <1>4 DEF Follows
<1> QED
  BY <1>5, <1>6, <1>7

LEMMA LoneStep == LoneInv /\ [Next]_vars => LoneInv' /\ Follows
<1> SUFFICES ASSUME LoneInv, [Next]_vars
             PROVE  LoneCalls' /\ LedgerMatchesStatus' /\ Follows
  BY BackedStep DEF LoneInv
<1> USE DEF LoneInv, BackedInv, NumberInv
<1> DEFINE Goal == LoneCalls' /\ LedgerMatchesStatus' /\ Follows
\* Steps that leave the rows alone, and start no call.
<1>1. ASSUME UNCHANGED <<status, ledger, overlapped>>,
             \A d \in Callers : call'[d] \in Checked =>
               /\ call[d] \in Checked
               /\ call'[d].inv = call[d].inv /\ call'[d].seen = call[d].seen
      PROVE  Goal
  <2>1. LoneCalls'
    BY <1>1 DEF LoneCalls
  <2>2. LedgerMatchesStatus'
    BY <1>1 DEF LedgerMatchesStatus, Entries
  <2> QED
    BY <1>1, <2>1, <2>2 DEF Follows
<1>2. CASE UNCHANGED vars \/ NewYear
  BY <1>1, <1>2 DEF vars, NewYear
<1>3. ASSUME NEW i \in Invoices, CreateDraft(i) PROVE Goal
  <2>1. /\ status[i] = "ABSENT" /\ status'[i] = "DRAFT"
        /\ \A j \in Invoices \ {i} : status'[j] = status[j]
        /\ UNCHANGED <<ledger, call, overlapped>>
    BY <1>3 DEF CreateDraft, TypeOK
  <2>2. \A c \in Callers : call[c] \in Checked => call[c].seen # "ABSENT"
    BY DEF Checked
  <2>3. LoneCalls'
    BY <2>1, <2>2 DEF LoneCalls
  <2>4. LedgerMatchesStatus'
    BY <2>1, EntriesOfStatus DEF LedgerMatchesStatus, Entries
  <2>5. Follows
    BY <2>1 DEF Follows, Transitions
  <2> QED
    BY <2>3, <2>4, <2>5
<1>4. ASSUME NEW c \in Callers, NEW op \in Operation, NEW i \in Invoices, Request(c, op, i)
      PROVE  Goal
  <2>1. [step |-> "read", op |-> op, inv |-> i] \in Reading
    BY DEF Reading
  <2> QED
    BY <1>1, <1>4, <2>1, StepsDiffer DEF Request, TypeOK
<1>5. ASSUME NEW c \in Callers, Check(c) PROVE Goal
  <2>1. CASE call' = [call EXCEPT ![c] = NoCall] /\ UNCHANGED overlapped
    BY <1>1, <1>5, <2>1, StepsDiffer DEF Check, TypeOK
  <2>2. CASE /\ call' = [call EXCEPT ![c] =
                  [step |-> IF call[c].op = "finalize" THEN "number" ELSE "commit",
                   op |-> call[c].op, inv |-> call[c].inv,
                   seen |-> status[call[c].inv], num |-> NoNumber]]
             /\ overlapped' = IF \E d \in Callers : InProgress(d, call[c].inv)
                              THEN overlapped \union {call[c].inv}
                              ELSE overlapped
    <3>1. /\ call'[c].inv = call[c].inv /\ call'[c].seen = status[call[c].inv]
          /\ \A d \in Callers \ {c} : call'[d] = call[d]
          /\ UNCHANGED <<status, ledger>>
      BY <1>5, <2>2 DEF Check, TypeOK
    <3>2. \A d \in Callers : call[d] \in Checked /\ call[d].inv = call[c].inv =>
            InProgress(d, call[c].inv)
      BY StepsDiffer DEF InProgress, Checked
    <3>3. /\ overlapped \subseteq overlapped'
          /\ \A d \in Callers : call[d] \in Checked /\ call[d].inv = call[c].inv =>
               call[c].inv \in overlapped'
      BY <2>2, <3>2
    <3>4. LoneCalls'
      BY <3>1, <3>3 DEF LoneCalls
    <3>5. LedgerMatchesStatus'
      BY <3>1, <3>3 DEF LedgerMatchesStatus, Entries
    <3> QED
      BY <3>1, <3>4, <3>5 DEF Follows
  <2> QED
    BY <1>5, <2>1, <2>2 DEF Check
<1>6. ASSUME NEW c \in Callers, GenerateNumber(c) PROVE Goal
  <2>1. call[c] \in Checked
    BY <1>6 DEF GenerateNumber, TypeOK, NoCall, Reading
  <2>2. /\ call'[c].inv = call[c].inv /\ call'[c].seen = call[c].seen
        /\ \A d \in Callers \ {c} : call'[d] = call[d]
        /\ UNCHANGED <<status, ledger, overlapped>>
    BY <1>6, <2>1 DEF GenerateNumber, TypeOK, Checked
  <2> QED
    BY <1>1, <2>1, <2>2
<1>7. ASSUME NEW c \in Callers, Commit(c) PROVE Goal
  BY <1>7, LoneCommit DEF Commit
<1>8. ASSUME NEW c \in Callers, CallFails(c) PROVE Goal
  <2>1. CASE UNCHANGED <<status, ledger>>
    BY <1>1, <1>8, <2>1, StepsDiffer DEF CallFails, TypeOK
  <2>2. CASE call[c].step = "commit" /\ Write(call[c])
    BY <1>8, <2>2, LoneCommit DEF CallFails
  <2> QED
    BY <1>8, <2>1, <2>2 DEF CallFails
<1> QED
  BY <1>2, <1>3, <1>4, <1>5, <1>6, <1>7, <1>8 DEF Next

\* The ledger agrees with the status of every invoice whose calls came one after the
\* other, also when one of them failed after its transaction.
THEOREM LedgerMatches == Spec => []LedgerMatchesStatus
<1>1. LoneInv => LedgerMatchesStatus
  BY DEF LoneInv
<1> QED
  BY <1>1, LoneInit, LoneStep, PTL DEF Spec

\* Such an invoice follows the documented state machine, and no invoice becomes a
\* draft again.
THEOREM Lifecycle == Spec => FollowsLifecycle
<1>1. LoneInv /\ [Next]_vars => [Follows]_vars
  BY LoneStep
<1>2. Spec => [][Follows]_vars
  BY <1>1, LoneInit, LoneStep, PTL DEF Spec
<1> QED
  BY <1>2 DEF FollowsLifecycle, Follows

=============================================================================
