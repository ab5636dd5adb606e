------------------------- MODULE UsageAccountingProofs -------------------------
(***************************************************************************)
(* Proofs about UsageCounters, Reconciliation and UsageInvoices, for every *)
(* number of events, requests, consumers, months, grants, runs and faults, *)
(* every limit and every day a subscription may begin.                     *)
(***************************************************************************)
EXTENDS UsageInvoices, FiniteSetTheorems, TLAPS

USE DEF requestVars, copyVars

(* The invariants *)

\* A consumer that is not idle has an event, and has added it to the row.
Workers ==
    \A a \in Aggregators :
        worker[a].step # "idle" =>
            worker[a].event \in Events /\ applied[worker[a].event] >= 1

\* What a key grants in its present life is no more than it counts, up to the limit.
Grants(k) ==
    IF cache[k].present
    THEN granted[k] + Limit <=
           Limit * lives[k] + (IF cache[k].value <= Limit THEN cache[k].value ELSE Limit)
    ELSE granted[k] <= Limit * lives[k]

\* What is still to be mirrored is in the rows, and a read that nothing has overtaken
\* is still what they add up to, with nothing left to be mirrored.
Exact ==
    /\ \A k \in Keys : Unmirrored(k) <= Sum(k)
    /\ CounterExact
    /\ \A r \in Requests :
         req[r].step = "set" /\ r \notin outdated =>
             req[r].seen = Sum(req[r].key) /\ Unmirrored(req[r].key) = 0

CountersInv == CountersTypeOK /\ Workers /\ (\A k \in Keys : Grants(k)) /\ Exact

Added == {e \in Events : applied[e] >= 1}

AllFirst == \A e \in Events : deployment.monthOf[e] = 0

OneSubscription == \A e, d \in Events : deployment.subOf[e] = deployment.subOf[d]

\* What the sum adds up is in the rows, a row is there for an event, and the rows have
\* more than all the events that were added if and only if one was added twice.
Rows ==
    /\ \A e \in Events : eventStatus[e] = "AGGREGATED" => applied[e] >= 1
    /\ \A k \in Keys, s \in Subscriptions :
         agg[k][s] > 0 => \E e \in Events : deployment.subOf[e] = s
    /\ AllFirst => IF Drift THEN Sum(0) > Cardinality(Added) ELSE Sum(0) = Cardinality(Added)

\* A run at each of its steps.
ShapeOf(n) ==
    /\ run[n].step \in {"find", "sum", "read", "compare", "complete"} => run[n].status = "RUNNING"
    /\ run[n].status = "COMPLETED" => run[n].step = "over"
    /\ run[n].step \in {"none", "find", "sum", "read", "compare"} => run[n].issue = "NONE"

\* What a run that looks, and began after a drift, has seen is a difference.
SeesDrift(n) ==
    n \in drifted /\ n \notin skipped /\ FirstMonth(n) =>
        /\ Drift
        /\ run[n].step = "read" => run[n].expected < Sum(0)
        /\ run[n].step = "compare" => run[n].expected < run[n].actual
        /\ run[n].step = "complete" \/ run[n].status = "COMPLETED" => run[n].issue # "NONE"

\* What a run has seen while nothing was aggregated is no difference without a drift.
SeesNone(n) ==
    FirstMonth(n) /\ deployment.sourced = Events /\ n \notin shaken /\ ~Drift =>
        /\ run[n].step = "read" => run[n].expected = Sum(0)
        /\ run[n].step = "compare" => run[n].expected = run[n].actual
        /\ run[n].issue = "NONE"

Sees(n) == ShapeOf(n) /\ SeesDrift(n) /\ SeesNone(n)

ReconInv == ReconTypeOK /\ CountersInv /\ Rows /\ \A n \in Runs : Sees(n)

Monthly == deployment.billed /\ deployment.interval = "MONTHLY"

\* Periods begin on the day of the first one, until a month was too short for it; then
\* on a day that every month has.
Grid ==
    LET begins == deployment.begins
    IN  /\ begins.month <= sub.start.month
        /\ sub.end = NextPeriodEnd(sub.start, "MONTHLY")
        /\ \/ /\ sub.start.day = begins.day
              /\ \A k \in begins.month .. sub.start.month : begins.day <= Length(k)
           \/ sub.start.day <= 3

\* Months are charged in order.
ChargedMonth(m) ==
    /\ m = sub.start.month /\ intents = 1 => billed[m].invoices = 1
    /\ billed[m].invoices <= 1 \/ (m = sub.start.month /\ sub.status = "CANCELLED")
    /\ m > sub.start.month => billed[m].invoices = 0
    /\ m = sub.start.month /\ sub.status = "ACTIVE" /\ ~sub.invoiced => billed[m].invoices = 0
    /\ Due(m) => PassedOver(m) \/ billed[m].invoices = 1
    /\ billed[m].invoices > 0 => m \in late \/ billed[m].used = agg[m]["old"]

\* At most one payment is to come, for the invoice of the current period.
Charges ==
    /\ intents <= 1
    /\ intents = 1 => sub.start.month \in made
    /\ \A m \in Months : ChargedMonth(m)

InvoicesInv == InvoicesTypeOK /\ (Monthly => Grid /\ (~Doubled => Charges))

-----------------------------------------------------------------------------
(* The state of the counters *)

ReqRow == [step : {"idle", "get", "read", "set", "count", "expire", "fallback"},
           op : Ops, key : Keys, seen : Nat]
WorkerRow == [step : {"idle", "mirror", "expire", "mark", "commit"}, event : Events \union {None}]
CacheRow == [present : BOOLEAN, value : Nat, ttl : Ttl]

LEMMA KeyTypes ==
  /\ LastMonth \in Nat /\ Limit \in Nat /\ Months \subseteq Nat /\ Months \subseteq Keys
  /\ Lifetime \in Keys /\ Keys \subseteq Nat /\ 0 \in Months
BY CountersAssumption DEF Months, Keys, Lifetime

LEMMA DeploymentTypes ==
  ASSUME CountersTypeOK
  PROVE  /\ deployment \in Deployments
         /\ deployment.ops \subseteq Ops /\ deployment.until \in Months
         /\ deployment.monthOf \in [Events -> Months]
         /\ deployment.subOf \in [Events -> Subscriptions]
         /\ deployment.copies \in [Events -> Nat] /\ deployment.sourced \subseteq Events
         /\ \A e \in Events : PeriodKey(e) \in Months /\ PeriodKey(e) \in Keys
<1>1. deployment \in Deployments
  BY DEF CountersTypeOK
<1> QED
  BY <1>1, CountersAssumption, KeyTypes DEF PeriodKey

LEMMA KeyOfType == ASSUME CountersTypeOK PROVE KeyOf(month) \in Keys
BY KeyTypes DEF CountersTypeOK, KeyOf

LEMMA ReqFields ==
  ASSUME CountersTypeOK, NEW r \in Requests
  PROVE  /\ req \in [Requests -> ReqRow] /\ req[r] \in ReqRow
         /\ req[r].step \in {"idle", "get", "read", "set", "count", "expire", "fallback"}
         /\ req[r].op \in Ops /\ req[r].key \in Keys /\ req[r].seen \in Nat
BY DEF CountersTypeOK, ReqRow

LEMMA WorkerFields ==
  ASSUME CountersTypeOK, NEW a \in Aggregators
  PROVE  /\ worker \in [Aggregators -> WorkerRow] /\ worker[a] \in WorkerRow
         /\ worker[a].step \in {"idle", "mirror", "expire", "mark", "commit"}
         /\ worker[a].event \in Events \union {None}
BY DEF CountersTypeOK, WorkerRow

LEMMA CacheFields ==
  ASSUME CountersTypeOK, NEW k \in Keys
  PROVE  /\ cache \in [Keys -> CacheRow] /\ cache[k] \in CacheRow
         /\ cache[k].present \in BOOLEAN /\ cache[k].value \in Nat /\ cache[k].ttl \in Ttl
         /\ agg[k]["old"] \in Nat /\ agg[k]["new"] \in Nat /\ Sum(k) \in Nat
         /\ granted[k] \in Nat /\ lives[k] \in Nat /\ consumed[k] \in Nat
<1>1. agg[k]["old"] \in Nat /\ agg[k]["new"] \in Nat
  BY DEF CountersTypeOK, Subscriptions
<1> QED
  BY <1>1 DEF CountersTypeOK, CacheRow, Sum

\* A read of some row is an amount, and of the only one what the rows add up to.
LEMMA SomeRowFacts ==
  ASSUME CountersTypeOK, NEW k \in Keys, NEW amount \in SomeRow(k)
  PROVE  amount \in Nat /\ (~Split(k) => amount = Sum(k))
<1>1. agg[k]["old"] \in Nat /\ agg[k]["new"] \in Nat
  BY CacheFields
<1>2. \/ Sum(k) = 0 /\ amount = 0
      \/ agg[k]["old"] > 0 /\ amount = agg[k]["old"]
      \/ agg[k]["new"] > 0 /\ amount = agg[k]["new"]
  BY DEF SomeRow, Subscriptions
<1> QED
  BY <1>1, <1>2 DEF Split, Sum

-----------------------------------------------------------------------------
(* What the steps do to the requests *)

LEMMA GotoReq ==
  ASSUME CountersTypeOK, NEW r \in Requests,
         NEW step \in {"idle", "get", "read", "set", "count", "expire", "fallback"}, Goto(r, step)
  PROVE  /\ req' \in [Requests -> ReqRow] /\ req'[r].step = step
         /\ \A q \in Requests \ {r} : req'[q] = req[q]
BY ReqFields DEF Goto, ReqRow

LEMMA EndReq ==
  ASSUME CountersTypeOK, NEW r \in Requests, End(r)
  PROVE  /\ req' \in [Requests -> ReqRow] /\ req'[r].step = "idle"
         /\ \A q \in Requests \ {r} : req'[q] = req[q]
<1>1. Ready \in ReqRow /\ Ready.step = "idle"
  BY KeyTypes DEF Ready, ReqRow, Ops
<1> QED
  BY <1>1, ReqFields DEF End

LEMMA BeginReq ==
  ASSUME CountersTypeOK, NEW r \in Requests, NEW op \in Ops,
         req' = [req EXCEPT ![r] = [step |-> "get", op |-> op, key |-> KeyOf(month), seen |-> 0]]
  PROVE  /\ req' \in [Requests -> ReqRow] /\ req'[r].step = "get"
         /\ \A q \in Requests \ {r} : req'[q] = req[q]
<1> DEFINE row == [step |-> "get", op |-> op, key |-> KeyOf(month), seen |-> 0]
<1>1. row \in ReqRow /\ row.step = "get"
  BY KeyOfType DEF ReqRow
<1> QED
  BY <1>1, ReqFields

LEMMA ReadReq ==
  ASSUME CountersTypeOK, NEW r \in Requests, ReadAggregate(r)
  PROVE  /\ req' \in [Requests -> ReqRow] /\ req'[r].step = "set"
         /\ req'[r].key = req[r].key
         /\ ~Split(KeyOf(month)) => req'[r].seen = Sum(KeyOf(month))
         /\ \A q \in Requests \ {r} : req'[q] = req[q]
<1>1. PICK amount \in SomeRow(KeyOf(month)) :
        req' = [req EXCEPT ![r].step = "set", ![r].seen = amount]
  BY DEF ReadAggregate
<1>2. PICK k \in Keys : k = KeyOf(month)
  BY KeyOfType
<1>3. amount \in Nat /\ (~Split(k) => amount = Sum(k))
  BY <1>2, SomeRowFacts
<1> DEFINE row == [req[r] EXCEPT !.step = "set", !.seen = amount]
<1>4. row \in ReqRow /\ row.step = "set" /\ row.key = req[r].key /\ row.seen = amount
  BY <1>3, ReqFields DEF ReqRow
<1>5. req' = [req EXCEPT ![r] = row]
  BY <1>1, ReqFields
<1> HIDE DEF row
<1> QED
  BY <1>2, <1>3, <1>4, <1>5, ReqFields

\* Whoever is about to set a key has just read the row, or was about to before.
LEMMA ReqStep ==
  ASSUME CountersTypeOK, CountersNext
  PROVE  /\ req' \in [Requests -> ReqRow]
         /\ \A q \in Requests :
              req'[q].step = "set" =>
                  \/ ReadAggregate(q)
                  \/ /\ req[q].step = "set" /\ req'[q].key = req[q].key
                     /\ req'[q].seen = req[q].seen
<1> DEFINE Goal == /\ req' \in [Requests -> ReqRow]
                   /\ \A q \in Requests :
                        req'[q].step = "set" =>
                            \/ ReadAggregate(q)
                            \/ /\ req[q].step = "set" /\ req'[q].key = req[q].key
                               /\ req'[q].seen = req[q].seen
<1>1. CASE UNCHANGED req
  BY <1>1 DEF CountersTypeOK, ReqRow
<1>2. ASSUME NEW r \in Requests, Request(r) PROVE Goal
  <2>1. ASSUME NEW step \in {"idle", "get", "read", "count", "expire", "fallback"},
               Goto(r, step)
        PROVE  Goal
    BY <2>1, GotoReq
  <2>2. CASE End(r)
    BY <2>2, EndReq
  <2>3. CASE Continue(r)
    BY <2>1, <2>2, <2>3 DEF Continue
  <2>4. ASSUME NEW op \in Ops,
               req' = [req EXCEPT ![r] = [step |-> "get", op |-> op, key |-> KeyOf(month),
                                          seen |-> 0]]
        PROVE  Goal
    BY <2>4, BeginReq
  <2>5. CASE ReadAggregate(r)
    BY <2>5, ReadReq
  <2>6. CASE \E op \in Ops : Begin(r, op)
    BY <2>4, <2>6 DEF Begin
  <2>7. CASE Get(r) \/ Set(r) \/ SetFails(r)
    BY <2>1, <2>3, <2>7 DEF Get, Set, SetFails
  <2>8. CASE GetFails(r) \/ CountSoft(r) \/ CountFails(r) \/ ExpireFails(r)
    BY <2>1, <2>8 DEF GetFails, CountSoft, CountFails, ExpireFails
  <2>9. CASE CountHard(r)
    <3>1. "check" \in Ops
      BY DEF Ops
    <3> QED
      BY <2>2, <2>4, <2>9, <3>1 DEF CountHard
  <2>10. CASE ExpireShort(r) \/ Fallback(r) \/ ReadFails(r)
    BY <2>2, <2>3, <2>10 DEF ExpireShort, Fallback, ReadFails
  <2> QED
    BY <1>2, <2>5, <2>6, <2>7, <2>8, <2>9, <2>10 DEF Request
<1>3. CASE MonthTurns \/ SubscriptionChanges \/ \E k \in Keys : Expiry(k)
  BY <1>1, <1>3 DEF MonthTurns, SubscriptionChanges, Expiry
<1>4. ASSUME NEW a \in Aggregators, WorkerStep(a) \/ WorkerFault(a)
      PROVE  UNCHANGED req
  BY <1>4 DEF WorkerStep, WorkerFault, Upsert, UpsertFails, Mirror, ExpirePeriod, Mark, MarkFails,
     Commit, MirrorFails, WorkerCrash
<1> QED
  BY <1>1, <1>2, <1>3, <1>4 DEF CountersNext

-----------------------------------------------------------------------------
(* What the steps do to the consumers *)

OtherWorkers(a) == \A b \in Aggregators \ {a} : worker'[b] = worker[b]

LEMMA GotoWorker ==
  ASSUME CountersTypeOK, NEW a \in Aggregators,
         NEW step \in {"idle", "mirror", "expire", "mark", "commit"}, WorkerGoto(a, step)
  PROVE  /\ worker' \in [Aggregators -> WorkerRow] /\ OtherWorkers(a)
         /\ worker'[a].step = step /\ worker'[a].event = worker[a].event
BY WorkerFields DEF WorkerGoto, WorkerRow, OtherWorkers

LEMMA IdleWorkerStep ==
  ASSUME CountersTypeOK, NEW a \in Aggregators, worker' = [worker EXCEPT ![a] = IdleWorker]
  PROVE  /\ worker' \in [Aggregators -> WorkerRow] /\ OtherWorkers(a)
         /\ worker'[a].step = "idle"
<1>1. IdleWorker \in WorkerRow /\ IdleWorker.step = "idle"
  BY DEF IdleWorker, WorkerRow
<1> QED
  BY <1>1, WorkerFields DEF OtherWorkers

LEMMA UpsertWorker ==
  ASSUME CountersTypeOK, NEW a \in Aggregators, NEW e \in Events, Upsert(a, e)
  PROVE  /\ worker' \in [Aggregators -> WorkerRow] /\ OtherWorkers(a)
         /\ worker'[a].step = "mirror" /\ worker'[a].event = e /\ worker[a].step = "idle"
<1> DEFINE row == [step |-> "mirror", event |-> e]
<1>1. row \in WorkerRow /\ row.step = "mirror" /\ row.event = e /\ IdleWorker.step = "idle"
  BY DEF IdleWorker, WorkerRow
<1>2. worker' = [worker EXCEPT ![a] = row] /\ worker[a] = IdleWorker
  BY DEF Upsert
<1> HIDE DEF row
<1> QED
  BY <1>1, <1>2, WorkerFields DEF OtherWorkers

\* The consumers that still have to mirror an event in key k.
Waiting(k) ==
    {a \in Aggregators : worker[a].step = "mirror" /\ PeriodKey(worker[a].event) = k}

LEMMA WaitingCount ==
  ASSUME NEW k
  PROVE  /\ Unmirrored(k) = Cardinality(Waiting(k)) /\ IsFiniteSet(Waiting(k))
         /\ Unmirrored(k) \in Nat
<1>1. IsFiniteSet(Waiting(k))
  BY FS_Subset, CountersAssumption DEF Waiting
<1> QED
  BY <1>1, FS_CardinalityType DEF Waiting, Unmirrored

LEMMA WaitingCountNext ==
  ASSUME NEW k
  PROVE  /\ Unmirrored(k)' = Cardinality(Waiting(k)') /\ IsFiniteSet(Waiting(k)')
         /\ Unmirrored(k)' \in Nat
<1>1. IsFiniteSet(Waiting(k)')
  BY FS_Subset, CountersAssumption DEF Waiting
<1> QED
  BY <1>1, FS_CardinalityType DEF Waiting, Unmirrored

\* One consumer moves: the count follows it.
LEMMA WaitingMoves ==
  ASSUME NEW a \in Aggregators, OtherWorkers(a), deployment' = deployment, NEW k
  PROVE  /\ (a \in Waiting(k) <=> a \in Waiting(k)') => Unmirrored(k)' = Unmirrored(k)
         /\ a \notin Waiting(k) /\ a \in Waiting(k)' => Unmirrored(k)' = Unmirrored(k) + 1
         /\ a \in Waiting(k) /\ a \notin Waiting(k)' =>
              Unmirrored(k) >= 1 /\ Unmirrored(k)' = Unmirrored(k) - 1
<1>1. \A b \in Aggregators \ {a} : b \in Waiting(k) <=> b \in Waiting(k)'
  BY DEF OtherWorkers, Waiting, PeriodKey
<1>2. Waiting(k) \subseteq Aggregators /\ Waiting(k)' \subseteq Aggregators
  BY DEF Waiting
<1>3. CASE a \in Waiting(k) <=> a \in Waiting(k)'
  <2>1. Waiting(k)' = Waiting(k)
    BY <1>1, <1>2, <1>3
  <2> QED
    BY <1>3, <2>1, WaitingCount, WaitingCountNext
<1>4. CASE a \notin Waiting(k) /\ a \in Waiting(k)'
  <2>1. Waiting(k)' = Waiting(k) \union {a}
    BY <1>1, <1>2, <1>4
  <2> QED
    BY <1>4, <2>1, WaitingCount, WaitingCountNext, FS_AddElement
<1>5. CASE a \in Waiting(k) /\ a \notin Waiting(k)'
  <2>1. Waiting(k)' = Waiting(k) \ {a} /\ Waiting(k) # {}
    BY <1>1, <1>2, <1>5
  <2>2. Unmirrored(k)' = Unmirrored(k) - 1
    BY <1>5, <2>1, WaitingCount, WaitingCountNext, FS_RemoveElement
  <2>3. Unmirrored(k) # 0
    BY <2>1, WaitingCount, FS_EmptySet
  <2> QED
    BY <1>5, <2>2, <2>3, WaitingCount
<1> QED
  BY <1>3, <1>4, <1>5

LEMMA SameWorkers ==
  ASSUME UNCHANGED <<worker, deployment>>, NEW k PROVE Unmirrored(k)' = Unmirrored(k)
BY DEF Unmirrored, PeriodKey

\* A consumer moves between steps that are not the mirroring.
LEMMA OtherSteps ==
  ASSUME NEW a \in Aggregators, OtherWorkers(a), deployment' = deployment,
         worker[a].step # "mirror", worker'[a].step # "mirror", NEW k
  PROVE  Unmirrored(k)' = Unmirrored(k)
<1>1. a \notin Waiting(k) /\ a \notin Waiting(k)'
  BY DEF Waiting
<1> QED
  BY <1>1, WaitingMoves

-----------------------------------------------------------------------------
(* What the steps do to Redis *)

OtherKeys(k) == \A j \in Keys \ {k} : cache'[j] = cache[j]

LEMMA SetKeyFacts ==
  ASSUME CountersTypeOK, NEW r \in Requests, SetKey(r), NEW k, k = req[r].key
  PROVE  /\ cache' \in [Keys -> CacheRow] /\ OtherKeys(k) /\ k \in Keys
         /\ cache'[k].present /\ cache'[k].value = req[r].seen
         /\ lives' = [lives EXCEPT ![k] = @ + 1] /\ lives'[k] = lives[k] + 1
         /\ lives' \in [Keys -> Nat]
         /\ consumed' = [consumed EXCEPT ![k] = 0] /\ consumed' \in [Keys -> Nat]
         /\ disturbed' = (IF r \in outdated THEN disturbed \union {k} ELSE disturbed \ {k})
         /\ Overtake(k)
<1> DEFINE row == Entry(req[r].seen, "short")
<1>1. k \in Keys /\ req[r].seen \in Nat
  BY ReqFields
<1>2. row \in CacheRow /\ row.present = TRUE /\ row.value = req[r].seen
  BY <1>1 DEF Entry, CacheRow, Ttl
<1>3. cache' = [cache EXCEPT ![k] = row]
  BY DEF SetKey
<1> HIDE DEF row
<1>4. cache' \in [Keys -> CacheRow] /\ OtherKeys(k) /\ cache'[k] = row
  BY <1>1, <1>2, <1>3, CacheFields DEF OtherKeys
<1> QED
  BY <1>1, <1>2, <1>4 DEF SetKey, CountersTypeOK

LEMMA IncrByFacts ==
  ASSUME CountersTypeOK, NEW k \in Keys, IncrBy(k)
  PROVE  /\ cache' \in [Keys -> CacheRow] /\ OtherKeys(k)
         /\ cache'[k].present
         /\ cache'[k].value = (IF cache[k].present THEN cache[k].value + 1 ELSE 1)
         /\ lives' \in [Keys -> Nat] /\ \A j \in Keys \ {k} : lives'[j] = lives[j]
         /\ lives'[k] = (IF cache[k].present THEN lives[k] ELSE lives[k] + 1)
         /\ Overtake(k)
<1> DEFINE row == IF cache[k].present THEN Entry(cache[k].value + 1, cache[k].ttl)
                                      ELSE Entry(1, "none")
<1>1. /\ row \in CacheRow /\ row.present = TRUE
      /\ row.value = (IF cache[k].present THEN cache[k].value + 1 ELSE 1)
  BY CacheFields DEF Entry, CacheRow, Ttl
<1>2. cache' = [cache EXCEPT ![k] = row]
  BY CacheFields DEF IncrBy
<1> HIDE DEF row
<1>3. cache' \in [Keys -> CacheRow] /\ OtherKeys(k) /\ cache'[k] = row
  BY <1>1, <1>2, CacheFields DEF OtherKeys
<1> QED
  BY <1>1, <1>3 DEF IncrBy, CountersTypeOK

LEMMA MissingFacts ==
  ASSUME CountersTypeOK, NEW k \in Keys, cache' = [cache EXCEPT ![k] = Missing]
  PROVE  cache' \in [Keys -> CacheRow] /\ OtherKeys(k) /\ ~cache'[k].present
<1>1. Missing \in CacheRow /\ Missing.present = FALSE
  BY DEF Missing, CacheRow, Ttl
<1> QED
  BY <1>1, CacheFields DEF OtherKeys

LEMMA SetTtlFacts ==
  ASSUME CountersTypeOK, NEW k \in Keys, NEW ttl \in Ttl, SetTtl(k, ttl)
  PROVE  /\ cache' \in [Keys -> CacheRow]
         /\ \A j \in Keys :
              cache'[j].present = cache[j].present /\ cache'[j].value = cache[j].value
<1> DEFINE row == [cache[k] EXCEPT !.ttl = ttl]
<1>1. /\ row \in CacheRow /\ row.present = cache[k].present /\ row.value = cache[k].value
  BY CacheFields DEF CacheRow
<1>2. cache' = cache \/ cache' = [cache EXCEPT ![k] = row]
  BY CacheFields DEF SetTtl
<1> HIDE DEF row
<1> QED
  BY <1>1, <1>2, CacheFields

-----------------------------------------------------------------------------
(* The steps, by what they do to the counters *)

\* Nothing happens to the row, to Redis and to what is to be mirrored.
Rests ==
    /\ UNCHANGED <<agg, cache, granted, lives, consumed, outdated, disturbed, deployment>>
    /\ \A k \in Keys : Unmirrored(k)' = Unmirrored(k)

\* A key is set from a read of the row.
Sets(r) ==
    /\ req[r].step = "set"
    /\ SetKey(r)
    /\ UNCHANGED <<agg, granted, worker, deployment>>

Expires(k) ==
    /\ cache' = [cache EXCEPT ![k] = Missing]
    /\ Overtake(k)
    /\ UNCHANGED <<agg, granted, lives, consumed, disturbed, worker, deployment>>

\* A consumption is counted in Redis, and perhaps granted by the script.
Counts(k) ==
    /\ IncrBy(k)
    /\ Consumed(k)
    /\ granted' = granted \/ (~Exceeds(k) /\ granted' = [granted EXCEPT ![k] = @ + 1])
    /\ UNCHANGED <<agg, worker, deployment>>

Lasts(k, ttl) ==
    /\ SetTtl(k, ttl)
    /\ UNCHANGED <<agg, granted, lives, consumed, outdated, disturbed, deployment>>
    /\ \A j \in Keys : Unmirrored(j)' = Unmirrored(j)

\* A mirror is lost: Redis fails, or the consumer dies.
Loses(a) ==
    /\ worker[a].step = "mirror" /\ worker'[a].step # "mirror" /\ OtherWorkers(a)
    /\ Disturb(PeriodKey(worker[a].event)) /\ Overtake(PeriodKey(worker[a].event))
    /\ UNCHANGED <<agg, cache, granted, lives, consumed, deployment>>

Effects ==
    \/ Rests
    \/ \E r \in Requests : ReadAggregate(r) \/ Sets(r)
    \/ \E k \in Keys : Expires(k) \/ Counts(k) \/ \E ttl \in Ttl : Lasts(k, ttl)
    \/ \E a \in Aggregators : Mirror(a) \/ Loses(a) \/ \E e \in Events : Upsert(a, e)

\* What a worker has in hand.
LEMMA WorkerKey ==
  ASSUME CountersTypeOK, Workers, NEW a \in Aggregators, worker[a].step # "idle"
  PROVE  /\ worker[a].event \in Events /\ applied[worker[a].event] >= 1
         /\ PeriodKey(worker[a].event) \in Keys
BY DeploymentTypes DEF Workers

LEMMA RequestEffects ==
  ASSUME CountersTypeOK, NEW r \in Requests, Request(r) PROVE Effects
<1>1. CASE \/ \E op \in Ops : Begin(r, op)
           \/ Get(r) \/ GetFails(r) \/ ReadFails(r) \/ Fallback(r)
  <2>1. /\ UNCHANGED <<agg, cache, granted, lives, consumed, outdated, disturbed, deployment>>
        /\ UNCHANGED worker
    BY <1>1 DEF Begin, Get, GetFails, ReadFails, Fallback
  <2> QED
    BY <2>1, SameWorkers DEF Rests, Effects
<1>2. CASE ReadAggregate(r)
  BY <1>2 DEF Effects
<1>3. CASE Set(r) \/ SetFails(r)
  <2>1. UNCHANGED <<agg, granted, worker, deployment>> /\ req[r].step = "set"
    BY <1>3 DEF Set, SetFails
  <2>2. SetKey(r) \/ UNCHANGED <<cache, lives, consumed, outdated, disturbed>>
    BY <1>3 DEF Set, SetFails
  <2> QED
    BY <2>1, <2>2, SameWorkers DEF Rests, Sets, Effects
<1>4. CASE CountHard(r) \/ CountSoft(r) \/ CountFails(r)
  <2> DEFINE k == req[r].key
  <2>1. UNCHANGED <<agg, worker, deployment>> /\ k \in Keys
    BY <1>4, ReqFields DEF CountHard, CountSoft, CountFails
  <2>2. \/ UNCHANGED <<cache, granted, lives, consumed, outdated, disturbed>>
        \/ /\ IncrBy(k) /\ Consumed(k)
           /\ granted' = granted \/ (~Exceeds(k) /\ granted' = [granted EXCEPT ![k] = @ + 1])
    BY <1>4 DEF CountHard, CountSoft, CountFails
  <2> HIDE DEF k
  <2> QED
    BY <2>1, <2>2, SameWorkers DEF Rests, Counts, Effects
<1>5. CASE ExpireShort(r) \/ ExpireFails(r)
  <2>1. /\ UNCHANGED <<agg, granted, lives, consumed, outdated, disturbed, deployment, worker>>
        /\ UNCHANGED cache \/ SetTtl(req[r].key, "short")
    BY <1>5 DEF ExpireShort, ExpireFails
  <2>2. UNCHANGED cache => Rests
    BY <2>1, SameWorkers DEF Rests
  <2>3. SetTtl(req[r].key, "short") => Lasts(req[r].key, "short")
    BY <2>1, SameWorkers DEF Lasts
  <2>4. req[r].key \in Keys /\ "short" \in Ttl
    BY ReqFields DEF Ttl
  <2> QED
    BY <2>1, <2>2, <2>3, <2>4 DEF Effects
<1> QED
  BY <1>1, <1>2, <1>3, <1>4, <1>5 DEF Request

\* A consumer that rests, or moves between steps that are not the mirroring.
LEMMA WorkerRests ==
  ASSUME CountersTypeOK, NEW a \in Aggregators,
         (\E e \in Events : UpsertFails(a, e)) \/ Mark(a) \/ MarkFails(a) \/ Commit(a)
  PROVE  Effects /\ worker' \in [Aggregators -> WorkerRow] /\ OtherWorkers(a)
<1>1. /\ UNCHANGED <<agg, cache, granted, lives, consumed, outdated, disturbed, deployment>>
      /\ UNCHANGED worker \/ worker[a].step \in {"mark", "commit"}
  BY DEF UpsertFails, Mark, MarkFails, Commit
<1>2. /\ worker' \in [Aggregators -> WorkerRow] /\ OtherWorkers(a)
      /\ UNCHANGED worker \/ worker'[a].step \in {"commit", "idle"}
  <2>1. CASE \E e \in Events : UpsertFails(a, e)
    BY <2>1, WorkerFields DEF UpsertFails, OtherWorkers
  <2>2. CASE Mark(a) \/ MarkFails(a)
    BY <2>2, GotoWorker DEF Mark, MarkFails
  <2>3. CASE Commit(a)
    BY <2>3, IdleWorkerStep DEF Commit
  <2> QED
    BY <2>1, <2>2, <2>3
<1>3. \A j \in Keys : Unmirrored(j)' = Unmirrored(j)
  BY <1>1, <1>2, SameWorkers, OtherSteps
<1> QED
  BY <1>1, <1>2, <1>3 DEF Rests, Effects

LEMMA WorkerEffects ==
  ASSUME CountersTypeOK, Workers, NEW a \in Aggregators, WorkerStep(a) \/ WorkerFault(a)
  PROVE  Effects /\ worker' \in [Aggregators -> WorkerRow] /\ OtherWorkers(a)
<1>1. CASE \E e \in Events : Upsert(a, e)
  BY <1>1, UpsertWorker DEF Effects
<1>2. CASE Mirror(a)
  BY <1>2, GotoWorker DEF Mirror, Effects
<1>3. CASE ExpirePeriod(a)
  <2>1. /\ worker' \in [Aggregators -> WorkerRow] /\ OtherWorkers(a)
        /\ worker[a].step = "expire" /\ worker'[a].step = "mark"
    BY <1>3, GotoWorker DEF ExpirePeriod
  <2>2. \A j \in Keys : Unmirrored(j)' = Unmirrored(j)
    BY <1>3, <2>1, OtherSteps DEF ExpirePeriod
  <2>3. Lasts(PeriodKey(worker[a].event), "period") /\ "period" \in Ttl
    BY <1>3, <2>2 DEF ExpirePeriod, Lasts, Ttl
  <2>4. PeriodKey(worker[a].event) \in Keys
    BY <2>1, WorkerKey
  <2> QED
    BY <2>1, <2>3, <2>4 DEF Effects
<1>5. CASE MirrorFails(a) \/ WorkerCrash(a)
  <2>1. /\ worker' \in [Aggregators -> WorkerRow] /\ OtherWorkers(a)
        /\ worker'[a].step # "mirror"
    BY <1>5, GotoWorker, IdleWorkerStep DEF MirrorFails, WorkerCrash
  <2>2. /\ UNCHANGED <<agg, cache, granted, lives, consumed, deployment>>
        /\ IF worker[a].step = "mirror"
           THEN Disturb(PeriodKey(worker[a].event)) /\ Overtake(PeriodKey(worker[a].event))
           ELSE UNCHANGED <<disturbed, outdated>>
    BY <1>5 DEF MirrorFails, WorkerCrash
  <2>3. CASE worker[a].step = "mirror"
    BY <2>1, <2>2, <2>3 DEF Loses, Effects
  <2>4. CASE worker[a].step # "mirror"
    <3>1. \A j \in Keys : Unmirrored(j)' = Unmirrored(j)
      BY <2>1, <2>2, <2>4, OtherSteps
    <3> QED
      BY <2>1, <2>2, <2>4, <3>1 DEF Rests, Effects
  <2> QED
    BY <2>1, <2>3, <2>4
<1> QED
  BY <1>1, <1>2, <1>3, <1>5, WorkerRests DEF WorkerStep, WorkerFault

LEMMA StepEffects == ASSUME CountersTypeOK, Workers, CountersNext PROVE Effects
<1>1. CASE MonthTurns \/ SubscriptionChanges
  BY <1>1, SameWorkers DEF MonthTurns, SubscriptionChanges, Rests, Effects
<1>2. ASSUME NEW k \in Keys, Expiry(k) PROVE Effects
  BY <1>2 DEF Expiry, Expires, Effects
<1> QED
  BY <1>1, <1>2, RequestEffects, WorkerEffects DEF CountersNext

-----------------------------------------------------------------------------
(* Types of the counters *)

\* Events are added to the row by the consumers alone, and marked by them.
LEMMA EventStep ==
  ASSUME CountersTypeOK, CountersNext
  PROVE  \/ UNCHANGED <<agg, applied, eventStatus>>
         \/ \E a \in Aggregators : Mark(a)
         \/ \E a \in Aggregators, e \in Events : Upsert(a, e)
<1>1. ASSUME NEW r \in Requests, Request(r) PROVE UNCHANGED <<agg, applied, eventStatus>>
  BY <1>1 DEF Request, Begin, Get, GetFails, ReadAggregate, ReadFails, Set, SetFails, CountHard,
     CountSoft, ExpireShort, CountFails, ExpireFails, Fallback
<1>2. ASSUME NEW a \in Aggregators,
             Mirror(a) \/ ExpirePeriod(a) \/ Commit(a) \/ WorkerFault(a)
      PROVE  UNCHANGED <<agg, applied, eventStatus>>
  BY <1>2 DEF Mirror, ExpirePeriod, Commit, WorkerFault, UpsertFails, MirrorFails, MarkFails,
     WorkerCrash
<1>3. CASE MonthTurns \/ SubscriptionChanges \/ \E k \in Keys : Expiry(k)
  BY <1>3 DEF MonthTurns, SubscriptionChanges, Expiry
<1> QED
  BY <1>1, <1>2, <1>3 DEF CountersNext, WorkerStep

LEMMA UpsertRow ==
  ASSUME CountersTypeOK, NEW a \in Aggregators, NEW e \in Events, Upsert(a, e),
         NEW k, k = PeriodKey(e), NEW s, s = deployment.subOf[e]
  PROVE  /\ k \in Keys /\ s \in Subscriptions
         /\ agg' \in [Keys -> [Subscriptions -> Nat]] /\ Sum(k)' = Sum(k) + 1
         /\ \A j \in Keys \ {k} : agg'[j] = agg[j] /\ Sum(j)' = Sum(j)
         /\ \A x \in Subscriptions \ {s} : agg'[k][x] = agg[k][x]
         /\ applied' \in [Events -> Nat] /\ applied'[e] = applied[e] + 1
         /\ \A d \in Events \ {e} : applied'[d] = applied[d]
<1>1. k \in Keys /\ s \in Subscriptions
  BY DeploymentTypes
<1>2. agg \in [Keys -> [Subscriptions -> Nat]] /\ agg[k] \in [Subscriptions -> Nat]
  BY <1>1 DEF CountersTypeOK
<1> DEFINE rows == [agg[k] EXCEPT ![s] = @ + 1]
<1>3. agg' = [agg EXCEPT ![k] = rows]
  BY <1>2 DEF Upsert
<1>4. /\ rows \in [Subscriptions -> Nat] /\ rows[s] = agg[k][s] + 1
      /\ \A x \in Subscriptions \ {s} : rows[x] = agg[k][x]
  BY <1>1, <1>2
<1> HIDE DEF rows
<1>5. /\ agg' \in [Keys -> [Subscriptions -> Nat]] /\ agg'[k] = rows
      /\ \A j \in Keys \ {k} : agg'[j] = agg[j]
  BY <1>1, <1>2, <1>3, <1>4
<1>6. Sum(k)' = Sum(k) + 1
  <2>1. agg[k]["old"] \in Nat /\ agg[k]["new"] \in Nat
    BY <1>1, CacheFields
  <2> QED
    BY <1>1, <1>4, <1>5, <2>1 DEF Sum, Subscriptions
<1>7. \A j \in Keys \ {k} : Sum(j)' = Sum(j)
  BY <1>5 DEF Sum
<1> QED
  BY <1>1, <1>4, <1>5, <1>6, <1>7 DEF Upsert, CountersTypeOK

\* The deployment of a behaviour does not change; months and faults stay in bounds.
LEMMA FrameStep ==
  ASSUME CountersTypeOK, CountersNext
  PROVE  deployment' = deployment /\ month' \in Months /\ faults' \in 0 .. MaxFaults
<1> DEFINE Goal == /\ deployment' = deployment
                   /\ (month' = month \/ (month < deployment.until /\ month' = month + 1))
                   /\ (faults' = faults \/ (faults < MaxFaults /\ faults' = faults + 1))
<1>1. ASSUME NEW r \in Requests, Request(r) PROVE Goal
  BY <1>1 DEF Request, Begin, Get, GetFails, ReadAggregate, ReadFails, Set, SetFails, CountHard,
     CountSoft, ExpireShort, CountFails, ExpireFails, Fallback, Fault
<1>2. ASSUME NEW a \in Aggregators, WorkerStep(a) \/ WorkerFault(a) PROVE Goal
  BY <1>2 DEF WorkerStep, WorkerFault, Upsert, UpsertFails, Mirror, ExpirePeriod, Mark, MarkFails,
     Commit, MirrorFails, WorkerCrash, Fault
<1>3. ASSUME MonthTurns \/ SubscriptionChanges PROVE Goal
  BY <1>3 DEF MonthTurns, SubscriptionChanges
<1>m. ASSUME NEW k \in Keys, Expiry(k) PROVE Goal
  BY <1>m DEF Expiry, Fault
<1>4. Goal
  BY <1>1, <1>2, <1>3, <1>m DEF CountersNext
<1>5. month' \in Months
  BY <1>4, CountersAssumption, DeploymentTypes DEF Months, CountersTypeOK
<1>6. faults' \in 0 .. MaxFaults
  BY <1>4, CountersAssumption DEF CountersTypeOK
<1> QED
  BY <1>4, <1>5, <1>6 DEF CountersTypeOK

\* What the effects do to the histories' types.
LEMMA EffectTypes ==
  ASSUME CountersTypeOK, Workers, Effects
  PROVE  /\ cache' \in [Keys -> CacheRow] /\ agg' \in [Keys -> [Subscriptions -> Nat]]
         /\ granted' \in [Keys -> Nat] /\ lives' \in [Keys -> Nat]
         /\ consumed' \in [Keys -> Nat]
         /\ outdated' \subseteq Requests /\ disturbed' \subseteq Keys
<1> DEFINE Goal == /\ cache' \in [Keys -> CacheRow] /\ agg' \in [Keys -> [Subscriptions -> Nat]]
                   /\ granted' \in [Keys -> Nat] /\ lives' \in [Keys -> Nat]
                   /\ consumed' \in [Keys -> Nat]
                   /\ outdated' \subseteq Requests /\ disturbed' \subseteq Keys
<1>t. /\ cache \in [Keys -> CacheRow] /\ agg \in [Keys -> [Subscriptions -> Nat]]
      /\ granted \in [Keys -> Nat] /\ lives \in [Keys -> Nat]
      /\ consumed \in [Keys -> Nat] /\ outdated \subseteq Requests /\ disturbed \subseteq Keys
  BY DEF CountersTypeOK, CacheRow
<1>o. \A k : Overtake(k) => outdated' \subseteq Requests
  BY <1>t DEF Overtake
<1>1. CASE Rests
  BY <1>1, <1>t DEF Rests
<1>2. ASSUME NEW r \in Requests, ReadAggregate(r) PROVE Goal
  BY <1>2, <1>t DEF ReadAggregate
<1>3. ASSUME NEW r \in Requests, Sets(r) PROVE Goal
  <2>1. PICK k : k = req[r].key
    OBVIOUS
  <2> QED
    BY <1>3, <1>o, <1>t, <2>1, SetKeyFacts DEF Sets
<1>4. ASSUME NEW k \in Keys, Expires(k) PROVE Goal
  BY <1>4, <1>o, <1>t, MissingFacts DEF Expires
<1>5. ASSUME NEW k \in Keys, Counts(k) PROVE Goal
  <2>1. /\ cache' \in [Keys -> CacheRow] /\ lives' \in [Keys -> Nat]
        /\ outdated' \subseteq Requests
    BY <1>5, <1>o, IncrByFacts DEF Counts
  <2>2. consumed' \in [Keys -> Nat] /\ disturbed' \subseteq Keys
    BY <1>5, <1>t DEF Counts, Consumed
  <2>3. agg' = agg /\ granted' \in [Keys -> Nat]
    BY <1>5, <1>t DEF Counts
  <2> QED
    BY <2>1, <2>2, <2>3, <1>t
<1>6. ASSUME NEW k \in Keys, NEW ttl \in Ttl, Lasts(k, ttl) PROVE Goal
  BY <1>6, <1>t, SetTtlFacts DEF Lasts
<1>7. ASSUME NEW a \in Aggregators, Mirror(a) PROVE Goal
  <2> DEFINE k == PeriodKey(worker[a].event)
  <2>1. k \in Keys
    BY <1>7, WorkerKey DEF Mirror
  <2>2. IncrBy(k) /\ agg' = agg /\ granted' = granted
    BY <1>7 DEF Mirror
  <2>3. consumed' \in [Keys -> Nat] /\ disturbed' \subseteq Keys
    BY <1>7, <1>t, <2>1 DEF Mirror
  <2> HIDE DEF k
  <2> QED
    BY <1>o, <1>t, <2>1, <2>2, <2>3, IncrByFacts
<1>8. ASSUME NEW a \in Aggregators, Loses(a) PROVE Goal
  <2>1. PeriodKey(worker[a].event) \in Keys
    BY <1>8, WorkerKey DEF Loses
  <2> QED
    BY <1>8, <1>o, <1>t, <2>1 DEF Loses, Disturb
<1>9. ASSUME NEW a \in Aggregators, NEW e \in Events, Upsert(a, e) PROVE Goal
  <2>1. agg' \in [Keys -> [Subscriptions -> Nat]]
    BY <1>9, UpsertRow
  <2> QED
    BY <1>9, <1>o, <1>t, <2>1 DEF Upsert
<1> QED
  BY <1>1, <1>2, <1>3, <1>4, <1>5, <1>6, <1>7, <1>8, <1>9 DEF Effects

LEMMA CountersTypesInit == CountersInit => CountersTypeOK /\ Workers
<1> SUFFICES ASSUME CountersInit PROVE CountersTypeOK /\ Workers
  OBVIOUS
<1>0. deployment \in Deployments /\ deployment.copies \in [Events -> Nat]
  BY CountersAssumption DEF CountersInit
<1>1. /\ Missing \in CacheRow /\ Ready \in ReqRow /\ IdleWorker \in WorkerRow
      /\ IdleWorker.step = "idle" /\ 0 \in Nat /\ 0 \in 0 .. MaxFaults
  BY KeyTypes, CountersAssumption DEF Missing, Ready, IdleWorker, CacheRow, ReqRow, WorkerRow,
     Ttl, Ops
<1> QED
  BY <1>0, <1>1, KeyTypes DEF CountersInit, CountersTypeOK, Workers, CacheRow, ReqRow, WorkerRow

LEMMA CountersTypesStep ==
  ASSUME CountersTypeOK, Workers, CountersNext PROVE CountersTypeOK' /\ Workers'
<1>1. /\ cache' \in [Keys -> CacheRow] /\ agg' \in [Keys -> [Subscriptions -> Nat]]
      /\ granted' \in [Keys -> Nat] /\ lives' \in [Keys -> Nat]
      /\ consumed' \in [Keys -> Nat]
      /\ outdated' \subseteq Requests /\ disturbed' \subseteq Keys
  BY StepEffects, EffectTypes
<1>2. req' \in [Requests -> ReqRow]
  BY ReqStep
<1>3. deployment' \in Deployments /\ month' \in Months /\ faults' \in 0 .. MaxFaults
  BY FrameStep DEF CountersTypeOK
<1>4. unchecked' \in Nat
  <2>1. ASSUME NEW r \in Requests, Request(r)
        PROVE  unchecked' = unchecked \/ unchecked' = unchecked + 1
    BY <2>1 DEF Request, Begin, Get, GetFails, ReadAggregate, ReadFails, Set, SetFails, CountHard,
       CountSoft, ExpireShort, CountFails, ExpireFails, Fallback
  <2>2. ASSUME NEW a \in Aggregators, WorkerStep(a) \/ WorkerFault(a)
        PROVE  unchecked' = unchecked
    BY <2>2 DEF WorkerStep, WorkerFault, Upsert, UpsertFails, Mirror, ExpirePeriod, Mark,
       MarkFails, Commit, MirrorFails, WorkerCrash
  <2> QED
    BY <2>1, <2>2 DEF CountersNext, CountersTypeOK, MonthTurns, SubscriptionChanges, Expiry
<1>p. pending' \in [Events -> Nat]
  <2>1. pending \in [Events -> Nat]
    BY DEF CountersTypeOK
  <2>2. ASSUME NEW r \in Requests, Request(r) PROVE pending' = pending
    BY <2>2 DEF Request, Begin, Get, GetFails, ReadAggregate, ReadFails, Set, SetFails, CountHard,
       CountSoft, ExpireShort, CountFails, ExpireFails, Fallback
  <2>3. ASSUME NEW a \in Aggregators, NEW e \in Events, Upsert(a, e) \/ UpsertFails(a, e)
        PROVE  pending' \in [Events -> Nat]
    <3>1. pending[e] > 0 /\ pending[e] \in Nat /\ pending' = [pending EXCEPT ![e] = @ - 1]
      BY <2>1, <2>3 DEF Upsert, UpsertFails, Deliver
    <3>2. PICK n \in Nat : n = pending[e] - 1
      BY <3>1
    <3>3. pending' = [pending EXCEPT ![e] = n]
      BY <2>1, <3>1, <3>2
    <3> QED
      BY <2>1, <3>2, <3>3
  <2>4. ASSUME NEW a \in Aggregators, WorkerCrash(a) PROVE pending' \in [Events -> Nat]
    <3>1. pending' = [pending EXCEPT ![worker[a].event] = @ + 1]
      BY <2>4 DEF WorkerCrash
    <3>2. CASE worker[a].event \in Events
      <4>1. PICK n \in Nat : n = pending[worker[a].event] + 1
        BY <2>1, <3>2
      <4>2. pending' = [pending EXCEPT ![worker[a].event] = n]
        BY <2>1, <3>1, <4>1
      <4> QED
        BY <2>1, <4>2
    <3>3. CASE worker[a].event \notin Events
      BY <2>1, <3>1, <3>3
    <3> QED
      BY <3>2, <3>3
  <2>5. ASSUME NEW a \in Aggregators,
               Mirror(a) \/ ExpirePeriod(a) \/ Mark(a) \/ MarkFails(a) \/ Commit(a) \/ MirrorFails(a)
        PROVE  pending' = pending
    BY <2>5 DEF Mirror, ExpirePeriod, Mark, MarkFails, Commit, MirrorFails
  <2> QED
    BY <2>1, <2>2, <2>3, <2>4, <2>5
    DEF CountersNext, WorkerStep, WorkerFault, MonthTurns, SubscriptionChanges, Expiry
<1>l. live' \in BOOLEAN
  <2>1. ASSUME NEW r \in Requests, Request(r) PROVE live' = live
    BY <2>1 DEF Request, Begin, Get, GetFails, ReadAggregate, ReadFails, Set, SetFails, CountHard,
       CountSoft, ExpireShort, CountFails, ExpireFails, Fallback
  <2>2. ASSUME NEW a \in Aggregators, WorkerStep(a) \/ WorkerFault(a) PROVE live' = live
    BY <2>2 DEF WorkerStep, WorkerFault, Upsert, UpsertFails, Mirror, ExpirePeriod, Mark,
       MarkFails, Commit, MirrorFails, WorkerCrash
  <2> QED
    BY <2>1, <2>2 DEF CountersNext, CountersTypeOK, MonthTurns, SubscriptionChanges, Expiry
<1>5. applied' \in [Events -> Nat] /\ \A e \in Events : applied'[e] >= applied[e]
  <2>1. ASSUME NEW a \in Aggregators, NEW e \in Events, Upsert(a, e)
        PROVE  applied' \in [Events -> Nat] /\ \A d \in Events : applied'[d] >= applied[d]
    <3>1. applied \in [Events -> Nat]
      BY DEF CountersTypeOK
    <3> QED
      BY <2>1, <3>1, UpsertRow
  <2> QED
    BY <2>1, EventStep DEF CountersTypeOK, Mark
<1>6. eventStatus' \in [Events -> {"VALIDATED", "AGGREGATED"}]
  BY EventStep DEF CountersTypeOK, Mark, Upsert
<1>7. /\ worker' \in [Aggregators -> WorkerRow]
      /\ \/ worker' = worker
         \/ \E a \in Aggregators : WorkerStep(a) \/ WorkerFault(a)
  <2>1. CASE worker' = worker
    BY <2>1 DEF CountersTypeOK, WorkerRow
  <2>2. ASSUME NEW r \in Requests, Request(r) PROVE worker' = worker
    BY <2>2 DEF Request, Begin, Get, GetFails, ReadAggregate, ReadFails, Set, SetFails, CountHard,
       CountSoft, ExpireShort, CountFails, ExpireFails, Fallback
  <2> QED
    BY <2>1, <2>2, WorkerEffects DEF CountersNext, MonthTurns, SubscriptionChanges, Expiry
<1>8. CountersTypeOK'
  BY <1>1, <1>2, <1>3, <1>4, <1>5, <1>6, <1>7, <1>p, <1>l
  DEF CountersTypeOK, CacheRow, ReqRow, WorkerRow
<1>9. Workers'
  <2> SUFFICES ASSUME NEW b \in Aggregators, worker'[b].step # "idle"
               PROVE  worker'[b].event \in Events /\ applied'[worker'[b].event] >= 1
    BY DEF Workers
  <2>1. CASE worker'[b] = worker[b]
    <3>1. worker[b].event \in Events /\ applied[worker[b].event] >= 1
      BY <2>1 DEF Workers
    <3>2. \A e \in Events : applied[e] \in Nat /\ applied'[e] \in Nat
      BY <1>5 DEF CountersTypeOK
    <3> QED
      BY <2>1, <1>5, <3>1, <3>2
  <2>2. ASSUME NEW e \in Events, Upsert(b, e)
        PROVE  worker'[b].event \in Events /\ applied'[worker'[b].event] >= 1
    <3>1. worker'[b].event = e /\ applied'[e] = applied[e] + 1 /\ applied[e] \in Nat
      BY <2>2, UpsertWorker, UpsertRow DEF CountersTypeOK
    <3> QED
      BY <3>1
  <2>3. CASE Mirror(b) \/ ExpirePeriod(b) \/ MirrorFails(b) \/ Mark(b) \/ MarkFails(b)
    <3>1. worker[b].step # "idle" /\ worker'[b].event = worker[b].event /\ applied' = applied
      BY <2>3, GotoWorker DEF Mirror, ExpirePeriod, MirrorFails, Mark, MarkFails
    <3> QED
      BY <3>1 DEF Workers
  <2>4. CASE Commit(b) \/ WorkerCrash(b)
    BY <2>4, IdleWorkerStep DEF Commit, WorkerCrash
  <2>5. CASE \E e \in Events : UpsertFails(b, e)
    BY <2>1, <2>5 DEF UpsertFails
  <2> QED
    BY <1>7, <2>1, <2>2, <2>3, <2>4, <2>5, WorkerEffects DEF WorkerStep, WorkerFault, OtherWorkers
<1> QED
  BY <1>8, <1>9

-----------------------------------------------------------------------------
(* The script grants no more than the limit in each life of a key *)

LEMMA OneLifeMore ==
  ASSUME NEW n \in Nat
  PROVE  Limit * n \in Nat /\ Limit * (n + 1) \in Nat /\ Limit * (n + 1) = Limit * n + Limit
BY KeyTypes

\* A key that is set or created with any value starts a life.
LEMMA NewLife ==
  ASSUME CountersTypeOK, NEW k \in Keys, Grants(k), granted'[k] = granted[k],
         lives'[k] = lives[k] + 1, cache'[k].present, cache'[k].value \in Nat
  PROVE  Grants(k)'
<1>1. /\ Limit * lives'[k] = Limit * lives[k] + Limit
      /\ Limit * lives[k] \in Nat /\ Limit * lives'[k] \in Nat
  BY CacheFields, OneLifeMore
<1>2. granted[k] <= Limit * lives[k]
  BY <1>1, CacheFields, KeyTypes DEF Grants
<1> QED
  BY <1>1, <1>2, CacheFields, KeyTypes DEF Grants

LEMMA CountsGrants ==
  ASSUME CountersTypeOK, NEW k \in Keys, Grants(k), Counts(k) PROVE Grants(k)'
<1>1. /\ cache'[k].present
      /\ cache'[k].value = (IF cache[k].present THEN cache[k].value + 1 ELSE 1)
      /\ lives'[k] = (IF cache[k].present THEN lives[k] ELSE lives[k] + 1)
  BY IncrByFacts DEF Counts
<1>2. /\ Limit * lives[k] \in Nat /\ Limit * (lives[k] + 1) = Limit * lives[k] + Limit
      /\ Limit * (lives[k] + 1) \in Nat
  BY CacheFields, OneLifeMore
<1>3. \/ granted'[k] = granted[k]
      \/ cache[k].value + 1 <= Limit /\ granted'[k] = granted[k] + 1
  <2>1. granted' = granted \/ (~Exceeds(k) /\ granted' = [granted EXCEPT ![k] = @ + 1])
    BY DEF Counts
  <2>2. ~Exceeds(k) => cache[k].value + 1 <= Limit
    BY CacheFields, KeyTypes DEF Exceeds
  <2> QED
    BY <2>1, <2>2 DEF CountersTypeOK
<1>4. CASE cache[k].present
  <2> DEFINE capped(v) == IF v <= Limit THEN v ELSE Limit
  <2>1. granted[k] + Limit <= Limit * lives[k] + capped(cache[k].value)
    BY <1>4 DEF Grants
  <2>2. /\ capped(cache[k].value) <= capped(cache'[k].value)
        /\ cache[k].value + 1 <= Limit => capped(cache'[k].value) = capped(cache[k].value) + 1
        /\ capped(cache[k].value) \in Nat /\ capped(cache'[k].value) \in Nat
    BY <1>1, <1>4, CacheFields, KeyTypes
  <2>3. lives'[k] = lives[k]
    BY <1>1, <1>4
  <2> HIDE DEF capped
  <2>4. granted'[k] + Limit <= Limit * lives'[k] + capped(cache'[k].value)
    BY <1>2, <1>3, <2>1, <2>2, <2>3, CacheFields, KeyTypes
  <2> QED
    BY <1>1, <2>4 DEF Grants, capped
<1>5. CASE ~cache[k].present
  <2>1. cache'[k].value = 1 /\ Limit * lives'[k] = Limit * lives[k] + Limit
        /\ granted[k] <= Limit * lives[k]
    BY <1>1, <1>2, <1>5 DEF Grants
  <2>2. granted'[k] = granted[k] \/ (1 <= Limit /\ granted'[k] = granted[k] + 1)
    BY <1>3, CacheFields, KeyTypes
  <2>3. CASE granted'[k] = granted[k]
    BY <1>1, <1>5, <2>1, <2>3, NewLife
  <2>4. CASE 1 <= Limit /\ granted'[k] = granted[k] + 1
    <3>1. /\ granted[k] \in Nat /\ Limit \in Nat /\ Limit * lives[k] \in Nat
          /\ Limit * lives'[k] = Limit * lives[k] + Limit
      BY <1>2, <2>1, CacheFields, KeyTypes
    <3> DEFINE before == Limit * lives[k]
               after == Limit * lives'[k]
    <3>2. granted[k] <= before /\ after = before + Limit /\ before \in Nat
      BY <2>1, <3>1
    <3> HIDE DEF before, after
    <3>3. granted'[k] + Limit <= after + 1
      BY <2>4, <3>1, <3>2
    <3> QED
      BY <1>1, <2>1, <2>4, <3>3 DEF Grants, after
  <2> QED
    BY <2>2, <2>3, <2>4
<1> QED
  BY <1>4, <1>5, CacheFields

LEMMA GrantsKept ==
  ASSUME NEW k, Grants(k), granted'[k] = granted[k], lives'[k] = lives[k],
         cache'[k].present = cache[k].present, cache'[k].value = cache[k].value
  PROVE  Grants(k)'
BY DEF Grants

LEMMA GrantsStep ==
  ASSUME CountersTypeOK, Workers, CountersNext, NEW k \in Keys, Grants(k)
  PROVE  Grants(k)'
<1>e. Effects
  BY StepEffects
<1>1. CASE Rests
  BY <1>1, GrantsKept DEF Rests
<1>2. ASSUME NEW r \in Requests, ReadAggregate(r) PROVE Grants(k)'
  BY <1>2, GrantsKept DEF ReadAggregate
<1>3. ASSUME NEW r \in Requests, Sets(r) PROVE Grants(k)'
  <2>1. /\ SetKey(r) /\ UNCHANGED granted /\ req[r].seen \in Nat
    BY <1>3, ReqFields DEF Sets
  <2>2. CASE k = req[r].key
    BY <2>1, <2>2, SetKeyFacts, NewLife
  <2>3. CASE k # req[r].key
    <3>1. PICK j : j = req[r].key
      OBVIOUS
    <3>2. OtherKeys(j) /\ lives' = [lives EXCEPT ![j] = @ + 1]
      BY <2>1, <3>1, SetKeyFacts
    <3>3. cache'[k] = cache[k] /\ lives'[k] = lives[k]
      BY <2>3, <3>1, <3>2 DEF OtherKeys, CountersTypeOK
    <3> QED
      BY <2>1, <3>3, GrantsKept
  <2> QED
    BY <2>2, <2>3
<1>4. ASSUME NEW j \in Keys, Expires(j) PROVE Grants(k)'
  <2>1. cache' = [cache EXCEPT ![j] = Missing] /\ UNCHANGED <<granted, lives>>
    BY <1>4 DEF Expires
  <2>2. CASE k = j
    <3>1. Limit * lives[k] \in Nat
      BY CacheFields, OneLifeMore
    <3>2. granted[k] <= Limit * lives[k]
      BY <3>1, CacheFields, KeyTypes DEF Grants
    <3> QED
      BY <2>1, <2>2, <3>2, MissingFacts DEF Grants
  <2>3. CASE k # j
    BY <2>1, <2>3, MissingFacts, GrantsKept DEF OtherKeys
  <2> QED
    BY <2>2, <2>3
<1>5. ASSUME NEW j \in Keys, Counts(j) PROVE Grants(k)'
  <2>1. CASE k = j
    BY <1>5, <2>1, CountsGrants
  <2>2. CASE k # j
    <3>1. cache'[k] = cache[k] /\ lives'[k] = lives[k]
      BY <1>5, <2>2, IncrByFacts DEF Counts, OtherKeys
    <3>2. granted'[k] = granted[k]
      BY <1>5, <2>2 DEF Counts, CountersTypeOK
    <3> QED
      BY <3>1, <3>2, GrantsKept
  <2> QED
    BY <2>1, <2>2
<1>6. ASSUME NEW j \in Keys, NEW ttl \in Ttl, Lasts(j, ttl) PROVE Grants(k)'
  BY <1>6, SetTtlFacts, GrantsKept DEF Lasts
<1>7. ASSUME NEW a \in Aggregators, Mirror(a) PROVE Grants(k)'
  <2>1. PICK j : j = PeriodKey(worker[a].event)
    OBVIOUS
  <2>2. j \in Keys /\ IncrBy(j) /\ UNCHANGED <<agg, granted>>
    BY <1>7, <2>1, WorkerKey DEF Mirror
  <2>3. CASE k # j
    BY <2>2, <2>3, IncrByFacts, GrantsKept DEF OtherKeys
  <2>4. CASE k = j /\ cache[k].present
    <3> DEFINE capped(v) == IF v <= Limit THEN v ELSE Limit
    <3>1. /\ cache'[k].present /\ cache'[k].value = cache[k].value + 1
          /\ lives'[k] = lives[k] /\ granted'[k] = granted[k]
      BY <2>2, <2>4, IncrByFacts
    <3>2. granted[k] + Limit <= Limit * lives[k] + capped(cache[k].value)
      BY <2>4 DEF Grants
    <3>3. /\ capped(cache[k].value) <= capped(cache'[k].value)
          /\ capped(cache[k].value) \in Nat /\ capped(cache'[k].value) \in Nat
      BY <3>1, CacheFields, KeyTypes
    <3>4. Limit * lives[k] \in Nat
      BY CacheFields, OneLifeMore
    <3> HIDE DEF capped
    <3>5. granted'[k] + Limit <= Limit * lives'[k] + capped(cache'[k].value)
      BY <3>1, <3>2, <3>3, <3>4, CacheFields, KeyTypes
    <3> QED
      BY <3>1, <3>5 DEF Grants, capped
  <2>5. CASE k = j /\ ~cache[k].present
    <3>1. /\ cache'[k].present /\ cache'[k].value = 1
          /\ lives'[k] = lives[k] + 1 /\ granted'[k] = granted[k]
      BY <2>2, <2>5, IncrByFacts
    <3> QED
      BY <3>1, NewLife
  <2> QED
    BY <2>3, <2>4, <2>5
<1>8. ASSUME NEW a \in Aggregators,
             Loses(a) \/ \E e \in Events : Upsert(a, e) PROVE Grants(k)'
  BY <1>8, GrantsKept DEF Loses, Upsert
<1> QED
  BY <1>e, <1>1, <1>2, <1>3, <1>4, <1>5, <1>6, <1>7, <1>8 DEF Effects

-----------------------------------------------------------------------------
(* Keys that nothing disturbed are exact *)

LEMMA UpsertWaiting ==
  ASSUME CountersTypeOK, NEW a \in Aggregators, NEW e \in Events, Upsert(a, e), NEW k \in Keys
  PROVE  Unmirrored(k)' = (IF k = PeriodKey(e) THEN Unmirrored(k) + 1 ELSE Unmirrored(k))
<1>1. /\ OtherWorkers(a) /\ worker[a].step # "mirror" /\ deployment' = deployment
      /\ worker'[a].step = "mirror" /\ worker'[a].event = e
  BY UpsertWorker DEF Upsert
<1>2. a \notin Waiting(k) /\ (a \in Waiting(k)' <=> k = PeriodKey(e))
  BY <1>1 DEF Waiting, PeriodKey
<1> QED
  BY <1>1, <1>2, WaitingMoves

LEMMA LeavesWaiting ==
  ASSUME NEW a \in Aggregators, worker[a].step = "mirror", worker'[a].step # "mirror",
         OtherWorkers(a), deployment' = deployment, NEW k \in Keys
  PROVE  IF k = PeriodKey(worker[a].event)
         THEN Unmirrored(k) >= 1 /\ Unmirrored(k)' = Unmirrored(k) - 1
         ELSE Unmirrored(k)' = Unmirrored(k)
<1>1. a \notin Waiting(k)' /\ (a \in Waiting(k) <=> k = PeriodKey(worker[a].event))
  BY DEF Waiting
<1> QED
  BY <1>1, WaitingMoves

\* What the row and the mirrors do, by key.
LEMMA RowStep ==
  ASSUME CountersTypeOK, Workers, Effects, NEW k \in Keys
  PROVE  /\ Unmirrored(k) \in Nat /\ Unmirrored(k)' \in Nat
         /\ \/ Sum(k)' = Sum(k) /\ Unmirrored(k)' = Unmirrored(k)
            \/ /\ Sum(k)' = Sum(k) + 1 /\ Unmirrored(k)' = Unmirrored(k) + 1
               /\ \E a \in Aggregators, e \in Events : Upsert(a, e)
               /\ Overtake(k)
            \/ /\ Sum(k)' = Sum(k) /\ Unmirrored(k)' = Unmirrored(k) - 1 /\ Unmirrored(k) >= 1
               /\ \E a \in Aggregators :
                    (Mirror(a) \/ Loses(a)) /\ k = PeriodKey(worker[a].event)
               /\ Overtake(k)
<1>n. Unmirrored(k) \in Nat /\ Unmirrored(k)' \in Nat
  BY WaitingCount, WaitingCountNext
<1>1. CASE Rests
  BY <1>1, <1>n DEF Rests, Sum
<1>2. CASE \E r \in Requests : ReadAggregate(r) \/ Sets(r)
  BY <1>2, <1>n, SameWorkers DEF ReadAggregate, Sets, Sum
<1>3. CASE \E j \in Keys : Expires(j) \/ Counts(j)
  BY <1>3, <1>n, SameWorkers DEF Expires, Counts, Sum
<1>4. CASE \E j \in Keys : \E ttl \in Ttl : Lasts(j, ttl)
  BY <1>4, <1>n DEF Lasts, Sum
<1>5. ASSUME NEW a \in Aggregators, Mirror(a) \/ Loses(a),
             Sum(k)' # Sum(k) \/ Unmirrored(k)' # Unmirrored(k)
      PROVE  /\ Sum(k)' = Sum(k) /\ Unmirrored(k)' = Unmirrored(k) - 1 /\ Unmirrored(k) >= 1
             /\ k = PeriodKey(worker[a].event) /\ Overtake(k)
  <2>1. /\ worker[a].step = "mirror" /\ worker'[a].step # "mirror" /\ OtherWorkers(a)
        /\ agg' = agg /\ deployment' = deployment /\ Sum(k)' = Sum(k)
    BY <1>5, GotoWorker DEF Mirror, Loses, Sum
  <2>2. k = PeriodKey(worker[a].event)
    BY <1>5, <2>1, LeavesWaiting
  <2>3. Overtake(PeriodKey(worker[a].event))
    BY <1>5 DEF Mirror, Loses, IncrBy
  <2>4. Overtake(k)
    BY <2>2, <2>3
  <2> QED
    BY <2>1, <2>2, <2>4, LeavesWaiting
<1>6. ASSUME NEW a \in Aggregators, NEW e \in Events, Upsert(a, e),
             Sum(k)' # Sum(k) \/ Unmirrored(k)' # Unmirrored(k)
      PROVE  /\ Sum(k)' = Sum(k) + 1 /\ Unmirrored(k)' = Unmirrored(k) + 1 /\ Overtake(k)
  <2>u. PICK s : s = deployment.subOf[e]
    OBVIOUS
  <2>1. k = PeriodKey(e)
    <3>1. PICK j : j = PeriodKey(e)
      OBVIOUS
    <3>2. k # j => Sum(k)' = Sum(k)
      BY <1>6, <2>u, <3>1, UpsertRow
    <3>3. k # j => Unmirrored(k)' = Unmirrored(k)
      BY <1>6, <3>1, UpsertWaiting
    <3> QED
      BY <1>6, <3>1, <3>2, <3>3
  <2>2. Sum(k)' = Sum(k) + 1
    BY <1>6, <2>u, <2>1, UpsertRow
  <2>3. Overtake(PeriodKey(e))
    BY <1>6 DEF Upsert
  <2> QED
    BY <1>6, <2>1, <2>2, <2>3, UpsertWaiting
<1> QED
  BY <1>n, <1>1, <1>2, <1>3, <1>4, <1>5, <1>6 DEF Effects

\* A request that is overtaken stays so until it reads again.
LEMMA OutdatedStep ==
  ASSUME Effects, NEW r \in Requests, r \in outdated, ~ReadAggregate(r)
  PROVE  r \in outdated'
BY DEF Effects, Rests, ReadAggregate, Sets, SetKey, Expires, Counts, IncrBy, Lasts, Mirror,
   Loses, Upsert, Overtake

\* A read that nothing overtook is the sum of the rows.
LEMMA FreshRead ==
  ASSUME CountersTypeOK, NEW r \in Requests, ReadAggregate(r), r \notin outdated',
         NEW k, k = req[r].key
  PROVE  /\ k \in Keys /\ Unmirrored(k) = 0 /\ req'[r].key = k /\ req'[r].seen = Sum(k)
         /\ agg' = agg
<1>1. k \in Keys /\ Unmirrored(k) \in Nat
  BY ReqFields, WaitingCount
<1>2. ~Overtaken(r)
  BY DEF ReadAggregate
<1>3. KeyOf(month) = k /\ ~(Unmirrored(k) > 0) /\ ~Split(k)
  BY <1>2 DEF Overtaken
<1>4. req'[r].key = k /\ req'[r].seen = Sum(k) /\ agg' = agg
  BY <1>3, ReadReq DEF ReadAggregate
<1> QED
  BY <1>1, <1>3, <1>4

LEMMA ReadsStep ==
  ASSUME CountersTypeOK, Workers, Exact, CountersNext,
         NEW r \in Requests, req'[r].step = "set", r \notin outdated',
         NEW k, k = req'[r].key
  PROVE  k \in Keys /\ req'[r].seen = Sum(k)' /\ Unmirrored(k)' = 0
<1>e. Effects
  BY StepEffects
<1>1. CASE ReadAggregate(r)
  <2>1. PICK j : j = req[r].key
    OBVIOUS
  <2>2. /\ j \in Keys /\ Unmirrored(j) = 0 /\ req'[r].key = j /\ req'[r].seen = Sum(j)
        /\ agg' = agg
    BY <1>1, <2>1, FreshRead
  <2>3. Sum(k)' = Sum(k) /\ Unmirrored(k)' = Unmirrored(k)
    BY <1>1, SameWorkers DEF ReadAggregate, Sum
  <2> QED
    BY <2>2, <2>3
<1>2. CASE ~ReadAggregate(r)
  <2>1. /\ req[r].step = "set" /\ req'[r].key = req[r].key /\ req'[r].seen = req[r].seen
        /\ req[r].key \in Keys
    BY <1>2, ReqStep, ReqFields
  <2>2. r \notin outdated
    BY <1>2, <1>e, OutdatedStep
  <2>3. k \in Keys /\ k = req[r].key
    BY <2>1
  <2>4. req[r].seen = Sum(k) /\ Unmirrored(k) = 0
    BY <2>1, <2>2, <2>3 DEF Exact
  <2>5. ~Overtake(k)
    BY <2>1, <2>3 DEF Overtake
  <2>6. Sum(k)' = Sum(k) /\ Unmirrored(k)' = Unmirrored(k)
    BY <1>e, <2>3, <2>5, RowStep
  <2> QED
    BY <2>1, <2>3, <2>4, <2>6
<1> QED
  BY <1>1, <1>2

\* Nothing happens to a key.
LEMMA ExactKept ==
  ASSUME Exact, NEW k \in Keys, cache'[k].present, k \notin disturbed',
         cache'[k].present = cache[k].present, cache'[k].value = cache[k].value,
         k \notin disturbed' => k \notin disturbed,
         Unmirrored(k)' = Unmirrored(k), Sum(k)' = Sum(k), consumed'[k] = consumed[k]
  PROVE  cache'[k].value + Unmirrored(k)' = Sum(k)' + consumed'[k]
BY DEF Exact, CounterExact

LEMMA CounterExactStep ==
  ASSUME CountersTypeOK, Workers, Exact, CountersNext,
         NEW k \in Keys, cache'[k].present, k \notin disturbed'
  PROVE  cache'[k].value + Unmirrored(k)' = Sum(k)' + consumed'[k]
<1> DEFINE Goal == cache'[k].value + Unmirrored(k)' = Sum(k)' + consumed'[k]
<1>e. Effects
  BY StepEffects
<1>n. /\ Sum(k) \in Nat /\ consumed[k] \in Nat /\ cache[k].value \in Nat
      /\ cache[k].present \in BOOLEAN
      /\ Unmirrored(k) \in Nat /\ Unmirrored(k)' \in Nat /\ Unmirrored(k) <= Sum(k)
  BY CacheFields, WaitingCount, WaitingCountNext DEF Exact
<1>x. cache[k].present /\ k \notin disturbed =>
        cache[k].value + Unmirrored(k) = Sum(k) + consumed[k]
  BY DEF Exact, CounterExact
<1>1. CASE Rests
  BY <1>1, ExactKept DEF Rests, Sum
<1>2. ASSUME NEW r \in Requests, ReadAggregate(r) PROVE Goal
  BY <1>2, ExactKept, SameWorkers DEF ReadAggregate, Sum
<1>3. ASSUME NEW r \in Requests, Sets(r) PROVE Goal
  <2>1. PICK j : j = req[r].key
    OBVIOUS
  <2>2. /\ j \in Keys /\ OtherKeys(j) /\ cache'[j].value = req[r].seen
        /\ consumed' = [consumed EXCEPT ![j] = 0]
        /\ disturbed' = (IF r \in outdated THEN disturbed \union {j} ELSE disturbed \ {j})
    BY <1>3, <2>1, SetKeyFacts DEF Sets
  <2>3. Sum(k)' = Sum(k) /\ Unmirrored(k)' = Unmirrored(k) /\ req[r].step = "set"
    BY <1>3, SameWorkers DEF Sets, Sum
  <2>4. CASE k = j
    <3>1. r \notin outdated
      BY <2>2, <2>4
    <3>2. req[r].seen = Sum(k) /\ Unmirrored(k) = 0
      BY <2>1, <2>3, <2>4, <3>1 DEF Exact
    <3>3. consumed'[k] = 0
      BY <2>2, <2>4 DEF CountersTypeOK
    <3> QED
      BY <1>n, <2>2, <2>3, <2>4, <3>2, <3>3
  <2>5. CASE k # j
    <3>1. /\ cache'[k] = cache[k] /\ consumed'[k] = consumed[k] /\ k \notin disturbed
      BY <2>2, <2>5 DEF OtherKeys, CountersTypeOK
    <3> QED
      BY <2>3, <3>1, ExactKept
  <2> QED
    BY <2>4, <2>5
<1>4. ASSUME NEW j \in Keys, Expires(j) PROVE Goal
  <2>1. OtherKeys(j) /\ ~cache'[j].present
    BY <1>4, MissingFacts DEF Expires
  <2>2. k # j /\ cache'[k] = cache[k]
    BY <2>1 DEF OtherKeys
  <2> QED
    BY <1>4, <2>2, ExactKept, SameWorkers DEF Expires, Sum
<1>5. ASSUME NEW j \in Keys, Counts(j) PROVE Goal
  <2>1. /\ OtherKeys(j)
        /\ cache'[j].value = (IF cache[j].present THEN cache[j].value + 1 ELSE 1)
        /\ Sum(k)' = Sum(k) /\ Unmirrored(k)' = Unmirrored(k)
    BY <1>5, IncrByFacts, SameWorkers DEF Counts, Sum
  <2>2. /\ consumed' = [consumed EXCEPT ![j] = IF cache[j].present THEN @ + 1 ELSE 1]
        /\ disturbed' = IF ~cache[j].present
                        THEN IF Sum(j) > Unmirrored(j) THEN disturbed \union {j}
                                                       ELSE disturbed \ {j}
                        ELSE disturbed
    BY <1>5 DEF Counts, Consumed
  <2>3. CASE k = j /\ cache[k].present
    <3>1. consumed'[k] = consumed[k] + 1 /\ k \notin disturbed
      BY <2>2, <2>3 DEF CountersTypeOK
    <3> QED
      BY <1>n, <1>x, <2>1, <2>3, <3>1
  <2>4. CASE k = j /\ ~cache[k].present
    <3>1. consumed'[k] = 1 /\ ~(Sum(k) > Unmirrored(k))
      BY <2>2, <2>4 DEF CountersTypeOK
    <3> QED
      BY <1>n, <2>1, <2>4, <3>1
  <2>5. CASE k # j
    <3>1. cache'[k] = cache[k] /\ consumed'[k] = consumed[k] /\ k \notin disturbed
      BY <2>1, <2>2, <2>5 DEF OtherKeys, CountersTypeOK
    <3> QED
      BY <2>1, <3>1, ExactKept
  <2> QED
    BY <1>n, <2>3, <2>4, <2>5
<1>6. ASSUME NEW j \in Keys, NEW ttl \in Ttl, Lasts(j, ttl) PROVE Goal
  BY <1>6, SetTtlFacts, ExactKept DEF Lasts, Sum
<1>7. ASSUME NEW a \in Aggregators, Mirror(a) PROVE Goal
  <2>1. PICK j : j = PeriodKey(worker[a].event)
    OBVIOUS
  <2>2. /\ j \in Keys /\ IncrBy(j) /\ Sum(k)' = Sum(k)
        /\ worker[a].step = "mirror" /\ worker'[a].step # "mirror" /\ OtherWorkers(a)
        /\ deployment' = deployment
    BY <1>7, <2>1, WorkerKey, GotoWorker DEF Mirror, Sum
  <2>3. /\ OtherKeys(j)
        /\ cache'[j].value = (IF cache[j].present THEN cache[j].value + 1 ELSE 1)
    BY <2>2, IncrByFacts
  <2>4. /\ consumed' = (IF cache[j].present THEN consumed ELSE [consumed EXCEPT ![j] = 0])
        /\ disturbed' = (IF cache[j].present THEN disturbed
                         ELSE IF Sum(j) > Unmirrored(j) THEN disturbed \union {j}
                         ELSE disturbed \ {j})
    BY <1>7, <2>1 DEF Mirror
  <2>5. IF k = j THEN Unmirrored(k) >= 1 /\ Unmirrored(k)' = Unmirrored(k) - 1
                 ELSE Unmirrored(k)' = Unmirrored(k)
    BY <2>1, <2>2, LeavesWaiting
  <2>6. CASE k = j /\ cache[k].present
    BY <1>n, <1>x, <2>2, <2>3, <2>4, <2>5, <2>6
  <2>7. CASE k = j /\ ~cache[k].present
    <3>1. consumed'[k] = 0 /\ ~(Sum(k) > Unmirrored(k))
      BY <2>4, <2>7 DEF CountersTypeOK
    <3> QED
      BY <1>n, <2>2, <2>3, <2>5, <2>7, <3>1
  <2>8. CASE k # j
    <3>1. cache'[k] = cache[k] /\ consumed'[k] = consumed[k] /\ k \notin disturbed
      BY <2>3, <2>4, <2>8 DEF OtherKeys, CountersTypeOK
    <3> QED
      BY <2>2, <2>5, <2>8, <3>1, ExactKept
  <2> QED
    BY <1>n, <2>6, <2>7, <2>8
<1>8. ASSUME NEW a \in Aggregators, Loses(a) PROVE Goal
  <2>1. k # PeriodKey(worker[a].event) /\ k \notin disturbed
    BY <1>8 DEF Loses, Disturb
  <2>2. Unmirrored(k)' = Unmirrored(k)
    BY <1>8, <2>1, LeavesWaiting DEF Loses
  <2> QED
    BY <1>8, <2>1, <2>2, ExactKept DEF Loses, Sum
<1>9. ASSUME NEW a \in Aggregators, NEW e \in Events, Upsert(a, e) PROVE Goal
  <2>1. UNCHANGED <<cache, consumed, disturbed>>
    BY <1>9 DEF Upsert
  <2>s. PICK s : s = deployment.subOf[e]
    OBVIOUS
  <2>j. PICK j : j = PeriodKey(e)
    OBVIOUS
  <2>2. CASE k = j
    <3>1. Sum(k)' = Sum(k) + 1 /\ Unmirrored(k)' = Unmirrored(k) + 1
      BY <1>9, <2>s, <2>j, <2>2, UpsertRow, UpsertWaiting
    <3> QED
      BY <1>n, <1>x, <2>1, <3>1
  <2>3. CASE k # j
    <3>1. Sum(k)' = Sum(k) /\ Unmirrored(k)' = Unmirrored(k)
      BY <1>9, <2>s, <2>j, <2>3, UpsertRow, UpsertWaiting
    <3> QED
      BY <2>1, <3>1, ExactKept
  <2> QED
    BY <2>2, <2>3
<1> QED
  BY <1>e, <1>1, <1>2, <1>3, <1>4, <1>5, <1>6, <1>7, <1>8, <1>9 DEF Effects

LEMMA ExactStep ==
  ASSUME CountersTypeOK, Workers, Exact, CountersNext PROVE Exact'
<1>e. Effects
  BY StepEffects
<1>1. ASSUME NEW k \in Keys PROVE Unmirrored(k)' <= Sum(k)'
  <2>1. Sum(k) \in Nat /\ Unmirrored(k) \in Nat /\ Unmirrored(k) <= Sum(k)
    BY CacheFields, WaitingCount DEF Exact
  <2> QED
    BY <1>e, <2>1, RowStep
<1>2. CounterExact'
  BY CounterExactStep DEF CounterExact
<1>3. ASSUME NEW r \in Requests, req'[r].step = "set", r \notin outdated'
      PROVE  (req[r].seen = Sum(req[r].key) /\ Unmirrored(req[r].key) = 0)'
  <2>1. PICK k : k = req'[r].key
    OBVIOUS
  <2>2. Unmirrored(k)' = 0 /\ req'[r].seen = Sum(k)'
    BY <1>3, <2>1, ReadsStep
  <2> QED
    BY <2>1, <2>2 DEF Unmirrored, Sum
<1> QED
  BY <1>1, <1>2, <1>3 DEF Exact

LEMMA CountersInvInit == CountersInit => CountersInv
<1> SUFFICES ASSUME CountersInit PROVE CountersInv
  OBVIOUS
<1>1. CountersTypeOK /\ Workers
  BY CountersTypesInit
<1>2. ~Missing.present /\ Ready.step = "idle" /\ IdleWorker.step = "idle"
  BY DEF Missing, Ready, IdleWorker
<1>3. ASSUME NEW k \in Keys PROVE Unmirrored(k) = 0 /\ Sum(k) = 0 /\ ~cache[k].present
  <2>1. Waiting(k) = {}
    BY <1>2 DEF CountersInit, Waiting
  <2> QED
    BY <1>2, <2>1, WaitingCount, FS_EmptySet DEF CountersInit, Sum, Subscriptions
<1>4. ASSUME NEW k \in Keys PROVE Grants(k)
  <2>1. granted[k] = 0 /\ Limit * lives[k] \in Nat
    BY <1>1, CacheFields, OneLifeMore DEF CountersInit
  <2> QED
    BY <1>3, <2>1 DEF Grants
<1>5. Exact
  BY <1>2, <1>3 DEF Exact, CounterExact, CountersInit
<1> QED
  BY <1>1, <1>4, <1>5 DEF CountersInv

LEMMA CountersInvStep == CountersInv /\ CountersNext => CountersInv'
<1> SUFFICES ASSUME CountersInv, CountersNext PROVE CountersInv'
  OBVIOUS
<1>1. CountersTypeOK' /\ Workers'
  BY CountersTypesStep DEF CountersInv
<1>2. (\A k \in Keys : Grants(k))'
  BY GrantsStep DEF CountersInv
<1>3. Exact'
  BY ExactStep DEF CountersInv
<1> QED
  BY <1>1, <1>2, <1>3 DEF CountersInv

-----------------------------------------------------------------------------
(* The row and the events it adds up *)

LEMMA AddedCount ==
  /\ IsFiniteSet(Added) /\ Cardinality(Added) \in Nat /\ Added \subseteq Events
  /\ IsFiniteSet(Added)' /\ Cardinality(Added)' \in Nat
<1>1. Added \subseteq Events /\ Added' \subseteq Events
  BY DEF Added
<1>2. IsFiniteSet(Added) /\ IsFiniteSet(Added)'
  BY <1>1, FS_Subset, CountersAssumption
<1> QED
  BY <1>1, <1>2, FS_CardinalityType

\* What the sum adds up has been added to the row.
LEMMA SummedCount ==
  ASSUME CountersTypeOK, Rows
  PROVE  Cardinality(Summed) \in Nat /\ Cardinality(Summed) <= Cardinality(Added)
<1>1. Summed \subseteq Added
  BY DeploymentTypes DEF Summed, Added, Rows
<1> QED
  BY <1>1, AddedCount, FS_Subset, FS_CardinalityType

\* A row is there for an event of its subscription.
LEMMA OwnersStep ==
  ASSUME CountersTypeOK, Rows, NEW a \in Aggregators, NEW e \in Events, Upsert(a, e),
         NEW k \in Keys, NEW s \in Subscriptions, agg'[k][s] > 0
  PROVE  \E d \in Events : deployment.subOf[d] = s
<1>1. PICK j : j = PeriodKey(e)
  OBVIOUS
<1>2. PICK x : x = deployment.subOf[e]
  OBVIOUS
<1>3. CASE k = j /\ s = x
  BY <1>2, <1>3
<1>4. CASE ~(k = j /\ s = x)
  <2>1. /\ \A i \in Keys \ {j} : agg'[i] = agg[i]
        /\ \A y \in Subscriptions \ {x} : agg'[j][y] = agg[j][y]
    BY <1>1, <1>2, UpsertRow
  <2>2. agg'[k][s] = agg[k][s]
    BY <1>4, <2>1
  <2> QED
    BY <2>2 DEF Rows
<1> QED
  BY <1>3, <1>4

LEMMA RowsStep ==
  ASSUME CountersTypeOK, Workers, Rows, CountersNext
  PROVE  /\ Rows' /\ (Drift => Drift') /\ (AllFirst' <=> AllFirst)
         /\ AllFirst => Sum(0) \in Nat /\ Sum(0)' \in Nat /\ Sum(0) <= Sum(0)'
<1>f. deployment' = deployment /\ (AllFirst' <=> AllFirst)
  BY FrameStep DEF AllFirst
<1>z. 0 \in Keys /\ Sum(0) \in Nat /\ Sum(0)' \in Nat
  <2>1. CountersTypeOK' /\ 0 \in Keys
    BY CountersTypesStep, KeyTypes
  <2>2. agg'[0]["old"] \in Nat /\ agg'[0]["new"] \in Nat
    BY <2>1 DEF CountersTypeOK, Subscriptions
  <2> QED
    BY <2>1, <2>2, CacheFields DEF Sum
<1>a. \A e \in Events : applied[e] \in Nat
  BY DEF CountersTypeOK
<1>1. CASE UNCHANGED <<agg, applied, eventStatus>>
  BY <1>1, <1>f, <1>z DEF Rows, Drift, Added, Sum
<1>2. ASSUME NEW a \in Aggregators, Mark(a)
      PROVE  /\ UNCHANGED <<agg, applied>>
             /\ \A e \in Events : eventStatus'[e] = "AGGREGATED" => applied'[e] >= 1
  <2>1. worker[a].event \in Events /\ applied[worker[a].event] >= 1
    BY <1>2, WorkerKey DEF Mark
  <2> QED
    BY <1>2, <2>1 DEF Mark, Rows, CountersTypeOK
<1>3. ASSUME NEW a \in Aggregators, NEW e \in Events, Upsert(a, e)
      PROVE  Rows' /\ (Drift => Drift') /\ (AllFirst => Sum(0) <= Sum(0)')
  <2>s. PICK s : s = deployment.subOf[e]
    OBVIOUS
  <2>1. /\ applied'[e] = applied[e] + 1 /\ \A d \in Events \ {e} : applied'[d] = applied[d]
        /\ eventStatus' = eventStatus
    BY <1>3, <2>s, UpsertRow DEF Upsert
  <2>2. \A d \in Events : eventStatus'[d] = "AGGREGATED" => applied'[d] >= 1
    BY <1>a, <2>1 DEF Rows
  <2>3. Added' = Added \union {e} /\ (e \in Added <=> applied[e] >= 1)
    BY <1>a, <2>1 DEF Added
  <2>4. Drift' <=> Drift \/ applied[e] >= 1
    BY <1>a, <2>1 DEF Drift
  <2>5. ASSUME AllFirst
        PROVE  /\ Sum(0)' = Sum(0) + 1
               /\ IF Drift' THEN Sum(0)' > Cardinality(Added') ELSE Sum(0)' = Cardinality(Added')
    <3>1. 0 = PeriodKey(e)
      BY <2>5 DEF AllFirst, PeriodKey
    <3>2. Sum(0)' = Sum(0) + 1
      BY <1>3, <2>s, <3>1, UpsertRow
    <3>3. Cardinality(Added') = IF e \in Added THEN Cardinality(Added)
                                              ELSE Cardinality(Added) + 1
      BY <2>3, AddedCount, FS_AddElement
    <3>4. IF Drift THEN Sum(0) > Cardinality(Added) ELSE Sum(0) = Cardinality(Added)
      BY <2>5 DEF Rows
    <3> QED
      BY <1>z, <2>3, <2>4, <3>2, <3>3, <3>4, AddedCount
  <2>6. \A k \in Keys, x \in Subscriptions :
          agg'[k][x] > 0 => \E d \in Events : deployment'.subOf[d] = x
    BY <1>3, <1>f, OwnersStep
  <2> QED
    BY <1>f, <1>z, <2>2, <2>4, <2>5, <2>6 DEF Rows
<1> QED
  <2>1. ASSUME NEW a \in Aggregators, Mark(a)
        PROVE  Rows' /\ (Drift => Drift') /\ Sum(0) <= Sum(0)'
    BY <1>2, <1>f, <1>z, <2>1 DEF Rows, Drift, Added, Sum
  <2> QED
    BY <1>1, <1>3, <1>f, <1>z, <2>1, EventStep

\* Only the number of faults changes.
LEMMA OnlyFaults ==
  ASSUME CountersTypeOK, NEW kind, ReconFault(kind)
  PROVE  /\ CountersTypeOK' /\ (CountersInv => CountersInv')
         /\ UNCHANGED <<month, agg, applied, eventStatus, deployment>>
<1>1. faults' \in 0 .. MaxFaults
  BY CountersAssumption DEF ReconFault, Fault, CountersTypeOK
<1>2. CountersTypeOK'
  BY <1>1 DEF ReconFault, CountersTypeOK
<1>3. (Workers => Workers') /\ \A k \in Keys : Grants(k) => Grants(k)'
  BY DEF ReconFault, Workers, Grants
<1>4. Exact => Exact'
  BY SameWorkers DEF ReconFault, Exact, CounterExact, Unmirrored, PeriodKey, Sum
<1> QED
  BY <1>2, <1>3, <1>4 DEF CountersInv, ReconFault

LEMMA SameCounters ==
  ASSUME UNCHANGED counterVars, CountersInv PROVE CountersInv'
<1>1. (CountersTypeOK => CountersTypeOK') /\ (Workers => Workers')
  BY DEF counterVars, CountersTypeOK, Workers
<1>2. \A k \in Keys : Grants(k) => Grants(k)'
  BY DEF counterVars, Grants
<1>3. Exact => Exact'
  BY DEF counterVars, Exact, CounterExact, Unmirrored, PeriodKey, Sum
<1> QED
  BY <1>1, <1>2, <1>3 DEF CountersInv

-----------------------------------------------------------------------------
(* What the steps do to the runs *)

RunRow == [status : {"NONE", "RUNNING", "COMPLETED", "FAILED"},
           step : {"none", "find", "sum", "read", "compare", "complete", "over"},
           month : Months, expected : Nat, actual : Nat, issue : IssueStatus]

OtherRuns(n) == \A q \in Runs \ {n} : run'[q] = run[q]

LEMMA RunFields ==
  ASSUME ReconTypeOK, NEW n \in Runs
  PROVE  /\ run \in [Runs -> RunRow] /\ run[n] \in RunRow
         /\ run[n].status \in {"NONE", "RUNNING", "COMPLETED", "FAILED"}
         /\ run[n].step \in {"none", "find", "sum", "read", "compare", "complete", "over"}
         /\ run[n].month \in Months /\ run[n].month \in Keys
         /\ run[n].expected \in Nat /\ run[n].actual \in Nat /\ run[n].issue \in IssueStatus
BY KeyTypes DEF ReconTypeOK, RunRow

\* A run has these values now.
RunIs(n, status, step, m, expected, actual, issue) ==
    /\ run' \in [Runs -> RunRow] /\ OtherRuns(n)
    /\ run'[n].status = status /\ run'[n].step = step /\ run'[n].month = m
    /\ run'[n].expected = expected /\ run'[n].actual = actual /\ run'[n].issue = issue

LEMMA StartIs ==
  ASSUME ReconTypeOK, NEW n \in Runs, StartRun(n)
  PROVE  RunIs(n, "RUNNING", "find", month, 0, 0, "NONE")
<1> DEFINE row == [run[n] EXCEPT !.status = "RUNNING", !.step = "find", !.month = month]
<1>1. run[n] = NoRun /\ run[n] \in RunRow /\ month \in Months
  BY RunFields DEF StartRun, ReconTypeOK, CountersTypeOK
<1>2. /\ NoRun.expected = 0 /\ NoRun.actual = 0 /\ NoRun.issue = "NONE"
  BY DEF NoRun
<1>3. /\ row \in RunRow /\ row.status = "RUNNING" /\ row.step = "find" /\ row.month = month
      /\ row.expected = run[n].expected /\ row.actual = run[n].actual
      /\ row.issue = run[n].issue
  BY <1>1 DEF RunRow
<1>4. run' = [run EXCEPT ![n] = row]
  BY RunFields DEF StartRun
<1> HIDE DEF row
<1> QED
  BY <1>1, <1>2, <1>3, <1>4, RunFields DEF RunIs, OtherRuns

LEMMA FindIs ==
  ASSUME ReconTypeOK, NEW n \in Runs, FindTenants(n)
  PROVE  RunIs(n, run[n].status, IF live THEN "sum" ELSE "complete", run[n].month,
               run[n].expected, run[n].actual, run[n].issue)
<1> DEFINE step == IF live THEN "sum" ELSE "complete"
           row == [run[n] EXCEPT !.step = step]
<1>1. step \in {"sum", "complete"}
  OBVIOUS
<1>2. run' = [run EXCEPT ![n] = row]
  BY RunFields DEF FindTenants
<1> HIDE DEF step
<1>3. /\ row \in RunRow /\ row.status = run[n].status /\ row.step = step
      /\ row.month = run[n].month /\ row.expected = run[n].expected
      /\ row.actual = run[n].actual /\ row.issue = run[n].issue
  BY <1>1, RunFields DEF RunRow
<1> HIDE DEF row
<1> QED
  BY <1>2, <1>3, RunFields DEF RunIs, OtherRuns, step

LEMMA SumIs ==
  ASSUME ReconTypeOK, Rows, NEW n \in Runs, SumEvents(n)
  PROVE  RunIs(n, run[n].status, "read", run[n].month, Cardinality(Summed), run[n].actual,
               run[n].issue)
<1> DEFINE sum == Cardinality(Summed)
           row == [run[n] EXCEPT !.step = "read", !.expected = sum]
<1>1. sum \in Nat
  BY SummedCount DEF ReconTypeOK
<1>2. run' = [run EXCEPT ![n] = row]
  BY RunFields DEF SumEvents
<1> HIDE DEF sum
<1>3. /\ row \in RunRow /\ row.status = run[n].status /\ row.step = "read"
      /\ row.month = run[n].month /\ row.expected = sum /\ row.actual = run[n].actual
      /\ row.issue = run[n].issue
  BY <1>1, RunFields DEF RunRow
<1> HIDE DEF row
<1> QED
  BY <1>2, <1>3, RunFields DEF RunIs, OtherRuns, sum

LEMMA ReadIs ==
  ASSUME ReconTypeOK, NEW n \in Runs, NEW amount \in SomeRow(run[n].month),
         run' = [run EXCEPT ![n].step = "compare", ![n].actual = amount]
  PROVE  RunIs(n, run[n].status, "compare", run[n].month, run[n].expected, amount, run[n].issue)
<1> DEFINE row == [run[n] EXCEPT !.step = "compare", !.actual = amount]
<1>1. amount \in Nat
  BY RunFields, SomeRowFacts DEF ReconTypeOK
<1>2. run' = [run EXCEPT ![n] = row]
  BY RunFields
<1>3. /\ row \in RunRow /\ row.status = run[n].status /\ row.step = "compare"
      /\ row.month = run[n].month /\ row.expected = run[n].expected /\ row.actual = amount
      /\ row.issue = run[n].issue
  BY <1>1, RunFields DEF RunRow
<1> HIDE DEF row
<1> QED
  BY <1>2, <1>3, RunFields DEF RunIs, OtherRuns

\* In the first month there is one row, of the one subscription.
LEMMA OnlyRow ==
  ASSUME CountersTypeOK, Rows, OneSubscription, NEW amount \in SomeRow(0)
  PROVE  amount = Sum(0)
<1>1. 0 \in Keys
  BY KeyTypes
<1>2. ~Split(0)
  <2> SUFFICES ASSUME agg[0]["old"] > 0, agg[0]["new"] > 0 PROVE FALSE
    BY DEF Split
  <2>1. /\ \E e \in Events : deployment.subOf[e] = "old"
        /\ \E e \in Events : deployment.subOf[e] = "new"
    BY <1>1 DEF Rows, Subscriptions
  <2> QED
    BY <2>1 DEF OneSubscription
<1> QED
  BY <1>1, <1>2, SomeRowFacts

LEMMA CompareIs ==
  ASSUME ReconTypeOK, NEW n \in Runs, Compare(n)
  PROVE  RunIs(n, run[n].status, "complete", run[n].month, run[n].expected, run[n].actual,
               IF Differs(n) THEN "OPEN" ELSE run[n].issue)
<1> DEFINE issue == IF Differs(n) THEN "OPEN" ELSE run[n].issue
           row == [run[n] EXCEPT !.step = "complete", !.issue = issue]
<1>1. issue \in IssueStatus
  BY RunFields DEF IssueStatus
<1>2. run' = [run EXCEPT ![n] = row]
  BY RunFields DEF Compare
<1> HIDE DEF issue
<1>3. /\ row \in RunRow /\ row.status = run[n].status /\ row.step = "complete"
      /\ row.month = run[n].month /\ row.expected = run[n].expected
      /\ row.actual = run[n].actual /\ row.issue = issue
  BY <1>1, RunFields DEF RunRow
<1> HIDE DEF row
<1> QED
  BY <1>2, <1>3, RunFields DEF RunIs, OtherRuns, issue

\* A run ends, in one way or another.
LEMMA OverIs ==
  ASSUME ReconTypeOK, NEW n \in Runs, NEW status \in {"NONE", "RUNNING", "COMPLETED", "FAILED"},
         run' = [run EXCEPT ![n].step = "over", ![n].status = status]
  PROVE  RunIs(n, status, "over", run[n].month, run[n].expected, run[n].actual, run[n].issue)
<1> DEFINE row == [run[n] EXCEPT !.step = "over", !.status = status]
<1>1. run' = [run EXCEPT ![n] = row]
  BY RunFields
<1>2. /\ row \in RunRow /\ row.status = status /\ row.step = "over"
      /\ row.month = run[n].month /\ row.expected = run[n].expected
      /\ row.actual = run[n].actual /\ row.issue = run[n].issue
  BY RunFields DEF RunRow
<1> HIDE DEF row
<1> QED
  BY <1>1, <1>2, RunFields DEF RunIs, OtherRuns

LEMMA CrashIs ==
  ASSUME ReconTypeOK, NEW n \in Runs, RunCrashes(n)
  PROVE  RunIs(n, run[n].status, "over", run[n].month, run[n].expected, run[n].actual,
               run[n].issue)
<1> DEFINE row == [run[n] EXCEPT !.step = "over"]
<1>1. run' = [run EXCEPT ![n] = row]
  BY RunFields DEF RunCrashes
<1>2. /\ row \in RunRow /\ row.status = run[n].status /\ row.step = "over"
      /\ row.month = run[n].month /\ row.expected = run[n].expected
      /\ row.actual = run[n].actual /\ row.issue = run[n].issue
  BY RunFields DEF RunRow
<1> HIDE DEF row
<1> QED
  BY <1>1, <1>2, RunFields DEF RunIs, OtherRuns

LEMMA IssueIs ==
  ASSUME ReconTypeOK, NEW n \in Runs, NEW s \in {"ACKNOWLEDGED", "RESOLVED"}, SetIssue(n, s)
  PROVE  RunIs(n, run[n].status, run[n].step, run[n].month, run[n].expected, run[n].actual, s)
<1> DEFINE row == [run[n] EXCEPT !.issue = s]
<1>1. run' = [run EXCEPT ![n] = row]
  BY RunFields DEF SetIssue
<1>2. /\ row \in RunRow /\ row.status = run[n].status /\ row.step = run[n].step
      /\ row.month = run[n].month /\ row.expected = run[n].expected
      /\ row.actual = run[n].actual /\ row.issue = s
  BY RunFields DEF RunRow, IssueStatus
<1> HIDE DEF row
<1> QED
  BY <1>1, <1>2, RunFields DEF RunIs, OtherRuns

-----------------------------------------------------------------------------
(* The reports *)

\* A step of one run.
LEMMA OneRun ==
  ASSUME ReconInv, NEW n \in Runs, run' \in [Runs -> RunRow], OtherRuns(n), CountersInv',
         UNCHANGED <<agg, applied, eventStatus, deployment>>,
         skipped' \subseteq Runs, drifted' \subseteq Runs, shaken' \subseteq Runs,
         \A q \in Runs \ {n} : /\ q \in skipped' <=> q \in skipped
                               /\ q \in drifted' <=> q \in drifted
                               /\ q \in shaken' <=> q \in shaken,
         Sees(n)'
  PROVE  ReconInv'
<1>1. ReconTypeOK' /\ Rows'
  BY DEF ReconInv, ReconTypeOK, CountersInv, RunRow, Rows, Drift, Added, AllFirst, Sum
<1>2. ASSUME NEW q \in Runs \ {n} PROVE Sees(q)'
  BY <1>2 DEF ReconInv, OtherRuns, Sees, ShapeOf, SeesDrift, SeesNone, FirstMonth, Drift, Sum
<1> QED
  BY <1>1, <1>2 DEF ReconInv

\* While the counters move, a run's sum falls behind the row further, or it is shaken.
LEMMA CountingStep == ReconInv /\ Counting => ReconInv'
<1> SUFFICES ASSUME ReconInv, Counting PROVE ReconInv'
  OBVIOUS
<1>1. /\ CountersInv' /\ CountersTypeOK /\ Workers /\ CountersNext
      /\ UNCHANGED <<run, skipped, drifted>>
      /\ shaken' = IF <<agg, eventStatus>>' # <<agg, eventStatus>>
                   THEN shaken \union {n \in Runs : run[n].step = "read"} ELSE shaken
  BY CountersInvStep DEF Counting, ReconInv, CountersInv
<1>2. /\ Rows' /\ (Drift => Drift') /\ (AllFirst' <=> AllFirst)
      /\ AllFirst => Sum(0) \in Nat /\ Sum(0)' \in Nat /\ Sum(0) <= Sum(0)'
      /\ deployment' = deployment
  BY <1>1, RowsStep, FrameStep DEF ReconInv
<1>3. ReconTypeOK'
  BY <1>1 DEF ReconInv, ReconTypeOK, CountersInv
<1>4. ASSUME NEW n \in Runs PROVE Sees(n)'
  <2>1. FirstMonth(n)' => FirstMonth(n) /\ AllFirst
    BY <1>1, <1>2 DEF FirstMonth, AllFirst
  <2>2. ShapeOf(n)'
    BY <1>1 DEF ReconInv, Sees, ShapeOf
  <2>3. SeesDrift(n)'
    <3>1. run[n].expected \in Nat
      BY RunFields DEF ReconInv
    <3>2. SeesDrift(n)
      BY DEF ReconInv, Sees
    <3> QED
      BY <1>1, <1>2, <2>1, <3>1, <3>2 DEF SeesDrift
  <2>4. SeesNone(n)'
    <3>1. run[n].step = "read" /\ n \notin shaken' => Sum(0)' = Sum(0)
      BY <1>1 DEF Sum
    <3>2. SeesNone(n) /\ (n \in shaken => n \in shaken')
      BY <1>1 DEF ReconInv, Sees
    <3> QED
      BY <1>1, <1>2, <2>1, <3>1, <3>2 DEF SeesNone
  <2> QED
    BY <2>2, <2>3, <2>4 DEF Sees
<1> QED
  BY <1>1, <1>2, <1>3, <1>4 DEF ReconInv

LEMMA SameRow ==
  ASSUME UNCHANGED counterVars
  PROVE  UNCHANGED <<month, agg, applied, eventStatus, deployment>>
BY DEF counterVars

LEMMA StartStep == ASSUME ReconInv, NEW n \in Runs, StartRun(n) PROVE ReconInv'
<1>1. RunIs(n, "RUNNING", "find", month, 0, 0, "NONE")
  BY StartIs DEF ReconInv
<1>2. /\ CountersInv' /\ UNCHANGED <<agg, applied, eventStatus, deployment>>
      /\ shaken' = shaken /\ skipped' = skipped
      /\ drifted' = IF Drift THEN drifted \union {n} ELSE drifted
  BY SameCounters, SameRow DEF ReconInv, StartRun
<1>3. n \notin drifted \/ n \in skipped \/ ~FirstMonth(n)' \/ Drift
  <2>1. run[n].month = 0 /\ (n \in drifted \ skipped /\ FirstMonth(n) => Drift)
    BY DEF StartRun, NoRun, ReconInv, Sees, SeesDrift
  <2> QED
    BY <1>2, <2>1 DEF FirstMonth
<1>4. Sees(n)'
  BY <1>1, <1>2, <1>3 DEF RunIs, Sees, ShapeOf, SeesDrift, SeesNone, Drift, Sum
<1> QED
  BY <1>1, <1>2, <1>4, OneRun DEF RunIs, ReconInv, ReconTypeOK

\* A tenant that is not found is not looked at: the run claims nothing.
LEMMA FindStep == ASSUME ReconInv, NEW n \in Runs, FindTenants(n) PROVE ReconInv'
<1>1. RunIs(n, run[n].status, IF live THEN "sum" ELSE "complete", run[n].month, run[n].expected,
            run[n].actual, run[n].issue)
  BY FindIs DEF ReconInv
<1>2. /\ CountersInv' /\ UNCHANGED <<agg, applied, eventStatus, deployment>>
      /\ drifted' = drifted /\ shaken' = shaken /\ run[n].step = "find"
      /\ skipped' = IF live THEN skipped ELSE skipped \union {n}
  BY SameCounters, SameRow DEF ReconInv, FindTenants
<1>3. ShapeOf(n) /\ SeesDrift(n) /\ SeesNone(n)
  BY DEF ReconInv, Sees
<1>4. /\ FirstMonth(n)' <=> FirstMonth(n)
      /\ Drift' <=> Drift
  BY <1>1, <1>2 DEF RunIs, FirstMonth, Drift
<1>5. /\ run'[n].step \in {"sum", "complete"} /\ run'[n].status = "RUNNING"
      /\ run'[n].issue = "NONE" /\ (run'[n].step = "complete" => n \in skipped')
  BY <1>1, <1>2, <1>3 DEF RunIs, ShapeOf
<1>6. Sees(n)'
  BY <1>2, <1>3, <1>4, <1>5 DEF ShapeOf, SeesDrift, SeesNone, Sees
<1> QED
  BY <1>1, <1>2, <1>6, OneRun DEF RunIs, ReconInv, ReconTypeOK

LEMMA SumStep == ASSUME ReconInv, NEW n \in Runs, SumEvents(n) PROVE ReconInv'
<1>1. RunIs(n, run[n].status, "read", run[n].month, Cardinality(Summed), run[n].actual,
            run[n].issue)
  BY SumIs DEF ReconInv
<1>2. /\ CountersInv' /\ UNCHANGED <<agg, applied, eventStatus, deployment>>
      /\ drifted' = drifted /\ skipped' = skipped /\ run[n].step = "sum"
      /\ shaken' = IF \E e \in Events : eventStatus[e] = "VALIDATED" /\ applied[e] > 0
                   THEN shaken \union {n} ELSE shaken
  BY SameCounters, SameRow DEF ReconInv, SumEvents
<1>3. /\ Cardinality(Summed) \in Nat /\ Cardinality(Summed) <= Cardinality(Added)
      /\ Cardinality(Added) \in Nat /\ Sum(0) \in Nat
      /\ AllFirst => IF Drift THEN Sum(0) > Cardinality(Added) ELSE Sum(0) = Cardinality(Added)
  BY SummedCount, AddedCount, KeyTypes, CacheFields DEF ReconInv, ReconTypeOK, Rows
<1>4. deployment.sourced = Events /\ n \notin shaken' => Summed = Added
  <2>1. \A e \in Events : applied[e] \in Nat /\ eventStatus[e] \in {"VALIDATED", "AGGREGATED"}
    BY DEF ReconInv, ReconTypeOK, CountersTypeOK
  <2> QED
    BY <1>2, <2>1 DEF Summed, Added, ReconInv, Rows
<1>5. ShapeOf(n) /\ SeesDrift(n) /\ SeesNone(n)
  BY DEF ReconInv, Sees
<1>6. /\ FirstMonth(n)' <=> FirstMonth(n)
      /\ Drift' <=> Drift
      /\ FirstMonth(n) => AllFirst
      /\ Sum(0)' = Sum(0)
  BY <1>1, <1>2 DEF RunIs, FirstMonth, Drift, AllFirst, Sum
<1>7. SeesDrift(n)'
  BY <1>1, <1>2, <1>3, <1>5, <1>6 DEF RunIs, ShapeOf, SeesDrift
<1>8. SeesNone(n)'
  BY <1>1, <1>2, <1>3, <1>4, <1>5, <1>6 DEF RunIs, ShapeOf, SeesNone
<1>9. ShapeOf(n)'
  BY <1>1, <1>2, <1>5 DEF RunIs, ShapeOf
<1> QED
  BY <1>1, <1>2, <1>7, <1>8, <1>9, OneRun DEF RunIs, ReconInv, ReconTypeOK, Sees

LEMMA ReadStep == ASSUME ReconInv, NEW n \in Runs, ReadRow(n) PROVE ReconInv'
<1>0. PICK amount \in SomeRow(run[n].month) :
        run' = [run EXCEPT ![n].step = "compare", ![n].actual = amount]
  BY DEF ReadRow
<1>1. RunIs(n, run[n].status, "compare", run[n].month, run[n].expected, amount, run[n].issue)
  BY <1>0, ReadIs DEF ReconInv
<1>2. /\ CountersInv' /\ UNCHANGED <<agg, applied, eventStatus, deployment>>
      /\ drifted' = drifted /\ skipped' = skipped /\ run[n].step = "read" /\ shaken' = shaken
  BY SameCounters, SameRow DEF ReconInv, ReadRow
<1>3. ShapeOf(n) /\ SeesDrift(n) /\ SeesNone(n)
  BY DEF ReconInv, Sees
<1>4. /\ FirstMonth(n)' <=> FirstMonth(n)
      /\ Drift' <=> Drift
  BY <1>1, <1>2 DEF RunIs, FirstMonth, Drift
<1>5. FirstMonth(n) => amount = Sum(0)
  <2>1. FirstMonth(n) => run[n].month = 0 /\ OneSubscription
    BY DEF FirstMonth, OneSubscription
  <2> QED
    BY <1>0, <2>1, OnlyRow DEF ReconInv, ReconTypeOK
<1>6. Sees(n)'
  BY <1>1, <1>2, <1>3, <1>4, <1>5 DEF RunIs, ShapeOf, SeesDrift, SeesNone, Sees
<1> QED
  BY <1>1, <1>2, <1>6, OneRun DEF RunIs, ReconInv, ReconTypeOK

LEMMA CompareStep == ASSUME ReconInv, NEW n \in Runs, Compare(n) PROVE ReconInv'
<1>1. RunIs(n, run[n].status, "complete", run[n].month, run[n].expected, run[n].actual,
            IF Differs(n) THEN "OPEN" ELSE run[n].issue)
  BY CompareIs DEF ReconInv
<1>2. /\ CountersInv' /\ UNCHANGED <<agg, applied, eventStatus, deployment>>
      /\ drifted' = drifted /\ skipped' = skipped /\ run[n].step = "compare" /\ shaken' = shaken
      /\ run[n].expected \in Nat /\ run[n].actual \in Nat
  BY SameCounters, SameRow, RunFields DEF ReconInv, Compare
<1>3. ShapeOf(n) /\ SeesDrift(n) /\ SeesNone(n)
  BY DEF ReconInv, Sees
<1>4. /\ FirstMonth(n)' <=> FirstMonth(n)
      /\ Drift' <=> Drift
  BY <1>1, <1>2 DEF RunIs, FirstMonth, Drift
<1>5. Differs(n) <=> run[n].expected # run[n].actual
  BY DEF Differs
<1>6. Sees(n)'
  BY <1>1, <1>2, <1>3, <1>4, <1>5 DEF RunIs, ShapeOf, SeesDrift, SeesNone, Sees, Sum
<1> QED
  BY <1>1, <1>2, <1>6, OneRun DEF RunIs, ReconInv, ReconTypeOK

\* A run ends: completed, failed or abandoned.
LEMMA OverStep ==
  ASSUME ReconInv, NEW n \in Runs, Complete(n) \/ RunFails(n) \/ RunCrashes(n)
  PROVE  ReconInv'
<1>1. PICK status \in {"NONE", "RUNNING", "COMPLETED", "FAILED"} :
        /\ RunIs(n, status, "over", run[n].month, run[n].expected, run[n].actual, run[n].issue)
        /\ status = "COMPLETED" => run[n].step = "complete" \/ run[n].status = "COMPLETED"
  BY OverIs, CrashIs, RunFields DEF ReconInv, Complete, RunFails, RunCrashes
<1>2. /\ CountersInv' /\ UNCHANGED <<agg, applied, eventStatus, deployment>>
      /\ drifted' = drifted /\ skipped' = skipped /\ shaken' = shaken
  BY SameCounters, SameRow, OnlyFaults DEF ReconInv, ReconTypeOK, Complete, RunFails, RunCrashes
<1>3. ShapeOf(n) /\ SeesDrift(n) /\ SeesNone(n)
  BY DEF ReconInv, Sees
<1>4. /\ FirstMonth(n)' <=> FirstMonth(n)
      /\ Drift' <=> Drift
  BY <1>1, <1>2 DEF RunIs, FirstMonth, Drift
<1>5. Sees(n)'
  BY <1>1, <1>2, <1>3, <1>4 DEF RunIs, ShapeOf, SeesDrift, SeesNone, Sees, Sum
<1> QED
  BY <1>1, <1>2, <1>5, OneRun DEF RunIs, ReconInv, ReconTypeOK

LEMMA IssueStep ==
  ASSUME ReconInv, NEW n \in Runs, Acknowledge(n) \/ Resolve(n) PROVE ReconInv'
<1>1. PICK s \in {"ACKNOWLEDGED", "RESOLVED"} :
        /\ run[n].issue # "NONE"
        /\ RunIs(n, run[n].status, run[n].step, run[n].month, run[n].expected, run[n].actual, s)
  BY IssueIs DEF ReconInv, Acknowledge, Resolve, SetIssue
<1>2. /\ CountersInv' /\ UNCHANGED <<agg, applied, eventStatus, deployment>>
      /\ drifted' = drifted /\ skipped' = skipped /\ shaken' = shaken
  BY SameCounters, SameRow DEF ReconInv, Acknowledge, Resolve, SetIssue
<1>3. ShapeOf(n) /\ SeesDrift(n) /\ SeesNone(n)
  BY DEF ReconInv, Sees
<1>4. /\ FirstMonth(n)' <=> FirstMonth(n)
      /\ Drift' <=> Drift
  BY <1>1, <1>2 DEF RunIs, FirstMonth, Drift
<1>5. Sees(n)'
  BY <1>1, <1>2, <1>3, <1>4 DEF RunIs, ShapeOf, SeesDrift, SeesNone, Sees, Sum
<1> QED
  BY <1>1, <1>2, <1>5, OneRun DEF RunIs, ReconInv, ReconTypeOK

LEMMA ReconInvInit == ReconInit => ReconInv
<1> SUFFICES ASSUME ReconInit PROVE ReconInv
  OBVIOUS
<1>1. CountersInv
  BY CountersInvInit DEF ReconInit
<1>2. NoRun \in RunRow /\ NoRun.step = "none" /\ NoRun.status = "NONE" /\ NoRun.issue = "NONE"
  BY KeyTypes DEF NoRun, RunRow, IssueStatus
<1>3. ReconTypeOK
  BY <1>1, <1>2 DEF ReconInit, ReconTypeOK, RunRow, CountersInv
<1>4. Rows
  <2>1. Added = {} /\ ~Drift /\ \A e \in Events : eventStatus[e] # "AGGREGATED"
    BY DEF ReconInit, CountersInit, Added, Drift
  <2>2. 0 \in Keys /\ \A k \in Keys : agg[k] = [s \in Subscriptions |-> 0]
    BY KeyTypes DEF ReconInit, CountersInit
  <2>3. Sum(0) = 0 /\ \A k \in Keys, s \in Subscriptions : ~(agg[k][s] > 0)
    BY <2>2 DEF Sum, Subscriptions
  <2> QED
    BY <2>1, <2>3, FS_EmptySet DEF Rows
<1>5. ASSUME NEW n \in Runs PROVE Sees(n)
  BY <1>2 DEF ReconInit, Sees, ShapeOf, SeesDrift, SeesNone
<1> QED
  BY <1>1, <1>3, <1>4, <1>5 DEF ReconInv

LEMMA ReconInvStep == ReconInv /\ ReconNext => ReconInv'
BY CountingStep, StartStep, FindStep, SumStep, ReadStep, CompareStep, OverStep, IssueStep
   DEF ReconNext, RunStep

LEMMA ReconInvImplies == ReconInv => ReconTypeOK /\ ReportsAreRight
BY DEF ReconInv, Sees, SeesDrift, SeesNone, ReportsAreRight, DriftReported, NoFalseAlarm,
   ReconTypeOK

-----------------------------------------------------------------------------
(* Dates and amounts *)

LEMMA Lengths == ASSUME NEW m \in Nat PROVE Length(m) \in {28, 30, 31}
BY DEF Length

LEMMA PeriodEnds ==
  ASSUME NEW d \in Date, NEW interval
  PROVE  NextPeriodEnd(d, interval) \in Date
<1>1. d.month \in Nat /\ d.day \in 1 .. 31
  BY DEF Date
<1> DEFINE m == d.month + (IF interval = "ANNUALLY" THEN 12 ELSE 1)
<1>2. m \in Nat /\ m + 1 \in Nat
  BY <1>1
<1>3. Length(m) \in {28, 30, 31} /\ Length(m + 1) \in {28, 30, 31}
  BY <1>2, Lengths
<1>4. NextPeriodEnd(d, interval) = IF d.day <= Length(m) THEN [month |-> m, day |-> d.day]
                                   ELSE [month |-> m + 1, day |-> d.day - Length(m)]
  BY DEF NextPeriodEnd
<1> HIDE DEF m
<1>5. CASE d.day <= Length(m)
  BY <1>1, <1>2, <1>4, <1>5 DEF Date
<1>6. CASE ~(d.day <= Length(m))
  <2>1. d.day - Length(m) \in 1 .. 3
    BY <1>1, <1>3, <1>6
  <2>2. d.day - Length(m) \in 1 .. 31 /\ d.day - Length(m) <= Length(m + 1)
    BY <1>3, <2>1
  <2> QED
    BY <1>2, <1>4, <1>6, <2>2 DEF Date
<1> QED
  BY <1>5, <1>6

\* A monthly period ends in the next month, on the same day, or passes it over.
LEMMA MonthlyEnds ==
  ASSUME NEW d \in Date
  PROVE  LET end == NextPeriodEnd(d, "MONTHLY")
         IN  \/ /\ d.day <= Length(d.month + 1)
                /\ end.month = d.month + 1 /\ end.day = d.day
             \/ /\ d.day > Length(d.month + 1) /\ d.day > 3
                /\ end.month = d.month + 2 /\ end.day <= 3
<1>1. d.month \in Nat /\ d.day \in 1 .. 31
  BY DEF Date
<1>2. Length(d.month + 1) \in {28, 30, 31}
  BY <1>1, Lengths
<1> QED
  BY <1>1, <1>2 DEF NextPeriodEnd

LEMMA RoundedTypes ==
  ASSUME NEW n \in Nat PROVE Rounded(n, 100) \in Nat /\ Rounded(n, 2) \in Nat
BY DEF Rounded

LEMMA Products == ASSUME NEW a \in Nat, NEW b \in Nat PROVE a * b \in Nat
OBVIOUS

LEMMA TotalType ==
  ASSUME CountersTypeOK, NEW fee \in Nat, NEW used \in Nat PROVE Total(fee, used) \in Nat
<1>1. deployment.price \in Nat /\ deployment.included \in Nat
  BY UsageInvoicesAssumption DEF CountersTypeOK
<1>2. OverageUnits(used, deployment.included) \in Nat
  BY <1>1 DEF OverageUnits
<1>3. Overage(used, deployment.included, deployment.price) \in Nat
  BY <1>1, <1>2, Products, RoundedTypes DEF Overage
<1> QED
  BY <1>3 DEF Total

LEMMA FeeTypes ==
  ASSUME CountersTypeOK
  PROVE  /\ deployment.fee \in Nat
         /\ \A part \in 0 .. 2 : ProratedFee(deployment.fee, part, 2) \in Nat
<1>1. deployment.fee \in Nat
  BY UsageInvoicesAssumption DEF CountersTypeOK
<1>2. ASSUME NEW part \in 0 .. 2 PROVE ProratedFee(deployment.fee, part, 2) \in Nat
  <2>1. CASE part = 0 \/ part = 2
    BY <1>1, <2>1 DEF ProratedFee
  <2>2. CASE part = 1
    <3>1. ProratedFee(deployment.fee, part, 2) = Rounded(deployment.fee * 1, 2)
      BY <2>2 DEF ProratedFee
    <3> QED
      BY <1>1, <3>1, RoundedTypes
  <2> QED
    BY <2>1, <2>2
<1> QED
  BY <1>1, <1>2

LEMMA UsageTypes ==
  ASSUME CountersTypeOK, NEW start \in Date
  PROVE  /\ UsageOf(start) \in Nat
         /\ deployment.interval = "MONTHLY" /\ start.month \in Months =>
              UsageOf(start) = agg[start.month]["old"]
BY KeyTypes, CacheFields DEF UsageOf, UsageKey

-----------------------------------------------------------------------------
(* What the steps do to the subscription and its bills *)

SubRow == [status : {"ACTIVE", "CANCELLED"}, start : Date, end : Date, invoiced : BOOLEAN]
BillRow == [invoices : Nat, used : Nat, cents : Nat]

LEMMA SubFields ==
  ASSUME InvoicesTypeOK
  PROVE  /\ sub \in SubRow
         /\ sub.status \in {"ACTIVE", "CANCELLED"} /\ sub.invoiced \in BOOLEAN
         /\ sub.start \in Date /\ sub.end \in Date
         /\ sub.start.month \in Nat /\ sub.end.month \in Nat
         /\ deployment.begins \in Date /\ deployment.begins.month \in Nat
         /\ deployment.begins.day \in Nat
<1>1. /\ sub \in SubRow
      /\ sub.status \in {"ACTIVE", "CANCELLED"} /\ sub.invoiced \in BOOLEAN
      /\ sub.start \in Date /\ sub.end \in Date
  BY DEF InvoicesTypeOK, SubRow
<1>2. deployment.begins \in Date
  BY UsageInvoicesAssumption DEF InvoicesTypeOK, ReconTypeOK, CountersTypeOK
<1> QED
  BY <1>1, <1>2 DEF Date

LEMMA BillFields ==
  ASSUME InvoicesTypeOK, NEW m \in Months
  PROVE  /\ billed \in [Months -> BillRow] /\ billed[m] \in BillRow
         /\ billed[m].invoices \in Nat /\ billed[m].used \in Nat
BY DEF InvoicesTypeOK, BillRow

\* Bill adds an invoice to the month the period began in, and no other.
LEMMA BillIs ==
  ASSUME InvoicesTypeOK, NEW fee \in Nat, Bill(fee)
  PROVE  /\ billed' \in [Months -> BillRow] /\ sub.start.month \in Months
         /\ late' = late \ {sub.start.month} /\ late' \subseteq Months
         /\ \A m \in Months : m # sub.start.month => billed'[m] = billed[m]
         /\ \A m \in Months : m = sub.start.month =>
              /\ billed'[m].invoices = billed[m].invoices + 1
              /\ billed'[m].used = UsageOf(sub.start)
<1> DEFINE used == UsageOf(sub.start)
           b(m) == [invoices |-> billed[m].invoices + 1, used |-> used, cents |-> Total(fee, used)]
<1>0. sub.start.month \in Months /\ late' = late \ {sub.start.month} /\ late' \subseteq Months
  BY DEF Bill, InvoicesTypeOK
<1>1. used \in Nat
  BY SubFields, UsageTypes DEF InvoicesTypeOK, ReconTypeOK
<1>2. Total(fee, used) \in Nat
  BY <1>1, TotalType DEF InvoicesTypeOK, ReconTypeOK
<1>3. billed' = [billed EXCEPT ![sub.start.month] = b(sub.start.month)]
  BY <1>0, BillFields DEF Bill
<1> HIDE DEF used
<1>4. \A m \in Months : /\ b(m) \in BillRow
                        /\ b(m).invoices = billed[m].invoices + 1 /\ b(m).used = used
  BY <1>1, <1>2, BillFields DEF BillRow
<1> HIDE DEF b
<1>5. \A m \in Months : billed'[m] = IF m = sub.start.month THEN b(m) ELSE billed[m]
  BY <1>3, BillFields DEF BillRow
<1>6. billed' = [m \in Months |-> IF m = sub.start.month THEN b(m) ELSE billed[m]]
  <2>1. billed \in [Months -> BillRow]
    BY DEF InvoicesTypeOK, BillRow
  <2> QED
    BY <1>3, <2>1
<1>7. billed' \in [Months -> BillRow]
  BY <1>4, <1>6, BillFields
<1> QED
  BY <1>0, <1>4, <1>5, <1>7 DEF used

\* Whose invoice it is makes no difference: the fee is some amount.
LEMMA ProratedIs ==
  ASSUME CountersTypeOK, BillProrated PROVE \E fee \in Nat : Bill(fee)
<1>1. PICK part \in 0 .. 2 : Bill(ProratedFee(deployment.fee, part, 2))
  BY DEF BillProrated
<1> QED
  BY <1>1, FeeTypes

\* The subscription goes on to its next period.
LEMMA Advances ==
  ASSUME InvoicesTypeOK, NextPeriod
  PROVE  /\ sub' \in SubRow /\ sub'.status = sub.status /\ sub'.invoiced = FALSE
         /\ sub'.start = sub.end
         /\ sub'.end = NextPeriodEnd(sub.end, deployment.interval)
<1>1. NextPeriodEnd(sub.end, deployment.interval) \in Date
  BY SubFields, PeriodEnds
<1> QED
  BY <1>1, SubFields DEF NextPeriod, SubRow

\* The subscription stays in its period.
Stays(status, invoiced) ==
    /\ sub' \in SubRow /\ sub'.start = sub.start /\ sub'.end = sub.end
    /\ sub'.status = status /\ sub'.invoiced = invoiced

LEMMA StaysIs ==
  ASSUME InvoicesTypeOK
  PROVE  /\ CancelSubscription => sub.status = "ACTIVE" /\ Stays("CANCELLED", sub.invoiced)
         /\ sub' = sub => Stays(sub.status, sub.invoiced)
         /\ sub' = [sub EXCEPT !.invoiced = TRUE] => Stays(sub.status, TRUE)
BY SubFields DEF CancelSubscription, Stays, SubRow

\* What billing leaves alone, but for a subscription that is replaced or not.
Beside ==
    /\ live' \in BOOLEAN
    /\ UNCHANGED <<month, agg, cache, req, worker, pending, eventStatus, applied, granted,
                   unchecked, lives, consumed, outdated, disturbed, deployment, faults, reconVars>>

LEMMA BesideSteps ==
  ASSUME InvoicesTypeOK,
         BillPeriod \/ CancelSubscription \/ BillCancelled \/ BillByHand \/ PaidByHand
           \/ UNCHANGED accountingVars
  PROVE  Beside
BY DEF BillPeriod, CancelSubscription, BillCancelled, BillByHand, PaidByHand, accountingVars,
   allVars, counterVars, Beside, InvoicesTypeOK, ReconTypeOK, CountersTypeOK

\* The deployment of a behaviour does not change.
LEMMA SameDeployment ==
  ASSUME InvoicesTypeOK, InvoicesNext PROVE deployment' = deployment
<1>1. CASE ReconNext
  BY <1>1, FrameStep DEF ReconNext, RunStep, Counting, StartRun, FindTenants, SumEvents, ReadRow,
     Compare, Complete, RunFails, RunCrashes, ReconFault, Acknowledge, Resolve, SetIssue,
     counterVars, InvoicesTypeOK, ReconTypeOK
<1> QED
  BY <1>1, BesideSteps DEF InvoicesNext, Accounting, Beside

LEMMA SameRuns ==
  ASSUME ReconInv, Beside PROVE ReconInv'
<1>1. CountersInv'
  <2>1. CountersTypeOK' /\ Workers'
    BY DEF ReconInv, CountersInv, Beside, CountersTypeOK, Workers
  <2>2. \A k \in Keys : Grants(k) => Grants(k)'
    BY DEF Beside, Grants
  <2>3. Exact => Exact'
    BY DEF Beside, Exact, CounterExact, Unmirrored, PeriodKey, Sum
  <2> QED
    BY <2>1, <2>2, <2>3 DEF ReconInv, CountersInv
<1>2. ReconTypeOK'
  BY <1>1 DEF ReconInv, ReconTypeOK, CountersInv, Beside, reconVars
<1>3. Rows'
  BY DEF ReconInv, Rows, AllFirst, Drift, Added, Beside, Sum
<1>4. ASSUME NEW n \in Runs PROVE Sees(n)'
  <2>1. Sees(n)
    BY DEF ReconInv
  <2> QED
    BY <2>1 DEF Sees, ShapeOf, SeesDrift, SeesNone, FirstMonth, Drift, Beside, Sum, reconVars
<1> QED
  BY <1>1, <1>2, <1>3, <1>4 DEF ReconInv

-----------------------------------------------------------------------------
(* Type correctness *)

LEMMA InvoicesTypesInit == InvoicesInit => InvoicesTypeOK
<1> SUFFICES ASSUME InvoicesInit PROVE InvoicesTypeOK
  OBVIOUS
<1>1. ReconTypeOK
  BY ReconInvInit DEF InvoicesInit, ReconInv
<1>2. deployment.begins \in Date
  BY <1>1, UsageInvoicesAssumption DEF ReconTypeOK, CountersTypeOK
<1>3. NextPeriodEnd(deployment.begins, deployment.interval) \in Date
  BY <1>2, PeriodEnds
<1> QED
  BY <1>1, <1>2, <1>3 DEF InvoicesInit, InvoicesTypeOK, NoBill

LEMMA InvoicesTypesStep ==
  ReconInv /\ InvoicesTypeOK /\ [InvoicesNext]_accountingVars => ReconInv' /\ InvoicesTypeOK'
<1> SUFFICES ASSUME ReconInv, InvoicesTypeOK, [InvoicesNext]_accountingVars
             PROVE  ReconInv' /\ InvoicesTypeOK'
  OBVIOUS
<1>c. CountersTypeOK
  BY DEF ReconInv, CountersInv
<1>b. Beside => ReconInv' /\ ReconTypeOK'
  BY SameRuns DEF ReconInv
<1>t. \A fee \in Nat : Bill(fee) =>
        /\ billed' \in [Months -> BillRow] /\ late' \subseteq Months /\ sub.start.month \in Months
  BY BillIs
<1>1. ASSUME Accounting PROVE ReconInv' /\ InvoicesTypeOK'
  BY <1>1, ReconInvStep DEF Accounting, InvoicesTypeOK, ReconInv
<1>2. ASSUME BillPeriod PROVE ReconInv' /\ InvoicesTypeOK'
  <2>1. ReconInv' /\ ReconTypeOK'
    BY <1>2, <1>b, BesideSteps
  <2>2. billed' \in [Months -> BillRow] /\ late' \subseteq Months
    BY <1>2, <1>c, <1>t, FeeTypes DEF BillPeriod
  <2>3. sub' \in SubRow
    BY <1>2, Advances DEF BillPeriod
  <2> QED
    BY <1>2, <2>1, <2>2, <2>3 DEF InvoicesTypeOK, SubRow, BillRow, BillPeriod
<1>3. ASSUME CancelSubscription PROVE ReconInv' /\ InvoicesTypeOK'
  <2>1. ReconInv' /\ ReconTypeOK'
    BY <1>3, <1>b, BesideSteps
  <2>2. sub' \in SubRow
    BY <1>3, StaysIs DEF Stays
  <2> QED
    BY <1>3, <2>1, <2>2 DEF InvoicesTypeOK, SubRow, CancelSubscription
<1>4. ASSUME BillCancelled PROVE ReconInv' /\ InvoicesTypeOK'
  <2>1. ReconInv' /\ ReconTypeOK'
    BY <1>4, <1>b, BesideSteps
  <2>2. billed' \in [Months -> BillRow] /\ late' \subseteq Months
    BY <1>4, <1>c, <1>t, ProratedIs DEF BillCancelled
  <2> QED
    BY <1>4, <2>1, <2>2 DEF InvoicesTypeOK, BillRow, BillCancelled
<1>5. ASSUME BillByHand PROVE ReconInv' /\ InvoicesTypeOK'
  <2>1. ReconInv' /\ ReconTypeOK'
    BY <1>5, <1>b, BesideSteps
  <2>2. \E fee \in Nat : Bill(fee)
    BY <1>5, <1>c, ProratedIs, FeeTypes DEF BillByHand
  <2>3. /\ billed' \in [Months -> BillRow] /\ late' \subseteq Months
        /\ sub.start.month \in Months
    BY <1>t, <2>2
  <2>4. sub' \in SubRow
    BY <1>5, StaysIs DEF BillByHand, Stays
  <2>5. intents' \in Nat /\ made' \subseteq Months
    BY <1>5, <2>3 DEF BillByHand, InvoicesTypeOK
  <2> QED
    BY <2>1, <2>3, <2>4, <2>5 DEF InvoicesTypeOK, SubRow, BillRow
<1>6. ASSUME PaidByHand PROVE ReconInv' /\ InvoicesTypeOK'
  <2>1. ReconInv' /\ ReconTypeOK'
    BY <1>6, <1>b, BesideSteps
  <2>2. sub' \in SubRow /\ intents' \in Nat
    <3>1. NextPeriod /\ intents \in Nat /\ intents > 0 /\ intents' = intents - 1
      BY <1>6 DEF PaidByHand, InvoicesTypeOK
    <3> QED
      BY <3>1, Advances
  <2> QED
    BY <1>6, <2>1, <2>2 DEF InvoicesTypeOK, SubRow, PaidByHand
<1>7. ASSUME UNCHANGED accountingVars PROVE ReconInv' /\ InvoicesTypeOK'
  <2>1. ReconInv' /\ ReconTypeOK'
    BY <1>7, <1>b, BesideSteps
  <2> QED
    BY <1>7, <2>1 DEF accountingVars, invoiceVars, InvoicesTypeOK
<1> QED
  BY <1>1, <1>2, <1>3, <1>4, <1>5, <1>6, <1>7 DEF InvoicesNext

-----------------------------------------------------------------------------
(* Monthly periods and what they are charged *)

LEMMA BillingInit == InvoicesInit /\ InvoicesTypeOK /\ Monthly => Grid /\ Charges
<1> SUFFICES ASSUME InvoicesInit, InvoicesTypeOK, Monthly PROVE Grid /\ Charges
  OBVIOUS
<1>1. /\ sub.start = deployment.begins /\ sub.status = "ACTIVE" /\ intents = 0
      /\ sub.end = NextPeriodEnd(sub.start, "MONTHLY")
  BY DEF InvoicesInit, Monthly
<1>2. /\ deployment.begins.month \in Nat
      /\ deployment.begins.day <= Length(deployment.begins.month)
  BY SubFields DEF Date
<1>3. Grid
  BY <1>1, <1>2 DEF Grid
<1>4. \A m \in Months : billed[m].invoices = 0 /\ ~Due(m)
  BY <1>1, <1>2, KeyTypes DEF InvoicesInit, NoBill, Due
<1> QED
  BY <1>1, <1>3, <1>4 DEF Charges, ChargedMonth

\* Periods keep to the day they began on, or to the first days of a month.
LEMMA GridStep ==
  ASSUME InvoicesTypeOK, Grid, Monthly, NextPeriod, deployment' = deployment
  PROVE  /\ Grid'
         /\ sub.start.month < sub.end.month
         /\ \A m \in Nat : sub.start.month < m /\ m < sub.end.month => PassedOver(m)
<1> DEFINE s == sub.start
           begins == deployment.begins
<1>1. /\ s \in Date /\ s.month \in Nat /\ s.day \in 1 .. 31
      /\ begins.month \in Nat /\ begins.day \in Nat
  BY SubFields DEF Date
<1>2. /\ sub.end = NextPeriodEnd(s, "MONTHLY") /\ begins.month <= s.month
      /\ \/ s.day = begins.day /\ \A k \in begins.month .. s.month : begins.day <= Length(k)
         \/ s.day <= 3
  BY DEF Grid
<1>3. sub'.start = sub.end /\ sub'.end = NextPeriodEnd(sub'.start, "MONTHLY")
  BY Advances DEF Monthly
<1> DEFINE GridNext ==
             /\ begins.month <= sub.end.month
             /\ \/ /\ sub.end.day = begins.day
                   /\ \A k \in begins.month .. sub.end.month : begins.day <= Length(k)
                \/ sub.end.day <= 3
           Passed == \A m \in Nat : s.month < m /\ m < sub.end.month => PassedOver(m)
<1>4. CASE s.day <= Length(s.month + 1)
  <2>1. sub.end.month = s.month + 1 /\ sub.end.day = s.day
    <3>1. Length(s.month + 1) \in {28, 30, 31}
      BY <1>1, Lengths
    <3> QED
      BY <1>1, <1>2, <1>4, <3>1, MonthlyEnds
  <2>2. Passed
    BY <1>1, <2>1
  <2>3. \A k \in begins.month .. (s.month + 1) : k \in begins.month .. s.month \/ k = s.month + 1
    BY <1>1
  <2>4. GridNext
    <3>1. CASE s.day <= 3
      BY <1>1, <1>2, <2>1, <3>1
    <3>2. CASE /\ s.day = begins.day
               /\ \A k \in begins.month .. s.month : begins.day <= Length(k)
      BY <1>1, <1>2, <1>4, <2>1, <2>3, <3>2
    <3> QED
      BY <1>2, <3>1, <3>2
  <2> QED
    BY <1>1, <1>3, <2>1, <2>2, <2>4 DEF Grid
<1>5. CASE ~(s.day <= Length(s.month + 1))
  <2>1. sub.end.month = s.month + 2 /\ sub.end.day <= 3 /\ s.day > 3
    BY <1>1, <1>2, <1>5, MonthlyEnds
  <2>2. s.day = begins.day /\ \A k \in begins.month .. s.month : begins.day <= Length(k)
    BY <1>1, <1>2, <2>1
  <2>3. Length(s.month + 1) \in {28, 30, 31}
    BY <1>1, Lengths
  <2>4. PassedOver(s.month + 1)
    <3>1. begins.day > Length(s.month + 1)
      BY <1>1, <1>5, <2>2, <2>3
    <3>2. (s.month + 1) - 1 = s.month
      BY <1>1
    <3> QED
      BY <2>2, <3>1, <3>2 DEF PassedOver
  <2>5. \A m \in Nat : s.month < m /\ m < sub.end.month => m = s.month + 1
    BY <1>1, <2>1
  <2>6. GridNext
    BY <1>1, <1>2, <2>1
  <2> QED
    BY <1>1, <1>3, <2>1, <2>4, <2>5, <2>6 DEF Grid
<1> QED
  BY <1>4, <1>5

\* What an invoice for the current period does to the months.
LEMMA BillFacts ==
  ASSUME InvoicesTypeOK, Monthly, NEW fee \in Nat, Bill(fee), NEW m \in Months
  PROVE  /\ m # sub.start.month => /\ billed'[m] = billed[m]
                                   /\ m \in late' <=> m \in late
         /\ m = sub.start.month => /\ billed'[m].invoices = billed[m].invoices + 1
                                   /\ billed'[m].used = agg[m]["old"]
         /\ billed[m].invoices \in Nat /\ sub.start.month \in Months
<1>1. m = sub.start.month => UsageOf(sub.start) = agg[m]["old"]
  BY SubFields, UsageTypes DEF InvoicesTypeOK, ReconTypeOK, Monthly
<1> QED
  BY <1>1, BillIs, BillFields

\* Invoices are never taken back.
LEMMA DoubledStays ==
  ASSUME InvoicesTypeOK, InvoicesNext, Doubled PROVE Doubled'
<1>c. CountersTypeOK
  BY DEF InvoicesTypeOK, ReconTypeOK
<1>m. PICK m \in made : billed[m].invoices > 1
  BY DEF Doubled
<1>t. m \in Months /\ billed[m].invoices \in Nat
  BY BillFields DEF InvoicesTypeOK
<1>1. \A fee \in Nat : Bill(fee) => billed'[m].invoices > 1
  BY <1>m, <1>t, BillIs
<1>2. (\E fee \in Nat : Bill(fee)) \/ billed' = billed
  <2>1. BillPeriod => \E fee \in Nat : Bill(fee)
    BY <1>c, FeeTypes DEF BillPeriod
  <2>2. BillCancelled => \E fee \in Nat : Bill(fee)
    BY <1>c, ProratedIs DEF BillCancelled
  <2>3. BillByHand => \E fee \in Nat : Bill(fee)
    BY <1>c, FeeTypes, ProratedIs DEF BillByHand
  <2> QED
    BY <2>1, <2>2, <2>3 DEF InvoicesNext, Accounting, CancelSubscription, PaidByHand
<1>3. m \in made'
  BY <1>m DEF InvoicesNext, Accounting, BillPeriod, CancelSubscription, BillCancelled, BillByHand,
     PaidByHand
<1> QED
  BY <1>m, <1>1, <1>2, <1>3 DEF Doubled

\* The period goes on, after one invoice for its month.
LEMMA ChargesAdvance ==
  ASSUME InvoicesTypeOK, Grid, Monthly, NextPeriod, deployment' = deployment, agg' = agg,
         intents' = 0, NEW m \in Months,
         billed'[m].invoices <= 1,
         m = sub.start.month => billed'[m].invoices = 1,
         m > sub.start.month => billed'[m].invoices = 0,
         Due(m) => PassedOver(m) \/ billed'[m].invoices = 1,
         billed'[m].invoices > 0 => m \in late' \/ billed'[m].used = agg[m]["old"]
  PROVE  ChargedMonth(m)'
<1>1. /\ sub'.start = sub.end
      /\ sub.start.month \in Nat /\ sub.end.month \in Nat /\ deployment.begins.month \in Nat
      /\ m \in Nat
  BY Advances, SubFields, KeyTypes
<1>2. /\ sub.start.month < sub.end.month
      /\ \A x \in Nat : sub.start.month < x /\ x < sub.end.month => PassedOver(x)
  BY GridStep
<1>3. Due(m)' => m < sub.end.month /\ (m < sub.start.month => Due(m))
  BY <1>1 DEF Due
<1>4. PassedOver(m)' <=> PassedOver(m)
  BY DEF PassedOver
<1>5. m >= sub'.start.month => billed'[m].invoices = 0
  BY <1>1, <1>2
<1>6. Due(m)' => PassedOver(m)' \/ billed'[m].invoices = 1
  <2>1. CASE m < sub.start.month
    BY <1>3, <1>4, <2>1
  <2>2. CASE m = sub.start.month
    BY <2>2
  <2>3. CASE m > sub.start.month
    BY <1>1, <1>2, <1>3, <1>4, <2>3
  <2> QED
    BY <1>1, <2>1, <2>2, <2>3
<1>7. m = sub'.start.month \/ m > sub'.start.month => billed'[m].invoices = 0
  BY <1>1, <1>5
<1> QED
  BY <1>6, <1>7 DEF ChargedMonth

LEMMA ChargesPeriod ==
  ASSUME InvoicesTypeOK, Grid, Charges, Monthly, BillPeriod, deployment' = deployment
  PROVE  Charges'
<1>1. /\ sub.status = "ACTIVE" /\ ~sub.invoiced /\ NextPeriod /\ agg' = agg /\ intents' = intents
      /\ deployment.fee \in Nat /\ Bill(deployment.fee)
  BY FeeTypes DEF InvoicesTypeOK, ReconTypeOK, BillPeriod, allVars, counterVars
<1>2. intents' = 0
  <2>1. sub.start.month \in Months /\ intents \in Nat
    BY <1>1, BillIs DEF InvoicesTypeOK
  <2>2. billed[sub.start.month].invoices = 0
    BY <1>1, <2>1 DEF Charges, ChargedMonth
  <2> QED
    BY <1>1, <2>1, <2>2 DEF Charges, ChargedMonth
<1>3. ASSUME NEW m \in Months PROVE ChargedMonth(m)'
  <2>1. /\ m # sub.start.month => billed'[m] = billed[m] /\ (m \in late' <=> m \in late)
        /\ m = sub.start.month => /\ billed'[m].invoices = billed[m].invoices + 1
                                  /\ billed'[m].used = agg[m]["old"]
    BY <1>1, BillFacts
  <2>2. ChargedMonth(m)
    BY DEF Charges
  <2>3. m = sub.start.month => billed[m].invoices = 0
    BY <1>1, <2>2 DEF ChargedMonth
  <2>4. m \in Nat /\ sub.start.month \in Nat
    BY KeyTypes, SubFields
  <2>5. Due(m) => m # sub.start.month
    BY <2>4 DEF Due
  <2>6. /\ billed'[m].invoices <= 1
        /\ m = sub.start.month => billed'[m].invoices = 1
        /\ m > sub.start.month => billed'[m].invoices = 0
    BY <1>1, <2>1, <2>2, <2>3, <2>4 DEF ChargedMonth
  <2>7. /\ Due(m) => PassedOver(m) \/ billed'[m].invoices = 1
        /\ billed'[m].invoices > 0 => m \in late' \/ billed'[m].used = agg[m]["old"]
    BY <2>1, <2>2, <2>5 DEF ChargedMonth
  <2> QED
    BY <1>1, <1>2, <2>6, <2>7, ChargesAdvance
<1> QED
  BY <1>2, <1>3 DEF Charges

LEMMA ChargesPaid ==
  ASSUME InvoicesTypeOK, Grid, Charges, Monthly, PaidByHand, deployment' = deployment
  PROVE  Charges'
<1>1. /\ NextPeriod /\ agg' = agg /\ billed' = billed /\ late' = late
      /\ intents = 1 /\ intents' = 0
  BY DEF InvoicesTypeOK, PaidByHand, Charges, allVars, counterVars
<1>2. ASSUME NEW m \in Months PROVE ChargedMonth(m)'
  <2>1. ChargedMonth(m) /\ m \in Nat /\ sub.start.month \in Nat
    BY KeyTypes, SubFields DEF Charges
  <2>2. /\ billed[m].invoices <= 1
        /\ m = sub.start.month => billed[m].invoices = 1
    BY <1>1, <2>1 DEF ChargedMonth
  <2> QED
    BY <1>1, <2>1, <2>2, ChargesAdvance DEF ChargedMonth
<1> QED
  BY <1>1, <1>2 DEF Charges

\* The period stays what it is: what is due stays due.
LEMMA StaysDue ==
  ASSUME NEW status, NEW invoiced, Stays(status, invoiced), deployment' = deployment, NEW m
  PROVE  (Due(m)' <=> Due(m)) /\ (PassedOver(m)' <=> PassedOver(m))
BY DEF Stays, Due, PassedOver

LEMMA ChargesCancel ==
  ASSUME InvoicesTypeOK, Charges, CancelSubscription, deployment' = deployment PROVE Charges'
<1>1. /\ Stays("CANCELLED", sub.invoiced) /\ sub.status = "ACTIVE"
      /\ UNCHANGED <<agg, billed, intents, made, late>>
  BY StaysIs DEF CancelSubscription
<1>2. ASSUME NEW m \in Months PROVE ChargedMonth(m)'
  <2>1. ChargedMonth(m)
    BY DEF Charges
  <2>2. (Due(m)' <=> Due(m)) /\ (PassedOver(m)' <=> PassedOver(m))
    BY <1>1, StaysDue
  <2> QED
    BY <1>1, <2>1, <2>2 DEF ChargedMonth, Stays
<1> QED
  BY <1>1, <1>2 DEF Charges, Stays

\* Another prorated invoice: none by hand is to be paid, or it would be doubled.
LEMMA ChargesCancelled ==
  ASSUME InvoicesTypeOK, Charges, Monthly, BillCancelled, ~Doubled', deployment' = deployment
  PROVE  Charges'
<1>1. PICK fee \in Nat : Bill(fee)
  BY ProratedIs DEF BillCancelled, InvoicesTypeOK, ReconTypeOK
<1>2. /\ Stays("CANCELLED", sub.invoiced) /\ sub.status = "CANCELLED"
      /\ UNCHANGED <<agg, intents, made>>
  BY StaysIs DEF BillCancelled, allVars, counterVars
<1>3. intents = 0
  <2>1. sub.start.month \in Months /\ intents \in Nat
    BY <1>1, BillIs DEF InvoicesTypeOK
  <2>2. billed'[sub.start.month].invoices = billed[sub.start.month].invoices + 1
    BY <1>1, <2>1, BillFacts
  <2>3. intents = 1 => sub.start.month \in made' /\ billed[sub.start.month].invoices = 1
    BY <1>2, <2>1 DEF Charges, ChargedMonth
  <2> QED
    BY <2>1, <2>2, <2>3 DEF Doubled, Charges
<1>4. ASSUME NEW m \in Months PROVE ChargedMonth(m)'
  <2>1. ChargedMonth(m) /\ m \in Nat /\ sub.start.month \in Nat
    BY KeyTypes, SubFields DEF Charges
  <2>2. (Due(m)' <=> Due(m)) /\ (PassedOver(m)' <=> PassedOver(m))
    BY <1>2, StaysDue
  <2>3. /\ m # sub.start.month => billed'[m] = billed[m] /\ (m \in late' <=> m \in late)
        /\ m = sub.start.month => billed'[m].used = agg[m]["old"]
    BY <1>1, BillFacts
  <2>4. Due(m) => m # sub.start.month
    BY <2>1 DEF Due
  <2>5. CASE m # sub.start.month
    BY <1>2, <1>3, <2>1, <2>2, <2>3, <2>5 DEF ChargedMonth, Stays
  <2>6. CASE m = sub.start.month
    BY <1>2, <1>3, <2>1, <2>2, <2>3, <2>4, <2>6 DEF ChargedMonth, Stays
  <2> QED
    BY <2>5, <2>6
<1> QED
  BY <1>2, <1>3, <1>4 DEF Charges, Stays

\* An invoice by hand is the first of its month, or it is doubled.
LEMMA ChargesByHand ==
  ASSUME InvoicesTypeOK, Charges, Monthly, BillByHand, ~Doubled', deployment' = deployment
  PROVE  Charges'
<1>1. PICK fee \in Nat : Bill(fee)
  BY FeeTypes, ProratedIs DEF BillByHand, InvoicesTypeOK, ReconTypeOK
<1>2. PICK invoiced \in BOOLEAN :
        /\ Stays(sub.status, invoiced)
        /\ sub.status = "ACTIVE" => invoiced = TRUE
  BY StaysIs, SubFields DEF BillByHand
<1>3. /\ intents' = intents + 1 /\ made' = made \union {sub.start.month} /\ agg' = agg
  BY DEF BillByHand, allVars, counterVars
<1>4. /\ sub.start.month \in Months
      /\ billed[sub.start.month].invoices = 0 /\ billed'[sub.start.month].invoices = 1
  <2>1. sub.start.month \in Months
    BY <1>1, BillIs
  <2>2. /\ billed'[sub.start.month].invoices = billed[sub.start.month].invoices + 1
        /\ billed[sub.start.month].invoices \in Nat
    BY <1>1, <2>1, BillFacts
  <2>3. ~(billed'[sub.start.month].invoices > 1)
    BY <1>3 DEF Doubled
  <2> QED
    BY <2>1, <2>2, <2>3
<1>5. intents = 0
  BY <1>4 DEF Charges, ChargedMonth, InvoicesTypeOK
<1>6. ASSUME NEW m \in Months PROVE ChargedMonth(m)'
  <2>1. ChargedMonth(m) /\ m \in Nat /\ sub.start.month \in Nat
    BY KeyTypes, SubFields DEF Charges
  <2>2. (Due(m)' <=> Due(m)) /\ (PassedOver(m)' <=> PassedOver(m))
    BY <1>2, StaysDue
  <2>3. /\ m # sub.start.month => billed'[m] = billed[m] /\ (m \in late' <=> m \in late)
        /\ m = sub.start.month => billed'[m].used = agg[m]["old"]
    BY <1>1, BillFacts
  <2>4. Due(m) => m # sub.start.month
    BY <2>1 DEF Due
  <2>5. CASE m # sub.start.month
    BY <1>2, <1>3, <2>1, <2>2, <2>3, <2>5 DEF ChargedMonth, Stays
  <2>6. CASE m = sub.start.month
    BY <1>2, <1>3, <1>4, <2>1, <2>2, <2>3, <2>4, <2>6 DEF ChargedMonth, Stays
  <2> QED
    BY <2>5, <2>6
<1> QED
  BY <1>2, <1>3, <1>5, <1>6 DEF Charges, Stays

\* A row that grows after its month was charged is one of those that are late.
LEMMA ChargesBeside ==
  ASSUME InvoicesTypeOK, Charges, Accounting, deployment' = deployment PROVE Charges'
<1>1. /\ sub' = sub /\ billed' = billed /\ intents' = intents /\ made' = made
      /\ late' = late \union {m \in Months : agg'[m]["old"] # agg[m]["old"] /\ billed[m] # NoBill}
  BY DEF Accounting
<1>2. Stays(sub.status, sub.invoiced)
  BY <1>1, StaysIs
<1>3. ASSUME NEW m \in Months PROVE ChargedMonth(m)'
  <2>1. ChargedMonth(m)
    BY DEF Charges
  <2>2. (Due(m)' <=> Due(m)) /\ (PassedOver(m)' <=> PassedOver(m))
    BY <1>2, StaysDue
  <2>3. billed[m].invoices > 0 => billed[m] # NoBill
    BY DEF NoBill
  <2>4. billed[m].invoices > 0 => m \in late' \/ billed[m].used = agg'[m]["old"]
    BY <1>1, <2>1, <2>3 DEF ChargedMonth
  <2> QED
    BY <1>1, <2>1, <2>2, <2>4 DEF ChargedMonth
<1> QED
  BY <1>1, <1>3 DEF Charges

LEMMA InvoicesInvInit == InvoicesInit => ReconInv /\ InvoicesInv
BY InvoicesTypesInit, BillingInit, ReconInvInit DEF InvoicesInit, InvoicesInv

LEMMA ChargesStep ==
  ASSUME InvoicesTypeOK, Monthly, Grid, ~Doubled => Charges, InvoicesNext,
         deployment' = deployment, ~Doubled'
  PROVE  Charges'
<1>1. Charges
  BY DoubledStays
<1> QED
  BY <1>1, ChargesPeriod, ChargesPaid, ChargesCancel, ChargesCancelled, ChargesByHand,
     ChargesBeside DEF InvoicesNext

LEMMA GridStays ==
  ASSUME InvoicesTypeOK, Monthly, Grid, InvoicesNext, deployment' = deployment PROVE Grid'
<1>1. CASE BillPeriod \/ PaidByHand
  BY <1>1, GridStep DEF BillPeriod, PaidByHand
<1>2. CASE Accounting \/ BillCancelled
  BY <1>2 DEF Grid, Accounting, BillCancelled
<1>3. CASE CancelSubscription \/ BillByHand
  <2>1. sub'.start = sub.start /\ sub'.end = sub.end
    BY <1>3, StaysIs DEF BillByHand, Stays
  <2> QED
    BY <2>1 DEF Grid
<1> QED
  BY <1>1, <1>2, <1>3 DEF InvoicesNext

LEMMA InvoicesInvStep ==
  ReconInv /\ InvoicesInv /\ [InvoicesNext]_accountingVars => ReconInv' /\ InvoicesInv'
<1> SUFFICES ASSUME ReconInv, InvoicesInv, [InvoicesNext]_accountingVars
             PROVE  ReconInv' /\ InvoicesInv'
  OBVIOUS
<1>1. ReconInv' /\ InvoicesTypeOK' /\ InvoicesTypeOK
  BY InvoicesTypesStep DEF InvoicesInv
<1>2. deployment' = deployment
  BY <1>1, SameDeployment DEF accountingVars, allVars, counterVars
<1>3. ASSUME Monthly' PROVE Grid' /\ (~Doubled' => Charges')
  <2>1. Monthly /\ Grid /\ (~Doubled => Charges)
    BY <1>2, <1>3 DEF Monthly, InvoicesInv
  <2>2. CASE InvoicesNext
    BY <1>1, <1>2, <2>1, <2>2, GridStays, ChargesStep
  <2>3. CASE UNCHANGED accountingVars
    BY <2>1, <2>3 DEF accountingVars, allVars, counterVars, invoiceVars, Grid, Charges,
       ChargedMonth, Due, PassedOver, Doubled
  <2> QED
    BY <2>2, <2>3
<1> QED
  BY <1>1, <1>3 DEF InvoicesInv

LEMMA InvoicesInvImplies ==
  ReconInv /\ InvoicesInv =>
    InvoicesTypeOK /\ GrantsBounded /\ CounterExact /\ ReportsAreRight /\ UsageIsBilled
<1> SUFFICES ASSUME ReconInv, InvoicesInv
             PROVE  /\ InvoicesTypeOK /\ GrantsBounded /\ CounterExact
                    /\ ReportsAreRight /\ UsageIsBilled
  OBVIOUS
<1>1. CountersTypeOK /\ (\A k \in Keys : Grants(k)) /\ CounterExact
  BY DEF ReconInv, CountersInv, Exact
<1>2. ASSUME NEW k \in Keys PROVE granted[k] <= Limit * lives[k]
  <2> DEFINE bound == Limit * lives[k]
  <2>1. bound \in Nat /\ granted[k] \in Nat /\ cache[k].value \in Nat /\ Limit \in Nat
    BY <1>1, CacheFields, OneLifeMore, KeyTypes
  <2>2. IF cache[k].present
        THEN granted[k] + Limit <= bound + (IF cache[k].value <= Limit THEN cache[k].value ELSE Limit)
        ELSE granted[k] <= bound
    BY <1>1 DEF Grants
  <2> HIDE DEF bound
  <2>3. granted[k] <= bound
    BY <2>1, <2>2
  <2> QED
    BY <2>3 DEF bound
<1>3. UsageIsBilled
  BY DEF InvoicesInv, Monthly, Charges, ChargedMonth, UsageIsBilled
<1> QED
  BY <1>1, <1>2, <1>3, ReconInvImplies DEF InvoicesInv, GrantsBounded

-----------------------------------------------------------------------------
(* The theorems *)

\* Whatever consumers, requests, reconciliation and billing do to a tenant's counters,
\* runs and bills, these stay well formed: no fill, increment, fault or charge leaves a
\* value that the columns and the Redis keys cannot have.
THEOREM AccountingTypes == InvoicesSpec => []InvoicesTypeOK
BY InvoicesInvInit, InvoicesInvStep, InvoicesInvImplies, PTL DEF InvoicesSpec

\* HARD_LIMIT_LUA never grants more than the limit for each time its key was set or
\* created, however many consumers call it at once and whatever expires or fails.
THEOREM GrantsAreBounded == InvoicesSpec => []GrantsBounded
BY InvoicesInvInit, InvoicesInvStep, InvoicesInvImplies, PTL DEF InvoicesSpec

\* The Redis copy of a counter differs from the sum of the rows and what was consumed
\* only after one of the named disturbances: an overtaken SET, a seed read between an
\* upsert and its mirror, a seed from one of the rows of two subscriptions, an INCRBY on
\* an expired key, a lost mirror.
THEOREM CountersAreExact == InvoicesSpec => []CounterExact
BY InvoicesInvInit, InvoicesInvStep, InvoicesInvImplies, PTL DEF InvoicesSpec

\* In the first month, of a tenant that has one subscription and has not changed it, a
\* completed reconciliation run that found the tenant reports the drift that was there
\* when it began, and an issue it writes while nothing is aggregated is no false alarm.
THEOREM ReportsRight == InvoicesSpec => []ReportsAreRight
BY InvoicesInvInit, InvoicesInvStep, InvoicesInvImplies, PTL DEF InvoicesSpec

\* With monthly periods beginning on any day, each month's usage before the current
\* period is on exactly one invoice, but for late events and the month that was too short
\* for the day; the current month of a cancelled subscription may be on more, and nothing
\* is claimed once an invoice by hand was not the only one of its month.
THEOREM UsageBilled == InvoicesSpec => []UsageIsBilled
BY InvoicesInvInit, InvoicesInvStep, InvoicesInvImplies, PTL DEF InvoicesSpec

=============================================================================
