---------------------------- MODULE UsageCounters ----------------------------
(***************************************************************************)
(* The usage counter of one tenant's feature: the rows of usage_aggregates *)
(* per month and subscription, their one copy in Redis, and those who      *)
(* touch them:                                                             *)
(*                                                                         *)
(*   - check() and consume() of EntitlementCheckService, which read the    *)
(*     copy, seed it from Postgres when it is missing, and count what they *)
(*     grant in Redis only;                                                *)
(*   - the aggregation consumer, which adds events to the rows and mirrors *)
(*     them in Redis.                                                      *)
(*                                                                         *)
(* Every amount is 1.  The event that consume() writes is UsagePipeline's  *)
(* business: it is never aggregated, so the rows know nothing of grants.   *)
(* Redis keys may expire at any time once they have a time to live.  A     *)
(* tenant changes its plan at most once, to one of the same limit; events  *)
(* of both subscriptions may be under way together.                        *)
(***************************************************************************)
EXTENDS Naturals, FiniteSets

CONSTANTS
    Events,       \* validated usage events
    Requests,     \* check and consume requests that may run at the same time
    Aggregators,  \* instances of the aggregation consumer
    None,         \* no event
    Limit,        \* the limit of the entitlement snapshot
    LastMonth,    \* bound: months are 0 .. LastMonth
    Deployments,  \* the surroundings to consider
    MaxGrants,    \* bound: consumptions granted per behaviour
    MaxFaults     \* bound: number of faults

Months == 0 .. LastMonth
Lifetime == LastMonth + 1
Keys == Months \union {Lifetime}

\* The subscription before and after a change of plan.
Subscriptions == {"old", "new"}

\* The routes of EntitlementCheckController: one reads, the other reads and counts.
Ops == {"check", "consume"}

\* ops: what clients call; behavior: limit_behavior; reset: reset_period, where
\* ANNUALLY stands for NEVER, too; monthOf: the month of an event's timestamp;
\* subOf: the subscription it was validated for; copies: its messages, which producers
\* may repeat; sourced: events whose metadata name a source; until: the last month;
\* changes: whether the tenant cancels and subscribes again.
ASSUME CountersAssumption ==
    /\ None \notin Events
    /\ IsFiniteSet(Events)
    /\ IsFiniteSet(Aggregators)
    /\ Limit \in Nat
    /\ LastMonth \in Nat
    /\ MaxGrants \in Nat
    /\ MaxFaults \in Nat
    /\ \A d \in Deployments :
        /\ d.ops \subseteq Ops
        /\ d.behavior \in {"HARD", "SOFT"}
        /\ d.reset \in {"MONTHLY", "ANNUALLY"}
        /\ d.monthOf \in [Events -> Months]
        /\ d.subOf \in [Events -> Subscriptions]
        /\ d.copies \in [Events -> Nat]
        /\ d.sourced \subseteq Events
        /\ d.until \in Months
        /\ d.changes \in BOOLEAN
        /\ d.kinds \subseteq {"redis", "crash", "expiry", "database"}

VARIABLES
    month,       \* the current month
    live,        \* whether the tenant has an ACTIVE or TRIALING subscription
    agg,         \* usage_aggregates.amount per period key and subscription; 0: no row
    cache,       \* Redis: value and time to live of each key
    req,         \* local state of each request
    worker,      \* local state of each aggregation consumer
    pending,     \* messages of usage.validated to be delivered, or delivered again
    eventStatus, \* usage_events.status
    applied,     \* history: how often an event was added to its row
    granted,     \* history: grants the Lua script made, per key
    unchecked,   \* history: grants without the script
    lives,       \* history: how often a key was set or created
    consumed,    \* history: consumption counted in a key since it was set or created
    outdated,    \* history: requests whose read was overtaken before its SET
    disturbed,   \* history: keys whose value is off for a known reason
    deployment,  \* the deployment of this behaviour
    faults       \* history: number of faults so far

counterVars == <<month, live, agg, cache, req, worker, pending, eventStatus, applied, granted,
                 unchecked, lives, consumed, outdated, disturbed, deployment, faults>>

\* What no request changes, and what consumers change in Redis only.
requestVars == <<month, live, agg, worker, pending, eventStatus, applied, deployment>>
copyVars == <<cache, granted, unchecked, lives, consumed, outdated, disturbed>>

-----------------------------------------------------------------------------

Ttl == {"short", "period", "none"}
Missing == [present |-> FALSE, value |-> 0, ttl |-> "none"]
Entry(v, ttl) == [present |-> TRUE, value |-> v, ttl |-> ttl]

Ready == [step |-> "idle", op |-> "check", key |-> 0, seen |-> 0]
IdleWorker == [step |-> "idle", event |-> None]

CountersTypeOK ==
    /\ month \in Months
    /\ live \in BOOLEAN
    /\ agg \in [Keys -> [Subscriptions -> Nat]]
    /\ cache \in [Keys -> [present : BOOLEAN, value : Nat, ttl : Ttl]]
    /\ req \in [Requests -> [step : {"idle", "get", "read", "set", "count", "expire", "fallback"},
                             op : Ops, key : Keys, seen : Nat]]
    /\ worker \in [Aggregators -> [step : {"idle", "mirror", "expire", "mark", "commit"},
                                   event : Events \union {None}]]
    /\ pending \in [Events -> Nat]
    /\ eventStatus \in [Events -> {"VALIDATED", "AGGREGATED"}]
    /\ applied \in [Events -> Nat]
    /\ granted \in [Keys -> Nat]
    /\ unchecked \in Nat
    /\ lives \in [Keys -> Nat]
    /\ consumed \in [Keys -> Nat]
    /\ outdated \subseteq Requests
    /\ disturbed \subseteq Keys
    /\ deployment \in Deployments
    /\ faults \in 0 .. MaxFaults

CountersInit ==
    /\ month = 0
    /\ live = TRUE
    /\ agg = [k \in Keys |-> [s \in Subscriptions |-> 0]]
    /\ cache = [k \in Keys |-> Missing]
    /\ req = [r \in Requests |-> Ready]
    /\ worker = [a \in Aggregators |-> IdleWorker]
    /\ eventStatus = [e \in Events |-> "VALIDATED"]
    /\ applied = [e \in Events |-> 0]
    /\ granted = [k \in Keys |-> 0]
    /\ unchecked = 0
    /\ lives = [k \in Keys |-> 0]
    /\ consumed = [k \in Keys |-> 0]
    /\ outdated = {}
    /\ disturbed = {}
    /\ deployment \in Deployments
    /\ pending = deployment.copies
    /\ faults = 0

Fault(kind) ==
    /\ kind \in deployment.kinds
    /\ faults < MaxFaults
    /\ faults' = faults + 1

\* Mutant: getUTCMonth counts from 0, and nobody adds 1.
KeyOfZeroBased(m) == IF deployment.reset = "MONTHLY" THEN m - 1 ELSE Lifetime

\* The period key of a month, in check() and consume().
KeyOf(m) == IF deployment.reset = "MONTHLY" THEN m ELSE Lifetime

\* calculatePeriod of the aggregation consumer: it is given the feature type where
\* it wants the reset period, and so takes every feature for a monthly one.
PeriodKey(e) == deployment.monthOf[e]

\* What the rows of a period key add up to.
Sum(k) == agg[k]["old"] + agg[k]["new"]

Split(k) == agg[k]["old"] > 0 /\ agg[k]["new"] > 0

\* A findFirst that names no subscription: the amount of some row, 0 if there is none.
SomeRow(k) ==
    IF Sum(k) = 0 THEN {0} ELSE {agg[k][s] : s \in {x \in Subscriptions : agg[k][x] > 0}}

\* Events in the rows but not yet in Redis.
Unmirrored(k) ==
    Cardinality({a \in Aggregators : worker[a].step = "mirror" /\ PeriodKey(worker[a].event) = k})

\* The rows or the copy of key k change under requests that are about to set it.
Overtake(k) == outdated' = outdated \union {r \in Requests : req[r].step = "set" /\ req[r].key = k}

\* Mutant: a missing key is created with 0, and the increment is lost.
IncrByExisting(k) ==
    /\ cache' = [cache EXCEPT ![k] = IF @.present THEN Entry(@.value + 1, @.ttl)
                                                  ELSE Entry(0, "none")]
    /\ lives' = IF cache[k].present THEN lives ELSE [lives EXCEPT ![k] = @ + 1]
    /\ Overtake(k)

\* INCRBY: a missing key is created, without a time to live.
IncrBy(k) ==
    /\ cache' = [cache EXCEPT ![k] = IF @.present THEN Entry(@.value + 1, @.ttl)
                                                  ELSE Entry(1, "none")]
    /\ lives' = IF cache[k].present THEN lives ELSE [lives EXCEPT ![k] = @ + 1]
    /\ Overtake(k)

SetTtl(k, ttl) ==
    cache' = IF cache[k].present THEN [cache EXCEPT ![k].ttl = ttl] ELSE cache

Disturb(k) == disturbed' = disturbed \union {k}

-----------------------------------------------------------------------------
(* Time, and the tenant's subscriptions *)

MonthTurns ==
    /\ month < deployment.until
    /\ month' = month + 1
    /\ UNCHANGED <<live, agg, cache, req, worker, pending, eventStatus, applied, granted,
                   unchecked, lives, consumed, outdated, disturbed, deployment, faults>>

\* The tenant cancels, or subscribes again.
SubscriptionChanges ==
    /\ deployment.changes
    /\ live' = ~live
    /\ UNCHANGED <<month, agg, cache, req, worker, pending, eventStatus, applied, granted,
                   unchecked, lives, consumed, outdated, disturbed, deployment, faults>>

Expiry(k) ==
    /\ Fault("expiry")
    /\ cache[k].present
    /\ cache[k].ttl # "none"
    /\ cache' = [cache EXCEPT ![k] = Missing]
    /\ Overtake(k)
    /\ UNCHANGED <<requestVars, req, granted, unchecked, lives, consumed, disturbed>>

-----------------------------------------------------------------------------
(* check() and consume() *)

Goto(r, step) == req' = [req EXCEPT ![r].step = step]
End(r) == req' = [req EXCEPT ![r] = Ready]

\* getSnapshot finds nothing for a tenant without a live subscription.
Begin(r, op) ==
    /\ op \in deployment.ops
    /\ live
    /\ req[r] = Ready
    /\ req' = [req EXCEPT ![r] = [step |-> "get", op |-> op, key |-> KeyOf(month), seen |-> 0]]
    /\ UNCHANGED <<requestVars, copyVars, faults>>

\* After the GET, or after seeding: check() answers, consume() counts.
Continue(r) == IF req[r].op = "check" THEN End(r) ELSE Goto(r, "count")

\* getUsage and ensureCacheSeeded begin alike.
Get(r) ==
    LET hit == cache[req[r].key].present
    IN  /\ req[r].step = "get"
        /\ \/ hit /\ Continue(r)
           \/ ~hit /\ Goto(r, "read")
        /\ UNCHANGED <<requestVars, copyVars, faults>>

\* check() goes on to Postgres, the seeding gives up.
GetFails(r) ==
    /\ req[r].step = "get"
    /\ Fault("redis")
    /\ Goto(r, IF req[r].op = "check" THEN "read" ELSE "count")
    /\ UNCHANGED <<requestVars, copyVars>>

\* A read that is not the sum of the rows and of what Redis will get.
Overtaken(r) ==
    \/ KeyOf(month) # req[r].key
    \/ Unmirrored(req[r].key) > 0
    \/ Split(req[r].key)

\* getUsageFromPostgres computes the period key again.
ReadAggregate(r) ==
    /\ req[r].step = "read"
    /\ \E amount \in SomeRow(KeyOf(month)) :
         req' = [req EXCEPT ![r].step = "set", ![r].seen = amount]
    /\ outdated' = IF Overtaken(r) THEN outdated \union {r} ELSE outdated \ {r}
    /\ UNCHANGED <<requestVars, cache, granted, unchecked, lives, consumed, disturbed, faults>>

\* The query fails: check() and the fallbacks throw, the seeding gives up.
ReadFails(r) ==
    /\ Fault("database")
    /\ \/ req[r].step = "read" /\ Continue(r)
       \/ req[r].step = "fallback" /\ End(r)
    /\ UNCHANGED <<requestVars, copyVars>>

SetKey(r) ==
    LET k == req[r].key
    IN  /\ cache' = [cache EXCEPT ![k] = Entry(req[r].seen, "short")]
        /\ lives' = [lives EXCEPT ![k] = @ + 1]
        /\ consumed' = [consumed EXCEPT ![k] = 0]
        /\ Overtake(k)
        /\ disturbed' = IF r \in outdated THEN disturbed \union {k} ELSE disturbed \ {k}

Set(r) ==
    /\ req[r].step = "set"
    /\ SetKey(r)
    /\ Continue(r)
    /\ UNCHANGED <<requestVars, granted, unchecked, faults>>

SetFails(r) ==
    /\ req[r].step = "set"
    /\ Fault("redis")
    /\ Continue(r)
    /\ \/ UNCHANGED <<cache, lives, consumed, outdated, disturbed>>
       \/ SetKey(r)
    /\ UNCHANGED <<requestVars, granted, unchecked>>

\* Mutant: the script compares what was used before.
ExceedsBefore(k) == cache[k].value > Limit

\* HARD_LIMIT_LUA: a missing key counts as 0.
Exceeds(k) == cache[k].value + 1 > Limit

Consumed(k) ==
    /\ consumed' = [consumed EXCEPT ![k] = IF cache[k].present THEN @ + 1 ELSE 1]
    /\ disturbed' = IF ~cache[k].present
                    THEN IF Sum(k) > Unmirrored(k) THEN disturbed \union {k} ELSE disturbed \ {k}
                    ELSE disturbed

Hard == deployment.behavior = "HARD"
GrantsLeft == granted[Lifetime] + unchecked + granted[month] < MaxGrants

\* The script grants, or the refusal reads the usage for its message.
CountHard(r) ==
    LET k == req[r].key
    IN  /\ req[r].step = "count"
        /\ Hard
        /\ \/ /\ Exceeds(k)
              /\ req' = [req EXCEPT ![r] = [step |-> "get", op |-> "check",
                                            key |-> KeyOf(month), seen |-> 0]]
              /\ UNCHANGED <<cache, granted, lives, consumed, outdated, disturbed>>
           \/ /\ ~Exceeds(k)
              /\ GrantsLeft
              /\ IncrBy(k)
              /\ Consumed(k)
              /\ granted' = [granted EXCEPT ![k] = @ + 1]
              /\ End(r)
        /\ UNCHANGED <<requestVars, unchecked, faults>>

\* INCRBY and then EXPIRE.
CountSoft(r) ==
    LET k == req[r].key
    IN  /\ req[r].step = "count"
        /\ ~Hard
        /\ GrantsLeft
        /\ IncrBy(k)
        /\ Consumed(k)
        /\ unchecked' = unchecked + 1
        /\ Goto(r, "expire")
        /\ UNCHANGED <<requestVars, granted, faults>>

ExpireShort(r) ==
    /\ req[r].step = "expire"
    /\ SetTtl(req[r].key, "short")
    /\ End(r)
    /\ UNCHANGED <<requestVars, granted, unchecked, lives, consumed, outdated, disturbed, faults>>

\* Redis fails, with or without effect: the fallback asks Postgres.  Without a hard
\* limit its answer is yes already.
CountFails(r) ==
    LET k == req[r].key
    IN  /\ req[r].step = "count"
        /\ GrantsLeft
        /\ Fault("redis")
        /\ Goto(r, "fallback")
        /\ \/ UNCHANGED <<cache, lives, consumed, outdated, disturbed>>
           \/ Hard /\ ~Exceeds(k) /\ IncrBy(k) /\ Consumed(k)
           \/ ~Hard /\ IncrBy(k) /\ Consumed(k)
        /\ unchecked' = IF Hard THEN unchecked ELSE unchecked + 1
        /\ UNCHANGED <<requestVars, granted>>

\* The key may be left without a time to live.
ExpireFails(r) ==
    /\ req[r].step = "expire"
    /\ Fault("redis")
    /\ Goto(r, "fallback")
    /\ UNCHANGED cache \/ SetTtl(req[r].key, "short")
    /\ UNCHANGED <<requestVars, granted, unchecked, lives, consumed, outdated, disturbed>>

\* consumeFallback looks at a row and reserves nothing; without a hard limit the row is
\* read for the answer only.
Fallback(r) ==
    /\ req[r].step = "fallback"
    /\ \E amount \in SomeRow(KeyOf(month)) :
        IF Hard /\ amount + 1 <= Limit THEN GrantsLeft /\ unchecked' = unchecked + 1
                                       ELSE UNCHANGED unchecked
    /\ End(r)
    /\ UNCHANGED <<requestVars, cache, granted, lives, consumed, outdated, disturbed, faults>>

-----------------------------------------------------------------------------
(* The aggregation consumer *)

\* Deliver a message to a consumer; it is delivered again unless it is committed.
Deliver(e) ==
    /\ pending[e] > 0
    /\ pending' = [pending EXCEPT ![e] = @ - 1]

\* A message, delivered or redelivered: the upsert of the row, whatever the event's
\* status, and whoever else works on another copy.
Upsert(a, e) ==
    LET k == PeriodKey(e)
        s == deployment.subOf[e]
    IN  /\ worker[a] = IdleWorker
        /\ Deliver(e)
        /\ agg' = [agg EXCEPT ![k][s] = @ + 1]
        /\ applied' = [applied EXCEPT ![e] = @ + 1]
        /\ worker' = [worker EXCEPT ![a] = [step |-> "mirror", event |-> e]]
        /\ Overtake(k)
        /\ UNCHANGED <<month, live, cache, req, eventStatus, granted, unchecked, lives, consumed,
                       disturbed, deployment, faults>>

\* The upsert fails: a dead letter, and nothing is counted.
UpsertFails(a, e) ==
    /\ worker[a] = IdleWorker
    /\ Deliver(e)
    /\ Fault("database")
    /\ UNCHANGED <<month, live, agg, req, worker, eventStatus, applied, copyVars, deployment>>

WorkerGoto(a, step) == worker' = [worker EXCEPT ![a].step = step]

\* A missing key starts from this event alone, whatever the rows say.
Mirror(a) ==
    LET k == PeriodKey(worker[a].event)
    IN  /\ worker[a].step = "mirror"
        /\ IncrBy(k)
        /\ consumed' = IF cache[k].present THEN consumed ELSE [consumed EXCEPT ![k] = 0]
        /\ disturbed' = IF cache[k].present THEN disturbed
                        ELSE IF Sum(k) > Unmirrored(k) THEN disturbed \union {k}
                        ELSE disturbed \ {k}
        /\ WorkerGoto(a, "expire")
        /\ UNCHANGED <<month, live, agg, req, pending, eventStatus, applied, granted, unchecked,
                       deployment, faults>>

ExpirePeriod(a) ==
    /\ worker[a].step = "expire"
    /\ SetTtl(PeriodKey(worker[a].event), "period")
    /\ WorkerGoto(a, "mark")
    /\ UNCHANGED <<month, live, agg, req, pending, eventStatus, applied, granted, unchecked,
                   lives, consumed, outdated, disturbed, deployment, faults>>

\* Redis fails: the mirror is given up, the event is marked all the same.
MirrorFails(a) ==
    LET k == PeriodKey(worker[a].event)
    IN  /\ worker[a].step \in {"mirror", "expire"}
        /\ Fault("redis")
        /\ WorkerGoto(a, "mark")
        /\ IF worker[a].step = "mirror" THEN Disturb(k) /\ Overtake(k)
                                        ELSE UNCHANGED <<disturbed, outdated>>
        /\ UNCHANGED <<month, live, agg, cache, req, pending, eventStatus, applied, granted,
                       unchecked, lives, consumed, deployment>>

Mark(a) ==
    /\ worker[a].step = "mark"
    /\ eventStatus' = [eventStatus EXCEPT ![worker[a].event] = "AGGREGATED"]
    /\ WorkerGoto(a, "commit")
    /\ UNCHANGED <<month, live, agg, req, pending, applied, copyVars, deployment, faults>>

\* The update fails: a dead letter for an event that is in the row.
MarkFails(a) ==
    /\ worker[a].step = "mark"
    /\ Fault("database")
    /\ WorkerGoto(a, "commit")
    /\ UNCHANGED <<month, live, agg, req, pending, eventStatus, applied, copyVars, deployment>>

\* The offset is committed: this copy is never delivered again.
Commit(a) ==
    /\ worker[a].step = "commit"
    /\ worker' = [worker EXCEPT ![a] = IdleWorker]
    /\ UNCHANGED <<month, live, agg, req, pending, eventStatus, applied, copyVars, deployment,
                   faults>>

\* The consumer dies before that: the message will be delivered again.
WorkerCrash(a) ==
    LET k == PeriodKey(worker[a].event)
    IN  /\ worker[a] # IdleWorker
        /\ Fault("crash")
        /\ pending' = [pending EXCEPT ![worker[a].event] = @ + 1]
        /\ worker' = [worker EXCEPT ![a] = IdleWorker]
        /\ IF worker[a].step = "mirror" THEN Disturb(k) /\ Overtake(k)
                                        ELSE UNCHANGED <<disturbed, outdated>>
        /\ UNCHANGED <<month, live, agg, cache, req, eventStatus, applied, granted, unchecked,
                       lives, consumed, deployment>>

-----------------------------------------------------------------------------

Request(r) ==
    \/ \E op \in Ops : Begin(r, op)
    \/ Get(r) \/ GetFails(r) \/ ReadAggregate(r) \/ ReadFails(r) \/ Set(r) \/ SetFails(r)
    \/ CountHard(r) \/ CountSoft(r) \/ ExpireShort(r)
    \/ CountFails(r) \/ ExpireFails(r) \/ Fallback(r)

WorkerStep(a) ==
    \/ \E e \in Events : Upsert(a, e)
    \/ Mirror(a) \/ ExpirePeriod(a) \/ Mark(a) \/ Commit(a)

WorkerFault(a) ==
    \/ \E e \in Events : UpsertFails(a, e)
    \/ MirrorFails(a) \/ MarkFails(a) \/ WorkerCrash(a)

CountersNext ==
    \/ MonthTurns
    \/ SubscriptionChanges
    \/ \E k \in Keys : Expiry(k)
    \/ \E r \in Requests : Request(r)
    \/ \E a \in Aggregators : WorkerStep(a) \/ WorkerFault(a)

CountersSpec == CountersInit /\ [][CountersNext]_counterVars

-----------------------------------------------------------------------------
(* Properties *)

\* Concurrent consumers never get more out of the script than the limit for every
\* time the key was set or created: seeding and expiry, which forget what was
\* consumed, are the only ways past the limit while Redis answers.
GrantsBounded ==
    \A k \in Keys : granted[k] <= Limit * lives[k]

\* A key that was set from the one row of a month that nobody was changing, or has grown
\* from nothing, is exact: what the rows add up to, less what is still to be mirrored,
\* plus what was consumed.  It is off after a SET that was overtaken, a seed read between
\* an upsert and its mirror, a seed from one of two rows after a change of plan, an
\* INCRBY on a key that had expired, or a lost mirror, and for nothing else.
CounterExact ==
    \A k \in Keys :
        cache[k].present /\ k \notin disturbed =>
            cache[k].value + Unmirrored(k) = Sum(k) + consumed[k]

=============================================================================
