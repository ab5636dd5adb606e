--------------------------- MODULE UsageIngestion ---------------------------
(***************************************************************************)
(* POST /usage/events: how a batch of usage events becomes rows of         *)
(* usage_events and outbox_events.  Two layers recognise an event that was *)
(* submitted before: a Redis key set with NX, and the UNIQUE constraint on *)
(* usage_events.event_id met inside the transaction.                       *)
(*                                                                         *)
(* Postgres is modelled from how ingest() uses it: the insert of a key     *)
(* that an open transaction has inserted waits for that transaction; a     *)
(* constraint violation aborts the whole transaction, whose later          *)
(* statements fail and whose COMMIT rolls back; a cycle of waiting         *)
(* transactions is broken by aborting one of them.                         *)
(***************************************************************************)
EXTENDS Naturals, Sequences, FiniteSets

CONSTANTS
    EventIds,        \* event ids clients choose
    Requests,        \* requests that may be open at the same time
    Deployments,     \* the surroundings to consider: clients and faults
    MaxSubmissions,  \* bound: how many requests are ever submitted
    MaxFaults        \* bound: how many faults happen in a behaviour

\* batches: the sequences of events clients submit; mayReject: events that
\* preValidate may refuse (feature, timestamp); kinds: the faults that happen.
ASSUME IngestionAssumption ==
    /\ \A d \in Deployments :
        /\ d.batches \subseteq Seq(EventIds) \ {<<>>}
        /\ d.mayReject \subseteq EventIds
        /\ d.kinds \subseteq {"redis", "expiry", "db", "crash"}
    /\ MaxSubmissions \in Nat
    /\ MaxFaults \in Nat

VARIABLES
    usageEvents,  \* event ids of the committed rows of usage_events
    outbox,       \* per event: number of its committed rows of outbox_events
    keys,         \* events whose key usage:event:{eventId} exists in Redis
    req,          \* per request: the local variables of its ingest() call
    told,         \* history: the answers <<event, status>> of each 202 response
    deployment,   \* the deployment of this behaviour
    submitted,    \* history: number of requests so far
    faults        \* history: number of faults so far

vars == <<usageEvents, outbox, keys, req, told, deployment, submitted, faults>>

-----------------------------------------------------------------------------

Answer == {"none", "accepted", "duplicate", "rejected"}
Steps == {"idle", "dedup", "insert"}

\* todo: events of the current loop not yet looked at; toPersist, rejected and
\* results as in the code, where only the first entry of an event matters;
\* rows: what the open transaction has inserted; aborted: its state.
Call == [step : Steps, todo : Seq(EventIds), toPersist : Seq(EventIds),
         rejected : [EventIds -> Answer], results : [EventIds -> Answer],
         rows : SUBSET EventIds, aborted : BOOLEAN]

NoAnswers == [e \in EventIds |-> "none"]
NoCall == [step |-> "idle", todo |-> <<>>, toPersist |-> <<>>, rejected |-> NoAnswers,
           results |-> NoAnswers, rows |-> {}, aborted |-> FALSE]

TypeOK ==
    /\ usageEvents \in SUBSET EventIds
    /\ outbox \in [EventIds -> Nat]
    /\ keys \in SUBSET EventIds
    /\ req \in [Requests -> Call]
    /\ told \in Seq(SUBSET (EventIds \X Answer))
    /\ deployment \in Deployments
    /\ submitted \in 0 .. MaxSubmissions
    /\ faults \in 0 .. MaxFaults

Init ==
    /\ usageEvents = {}
    /\ outbox = [e \in EventIds |-> 0]
    /\ keys = {}
    /\ req = [r \in Requests |-> NoCall]
    /\ told = <<>>
    /\ deployment \in Deployments
    /\ submitted = 0
    /\ faults = 0

Fault(kind) ==
    /\ kind \in deployment.kinds
    /\ faults < MaxFaults
    /\ faults' = faults + 1

\* find() returns the first entry of an event.
FirstEntry(answers, e, status) ==
    IF answers[e] = "none" THEN [answers EXCEPT ![e] = status] ELSE answers

-----------------------------------------------------------------------------
(* The loop before the transaction *)

\* A tenant without an active subscription gets a 403 and changes nothing.
Submit(r) ==
    /\ req[r].step = "idle"
    /\ submitted < MaxSubmissions
    /\ \E b \in deployment.batches :
        req' = [req EXCEPT ![r] = [NoCall EXCEPT !.step = "dedup", !.todo = b]]
    /\ submitted' = submitted + 1
    /\ UNCHANGED <<usageEvents, outbox, keys, told, faults, deployment>>

\* preValidate: the event goes to toPersist, or to the rejected ones.
PreValidate(r) ==
    LET e == Head(req[r].todo)
    IN  \/ req' = [req EXCEPT ![r].todo = Tail(@), ![r].toPersist = Append(@, e)]
        \/ /\ e \in deployment.mayReject
           /\ req' = [req EXCEPT ![r].todo = Tail(@),
                                 ![r].rejected = FirstEntry(@, e, "rejected")]

InDedup(r) == req[r].step = "dedup" /\ req[r].todo # <<>>

\* SET NX creates the key before anything is known of the event's fate.
DedupNew(r) ==
    /\ InDedup(r)
    /\ Head(req[r].todo) \notin keys
    /\ keys' = keys \union {Head(req[r].todo)}
    /\ PreValidate(r)
    /\ UNCHANGED <<usageEvents, outbox, told, submitted, faults, deployment>>

\* Mutant: a status the response type does not have.
DedupSkips(r) ==
    /\ InDedup(r)
    /\ Head(req[r].todo) \in keys
    /\ req' = [req EXCEPT ![r].todo = Tail(@),
                          ![r].rejected = FirstEntry(@, Head(req[r].todo), "skipped")]
    /\ UNCHANGED <<usageEvents, outbox, keys, told, submitted, faults, deployment>>

DedupSeen(r) ==
    /\ InDedup(r)
    /\ Head(req[r].todo) \in keys
    /\ req' = [req EXCEPT ![r].todo = Tail(@),
                          ![r].rejected = FirstEntry(@, Head(req[r].todo), "duplicate")]
    /\ UNCHANGED <<usageEvents, outbox, keys, told, submitted, faults, deployment>>

\* Redis answers with an error, whether or not it has set the key: the layer is
\* skipped.
DedupFails(r) ==
    /\ InDedup(r)
    /\ Fault("redis")
    /\ keys' \in {keys, keys \union {Head(req[r].todo)}}
    /\ PreValidate(r)
    /\ UNCHANGED <<usageEvents, outbox, told, submitted, deployment>>

\* 24 hours pass.
KeyExpires(e) ==
    /\ e \in keys
    /\ Fault("expiry")
    /\ keys' = keys \ {e}
    /\ UNCHANGED <<usageEvents, outbox, req, told, submitted, deployment>>

-----------------------------------------------------------------------------
(* The transaction *)

\* Mutant: nothing of a batch is stored if any event was turned down.
BeginUnlessRejected(r) ==
    /\ req[r].step = "dedup"
    /\ req[r].todo = <<>>
    /\ req' = [req EXCEPT ![r].step = "insert",
                          ![r].todo = IF req[r].rejected = NoAnswers
                                      THEN req[r].toPersist ELSE <<>>]
    /\ UNCHANGED <<usageEvents, outbox, keys, told, submitted, faults, deployment>>

Begin(r) ==
    /\ req[r].step = "dedup"
    /\ req[r].todo = <<>>
    /\ req' = [req EXCEPT ![r].step = "insert", ![r].todo = req[r].toPersist]
    /\ UNCHANGED <<usageEvents, outbox, keys, told, submitted, faults, deployment>>

Inserting(r) == req[r].step = "insert" /\ req[r].todo # <<>>

\* The insert of r waits for the transaction of q.
WaitsFor(r, q) ==
    /\ Inserting(r) /\ ~req[r].aborted
    /\ q # r
    /\ Head(req[r].todo) \in req[q].rows
    /\ ~req[q].aborted

Blocked(r) == \E q \in Requests : WaitsFor(r, q)

\* Mutant: no UNIQUE constraint.
InsertAgain(r) ==
    LET e == Head(req[r].todo)
    IN  /\ Inserting(r)
        /\ ~req[r].aborted
        /\ req' = [req EXCEPT ![r].todo = Tail(@),
                              ![r].rows = @ \union {e},
                              ![r].results = FirstEntry(@, e, "accepted")]
        /\ UNCHANGED <<usageEvents, outbox, keys, told, submitted, faults, deployment>>

\* Both creates of one event; the code pushes its result after the second.
Insert(r) ==
    LET e == Head(req[r].todo)
    IN  /\ Inserting(r)
        /\ ~req[r].aborted
        /\ ~Blocked(r)
        /\ e \notin usageEvents \union req[r].rows
        /\ req' = [req EXCEPT ![r].todo = Tail(@),
                              ![r].rows = @ \union {e},
                              ![r].results = FirstEntry(@, e, "accepted")]
        /\ UNCHANGED <<usageEvents, outbox, keys, told, submitted, faults, deployment>>

\* UNIQUE(event_id): the catch block records a duplicate and goes on, in a
\* transaction that Postgres has aborted.
InsertDuplicate(r) ==
    LET e == Head(req[r].todo)
    IN  /\ Inserting(r)
        /\ ~req[r].aborted
        /\ ~Blocked(r)
        /\ e \in usageEvents \union req[r].rows
        /\ req' = [req EXCEPT ![r].todo = Tail(@),
                              ![r].aborted = TRUE,
                              ![r].results = FirstEntry(@, e, "duplicate")]
        /\ UNCHANGED <<usageEvents, outbox, keys, told, submitted, faults, deployment>>

\* Mutant: a failed create is tried again, in the same transaction.
InsertRetried(r) ==
    /\ Inserting(r)
    /\ req[r].aborted
    /\ req' = [req EXCEPT ![r].todo = Append(Tail(@), Head(@))]
    /\ UNCHANGED <<usageEvents, outbox, keys, told, submitted, faults, deployment>>

\* The next create of an aborted transaction throws an error that is not P2002:
\* rethrown, the transaction is rolled back and the request gets a 500.
InsertAborted(r) ==
    /\ Inserting(r)
    /\ req[r].aborted
    /\ req' = [req EXCEPT ![r] = NoCall]
    /\ UNCHANGED <<usageEvents, outbox, keys, told, submitted, faults, deployment>>

\* Mutant: the outbox rows are written outside the transaction.
CommitRowsApart(r) ==
    /\ usageEvents' = usageEvents \union (IF req[r].aborted THEN {} ELSE req[r].rows)
    /\ outbox' = [e \in EventIds |-> outbox[e] + (IF e \in req[r].rows THEN 1 ELSE 0)]

\* The transaction's rows become visible together, unless it was aborted.
CommitRows(r) ==
    LET new == IF req[r].aborted THEN {} ELSE req[r].rows
    IN  /\ usageEvents' = usageEvents \union new
        /\ outbox' = [e \in EventIds |-> outbox[e] + (IF e \in new THEN 1 ELSE 0)]

\* What the response says of the request's events: the first entry of
\* [...persistResults, ...rejected].
Response(r) ==
    {<<e, IF req[r].results[e] # "none" THEN req[r].results[e] ELSE req[r].rejected[e]>> :
        e \in {x \in EventIds : req[r].results[x] # "none" \/ req[r].rejected[x] # "none"}}

\* The callback returns, COMMIT is sent, and the client gets its 202.
Commit(r) ==
    /\ req[r].step = "insert"
    /\ req[r].todo = <<>>
    /\ CommitRows(r)
    /\ told' = Append(told, Response(r))
    /\ req' = [req EXCEPT ![r] = NoCall]
    /\ UNCHANGED <<keys, submitted, faults, deployment>>

\* Mutant: the error of the transaction is caught and the results are returned.
TransactionFailureCaught(r) ==
    /\ req[r].step = "insert"
    /\ Fault("db")
    /\ told' = Append(told, Response(r))
    /\ req' = [req EXCEPT ![r] = NoCall]
    /\ UNCHANGED <<usageEvents, outbox, keys, submitted, deployment>>

\* Any statement fails, or COMMIT does, with or without its effect: a 500.
TransactionFails(r) ==
    /\ req[r].step = "insert"
    /\ Fault("db")
    /\ \/ req[r].todo = <<>> /\ CommitRows(r)
       \/ UNCHANGED <<usageEvents, outbox>>
    /\ req' = [req EXCEPT ![r] = NoCall]
    /\ UNCHANGED <<keys, told, submitted, deployment>>

\* Postgres ends one transaction of a cycle of waiting ones: a 500.
DeadlockDetected(r) ==
    /\ \E cycle \in SUBSET Requests :
        /\ r \in cycle
        /\ \A q \in cycle :
            (\E p \in cycle : WaitsFor(q, p)) /\ (\E p \in cycle : WaitsFor(p, q))
    /\ req' = [req EXCEPT ![r] = NoCall]
    /\ UNCHANGED <<usageEvents, outbox, keys, told, submitted, faults, deployment>>

\* The process dies: an open transaction rolls back, Redis keeps its keys.
RequestCrash(r) ==
    /\ req[r].step # "idle"
    /\ Fault("crash")
    /\ req' = [req EXCEPT ![r] = NoCall]
    /\ UNCHANGED <<usageEvents, outbox, keys, told, submitted, deployment>>

-----------------------------------------------------------------------------

Ingest(r) ==
    \/ DedupNew(r) \/ DedupSeen(r) \/ Begin(r) \/ Insert(r) \/ InsertDuplicate(r)
    \/ InsertAborted(r) \/ Commit(r) \/ DeadlockDetected(r)

IngestFaults(r) == DedupFails(r) \/ TransactionFails(r) \/ RequestCrash(r)

Next ==
    \/ \E r \in Requests : Submit(r) \/ Ingest(r) \/ IngestFaults(r)
    \/ \E e \in EventIds : KeyExpires(e)

Spec == Init /\ [][Next]_vars

\* A request once received keeps running; clients need not submit.
FairSpec == Spec /\ \A r \in Requests : WF_vars(Ingest(r))

-----------------------------------------------------------------------------
(* Properties *)

\* The transactional outbox: an event has exactly one outbox row if it is stored
\* and none if it is not, whatever fails and however requests overlap.
OneOutboxRow == \A e \in EventIds : outbox[e] = (IF e \in usageEvents THEN 1 ELSE 0)

Told(e, status) == {i \in DOMAIN told : <<e, status>> \in told[i]}

\* While Redis answers and its keys live, or with one event per request, no insert
\* meets a constraint violation after another event's insert.
RedisReliable == deployment.kinds \intersect {"redis", "expiry"} = {}
SingleEvents == \A b \in deployment.batches : Len(b) = 1

\* A client told "accepted" may forget the event: it is stored.
AcceptedMeansStored == \A e \in EventIds : Told(e, "accepted") # {} => e \in usageEvents

\* The regimes in which that holds, whatever else fails.
AcceptedIsPersisted == RedisReliable \/ SingleEvents => AcceptedMeansStored

\* No two responses claim to have accepted the same event, with one event per
\* request whatever Redis does: the UNIQUE constraint decides.
AcceptedOnce ==
    RedisReliable \/ SingleEvents =>
        \A e \in EventIds : Cardinality(Told(e, "accepted")) <= 1

Carries(r, e) == \E i \in DOMAIN req[r].toPersist : req[r].toPersist[i] = e

\* A client told "duplicate" may forget the event: it is stored, or a request
\* still open is about to store it.  True where events are not refused after
\* their key was set and transactions do not fail.
DuplicateIsCovered ==
    /\ RedisReliable \/ SingleEvents
    /\ deployment.mayReject = {}
    /\ deployment.kinds \intersect {"db", "crash"} = {}
    => \A e \in EventIds : Told(e, "duplicate") # {} =>
            e \in usageEvents \/ \E r \in Requests : Carries(r, e)

\* No request waits for ever, although batches with the same events in another
\* order lock each other out.
EveryRequestEnds == \A r \in Requests : req[r].step # "idle" ~> req[r].step = "idle"

=============================================================================
