------------------------- MODULE UsageIngestionProofs -------------------------
(* Theorems about the ingestion of usage events, checked by TLAPS. *)
EXTENDS UsageIngestion, SequenceTheorems, FiniteSetTheorems, TLAPS

-----------------------------------------------------------------------------
(* Types *)

LEMMA NoCallTyped ==
  /\ NoAnswers \in [EventIds -> Answer]
  /\ NoCall \in Call
BY DEF NoCall, NoAnswers, Call, Steps, Answer

LEMMA EntryTyped ==
  ASSUME NEW answers \in [EventIds -> Answer], NEW e \in EventIds, NEW status \in Answer
  PROVE  FirstEntry(answers, e, status) \in [EventIds -> Answer]
BY DEF FirstEntry

LEMMA TypeInit == Init => TypeOK
BY NoCallTyped, IngestionAssumption DEF Init, TypeOK

\* A fault counts at most MaxFaults.
LEMMA FaultTyped ==
  ASSUME TypeOK, NEW kind, Fault(kind)
  PROVE  faults' \in 0 .. MaxFaults /\ kind \in deployment.kinds
BY IngestionAssumption DEF Fault, TypeOK

\* What preValidate does with the event at the head of the loop.
LEMMA PreValidateTyped ==
  ASSUME TypeOK, NEW r \in Requests, InDedup(r), PreValidate(r)
  PROVE  req' \in [Requests -> Call]
<1> DEFINE c == req[r]
           e == Head(c.todo)
<1>1. /\ c \in Call /\ c.todo \in Seq(EventIds) /\ c.todo # <<>>
      /\ c.toPersist \in Seq(EventIds) /\ c.rejected \in [EventIds -> Answer]
  BY DEF TypeOK, Call, InDedup
<1>2. e \in EventIds /\ Tail(c.todo) \in Seq(EventIds) /\ Append(c.toPersist, e) \in Seq(EventIds)
  BY <1>1
<1>3. FirstEntry(c.rejected, e, "rejected") \in [EventIds -> Answer]
  BY <1>1, <1>2, EntryTyped DEF Answer
<1>4. /\ [c EXCEPT !.todo = Tail(@), !.toPersist = Append(@, e)] \in Call
      /\ [c EXCEPT !.todo = Tail(@), !.rejected = FirstEntry(@, e, "rejected")] \in Call
  BY <1>1, <1>2, <1>3 DEF Call
<1>5. \/ req' = [req EXCEPT ![r] = [c EXCEPT !.todo = Tail(@), !.toPersist = Append(@, e)]]
      \/ req' = [req EXCEPT ![r] = [c EXCEPT !.todo = Tail(@),
                                             !.rejected = FirstEntry(@, e, "rejected")]]
  BY DEF PreValidate, TypeOK
<1> QED
  BY <1>4, <1>5 DEF TypeOK

\* A call is replaced by another one.
LEMMA CallTyped ==
  ASSUME TypeOK, NEW r \in Requests, NEW d \in Call, req' = [req EXCEPT ![r] = d]
  PROVE  /\ req' \in [Requests -> Call] /\ req'[r] = d
         /\ \A q \in Requests \ {r} : req'[q] = req[q]
BY DEF TypeOK

LEMMA CommitTyped ==
  ASSUME TypeOK, NEW r \in Requests, CommitRows(r)
  PROVE  usageEvents' \in SUBSET EventIds /\ outbox' \in [EventIds -> Nat]
<1>1. req[r].rows \subseteq EventIds /\ usageEvents \subseteq EventIds
  BY DEF TypeOK, Call
<1>2. \A e \in EventIds : outbox[e] \in Nat /\ outbox[e] + 1 \in Nat
  BY DEF TypeOK
<1> QED
  BY <1>1, <1>2 DEF CommitRows

LEMMA TypeStep == TypeOK /\ [Next]_vars => TypeOK'
<1> SUFFICES ASSUME TypeOK, [Next]_vars PROVE TypeOK'
  OBVIOUS
<1>0. /\ usageEvents \in SUBSET EventIds /\ outbox \in [EventIds -> Nat]
      /\ keys \in SUBSET EventIds /\ req \in [Requests -> Call]
      /\ told \in Seq(SUBSET (EventIds \X Answer)) /\ deployment \in Deployments
      /\ submitted \in 0 .. MaxSubmissions /\ faults \in 0 .. MaxFaults
  BY DEF TypeOK
<1>1. CASE UNCHANGED vars
  BY <1>0, <1>1 DEF vars, TypeOK
<1>2. ASSUME NEW r \in Requests, Submit(r) PROVE TypeOK'
  <2>1. PICK b \in deployment.batches :
          req' = [req EXCEPT ![r] = [NoCall EXCEPT !.step = "dedup", !.todo = b]]
    BY <1>2 DEF Submit
  <2>2. b \in Seq(EventIds)
    BY <1>0, IngestionAssumption
  <2>3. [NoCall EXCEPT !.step = "dedup", !.todo = b] \in Call
    BY <2>2, NoCallTyped DEF Call, Steps
  <2>4. submitted' \in 0 .. MaxSubmissions
    BY <1>0, <1>2, IngestionAssumption DEF Submit
  <2>5. req' \in [Requests -> Call]
    BY <2>1, <2>3, CallTyped
  <2> QED
    BY <1>0, <1>2, <2>4, <2>5 DEF Submit, TypeOK
<1>3. ASSUME NEW r \in Requests, req' = [req EXCEPT ![r] = NoCall],
             UNCHANGED <<usageEvents, outbox, keys, told, submitted, deployment>>,
             faults' \in 0 .. MaxFaults
      PROVE  TypeOK'
  BY <1>0, <1>3, NoCallTyped, CallTyped DEF TypeOK
<1>4. ASSUME NEW r \in Requests, DedupNew(r) PROVE TypeOK'
  <2>1. Head(req[r].todo) \in EventIds
    BY <1>0, <1>4 DEF DedupNew, InDedup, Call
  <2>2. req' \in [Requests -> Call]
    BY <1>4, PreValidateTyped DEF DedupNew
  <2> QED
    BY <1>0, <1>4, <2>1, <2>2 DEF DedupNew, TypeOK
<1>5. ASSUME NEW r \in Requests, DedupFails(r) PROVE TypeOK'
  <2>1. Head(req[r].todo) \in EventIds
    BY <1>0, <1>5 DEF DedupFails, InDedup, Call
  <2>2. req' \in [Requests -> Call]
    BY <1>5, PreValidateTyped DEF DedupFails
  <2>3. faults' \in 0 .. MaxFaults
    BY <1>5, FaultTyped DEF DedupFails
  <2> QED
    BY <1>0, <1>5, <2>1, <2>2, <2>3 DEF DedupFails, TypeOK
<1>6. ASSUME NEW r \in Requests, DedupSeen(r) PROVE TypeOK'
  <2> DEFINE c == req[r]
             e == Head(c.todo)
             d == [c EXCEPT !.todo = Tail(@), !.rejected = FirstEntry(@, e, "duplicate")]
  <2>1. c \in Call /\ c.todo # <<>>
    BY <1>0, <1>6 DEF DedupSeen, InDedup
  <2>2. e \in EventIds /\ Tail(c.todo) \in Seq(EventIds)
    BY <2>1 DEF Call
  <2>3. FirstEntry(c.rejected, e, "duplicate") \in [EventIds -> Answer]
    BY <2>1, <2>2, EntryTyped DEF Answer, Call
  <2>4. d \in Call
    BY <2>1, <2>2, <2>3 DEF Call
  <2>5. req' = [req EXCEPT ![r] = d]
    BY <1>6 DEF DedupSeen
  <2>6. req' \in [Requests -> Call]
    BY <2>4, <2>5, CallTyped
  <2> QED
    BY <1>0, <1>6, <2>6 DEF DedupSeen, TypeOK
<1>7. ASSUME NEW r \in Requests, Begin(r) PROVE TypeOK'
  <2> DEFINE d == [req[r] EXCEPT !.step = "insert", !.todo = req[r].toPersist]
  <2>1. d \in Call
    BY <1>0 DEF Call, Steps
  <2>2. req' = [req EXCEPT ![r] = d]
    BY <1>7 DEF Begin
  <2>3. req' \in [Requests -> Call]
    BY <2>1, <2>2, CallTyped
  <2> QED
    BY <1>0, <1>7, <2>3 DEF Begin, TypeOK
<1>8. ASSUME NEW r \in Requests, Insert(r) PROVE TypeOK'
  <2> DEFINE c == req[r]
             e == Head(c.todo)
             d == [c EXCEPT !.todo = Tail(@), !.rows = @ \union {e},
                            !.results = FirstEntry(@, e, "accepted")]
  <2>1. c \in Call /\ c.todo # <<>>
    BY <1>0, <1>8 DEF Insert, Inserting
  <2>2. e \in EventIds /\ Tail(c.todo) \in Seq(EventIds)
    BY <2>1 DEF Call
  <2>3. FirstEntry(c.results, e, "accepted") \in [EventIds -> Answer]
    BY <2>1, <2>2, EntryTyped DEF Answer, Call
  <2>4. d \in Call
    BY <2>1, <2>2, <2>3 DEF Call
  <2>5. req' = [req EXCEPT ![r] = d]
    BY <1>8 DEF Insert
  <2>6. req' \in [Requests -> Call]
    BY <2>4, <2>5, CallTyped
  <2> QED
    BY <1>0, <1>8, <2>6 DEF Insert, TypeOK
<1>9. ASSUME NEW r \in Requests, InsertDuplicate(r) PROVE TypeOK'
  <2> DEFINE c == req[r]
             e == Head(c.todo)
             d == [c EXCEPT !.todo = Tail(@), !.aborted = TRUE,
                            !.results = FirstEntry(@, e, "duplicate")]
  <2>1. c \in Call /\ c.todo # <<>>
    BY <1>0, <1>9 DEF InsertDuplicate, Inserting
  <2>2. e \in EventIds /\ Tail(c.todo) \in Seq(EventIds)
    BY <2>1 DEF Call
  <2>3. FirstEntry(c.results, e, "duplicate") \in [EventIds -> Answer]
    BY <2>1, <2>2, EntryTyped DEF Answer, Call
  <2>4. d \in Call
    BY <2>1, <2>2, <2>3 DEF Call
  <2>5. req' = [req EXCEPT ![r] = d]
    BY <1>9 DEF InsertDuplicate
  <2>6. req' \in [Requests -> Call]
    BY <2>4, <2>5, CallTyped
  <2> QED
    BY <1>0, <1>9, <2>6 DEF InsertDuplicate, TypeOK
<1>10. ASSUME NEW r \in Requests, Commit(r) PROVE TypeOK'
  <2>1. Response(r) \in SUBSET (EventIds \X Answer)
    BY <1>0 DEF Response, Call
  <2>2. told' \in Seq(SUBSET (EventIds \X Answer))
    BY <1>0, <1>10, <2>1 DEF Commit
  <2>3. usageEvents' \in SUBSET EventIds /\ outbox' \in [EventIds -> Nat]
    BY <1>10, CommitTyped DEF Commit
  <2>4. req' \in [Requests -> Call]
    BY <1>10, NoCallTyped, CallTyped DEF Commit
  <2> QED
    BY <1>0, <1>10, <2>2, <2>3, <2>4 DEF Commit, TypeOK
<1>11. ASSUME NEW r \in Requests, TransactionFails(r) PROVE TypeOK'
  <2>1. usageEvents' \in SUBSET EventIds /\ outbox' \in [EventIds -> Nat]
    BY <1>0, <1>11, CommitTyped DEF TransactionFails
  <2>2. req' \in [Requests -> Call]
    BY <1>11, NoCallTyped, CallTyped DEF TransactionFails
  <2>3. faults' \in 0 .. MaxFaults
    BY <1>11, FaultTyped DEF TransactionFails
  <2> QED
    BY <1>0, <1>11, <2>1, <2>2, <2>3 DEF TransactionFails, TypeOK
<1>12. ASSUME NEW e \in EventIds, KeyExpires(e) PROVE TypeOK'
  <2>1. faults' \in 0 .. MaxFaults
    BY <1>12, FaultTyped DEF KeyExpires
  <2> QED
    BY <1>0, <1>12, <2>1 DEF KeyExpires, TypeOK
<1>13. ASSUME NEW r \in Requests, InsertAborted(r) \/ DeadlockDetected(r) PROVE TypeOK'
  BY <1>0, <1>3, <1>13 DEF InsertAborted, DeadlockDetected
<1>14. ASSUME NEW r \in Requests, RequestCrash(r) PROVE TypeOK'
  <2>1. faults' \in 0 .. MaxFaults
    BY <1>14, FaultTyped DEF RequestCrash
  <2> QED
    BY <1>3, <1>14, <2>1 DEF RequestCrash
<1> QED
  BY <1>1, <1>2, <1>4, <1>5, <1>6, <1>7, <1>8, <1>9, <1>10, <1>11, <1>12, <1>13, <1>14
  DEF Next, Ingest, IngestFaults

\* The types of the tables, of the calls of ingest() and of what clients were told.
THEOREM IngestionTypes == Spec => []TypeOK
<1>1. TypeOK /\ [Next]_vars => TypeOK'
  BY TypeStep
<1> QED
  BY TypeInit, <1>1, PTL DEF Spec

-----------------------------------------------------------------------------
(* What steps do to a call *)

Others(r) == \A q \in Requests \ {r} : req'[q] = req[q]

LEMMA SequenceFacts ==
  ASSUME NEW S, NEW s \in Seq(S), s # <<>>
  PROVE  /\ Head(s) \in S /\ Head(s) = s[1] /\ Len(s) \in Nat \ {0}
         /\ Tail(s) \in Seq(S) /\ Len(Tail(s)) = Len(s) - 1
         /\ \A i \in 1 .. (Len(s) - 1) : Tail(s)[i] = s[i + 1]
OBVIOUS

LEMMA AppendFacts ==
  ASSUME NEW S, NEW s \in Seq(S), NEW e \in S
  PROVE  /\ Append(s, e) \in Seq(S) /\ Len(Append(s, e)) = Len(s) + 1
         /\ \A i \in 1 .. Len(s) : Append(s, e)[i] = s[i]
         /\ Append(s, e)[Len(s) + 1] = e
OBVIOUS

\* A batch begins its loop.
LEMMA SubmitCall ==
  ASSUME TypeOK, NEW r \in Requests, Submit(r)
  PROVE  /\ Others(r) /\ req[r].step = "idle"
         /\ req'[r].step = "dedup" /\ req'[r].todo \in deployment.batches
         /\ req'[r].toPersist = <<>> /\ req'[r].rejected = NoAnswers
         /\ req'[r].results = NoAnswers /\ req'[r].rows = {} /\ req'[r].aborted = FALSE
<1>1. PICK b \in deployment.batches :
        req' = [req EXCEPT ![r] = [NoCall EXCEPT !.step = "dedup", !.todo = b]]
  BY DEF Submit
<1> DEFINE d == [NoCall EXCEPT !.step = "dedup", !.todo = b]
<1>2. /\ d.step = "dedup" /\ d.todo = b /\ d.toPersist = <<>> /\ d.rejected = NoAnswers
      /\ d.results = NoAnswers /\ d.rows = {} /\ d.aborted = FALSE
  BY DEF NoCall
<1> HIDE DEF d
<1>3. req'[r] = d /\ Others(r) /\ req[r].step = "idle"
  BY <1>1 DEF TypeOK, Submit, Others, d
<1> QED
  BY <1>2, <1>3

\* The event at the head of the loop is to be persisted, or refused.
LEMMA PreValidateCall ==
  ASSUME TypeOK, NEW r \in Requests, InDedup(r), PreValidate(r)
  PROVE  /\ Others(r) /\ req'[r].step = "dedup" /\ req'[r].todo = Tail(req[r].todo)
         /\ req'[r].results = req[r].results /\ req'[r].rows = req[r].rows
         /\ req'[r].aborted = req[r].aborted
         /\ \/ /\ req'[r].toPersist = Append(req[r].toPersist, Head(req[r].todo))
               /\ req'[r].rejected = req[r].rejected
            \/ /\ Head(req[r].todo) \in deployment.mayReject
               /\ req'[r].toPersist = req[r].toPersist
               /\ req'[r].rejected =
                    FirstEntry(req[r].rejected, Head(req[r].todo), "rejected")
<1> DEFINE c == req[r]
           e == Head(c.todo)
           d1 == [c EXCEPT !.todo = Tail(@), !.toPersist = Append(@, e)]
           d2 == [c EXCEPT !.todo = Tail(@), !.rejected = FirstEntry(@, e, "rejected")]
<1>1. c \in Call /\ c.step = "dedup"
  BY DEF TypeOK, InDedup
<1>2. \/ req' = [req EXCEPT ![r] = d1]
      \/ e \in deployment.mayReject /\ req' = [req EXCEPT ![r] = d2]
  BY DEF PreValidate, TypeOK
<1>3. /\ d1.step = "dedup" /\ d1.todo = Tail(c.todo) /\ d1.toPersist = Append(c.toPersist, e)
      /\ d1.rejected = c.rejected /\ d1.results = c.results /\ d1.rows = c.rows
      /\ d1.aborted = c.aborted
  BY <1>1 DEF Call
<1>4. /\ d2.step = "dedup" /\ d2.todo = Tail(c.todo) /\ d2.toPersist = c.toPersist
      /\ d2.rejected = FirstEntry(c.rejected, e, "rejected") /\ d2.results = c.results
      /\ d2.rows = c.rows /\ d2.aborted = c.aborted
  BY <1>1 DEF Call
<1> HIDE DEF c, e, d1, d2
<1>5. (req'[r] = d1 \/ (e \in deployment.mayReject /\ req'[r] = d2)) /\ Others(r)
  BY <1>2 DEF TypeOK, Others
<1> QED
  BY <1>3, <1>4, <1>5 DEF c, e

LEMMA DedupSeenCall ==
  ASSUME TypeOK, NEW r \in Requests, DedupSeen(r)
  PROVE  /\ Others(r) /\ req'[r].step = "dedup" /\ req'[r].todo = Tail(req[r].todo)
         /\ req'[r].results = req[r].results /\ req'[r].rows = req[r].rows
         /\ req'[r].aborted = req[r].aborted /\ req'[r].toPersist = req[r].toPersist
         /\ req'[r].rejected = FirstEntry(req[r].rejected, Head(req[r].todo), "duplicate")
<1> DEFINE c == req[r]
           d == [c EXCEPT !.todo = Tail(@),
                          !.rejected = FirstEntry(@, Head(c.todo), "duplicate")]
<1>1. c \in Call /\ c.step = "dedup"
  BY DEF TypeOK, DedupSeen, InDedup
<1>2. req' = [req EXCEPT ![r] = d]
  BY DEF DedupSeen
<1>3. /\ d.step = "dedup" /\ d.todo = Tail(c.todo) /\ d.toPersist = c.toPersist
      /\ d.rejected = FirstEntry(c.rejected, Head(c.todo), "duplicate")
      /\ d.results = c.results /\ d.rows = c.rows /\ d.aborted = c.aborted
  BY <1>1 DEF Call
<1> HIDE DEF c, d
<1>4. req'[r] = d /\ Others(r)
  BY <1>2 DEF TypeOK, Others
<1> QED
  BY <1>3, <1>4 DEF c

LEMMA BeginCall ==
  ASSUME TypeOK, NEW r \in Requests, Begin(r)
  PROVE  /\ Others(r) /\ req'[r].step = "insert" /\ req'[r].todo = req[r].toPersist
         /\ req'[r].toPersist = req[r].toPersist /\ req'[r].rejected = req[r].rejected
         /\ req'[r].results = req[r].results /\ req'[r].rows = req[r].rows
         /\ req'[r].aborted = req[r].aborted
<1> DEFINE c == req[r]
           d == [c EXCEPT !.step = "insert", !.todo = c.toPersist]
<1>1. c \in Call
  BY DEF TypeOK
<1>2. req' = [req EXCEPT ![r] = d]
  BY DEF Begin
<1>3. /\ d.step = "insert" /\ d.todo = c.toPersist /\ d.toPersist = c.toPersist
      /\ d.rejected = c.rejected
      /\ d.results = c.results /\ d.rows = c.rows /\ d.aborted = c.aborted
  BY <1>1 DEF Call
<1> HIDE DEF c, d
<1>4. req'[r] = d /\ Others(r)
  BY <1>2 DEF TypeOK, Others
<1> QED
  BY <1>3, <1>4 DEF c

LEMMA InsertCall ==
  ASSUME TypeOK, NEW r \in Requests, Insert(r)
  PROVE  /\ Others(r) /\ req'[r].step = "insert" /\ req'[r].todo = Tail(req[r].todo)
         /\ req'[r].toPersist = req[r].toPersist /\ req'[r].rejected = req[r].rejected
         /\ req'[r].results = FirstEntry(req[r].results, Head(req[r].todo), "accepted")
         /\ req'[r].rows = req[r].rows \union {Head(req[r].todo)}
         /\ req'[r].aborted = req[r].aborted
<1> DEFINE c == req[r]
           e == Head(c.todo)
           d == [c EXCEPT !.todo = Tail(@), !.rows = @ \union {e},
                          !.results = FirstEntry(@, e, "accepted")]
<1>1. c \in Call /\ c.step = "insert"
  BY DEF TypeOK, Insert, Inserting
<1>2. req' = [req EXCEPT ![r] = d]
  BY DEF Insert
<1>3. /\ d.step = "insert" /\ d.todo = Tail(c.todo) /\ d.toPersist = c.toPersist
      /\ d.rejected = c.rejected /\ d.results = FirstEntry(c.results, e, "accepted")
      /\ d.rows = c.rows \union {e} /\ d.aborted = c.aborted
  BY <1>1 DEF Call
<1> HIDE DEF c, e, d
<1>4. req'[r] = d /\ Others(r)
  BY <1>2 DEF TypeOK, Others
<1> QED
  BY <1>3, <1>4 DEF c, e

LEMMA InsertDuplicateCall ==
  ASSUME TypeOK, NEW r \in Requests, InsertDuplicate(r)
  PROVE  /\ Others(r) /\ req'[r].step = "insert" /\ req'[r].todo = Tail(req[r].todo)
         /\ req'[r].toPersist = req[r].toPersist /\ req'[r].rejected = req[r].rejected
         /\ req'[r].results = FirstEntry(req[r].results, Head(req[r].todo), "duplicate")
         /\ req'[r].rows = req[r].rows /\ req'[r].aborted = TRUE
<1> DEFINE c == req[r]
           e == Head(c.todo)
           d == [c EXCEPT !.todo = Tail(@), !.aborted = TRUE,
                          !.results = FirstEntry(@, e, "duplicate")]
<1>1. c \in Call /\ c.step = "insert"
  BY DEF TypeOK, InsertDuplicate, Inserting
<1>2. req' = [req EXCEPT ![r] = d]
  BY DEF InsertDuplicate
<1>3. /\ d.step = "insert" /\ d.todo = Tail(c.todo) /\ d.toPersist = c.toPersist
      /\ d.rejected = c.rejected /\ d.results = FirstEntry(c.results, e, "duplicate")
      /\ d.rows = c.rows /\ d.aborted = TRUE
  BY <1>1 DEF Call
<1> HIDE DEF c, e, d
<1>4. req'[r] = d /\ Others(r)
  BY <1>2 DEF TypeOK, Others
<1> QED
  BY <1>3, <1>4 DEF c, e

\* A call is over, with nothing stored.
Gone(r) ==
    /\ req[r].step # "idle"
    /\ req' = [req EXCEPT ![r] = NoCall]
    /\ UNCHANGED <<usageEvents, outbox, told, deployment, keys>>

LEMMA GoneCall ==
  ASSUME TypeOK, NEW r \in Requests, req' = [req EXCEPT ![r] = NoCall]
  PROVE  /\ Others(r) /\ req'[r] = NoCall /\ req'[r].step = "idle" /\ req'[r].todo = <<>>
         /\ req'[r].toPersist = <<>> /\ req'[r].rejected = NoAnswers
         /\ req'[r].results = NoAnswers /\ req'[r].rows = {} /\ req'[r].aborted = FALSE
BY DEF TypeOK, Others, NoCall

\* Redis forgets a key.
KeysOnly == UNCHANGED <<req, usageEvents, outbox, told, deployment>>

\* Every step, by what it does to one call.
LEMMA StepCases ==
  ASSUME TypeOK, [Next]_vars
  PROVE  \/ KeysOnly /\ keys' \subseteq keys
         \/ \E r \in Requests :
             \/ Submit(r) \/ DedupNew(r) \/ DedupFails(r) \/ DedupSeen(r) \/ Begin(r)
             \/ Insert(r) \/ InsertDuplicate(r) \/ Commit(r) \/ Gone(r)
             \/ TransactionFails(r) /\ CommitRows(r)
<1>1. CASE UNCHANGED vars
  BY <1>1 DEF vars, KeysOnly
<1>2. ASSUME NEW e \in EventIds, KeyExpires(e) PROVE KeysOnly /\ keys' \subseteq keys
  BY <1>2 DEF KeyExpires, KeysOnly
<1>3. ASSUME NEW r \in Requests,
             InsertAborted(r) \/ RequestCrash(r) \/ (TransactionFails(r) /\ ~CommitRows(r))
      PROVE  Gone(r)
  BY <1>3 DEF InsertAborted, Inserting, RequestCrash, TransactionFails, Gone
<1>4. ASSUME NEW r \in Requests, DeadlockDetected(r) PROVE Gone(r)
  BY <1>4 DEF DeadlockDetected, WaitsFor, Inserting, Gone
<1> QED
  BY <1>1, <1>2, <1>3, <1>4 DEF Next, Ingest, IngestFaults

-----------------------------------------------------------------------------
(* The transactional outbox *)

\* What a COMMIT of r would store.
Held(r) == IF req[r].aborted THEN {} ELSE req[r].rows

\* Open transactions hold different events, none of them stored.
Apart ==
    /\ \A r \in Requests : Held(r) \intersect usageEvents = {}
    /\ \A r, q \in Requests : r # q => Held(r) \intersect Held(q) = {}

OutboxInv == OneOutboxRow /\ Apart

LEMMA HeldLess ==
  ASSUME OutboxInv, UNCHANGED <<usageEvents, outbox>>,
         \A r \in Requests : Held(r)' \subseteq Held(r)
  PROVE  OutboxInv'
<1>1. OneOutboxRow'
  BY DEF OutboxInv, OneOutboxRow
<1>2. Apart'
  BY DEF OutboxInv, Apart
<1> QED
  BY <1>1, <1>2 DEF OutboxInv

LEMMA OutboxCommit ==
  ASSUME TypeOK, OutboxInv, NEW r \in Requests, CommitRows(r),
         req' = [req EXCEPT ![r] = NoCall]
  PROVE  OutboxInv'
<1>1. usageEvents' = usageEvents \union Held(r)
  BY DEF CommitRows, Held
<1>2. outbox' = [e \in EventIds |-> outbox[e] + (IF e \in Held(r) THEN 1 ELSE 0)]
  BY DEF CommitRows, Held
<1>3. Held(r) \intersect usageEvents = {}
  BY DEF OutboxInv, Apart
<1>4. OneOutboxRow'
  <2> SUFFICES ASSUME NEW e \in EventIds
               PROVE  outbox'[e] = IF e \in usageEvents' THEN 1 ELSE 0
    BY DEF OneOutboxRow
  <2>1. outbox[e] = IF e \in usageEvents THEN 1 ELSE 0
    BY DEF OutboxInv, OneOutboxRow
  <2> QED
    BY <1>1, <1>2, <1>3, <2>1
<1>5. Held(r)' = {}
  BY GoneCall DEF Held
<1>6. \A q \in Requests \ {r} : Held(q)' = Held(q)
  BY GoneCall DEF Held, Others
<1>7. Apart'
  BY <1>1, <1>5, <1>6 DEF OutboxInv, Apart
<1> QED
  BY <1>4, <1>7 DEF OutboxInv

LEMMA OutboxStep == TypeOK /\ OutboxInv /\ [Next]_vars => OutboxInv'
<1> SUFFICES ASSUME TypeOK, OutboxInv, [Next]_vars PROVE OutboxInv'
  OBVIOUS
<1>1. CASE KeysOnly
  BY <1>1, HeldLess DEF KeysOnly, Held
<1>2. ASSUME NEW r \in Requests, Others(r), UNCHANGED <<usageEvents, outbox>>,
             Held(r)' \subseteq Held(r)
      PROVE  OutboxInv'
  <2>1. \A q \in Requests \ {r} : Held(q)' = Held(q)
    BY <1>2 DEF Others, Held
  <2> QED
    BY <1>2, <2>1, HeldLess
<1>3. ASSUME NEW r \in Requests, Submit(r) PROVE OutboxInv'
  BY <1>2, <1>3, SubmitCall DEF Submit, Held
<1>4. ASSUME NEW r \in Requests, DedupNew(r) \/ DedupFails(r) PROVE OutboxInv'
  BY <1>2, <1>4, PreValidateCall DEF DedupNew, DedupFails, Held
<1>5. ASSUME NEW r \in Requests, DedupSeen(r) PROVE OutboxInv'
  BY <1>2, <1>5, DedupSeenCall DEF DedupSeen, Held
<1>6. ASSUME NEW r \in Requests, Begin(r) PROVE OutboxInv'
  BY <1>2, <1>6, BeginCall DEF Begin, Held
<1>7. ASSUME NEW r \in Requests, Insert(r) PROVE OutboxInv'
  <2> DEFINE e == Head(req[r].todo)
  <2>1. /\ Others(r) /\ Held(r)' = Held(r) \union {e} /\ e \notin usageEvents
        /\ UNCHANGED <<usageEvents, outbox>>
    BY <1>7, InsertCall DEF Insert, Held
  <2>2. \A q \in Requests \ {r} : Held(q)' = Held(q)
    BY <2>1 DEF Others, Held
  <2>3. \A q \in Requests \ {r} : e \notin Held(q)
    BY <1>7 DEF Insert, Blocked, WaitsFor, Held
  <2>4. Apart'
    BY <2>1, <2>2, <2>3 DEF OutboxInv, Apart
  <2>5. OneOutboxRow'
    BY <2>1 DEF OutboxInv, OneOutboxRow
  <2> QED
    BY <2>4, <2>5 DEF OutboxInv
<1>8. ASSUME NEW r \in Requests, InsertDuplicate(r) PROVE OutboxInv'
  BY <1>2, <1>8, InsertDuplicateCall DEF InsertDuplicate, Held
<1>9. ASSUME NEW r \in Requests, Commit(r) PROVE OutboxInv'
  BY <1>9, OutboxCommit DEF Commit
<1>10. ASSUME NEW r \in Requests, Gone(r) PROVE OutboxInv'
  BY <1>2, <1>10, GoneCall DEF Gone, Held
<1>11. ASSUME NEW r \in Requests, TransactionFails(r), CommitRows(r) PROVE OutboxInv'
  BY <1>11, OutboxCommit DEF TransactionFails
<1> QED
  BY <1>1, <1>3, <1>4, <1>5, <1>6, <1>7, <1>8, <1>9, <1>10, <1>11, StepCases

LEMMA OutboxInit == Init => OutboxInv
BY DEF Init, OutboxInv, OneOutboxRow, Apart, Held, NoCall

\* The transactional outbox: a stored event has one outbox row, any other has none,
\* however batches overlap, whatever fails and whichever transactions are aborted.
THEOREM OutboxIsTransactional == Spec => []OneOutboxRow
<1>1. TypeOK /\ OutboxInv /\ [Next]_vars => OutboxInv'
  BY OutboxStep
<1>2. OutboxInv => OneOutboxRow
  BY DEF OutboxInv
<1> QED
  BY OutboxInit, <1>1, <1>2, IngestionTypes, PTL DEF Spec

-----------------------------------------------------------------------------
(* What clients are told *)

Regime == RedisReliable \/ SingleEvents
In(e, s) == \E i \in DOMAIN s : s[i] = e
Once(s) == \A i, j \in DOMAIN s : s[i] = s[j] => i = j

\* Of every call, whatever its surroundings.
Plain(r) ==
    /\ req[r].step = "idle" => req[r].toPersist = <<>> /\ req[r].rejected = NoAnswers
    /\ req[r].step # "insert" =>
         req[r].rows = {} /\ ~req[r].aborted /\ req[r].results = NoAnswers
    /\ \A e \in EventIds :
         /\ req[r].rejected[e] \in {"none", "rejected", "duplicate"}
         /\ req[r].results[e] = "accepted" => e \in req[r].rows

\* A call about a single event: there is nothing else in its transaction.
Alone(r) ==
    /\ Len(req[r].todo) <= 1 /\ Len(req[r].toPersist) <= 1
    /\ req[r].step = "dedup" /\ req[r].todo # <<>> => req[r].toPersist = <<>>
    /\ req[r].step = "insert" /\ req[r].todo # <<>> => req[r].rows = {} /\ ~req[r].aborted
    /\ req[r].aborted => req[r].rows = {}

\* With Redis, what a call is about to store is new, and no other call's.
Stores(r, e) == In(e, req[r].toPersist)

Fresh(r) ==
    /\ ~req[r].aborted
    /\ Once(req[r].toPersist)
    /\ \A e \in EventIds : Stores(r, e) => e \in keys /\ e \notin usageEvents
    /\ \A q \in Requests \ {r} : \A e \in EventIds : ~(Stores(r, e) /\ Stores(q, e))
    /\ \A e \in req[r].rows : Stores(r, e)
    /\ req[r].step = "insert" =>
         /\ Once(req[r].todo)
         /\ \A e \in EventIds : In(e, req[r].todo) => Stores(r, e) /\ e \notin req[r].rows

PlainInv == \A r \in Requests : Plain(r)
AloneInv == SingleEvents => \A r \in Requests : Alone(r)
FreshInv == RedisReliable => usageEvents \subseteq keys /\ \A r \in Requests : Fresh(r)

LEMMA CallsInit == Init => PlainInv /\ AloneInv /\ FreshInv
<1> SUFFICES ASSUME Init PROVE PlainInv /\ AloneInv /\ FreshInv
  OBVIOUS
<1>1. /\ usageEvents = {}
      /\ \A r \in Requests :
           /\ req[r].step = "idle" /\ req[r].todo = <<>> /\ req[r].toPersist = <<>>
           /\ req[r].rejected = NoAnswers /\ req[r].results = NoAnswers /\ req[r].rows = {}
           /\ req[r].aborted = FALSE
  BY DEF Init, NoCall
<1>2. PlainInv
  BY <1>1 DEF PlainInv, Plain, NoAnswers
<1>3. AloneInv
  BY <1>1 DEF AloneInv, Alone
<1>4. FreshInv
  BY <1>1 DEF FreshInv, Fresh, Stores, In, Once
<1> QED
  BY <1>2, <1>3, <1>4

\* The invariants of a call are preserved by the steps of another.
LEMMA PlainOthers ==
  ASSUME PlainInv, NEW r \in Requests, Others(r), Plain(r)'
  PROVE  PlainInv'
BY DEF PlainInv, Plain, Others

LEMMA PlainStep == TypeOK /\ PlainInv /\ [Next]_vars => PlainInv'
<1> SUFFICES ASSUME TypeOK, PlainInv, [Next]_vars PROVE PlainInv'
  OBVIOUS
<1>1. CASE KeysOnly
  BY <1>1 DEF KeysOnly, PlainInv, Plain
<1>0. ASSUME NEW answers \in [EventIds -> Answer], NEW x \in EventIds, NEW status \in Answer
      PROVE  \A e \in EventIds :
               FirstEntry(answers, x, status)[e] =
                 IF e = x /\ answers[x] = "none" THEN status ELSE answers[e]
  BY DEF FirstEntry
<1>2. ASSUME NEW r \in Requests, Submit(r) PROVE PlainInv'
  <2>1. Plain(r)'
    BY <1>2, SubmitCall, \A e \in EventIds : NoAnswers[e] = "none" DEF Plain, NoAnswers
  <2> QED
    BY <1>2, <2>1, SubmitCall, PlainOthers
<1>3. ASSUME NEW r \in Requests, DedupNew(r) \/ DedupFails(r) PROVE PlainInv'
  <2>1. InDedup(r) /\ PreValidate(r) /\ req[r].step = "dedup" /\ Plain(r)
    BY <1>3 DEF DedupNew, DedupFails, InDedup, PlainInv
  <2>2. Head(req[r].todo) \in EventIds /\ req[r].rejected \in [EventIds -> Answer]
    BY <2>1 DEF InDedup, TypeOK, Call
  <2>3. \A e \in EventIds : FirstEntry(req[r].rejected, Head(req[r].todo), "rejected")[e]
                              \in {"none", "rejected", "duplicate"}
    BY <2>1, <2>2, <1>0 DEF Answer, Plain
  <2>4. Plain(r)'
    BY <2>1, <2>3, PreValidateCall DEF Plain
  <2> QED
    BY <2>1, <2>4, PreValidateCall, PlainOthers
<1>4. ASSUME NEW r \in Requests, DedupSeen(r) PROVE PlainInv'
  <2>1. InDedup(r) /\ req[r].step = "dedup" /\ Plain(r)
    BY <1>4 DEF DedupSeen, InDedup, PlainInv
  <2>2. Head(req[r].todo) \in EventIds /\ req[r].rejected \in [EventIds -> Answer]
    BY <2>1 DEF InDedup, TypeOK, Call
  <2>3. \A e \in EventIds : FirstEntry(req[r].rejected, Head(req[r].todo), "duplicate")[e]
                              \in {"none", "rejected", "duplicate"}
    BY <2>1, <2>2, <1>0 DEF Answer, Plain
  <2>4. Plain(r)'
    BY <1>4, <2>1, <2>3, DedupSeenCall DEF Plain
  <2> QED
    BY <1>4, <2>4, DedupSeenCall, PlainOthers
<1>5. ASSUME NEW r \in Requests, Begin(r) PROVE PlainInv'
  <2>1. req[r].step = "dedup" /\ Plain(r)
    BY <1>5 DEF Begin, PlainInv
  <2>2. Plain(r)'
    BY <1>5, <2>1, BeginCall DEF Plain, NoAnswers
  <2> QED
    BY <1>5, <2>2, BeginCall, PlainOthers
<1>6. ASSUME NEW r \in Requests, Insert(r) PROVE PlainInv'
  <2>1. /\ req[r].step = "insert" /\ Plain(r) /\ req[r].todo # <<>>
        /\ req[r].results \in [EventIds -> Answer] /\ req[r].todo \in Seq(EventIds)
    BY <1>6 DEF Insert, Inserting, PlainInv, TypeOK, Call
  <2>2. \A e \in EventIds : FirstEntry(req[r].results, Head(req[r].todo), "accepted")[e] =
                            "accepted" => e \in req[r].rows \union {Head(req[r].todo)}
    BY <2>1, <1>0, Head(req[r].todo) \in EventIds DEF Answer, Plain
  <2>3. Plain(r)'
    BY <1>6, <2>1, <2>2, InsertCall DEF Plain
  <2> QED
    BY <1>6, <2>3, InsertCall, PlainOthers
<1>7. ASSUME NEW r \in Requests, InsertDuplicate(r) PROVE PlainInv'
  <2>1. /\ req[r].step = "insert" /\ Plain(r) /\ req[r].todo # <<>>
        /\ req[r].results \in [EventIds -> Answer] /\ req[r].todo \in Seq(EventIds)
    BY <1>7 DEF InsertDuplicate, Inserting, PlainInv, TypeOK, Call
  <2>2. \A e \in EventIds : FirstEntry(req[r].results, Head(req[r].todo), "duplicate")[e] =
                            "accepted" => e \in req[r].rows
    BY <2>1, <1>0, Head(req[r].todo) \in EventIds DEF Answer, Plain
  <2>3. Plain(r)'
    BY <1>7, <2>1, <2>2, InsertDuplicateCall DEF Plain
  <2> QED
    BY <1>7, <2>3, InsertDuplicateCall, PlainOthers
<1>8. ASSUME NEW r \in Requests, req' = [req EXCEPT ![r] = NoCall] PROVE PlainInv'
  <2>1. Plain(r)'
    BY <1>8, GoneCall, \A e \in EventIds : NoAnswers[e] = "none" DEF Plain, NoAnswers
  <2> QED
    BY <1>8, <2>1, GoneCall, PlainOthers
<1> QED
  BY <1>1, <1>2, <1>3, <1>4, <1>5, <1>6, <1>7, <1>8, StepCases
  DEF Commit, Gone, TransactionFails

LEMMA SurroundingsStay == [Next]_vars => deployment' = deployment
BY DEF Next, vars, Submit, Ingest, IngestFaults, DedupNew, DedupSeen, Begin, Insert,
       InsertDuplicate, InsertAborted, Commit, DeadlockDetected, DedupFails, TransactionFails,
       RequestCrash, KeyExpires

LEMMA ShortTail ==
  ASSUME NEW S, NEW s \in Seq(S), s # <<>>, Len(s) <= 1
  PROVE  Len(s) = 1 /\ Tail(s) = <<>>
<1>1. Len(s) \in Nat \ {0}
  OBVIOUS
<1>2. Len(s) = 1
  BY <1>1
<1>3. Tail(s) \in Seq(S) /\ Len(Tail(s)) = 0
  BY <1>2
<1> QED
  BY <1>2, <1>3, EmptySeq

LEMMA NothingLeft == Len(<<>>) = 0
OBVIOUS

LEMMA AloneStep == TypeOK /\ PlainInv /\ AloneInv /\ [Next]_vars => AloneInv'
<1> SUFFICES ASSUME TypeOK, PlainInv, AloneInv, [Next]_vars, SingleEvents
             PROVE  \A r \in Requests : Alone(r)'
  BY SurroundingsStay DEF AloneInv, SingleEvents
<1>0. \A r \in Requests : /\ Alone(r) /\ req[r].todo \in Seq(EventIds)
                          /\ req[r].toPersist \in Seq(EventIds)
  BY DEF AloneInv, TypeOK, Call
<1>1. ASSUME NEW r \in Requests, Others(r), Alone(r)' PROVE \A q \in Requests : Alone(q)'
  BY <1>0, <1>1 DEF Alone, Others
<1>2. CASE KeysOnly
  BY <1>0, <1>2 DEF KeysOnly, Alone
<1>3. ASSUME NEW r \in Requests, Submit(r) PROVE \A q \in Requests : Alone(q)'
  <2>1. Len(req'[r].todo) = 1
    BY <1>3, SubmitCall DEF SingleEvents
  <2>2. Alone(r)'
    BY <1>3, <2>1, SubmitCall, NothingLeft, 1 <= 1, 0 <= 1 DEF Alone
  <2> QED
    BY <1>1, <1>3, <2>2, SubmitCall
<1>4. ASSUME NEW r \in Requests, DedupNew(r) \/ DedupFails(r)
      PROVE  \A q \in Requests : Alone(q)'
  <2>1. InDedup(r) /\ PreValidate(r) /\ req[r].step = "dedup" /\ req[r].todo # <<>>
    BY <1>4 DEF DedupNew, DedupFails, InDedup
  <2>2. req[r].toPersist = <<>> /\ Len(req[r].todo) <= 1 /\ req[r].todo \in Seq(EventIds)
    BY <1>0, <2>1 DEF Alone
  <2>3. Tail(req[r].todo) = <<>>
    BY <2>1, <2>2, ShortTail
  <2>4. Len(Append(req[r].toPersist, Head(req[r].todo))) = 1
    BY <2>2
  <2>5. ~req[r].aborted
    BY <2>1 DEF PlainInv, Plain
  <2>6. Alone(r)'
    BY <2>1, <2>2, <2>3, <2>4, <2>5, PreValidateCall, NothingLeft, 1 <= 1, 0 <= 1 DEF Alone
  <2> QED
    BY <1>1, <2>1, <2>6, PreValidateCall
<1>5. ASSUME NEW r \in Requests, DedupSeen(r) PROVE \A q \in Requests : Alone(q)'
  <2>1. req[r].step = "dedup" /\ req[r].todo # <<>>
    BY <1>5 DEF DedupSeen, InDedup
  <2>2. req[r].toPersist = <<>> /\ Len(req[r].todo) <= 1 /\ req[r].todo \in Seq(EventIds)
    BY <1>0, <2>1 DEF Alone
  <2>3. Tail(req[r].todo) = <<>>
    BY <2>1, <2>2, ShortTail
  <2>4. ~req[r].aborted
    BY <2>1 DEF PlainInv, Plain
  <2>5. Alone(r)'
    BY <1>5, <2>2, <2>3, <2>4, DedupSeenCall, NothingLeft, 0 <= 1 DEF Alone
  <2> QED
    BY <1>1, <1>5, <2>5, DedupSeenCall
<1>6. ASSUME NEW r \in Requests, Begin(r) PROVE \A q \in Requests : Alone(q)'
  <2>1. req[r].rows = {} /\ ~req[r].aborted
    BY <1>6 DEF Begin, PlainInv, Plain
  <2>2. Alone(r)'
    BY <1>0, <1>6, <2>1, BeginCall DEF Alone
  <2> QED
    BY <1>1, <1>6, <2>2, BeginCall
<1>7. ASSUME NEW r \in Requests, Insert(r) \/ InsertDuplicate(r)
      PROVE  \A q \in Requests : Alone(q)'
  <2>1. /\ req[r].step = "insert" /\ req[r].todo # <<>>
        /\ req[r].rows = {} /\ ~req[r].aborted /\ Len(req[r].todo) <= 1
        /\ Len(req[r].toPersist) <= 1 /\ req[r].todo \in Seq(EventIds)
    BY <1>0, <1>7 DEF Insert, InsertDuplicate, Inserting, Alone
  <2>2. Tail(req[r].todo) = <<>>
    BY <2>1, ShortTail
  <2>3. CASE Insert(r)
    <3>1. Alone(r)'
      BY <2>1, <2>2, <2>3, InsertCall, NothingLeft, 0 <= 1 DEF Alone
    <3> QED
      BY <1>1, <2>3, <3>1, InsertCall
  <2>4. CASE InsertDuplicate(r)
    <3>1. Alone(r)'
      BY <2>1, <2>2, <2>4, InsertDuplicateCall, NothingLeft, 0 <= 1 DEF Alone
    <3> QED
      BY <1>1, <2>4, <3>1, InsertDuplicateCall
  <2> QED
    BY <1>7, <2>3, <2>4
<1>8. ASSUME NEW r \in Requests, req' = [req EXCEPT ![r] = NoCall]
      PROVE  \A q \in Requests : Alone(q)'
  <2>1. Alone(r)'
    BY <1>8, GoneCall, NothingLeft, 0 <= 1 DEF Alone
  <2> QED
    BY <1>1, <1>8, <2>1, GoneCall
<1> QED
  BY <1>2, <1>3, <1>4, <1>5, <1>6, <1>7, <1>8, StepCases DEF Commit, Gone, TransactionFails

LEMMA InAppend ==
  ASSUME NEW S, NEW s \in Seq(S), NEW e \in S
  PROVE  /\ \A x \in S : In(x, Append(s, e)) <=> In(x, s) \/ x = e
         /\ Once(s) /\ ~In(e, s) => Once(Append(s, e))
<1>1. /\ DOMAIN s = 1 .. Len(s) /\ Len(s) \in Nat
      /\ DOMAIN Append(s, e) = 1 .. (Len(s) + 1)
      /\ \A i \in 1 .. Len(s) : Append(s, e)[i] = s[i]
      /\ Append(s, e)[Len(s) + 1] = e
  BY AppendProperties, LenProperties
<1>2. \A i \in 1 .. (Len(s) + 1) : i \in 1 .. Len(s) \/ i = Len(s) + 1
  BY <1>1
<1> QED
  BY <1>1, <1>2 DEF In, Once

LEMMA InTail ==
  ASSUME NEW S, NEW s \in Seq(S), s # <<>>
  PROVE  /\ Head(s) \in S /\ Tail(s) \in Seq(S)
         /\ \A x \in S : In(x, s) <=> x = Head(s) \/ In(x, Tail(s))
         /\ Once(s) => Once(Tail(s)) /\ ~In(Head(s), Tail(s))
<1>1. /\ Head(s) \in S /\ Tail(s) \in Seq(S) /\ Head(s) = s[1]
      /\ DOMAIN s = 1 .. Len(s) /\ Len(s) \in Nat \ {0}
      /\ DOMAIN Tail(s) = 1 .. (Len(s) - 1)
      /\ \A i \in 1 .. (Len(s) - 1) : Tail(s)[i] = s[i + 1]
  BY SequenceFacts, LenProperties, HeadTailProperties
<1>2. \A i \in 1 .. Len(s) : i = 1 \/ (i - 1 \in 1 .. (Len(s) - 1) /\ i = (i - 1) + 1)
  BY <1>1
<1>3. \A i \in 1 .. (Len(s) - 1) : i + 1 \in 1 .. Len(s) /\ i + 1 # 1 /\ 1 \in 1 .. Len(s)
  BY <1>1
<1>4. ASSUME NEW x \in S PROVE In(x, s) <=> (x = Head(s) \/ In(x, Tail(s)))
  <2>1. ASSUME In(x, s) PROVE x = Head(s) \/ In(x, Tail(s))
    <3>1. PICK i \in 1 .. Len(s) : s[i] = x
      BY <1>1, <2>1 DEF In
    <3>2. ASSUME i # 1 PROVE In(x, Tail(s))
      <4>1. i - 1 \in 1 .. (Len(s) - 1) /\ s[(i - 1) + 1] = x
        BY <1>2, <3>1, <3>2
      <4>2. Tail(s)[i - 1] = x
        BY <1>1, <4>1
      <4> QED
        BY <1>1, <4>1, <4>2 DEF In
    <3> QED
      BY <1>1, <3>1, <3>2
  <2>2. ASSUME In(x, Tail(s)) PROVE In(x, s)
    <3>1. PICK i \in 1 .. (Len(s) - 1) : Tail(s)[i] = x
      BY <1>1, <2>2 DEF In
    <3> QED
      BY <1>1, <1>3, <3>1 DEF In
  <2>3. ASSUME x = Head(s) PROVE In(x, s)
    BY <1>1, <2>3, 1 \in 1 .. Len(s) DEF In
  <2> QED
    BY <2>1, <2>2, <2>3
<1>5. ASSUME Once(s) PROVE Once(Tail(s)) /\ ~In(Head(s), Tail(s))
  <2>1. \A i, j \in 1 .. (Len(s) - 1) : i + 1 = j + 1 => i = j
    BY <1>1
  <2>2. Once(Tail(s))
    BY <1>1, <1>3, <1>5, <2>1 DEF Once
  <2>3. ~In(Head(s), Tail(s))
    BY <1>1, <1>3, <1>5 DEF Once, In
  <2> QED
    BY <2>2, <2>3
<1> QED
  BY <1>1, <1>4, <1>5

\* While Redis answers and forgets nothing, keys are only added.
LEMMA KeysGrow == RedisReliable /\ [Next]_vars => keys \subseteq keys' /\ \A r \in Requests : ~DedupFails(r)
BY DEF RedisReliable, Fault, Next, vars, Submit, Ingest, IngestFaults, DedupNew, DedupSeen,
       Begin, Insert, InsertDuplicate, InsertAborted, Commit, DeadlockDetected, DedupFails,
       TransactionFails, RequestCrash, KeyExpires

LEMMA FreshOthers ==
  ASSUME \A q \in Requests : Fresh(q), UNCHANGED usageEvents, keys \subseteq keys',
         NEW r \in Requests, Others(r), Fresh(r)'
  PROVE  \A q \in Requests : Fresh(q)'
<1> SUFFICES ASSUME NEW q \in Requests \ {r} PROVE Fresh(q)'
  OBVIOUS
<1>1. req'[q] = req[q] /\ Fresh(q)
  BY DEF Others
<1>2. \A e \in EventIds : Stores(q, e)' <=> Stores(q, e)
  BY <1>1 DEF Stores
<1>3. ASSUME NEW p \in Requests \ {q}, NEW e \in EventIds PROVE ~(Stores(q, e)' /\ Stores(p, e)')
  <2>1. CASE p = r
    BY <2>1 DEF Fresh
  <2>2. CASE p # r
    BY <1>1, <1>2, <2>2 DEF Fresh, Others, Stores
  <2> QED
    BY <2>1, <2>2
<1>4. \A e \in EventIds : Stores(q, e)' => e \in keys' /\ e \notin usageEvents'
  BY <1>1, <1>2 DEF Fresh
<1>5. \A e \in req'[q].rows : Stores(q, e)'
  BY <1>1 DEF Fresh, Stores
<1>6. req'[q].step = "insert" =>
        /\ Once(req'[q].todo)
        /\ \A e \in EventIds : In(e, req'[q].todo) => Stores(q, e)' /\ e \notin req'[q].rows
  BY <1>1, <1>2 DEF Fresh
<1>7. ~req'[q].aborted /\ Once(req'[q].toPersist)
  BY <1>1 DEF Fresh
<1> QED
  BY <1>3, <1>4, <1>5, <1>6, <1>7 DEF Fresh

\* A call that stores no more than before, in a loop or at its end.
LEMMA FreshLess ==
  ASSUME \A q \in Requests : Fresh(q), UNCHANGED usageEvents, keys \subseteq keys',
         NEW r \in Requests, Others(r), ~req'[r].aborted, req'[r].rows = {},
         req'[r].step # "insert",
         req'[r].toPersist = <<>> \/ req'[r].toPersist = req[r].toPersist
  PROVE  \A q \in Requests : Fresh(q)'
<1>1. Fresh(r)
  OBVIOUS
<1>2. Once(req'[r].toPersist)
  BY <1>1 DEF Fresh, Once
<1>3. \A e \in EventIds : Stores(r, e)' => Stores(r, e)
  BY DEF Stores, In
<1>4. \A q \in Requests \ {r}, e \in EventIds : Stores(q, e)' <=> Stores(q, e)
  BY DEF Stores, Others
<1>5. Fresh(r)'
  BY <1>1, <1>2, <1>3, <1>4 DEF Fresh
<1> QED
  BY <1>5, FreshOthers

\* A call whose new key is its own: nobody stores the event, or has stored it.
LEMMA FreshNew ==
  ASSUME TypeOK, PlainInv, usageEvents \subseteq keys, \A q \in Requests : Fresh(q),
         NEW r \in Requests, DedupNew(r)
  PROVE  \A q \in Requests : Fresh(q)'
<1> DEFINE e == Head(req[r].todo)
<1>1. /\ InDedup(r) /\ PreValidate(r) /\ req[r].step = "dedup" /\ e \notin keys
      /\ keys' = keys \union {e} /\ UNCHANGED usageEvents /\ Fresh(r)
      /\ ~req[r].aborted /\ req[r].rows = {} /\ e \in EventIds
      /\ req[r].toPersist \in Seq(EventIds)
  BY DEF DedupNew, InDedup, PlainInv, Plain, TypeOK, Call
<1>2. CASE req'[r].toPersist = req[r].toPersist
  BY <1>1, <1>2, PreValidateCall, FreshLess
<1>3. CASE req'[r].toPersist = Append(req[r].toPersist, e)
  <2>1. \A x \in EventIds : Stores(r, x)' <=> (Stores(r, x) \/ x = e)
    BY <1>1, <1>3, InAppend DEF Stores
  <2>2. \A q \in Requests : ~Stores(q, e)
    BY <1>1 DEF Fresh
  <2>3. Once(req'[r].toPersist)
    BY <1>1, <1>3, <2>2, InAppend DEF Fresh, Stores
  <2>4. /\ Others(r) /\ ~req'[r].aborted /\ req'[r].rows = {} /\ req'[r].step = "dedup"
    BY <1>1, PreValidateCall
  <2>5. \A q \in Requests \ {r}, x \in EventIds : Stores(q, x)' <=> Stores(q, x)
    BY <2>4 DEF Stores, Others
  <2>6. \A x \in EventIds : Stores(r, x)' => x \in keys' /\ x \notin usageEvents'
    BY <1>1, <2>1 DEF Fresh
  <2>7. \A q \in Requests \ {r}, x \in EventIds : ~(Stores(r, x)' /\ Stores(q, x)')
    BY <1>1, <2>1, <2>2, <2>5 DEF Fresh
  <2>8. Fresh(r)'
    BY <2>3, <2>4, <2>6, <2>7 DEF Fresh
  <2> QED
    BY <1>1, <2>4, <2>8, FreshOthers
<1> QED
  BY <1>1, <1>2, <1>3, PreValidateCall

LEMMA FreshStep == TypeOK /\ PlainInv /\ FreshInv /\ [Next]_vars => FreshInv'
<1> SUFFICES ASSUME TypeOK, PlainInv, [Next]_vars, RedisReliable,
                    usageEvents \subseteq keys, \A r \in Requests : Fresh(r)
             PROVE  (usageEvents \subseteq keys)' /\ \A r \in Requests : Fresh(r)'
  BY SurroundingsStay DEF FreshInv, RedisReliable
<1>0. keys \subseteq keys' /\ \A r \in Requests : ~DedupFails(r)
  BY KeysGrow
<1>1. CASE KeysOnly
  BY <1>0, <1>1 DEF KeysOnly, Fresh, Stores
<1>2. ASSUME NEW r \in Requests, Submit(r) \/ DedupSeen(r) \/ Gone(r)
      PROVE  usageEvents' = usageEvents /\ \A q \in Requests : Fresh(q)'
  <2>1. CASE Submit(r)
    BY <1>0, <2>1, SubmitCall, FreshLess DEF Submit
  <2>2. CASE DedupSeen(r)
    <3>1. req[r].step = "dedup" /\ ~req[r].aborted /\ req[r].rows = {} /\ UNCHANGED usageEvents
      BY <2>2 DEF DedupSeen, InDedup, PlainInv, Plain
    <3> QED
      BY <1>0, <2>2, <3>1, DedupSeenCall, FreshLess
  <2>3. CASE Gone(r)
    BY <1>0, <2>3, GoneCall, FreshLess DEF Gone
  <2> QED
    BY <1>2, <2>1, <2>2, <2>3
<1>3. ASSUME NEW r \in Requests, DedupNew(r)
      PROVE  usageEvents' = usageEvents /\ \A q \in Requests : Fresh(q)'
  BY <1>3, FreshNew DEF DedupNew
<1>4. ASSUME NEW r \in Requests, Begin(r)
      PROVE  usageEvents' = usageEvents /\ \A q \in Requests : Fresh(q)'
  <2>1. Fresh(r) /\ req[r].rows = {} /\ UNCHANGED usageEvents
    BY <1>4 DEF Begin, PlainInv, Plain
  <2>2. \A q \in Requests, e \in EventIds : Stores(q, e)' <=> Stores(q, e)
    BY <1>4, BeginCall DEF Stores, Others
  <2>3. \A e \in EventIds : In(e, req'[r].todo) => Stores(r, e)'
    BY <1>4, BeginCall DEF Stores
  <2>4. Fresh(r)'
    BY <1>0, <1>4, <2>1, <2>2, <2>3, BeginCall DEF Fresh
  <2> QED
    BY <1>0, <1>4, <2>1, <2>4, BeginCall, FreshOthers
<1>5. ASSUME NEW r \in Requests, Insert(r)
      PROVE  usageEvents' = usageEvents /\ \A q \in Requests : Fresh(q)'
  <2> DEFINE e == Head(req[r].todo)
  <2>1. /\ Fresh(r) /\ req[r].step = "insert" /\ UNCHANGED usageEvents
        /\ req[r].todo \in Seq(EventIds) /\ req[r].todo # <<>>
    BY <1>5 DEF Insert, Inserting, TypeOK, Call
  <2>2. /\ e \in EventIds /\ Once(Tail(req[r].todo)) /\ ~In(e, Tail(req[r].todo))
        /\ \A x \in EventIds : In(x, Tail(req[r].todo)) => In(x, req[r].todo)
        /\ In(e, req[r].todo)
    BY <2>1, InTail DEF Fresh
  <2>3. \A q \in Requests, x \in EventIds : Stores(q, x)' <=> Stores(q, x)
    BY <1>5, InsertCall DEF Stores, Others
  <2>4. req[r].rows \subseteq EventIds /\ \A x \in req'[r].rows : Stores(r, x)'
    BY <1>5, <2>1, <2>2, <2>3, InsertCall DEF Fresh, TypeOK, Call
  <2>5. \A x \in EventIds : In(x, req'[r].todo) => Stores(r, x)' /\ x \notin req'[r].rows
    BY <1>5, <2>1, <2>2, <2>3, InsertCall DEF Fresh
  <2>6. Once(req'[r].todo) /\ Once(req'[r].toPersist) /\ ~req'[r].aborted
    BY <1>5, <2>1, <2>2, InsertCall DEF Fresh
  <2>7. Fresh(r)'
    BY <1>0, <2>1, <2>3, <2>4, <2>5, <2>6 DEF Fresh
  <2> QED
    BY <1>0, <1>5, <2>1, <2>7, InsertCall, FreshOthers
<1>6. ASSUME NEW r \in Requests, InsertDuplicate(r) PROVE FALSE
  <2>1. /\ Fresh(r) /\ req[r].step = "insert"
        /\ req[r].todo \in Seq(EventIds) /\ req[r].todo # <<>>
    BY <1>6 DEF InsertDuplicate, Inserting, TypeOK, Call
  <2>2. Head(req[r].todo) \in EventIds /\ In(Head(req[r].todo), req[r].todo)
    BY <2>1, InTail
  <2> QED
    BY <1>6, <2>1, <2>2 DEF InsertDuplicate, Fresh
<1>7. ASSUME NEW r \in Requests, CommitRows(r), req' = [req EXCEPT ![r] = NoCall]
      PROVE  (usageEvents \subseteq keys)' /\ \A q \in Requests : Fresh(q)'
  <2>1. usageEvents' \subseteq usageEvents \union req[r].rows /\ req[r].rows \subseteq EventIds
    BY <1>7 DEF CommitRows, TypeOK, Call
  <2>2. \A e \in req[r].rows : e \in EventIds /\ Stores(r, e) /\ e \in keys
    BY <2>1 DEF Fresh
  <2>3. Fresh(r)'
    <3>1. /\ req'[r].toPersist = <<>> /\ req'[r].rows = {} /\ ~req'[r].aborted
          /\ req'[r].step # "insert"
      BY <1>7, GoneCall
    <3>2. Once(req'[r].toPersist) /\ \A e \in EventIds : ~Stores(r, e)'
      BY <3>1 DEF Once, Stores, In
    <3> QED
      BY <3>1, <3>2 DEF Fresh
  <2>4. ASSUME NEW q \in Requests \ {r} PROVE Fresh(q)'
    <3>1. req'[q] = req[q] /\ Fresh(q)
      BY <1>7, GoneCall DEF Others
    <3>2. \A e \in EventIds : Stores(q, e)' <=> Stores(q, e)
      BY <3>1 DEF Stores
    <3>3. \A e \in EventIds : Stores(q, e) => e \notin usageEvents'
      BY <2>1, <2>2, <3>1 DEF Fresh
    <3>4. req'[r].toPersist = <<>> /\ \A p \in Requests \ {r} : req'[p] = req[p]
      BY <1>7, GoneCall DEF Others
    <3>5. ASSUME NEW p \in Requests \ {q}, NEW e \in EventIds, Stores(p, e)' PROVE Stores(p, e)
      BY <3>4, <3>5 DEF Stores, In
    <3>6. \A p \in Requests \ {q}, e \in EventIds : ~(Stores(q, e)' /\ Stores(p, e)')
      BY <3>1, <3>2, <3>5 DEF Fresh
    <3>7. \A e \in EventIds : Stores(q, e)' => e \in keys' /\ e \notin usageEvents'
      BY <1>0, <3>1, <3>2, <3>3 DEF Fresh
    <3>8. \A e \in req'[q].rows : Stores(q, e)'
      BY <3>1 DEF Fresh, Stores
    <3>9. req'[q].step = "insert" =>
            /\ Once(req'[q].todo)
            /\ \A e \in EventIds : In(e, req'[q].todo) => Stores(q, e)' /\ e \notin req'[q].rows
      BY <3>1, <3>2 DEF Fresh
    <3>10. ~req'[q].aborted /\ Once(req'[q].toPersist)
      BY <3>1 DEF Fresh
    <3> QED
      BY <3>6, <3>7, <3>8, <3>9, <3>10 DEF Fresh
  <2> QED
    BY <1>0, <2>1, <2>2, <2>3, <2>4
<1> QED
  BY <1>0, <1>1, <1>2, <1>3, <1>4, <1>5, <1>6, <1>7, StepCases DEF Commit, TransactionFails

\* In these regimes an aborted transaction had nothing else in it.
LEMMA AbortedIsEmpty ==
  ASSUME Regime, AloneInv, FreshInv, NEW r \in Requests, req[r].aborted
  PROVE  req[r].rows = {}
<1>1. CASE RedisReliable
  BY <1>1 DEF FreshInv, Fresh
<1>2. CASE SingleEvents
  BY <1>2 DEF AloneInv, Alone
<1> QED
  BY <1>1, <1>2 DEF Regime

LEMMA ToldAppend ==
  ASSUME NEW S, told \in Seq(S), NEW answers \in S, told' = Append(told, answers)
  PROVE  /\ DOMAIN told = 1 .. Len(told) /\ DOMAIN told' = 1 .. (Len(told) + 1)
         /\ Len(told) \in Nat
         /\ \A i \in 1 .. Len(told) : told'[i] = told[i]
         /\ told'[Len(told) + 1] = answers
BY AppendProperties, LenProperties

\* An answer to a request is an older one, or is in the last response.
LEMMA AnswerAppend ==
  ASSUME NEW S, told \in Seq(S), NEW answers \in S, told' = Append(told, answers),
         NEW x, NEW i \in DOMAIN told', x \in told'[i]
  PROVE  \/ i \in DOMAIN told /\ x \in told[i]
         \/ i = Len(told) + 1 /\ x \in answers
<1>1. i \in 1 .. (Len(told) + 1) /\ Len(told) \in Nat
  BY ToldAppend
<1>2. i \in 1 .. Len(told) \/ i = Len(told) + 1
  BY <1>1
<1> QED
  BY <1>2, ToldAppend

LEMMA ResponseTyped ==
  ASSUME TypeOK, NEW r \in Requests
  PROVE  Response(r) \in SUBSET (EventIds \X Answer)
BY DEF TypeOK, Response, Call

\* What a response calls accepted, its own transaction has inserted.
LEMMA AcceptedIsInserted ==
  ASSUME TypeOK, PlainInv, NEW r \in Requests, NEW e \in EventIds,
         <<e, "accepted">> \in Response(r)
  PROVE  e \in req[r].rows
<1>1. /\ req[r].rejected[e] \in {"none", "rejected", "duplicate"}
      /\ req[r].results[e] = "accepted" => e \in req[r].rows
  BY DEF PlainInv, Plain
<1>2. "accepted" = IF req[r].results[e] # "none" THEN req[r].results[e] ELSE req[r].rejected[e]
  BY DEF Response
<1> QED
  BY <1>1, <1>2

AcceptedInv ==
    Regime => \A e \in EventIds :
        /\ Told(e, "accepted") # {} => e \in usageEvents
        /\ \A i, j \in Told(e, "accepted") : i = j

LEMMA AcceptedStep ==
  TypeOK /\ OutboxInv /\ PlainInv /\ AloneInv /\ FreshInv /\ AcceptedInv /\ [Next]_vars
    => AcceptedInv'
<1> SUFFICES ASSUME TypeOK, OutboxInv, PlainInv, AloneInv, FreshInv, AcceptedInv, [Next]_vars,
                    Regime, NEW e \in EventIds
             PROVE  /\ Told(e, "accepted")' # {} => e \in usageEvents'
                    /\ \A i, j \in Told(e, "accepted")' : i = j
  BY SurroundingsStay DEF AcceptedInv, Regime, RedisReliable, SingleEvents
<1>0. /\ Told(e, "accepted") # {} => e \in usageEvents
      /\ \A i, j \in Told(e, "accepted") : i = j
  BY DEF AcceptedInv
<1>1. ASSUME UNCHANGED told, usageEvents \subseteq usageEvents'
      PROVE  /\ Told(e, "accepted")' # {} => e \in usageEvents'
             /\ \A i, j \in Told(e, "accepted")' : i = j
  BY <1>0, <1>1 DEF Told
<1>2. ASSUME NEW r \in Requests, Commit(r)
      PROVE  /\ Told(e, "accepted")' # {} => e \in usageEvents'
             /\ \A i, j \in Told(e, "accepted")' : i = j
  <2> DEFINE n == Len(told) + 1
             S == SUBSET (EventIds \X Answer)
  <2>1. told \in Seq(S) /\ Response(r) \in S /\ told' = Append(told, Response(r))
    BY <1>2, ResponseTyped DEF Commit, TypeOK
  <2>2. \A i \in Told(e, "accepted")' :
          i \in Told(e, "accepted") \/ (i = n /\ <<e, "accepted">> \in Response(r))
    BY <2>1, AnswerAppend DEF Told
  <2>3. usageEvents' = usageEvents \union Held(r)
    BY <1>2 DEF Commit, CommitRows, Held
  <2>4. CASE <<e, "accepted">> \in Response(r)
    <3>1. e \in Held(r)
      BY <2>4, AcceptedIsInserted, AbortedIsEmpty DEF Held
    <3>2. e \notin usageEvents
      BY <3>1 DEF OutboxInv, Apart
    <3> QED
      BY <1>0, <2>2, <2>3, <3>1, <3>2
  <2>5. CASE <<e, "accepted">> \notin Response(r)
    BY <1>0, <2>2, <2>3, <2>5
  <2> QED
    BY <2>4, <2>5
<1>3. ASSUME NEW r \in Requests, TransactionFails(r), CommitRows(r)
      PROVE  UNCHANGED told /\ usageEvents \subseteq usageEvents'
  BY <1>3 DEF TransactionFails, CommitRows
<1>4. ASSUME NEW r \in Requests,
             \/ Submit(r) \/ DedupNew(r) \/ DedupFails(r) \/ DedupSeen(r) \/ Begin(r)
             \/ Insert(r) \/ InsertDuplicate(r) \/ Gone(r)
      PROVE  UNCHANGED <<told, usageEvents>>
  BY <1>4 DEF Submit, DedupNew, DedupFails, DedupSeen, Begin, Insert, InsertDuplicate, Gone
<1> QED
  BY <1>1, <1>2, <1>3, <1>4, StepCases DEF KeysOnly

LEMMA AcceptedInit == Init => AcceptedInv
BY DEF Init, AcceptedInv, Told

CallsInv == PlainInv /\ AloneInv /\ FreshInv

LEMMA CallsAlways == Spec => [](TypeOK /\ OutboxInv /\ CallsInv)
<1>1. Init => TypeOK /\ OutboxInv /\ CallsInv
  BY TypeInit, OutboxInit, CallsInit DEF CallsInv
<1>2. TypeOK /\ OutboxInv /\ CallsInv /\ [Next]_vars => (TypeOK /\ OutboxInv /\ CallsInv)'
  BY TypeStep, OutboxStep, PlainStep, AloneStep, FreshStep DEF CallsInv
<1> QED
  BY <1>1, <1>2, PTL DEF Spec

LEMMA AcceptedAlways == Spec => []AcceptedInv
<1>1. TypeOK /\ OutboxInv /\ CallsInv /\ AcceptedInv /\ [Next]_vars => AcceptedInv'
  BY AcceptedStep DEF CallsInv
<1> QED
  BY AcceptedInit, CallsAlways, <1>1, PTL DEF Spec

\* Where Redis answers and keeps its keys, or where batches hold one event, an event that
\* ingest() has called accepted is in usage_events.
THEOREM AcceptedIsStored == Spec => []AcceptedIsPersisted
<1>1. AcceptedInv => AcceptedIsPersisted
  BY DEF AcceptedInv, AcceptedIsPersisted, AcceptedMeansStored, Regime
<1> QED
  BY AcceptedAlways, <1>1, PTL

\* In the same regimes no two responses call one event accepted.
THEOREM AcceptedByOneResponse == Spec => []AcceptedOnce
<1>1. AcceptedInv => AcceptedOnce
  <2> SUFFICES ASSUME AcceptedInv, Regime, NEW e \in EventIds
               PROVE  Cardinality(Told(e, "accepted")) <= 1
    BY DEF AcceptedOnce, Regime
  <2>1. \A i, j \in Told(e, "accepted") : i = j
    BY DEF AcceptedInv
  <2>2. CASE Told(e, "accepted") = {}
    BY <2>2, FS_EmptySet, 0 <= 1
  <2>3. CASE Told(e, "accepted") # {}
    <3>1. PICK i : Told(e, "accepted") = {i}
      BY <2>1, <2>3
    <3> QED
      BY <3>1, FS_Singleton, 1 <= 1
  <2> QED
    BY <2>2, <2>3
<1> QED
  BY AcceptedAlways, <1>1, PTL

-----------------------------------------------------------------------------
(* What a client told "duplicate" may rely on *)

\* Nothing is refused, and no transaction fails: the surroundings of the property.
Sound ==
    /\ Regime
    /\ deployment.mayReject = {}
    /\ deployment.kinds \intersect {"db", "crash"} = {}

Covered(e) == e \in usageEvents \/ \E r \in Requests : Stores(r, e)

\* A call blames an earlier submission only where there is one, and stores all that it
\* said it would.
Honest(r) ==
    /\ \A e \in EventIds : req[r].rejected[e] = "duplicate" => Covered(e)
    /\ \A e \in EventIds : req[r].results[e] = "duplicate" => e \in usageEvents
    /\ req[r].step = "insert" =>
         \A e \in EventIds : Stores(r, e) =>
            In(e, req[r].todo) \/ e \in req[r].rows \/ e \in usageEvents

HonestInv ==
    Sound => /\ \A e \in keys : Covered(e)
             /\ \A r \in Requests : Honest(r)
             /\ \A e \in EventIds : Told(e, "duplicate") # {} => Covered(e)

LEMMA HonestInit == Init => HonestInv
<1> SUFFICES ASSUME Init PROVE HonestInv
  OBVIOUS
<1>1. /\ keys = {} /\ told = <<>>
      /\ \A r \in Requests : req[r].step = "idle" /\ req[r].rejected = NoAnswers
                             /\ req[r].results = NoAnswers
  BY DEF Init, NoCall
<1>2. \A r \in Requests : Honest(r)
  BY <1>1 DEF Honest, NoAnswers
<1> QED
  BY <1>1, <1>2 DEF HonestInv, Told

\* In the regimes no cycle of waiting transactions arises: with Redis they insert
\* different events, and alone a transaction waits before it holds anything.
LEMMA NoDeadlock ==
  ASSUME TypeOK, Regime, AloneInv, FreshInv, NEW r \in Requests
  PROVE  ~DeadlockDetected(r)
<1> SUFFICES ASSUME DeadlockDetected(r) PROVE FALSE
  OBVIOUS
<1>1. PICK p \in Requests, q \in Requests : WaitsFor(r, p) /\ WaitsFor(q, r)
  BY DEF DeadlockDetected
<1>2. /\ Inserting(r) /\ Inserting(q) /\ q # r /\ Head(req[q].todo) \in req[r].rows
      /\ req[q].todo \in Seq(EventIds) /\ req[q].todo # <<>>
  BY <1>1 DEF WaitsFor, Inserting, TypeOK, Call
<1>3. Head(req[q].todo) \in EventIds /\ In(Head(req[q].todo), req[q].todo)
  BY <1>2, InTail
<1>4. CASE RedisReliable
  <2>1. Stores(r, Head(req[q].todo)) /\ Stores(q, Head(req[q].todo))
    BY <1>2, <1>3, <1>4 DEF FreshInv, Fresh, Inserting
  <2> QED
    BY <1>2, <1>3, <1>4, <2>1 DEF FreshInv, Fresh
<1>5. CASE SingleEvents
  BY <1>2, <1>5 DEF AloneInv, Alone, Inserting
<1> QED
  BY <1>4, <1>5 DEF Regime

\* What is left of the steps.
LEMMA SoundCases ==
  ASSUME TypeOK, Sound, AloneInv, FreshInv, [Next]_vars
  PROVE  \/ KeysOnly /\ keys' \subseteq keys
         \/ \E r \in Requests :
             \/ Submit(r) \/ DedupNew(r) \/ DedupFails(r) \/ DedupSeen(r) \/ Begin(r)
             \/ Insert(r) \/ InsertDuplicate(r) \/ Commit(r)
<1>1. ASSUME NEW r \in Requests, InsertAborted(r) PROVE FALSE
  <2>1. req[r].step = "insert" /\ req[r].todo # <<>> /\ req[r].aborted
    BY <1>1 DEF InsertAborted, Inserting
  <2>2. CASE RedisReliable
    BY <2>1, <2>2 DEF FreshInv, Fresh
  <2>3. CASE SingleEvents
    BY <2>1, <2>3 DEF AloneInv, Alone
  <2> QED
    BY <2>2, <2>3 DEF Sound, Regime
<1>2. ASSUME NEW r \in Requests, TransactionFails(r) \/ RequestCrash(r) PROVE FALSE
  BY <1>2 DEF TransactionFails, RequestCrash, Fault, Sound
<1>3. CASE UNCHANGED vars
  BY <1>3 DEF vars, KeysOnly
<1>4. ASSUME NEW e \in EventIds, KeyExpires(e) PROVE KeysOnly /\ keys' \subseteq keys
  BY <1>4 DEF KeyExpires, KeysOnly
<1> QED
  BY <1>1, <1>2, <1>3, <1>4, NoDeadlock DEF Next, Ingest, IngestFaults, Sound

\* Steps that lose no event that a call stores, or has stored.
LEMMA CoveredStays ==
  ASSUME usageEvents \subseteq usageEvents', NEW r \in Requests, Others(r),
         \A e \in EventIds : Stores(r, e) => Stores(r, e)' \/ e \in usageEvents'
  PROVE  \A e \in EventIds : Covered(e) => Covered(e)'
<1> SUFFICES ASSUME NEW e \in EventIds, NEW q \in Requests, Stores(q, e) PROVE Covered(e)'
  BY DEF Covered
<1>1. CASE q = r
  BY <1>1 DEF Covered
<1>2. CASE q # r
  BY <1>2 DEF Covered, Others, Stores
<1> QED
  BY <1>1, <1>2

LEMMA HonestOthers ==
  ASSUME \A q \in Requests : Honest(q), usageEvents \subseteq usageEvents',
         NEW r \in Requests, Others(r), \A e \in EventIds : Covered(e) => Covered(e)',
         Honest(r)'
  PROVE  \A q \in Requests : Honest(q)'
<1> SUFFICES ASSUME NEW q \in Requests \ {r} PROVE Honest(q)'
  OBVIOUS
<1>1. req'[q] = req[q] /\ Honest(q)
  BY DEF Others
<1>2. \A e \in EventIds : req'[q].rejected[e] = "duplicate" => Covered(e)'
  BY <1>1 DEF Honest
<1>3. \A e \in EventIds : req'[q].results[e] = "duplicate" => e \in usageEvents'
  BY <1>1 DEF Honest
<1>4. req'[q].step = "insert" =>
         \A e \in EventIds : Stores(q, e)' =>
            In(e, req'[q].todo) \/ e \in req'[q].rows \/ e \in usageEvents'
  BY <1>1 DEF Honest, Stores
<1> QED
  BY <1>2, <1>3, <1>4 DEF Honest

\* Only a first entry is new.
LEMMA EntryIs ==
  ASSUME NEW answers \in [EventIds -> Answer], NEW x \in EventIds, NEW status \in Answer
  PROVE  \A e \in EventIds :
           FirstEntry(answers, x, status)[e] = status => e = x \/ answers[e] = status
BY DEF FirstEntry

\* An insert that meets a stored row: with Redis there is none, alone there is no other.
LEMMA DuplicateIsStored ==
  ASSUME TypeOK, Regime, AloneInv, FreshInv, NEW r \in Requests, InsertDuplicate(r)
  PROVE  Head(req[r].todo) \in usageEvents
<1>1. /\ req[r].step = "insert" /\ req[r].todo \in Seq(EventIds) /\ req[r].todo # <<>>
      /\ Head(req[r].todo) \in usageEvents \union req[r].rows
  BY DEF InsertDuplicate, Inserting, TypeOK, Call
<1>2. Head(req[r].todo) \in EventIds /\ In(Head(req[r].todo), req[r].todo)
  BY <1>1, InTail
<1>3. CASE RedisReliable
  BY <1>1, <1>2, <1>3 DEF FreshInv, Fresh
<1>4. CASE SingleEvents
  BY <1>1, <1>4 DEF AloneInv, Alone
<1> QED
  BY <1>3, <1>4 DEF Regime

\* What a response calls a duplicate is covered once its transaction has committed.
LEMMA DuplicateAnswer ==
  ASSUME TypeOK, NEW r \in Requests, Honest(r), NEW e \in EventIds,
         <<e, "duplicate">> \in Response(r)
  PROVE  Covered(e)
<1>1. "duplicate" = IF req[r].results[e] # "none" THEN req[r].results[e] ELSE req[r].rejected[e]
  BY DEF Response
<1> QED
  BY <1>1 DEF Honest, Covered

LEMMA HonestStep ==
  TypeOK /\ CallsInv /\ HonestInv /\ [Next]_vars => HonestInv'
<1> SUFFICES ASSUME TypeOK, CallsInv, HonestInv, [Next]_vars, Sound
             PROVE  /\ \A e \in keys' : Covered(e)'
                    /\ \A r \in Requests : Honest(r)'
                    /\ \A e \in EventIds : Told(e, "duplicate")' # {} => Covered(e)'
  BY SurroundingsStay DEF HonestInv, Sound, Regime, RedisReliable, SingleEvents
<1> DEFINE Goal == /\ \A e \in keys' : Covered(e)'
                   /\ \A r \in Requests : Honest(r)'
                   /\ \A e \in EventIds : Told(e, "duplicate")' # {} => Covered(e)'
<1>0. /\ \A e \in keys : Covered(e)
      /\ \A r \in Requests : Honest(r)
      /\ \A e \in EventIds : Told(e, "duplicate") # {} => Covered(e)
      /\ keys \subseteq EventIds
      /\ PlainInv /\ AloneInv /\ FreshInv /\ Regime
  BY DEF HonestInv, CallsInv, Sound, TypeOK
<1>c. \A r \in Requests : /\ Plain(r) /\ Honest(r) /\ req[r].todo \in Seq(EventIds)
                          /\ req[r].toPersist \in Seq(EventIds)
                          /\ req[r].rejected \in [EventIds -> Answer]
                          /\ req[r].results \in [EventIds -> Answer]
  BY <1>0 DEF PlainInv, TypeOK, Call
<1>n. \A e \in EventIds : NoAnswers[e] = "none"
  BY DEF NoAnswers
<1>1. CASE KeysOnly /\ keys' \subseteq keys
  BY <1>0, <1>1 DEF KeysOnly, Covered, Stores, Honest, Told
\* All of a step but what it does to its own call.
<1>2. ASSUME NEW r \in Requests, Others(r), UNCHANGED <<usageEvents, told>>,
             \A e \in EventIds : Stores(r, e) => Stores(r, e)',
             \A e \in keys' : e \in keys \/ Covered(e)',
             (\A e \in EventIds : Covered(e) => Covered(e)') => Honest(r)'
      PROVE  Goal
  <2>1. \A e \in EventIds : Covered(e) => Covered(e)'
    BY <1>2, CoveredStays
  <2>2. \A q \in Requests : Honest(q)'
    BY <1>0, <1>2, <2>1, HonestOthers
  <2>3. \A e \in EventIds : Told(e, "duplicate")' # {} => Covered(e)'
    BY <1>0, <1>2, <2>1 DEF Told
  <2> QED
    BY <1>0, <1>2, <2>1, <2>2, <2>3
<1>3. ASSUME NEW r \in Requests, Submit(r) PROVE Goal
  <2>1. \A e \in EventIds : ~Stores(r, e)
    <3>1. req[r].toPersist = <<>>
      BY <1>3, <1>c, SubmitCall DEF Plain
    <3> QED
      BY <3>1 DEF Stores, In
  <2>2. Honest(r)'
    BY <1>3, SubmitCall DEF Honest, NoAnswers
  <2> QED
    BY <1>0, <1>2, <1>3, <2>1, <2>2, SubmitCall DEF Submit
<1>4. ASSUME NEW r \in Requests, DedupNew(r) \/ DedupFails(r) PROVE Goal
  <2> DEFINE e == Head(req[r].todo)
  <2>1. /\ InDedup(r) /\ PreValidate(r) /\ keys' \subseteq keys \union {e}
        /\ UNCHANGED <<usageEvents, told>>
    BY <1>4 DEF DedupNew, DedupFails
  <2>2. e \in EventIds
    BY <1>c, <2>1 DEF InDedup
  <2>3. /\ Others(r) /\ req'[r].step = "dedup" /\ req'[r].rejected = req[r].rejected
        /\ req'[r].results = req[r].results /\ req'[r].toPersist = Append(req[r].toPersist, e)
    BY <2>1, PreValidateCall DEF Sound
  <2>4. \A x \in EventIds : Stores(r, x)' <=> (Stores(r, x) \/ x = e)
    BY <1>c, <2>2, <2>3, InAppend DEF Stores
  <2>5. \A x \in EventIds : x = e => Covered(x)'
    BY <1>4, <2>4 DEF Covered
  <2>6. (\A x \in EventIds : Covered(x) => Covered(x)') => Honest(r)'
    BY <1>c, <2>1, <2>3 DEF Honest
  <2> HIDE DEF e
  <2>7. (\A x \in EventIds : Stores(r, x) => Stores(r, x)') /\ \A x \in keys' : x \in keys \/ Covered(x)'
    BY <2>1, <2>2, <2>4, <2>5
  <2> QED
    BY <1>2, <1>4, <2>1, <2>3, <2>6, <2>7
<1>5. ASSUME NEW r \in Requests, DedupSeen(r) PROVE Goal
  <2> DEFINE e == Head(req[r].todo)
  <2>1. e \in keys /\ UNCHANGED <<usageEvents, told, keys>> /\ e \in EventIds
    BY <1>0, <1>5 DEF DedupSeen
  <2>2. \A x \in EventIds : Stores(r, x)' <=> Stores(r, x)
    BY <1>5, DedupSeenCall DEF Stores
  <2>3. \A x \in EventIds : req'[r].rejected[x] = "duplicate" => Covered(x)
    BY <1>0, <1>5, <1>c, <2>1, DedupSeenCall, EntryIs DEF Honest, Answer
  <2>4. (\A x \in EventIds : Covered(x) => Covered(x)') => Honest(r)'
    BY <1>5, <1>c, <2>1, <2>3, DedupSeenCall DEF Honest
  <2> QED
    BY <1>2, <1>5, <2>1, <2>2, <2>4, DedupSeenCall
<1>6. ASSUME NEW r \in Requests, Begin(r) PROVE Goal
  <2>1. UNCHANGED <<usageEvents, told, keys>>
    BY <1>6 DEF Begin
  <2>2. \A x \in EventIds : (Stores(r, x)' <=> Stores(r, x)) /\ (Stores(r, x)' => In(x, req'[r].todo))
    BY <1>6, BeginCall DEF Stores
  <2>3. (\A x \in EventIds : Covered(x) => Covered(x)') => Honest(r)'
    BY <1>6, <1>c, <2>1, <2>2, BeginCall DEF Honest
  <2> QED
    BY <1>2, <1>6, <2>1, <2>2, <2>3, BeginCall
<1>7. ASSUME NEW r \in Requests, Insert(r) PROVE Goal
  <2> DEFINE e == Head(req[r].todo)
  <2>1. /\ UNCHANGED <<usageEvents, told, keys>> /\ req[r].todo # <<>> /\ req[r].step = "insert"
    BY <1>7 DEF Insert, Inserting
  <2>2. e \in EventIds /\ \A x \in EventIds : In(x, req[r].todo) <=> (x = e \/ In(x, Tail(req[r].todo)))
    BY <1>c, <2>1, InTail
  <2>3. \A x \in EventIds : Stores(r, x)' <=> Stores(r, x)
    BY <1>7, InsertCall DEF Stores
  <2>4. \A x \in EventIds : req'[r].results[x] = "duplicate" => x \in usageEvents
    <3>1. \A x \in EventIds : FirstEntry(req[r].results, e, "accepted")[x] = "duplicate" =>
            req[r].results[x] = "duplicate"
      BY <1>c, <2>2 DEF FirstEntry
    <3> QED
      BY <1>7, <1>c, <3>1, InsertCall DEF Honest
  <2>5. \A x \in EventIds : Stores(r, x)' =>
           In(x, req'[r].todo) \/ x \in req'[r].rows \/ x \in usageEvents'
    BY <1>7, <1>c, <2>1, <2>2, <2>3, InsertCall DEF Honest
  <2>6. (\A x \in EventIds : Covered(x) => Covered(x)') => Honest(r)'
    BY <1>7, <1>c, <2>1, <2>4, <2>5, InsertCall DEF Honest
  <2> QED
    BY <1>2, <1>7, <2>1, <2>3, <2>6, InsertCall
<1>8. ASSUME NEW r \in Requests, InsertDuplicate(r) PROVE Goal
  <2> DEFINE e == Head(req[r].todo)
  <2>1. /\ UNCHANGED <<usageEvents, told, keys>> /\ req[r].todo # <<>> /\ req[r].step = "insert"
    BY <1>8 DEF InsertDuplicate, Inserting
  <2>2. e \in EventIds /\ \A x \in EventIds : In(x, req[r].todo) <=> (x = e \/ In(x, Tail(req[r].todo)))
    BY <1>c, <2>1, InTail
  <2>3. \A x \in EventIds : Stores(r, x)' <=> Stores(r, x)
    BY <1>8, InsertDuplicateCall DEF Stores
  <2>4. e \in usageEvents
    BY <1>0, <1>8, DuplicateIsStored
  <2>5. \A x \in EventIds : req'[r].results[x] = "duplicate" => x \in usageEvents
    <3>1. \A x \in EventIds : FirstEntry(req[r].results, e, "duplicate")[x] = "duplicate" =>
            x = e \/ req[r].results[x] = "duplicate"
      BY <1>c, <2>2, EntryIs DEF Answer
    <3> QED
      BY <1>8, <1>c, <2>4, <3>1, InsertDuplicateCall DEF Honest
  <2>6. \A x \in EventIds : Stores(r, x)' =>
           In(x, req'[r].todo) \/ x \in req'[r].rows \/ x \in usageEvents'
    BY <1>8, <1>c, <2>1, <2>2, <2>3, <2>4, InsertDuplicateCall DEF Honest
  <2>7. (\A x \in EventIds : Covered(x) => Covered(x)') => Honest(r)'
    BY <1>8, <1>c, <2>1, <2>5, <2>6, InsertDuplicateCall DEF Honest
  <2> QED
    BY <1>2, <1>8, <2>1, <2>3, <2>7, InsertDuplicateCall
<1>9. ASSUME NEW r \in Requests, Commit(r) PROVE Goal
  <2> DEFINE S == SUBSET (EventIds \X Answer)
  <2>1. /\ req[r].step = "insert" /\ req[r].todo = <<>> /\ CommitRows(r)
        /\ req' = [req EXCEPT ![r] = NoCall] /\ keys' = keys
        /\ told \in Seq(S) /\ Response(r) \in S /\ told' = Append(told, Response(r))
    BY <1>9, ResponseTyped DEF Commit, TypeOK
  <2>2. usageEvents' = usageEvents \union Held(r)
    BY <2>1 DEF CommitRows, Held
  <2>3. \A x \in EventIds : ~In(x, req[r].todo)
    BY <2>1 DEF In
  <2>4. \A x \in EventIds : Stores(r, x) => x \in usageEvents'
    BY <1>0, <1>c, <2>1, <2>2, <2>3, AbortedIsEmpty DEF Honest, Held
  <2>5. \A x \in EventIds : Covered(x) => Covered(x)'
    BY <2>1, <2>2, <2>4, GoneCall, CoveredStays
  <2>6. Honest(r)'
    <3>1. req'[r].step = "idle" /\ req'[r].rejected = NoAnswers /\ req'[r].results = NoAnswers
      BY <2>1, GoneCall
    <3> QED
      BY <1>n, <3>1 DEF Honest
  <2>7. \A q \in Requests : Honest(q)'
    BY <1>0, <2>1, <2>2, <2>5, <2>6, GoneCall, HonestOthers
  <2>8. ASSUME NEW x \in EventIds, Told(x, "duplicate")' # {} PROVE Covered(x)'
    <3>1. PICK i \in DOMAIN told' : <<x, "duplicate">> \in told'[i]
      BY <2>8 DEF Told
    <3>2. \/ i \in DOMAIN told /\ <<x, "duplicate">> \in told[i]
          \/ <<x, "duplicate">> \in Response(r)
      BY <2>1, <3>1, AnswerAppend
    <3>3. Covered(x)
      BY <1>0, <3>2, DuplicateAnswer DEF Told
    <3> QED
      BY <2>5, <3>3
  <2> QED
    BY <1>0, <2>1, <2>5, <2>7, <2>8
<1> QED
  BY <1>0, <1>1, <1>3, <1>4, <1>5, <1>6, <1>7, <1>8, <1>9, SoundCases

\* Where nothing is refused after its key was set and no transaction fails, an event that
\* ingest() has called a duplicate is in usage_events, or in a batch about to store it.
THEOREM DuplicateIsSafe == Spec => []DuplicateIsCovered
<1>1. TypeOK /\ CallsInv /\ HonestInv /\ [Next]_vars => HonestInv'
  BY HonestStep
<1>2. HonestInv => DuplicateIsCovered
  BY DEF HonestInv, DuplicateIsCovered, Sound, Regime, Covered, Stores, Carries, In
<1> QED
  BY HonestInit, CallsAlways, <1>1, <1>2, PTL DEF Spec

=============================================================================
