---------------------------- MODULE Reconciliation ----------------------------
(***************************************************************************)
(* The usage check of ReconciliationService, beside the aggregation        *)
(* consumers and the counters of UsageCounters: each run adds up the       *)
(* AGGREGATED events of a tenant's feature, reads the rows of the current  *)
(* month, and writes an issue when the sum and the last row differ.  A     *)
(* tenant without a live subscription is not looked at.                    *)
(*                                                                         *)
(* The nightly job and an administrator may run it at the same time.       *)
(* Nothing ties the reads of a run together.                               *)
(***************************************************************************)
EXTENDS UsageCounters

CONSTANT MaxRuns    \* bound: number of runs

Runs == 1 .. MaxRuns

ASSUME ReconciliationAssumption ==
    /\ MaxRuns \in Nat
    /\ \A d \in Deployments : d.runs \subseteq Runs

VARIABLES
    run,     \* reconciliation_runs, with the local state of a run and its issue
    skipped, \* history: runs that did not find the tenant
    drifted, \* history: runs that began when an event had been added twice
    shaken   \* history: runs whose reads had an aggregation among or before them

reconVars == <<run, skipped, drifted, shaken>>
allVars == <<counterVars, reconVars>>

-----------------------------------------------------------------------------

IssueStatus == {"NONE", "OPEN", "ACKNOWLEDGED", "RESOLVED"}
NoRun == [status |-> "NONE", step |-> "none", month |-> 0, expected |-> 0, actual |-> 0,
          issue |-> "NONE"]

ReconTypeOK ==
    /\ CountersTypeOK
    /\ run \in [Runs -> [status : {"NONE", "RUNNING", "COMPLETED", "FAILED"},
                         step : {"none", "find", "sum", "read", "compare", "complete", "over"},
                         month : Months, expected : Nat, actual : Nat, issue : IssueStatus]]
    /\ skipped \subseteq Runs
    /\ drifted \subseteq Runs
    /\ shaken \subseteq Runs

ReconInit ==
    /\ CountersInit
    /\ run = [n \in Runs |-> NoRun]
    /\ skipped = {}
    /\ drifted = {}
    /\ shaken = {}

Drift == \E e \in Events : applied[e] > 1

\* create: the row of the run, RUNNING; the month is taken from the clock once.
StartRun(n) ==
    /\ n \in deployment.runs
    /\ run[n] = NoRun
    /\ n > 1 => run[n - 1] # NoRun
    /\ run' = [run EXCEPT ![n].status = "RUNNING", ![n].step = "find", ![n].month = month]
    /\ drifted' = IF Drift THEN drifted \union {n} ELSE drifted
    /\ UNCHANGED <<counterVars, skipped, shaken>>

\* The tenants with an ACTIVE or TRIALING subscription.
FindTenants(n) ==
    /\ run[n].step = "find"
    /\ run' = [run EXCEPT ![n].step = IF live THEN "sum" ELSE "complete"]
    /\ skipped' = IF live THEN skipped ELSE skipped \union {n}
    /\ UNCHANGED <<counterVars, drifted, shaken>>

\* Mutant: events that are not in the row yet are expected there, too.
SummedAll == deployment.sourced

\* The events the sum is over: AGGREGATED, of any month.  SQL's != drops those whose
\* metadata name no source, and not only the seed's.
Summed == {e \in deployment.sourced : eventStatus[e] = "AGGREGATED"}

SumEvents(n) ==
    /\ run[n].step = "sum"
    /\ run' = [run EXCEPT ![n].step = "read", ![n].expected = Cardinality(Summed)]
    /\ shaken' = IF \E e \in Events : eventStatus[e] = "VALIDATED" /\ applied[e] > 0
                 THEN shaken \union {n} ELSE shaken
    /\ UNCHANGED <<counterVars, skipped, drifted>>

\* findMany over all of the tenant's rows; of those of one feature, the Map keeps the
\* last it is given.
ReadRow(n) ==
    /\ run[n].step = "read"
    /\ \E amount \in SomeRow(run[n].month) :
         run' = [run EXCEPT ![n].step = "compare", ![n].actual = amount]
    /\ UNCHANGED <<counterVars, skipped, drifted, shaken>>

\* Mutant: only sums that have a row to compare with.
DiffersWhereKnown(n) == run[n].actual > 0 /\ run[n].expected > run[n].actual

\* A sum without the row it should have, or a row with too much or no events at all.
Differs(n) == run[n].expected # run[n].actual

Compare(n) ==
    /\ run[n].step = "compare"
    /\ run' = [run EXCEPT ![n].step = "complete",
                          ![n].issue = IF Differs(n) THEN "OPEN" ELSE @]
    /\ UNCHANGED <<counterVars, skipped, drifted, shaken>>

Complete(n) ==
    /\ run[n].step = "complete"
    /\ run' = [run EXCEPT ![n].step = "over", ![n].status = "COMPLETED"]
    /\ UNCHANGED <<counterVars, skipped, drifted, shaken>>

ReconFault(kind) ==
    /\ Fault(kind)
    /\ UNCHANGED <<requestVars, req, copyVars>>

\* A query fails: the run is FAILED, what it has written stays.
RunFails(n) ==
    /\ run[n].status = "RUNNING"
    /\ ReconFault("database")
    /\ run' = [run EXCEPT ![n].step = "over", ![n].status = "FAILED"]
    /\ UNCHANGED <<skipped, drifted, shaken>>

\* The process dies: the run is RUNNING for ever.
RunCrashes(n) ==
    /\ run[n].step \notin {"none", "over"}
    /\ ReconFault("crash")
    /\ run' = [run EXCEPT ![n].step = "over"]
    /\ UNCHANGED <<skipped, drifted, shaken>>

\* acknowledgeIssue and resolveIssue look only whether the issue exists.
SetIssue(n, s) ==
    /\ run[n].issue # "NONE"
    /\ run' = [run EXCEPT ![n].issue = s]
    /\ UNCHANGED <<counterVars, skipped, drifted, shaken>>

Acknowledge(n) == SetIssue(n, "ACKNOWLEDGED")
Resolve(n) == SetIssue(n, "RESOLVED")

\* What goes on beside it.
Counting ==
    /\ CountersNext
    /\ shaken' = IF <<agg, eventStatus>>' # <<agg, eventStatus>>
                 THEN shaken \union {n \in Runs : run[n].step = "read"} ELSE shaken
    /\ UNCHANGED <<run, skipped, drifted>>

RunStep(n) ==
    \/ StartRun(n) \/ FindTenants(n) \/ SumEvents(n) \/ ReadRow(n) \/ Compare(n) \/ Complete(n)

ReconNext ==
    \/ Counting
    \/ \E n \in Runs : RunStep(n) \/ RunFails(n) \/ RunCrashes(n) \/ Acknowledge(n) \/ Resolve(n)

ReconSpec == ReconInit /\ [][ReconNext]_allVars

-----------------------------------------------------------------------------
(* Properties *)

\* Before the first month is over, for a tenant that has not changed its plan.
FirstMonth(n) ==
    /\ run[n].month = 0
    /\ \A e \in Events : deployment.monthOf[e] = 0
    /\ \A e, d \in Events : deployment.subOf[e] = deployment.subOf[d]

\* A run that looks at the tenant and completes reports the drift there was when it
\* began, even if consumers go on aggregating between its reads.  It may overlook the
\* drift of a tenant without a live subscription, which it never looks at; of one that
\* has changed its plan, whose rows it compares one by one with the sum of them all;
\* and from the second month on, when the sum is over all months and the row of one.
DriftReported ==
    \A n \in drifted \ skipped :
        run[n].status = "COMPLETED" /\ FirstMonth(n) => run[n].issue # "NONE"

\* An issue is no false alarm, under the same conditions, if every event names a source
\* and no aggregation went on at the time: some event is in a row twice.
NoFalseAlarm ==
    \A n \in Runs :
        /\ run[n].issue # "NONE"
        /\ FirstMonth(n)
        /\ deployment.sourced = Events
        /\ n \notin shaken
        => Drift

\* What a completed run reports is what was there: no drift is overlooked, and no drift
\* is made up, under the conditions stated above and only under them.
ReportsAreRight == DriftReported /\ NoFalseAlarm

=============================================================================
