-------------------------- MODULE MCUsageIngestion --------------------------
(* Instances of UsageIngestion for TLC. *)
EXTENDS UsageIngestion

CONSTANTS e1, e2

Deployment(batches, mayReject, kinds) ==
    [batches |-> batches, mayReject |-> mayReject, kinds |-> kinds]

Singles == {<<e1>>, <<e2>>}

\* Two batches with the same events in opposite orders, one that repeats an
\* event, and a single event.
Pairs == {<<e1, e2>>, <<e2, e1>>, <<e1, e1>>, <<e2>>}

MCDeployments ==
    {Deployment(Pairs, {}, {"db", "crash"}),
     Deployment(Pairs, {e2}, {}),
     Deployment(Pairs, {}, {}),
     Deployment(Pairs, {}, {"redis", "db"}),
     Deployment(Singles, {e1}, {"redis", "expiry", "db"}),
     Deployment(Singles, {}, {"redis", "expiry"})}

\* Batches, and a Redis that may be unreachable.
FlakyRedis == {Deployment(Pairs, {}, {"redis"})}

=============================================================================
