------------------------------ MODULE MCBilling ------------------------------
(* Instances of Billing for TLC. *)
EXTENDS Billing

CONSTANTS s1, s2

Deployment(subscriptions, actors, kinds) ==
    [subscriptions |-> subscriptions, actors |-> actors, kinds |-> kinds]

\* Nothing disturbs the cron; its steps fail; people act beside it.
MCDeployments ==
    {Deployment({s1, s2}, {}, {}),
     Deployment({s1, s2}, {}, {"db", "crash"}),
     Deployment({s1}, {"admin"}, {"db"}),
     Deployment({s1}, {"manual", "admin"}, {"db"})}

FailingDatabase == {Deployment({s1, s2}, {}, {"db"})}

Quiet == {Deployment({s1, s2}, {}, {})}

=============================================================================
