----------------------------- MODULE MCBackOffice -----------------------------
(* Instances of Access, Catalogue and RateLimiter for TLC. *)
EXTENDS BackOffice

CONSTANTS alice, bob, acme, globex, f1

Deployment(ops, users, dtos, nulls) ==
    [ops |-> ops, users |-> users, dtos |-> dtos, nulls |-> nulls,
     types |-> [f \in Features |-> IF f = f1 THEN "QUOTA" ELSE "METERED"]]

Given(fields) == [given |-> fields, null |-> {}]

Edit == {"createPlan", "createFeature", "createEntitlement", "updateEntitlement"}
Order == {"createTenant", "createPlan", "createPrice", "subscribe"}
Bodies == {Given({"limit", "limitBehavior"}), Given({"overagePrice"}), Given({"value"})}

\* Sessions under password changes and resets; tokens used by two at once; members of
\* two tenants; keys; entitlements of each type, with and without nulls; orders at once;
\* the rate limiter.
MCDeployments ==
    {Deployment({"login", "refresh", "change"}, {alice}, {}, FALSE),
     Deployment({"login", "refresh", "forgot", "reset"}, {alice}, {}, FALSE),
     Deployment({"login", "refresh", "logout", "logoutAll", "expiry", "failure"}, {alice}, {}, FALSE),
     Deployment({"forgot", "reset", "expiry", "failure"}, {alice}, {}, FALSE),
     Deployment({"register", "createTenant", "addMember", "updateUser"}, {}, {}, FALSE),
     Deployment({"createTenant", "updateTenant", "removeTenant"}, {alice}, {}, FALSE),
     Deployment({"createTenant", "keys"}, {alice}, {}, FALSE),
     Deployment(Edit \union {"removeEntitlement", "updatePlan", "updateFeature"}, {alice},
                Bodies, FALSE),
     Deployment(Edit, {alice}, {Given({"limit"}), [given |-> {}, null |-> {"limit"}]}, TRUE),
     Deployment(Order \union {"cancel", "deactivatePrice", "updatePlan", "failure"}, {alice}, {},
                FALSE),
     [Deployment(Order \union Edit, {alice}, {Given({}), Given({"value", "resetPeriod"}), Given({"limit"})},
                 FALSE) EXCEPT !.types = [f \in Features |-> IF f = f1 THEN "BOOLEAN"
                                                                      ELSE "QUOTA"]],
     Deployment({"rate"}, {}, {}, FALSE)}

MCLimits == [AUTH |-> 2, AUTH_STRICT |-> 1, USAGE |-> 2, INVOICE |-> 1]

=============================================================================
