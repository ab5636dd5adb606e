------------------------------ MODULE Catalogue ------------------------------
(***************************************************************************)
(* What is sold and to whom: plans, features, prices and entitlements,     *)
(* which platform administrators edit, and the subscriptions of one        *)
(* tenant, each with a snapshot of its plan's entitlements.                *)
(*                                                                         *)
(* An entitlement is the set of the columns that are not NULL.  A request  *)
(* that creates a subscription reads the plan, the price and the           *)
(* entitlements one after the other, and writes in a transaction at the    *)
(* isolation level READ COMMITTED.                                         *)
(***************************************************************************)
EXTENDS Access

CONSTANTS
    Plans,      \* plans, by slug
    Features,   \* features, by lookup key
    Prices,     \* plan prices: a plan, an interval and a currency each
    Subscribers, \* requests for a subscription that may run at the same time
    Tenant,     \* the tenant that subscribes
    MaxSubs     \* bound: subscriptions created

Subs == 1 .. MaxSubs
Types == {"BOOLEAN", "QUOTA", "METERED"}
Fields == {"value", "limit", "limitBehavior", "overagePrice", "includedAmount", "resetPeriod"}

\* types: the features and their types; dtos: the bodies of requests about entitlements,
\* by the fields they give, or null; nulls: whether bodies may say null.
ASSUME CatalogueAssumption ==
    /\ Tenant \in Tenants
    /\ MaxSubs \in Nat
    /\ \A d \in Deployments :
        /\ d.types \in [Features -> Types]
        /\ \A b \in d.dtos : b.given \subseteq Fields /\ b.null \subseteq Fields \ b.given
        /\ d.nulls <=> \E b \in d.dtos : b.null # {}

VARIABLES
    plan,        \* plans.status
    feature,     \* features.status; the type never changes
    price,       \* plan_prices: the plan, is_active
    ent,         \* entitlements: the fields of each plan's features
    sub,         \* subscriptions of the tenant, with their snapshots
    order,       \* local state of each request for a subscription
    cancelling,  \* subscriptions that requests to cancel have found
    clashed      \* history: whether two such requests ran at the same time

catalogueVars == <<plan, feature, price, ent, sub, order, cancelling, clashed>>
catalogueAllVars == <<accessVars, catalogueVars>>

-----------------------------------------------------------------------------

NoEnt == [exists |-> FALSE, fields |-> {}]
NoSub == [status |-> "none", snapshot |-> {}]
NoOrder == [step |-> "idle", price |-> {}, ents |-> {}, seen |-> {}]
Live == {"ACTIVE", "TRIALING"}
Snapshot == [feature : Features, fields : SUBSET Fields]

Subscription == [status : Live \union {"none", "CANCELLED"}, snapshot : SUBSET Snapshot]
Ordering == [step : {"idle", "price", "entitlements", "cancel", "commit"},
             price : SUBSET (Plans \X Prices), ents : SUBSET Snapshot, seen : SUBSET Subs]

CatalogueTypeOK ==
    /\ AccessTypeOK
    /\ plan \in [Plans -> {"ABSENT", "ACTIVE", "ARCHIVED"}]
    /\ feature \in [Features -> {"ABSENT", "ACTIVE", "ARCHIVED"}]
    /\ price \in [Prices -> [plan : SUBSET Plans, active : BOOLEAN]]
    /\ ent \in [Plans \X Features -> [exists : BOOLEAN, fields : SUBSET Fields]]
    /\ sub \in [Subs -> Subscription]
    /\ order \in [Subscribers -> Ordering]
    /\ cancelling \subseteq Subs
    /\ clashed \in BOOLEAN

CatalogueInit ==
    /\ AccessInit
    /\ plan = [p \in Plans |-> "ABSENT"]
    /\ feature = [f \in Features |-> "ABSENT"]
    /\ price = [r \in Prices |-> [plan |-> {}, active |-> FALSE]]
    /\ ent = [x \in Plans \X Features |-> NoEnt]
    /\ sub = [s \in Subs |-> NoSub]
    /\ order = [c \in Subscribers |-> NoOrder]
    /\ cancelling = {}
    /\ clashed = FALSE

\* What the guards of a route of the catalogue let through.
PlanRoutes == [op \in {"createPlan", "updatePlan"} |-> "platformAdmin"]
FeatureRoutes == [op \in {"createFeature", "updateFeature"} |-> "platformAdmin"]
PriceRoutes == [op \in {"createPrice", "deactivatePrice"} |-> "platformAdmin"]
EntitlementRoutes ==
    [op \in {"createEntitlement", "updateEntitlement", "removeEntitlement"} |-> "platformAdmin"]
SubscriptionRoutes == [op \in {"subscribe", "cancel"} |-> OneOf(Admins)]

Edits(routes, op) ==
    /\ Serves(op)
    /\ routes[op] = "platformAdmin"
    /\ \E u \in Users : PlatformAdmin(u)

-----------------------------------------------------------------------------
(* Plans, features, prices *)

CreatePlan(p) ==
    /\ Edits(PlanRoutes, "createPlan")
    /\ plan[p] = "ABSENT"
    /\ plan' = [plan EXCEPT ![p] = "ACTIVE"]
    /\ UNCHANGED <<accessVars, feature, price, ent, sub, order, cancelling, clashed>>

UpdatePlan(p, s) ==
    /\ Edits(PlanRoutes, "updatePlan")
    /\ plan[p] # "ABSENT"
    /\ plan' = [plan EXCEPT ![p] = s]
    /\ UNCHANGED <<accessVars, feature, price, ent, sub, order, cancelling, clashed>>

CreateFeature(f) ==
    /\ Edits(FeatureRoutes, "createFeature")
    /\ feature[f] = "ABSENT"
    /\ feature' = [feature EXCEPT ![f] = "ACTIVE"]
    /\ UNCHANGED <<accessVars, plan, price, ent, sub, order, cancelling, clashed>>

UpdateFeature(f, s) ==
    /\ Edits(FeatureRoutes, "updateFeature")
    /\ feature[f] # "ABSENT"
    /\ feature' = [feature EXCEPT ![f] = s]
    /\ UNCHANGED <<accessVars, plan, price, ent, sub, order, cancelling, clashed>>

\* A price needs a plan, of any status; plan, interval and currency are unique.
CreatePrice(r, p) ==
    /\ Edits(PriceRoutes, "createPrice")
    /\ plan[p] # "ABSENT"
    /\ price[r].plan = {}
    /\ price' = [price EXCEPT ![r] = [plan |-> {p}, active |-> TRUE]]
    /\ UNCHANGED <<accessVars, plan, feature, ent, sub, order, cancelling, clashed>>

\* By the price's id alone, whatever plan the path names.
DeactivatePrice(r) ==
    /\ Edits(PriceRoutes, "deactivatePrice")
    /\ price[r].plan # {}
    /\ price' = [price EXCEPT ![r].active = FALSE]
    /\ UNCHANGED <<accessVars, plan, feature, ent, sub, order, cancelling, clashed>>

-----------------------------------------------------------------------------
(* Entitlements *)

TypeOf(f) == deployment.types[f]

\* What the check forbids and requires, not what its documentation says: resetPeriod is
\* required of no type and forbidden to none, and a BOOLEAN may do without a value.
Forbidden(type) ==
    CASE type = "BOOLEAN" -> {"limit", "overagePrice", "includedAmount"}
      [] type = "QUOTA"   -> {"value", "includedAmount"}
      [] type = "METERED" -> {"value", "limit", "limitBehavior"}

Required(type) ==
    CASE type = "BOOLEAN" -> {}
      [] type = "QUOTA"   -> {"limit"}
      [] type = "METERED" -> {"overagePrice"}

\* Mutant: only new entitlements are looked at.
ValidOnCreation(f, b, creating) == creating => b.given \intersect Forbidden(TypeOf(f)) = {}

\* validateFieldsForType: null is not undefined.  What is required is so of a body with
\* a featureId, which an update has not.
Valid(f, b, creating) ==
    LET mentioned == b.given \union b.null
    IN  /\ mentioned \intersect Forbidden(TypeOf(f)) = {}
        /\ creating => Required(TypeOf(f)) \subseteq mentioned

CreateEntitlement(p, f, b) ==
    /\ Edits(EntitlementRoutes, "createEntitlement")
    /\ plan[p] = "ACTIVE"
    /\ feature[f] = "ACTIVE"
    /\ Valid(f, b, TRUE)
    /\ ~ent[<<p, f>>].exists
    /\ ent' = [ent EXCEPT ![<<p, f>>] = [exists |-> TRUE, fields |-> b.given]]
    /\ UNCHANGED <<accessVars, plan, feature, price, sub, order, cancelling, clashed>>

UpdateEntitlement(p, f, b) ==
    /\ Edits(EntitlementRoutes, "updateEntitlement")
    /\ ent[<<p, f>>].exists
    /\ Valid(f, b, FALSE)
    /\ ent' = [ent EXCEPT ![<<p, f>>].fields = (@ \union b.given) \ b.null]
    /\ UNCHANGED <<accessVars, plan, feature, price, sub, order, cancelling, clashed>>

RemoveEntitlement(p, f) ==
    /\ Edits(EntitlementRoutes, "removeEntitlement")
    /\ ent[<<p, f>>].exists
    /\ ent' = [ent EXCEPT ![<<p, f>>] = NoEnt]
    /\ UNCHANGED <<accessVars, plan, feature, price, sub, order, cancelling, clashed>>

-----------------------------------------------------------------------------
(* Subscriptions *)

Subscribes(op) ==
    /\ Serves(op)
    /\ \E u \in Users : Admits(SubscriptionRoutes[op], u, Tenant)

\* create: the plan is there and ACTIVE.
OrderPlan(c, p, r) ==
    /\ Subscribes("subscribe")
    /\ order[c] = NoOrder
    /\ plan[p] = "ACTIVE"
    /\ order' = [order EXCEPT ![c] = [NoOrder EXCEPT !.step = "price", !.price = {<<p, r>>}]]
    /\ clashed' = (clashed \/ \E d \in Subscribers : order[d] # NoOrder)
    /\ UNCHANGED <<accessVars, plan, feature, price, ent, sub, cancelling>>

Proceed(c, step) == order' = [order EXCEPT ![c].step = step]

\* The price is the plan's, and active; if not, the request ends.
OrderPrice(c) ==
    /\ order[c].step = "price"
    /\ \E x \in order[c].price :
        IF price[x[2]].plan = {x[1]} /\ price[x[2]].active
        THEN Proceed(c, "entitlements")
        ELSE order' = [order EXCEPT ![c] = NoOrder]
    /\ UNCHANGED <<accessVars, plan, feature, price, ent, sub, cancelling, clashed>>

\* The entitlements of the plan, those of archived features too.
OrderEntitlements(c) ==
    /\ order[c].step = "entitlements"
    /\ \E x \in order[c].price :
        order' = [order EXCEPT
                    ![c].step = "cancel",
                    ![c].ents = {e \in Snapshot : /\ ent[<<x[1], e.feature>>].exists
                                                  /\ ent[<<x[1], e.feature>>].fields = e.fields}]
    /\ UNCHANGED <<accessVars, plan, feature, price, ent, sub, cancelling, clashed>>

\* Mutant: a trial is not cancelled.
CancelledByActive(s) == sub[s].status = "ACTIVE"

CancelledBy(s) == sub[s].status \in Live

\* The transaction begins: updateMany finds the live subscriptions that are committed.
OrderCancel(c) ==
    /\ order[c].step = "cancel"
    /\ order' = [order EXCEPT ![c].step = "commit",
                              ![c].seen = {s \in Subs : CancelledBy(s)}]
    /\ UNCHANGED <<accessVars, plan, feature, price, ent, sub, cancelling, clashed>>

\* It commits: those are cancelled, the new one and its snapshots are there.
OrderCommit(c, trial) ==
    LET free == {s \in Subs : sub[s] = NoSub}
        new == CHOOSE s \in free : TRUE
    IN  /\ order[c].step = "commit"
        /\ free # {}
        /\ sub' = [s \in Subs |->
                     IF s = new
                     THEN [status |-> IF trial THEN "TRIALING" ELSE "ACTIVE",
                           snapshot |-> order[c].ents]
                     ELSE IF s \in order[c].seen
                          THEN [sub[s] EXCEPT !.status = "CANCELLED"] ELSE sub[s]]
        /\ order' = [order EXCEPT ![c] = NoOrder]
        /\ UNCHANGED <<accessVars, plan, feature, price, ent, cancelling, clashed>>

OrderFails(c) ==
    /\ Serves("failure")
    /\ order[c] # NoOrder
    /\ order' = [order EXCEPT ![c] = NoOrder]
    /\ UNCHANGED <<accessVars, plan, feature, price, ent, sub, cancelling, clashed>>

\* cancel: a live subscription is found; a request that fails does not go on.
CancelFind(s) ==
    /\ Subscribes("cancel")
    /\ sub[s].status \in Live
    /\ cancelling' = cancelling \union {s}
    /\ UNCHANGED <<accessVars, plan, feature, price, ent, sub, order, clashed>>

\* The update is by its id alone, whatever its status is by now.
CancelUpdate(s) ==
    /\ s \in cancelling
    /\ cancelling' = cancelling \ {s}
    /\ sub' = [sub EXCEPT ![s].status = "CANCELLED"]
    /\ UNCHANGED <<accessVars, plan, feature, price, ent, order, clashed>>

-----------------------------------------------------------------------------

CatalogueStep ==
    \/ \E p \in Plans :
        \/ CreatePlan(p) \/ \E s \in {"ACTIVE", "ARCHIVED"} : UpdatePlan(p, s)
        \/ \E r \in Prices : CreatePrice(r, p) \/ \E c \in Subscribers : OrderPlan(c, p, r)
        \/ \E f \in Features :
            \/ RemoveEntitlement(p, f)
            \/ \E b \in deployment.dtos : CreateEntitlement(p, f, b) \/ UpdateEntitlement(p, f, b)
    \/ \E f \in Features :
        CreateFeature(f) \/ \E s \in {"ACTIVE", "ARCHIVED"} : UpdateFeature(f, s)
    \/ \E r \in Prices : DeactivatePrice(r)
    \/ \E c \in Subscribers :
        \/ OrderPrice(c) \/ OrderEntitlements(c) \/ OrderCancel(c) \/ OrderFails(c)
        \/ \E trial \in BOOLEAN : OrderCommit(c, trial)
    \/ \E s \in Subs : CancelFind(s) \/ CancelUpdate(s)

CatalogueNext == (AccessNext /\ UNCHANGED catalogueVars) \/ CatalogueStep

CatalogueSpec == CatalogueInit /\ [][CatalogueNext]_catalogueAllVars

-----------------------------------------------------------------------------
(* Properties *)

\* A tenant has one live subscription at most, as the check of entitlements and the
\* billing take for granted, if no two requests for one overlapped.
OneSubscription ==
    ~clashed =>
        \A s, t \in Subs : sub[s].status \in Live /\ sub[t].status \in Live => s = t

Shaped(f, fields) ==
    /\ fields \intersect Forbidden(TypeOf(f)) = {}
    /\ deployment.nulls \/ Required(TypeOf(f)) \subseteq fields

\* Entitlements, and the snapshots that are billed by, have the limit of a QUOTA and the
\* overage price of a METERED feature, and nothing that validateFieldsForType refuses to
\* their type, through any updates, and after an entitlement was removed and created anew.
\* A null in a request gets past what is required.  What the method is documented to
\* require beyond that, a BOOLEAN's value and a reset period, may be missing.
SnapshotsShaped ==
    /\ \A p \in Plans, f \in Features :
        ent[<<p, f>>].exists => Shaped(f, ent[<<p, f>>].fields)
    /\ \A s \in Subs : \A e \in sub[s].snapshot : Shaped(e.feature, e.fields)

=============================================================================
