---------------------------- MODULE BackOfficeProofs ----------------------------
(***************************************************************************)
(* Proofs about the catalogue, for every number of plans, features,        *)
(* prices, subscriptions and requests for them; about the rate limiter,    *)
(* for all limits and any number of requests, windows and faults; and      *)
(* about the back office: what is proved of its parts holds of the whole.  *)
(***************************************************************************)
EXTENDS BackOffice, AccessProofs, FiniteSetTheorems

(* The catalogue *)

\* What a step of the catalogue leaves alone.
LEMMA CatalogueStepFrame == CatalogueStep => UNCHANGED accessVars
BY DEF CatalogueStep, CreatePlan, UpdatePlan, CreateFeature, UpdateFeature, CreatePrice,
       DeactivatePrice, CreateEntitlement, UpdateEntitlement, RemoveEntitlement, OrderPlan,
       OrderPrice, OrderEntitlements, OrderCancel, OrderCommit, OrderFails, CancelFind, CancelUpdate

\* The catalogue adds to what users, members and keys do, and changes nothing of it.
THEOREM CatalogueKeepsAccess == CatalogueSpec => AccessSpec
<1>1. CatalogueInit => AccessInit
  BY DEF CatalogueInit
<1>2. [CatalogueNext]_catalogueAllVars => [AccessNext]_accessVars
  BY CatalogueStepFrame DEF CatalogueNext, catalogueAllVars
<1> QED
  BY <1>1, <1>2, PTL DEF CatalogueSpec, AccessSpec

-----------------------------------------------------------------------------
(* Types *)

LEMMA NoOrderType == NoOrder \in Ordering /\ NoSub \in Subscription
BY DEF NoOrder, Ordering, NoSub, Subscription, Live

LEMMA CatalogueTypesInit == CatalogueInit => CatalogueTypeOK
<1> SUFFICES ASSUME CatalogueInit PROVE CatalogueTypeOK
  OBVIOUS
<1>1. AccessTypeOK
  BY AccessInvInit DEF CatalogueInit, AccessInv
<1> QED
  BY <1>1, NoOrderType DEF CatalogueInit, CatalogueTypeOK, NoEnt

LEMMA CatalogueTypesStep ==
  CatalogueTypeOK /\ AccessTypeOK' /\ [CatalogueNext]_catalogueAllVars => CatalogueTypeOK'
<1> SUFFICES ASSUME CatalogueTypeOK, AccessTypeOK', [CatalogueNext]_catalogueAllVars
             PROVE  CatalogueTypeOK'
  OBVIOUS
<1>0. /\ plan \in [Plans -> {"ABSENT", "ACTIVE", "ARCHIVED"}]
      /\ feature \in [Features -> {"ABSENT", "ACTIVE", "ARCHIVED"}]
      /\ price \in [Prices -> [plan : SUBSET Plans, active : BOOLEAN]]
      /\ ent \in [Plans \X Features -> [exists : BOOLEAN, fields : SUBSET Fields]]
      /\ sub \in [Subs -> Subscription]
      /\ order \in [Subscribers -> Ordering]
      /\ cancelling \subseteq Subs
      /\ clashed \in BOOLEAN
      /\ deployment \in Deployments
  BY DEF CatalogueTypeOK, AccessTypeOK
<1>1. CASE UNCHANGED catalogueVars
  BY <1>1 DEF catalogueVars, CatalogueTypeOK
<1>2. ASSUME NEW p \in Plans, CreatePlan(p) \/ \E s \in {"ACTIVE", "ARCHIVED"} : UpdatePlan(p, s)
      PROVE  CatalogueTypeOK'
  BY <1>0, <1>2 DEF CreatePlan, UpdatePlan, CatalogueTypeOK
<1>3. ASSUME NEW f \in Features,
             CreateFeature(f) \/ \E s \in {"ACTIVE", "ARCHIVED"} : UpdateFeature(f, s)
      PROVE  CatalogueTypeOK'
  BY <1>0, <1>3 DEF CreateFeature, UpdateFeature, CatalogueTypeOK
<1>4. ASSUME NEW r \in Prices, DeactivatePrice(r) \/ \E p \in Plans : CreatePrice(r, p)
      PROVE  CatalogueTypeOK'
  <2>1. price' \in [Prices -> [plan : SUBSET Plans, active : BOOLEAN]]
    <3>1. CASE DeactivatePrice(r)
      <4>1. [price[r] EXCEPT !.active = FALSE] \in [plan : SUBSET Plans, active : BOOLEAN]
        BY <1>0
      <4> QED
        BY <1>0, <3>1, <4>1 DEF DeactivatePrice
    <3>2. ASSUME NEW p \in Plans, CreatePrice(r, p) PROVE <2>1
      <4>1. [plan |-> {p}, active |-> TRUE] \in [plan : SUBSET Plans, active : BOOLEAN]
        OBVIOUS
      <4> QED
        BY <1>0, <3>2, <4>1 DEF CreatePrice
    <3> QED
      BY <1>4, <3>1, <3>2
  <2> QED
    BY <1>0, <1>4, <2>1 DEF CreatePrice, DeactivatePrice, CatalogueTypeOK
<1>5. ASSUME NEW p \in Plans, NEW f \in Features,
             \/ RemoveEntitlement(p, f)
             \/ \E b \in deployment.dtos : CreateEntitlement(p, f, b) \/ UpdateEntitlement(p, f, b)
      PROVE  CatalogueTypeOK'
  <2>1. \A b \in deployment.dtos : b.given \subseteq Fields
    BY <1>0, CatalogueAssumption
  <2>2. ent' \in [Plans \X Features -> [exists : BOOLEAN, fields : SUBSET Fields]]
    <3>1. CASE RemoveEntitlement(p, f)
      BY <1>0, <3>1 DEF RemoveEntitlement, NoEnt
    <3>2. ASSUME NEW b \in deployment.dtos, CreateEntitlement(p, f, b) PROVE <2>2
      <4> DEFINE given == [exists |-> TRUE, fields |-> b.given]
      <4>1. given \in [exists : BOOLEAN, fields : SUBSET Fields]
        BY <2>1
      <4>2. ent' = [ent EXCEPT ![<<p, f>>] = given]
        BY <3>2 DEF CreateEntitlement
      <4> HIDE DEF given
      <4> QED
        BY <1>0, <4>1, <4>2
    <3>3. ASSUME NEW b \in deployment.dtos, UpdateEntitlement(p, f, b) PROVE <2>2
      <4> DEFINE left == (ent[<<p, f>>].fields \union b.given) \ b.null
      <4>1. left \subseteq Fields
        BY <1>0, <2>1
      <4>2. ent' = [ent EXCEPT ![<<p, f>>].fields = left]
        BY <3>3 DEF UpdateEntitlement
      <4> HIDE DEF left
      <4> QED
        BY <1>0, <4>1, <4>2
    <3> QED
      BY <1>5, <3>1, <3>2, <3>3
  <2> QED
    BY <1>0, <1>5, <2>2
    DEF RemoveEntitlement, CreateEntitlement, UpdateEntitlement, CatalogueTypeOK
<1>6. ASSUME NEW c \in Subscribers, NEW p \in Plans, NEW r \in Prices, OrderPlan(c, p, r)
      PROVE  CatalogueTypeOK'
  <2>1. [NoOrder EXCEPT !.step = "price", !.price = {<<p, r>>}] \in Ordering
    <3>1. {<<p, r>>} \subseteq Plans \X Prices
      OBVIOUS
    <3>2. \A x \in SUBSET (Plans \X Prices) :
            [NoOrder EXCEPT !.step = "price", !.price = x] \in Ordering
      BY NoOrderType DEF Ordering
    <3> QED
      BY <3>1, <3>2
  <2> QED
    BY <1>0, <1>6, <2>1 DEF OrderPlan, CatalogueTypeOK
<1>7. ASSUME NEW c \in Subscribers,
             OrderPrice(c) \/ OrderEntitlements(c) \/ OrderCancel(c) \/ OrderFails(c)
      PROVE  CatalogueTypeOK'
  <2>1. order' \in [Subscribers -> Ordering]
    <3>1. CASE OrderPrice(c)
      <4>1. [order[c] EXCEPT !.step = "entitlements"] \in Ordering
        BY <1>0 DEF Ordering
      <4> QED
        BY <1>0, <3>1, <4>1, NoOrderType DEF OrderPrice, Proceed
    <3>2. CASE OrderEntitlements(c)
      <4>1. PICK x \in order[c].price :
              order' = [order EXCEPT
                          ![c].step = "cancel",
                          ![c].ents = {e \in Snapshot :
                                         /\ ent[<<x[1], e.feature>>].exists
                                         /\ ent[<<x[1], e.feature>>].fields = e.fields}]
        BY <3>2 DEF OrderEntitlements
      <4> DEFINE E == {e \in Snapshot : /\ ent[<<x[1], e.feature>>].exists
                                        /\ ent[<<x[1], e.feature>>].fields = e.fields}
      <4>2. E \subseteq Snapshot
        OBVIOUS
      <4> HIDE DEF E
      <4>3. [order[c] EXCEPT !.step = "cancel", !.ents = E] \in Ordering
        <5> DEFINE o == order[c]
        <5>1. o \in Ordering
          BY <1>0
        <5> HIDE DEF o
        <5>2. [o EXCEPT !.step = "cancel", !.ents = E] \in Ordering
          BY <4>2, <5>1 DEF Ordering
        <5> QED
          BY <5>2 DEF o
      <4>4. order' = [order EXCEPT ![c] = [order[c] EXCEPT !.step = "cancel", !.ents = E]]
        BY <1>0, <4>1 DEF E
      <4> QED
        BY <1>0, <4>3, <4>4
    <3>3. CASE OrderCancel(c)
      <4> DEFINE S == {s \in Subs : CancelledBy(s)}
      <4>1. S \subseteq Subs
        OBVIOUS
      <4>2. order' = [order EXCEPT ![c] = [order[c] EXCEPT !.step = "commit", !.seen = S]]
        BY <1>0, <3>3 DEF OrderCancel
      <4> HIDE DEF S
      <4>3. [order[c] EXCEPT !.step = "commit", !.seen = S] \in Ordering
        <5> DEFINE o == order[c]
        <5>1. o \in Ordering
          BY <1>0
        <5> HIDE DEF o
        <5>2. [o EXCEPT !.step = "commit", !.seen = S] \in Ordering
          BY <4>1, <5>1 DEF Ordering
        <5> QED
          BY <5>2 DEF o
      <4> QED
        BY <1>0, <4>2, <4>3
    <3>4. CASE OrderFails(c)
      BY <1>0, <3>4, NoOrderType DEF OrderFails
    <3> QED
      BY <1>7, <3>1, <3>2, <3>3, <3>4
  <2> QED
    BY <1>0, <1>7, <2>1 DEF OrderPrice, OrderEntitlements, OrderCancel, OrderFails, CatalogueTypeOK
<1>8. ASSUME NEW c \in Subscribers, NEW trial \in BOOLEAN, OrderCommit(c, trial)
      PROVE  CatalogueTypeOK'
  <2>1. order' \in [Subscribers -> Ordering]
    BY <1>0, <1>8, NoOrderType DEF OrderCommit
  <2>2. [status |-> IF trial THEN "TRIALING" ELSE "ACTIVE", snapshot |-> order[c].ents]
          \in Subscription
    BY <1>0 DEF Ordering, Subscription, Live
  <2>3. \A s \in Subs : [sub[s] EXCEPT !.status = "CANCELLED"] \in Subscription
    BY <1>0 DEF Subscription
  <2>4. sub' \in [Subs -> Subscription]
    BY <1>0, <1>8, <2>2, <2>3 DEF OrderCommit
  <2> QED
    BY <1>0, <1>8, <2>1, <2>4 DEF OrderCommit, CatalogueTypeOK
<1>9. ASSUME NEW s \in Subs, CancelFind(s) \/ CancelUpdate(s) PROVE CatalogueTypeOK'
  <2>1. [sub[s] EXCEPT !.status = "CANCELLED"] \in Subscription
    BY <1>0 DEF Subscription
  <2>2. cancelling' \subseteq Subs
    BY <1>0, <1>9 DEF CancelFind, CancelUpdate
  <2>3. sub' \in [Subs -> Subscription]
    BY <1>0, <1>9, <2>1 DEF CancelFind, CancelUpdate
  <2> QED
    BY <1>0, <1>9, <2>2, <2>3 DEF CancelFind, CancelUpdate, CatalogueTypeOK
<1> QED
  BY <1>1, <1>2, <1>3, <1>4, <1>5, <1>6, <1>7, <1>8, <1>9
  DEF CatalogueNext, CatalogueStep, catalogueAllVars

\* The catalogue and the subscriptions are what their columns allow.
THEOREM CatalogueTypes == CatalogueSpec => []CatalogueTypeOK
BY AccessTypes, CatalogueKeepsAccess, CatalogueTypesInit, CatalogueTypesStep, PTL
DEF CatalogueSpec


-----------------------------------------------------------------------------
(* One live subscription *)

LiveSub(s) == sub[s].status \in Live

\* While requests have not overlapped, the one that is about to commit has seen every
\* live subscription there is.
OneLiveInv ==
    ~clashed =>
        /\ \A s, t \in Subs : LiveSub(s) /\ LiveSub(t) => s = t
        /\ \A c, d \in Subscribers : order[c] # NoOrder /\ order[d] # NoOrder => c = d
        /\ \A c \in Subscribers : order[c].step = "commit" =>
             \A s \in Subs : LiveSub(s) => s \in order[c].seen

LEMMA OneLiveStep ==
  CatalogueTypeOK /\ OneLiveInv /\ [CatalogueNext]_catalogueAllVars => OneLiveInv'
<1> SUFFICES ASSUME CatalogueTypeOK, OneLiveInv, [CatalogueNext]_catalogueAllVars, ~clashed'
             PROVE  /\ \A s, t \in Subs : LiveSub(s)' /\ LiveSub(t)' => s = t
                    /\ \A c, d \in Subscribers :
                         order'[c] # NoOrder /\ order'[d] # NoOrder => c = d
                    /\ \A c \in Subscribers : order'[c].step = "commit" =>
                         \A s \in Subs : LiveSub(s)' => s \in order'[c].seen
  BY DEF OneLiveInv
<1>0. /\ sub \in [Subs -> Subscription] /\ order \in [Subscribers -> Ordering]
      /\ NoOrder.step = "idle"
  BY DEF CatalogueTypeOK, NoOrder
<1> DEFINE Goal ==
      /\ \A s, t \in Subs : LiveSub(s)' /\ LiveSub(t)' => s = t
      /\ \A c, d \in Subscribers : order'[c] # NoOrder /\ order'[d] # NoOrder => c = d
      /\ \A c \in Subscribers : order'[c].step = "commit" =>
           \A s \in Subs : LiveSub(s)' => s \in order'[c].seen
\* Fewer subscriptions are live, and a request goes on at most.
<1>1. ASSUME ~clashed, \A s \in Subs : LiveSub(s)' => LiveSub(s),
             NEW c \in Subscribers, \A d \in Subscribers \ {c} : order'[d] = order[d],
             order'[c] # NoOrder => order[c] # NoOrder,
             \/ order'[c].step # "commit"
             \/ order[c].step = "commit" /\ order'[c].seen = order[c].seen
             \/ \A s \in Subs : LiveSub(s) => s \in order'[c].seen
      PROVE  Goal
  <2>1. /\ \A s, t \in Subs : LiveSub(s) /\ LiveSub(t) => s = t
        /\ \A a, d \in Subscribers : order[a] # NoOrder /\ order[d] # NoOrder => a = d
        /\ \A a \in Subscribers : order[a].step = "commit" =>
             \A s \in Subs : LiveSub(s) => s \in order[a].seen
    BY <1>1 DEF OneLiveInv
  <2>2. \A s, t \in Subs : LiveSub(s)' /\ LiveSub(t)' => s = t
    BY <1>1, <2>1
  <2>3. \A a, d \in Subscribers : order'[a] # NoOrder /\ order'[d] # NoOrder => a = d
    <3>1. \A a \in Subscribers : order'[a] # NoOrder => order[a] # NoOrder
      BY <1>1
    <3> QED
      BY <2>1, <3>1
  <2>4. \A a \in Subscribers : order'[a].step = "commit" =>
          \A s \in Subs : LiveSub(s)' => s \in order'[a].seen
    BY <1>1, <2>1
  <2> QED
    BY <2>2, <2>3, <2>4
<1>2. ASSUME ~clashed, \A s \in Subs : LiveSub(s)' => LiveSub(s), order' = order
      PROVE  Goal
  BY <1>2 DEF OneLiveInv
<1>3. CASE UNCHANGED <<sub, order, clashed>>
  BY <1>2, <1>3 DEF LiveSub
<1>4. ASSUME NEW c \in Subscribers, NEW p \in Plans, NEW r \in Prices, OrderPlan(c, p, r)
      PROVE  Goal
  <2>1. ~clashed /\ \A d \in Subscribers : order[d] = NoOrder
    BY <1>4 DEF OrderPlan
  <2>2. /\ order' = [order EXCEPT ![c] = [NoOrder EXCEPT !.step = "price", !.price = {<<p, r>>}]]
        /\ sub' = sub
    BY <1>4 DEF OrderPlan
  <2>3. [NoOrder EXCEPT !.step = "price", !.price = {<<p, r>>}].step = "price"
    BY DEF NoOrder
  <2>4. order'[c].step = "price" /\ \A d \in Subscribers \ {c} : order'[d] = NoOrder
    BY <1>0, <2>1, <2>2, <2>3
  <2>5. \A s, t \in Subs : LiveSub(s)' /\ LiveSub(t)' => s = t
    BY <2>1, <2>2 DEF OneLiveInv, LiveSub
  <2> QED
    BY <1>0, <2>4, <2>5
<1>5. ASSUME NEW c \in Subscribers, OrderPrice(c) \/ OrderFails(c) \/ OrderEntitlements(c)
      PROVE  Goal
  <2>1. /\ ~clashed /\ sub' = sub /\ order[c] # NoOrder
    BY <1>0, <1>5 DEF OrderPrice, OrderFails, OrderEntitlements
  <2>2. \A d \in Subscribers \ {c} : order'[d] = order[d]
    BY <1>0, <1>5 DEF OrderPrice, Proceed, OrderFails, OrderEntitlements
  <2>3. order'[c].step # "commit"
    <3>1. CASE OrderPrice(c)
      <4>1. [order[c] EXCEPT !.step = "entitlements"].step = "entitlements"
        BY <1>0 DEF Ordering
      <4> QED
        BY <1>0, <3>1, <4>1 DEF OrderPrice, Proceed
    <3>2. CASE OrderEntitlements(c)
      <4>1. \A E : [order[c] EXCEPT !.step = "cancel", !.ents = E].step = "cancel"
        BY <1>0 DEF Ordering
      <4>2. \E E : order' = [order EXCEPT ![c] = [order[c] EXCEPT !.step = "cancel", !.ents = E]]
        BY <1>0, <3>2 DEF OrderEntitlements
      <4> QED
        BY <1>0, <4>1, <4>2
    <3>3. CASE OrderFails(c)
      BY <1>0, <3>3 DEF OrderFails
    <3> QED
      BY <1>5, <3>1, <3>2, <3>3
  <2>4. \A s \in Subs : LiveSub(s)' => LiveSub(s)
    BY <2>1 DEF LiveSub
  <2> QED
    BY <1>1, <2>1, <2>2, <2>3, <2>4
<1>6. ASSUME NEW c \in Subscribers, OrderCancel(c) PROVE Goal
  <2> DEFINE S == {s \in Subs : CancelledBy(s)}
  <2>1. /\ ~clashed /\ sub' = sub /\ order[c] # NoOrder
        /\ order' = [order EXCEPT ![c] = [order[c] EXCEPT !.step = "commit", !.seen = S]]
    BY <1>0, <1>6 DEF OrderCancel
  <2>2. \A s \in Subs : LiveSub(s) => s \in S
    BY DEF CancelledBy, LiveSub
  <2> HIDE DEF S
  <2>3. [order[c] EXCEPT !.step = "commit", !.seen = S].seen = S
    BY <1>0 DEF Ordering
  <2>4. order'[c].seen = S /\ \A d \in Subscribers \ {c} : order'[d] = order[d]
    BY <1>0, <2>1, <2>3
  <2>5. \A s \in Subs : LiveSub(s)' => LiveSub(s)
    BY <2>1 DEF LiveSub
  <2> QED
    BY <1>1, <2>1, <2>2, <2>4, <2>5
\* The new subscription is the only one that is live.
<1>7. ASSUME NEW c \in Subscribers, NEW trial \in BOOLEAN, OrderCommit(c, trial) PROVE Goal
  <2>1. PICK new \in Subs :
          \A s \in Subs \ {new} :
             sub'[s] = IF s \in order[c].seen THEN [sub[s] EXCEPT !.status = "CANCELLED"]
                       ELSE sub[s]
    BY <1>7 DEF OrderCommit
  <2>2. ~clashed /\ order[c].step = "commit" /\ order' = [order EXCEPT ![c] = NoOrder]
    BY <1>7 DEF OrderCommit
  <2>3. /\ \A s \in Subs : LiveSub(s) => s \in order[c].seen
        /\ \A a \in Subscribers : order[a] # NoOrder => a = c
    BY <1>0, <2>2 DEF OneLiveInv
  <2>4. \A s \in Subs : [sub[s] EXCEPT !.status = "CANCELLED"].status = "CANCELLED"
    BY <1>0 DEF Subscription
  <2>5. \A s \in Subs \ {new} : ~LiveSub(s)'
    BY <2>1, <2>3, <2>4 DEF LiveSub, Live
  <2>6. \A d \in Subscribers : order'[d] = NoOrder
    BY <1>0, <2>2, <2>3
  <2> QED
    BY <1>0, <2>5, <2>6
<1>8. ASSUME NEW s \in Subs, CancelUpdate(s) PROVE Goal
  <2>1. [sub[s] EXCEPT !.status = "CANCELLED"].status = "CANCELLED"
    BY <1>0 DEF Subscription
  <2>2. /\ sub' = [sub EXCEPT ![s] = [sub[s] EXCEPT !.status = "CANCELLED"]]
        /\ UNCHANGED <<order, clashed>>
    BY <1>8 DEF CancelUpdate
  <2>3. \A t \in Subs : LiveSub(t)' => LiveSub(t)
    BY <1>0, <2>1, <2>2 DEF LiveSub, Live
  <2> QED
    BY <1>2, <2>2, <2>3
<1> QED
  BY <1>3, <1>4, <1>5, <1>6, <1>7, <1>8
  DEF CatalogueNext, CatalogueStep, catalogueAllVars, catalogueVars, CreatePlan, UpdatePlan,
      CreateFeature, UpdateFeature, CreatePrice, DeactivatePrice, CreateEntitlement,
      UpdateEntitlement, RemoveEntitlement, CancelFind

\* A tenant has one live subscription at most, if no two requests for one overlapped.
THEOREM OneLiveSubscription == CatalogueSpec => []OneSubscription
<1>1. CatalogueInit => OneLiveInv
  BY DEF CatalogueInit, OneLiveInv, LiveSub, NoSub, NoOrder, Live
<1>2. OneLiveInv => OneSubscription
  BY DEF OneLiveInv, OneSubscription, LiveSub
<1> QED
  BY <1>1, <1>2, CatalogueTypes, OneLiveStep, PTL DEF CatalogueSpec

-----------------------------------------------------------------------------
(* Snapshots *)

LEMMA DeploymentFixed == [CatalogueNext]_catalogueAllVars => deployment' = deployment
<1>1. [AccessNext]_accessVars => deployment' = deployment
  BY SessionStepFrame, TenantStepFrame DEF AccessNext, accessVars
<1> QED
  BY <1>1, CatalogueStepFrame DEF CatalogueNext, catalogueAllVars, accessVars

\* What requests have read is shaped, too.
ShapedInv ==
    /\ SnapshotsShaped
    /\ \A c \in Subscribers : \A e \in order[c].ents : Shaped(e.feature, e.fields)

LEMMA ShapedStep ==
  CatalogueTypeOK /\ ShapedInv /\ [CatalogueNext]_catalogueAllVars => ShapedInv'
<1> SUFFICES ASSUME CatalogueTypeOK, ShapedInv, [CatalogueNext]_catalogueAllVars
             PROVE  ShapedInv'
  OBVIOUS
<1>0. /\ sub \in [Subs -> Subscription] /\ order \in [Subscribers -> Ordering]
      /\ ent \in [Plans \X Features -> [exists : BOOLEAN, fields : SUBSET Fields]]
      /\ deployment \in Deployments
  BY DEF CatalogueTypeOK, AccessTypeOK
<1>1. \A f, fields : Shaped(f, fields)' <=> Shaped(f, fields)
  BY DeploymentFixed DEF Shaped, TypeOf
\* It is enough to look at what is new.
<1>2. ASSUME \A p \in Plans, f \in Features : ent'[<<p, f>>].exists =>
               ent'[<<p, f>>] = ent[<<p, f>>] \/ Shaped(f, ent'[<<p, f>>].fields),
             \A s \in Subs : \/ sub'[s].snapshot = sub[s].snapshot
                             \/ \A e \in sub'[s].snapshot : Shaped(e.feature, e.fields),
             \A c \in Subscribers : \/ order'[c].ents = order[c].ents
                                    \/ \A e \in order'[c].ents : Shaped(e.feature, e.fields)
      PROVE  ShapedInv'
  <2>1. \A p \in Plans, f \in Features :
          ent'[<<p, f>>].exists => Shaped(f, ent'[<<p, f>>].fields)
    BY <1>2 DEF ShapedInv, SnapshotsShaped
  <2>2. \A s \in Subs : \A e \in sub'[s].snapshot : Shaped(e.feature, e.fields)
    BY <1>2 DEF ShapedInv, SnapshotsShaped
  <2>3. \A c \in Subscribers : \A e \in order'[c].ents : Shaped(e.feature, e.fields)
    BY <1>2 DEF ShapedInv
  <2>4. SnapshotsShaped'
    <3> SUFFICES /\ \A p \in Plans, f \in Features :
                      ent'[<<p, f>>].exists => Shaped(f, ent[<<p, f>>].fields)'
                 /\ \A s \in Subs : \A e \in sub'[s].snapshot : Shaped(e.feature, e.fields)'
      BY DEF SnapshotsShaped
    <3> QED
      BY <2>1, <2>2, DeploymentFixed DEF Shaped, TypeOf
  <2>5. \A c \in Subscribers : \A e \in order'[c].ents : Shaped(e.feature, e.fields)'
    BY <2>3, DeploymentFixed DEF Shaped, TypeOf
  <2> QED
    BY <2>4, <2>5 DEF ShapedInv
<1>3. CASE UNCHANGED <<ent, sub, order>>
  BY <1>2, <1>3
<1>4. ASSUME NEW p \in Plans, NEW f \in Features, NEW b \in deployment.dtos,
             CreateEntitlement(p, f, b)
      PROVE  ShapedInv'
  <2>1. Shaped(f, b.given)
    <3>1. b.null = {} \/ deployment.nulls
      BY <1>0, CatalogueAssumption
    <3> QED
      BY <1>4, <3>1 DEF CreateEntitlement, Valid, Shaped
  <2>2. ent' = [ent EXCEPT ![<<p, f>>] = [exists |-> TRUE, fields |-> b.given]]
        /\ UNCHANGED <<sub, order>>
    BY <1>4 DEF CreateEntitlement
  <2> QED
    BY <1>0, <1>2, <2>1, <2>2
<1>5. ASSUME NEW p \in Plans, NEW f \in Features, NEW b \in deployment.dtos,
             UpdateEntitlement(p, f, b)
      PROVE  ShapedInv'
  <2> DEFINE old == ent[<<p, f>>].fields
             new == (old \union b.given) \ b.null
  <2>1. Shaped(f, old)
    BY <1>5 DEF UpdateEntitlement, ShapedInv, SnapshotsShaped
  <2>2. Shaped(f, new)
    <3>1. b.null = {} \/ deployment.nulls
      BY <1>0, CatalogueAssumption
    <3> QED
      BY <1>5, <2>1, <3>1 DEF UpdateEntitlement, Valid, Shaped
  <2>3. /\ ent' = [ent EXCEPT ![<<p, f>>] = [ent[<<p, f>>] EXCEPT !.fields = new]]
        /\ UNCHANGED <<sub, order>>
    BY <1>0, <1>5 DEF UpdateEntitlement
  <2> HIDE DEF new
  <2>4. [ent[<<p, f>>] EXCEPT !.fields = new].fields = new
    BY <1>0
  <2> QED
    BY <1>0, <1>2, <2>2, <2>3, <2>4
<1>6. ASSUME NEW p \in Plans, NEW f \in Features, RemoveEntitlement(p, f) PROVE ShapedInv'
  <2>1. ent' = [ent EXCEPT ![<<p, f>>] = NoEnt] /\ UNCHANGED <<sub, order>> /\ ~NoEnt.exists
    BY <1>6 DEF RemoveEntitlement, NoEnt
  <2> QED
    BY <1>0, <1>2, <2>1
<1>7. ASSUME NEW c \in Subscribers, UNCHANGED <<ent, sub>>,
             \A d \in Subscribers \ {c} : order'[d] = order[d],
             \/ order'[c].ents = order[c].ents
             \/ \A e \in order'[c].ents : Shaped(e.feature, e.fields)
      PROVE  ShapedInv'
  BY <1>2, <1>7
<1>8. ASSUME NEW c \in Subscribers, NEW p \in Plans, NEW r \in Prices, OrderPlan(c, p, r)
      PROVE  ShapedInv'
  <2>1. [NoOrder EXCEPT !.step = "price", !.price = {<<p, r>>}].ents = {}
    BY DEF NoOrder
  <2>2. /\ order' = [order EXCEPT ![c] = [NoOrder EXCEPT !.step = "price", !.price = {<<p, r>>}]]
        /\ UNCHANGED <<ent, sub>>
    BY <1>8 DEF OrderPlan
  <2> QED
    BY <1>0, <1>7, <2>1, <2>2
<1>9. ASSUME NEW c \in Subscribers, OrderPrice(c) \/ OrderFails(c) PROVE ShapedInv'
  <2>1. NoOrder.ents = {} /\ [order[c] EXCEPT !.step = "entitlements"].ents = order[c].ents
    BY <1>0 DEF NoOrder, Ordering
  <2>2. /\ UNCHANGED <<ent, sub>>
        /\ \/ order' = [order EXCEPT ![c] = NoOrder]
           \/ order' = [order EXCEPT ![c] = [order[c] EXCEPT !.step = "entitlements"]]
    BY <1>9 DEF OrderPrice, OrderFails, Proceed
  <2> QED
    BY <1>0, <1>7, <2>1, <2>2
<1>10. ASSUME NEW c \in Subscribers, OrderEntitlements(c) PROVE ShapedInv'
  <2>1. PICK x \in order[c].price :
          order' = [order EXCEPT
                      ![c].step = "cancel",
                      ![c].ents = {e \in Snapshot : /\ ent[<<x[1], e.feature>>].exists
                                                    /\ ent[<<x[1], e.feature>>].fields = e.fields}]
    BY <1>10 DEF OrderEntitlements
  <2> DEFINE E == {e \in Snapshot : /\ ent[<<x[1], e.feature>>].exists
                                    /\ ent[<<x[1], e.feature>>].fields = e.fields}
  <2>2. x[1] \in Plans
    BY <1>0 DEF Ordering
  <2>3. \A e \in E : Shaped(e.feature, e.fields)
    BY <2>2 DEF Snapshot, ShapedInv, SnapshotsShaped
  <2>4. /\ order' = [order EXCEPT ![c] = [order[c] EXCEPT !.step = "cancel", !.ents = E]]
        /\ UNCHANGED <<ent, sub>>
    BY <1>0, <1>10, <2>1 DEF OrderEntitlements
  <2> HIDE DEF E
  <2>5. [order[c] EXCEPT !.step = "cancel", !.ents = E].ents = E
    BY <1>0 DEF Ordering
  <2> QED
    BY <1>0, <1>7, <2>3, <2>4, <2>5
<1>11. ASSUME NEW c \in Subscribers, OrderCancel(c) PROVE ShapedInv'
  <2>1. \E S : order' = [order EXCEPT ![c] = [order[c] EXCEPT !.step = "commit", !.seen = S]]
    BY <1>0, <1>11 DEF OrderCancel
  <2>2. \A S : [order[c] EXCEPT !.step = "commit", !.seen = S].ents = order[c].ents
    BY <1>0 DEF Ordering
  <2>3. UNCHANGED <<ent, sub>>
    BY <1>11 DEF OrderCancel
  <2> QED
    BY <1>0, <1>7, <2>1, <2>2, <2>3
<1>12. ASSUME NEW c \in Subscribers, NEW trial \in BOOLEAN, OrderCommit(c, trial)
       PROVE  ShapedInv'
  <2>1. PICK new \in Subs :
          /\ sub'[new].snapshot = order[c].ents
          /\ \A s \in Subs \ {new} :
               sub'[s] = IF s \in order[c].seen THEN [sub[s] EXCEPT !.status = "CANCELLED"]
                         ELSE sub[s]
    BY <1>12 DEF OrderCommit
  <2>2. \A s \in Subs : [sub[s] EXCEPT !.status = "CANCELLED"].snapshot = sub[s].snapshot
    BY <1>0 DEF Subscription
  <2>3. \A s \in Subs : \/ sub'[s].snapshot = sub[s].snapshot
                        \/ \A e \in sub'[s].snapshot : Shaped(e.feature, e.fields)
    BY <2>1, <2>2 DEF ShapedInv
  <2>4. NoOrder.ents = {} /\ ent' = ent /\ order' = [order EXCEPT ![c] = NoOrder]
    BY <1>12 DEF OrderCommit, NoOrder
  <2> QED
    BY <1>0, <1>2, <2>3, <2>4
<1>13. ASSUME NEW s \in Subs, CancelUpdate(s) PROVE ShapedInv'
  <2>1. [sub[s] EXCEPT !.status = "CANCELLED"].snapshot = sub[s].snapshot
    BY <1>0 DEF Subscription
  <2>2. /\ sub' = [sub EXCEPT ![s] = [sub[s] EXCEPT !.status = "CANCELLED"]]
        /\ UNCHANGED <<ent, order>>
    BY <1>13 DEF CancelUpdate
  <2>3. \A t \in Subs : sub'[t].snapshot = sub[t].snapshot
    BY <1>0, <2>1, <2>2
  <2> QED
    BY <1>2, <2>2, <2>3
<1> QED
  BY <1>3, <1>4, <1>5, <1>6, <1>8, <1>9, <1>10, <1>11, <1>12, <1>13
  DEF CatalogueNext, CatalogueStep, catalogueAllVars, catalogueVars, CreatePlan, UpdatePlan,
      CreateFeature, UpdateFeature, CreatePrice, DeactivatePrice, CancelFind

\* What is billed by has the limit of a QUOTA and the overage price of a METERED feature,
\* unless a request said null, and nothing that the check of entitlements refuses to its
\* feature's type.
THEOREM SnapshotsStayShaped == CatalogueSpec => []SnapshotsShaped
<1>1. CatalogueInit => ShapedInv
  BY DEF CatalogueInit, ShapedInv, SnapshotsShaped, NoEnt, NoSub, NoOrder
<1>2. ShapedInv => SnapshotsShaped
  BY DEF ShapedInv
<1> QED
  BY <1>1, <1>2, CatalogueTypes, ShapedStep, PTL DEF CatalogueSpec

-----------------------------------------------------------------------------
(* The rate limiter *)

AskRow == [step : {"idle", "incr", "expire", "decide"}, preset : Presets,
           window : Windows, current : Nat]

LEMMA NotAskingType == NotAsking \in AskRow /\ NotAsking.step = "idle"
<1>1. 0 \in Windows
  BY RateAssumption DEF Windows
<1> QED
  BY <1>1 DEF NotAsking, AskRow, Presets

LEMMA KeyOfRequest ==
  ASSUME NEW a \in AskRow
  PROVE  /\ RedisKey(a) = <<KeyType[a.preset], a.window>> /\ RedisKey(a) \in RedisKeys
         /\ a.preset \in Presets /\ a.window \in Windows
BY DEF RedisKey, RedisKeys, KeyType, AskRow, Presets

LEMMA RateTypesInit == RateInit => RateTypeOK
<1> SUFFICES ASSUME RateInit PROVE RateTypeOK
  OBVIOUS
<1>1. 0 \in Windows /\ 0 \in 0 .. MaxAsks /\ 0 \in 0 .. MaxRedisFaults
  BY RateAssumption DEF Windows
<1> QED
  BY <1>1, NotAskingType DEF RateInit, RateTypeOK, AskRow

\* What counting does.
LEMMA Counted ==
  ASSUME RateTypeOK, NEW r \in Asking, Count(r)
  PROVE  /\ counter' \in [RedisKeys -> Nat] /\ revived' \subseteq Windows
         /\ revived \subseteq revived'
         /\ counter'[RedisKey(ask[r])] = counter[RedisKey(ask[r])] + 1
         /\ \A k \in RedisKeys \ {RedisKey(ask[r])} : counter'[k] = counter[k]
         /\ ask[r].window < window /\ counter[RedisKey(ask[r])] = 0 => ask[r].window \in revived'
<1>1. /\ counter \in [RedisKeys -> Nat] /\ revived \subseteq Windows
      /\ RedisKey(ask[r]) \in RedisKeys /\ ask[r].window \in Windows
  BY KeyOfRequest DEF RateTypeOK, AskRow
<1> QED
  BY <1>1 DEF Count

LEMMA RateTypesStep == RateTypeOK /\ [RateNext]_rateVars => RateTypeOK'
<1> SUFFICES ASSUME RateTypeOK, [RateNext]_rateVars PROVE RateTypeOK'
  OBVIOUS
<1>0. /\ window \in Windows /\ counter \in [RedisKeys -> Nat] /\ ttl \subseteq RedisKeys
      /\ ask \in [Asking -> AskRow] /\ asks \in 0 .. MaxAsks
      /\ passed \in [Presets \X Windows -> Nat]
      /\ failed \subseteq Windows /\ revived \subseteq Windows
      /\ redisFaults \in 0 .. MaxRedisFaults
  BY DEF RateTypeOK, AskRow
<1>1. CASE UNCHANGED rateVars
  BY <1>1 DEF rateVars, RateTypeOK
<1>2. CASE WindowPasses
  <2>1. window' \in Windows
    BY <1>0, <1>2, RateAssumption DEF WindowPasses, Windows
  <2> QED
    BY <1>0, <1>2, <2>1 DEF WindowPasses, RateTypeOK, AskRow
<1>3. ASSUME NEW k \in RedisKeys, CounterExpires(k) PROVE RateTypeOK'
  BY <1>0, <1>3 DEF CounterExpires, RateTypeOK, AskRow
<1>4. ASSUME NEW r \in Asking, NEW preset \in Presets, Ask(r, preset) PROVE RateTypeOK'
  <2>1. [step |-> "incr", preset |-> preset, window |-> window, current |-> 0] \in AskRow
    BY <1>0 DEF AskRow
  <2>2. asks' \in 0 .. MaxAsks
    BY <1>0, <1>4, RateAssumption DEF Ask
  <2> QED
    BY <1>0, <1>4, <2>1, <2>2 DEF Ask, RateTypeOK, AskRow
<1>5. ASSUME NEW r \in Asking, Incr(r) PROVE RateTypeOK'
  <2> DEFINE cur == counter[RedisKey(ask[r])] + 1
             step == IF cur = 1 THEN "expire" ELSE "decide"
  <2>1. /\ counter' \in [RedisKeys -> Nat] /\ revived' \subseteq Windows
        /\ cur \in Nat /\ step \in {"expire", "decide"}
    BY <1>0, <1>5, Counted, KeyOfRequest DEF Incr
  <2>2. ask' = [ask EXCEPT ![r] = [ask[r] EXCEPT !.current = cur, !.step = step]]
    BY <1>0, <1>5 DEF Incr
  <2> HIDE DEF cur, step
  <2>3. [ask[r] EXCEPT !.current = cur, !.step = step] \in AskRow
    BY <1>0, <2>1 DEF AskRow
  <2>4. ask' \in [Asking -> AskRow]
    BY <1>0, <2>2, <2>3
  <2> QED
    BY <1>0, <1>5, <2>1, <2>4 DEF Incr, RateTypeOK, AskRow
<1>6. ASSUME NEW r \in Asking, SetExpiry(r) PROVE RateTypeOK'
  <2>1. [ask[r] EXCEPT !.step = "decide"] \in AskRow /\ RedisKey(ask[r]) \in RedisKeys
    BY <1>0, KeyOfRequest DEF AskRow
  <2> QED
    BY <1>0, <1>6, <2>1 DEF SetExpiry, RateTypeOK, AskRow
<1>7. ASSUME NEW r \in Asking PROVE Pass(r) => passed' \in [Presets \X Windows -> Nat]
  BY <1>0, KeyOfRequest DEF Pass
<1>8. ASSUME NEW r \in Asking PROVE Answer(r) => ask' \in [Asking -> AskRow]
  BY <1>0, NotAskingType DEF Answer
<1>9. ASSUME NEW r \in Asking, Decide(r) PROVE RateTypeOK'
  BY <1>0, <1>7, <1>8, <1>9 DEF Decide, RateTypeOK, AskRow
<1>10. ASSUME NEW r \in Asking, RedisFails(r) PROVE RateTypeOK'
  <2>1. /\ counter' \in [RedisKeys -> Nat] /\ revived' \subseteq Windows
        /\ ttl' \subseteq RedisKeys
    BY <1>0, <1>10, Counted, KeyOfRequest DEF RedisFails
  <2>2. failed' \subseteq Windows /\ redisFaults' \in 0 .. MaxRedisFaults
    BY <1>0, <1>10, KeyOfRequest, RateAssumption DEF RedisFails
  <2> QED
    BY <1>0, <1>7, <1>8, <1>10, <2>1, <2>2 DEF RedisFails, RateTypeOK, AskRow
<1> QED
  BY <1>1, <1>2, <1>3, <1>4, <1>5, <1>6, <1>9, <1>10 DEF RateNext

\* Counters, windows and requests are what the guard makes them.
THEOREM RateTypes == RateSpec => []RateTypeOK
BY RateTypesInit, RateTypesStep, PTL DEF RateSpec

-----------------------------------------------------------------------------
(* No more are let through than are counted *)

Granting(a, p, w) ==
    a.step \in {"expire", "decide"} /\ a.preset = p /\ a.window = w /\ a.current <= Limits[p]

\* The requests of a preset and a window that will be let through.
Granted(p, w) == {r \in Asking : Granting(ask[r], p, w)}

Total(p, w) == passed[<<p, w>>] + Cardinality(Granted(p, w))

\* Each of them is behind a count of its own, as long as there is a counter.
CountInv ==
    \A p \in Presets, w \in Windows :
        w \notin failed \union revived =>
            /\ Total(p, w) <= Limits[p]
            /\ \/ Total(p, w) <= counter[<<KeyType[p], w>>]
               \/ w < window /\ counter[<<KeyType[p], w>>] = 0

LEMMA GrantedFinite ==
  ASSUME RateTypeOK, NEW p \in Presets, NEW w \in Windows
  PROVE  /\ IsFiniteSet(Granted(p, w)) /\ Cardinality(Granted(p, w)) \in Nat
         /\ passed[<<p, w>>] \in Nat /\ Total(p, w) \in Nat
         /\ counter[<<KeyType[p], w>>] \in Nat /\ <<KeyType[p], w>> \in RedisKeys
         /\ Limits[p] \in Nat /\ window \in Nat /\ w \in Nat
<1>1. IsFiniteSet(Granted(p, w))
  BY RateAssumption, FS_Subset DEF Granted
<1>2. Cardinality(Granted(p, w)) \in Nat
  BY <1>1, FS_CardinalityType
<1>3. passed[<<p, w>>] \in Nat
  BY DEF RateTypeOK
<1>4. <<KeyType[p], w>> \in RedisKeys
  BY DEF RedisKeys, KeyType, Presets
<1>5. counter[<<KeyType[p], w>>] \in Nat /\ Limits[p] \in Nat /\ window \in Nat /\ w \in Nat
  BY <1>4, RateAssumption DEF RateTypeOK, Windows
<1> QED
  BY <1>1, <1>2, <1>3, <1>4, <1>5 DEF Total

\* Steps of a request that is granted neither before nor after.
LEMMA GrantedKept ==
  ASSUME NEW p, NEW w, NEW r \in Asking,
         \A q \in Asking \ {r} : ask'[q] = ask[q],
         Granting(ask[r], p, w) <=> Granting(ask'[r], p, w),
         passed'[<<p, w>>] = passed[<<p, w>>]
  PROVE  Total(p, w)' = Total(p, w)
<1>1. Granted(p, w)' = Granted(p, w)
  BY DEF Granted
<1> QED
  BY <1>1 DEF Total

LEMMA CountInvStep == RateTypeOK /\ CountInv /\ RateTypeOK' /\ [RateNext]_rateVars => CountInv'
<1> SUFFICES ASSUME RateTypeOK, CountInv, RateTypeOK', [RateNext]_rateVars,
                    NEW p \in Presets, NEW w \in Windows, w \notin failed' \union revived'
             PROVE  /\ Total(p, w)' <= Limits[p]
                    /\ \/ Total(p, w)' <= counter'[<<KeyType[p], w>>]
                       \/ w < window' /\ counter'[<<KeyType[p], w>>] = 0
  BY DEF CountInv
<1> DEFINE k == <<KeyType[p], w>>
           Goal == /\ Total(p, w)' <= Limits[p]
                   /\ \/ Total(p, w)' <= counter'[k]
                      \/ w < window' /\ counter'[k] = 0
<1>0. /\ ask \in [Asking -> AskRow] /\ passed \in [Presets \X Windows -> Nat]
      /\ counter \in [RedisKeys -> Nat] /\ NotAsking.step = "idle"
      /\ Total(p, w) \in Nat /\ counter[k] \in Nat /\ k \in RedisKeys
      /\ Limits[p] \in Nat /\ window \in Nat /\ w \in Nat /\ window' \in Nat
  BY GrantedFinite, NotAskingType DEF RateTypeOK, AskRow, Windows
<1>a. failed \union revived \subseteq failed' \union revived'
  BY Counted
  DEF RateNext, WindowPasses, CounterExpires, Ask, Incr, SetExpiry, Decide, RedisFails, rateVars
<1>b. /\ Total(p, w) <= Limits[p]
      /\ Total(p, w) <= counter[k] \/ (w < window /\ counter[k] = 0)
  BY <1>a DEF CountInv
<1>c. ASSUME Total(p, w)' = Total(p, w), counter'[k] = counter[k], window' >= window PROVE Goal
  BY <1>0, <1>b, <1>c
<1>1. CASE UNCHANGED rateVars \/ WindowPasses
  <2>1. UNCHANGED <<ask, passed, counter>> /\ window' >= window
    BY <1>0, <1>1 DEF rateVars, WindowPasses
  <2>2. Total(p, w)' = Total(p, w)
    BY <2>1 DEF Total, Granted
  <2> QED
    BY <1>c, <2>1, <2>2
<1>2. ASSUME NEW j \in RedisKeys, CounterExpires(j) PROVE Goal
  <2>1. Total(p, w)' = Total(p, w) /\ window' = window
    BY <1>2 DEF CounterExpires, Total, Granted
  <2>2. CASE j = k
    <3>1. counter'[k] = 0 /\ w < window
      BY <1>0, <1>2, <2>2 DEF CounterExpires
    <3> QED
      BY <1>b, <2>1, <3>1
  <2>3. CASE j # k
    <3>1. counter'[k] = counter[k]
      BY <1>0, <1>2, <2>3 DEF CounterExpires
    <3> QED
      BY <1>0, <1>c, <2>1, <3>1
  <2> QED
    BY <2>2, <2>3
<1>3. ASSUME NEW r \in Asking, NEW preset \in Presets, Ask(r, preset) PROVE Goal
  <2>1. /\ ask[r].step = "idle" /\ ask'[r].step = "incr"
        /\ \A q \in Asking \ {r} : ask'[q] = ask[q]
        /\ UNCHANGED <<counter, window, passed>>
    BY <1>0, <1>3 DEF Ask
  <2>2. Total(p, w)' = Total(p, w)
    BY <2>1, GrantedKept DEF Granting
  <2> QED
    BY <1>0, <1>c, <2>1, <2>2
\* A request that is counted in time is behind a count of its own.
<1>4. ASSUME NEW r \in Asking, Incr(r) PROVE Goal
  <2> DEFINE j == RedisKey(ask[r])
             cur == counter[j] + 1
             step == IF cur = 1 THEN "expire" ELSE "decide"
  <2>1. /\ ask[r].step = "incr" /\ UNCHANGED <<window, passed>> /\ Count(r)
        /\ ask' = [ask EXCEPT ![r] = [ask[r] EXCEPT !.current = cur, !.step = step]]
    BY <1>0, <1>4 DEF Incr
  <2>2. /\ j = <<KeyType[ask[r].preset], ask[r].window>> /\ j \in RedisKeys
        /\ ask[r].preset \in Presets /\ ask[r].window \in Windows
        /\ step \in {"expire", "decide"} /\ cur \in Nat
    BY <1>0, KeyOfRequest
  <2>3. /\ counter'[j] = cur
        /\ \A i \in RedisKeys \ {j} : counter'[i] = counter[i]
        /\ ask[r].window < window /\ counter[j] = 0 => ask[r].window \in revived'
    BY <2>1, Counted
  <2> HIDE DEF step
  <2>4. /\ [ask[r] EXCEPT !.current = cur, !.step = step].step = step
        /\ [ask[r] EXCEPT !.current = cur, !.step = step].current = cur
        /\ [ask[r] EXCEPT !.current = cur, !.step = step].preset = ask[r].preset
        /\ [ask[r] EXCEPT !.current = cur, !.step = step].window = ask[r].window
    BY <1>0 DEF AskRow
  <2>5. /\ ask'[r].step = step /\ ask'[r].current = cur
        /\ ask'[r].preset = ask[r].preset /\ ask'[r].window = ask[r].window
        /\ \A q \in Asking \ {r} : ask'[q] = ask[q]
    BY <1>0, <2>1, <2>4
  <2>6. ~Granting(ask[r], p, w)
    BY <2>1 DEF Granting
  <2>7. CASE ~Granting(ask'[r], p, w)
    <3>1. Total(p, w)' = Total(p, w)
      BY <2>1, <2>5, <2>6, <2>7, GrantedKept
    <3>2. CASE j = k
      <4>1. ~(w < window /\ counter[k] = 0)
        BY <2>2, <2>3, <3>2
      <4> QED
        BY <1>0, <1>b, <2>3, <3>1, <3>2, <4>1
    <3>3. CASE j # k
      BY <1>0, <1>c, <2>1, <2>3, <3>1, <3>3
    <3> QED
      BY <3>2, <3>3
  <2>8. CASE Granting(ask'[r], p, w)
    <3>1. ask[r].preset = p /\ ask[r].window = w /\ cur <= Limits[p] /\ j = k
      BY <2>2, <2>5, <2>8 DEF Granting
    <3>2. Total(p, w) <= counter[k]
      BY <1>b, <2>3, <3>1
    <3>3. r \notin Granted(p, w) /\ Granted(p, w)' = Granted(p, w) \union {r}
      BY <2>5, <2>6, <2>8 DEF Granted
    <3>4. Cardinality(Granted(p, w)') = Cardinality(Granted(p, w)) + 1
      BY <3>3, GrantedFinite, FS_AddElement
    <3>5. Total(p, w)' = Total(p, w) + 1
      <4>1. passed[<<p, w>>] \in Nat /\ Cardinality(Granted(p, w)) \in Nat
        BY GrantedFinite
      <4>2. /\ Total(p, w)' = passed'[<<p, w>>] + Cardinality(Granted(p, w)')
            /\ Total(p, w) = passed[<<p, w>>] + Cardinality(Granted(p, w))
        BY DEF Total
      <4> QED
        BY <2>1, <3>4, <4>1, <4>2
    <3> QED
      BY <1>0, <2>3, <3>1, <3>2, <3>5
  <2> QED
    BY <2>7, <2>8
<1>5. ASSUME NEW r \in Asking, SetExpiry(r) PROVE Goal
  <2>1. /\ [ask[r] EXCEPT !.step = "decide"].step = "decide"
        /\ [ask[r] EXCEPT !.step = "decide"].current = ask[r].current
        /\ [ask[r] EXCEPT !.step = "decide"].preset = ask[r].preset
        /\ [ask[r] EXCEPT !.step = "decide"].window = ask[r].window
    BY <1>0 DEF AskRow
  <2>2. /\ ask[r].step = "expire" /\ ask'[r] = [ask[r] EXCEPT !.step = "decide"]
        /\ \A q \in Asking \ {r} : ask'[q] = ask[q]
        /\ UNCHANGED <<counter, window, passed>>
    BY <1>0, <1>5 DEF SetExpiry
  <2>3. Granting(ask[r], p, w) <=> Granting(ask'[r], p, w)
    BY <2>1, <2>2 DEF Granting
  <2>4. Total(p, w)' = Total(p, w)
    BY <2>2, <2>3, GrantedKept
  <2> QED
    BY <1>0, <1>c, <2>2, <2>4
\* It is let through because it was granted.
<1>6. ASSUME NEW r \in Asking, Decide(r) PROVE Goal
  <2>1. /\ ask[r].step = "decide" /\ ask'[r].step = "idle"
        /\ \A q \in Asking \ {r} : ask'[q] = ask[q]
        /\ UNCHANGED <<counter, window>>
    BY <1>0, <1>6 DEF Decide, Answer
  <2>2. ask[r].preset \in Presets /\ ask[r].window \in Windows /\ ask[r].current \in Nat
        /\ Limits[ask[r].preset] \in Nat
    BY <1>0, RateAssumption DEF AskRow
  <2>3. CASE Granting(ask[r], p, w)
    <3>1. passed'[<<p, w>>] = passed[<<p, w>>] + 1
      BY <1>0, <1>6, <2>2, <2>3 DEF Decide, Exceeded, Pass, Granting
    <3>2. r \in Granted(p, w) /\ Granted(p, w)' = Granted(p, w) \ {r}
      BY <2>1, <2>3 DEF Granted, Granting
    <3>3. Cardinality(Granted(p, w)') = Cardinality(Granted(p, w)) - 1
      BY <3>2, GrantedFinite, FS_RemoveElement
    <3>4. Total(p, w)' = Total(p, w)
      <4>1. passed[<<p, w>>] \in Nat /\ Cardinality(Granted(p, w)) \in Nat
        BY GrantedFinite
      <4>2. /\ Total(p, w)' = passed'[<<p, w>>] + Cardinality(Granted(p, w)')
            /\ Total(p, w) = passed[<<p, w>>] + Cardinality(Granted(p, w))
        BY DEF Total
      <4> QED
        BY <3>1, <3>3, <4>1, <4>2
    <3> QED
      BY <1>0, <1>c, <2>1, <3>4
  <2>4. CASE ~Granting(ask[r], p, w)
    <3>1. passed'[<<p, w>>] = passed[<<p, w>>]
      <4>1. CASE Exceeded(ask[r])
        BY <1>6, <4>1 DEF Decide
      <4>2. CASE ~Exceeded(ask[r])
        <5>1. <<ask[r].preset, ask[r].window>> # <<p, w>>
          BY <2>1, <2>2, <2>4, <4>2 DEF Exceeded, Granting
        <5> QED
          BY <1>0, <1>6, <4>2, <5>1 DEF Decide, Pass
      <4> QED
        BY <4>1, <4>2
    <3>2. Total(p, w)' = Total(p, w)
      BY <2>1, <2>4, <3>1, GrantedKept DEF Granting
    <3> QED
      BY <1>0, <1>c, <2>1, <3>2
  <2> QED
    BY <2>3, <2>4
\* When Redis fails, all that changes is of that window.
<1>7. ASSUME NEW r \in Asking, RedisFails(r) PROVE Goal
  <2>1. /\ ask[r].window # w /\ window' = window
        /\ ask'[r].step = "idle" /\ \A q \in Asking \ {r} : ask'[q] = ask[q]
    BY <1>0, <1>7 DEF RedisFails, Answer
  <2>2. passed'[<<p, w>>] = passed[<<p, w>>]
    BY <1>0, <1>7, <2>1 DEF RedisFails, Pass
  <2>3. RedisKey(ask[r]) # k
    BY <1>0, <2>1, KeyOfRequest
  <2>4. counter'[k] = counter[k]
    BY <1>0, <1>7, <2>3, Counted DEF RedisFails
  <2>5. Total(p, w)' = Total(p, w)
    BY <2>1, <2>2, GrantedKept DEF Granting
  <2> QED
    BY <1>0, <1>c, <2>1, <2>4, <2>5
<1> QED
  BY <1>1, <1>2, <1>3, <1>4, <1>5, <1>6, <1>7 DEF RateNext

\* In one window no more of a preset are let through than its limit.
THEOREM RateIsBounded == RateSpec => []RateBounded
<1>1. RateInit => CountInv
  <2> SUFFICES ASSUME RateInit, NEW p \in Presets, NEW w \in Windows
               PROVE  Total(p, w) = 0 /\ Limits[p] \in Nat /\ counter[<<KeyType[p], w>>] = 0
    BY DEF CountInv
  <2>1. Granted(p, w) = {}
    BY NotAskingType DEF RateInit, Granted, Granting
  <2>2. Cardinality(Granted(p, w)) = 0
    BY <2>1, FS_EmptySet
  <2>3. <<KeyType[p], w>> \in RedisKeys
    BY DEF RedisKeys, KeyType, Presets
  <2> QED
    BY <2>2, <2>3, RateAssumption DEF RateInit, Total
<1>2. RateTypeOK /\ CountInv => RateBounded
  <2> SUFFICES ASSUME RateTypeOK, CountInv, NEW p \in Presets, NEW w \in Windows,
                      w \notin failed \union revived
               PROVE  passed[<<p, w>>] <= Limits[p]
    BY DEF RateBounded
  <2>1. Total(p, w) <= Limits[p]
    BY DEF CountInv
  <2>2. passed[<<p, w>>] \in Nat /\ Cardinality(Granted(p, w)) \in Nat /\ Limits[p] \in Nat
    BY GrantedFinite
  <2>3. passed[<<p, w>>] + Cardinality(Granted(p, w)) <= Limits[p]
    BY <2>1 DEF Total
  <2> QED
    BY <2>2, <2>3
<1> QED
  BY <1>1, <1>2, RateTypes, CountInvStep, PTL DEF RateSpec

-----------------------------------------------------------------------------
(* The back office *)

\* Behind the limiter the catalogue does what it does without one.
THEOREM BackOfficeKeepsCatalogue == BackOfficeSpec => CatalogueSpec
<1>1. BackOfficeInit => CatalogueInit
  BY DEF BackOfficeInit
<1>2. [BackOfficeNext]_backOfficeVars => [CatalogueNext]_catalogueAllVars
  BY DEF BackOfficeNext, backOfficeVars
<1> QED
  BY <1>1, <1>2, PTL DEF BackOfficeSpec, CatalogueSpec

\* The limiter looks at nothing of what it guards.
THEOREM BackOfficeKeepsLimiter == BackOfficeSpec => RateSpec
<1>1. BackOfficeInit => RateInit
  BY DEF BackOfficeInit
<1>2. [BackOfficeNext]_backOfficeVars => [RateNext]_rateVars
  BY DEF BackOfficeNext, backOfficeVars
<1> QED
  BY <1>1, <1>2, PTL DEF BackOfficeSpec, RateSpec

\* The type invariant of the whole.
THEOREM BackOfficeTypes == BackOfficeSpec => []BackOfficeTypeOK
<1>1. CatalogueTypeOK /\ RateTypeOK => BackOfficeTypeOK
  BY DEF BackOfficeTypeOK
<1> QED
  BY <1>1, BackOfficeKeepsCatalogue, BackOfficeKeepsLimiter, CatalogueTypes, RateTypes, PTL

\* Everything that is checked of the whole: tokens are used once, passwords end sessions,
\* owners stay, keys stay dead, there is one live subscription, snapshots are shaped, and
\* no window lets more through than the limit.
THEOREM BackOfficeSafe ==
  BackOfficeSpec =>
    /\ []TokensUsedOnce /\ []PasswordEndsSessions /\ []OwnerKept /\ KeyStaysDead
    /\ []OneSubscription /\ []SnapshotsShaped /\ []RateBounded
BY BackOfficeKeepsCatalogue, BackOfficeKeepsLimiter, CatalogueKeepsAccess, TokensBuyOnce,
   PasswordsEndSessions, OwnersStay, KeysStayDead, OneLiveSubscription, SnapshotsStayShaped,
   RateIsBounded, PTL

=============================================================================
