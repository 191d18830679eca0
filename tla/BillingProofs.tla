--------------------------- MODULE BillingProofs ---------------------------
(***************************************************************************)
(* Proofs about Billing, for any sets of users, products, subscriptions    *)
(* and threads and any number of rows.                                     *)
(*                                                                         *)
(* A handler acts on what it read some steps ago, so the invariant says    *)
(* what stays true of it: its event was emitted, and a row or product it   *)
(* has found, if it is still there, still is the one it was found as.      *)
(* Ids being never reused is what makes the latter hold.                   *)
(***************************************************************************)
EXTENDS Billing, TLAPS, WellFoundedInduction

\* AUTOINCREMENT: ids in use are below the next one, and name one row.
FreshIds ==
  /\ \A q \in products : q.id < nextProduct
  /\ \A r \in subscriptions : r.id < nextRow
  /\ \A p, q \in products : p.id = q.id => p = q
  /\ \A r, s \in subscriptions : r.id = s.id => r = s

SameSubscription(r, s) ==
  /\ r.user = s.user
  /\ r.stripe_subscription_id = s.stripe_subscription_id
  /\ r.product = s.product

\* The event of a request was sent; what it is about to write fits the event.
RequestAgrees(r) ==
  /\ r.op = "save_subscription" =>
       /\ r.event \in sent /\ r.event.type = "subscription"
       /\ r.product < nextProduct
       /\ \A q \in products : q.id = r.product => q.stripe_product_id = r.event.product
       /\ r.row # None =>
            /\ r.row.id < nextRow
            /\ r.row.user = r.event.user
            /\ r.row.stripe_subscription_id = r.event.sub
            /\ r.row.product = r.product
            /\ \A s \in subscriptions : s.id = r.row.id => SameSubscription(s, r.row)

RequestsAgree == \A t \in Threads : RequestAgrees(req[t])

BillingInv ==
  /\ Typed
  /\ FreshIds
  /\ RequestsAgree
  /\ SubscriptionsHaveOwners
  /\ ActiveWasGranted
----------------------------------------------------------------------------
(* What find_by returns. *)

LEMMA FirstRowIsOne ==
  ASSUME NEW rows, rows # {}, \A r \in rows : r.id \in Nat
  PROVE  FirstRow(rows) \in rows
<1> DEFINE ids == {r.id : r \in rows}
<1>1. PICK i \in ids : \A j \in ids : i <= j
  <2>1. ids \in SUBSET Nat /\ ids # {}
    BY Zenon
  <2> DEFINE less == {ss \in Nat \X Nat : ss[1] < ss[2]}
  <2>2. IsWellFoundedOn(less, Nat)
    BY NatLessThanWellFounded, Zenon DEF OpToRel
  <2>3. \E i \in ids : \A j \in ids : ~ (<<j, i>> \in less)
    <3> HIDE DEF ids, less
    <3> QED  BY <2>1, <2>2, WFMin, Zenon
  <2>4. ASSUME NEW i \in Nat, NEW j \in Nat, ~ (<<j, i>> \in less) PROVE i <= j
    BY <2>4
  <2> HIDE DEF less
  <2> QED  BY <2>1, <2>3, <2>4, Zenon
<1>2. \E r \in rows : \A s \in rows : r.id <= s.id
  BY <1>1, Zenon
<1> QED  BY <1>2, Zenon DEF FirstRow

LEMMA FoundProduct ==
  ASSUME Typed, NEW p, FirstRow({q \in products : q.stripe_product_id = p}) # None
  PROVE  LET row == FirstRow({q \in products : q.stripe_product_id = p})
         IN  row \in products /\ row.stripe_product_id = p
<1> DEFINE rows == {q \in products : q.stripe_product_id = p}
<1>1. rows # {}
  BY Zenon DEF FirstRow
<1>2. \A r \in rows : r.id \in Nat
  BY DEF Typed, ProductRow
<1> HIDE DEF rows
<1>3. FirstRow(rows) \in rows
  BY <1>1, <1>2, FirstRowIsOne, Zenon
<1> QED  BY <1>3, Zenon DEF rows

LEMMA FoundSubscription ==
  ASSUME Typed, NEW rows \in SUBSET subscriptions, FirstRow(rows) # None
  PROVE  FirstRow(rows) \in rows
<1>1. rows # {}
  BY Zenon DEF FirstRow
<1>2. \A r \in rows : r.id \in Nat
  BY DEF Typed, SubscriptionRow
<1> QED  BY <1>1, <1>2, FirstRowIsOne, Zenon

\* The fields of a request, by its operation.
LEMMA RequestFields ==
  ASSUME NEW r \in Request
  PROVE  /\ r.op = "product_retrieved" => r.id \in Products /\ r.price \in Nat
         /\ r.op = "save_product" =>
              r.id \in Products /\ r.price \in Nat /\ r.row \in ProductRow \cup {None}
         /\ r.op = "save_subscription" =>
              /\ r.event \in Event /\ r.product \in 1..MaxProducts
              /\ r.row \in SubscriptionRow \cup {None}
         /\ r.op \in {"cancel", "update_canceled"} => r.row \in SubscriptionRow
<1> USE DEF Request
<1>1. r.op = "product_retrieved" => r.id \in Products /\ r.price \in Nat
  BY Zenon
<1>2. r.op = "save_product" =>
        r.id \in Products /\ r.price \in Nat /\ r.row \in ProductRow \cup {None}
  BY Zenon
<1>3. r.op = "save_subscription" =>
        /\ r.event \in Event /\ r.product \in 1..MaxProducts
        /\ r.row \in SubscriptionRow \cup {None}
  BY Zenon
<1>4. r.op \in {"cancel", "update_canceled"} => r.row \in SubscriptionRow
  BY Zenon
<1> QED  BY <1>1, <1>2, <1>3, <1>4, Zenon

LEMMA EventFields ==
  ASSUME NEW e \in Event
  PROVE  /\ e.type = "subscription" =>
              /\ e.sub \in Subs /\ e.user \in Users /\ e.product \in Products
              /\ e.status \in Status
              /\ e = [type |-> "subscription", sub |-> e.sub, user |-> e.user,
                      product |-> e.product, status |-> e.status]
         /\ e.type \in {"product", "product.deleted"} => e.product \in Products
BY Zenon DEF Event
----------------------------------------------------------------------------
(* What requests know survives the steps of others. *)

\* Rows keep their id, user, subscription and product; new rows take new ids.
KeepsIdentities ==
  /\ nextProduct <= nextProduct' /\ nextRow <= nextRow' /\ sent \subseteq sent'
  /\ \A q \in products' :
       \/ q.id >= nextProduct
       \/ \E p \in products : p.id = q.id /\ p.stripe_product_id = q.stripe_product_id
  /\ \A r \in subscriptions' :
       \/ r.id >= nextRow
       \/ \E s \in subscriptions : s.id = r.id /\ SameSubscription(r, s)

LEMMA IdentitiesKept ==
  ASSUME BillingInv, Typed', KeepsIdentities,
         \/ req' = req
         \/ \E t \in Threads, r \in Request : req' = [req EXCEPT ![t] = r] /\ RequestAgrees(r)
  PROVE  RequestsAgree'
<1> SUFFICES ASSUME NEW t \in Threads PROVE RequestAgrees(req[t])'
  BY Zenon DEF RequestsAgree
<1>1. PICK r \in Request : r = req'[t]
  BY Zenon DEF Typed
<1>2. RequestAgrees(r)
  BY <1>1, Zenon DEF BillingInv, Typed, RequestsAgree
<1> SUFFICES ASSUME r.op = "save_subscription" PROVE RequestAgrees(req[t])'
  BY <1>1, <1>2, Zenon DEF RequestAgrees
<1>3. r.product \in Nat /\ nextProduct \in Nat /\ nextProduct' \in Nat
  BY <1>1, RequestFields DEF BillingInv, Typed
<1>4. r.row # None => r.row.id \in Nat /\ nextRow \in Nat /\ nextRow' \in Nat
  BY <1>1, RequestFields DEF BillingInv, Typed, SubscriptionRow
<1>5. r.event \in sent' /\ r.event.type = "subscription" /\ r.product < nextProduct'
  BY <1>2, <1>3 DEF RequestAgrees, KeepsIdentities
<1>6. \A q \in products' : q.id = r.product => q.stripe_product_id = r.event.product
  BY <1>2, <1>3 DEF RequestAgrees, KeepsIdentities
<1>7. r.row # None => /\ r.row.id < nextRow'
                      /\ \A s \in subscriptions' : s.id = r.row.id => SameSubscription(s, r.row)
  BY <1>2, <1>4 DEF RequestAgrees, KeepsIdentities, SameSubscription
<1> QED  BY <1>1, <1>2, <1>5, <1>6, <1>7, Zenon DEF RequestAgrees, SameSubscription

StripeTypeOK ==
  /\ customers \subseteq Users
  /\ stripeProduct \in [Products -> Amounts \cup {None}]
  /\ stripeSub \in [Subs -> StripeSubscription \cup {None}]
  /\ sessions \subseteq Users \X Products
  /\ sent \subseteq Event

\* A step that writes no row.
LEMMA NoWrite ==
  ASSUME BillingInv, UNCHANGED tables, sent \subseteq sent', StripeTypeOK',
         \/ req' = req
         \/ \E t \in Threads, r \in Request : req' = [req EXCEPT ![t] = r] /\ RequestAgrees(r)
  PROVE  BillingInv'
<1>1. Typed'
  BY Zenon DEF BillingInv, Typed, StripeTypeOK, tables
<1>2. KeepsIdentities
  BY DEF KeepsIdentities, tables, BillingInv, Typed, SameSubscription
<1>3. RequestsAgree'
  BY <1>1, <1>2, IdentitiesKept, Zenon
<1>4. FreshIds' /\ SubscriptionsHaveOwners' /\ ActiveWasGranted'
  BY Zenon DEF tables, BillingInv, FreshIds, SubscriptionsHaveOwners, ActiveWasGranted
<1> QED  BY <1>1, <1>3, <1>4, Zenon DEF BillingInv

LEMMA AgreesOtherwise ==
  ASSUME NEW r, r.op # "save_subscription"
  PROVE  RequestAgrees(r)
BY Zenon DEF RequestAgrees
----------------------------------------------------------------------------
(* Steps at Stripe. *)

LEMMA CanceledTyped ==
  ASSUME StripeTypeOK, NEW subs \in SUBSET Subs, \A s \in subs : stripeSub[s] # None
  PROVE  /\ WithCanceled(subs) \in [Subs -> StripeSubscription \cup {None}]
         /\ Ended(subs) \subseteq Event
<1>1. Ended(subs) \subseteq Event
  BY DEF Ended, Event
<1>2. ASSUME NEW s \in subs
      PROVE  [stripeSub[s] EXCEPT !.status = "canceled"] \in StripeSubscription
  BY Zenon DEF StripeTypeOK, StripeSubscription, Status
<1> QED  BY <1>1, <1>2, Zenon DEF WithCanceled, StripeTypeOK

LEMMA CustomerGoneTyped ==
  ASSUME StripeTypeOK, NEW u \in Users, CustomerGone(u)
  PROVE  StripeTypeOK' /\ sent \subseteq sent'
<1> DEFINE subs == {s \in Subs : Running(s) /\ stripeSub[s].user = u}
<1>1. /\ WithCanceled(subs) \in [Subs -> StripeSubscription \cup {None}]
      /\ Ended(subs) \subseteq Event
  BY CanceledTyped, Zenon DEF Running
<1>2. [type |-> "customer.deleted", user |-> u] \in Event
  BY Zenon DEF Event
<1> QED  BY <1>1, <1>2, Zenon DEF CustomerGone, Emit, StripeTypeOK

LEMMA AtStripeKeepsInv ==
  ASSUME BillingInv, AtStripe
  PROVE  BillingInv'
<1> SUFFICES StripeTypeOK' /\ sent \subseteq sent' /\ UNCHANGED <<tables, req>>
  BY NoWrite, Zenon
<1> StripeTypeOK
  BY Zenon DEF BillingInv, Typed, StripeTypeOK
<1> USE DEF StripeTypeOK, Emit
<1>1. ASSUME NEW p \in Products, NEW a \in Amounts, StripeEditsProduct(p, a)
      PROVE  StripeTypeOK' /\ sent \subseteq sent' /\ UNCHANGED <<tables, req>>
  <2> [type |-> "product", product |-> p] \in Event
    BY Zenon DEF Event
  <2> QED  BY <1>1, Zenon DEF StripeEditsProduct
<1>2. ASSUME NEW p \in Products, StripeDeletesProduct(p)
      PROVE  StripeTypeOK' /\ sent \subseteq sent' /\ UNCHANGED <<tables, req>>
  <2> [type |-> "product.deleted", product |-> p] \in Event
    BY Zenon DEF Event
  <2> QED  BY <1>2, Zenon DEF StripeDeletesProduct
<1>3. ASSUME NEW u \in Users, NEW p \in Products, NEW s \in Subs,
             NEW st \in {"active", "past_due"}, CompleteCheckout(u, p, s, st)
      PROVE  StripeTypeOK' /\ sent \subseteq sent' /\ UNCHANGED <<tables, req>>
  <2> DEFINE sub == [user |-> u, product |-> p, status |-> st]
  <2>1. sub \in StripeSubscription
    BY Zenon DEF StripeSubscription, Status
  <2>2. SubscriptionEvent(s, sub) \in Event
    BY Zenon DEF SubscriptionEvent, Event, Status
  <2>3. /\ stripeSub' = [stripeSub EXCEPT ![s] = sub]
        /\ sent' = sent \cup {SubscriptionEvent(s, sub)}
        /\ sessions' \subseteq sessions
        /\ UNCHANGED <<tables, req, customers, stripeProduct>>
    BY <1>3, Zenon DEF CompleteCheckout
  <2> HIDE DEF sub
  <2> QED  BY <2>1, <2>2, <2>3, Zenon
<1>4. ASSUME NEW s \in Subs, NEW p \in Products, NEW st \in {"active", "past_due"},
             StripeUpdatesSubscription(s, p, st)
      PROVE  StripeTypeOK' /\ sent \subseteq sent' /\ UNCHANGED <<tables, req>>
  <2> DEFINE sub == [stripeSub[s] EXCEPT !.product = p, !.status = st]
  <2>1. sub \in StripeSubscription
    BY <1>4, Zenon DEF StripeUpdatesSubscription, Running, StripeSubscription, Status
  <2>2. SubscriptionEvent(s, sub) \in Event
    BY <2>1, Zenon DEF SubscriptionEvent, Event, StripeSubscription
  <2>3. /\ stripeSub' = [stripeSub EXCEPT ![s] = sub]
        /\ sent' = sent \cup {SubscriptionEvent(s, sub)}
        /\ UNCHANGED <<tables, req, customers, stripeProduct, sessions>>
    BY <1>4, Zenon DEF StripeUpdatesSubscription
  <2> HIDE DEF sub
  <2> QED  BY <2>1, <2>2, <2>3, Zenon
<1>5. ASSUME NEW s \in Subs, StripeCancels(s)
      PROVE  StripeTypeOK' /\ sent \subseteq sent' /\ UNCHANGED <<tables, req>>
  <2>1. /\ WithCanceled({s}) \in [Subs -> StripeSubscription \cup {None}]
        /\ Ended({s}) \subseteq Event
    BY <1>5, CanceledTyped, Zenon DEF StripeCancels, Running
  <2> QED  BY <1>5, <2>1, Zenon DEF StripeCancels
<1>6. ASSUME NEW u \in Users, StripeDeletesCustomer(u)
      PROVE  StripeTypeOK' /\ sent \subseteq sent' /\ UNCHANGED <<tables, req>>
  BY <1>6, CustomerGoneTyped, Zenon DEF StripeDeletesCustomer
<1> QED  BY <1>1, <1>2, <1>3, <1>4, <1>5, <1>6, Zenon DEF AtStripe
----------------------------------------------------------------------------
(* Steps of requests that write no row. *)

LEMMA IdleRequest == Idle \in Request /\ RequestAgrees(Idle)
BY Zenon DEF Idle, Request, RequestAgrees

LEMMA ReadKeepsInv ==
  ASSUME BillingInv, NEW t \in Threads,
         \/ \E e \in sent : RetrieveProduct(t, e) \/ FindSubscription(t, e)
         \/ FindProduct(t)
         \/ InsertSubscriptionInvalid(t)
         \/ \E u \in Users, s \in Subs : FindToCancel(t, u, s)
         \/ Abort(t)
  PROVE  BillingInv'
<1> Typed /\ StripeTypeOK /\ req[t] \in Request
  BY Zenon DEF BillingInv, Typed, StripeTypeOK
<1>0. ASSUME NEW r \in Request, RequestAgrees(r), req' = [req EXCEPT ![t] = r],
             UNCHANGED <<tables, stripe>>
      PROVE  BillingInv'
  BY <1>0, NoWrite, Zenon DEF stripe, StripeTypeOK
<1>1. ASSUME NEW e \in sent, RetrieveProduct(t, e) PROVE BillingInv'
  <2> DEFINE r == [op |-> "product_retrieved", id |-> e.product,
                   price |-> stripeProduct[e.product] \div 100]
  <2>1. e.product \in Products /\ stripeProduct[e.product] \in Nat
    BY <1>1, EventFields, BillingAssumption, Zenon DEF StripeTypeOK, RetrieveProduct
  <2>2. stripeProduct[e.product] \div 100 \in Nat
    BY <2>1
  <2>3. r \in Request /\ RequestAgrees(r)
    BY <2>1, <2>2, AgreesOtherwise, Zenon DEF Request
  <2> QED  BY <1>0, <1>1, <2>3, Zenon DEF RetrieveProduct, Become
<1>2. CASE FindProduct(t)
  <2> DEFINE row == FirstRow({q \in products : q.stripe_product_id = req[t].id})
             r == [op |-> "save_product", id |-> req[t].id, price |-> req[t].price,
                   row |-> row]
  <2>1. row \in ProductRow \cup {None}
    BY FoundProduct, ZenonT(60) DEF Typed
  <2>2. r \in Request /\ RequestAgrees(r)
    <3> HIDE DEF row
    <3> QED  BY <1>2, <2>1, RequestFields, AgreesOtherwise, Zenon DEF Request, FindProduct
  <2>3. req' = [req EXCEPT ![t] = r] /\ UNCHANGED <<tables, stripe>>
    BY <1>2, Zenon DEF FindProduct, Become
  <2> HIDE DEF r
  <2> QED  BY <1>0, <2>2, <2>3, Zenon
<1>3. ASSUME NEW e \in sent, FindSubscription(t, e) PROVE BillingInv'
  <2> DEFINE product == FirstRow({q \in products : q.stripe_product_id = e.product})
             rows == {s \in subscriptions : /\ s.user = e.user
                                            /\ s.stripe_subscription_id = e.sub
                                            /\ s.product = product.id}
             row == FirstRow(rows)
             r == [op |-> "save_subscription", event |-> e, product |-> product.id, row |-> row]
  <2>1. /\ product # None /\ e.type = "subscription"
        /\ req' = [req EXCEPT ![t] = r] /\ UNCHANGED <<tables, stripe>>
    BY <1>3, Zenon DEF FindSubscription, Become
  <2>2. product \in products /\ product.stripe_product_id = e.product
    BY <2>1, FoundProduct, Zenon
  <2>3. product \in ProductRow /\ product.id \in 1..MaxProducts /\ product.id < nextProduct
    BY <2>2, Zenon DEF BillingInv, Typed, FreshIds, ProductRow
  <2>4. row # None => row \in subscriptions /\ row \in rows
    <3> rows \in SUBSET subscriptions
      BY Zenon
    <3> HIDE DEF rows
    <3> QED  BY FoundSubscription, Zenon
  <2>5. row \in SubscriptionRow \cup {None}
    BY <2>4, Zenon DEF Typed
  <2>6. row # None => /\ row.id < nextRow /\ row.user = e.user
                      /\ row.stripe_subscription_id = e.sub /\ row.product = product.id
    BY <2>4, Zenon DEF BillingInv, FreshIds
  <2>7. row # None => \A s \in subscriptions : s.id = row.id => SameSubscription(s, row)
    BY <2>4, Zenon DEF BillingInv, FreshIds, SameSubscription
  <2>8. \A q \in products : q.id = product.id => q.stripe_product_id = e.product
    BY <2>2, Zenon DEF BillingInv, FreshIds
  <2> HIDE DEF row, product
  <2>9. r \in Request
    BY <2>3, <2>5, Zenon DEF Request, StripeTypeOK
  <2>10. RequestAgrees(r)
    BY <2>1, <2>3, <2>6, <2>7, <2>8, Zenon DEF RequestAgrees
  <2> HIDE DEF r
  <2> QED  BY <1>0, <2>1, <2>9, <2>10, ZenonT(60)
<1>4. CASE InsertSubscriptionInvalid(t) \/ Abort(t)
  BY <1>0, <1>4, IdleRequest, Zenon DEF InsertSubscriptionInvalid, Abort, Become
<1>5. ASSUME NEW u \in Users, NEW s \in Subs, FindToCancel(t, u, s) PROVE BillingInv'
  <2> DEFINE rows == {x \in subscriptions : x.user = u /\ x.stripe_subscription_id = s}
             row == FirstRow(rows)
             r == [op |-> "cancel", row |-> row]
  <2>1. row # None /\ req' = [req EXCEPT ![t] = r] /\ UNCHANGED <<tables, stripe>>
    BY <1>5, Zenon DEF FindToCancel, Become
  <2>2. row \in SubscriptionRow
    <3> rows \in SUBSET subscriptions
      BY Zenon
    <3> HIDE DEF rows
    <3> QED  BY <2>1, FoundSubscription, Zenon DEF Typed
  <2> HIDE DEF row
  <2>3. r \in Request /\ RequestAgrees(r)
    BY <2>2, AgreesOtherwise, Zenon DEF Request
  <2> HIDE DEF r
  <2> QED  BY <1>0, <2>1, <2>3, ZenonT(60)
<1> QED  BY <1>1, <1>2, <1>3, <1>4, <1>5, Zenon

LEMMA CancelAtStripeKeepsInv ==
  ASSUME BillingInv, NEW t \in Threads, CancelAtStripe(t)
  PROVE  BillingInv'
<1> DEFINE s == req[t].row.stripe_subscription_id
           r == [op |-> "update_canceled", row |-> req[t].row]
<1>1. StripeTypeOK /\ req[t] \in Request /\ req[t].row \in SubscriptionRow /\ s \in Subs
  BY RequestFields, Zenon DEF BillingInv, Typed, StripeTypeOK, CancelAtStripe, SubscriptionRow
<1>2. CASE Running(s)
  <2>1. /\ WithCanceled({s}) \in [Subs -> StripeSubscription \cup {None}]
        /\ Ended({s}) \subseteq Event
    BY <1>1, <1>2, CanceledTyped, Zenon DEF Running
  <2>2. r \in Request /\ RequestAgrees(r)
    BY <1>1, AgreesOtherwise, Zenon DEF Request
  <2>3. /\ req' = [req EXCEPT ![t] = r] /\ UNCHANGED tables
        /\ stripeSub' = WithCanceled({s}) /\ sent' = sent \cup Ended({s})
        /\ UNCHANGED <<customers, stripeProduct, sessions>>
    BY <1>2, Zenon DEF CancelAtStripe, Become, Emit
  <2>4. StripeTypeOK' /\ sent \subseteq sent'
    BY <1>1, <2>1, <2>3, Zenon DEF StripeTypeOK
  <2> HIDE DEF r
  <2> QED  BY <2>2, <2>3, <2>4, NoWrite, ZenonT(60)
<1>3. CASE ~ Running(s)
  <2>1. StripeTypeOK' /\ sent' = sent /\ UNCHANGED tables
    BY <1>1, <1>3, Zenon DEF CancelAtStripe, StripeTypeOK
  <2>2. req' = [req EXCEPT ![t] = Idle]
    BY <1>3, Zenon DEF CancelAtStripe, Become
  <2> QED  BY <2>1, <2>2, IdleRequest, NoWrite, Zenon
<1> QED  BY <1>2, <1>3, Zenon

LEMMA CreateCheckoutKeepsInv ==
  ASSUME BillingInv, NEW u \in Users, NEW p \in Products, CreateCheckout(u, p)
  PROVE  BillingInv'
BY NoWrite, SMTT(40) DEF CreateCheckout, BillingInv, Typed, StripeTypeOK
----------------------------------------------------------------------------
(* Steps that write rows. *)

\* The row is active with good reason.
Granted(r) ==
  \E e \in sent, q \in products :
    /\ q.id = r.product
    /\ e = [type |-> "subscription", sub |-> r.stripe_subscription_id, user |-> r.user,
            product |-> q.stripe_product_id, status |-> "active"]

\* A write that deletes products only with their subscriptions, and users
\* only with theirs, and activates only what was granted.
LEMMA WriteKeepsInv ==
  ASSUME BillingInv, Typed', FreshIds', KeepsIdentities,
         \/ req' = req
         \/ \E t \in Threads : req' = [req EXCEPT ![t] = Idle],
         \A r \in subscriptions' :
           /\ r.user \in users'
           /\ \E q \in products' : q.id = r.product
           /\ r.active => \/ Granted(r)
                          \/ \E s \in subscriptions : SameSubscription(r, s) /\ s.active
  PROVE  BillingInv'
<1>1. RequestsAgree'
  BY IdentitiesKept, IdleRequest, Zenon
<1>2. SubscriptionsHaveOwners'
  BY Zenon DEF SubscriptionsHaveOwners
<1>3. ActiveWasGranted'
  <2> SUFFICES ASSUME NEW r \in subscriptions', r.active
               PROVE  \E e \in sent', q \in products' :
                        /\ q.id = r.product
                        /\ e = [type |-> "subscription", sub |-> r.stripe_subscription_id,
                                user |-> r.user, product |-> q.stripe_product_id,
                                status |-> "active"]
    BY Zenon DEF ActiveWasGranted
  <2>1. Granted(r)
    BY DEF Granted, BillingInv, ActiveWasGranted, SameSubscription
  <2>2. PICK e \in sent, q \in products :
          /\ q.id = r.product
          /\ e = [type |-> "subscription", sub |-> r.stripe_subscription_id, user |-> r.user,
                  product |-> q.stripe_product_id, status |-> "active"]
    BY <2>1, Zenon DEF Granted
  <2>3. PICK x \in products' : x.id = r.product
    BY Zenon
  <2>4. q.id < nextProduct /\ q.id \in Nat /\ nextProduct \in Nat
    BY SMTT(40) DEF BillingInv, FreshIds, Typed, ProductRow
  <2>5. PICK p \in products : p.id = x.id /\ p.stripe_product_id = x.stripe_product_id
    BY <2>2, <2>3, <2>4, SMTT(40) DEF KeepsIdentities
  <2>6. p = q
    BY <2>2, <2>3, <2>5 DEF BillingInv, FreshIds
  <2> QED  BY <2>2, <2>3, <2>5, <2>6, Zenon DEF KeepsIdentities
<1> QED  BY <1>1, <1>2, <1>3, Zenon DEF BillingInv

LEMMA SaveProductKeepsInv ==
  ASSUME BillingInv, NEW t \in Threads, SaveProduct(t)
  PROVE  BillingInv'
<1> DEFINE new == [id |-> nextProduct, stripe_product_id |-> req[t].id,
                   price |-> req[t].price]
           row == req[t].row
           Saved(q) == IF q.id = row.id /\ req[t].price # row.price
                         THEN [q EXCEPT !.price = req[t].price] ELSE q
<1>1. /\ UNCHANGED <<users, subscriptions, nextRow, stripe>>
      /\ req' = [req EXCEPT ![t] = Idle]
  BY Zenon DEF SaveProduct, Become
<1>2. /\ req[t] \in Request /\ req[t].id \in Products /\ req[t].price \in Nat
      /\ row # None => row \in ProductRow
  BY RequestFields, Zenon DEF SaveProduct, BillingInv, Typed
<1>3. Idle \in Request
  BY IdleRequest, Zenon
<1>4. ASSUME nextProduct <= MaxProducts, products' = products \cup {new},
             nextProduct' = nextProduct + 1
      PROVE  BillingInv'
  <2>1. new \in ProductRow /\ nextProduct' \in 1..(MaxProducts + 1)
    BY <1>2, <1>4, BillingAssumption DEF BillingInv, Typed, ProductRow
  <2>2. Typed'
    BY <1>1, <1>3, <1>4, <2>1, Zenon DEF BillingInv, Typed, stripe
  <2>3. FreshIds'
    BY <1>1, <1>4 DEF BillingInv, Typed, FreshIds, ProductRow
  <2>4. KeepsIdentities
    BY <1>1, <1>4 DEF BillingInv, Typed, KeepsIdentities, SameSubscription, stripe
  <2>5. \A r \in subscriptions' : /\ r.user \in users' /\ r \in subscriptions
                                  /\ \E q \in products' : q.id = r.product
    BY <1>1, <1>4, Zenon DEF BillingInv, SubscriptionsHaveOwners
  <2> QED  BY <1>1, <2>2, <2>3, <2>4, <2>5, WriteKeepsInv, ZenonT(60) DEF SameSubscription
<1>5. ASSUME products' = {Saved(q) : q \in products}, nextProduct' = nextProduct
      PROVE  BillingInv'
  <2>1. ASSUME NEW q \in products
        PROVE  /\ Saved(q) \in ProductRow
               /\ Saved(q).id = q.id
               /\ Saved(q).stripe_product_id = q.stripe_product_id
    BY <1>2, Zenon DEF BillingInv, Typed, ProductRow
  <2> HIDE DEF Saved
  <2>2. Typed'
    BY <1>1, <1>3, <1>5, <2>1, Zenon DEF BillingInv, Typed, stripe
  <2>3. FreshIds'
    BY <1>1, <1>5, <2>1 DEF BillingInv, FreshIds
  <2>4. KeepsIdentities
    BY <1>1, <1>5, <2>1 DEF BillingInv, Typed, KeepsIdentities, SameSubscription, stripe
  <2>5. \A r \in subscriptions' : /\ r.user \in users' /\ r \in subscriptions
                                  /\ \E q \in products' : q.id = r.product
    BY <1>1, <1>5, <2>1, ZenonT(60) DEF BillingInv, SubscriptionsHaveOwners
  <2> QED  BY <1>1, <2>2, <2>3, <2>4, <2>5, WriteKeepsInv, ZenonT(60) DEF SameSubscription
<1> QED  BY <1>4, <1>5, Zenon DEF SaveProduct

LEMMA ProductDeletedKeepsInv ==
  ASSUME BillingInv, NEW e \in sent, ProductDeleted(e)
  PROVE  BillingInv'
<1> DEFINE row == FirstRow({q \in products : q.stripe_product_id = e.product})
<1>1. /\ products' = products \ {row}
      /\ subscriptions' = {r \in subscriptions : row = None \/ r.product # row.id}
      /\ UNCHANGED <<users, nextProduct, nextRow, req, stripe>>
  BY Zenon DEF ProductDeleted
<1> HIDE DEF row
<1>2. Typed'
  BY <1>1, Zenon DEF BillingInv, Typed, stripe
<1>3. FreshIds'
  BY <1>1, Zenon DEF BillingInv, FreshIds
<1>4. KeepsIdentities
  BY <1>1 DEF BillingInv, Typed, KeepsIdentities, SameSubscription, stripe
<1>5. None \notin products
  BY NoneAssumption, Zenon DEF BillingInv, Typed
<1>6. \A r \in subscriptions' : /\ r.user \in users' /\ r \in subscriptions
                                /\ \E q \in products' : q.id = r.product
  BY <1>1, <1>5, Zenon DEF BillingInv, SubscriptionsHaveOwners
<1> QED  BY <1>1, <1>2, <1>3, <1>4, <1>6, WriteKeepsInv, Zenon DEF SameSubscription

\* What UPDATE makes of the rows, whoever issues it.
LEMMA UpdateRowEffect ==
  ASSUME BillingInv, NEW loaded \in SubscriptionRow, NEW status \in Status,
         UpdateRow(loaded, status)
  PROVE  /\ subscriptions' \subseteq SubscriptionRow
         /\ \A x \in subscriptions' : \E r \in subscriptions :
              /\ x.id = r.id /\ SameSubscription(x, r)
              /\ x.active => r.active \/ (r.id = loaded.id /\ IsActive(status))
         /\ \A x, y \in subscriptions' : x.id = y.id => x = y
<1> DEFINE New(r) == IF r.id = loaded.id THEN Updated(r, loaded, status) ELSE r
<1>1. ASSUME NEW r \in subscriptions
      PROVE  /\ New(r) \in SubscriptionRow
             /\ New(r).id = r.id /\ SameSubscription(New(r), r)
             /\ New(r).active => r.active \/ (r.id = loaded.id /\ IsActive(status))
  <2>1. r \in SubscriptionRow /\ IsActive(status) \in BOOLEAN
    BY Zenon DEF BillingInv, Typed, IsActive
  <2>2. CASE r.id # loaded.id
    BY <2>1, <2>2, Zenon DEF SameSubscription
  <2>3. CASE r.id = loaded.id
    <3>1. New(r) = Updated(r, loaded, status)
      BY <2>3, Zenon
    <3>2. /\ Updated(r, loaded, status) \in SubscriptionRow
          /\ Updated(r, loaded, status).id = r.id
          /\ SameSubscription(Updated(r, loaded, status), r)
      BY <2>1, Zenon DEF Updated, SubscriptionRow, SameSubscription
    <3>3. Updated(r, loaded, status).active => r.active \/ IsActive(status)
      BY <2>1, Zenon DEF Updated, SubscriptionRow
    <3> QED  BY <2>3, <3>1, <3>2, <3>3, Zenon
  <2> QED  BY <2>2, <2>3, Zenon
<1>2. subscriptions' = {New(r) : r \in subscriptions}
  BY Zenon DEF UpdateRow
<1> HIDE DEF New
<1>3. ASSUME NEW x \in subscriptions', NEW y \in subscriptions', x.id = y.id PROVE x = y
  BY <1>1, <1>2, <1>3 DEF BillingInv, FreshIds
<1> QED  BY <1>1, <1>2, <1>3, SMTT(40)

LEMMA UpdateKeepsInv ==
  ASSUME BillingInv, NEW t \in Threads, NEW loaded \in SubscriptionRow, NEW status \in Status,
         UpdateRow(loaded, status),
         IsActive(status) => \A r \in subscriptions : r.id = loaded.id => Granted(r),
         req' = [req EXCEPT ![t] = Idle],
         UNCHANGED <<users, products, nextProduct, nextRow, stripe>>
  PROVE  BillingInv'
<1>1. /\ subscriptions' \subseteq SubscriptionRow
      /\ \A x \in subscriptions' : \E r \in subscriptions :
           /\ x.id = r.id /\ SameSubscription(x, r)
           /\ x.active => r.active \/ (r.id = loaded.id /\ IsActive(status))
      /\ \A x, y \in subscriptions' : x.id = y.id => x = y
  BY UpdateRowEffect, Zenon
<1>2. Typed'
  BY <1>1, IdleRequest, Zenon DEF BillingInv, Typed, stripe
<1>3. FreshIds'
  BY <1>1, Zenon DEF BillingInv, FreshIds
<1>4. KeepsIdentities
  BY <1>1, SMTT(40) DEF BillingInv, Typed, KeepsIdentities, stripe
<1>5. ASSUME NEW x \in subscriptions'
      PROVE  /\ x.user \in users'
             /\ \E q \in products' : q.id = x.product
             /\ x.active => \/ Granted(x)
                            \/ \E s \in subscriptions : SameSubscription(x, s) /\ s.active
  <2>1. PICK r \in subscriptions :
          /\ x.id = r.id /\ SameSubscription(x, r)
          /\ x.active => r.active \/ (r.id = loaded.id /\ IsActive(status))
    BY <1>1, Zenon
  <2>2. x.user \in users' /\ \E q \in products' : q.id = x.product
    BY <2>1, Zenon DEF BillingInv, SubscriptionsHaveOwners, SameSubscription
  <2>3. Granted(r) => Granted(x)
    BY <2>1, Zenon DEF Granted, SameSubscription
  <2> QED  BY <2>1, <2>2, <2>3, Zenon
<1> QED  BY <1>2, <1>3, <1>4, <1>5, WriteKeepsInv, ZenonT(60)

LEMMA UpdateSubscriptionKeepsInv ==
  ASSUME BillingInv, NEW t \in Threads, UpdateSubscription(t) \/ UpdateCanceled(t)
  PROVE  BillingInv'
<1>1. req[t] \in Request /\ RequestAgrees(req[t])
  BY Zenon DEF BillingInv, Typed, RequestsAgree
<1>2. CASE UpdateCanceled(t)
  <2>1. req[t].row \in SubscriptionRow /\ "canceled" \in Status /\ ~ IsActive("canceled")
    BY <1>1, <1>2, RequestFields, Zenon DEF UpdateCanceled, Status, IsActive
  <2> QED  BY <1>2, <2>1, UpdateKeepsInv, Zenon DEF UpdateCanceled, Become
<1>3. CASE UpdateSubscription(t)
  <2> DEFINE e == req[t].event
  <2>1. /\ req[t].row \in SubscriptionRow /\ e \in Event /\ e \in sent
        /\ e.type = "subscription"
    BY <1>1, <1>3, RequestFields, Zenon DEF UpdateSubscription, RequestAgrees
  <2>2. /\ e.status \in Status
        /\ e = [type |-> "subscription", sub |-> e.sub, user |-> e.user,
                product |-> e.product, status |-> e.status]
    BY <2>1, EventFields, Zenon
  <2>3. ASSUME IsActive(e.status), NEW r \in subscriptions, r.id = req[t].row.id
        PROVE  Granted(r)
    <3>1. /\ r.user = e.user /\ r.stripe_subscription_id = e.sub
          /\ r.product = req[t].product /\ e.status = "active"
      BY <1>1, <1>3, <2>3, ZenonT(60) DEF RequestAgrees, SameSubscription, UpdateSubscription, IsActive
    <3>2. PICK q \in products : q.id = r.product
      BY Zenon DEF BillingInv, SubscriptionsHaveOwners
    <3>3. q.stripe_product_id = e.product
      BY <1>1, <1>3, <3>1, <3>2, Zenon DEF RequestAgrees, UpdateSubscription
    <3> QED  BY <2>1, <2>2, <3>1, <3>2, <3>3, Zenon DEF Granted
  <2> QED  BY <1>3, <2>1, <2>2, <2>3, UpdateKeepsInv, ZenonT(60) DEF UpdateSubscription, Become
<1> QED  BY <1>2, <1>3, Zenon

LEMMA InsertSubscriptionKeepsInv ==
  ASSUME BillingInv, NEW t \in Threads, InsertSubscription(t)
  PROVE  BillingInv'
<1> DEFINE e == req[t].event
           new == [id |-> nextRow, user |-> e.user, stripe_subscription_id |-> e.sub,
                   product |-> req[t].product, status |-> e.status,
                   active |-> IsActive(e.status)]
<1>1. req[t] \in Request /\ RequestAgrees(req[t]) /\ req[t].op = "save_subscription"
  BY Zenon DEF BillingInv, Typed, RequestsAgree, InsertSubscription
<1>2. /\ e \in Event /\ e \in sent /\ e.type = "subscription"
      /\ req[t].product \in 1..MaxProducts
  BY <1>1, RequestFields, Zenon DEF RequestAgrees
<1>3. /\ e.sub \in Subs /\ e.user \in Users /\ e.status \in Status
      /\ e = [type |-> "subscription", sub |-> e.sub, user |-> e.user,
              product |-> e.product, status |-> e.status]
  BY <1>2, EventFields, Zenon
<1>4. /\ subscriptions' = subscriptions \cup {new}
      /\ nextRow' = nextRow + 1 /\ nextRow <= MaxRows
      /\ req' = [req EXCEPT ![t] = Idle]
      /\ UNCHANGED <<users, products, nextProduct, stripe>>
  BY Zenon DEF InsertSubscription, Become
<1>5. PICK q \in products : q.id = req[t].product
  BY Zenon DEF InsertSubscription
<1>6. Granted(new) \/ ~ new.active
  <2>1. q.stripe_product_id = e.product
    BY <1>1, <1>5, Zenon DEF RequestAgrees
  <2> QED  BY <1>2, <1>3, <1>5, <2>1, ZenonT(60) DEF Granted, IsActive
<1>7. new \in SubscriptionRow /\ nextRow' \in 1..(MaxRows + 1)
  <2>1. nextRow \in 1..(MaxRows + 1) /\ MaxRows \in Nat
    BY BillingAssumption, Zenon DEF BillingInv, Typed
  <2>2. nextRow \in 1..MaxRows /\ nextRow' \in 1..(MaxRows + 1)
    BY <1>4, <2>1
  <2>3. IsActive(e.status) \in BOOLEAN
    BY Zenon DEF IsActive
  <2> QED  BY <1>2, <1>3, <2>2, <2>3, Zenon DEF SubscriptionRow
<1>8. new.id = nextRow /\ new.user \in users /\ new.product = q.id
  BY <1>5, ZenonT(60) DEF InsertSubscription
<1> HIDE DEF new
<1>9. Typed'
  BY <1>4, <1>7, IdleRequest, Zenon DEF BillingInv, Typed, stripe
<1>10. FreshIds'
  BY <1>4, <1>7, <1>8, SMTT(40) DEF BillingInv, Typed, FreshIds, SubscriptionRow
<1>11. KeepsIdentities
  BY <1>4, <1>7, <1>8, SMTT(40) DEF BillingInv, Typed, KeepsIdentities, SameSubscription, stripe
<1>12. ASSUME NEW r \in subscriptions'
       PROVE  /\ r.user \in users'
              /\ \E p \in products' : p.id = r.product
              /\ r.active => \/ Granted(r)
                             \/ \E s \in subscriptions : SameSubscription(r, s) /\ s.active
  <2>1. CASE r = new
    BY <1>4, <1>6, <1>8, <2>1, Zenon
  <2>2. CASE r \in subscriptions
    BY <1>4, <2>2, Zenon DEF BillingInv, SubscriptionsHaveOwners, SameSubscription
  <2> QED  BY <1>4, <2>1, <2>2, Zenon
<1> QED  BY <1>4, <1>9, <1>10, <1>11, <1>12, WriteKeepsInv, ZenonT(60)

LEMMA DestroyRowsKeepsInv ==
  ASSUME BillingInv, NEW u, DestroyRows(u), StripeTypeOK', sent \subseteq sent'
  PROVE  BillingInv'
<1> USE DEF DestroyRows
<1>1. Typed'
  BY Zenon DEF BillingInv, Typed, StripeTypeOK
<1>2. FreshIds'
  BY Zenon DEF BillingInv, FreshIds
<1>3. KeepsIdentities
  BY DEF BillingInv, Typed, KeepsIdentities, SameSubscription
<1>4. \A r \in subscriptions' : /\ r.user \in users' /\ r \in subscriptions
                                /\ \E q \in products' : q.id = r.product
  BY Zenon DEF BillingInv, SubscriptionsHaveOwners
<1> QED  BY <1>1, <1>2, <1>3, <1>4, WriteKeepsInv, Zenon DEF SameSubscription

LEMMA DestroyUserKeepsInv ==
  ASSUME BillingInv,
         \/ \E u \in Users : DestroyUser(u)
         \/ \E e \in sent : CustomerDeleted(e)
  PROVE  BillingInv'
<1> StripeTypeOK
  BY Zenon DEF BillingInv, Typed, StripeTypeOK
<1>1. ASSUME NEW u \in Users, DestroyUser(u) PROVE BillingInv'
  <2>1. CASE u \in customers
    BY <1>1, <2>1, CustomerGoneTyped, DestroyRowsKeepsInv, Zenon DEF DestroyUser
  <2>2. CASE u \notin customers
    BY <1>1, <2>2, DestroyRowsKeepsInv, Zenon DEF DestroyUser, StripeTypeOK, stripe
  <2> QED  BY <2>1, <2>2, Zenon
<1>2. ASSUME NEW e \in sent, CustomerDeleted(e) PROVE BillingInv'
  BY <1>2, DestroyRowsKeepsInv, Zenon DEF CustomerDeleted, StripeTypeOK, stripe
<1> QED  BY <1>1, <1>2, Zenon
----------------------------------------------------------------------------
LEMMA InitInv == Init => BillingInv
<1> SUFFICES ASSUME Init PROVE BillingInv
  BY Zenon
<1>1. Typed
  BY IdleRequest, BillingAssumption, SMTT(40) DEF Init, Typed
<1>2. RequestsAgree
  BY Zenon DEF Init, RequestsAgree, RequestAgrees, Idle
<1> QED
  BY <1>1, <1>2, Zenon DEF Init, BillingInv, FreshIds, SubscriptionsHaveOwners, ActiveWasGranted

LEMMA NextKeepsInv == BillingInv /\ [Step]_vars => BillingInv'
<1> SUFFICES ASSUME BillingInv, [Step]_vars PROVE BillingInv'
  BY Zenon
<1>1. CASE AtStripe
  BY <1>1, AtStripeKeepsInv, Zenon
<1>2. CASE UNCHANGED vars
  <2> UNCHANGED tables /\ UNCHANGED req /\ UNCHANGED stripe
    BY <1>2, Zenon DEF vars
  <2> StripeTypeOK'
    BY Zenon DEF BillingInv, Typed, StripeTypeOK, stripe
  <2> QED  BY NoWrite, Zenon DEF stripe
<1>3. CASE WebhookInOneStep
  BY <1>2, <1>3, ProductDeletedKeepsInv, DestroyUserKeepsInv, Zenon
  DEF WebhookInOneStep, SubscriptionDeleted
<1>4. ASSUME NEW t \in Threads, Webhook(t) PROVE BillingInv'
  BY <1>4, ReadKeepsInv, SaveProductKeepsInv, InsertSubscriptionKeepsInv,
     UpdateSubscriptionKeepsInv, Zenon
  DEF Webhook
<1>5. ASSUME NEW t \in Threads, Browse(t) PROVE BillingInv'
  BY <1>5, ReadKeepsInv, CancelAtStripeKeepsInv, UpdateSubscriptionKeepsInv, Zenon DEF Browse
<1>6. ASSUME NEW t \in Threads, Abort(t) PROVE BillingInv'
  BY <1>6, ReadKeepsInv, Zenon
<1>7. ASSUME NEW u \in Users, NEW p \in Products, CreateCheckout(u, p) PROVE BillingInv'
  BY <1>7, CreateCheckoutKeepsInv, Zenon
<1>8. ASSUME NEW u \in Users, DestroyUser(u) PROVE BillingInv'
  BY <1>8, DestroyUserKeepsInv, Zenon
<1> QED  BY <1>1, <1>2, <1>3, <1>4, <1>5, <1>6, <1>7, <1>8, Zenon DEF Step

\* The inductive invariant behind the theorems below.
THEOREM BillingInvariant == Spec => []BillingInv
<1>1. Init => BillingInv
  BY InitInv, Zenon
<1>2. BillingInv /\ [Next]_<<vars, overlapped>> => BillingInv'
  BY NextKeepsInv, Zenon DEF Next
<1> QED  BY <1>1, <1>2, PTL DEF Spec

----------------------------------------------------------------------------
(***************************************************************************)
(* Requests that do not overlap.  A request then acts on what is still     *)
(* true: the row it did not find is still missing, the row it loaded is    *)
(* still as it was.                                                        *)
(***************************************************************************)

\* A Stripe subscription belongs to one user for ever, in events and in rows.
OwnersFixed ==
  /\ \A e \in sent : e.type = "subscription" =>
       stripeSub[e.sub] # None /\ stripeSub[e.sub].user = e.user
  /\ \A r \in subscriptions :
       /\ stripeSub[r.stripe_subscription_id] # None
       /\ stripeSub[r.stripe_subscription_id].user = r.user

\* Nobody interfered with a request since it read.
Unraced(r) ==
  /\ r.op = "save_product" /\ r.row = None =>
       \A q \in products : q.stripe_product_id # r.id
  /\ r.op = "save_subscription" /\ r.row = None =>
       \A s \in subscriptions :
         ~ (s.stripe_subscription_id = r.event.sub /\ s.product = r.product)
  /\ r.op \in {"cancel", "update_canceled"} \/ (r.op = "save_subscription" /\ r.row # None) =>
       \A s \in subscriptions : s.id = r.row.id => s = r.row

Unique ==
  /\ \A p, q \in products : p.stripe_product_id = q.stripe_product_id => p = q
  /\ \A r, s \in subscriptions :
       r.stripe_subscription_id = s.stripe_subscription_id /\ r.product = s.product => r = s

FlagsAgree == \A r \in subscriptions : r.active <=> r.status = "active"

SerialCore ==
  /\ Apart
  /\ Unique
  /\ FlagsAgree
  /\ \A t \in Threads : Unraced(req[t])

SerialInv ==
  /\ overlapped \in BOOLEAN
  /\ OwnersFixed
  /\ ~ overlapped => SerialCore

\* What a step does to Stripe's subscriptions: they never change hands, and the
\* events say whose they are.
OwnersStable ==
  /\ \A s \in Subs : stripeSub[s] # None =>
       stripeSub'[s] # None /\ stripeSub'[s].user = stripeSub[s].user
  /\ \A e \in sent' : e.type = "subscription" =>
       e \in sent \/ (stripeSub'[e.sub] # None /\ stripeSub'[e.sub].user = e.user)

LEMMA CancelingIsStable ==
  ASSUME Typed, NEW subs \in SUBSET Subs, \A s \in subs : stripeSub[s] # None,
         stripeSub' = WithCanceled(subs)
  PROVE  \A s \in Subs : stripeSub[s] # None =>
           stripeSub'[s] # None /\ stripeSub'[s].user = stripeSub[s].user
<1> SUFFICES ASSUME NEW s \in Subs, stripeSub[s] # None
             PROVE  stripeSub'[s] # None /\ stripeSub'[s].user = stripeSub[s].user
  BY Zenon
<1>1. stripeSub[s] \in StripeSubscription
  BY Zenon DEF Typed
<1>2. [stripeSub[s] EXCEPT !.status = "canceled"] \in StripeSubscription
  BY <1>1, Zenon DEF StripeSubscription, Status
<1>3. [stripeSub[s] EXCEPT !.status = "canceled"].user = stripeSub[s].user
  BY <1>1, Zenon DEF StripeSubscription
<1>4. stripeSub'[s] = IF s \in subs THEN [stripeSub[s] EXCEPT !.status = "canceled"]
                                   ELSE stripeSub[s]
  BY Zenon DEF WithCanceled
<1> QED  BY <1>2, <1>3, <1>4, NoneAssumption, Zenon

LEMMA CustomerGoneIsStable ==
  ASSUME Typed, NEW u, CustomerGone(u)
  PROVE  OwnersStable
<1> DEFINE subs == {s \in Subs : Running(s) /\ stripeSub[s].user = u}
<1>1. \A s \in subs : stripeSub[s] # None
  BY Zenon DEF Running
<1>2. stripeSub' = WithCanceled(subs)
  BY Zenon DEF CustomerGone
<1>3. \A e \in sent' : e \in sent \/ e.type \in {"subscription.deleted", "customer.deleted"}
  BY SMTT(40) DEF CustomerGone, Emit, Ended
<1> HIDE DEF subs
<1>4. \A s \in Subs : stripeSub[s] # None =>
        stripeSub'[s] # None /\ stripeSub'[s].user = stripeSub[s].user
  BY <1>1, <1>2, CancelingIsStable, Zenon DEF subs
<1> QED  BY <1>3, <1>4, Zenon DEF OwnersStable

LEMMA CancelIsStable ==
  ASSUME Typed, NEW s \in Subs, Running(s), stripeSub' = WithCanceled({s}), Emit(Ended({s}))
  PROVE  OwnersStable
<1>1. \A x \in Subs : stripeSub[x] # None =>
        stripeSub'[x] # None /\ stripeSub'[x].user = stripeSub[x].user
  BY CancelingIsStable DEF Running
<1>2. \A e \in sent' : e \in sent \/ e.type = "subscription.deleted"
  BY DEF Emit, Ended
<1> QED  BY <1>1, <1>2, Zenon DEF OwnersStable

LEMMA StepIsStable ==
  ASSUME BillingInv, Step
  PROVE  OwnersStable
<1> Typed
  BY Zenon DEF BillingInv
<1>0. ASSUME UNCHANGED stripeSub, \A e \in sent' : e \in sent \/ e.type # "subscription"
      PROVE  OwnersStable
  BY <1>0, Zenon DEF OwnersStable
<1>1. CASE AtStripe
  <2>1. ASSUME NEW p \in Products, NEW a \in Amounts, StripeEditsProduct(p, a)
        PROVE  OwnersStable
    BY <2>1, <1>0 DEF StripeEditsProduct, Emit
  <2>2. ASSUME NEW p \in Products, StripeDeletesProduct(p) PROVE OwnersStable
    BY <2>2, <1>0, SMTT(40) DEF StripeDeletesProduct, Emit
  <2>3. ASSUME NEW u \in Users, NEW p \in Products, NEW s \in Subs,
               NEW st \in {"active", "past_due"}, CompleteCheckout(u, p, s, st)
        PROVE  OwnersStable
    <3> DEFINE sub == [user |-> u, product |-> p, status |-> st]
    <3>1. sub \in StripeSubscription /\ sub.user = u
      BY Zenon DEF StripeSubscription, Status
    <3>2. stripeSub[s] = None /\ stripeSub' = [stripeSub EXCEPT ![s] = sub]
      BY <2>3, Zenon DEF CompleteCheckout
    <3>3. sent' = sent \cup {SubscriptionEvent(s, sub)}
      BY <2>3, Zenon DEF CompleteCheckout, Emit
    <3>4. SubscriptionEvent(s, sub).sub = s /\ SubscriptionEvent(s, sub).user = u
      BY <3>1, Zenon DEF SubscriptionEvent
    <3> HIDE DEF sub
    <3>5. stripeSub'[s] = sub /\ sub # None
      BY <3>1, <3>2, NoneAssumption, Zenon DEF Typed
    <3>6. \A x \in Subs : stripeSub[x] # None => stripeSub'[x] = stripeSub[x]
      BY <3>2, Zenon DEF Typed
    <3> QED  BY <3>1, <3>3, <3>4, <3>5, <3>6, Zenon DEF OwnersStable
  <2>4. ASSUME NEW s \in Subs, NEW p \in Products, NEW st \in {"active", "past_due"},
               StripeUpdatesSubscription(s, p, st)
        PROVE  OwnersStable
    <3> DEFINE sub == [stripeSub[s] EXCEPT !.product = p, !.status = st]
    <3>1. stripeSub[s] \in StripeSubscription
      BY <2>4, Zenon DEF StripeUpdatesSubscription, Running, Typed
    <3>2. sub \in StripeSubscription /\ sub.user = stripeSub[s].user
      BY <3>1, Zenon DEF StripeSubscription, Status
    <3>3. stripeSub' = [stripeSub EXCEPT ![s] = sub]
      BY <2>4, Zenon DEF StripeUpdatesSubscription
    <3>4. sent' = sent \cup {SubscriptionEvent(s, sub)}
      BY <2>4, Zenon DEF StripeUpdatesSubscription, Emit
    <3>5. SubscriptionEvent(s, sub).sub = s /\ SubscriptionEvent(s, sub).user = sub.user
      BY Zenon DEF SubscriptionEvent
    <3> HIDE DEF sub
    <3>6. stripeSub'[s] = sub /\ sub # None
      BY <3>2, <3>3, NoneAssumption, Zenon DEF Typed
    <3>7. \A x \in Subs : x # s => stripeSub'[x] = stripeSub[x]
      BY <3>3, Zenon DEF Typed
    <3> QED  BY <3>2, <3>4, <3>5, <3>6, <3>7, Zenon DEF OwnersStable
  <2>5. ASSUME NEW s \in Subs, StripeCancels(s) PROVE OwnersStable
    BY <2>5, CancelIsStable, Zenon DEF StripeCancels
  <2>6. ASSUME NEW u \in Users, StripeDeletesCustomer(u) PROVE OwnersStable
    BY <2>6, CustomerGoneIsStable, Zenon DEF StripeDeletesCustomer
  <2> QED  BY <1>1, <2>1, <2>2, <2>3, <2>4, <2>5, <2>6, Zenon DEF AtStripe
<1>2. CASE WebhookInOneStep
  BY <1>2, <1>0, Zenon DEF WebhookInOneStep, ProductDeleted, SubscriptionDeleted, CustomerDeleted,
                    stripe, vars
<1>3. ASSUME NEW t \in Threads, Webhook(t) \/ Abort(t) PROVE OwnersStable
  BY <1>3, <1>0, ZenonT(60) DEF Webhook, RetrieveProduct, FindProduct, SaveProduct, FindSubscription,
                    InsertSubscription, InsertSubscriptionInvalid, UpdateSubscription, Abort,
                    stripe
<1>4. ASSUME NEW t \in Threads, Browse(t) PROVE OwnersStable
  <2>1. CASE CancelAtStripe(t)
    <3>1. req[t].row.stripe_subscription_id \in Subs
      BY <2>1, RequestFields, Zenon DEF CancelAtStripe, Typed, SubscriptionRow
    <3>2. CASE Running(req[t].row.stripe_subscription_id)
      BY <2>1, <3>1, <3>2, CancelIsStable, ZenonT(60) DEF CancelAtStripe
    <3>3. CASE ~ Running(req[t].row.stripe_subscription_id)
      BY <2>1, <3>3, <1>0, Zenon DEF CancelAtStripe
    <3> QED  BY <3>2, <3>3, Zenon
  <2>2. CASE UpdateCanceled(t) \/ \E u \in Users, s \in Subs : FindToCancel(t, u, s)
    BY <2>2, <1>0, Zenon DEF UpdateCanceled, FindToCancel, stripe
  <2> QED  BY <1>4, <2>1, <2>2, Zenon DEF Browse
<1>5. ASSUME NEW u \in Users, NEW p \in Products, CreateCheckout(u, p) PROVE OwnersStable
  BY <1>5, <1>0, Zenon DEF CreateCheckout
<1>6. ASSUME NEW u \in Users, DestroyUser(u) PROVE OwnersStable
  BY <1>6, <1>0, CustomerGoneIsStable, Zenon DEF DestroyUser, stripe
<1> QED  BY <1>1, <1>2, <1>3, <1>4, <1>5, <1>6, Zenon DEF Step

LEMMA OwnersKept ==
  ASSUME BillingInv, OwnersFixed, Step
  PROVE  OwnersFixed'
<1>1. OwnersStable
  BY StepIsStable, Zenon
<1>2. /\ sent \subseteq Event
      /\ \A r \in subscriptions : r.stripe_subscription_id \in Subs
  BY Zenon DEF BillingInv, Typed, SubscriptionRow
<1>3. \A e \in sent' : e.type = "subscription" =>
        stripeSub'[e.sub] # None /\ stripeSub'[e.sub].user = e.user
  BY <1>1, <1>2, EventFields, Zenon DEF OwnersStable, OwnersFixed
<1> DEFINE Known(x) ==
        \/ \E r \in subscriptions : /\ x.stripe_subscription_id = r.stripe_subscription_id
                                    /\ x.user = r.user
        \/ \E e \in sent : /\ e.type = "subscription"
                           /\ x.stripe_subscription_id = e.sub /\ x.user = e.user
           AllKnown == \A x \in subscriptions' : Known(x)
<1>4. AllKnown
  <2>1. ASSUME NEW t \in Threads, InsertSubscription(t) PROVE AllKnown
    <3>1. req[t].op = "save_subscription" /\ RequestAgrees(req[t])
      BY <2>1, Zenon DEF InsertSubscription, BillingInv, RequestsAgree
    <3>2. req[t].event \in sent /\ req[t].event.type = "subscription"
      BY <3>1, Zenon DEF RequestAgrees
    <3>3. PICK e : e = req[t].event
      BY Zenon
    <3> DEFINE x == [id |-> nextRow, user |-> e.user, stripe_subscription_id |-> e.sub,
                     product |-> req[t].product, status |-> e.status,
                     active |-> IsActive(e.status)]
    <3>4. subscriptions' = subscriptions \cup {x}
      BY <2>1, <3>3, Zenon DEF InsertSubscription
    <3>5. x.stripe_subscription_id = e.sub /\ x.user = e.user
      BY Zenon
    <3> HIDE DEF x
    <3>6. Known(x)
      BY <3>2, <3>3, <3>5, Zenon
    <3>7. \A y \in subscriptions : Known(y)
      BY Zenon
    <3> HIDE DEF Known
    <3> QED  BY <3>4, <3>6, <3>7, Zenon
  <2>2. ASSUME NEW t \in Threads, UpdateSubscription(t) \/ UpdateCanceled(t) PROVE AllKnown
    <3>1. PICK loaded \in SubscriptionRow, status \in Status : UpdateRow(loaded, status)
      BY <2>2, RequestFields, EventFields, Zenon
      DEF UpdateSubscription, UpdateCanceled, BillingInv, Typed, RequestsAgree, RequestAgrees,
          Status
    <3> QED  BY <3>1, UpdateRowEffect, ZenonT(60) DEF SameSubscription
  <2>3. ASSUME subscriptions' \subseteq subscriptions PROVE AllKnown
    BY <2>3, Zenon
  <2>4. CASE AtStripe
    BY <2>3, <2>4, ZenonT(60) DEF AtStripe, StripeEditsProduct, StripeDeletesProduct, CompleteCheckout,
       StripeUpdatesSubscription, StripeCancels, StripeDeletesCustomer, tables
  <2>5. CASE WebhookInOneStep
    BY <2>3, <2>5, Zenon DEF WebhookInOneStep, ProductDeleted, SubscriptionDeleted, CustomerDeleted,
       DestroyRows, vars, tables
  <2>6. ASSUME NEW t \in Threads, Webhook(t) \/ Browse(t) \/ Abort(t) PROVE AllKnown
    BY <2>1, <2>2, <2>3, <2>6, ZenonT(60)
    DEF Webhook, Browse, RetrieveProduct, FindProduct, SaveProduct, FindSubscription,
        InsertSubscriptionInvalid, FindToCancel, CancelAtStripe, Abort, tables
  <2>7. ASSUME NEW u \in Users,
               DestroyUser(u) \/ \E p \in Products : CreateCheckout(u, p)
        PROVE  AllKnown
    BY <2>3, <2>7, Zenon DEF CreateCheckout, DestroyUser, DestroyRows, tables
  <2> QED  BY <2>4, <2>5, <2>6, <2>7, ZenonT(60) DEF Step
<1>5. \A r \in subscriptions' : /\ stripeSub'[r.stripe_subscription_id] # None
                                /\ stripeSub'[r.stripe_subscription_id].user = r.user
  BY <1>1, <1>2, <1>3, <1>4, EventFields, SMTT(40) DEF OwnersStable, OwnersFixed
<1> QED  BY <1>3, <1>5, Zenon DEF OwnersFixed

LEMMA UnracedIdle == Unraced(Idle) /\ Unraced(Idle)'
BY Zenon DEF Unraced, Idle

\* Steps that take no request further, and rows away at most.
LEMMA RemovalKeepsCore ==
  ASSUME SerialCore, UNCHANGED req, products' \subseteq products,
         subscriptions' \subseteq subscriptions
  PROVE  SerialCore'
BY Zenon DEF SerialCore, Apart, Unique, FlagsAgree, Unraced

\* A thread that is in the middle of a request, before or after its step, is
\* the only one.
LEMMA OthersIdle ==
  ASSUME Typed, SerialCore, Apart', NEW t \in Threads, NEW r, req' = [req EXCEPT ![t] = r],
         req[t] # Idle \/ r # Idle
  PROVE  \A s \in Threads : s # t => req'[s] = Idle
BY Zenon DEF Typed, SerialCore, Apart

LEMMA ThreadKeepsCore ==
  ASSUME Typed, SerialCore, Apart', NEW t \in Threads, NEW r, req' = [req EXCEPT ![t] = r],
         req[t] # Idle \/ r # Idle, Unraced(r)', Unique', FlagsAgree'
  PROVE  SerialCore'
<1>1. \A s \in Threads : s # t => req'[s] = Idle
  BY OthersIdle, Zenon
<1>2. req'[t] = r
  BY Zenon DEF Typed
<1>3. \A s \in Threads : Unraced(req[s])'
  BY <1>1, <1>2, UnracedIdle, ZenonT(60) DEF Unraced
<1> QED  BY <1>3, Zenon DEF SerialCore

LEMMA NotIdle ==
  ASSUME NEW r, r.op # "idle"
  PROVE  r # Idle
BY DEF Idle

\* Handlers that have only read, or have given up.
LEMMA ReadKeepsCore ==
  ASSUME BillingInv, OwnersFixed, SerialCore, Apart', NEW t \in Threads,
         \/ \E e \in sent : RetrieveProduct(t, e) \/ FindSubscription(t, e)
         \/ FindProduct(t)
         \/ InsertSubscriptionInvalid(t)
         \/ \E u \in Users, s \in Subs : FindToCancel(t, u, s)
         \/ CancelAtStripe(t)
         \/ Abort(t)
  PROVE  SerialCore'
<1> Typed /\ req[t] \in Request
  BY Zenon DEF BillingInv, Typed
<1>1. UNCHANGED <<products, subscriptions>>
  BY ZenonT(60) DEF RetrieveProduct, FindSubscription, FindProduct, InsertSubscriptionInvalid,
         FindToCancel, CancelAtStripe, Abort, tables
<1>2. Unique' /\ FlagsAgree'
  BY <1>1, Zenon DEF SerialCore, Unique, FlagsAgree
<1>3. ASSUME NEW r, req' = [req EXCEPT ![t] = r], req[t] # Idle \/ r # Idle, Unraced(r)
      PROVE  SerialCore'
  <2>1. Unraced(r)'
    BY <1>1, <1>3, Zenon DEF Unraced
  <2> QED  BY <1>2, <1>3, <2>1, ThreadKeepsCore, ZenonT(60)
<1>4. ASSUME req' = [req EXCEPT ![t] = Idle], req[t] # Idle PROVE SerialCore'
  BY <1>3, <1>4, UnracedIdle, Zenon
<1>5. ASSUME NEW e \in sent, RetrieveProduct(t, e) PROVE SerialCore'
  <2> DEFINE r == [op |-> "product_retrieved", id |-> e.product,
                   price |-> stripeProduct[e.product] \div 100]
  <2>1. req' = [req EXCEPT ![t] = r]
    BY <1>5, Zenon DEF RetrieveProduct, Become
  <2>2. r # Idle /\ Unraced(r)
    BY NotIdle, ZenonT(60) DEF Unraced
  <2> QED  BY <2>1, <2>2, <1>3, ZenonT(60)
<1>6. ASSUME FindProduct(t) PROVE SerialCore'
  <2> DEFINE rows == {q \in products : q.stripe_product_id = req[t].id}
             r == [op |-> "save_product", id |-> req[t].id, price |-> req[t].price,
                   row |-> FirstRow(rows)]
  <2>1. req' = [req EXCEPT ![t] = r]
    BY <1>6, Zenon DEF FindProduct, Become
  <2>2. FirstRow(rows) = None => rows = {}
    <3>1. \A x \in rows : x.id \in Nat
      BY SMTT(40) DEF Typed, ProductRow
    <3>2. None \notin rows
      BY NoneAssumption, Zenon DEF Typed
    <3> QED  BY <3>1, <3>2, FirstRowIsOne, Zenon
  <2>3. r.op = "save_product" /\ r.row = FirstRow(rows) /\ r.id = req[t].id
    BY ZenonT(60)
  <2>4. Unraced(r)
    BY <2>2, <2>3, ZenonT(60) DEF Unraced
  <2>5. r # Idle
    BY <2>3, NotIdle, ZenonT(60)
  <2> QED  BY <2>1, <2>4, <2>5, <1>3, ZenonT(60)
<1>7. ASSUME NEW e \in sent, FindSubscription(t, e) PROVE SerialCore'
  <2> DEFINE product == FirstRow({q \in products : q.stripe_product_id = e.product})
             rows == {s \in subscriptions : /\ s.user = e.user
                                            /\ s.stripe_subscription_id = e.sub
                                            /\ s.product = product.id}
             r == [op |-> "save_subscription", event |-> e,
                   product |-> product.id, row |-> FirstRow(rows)]
  <2>1. req' = [req EXCEPT ![t] = r] /\ e.type = "subscription"
    BY <1>7, Zenon DEF FindSubscription, Become
  <2>2. r.op = "save_subscription" /\ r.event = e /\ r.row = FirstRow(rows)
        /\ r.product = product.id
    BY ZenonT(60)
  <2> HIDE DEF product
  <2>3. ASSUME FirstRow(rows) = None,
               NEW s \in subscriptions, s.stripe_subscription_id = e.sub, s.product = product.id
        PROVE  FALSE
    <3>1. s.user = e.user
      BY <2>1, <2>3, Zenon DEF OwnersFixed
    <3>2. s \in rows
      BY <2>3, <3>1, ZenonT(60)
    <3>3. rows \subseteq subscriptions /\ \A x \in rows : x.id \in Nat
      BY SMTT(40) DEF Typed, SubscriptionRow
    <3>4. FirstRow(rows) \in rows
      BY <3>2, <3>3, FirstRowIsOne, Zenon
    <3> QED  BY <2>3, <3>3, <3>4, NoneAssumption, Zenon DEF Typed
  <2>4. FirstRow(rows) # None => FirstRow(rows) \in subscriptions
    BY FoundSubscription, Zenon
  <2> HIDE DEF rows, r
  <2>5. Unraced(r)
    BY <2>2, <2>3, <2>4, ZenonT(60) DEF Unraced, BillingInv, FreshIds
  <2>6. r # Idle
    BY <2>2, NotIdle, Zenon
  <2> QED  BY <2>1, <2>5, <2>6, <1>3, ZenonT(60)
<1>8. ASSUME NEW u \in Users, NEW s \in Subs, FindToCancel(t, u, s) PROVE SerialCore'
  <2> DEFINE rows == {x \in subscriptions : x.user = u /\ x.stripe_subscription_id = s}
             r == [op |-> "cancel", row |-> FirstRow(rows)]
  <2>1. req' = [req EXCEPT ![t] = r] /\ FirstRow(rows) # None
    BY <1>8, Zenon DEF FindToCancel, Become
  <2>2. FirstRow(rows) \in subscriptions
    BY <2>1, FoundSubscription, Zenon
  <2>3. r.op = "cancel" /\ r.row = FirstRow(rows)
    BY Zenon
  <2> HIDE DEF rows, r
  <2>4. Unraced(r)
    BY <2>2, <2>3, Zenon DEF Unraced, BillingInv, FreshIds
  <2>5. r # Idle
    BY <2>3, NotIdle, Zenon
  <2> QED  BY <2>1, <2>4, <2>5, <1>3, ZenonT(60)
<1>9. ASSUME CancelAtStripe(t) PROVE SerialCore'
  <2> DEFINE r == [op |-> "update_canceled", row |-> req[t].row]
  <2>1. req[t] # Idle /\ Unraced(req[t]) /\ req[t].op = "cancel"
    BY <1>9, NotIdle, ZenonT(60) DEF CancelAtStripe, SerialCore
  <2>2. Unraced(r)
    BY <2>1, ZenonT(60) DEF Unraced
  <2>3. req' = [req EXCEPT ![t] = r] \/ req' = [req EXCEPT ![t] = Idle]
    BY <1>9, Zenon DEF CancelAtStripe, Become
  <2> QED  BY <2>1, <2>2, <2>3, <1>3, <1>4, Zenon
<1>10. ASSUME InsertSubscriptionInvalid(t) \/ Abort(t) PROVE SerialCore'
  BY <1>10, <1>4, NotIdle, Zenon DEF InsertSubscriptionInvalid, Abort, Become
<1> QED  BY <1>5, <1>6, <1>7, <1>8, <1>9, <1>10, Zenon

LEMMA SaveProductKeepsCore ==
  ASSUME BillingInv, SerialCore, Apart', NEW t \in Threads, SaveProduct(t)
  PROVE  SerialCore'
<1> Typed
  BY Zenon DEF BillingInv
<1> DEFINE row == req[t].row
           Saved(q) == IF q.id = row.id /\ req[t].price # row.price
                         THEN [q EXCEPT !.price = req[t].price] ELSE q
<1>1. req[t] # Idle /\ req' = [req EXCEPT ![t] = Idle] /\ UNCHANGED subscriptions
  BY NotIdle, Zenon DEF SaveProduct, Become
<1>2. FlagsAgree'
  BY <1>1, Zenon DEF SerialCore, FlagsAgree
<1>3. \A p, q \in products' : p.stripe_product_id = q.stripe_product_id => p = q
  <2>1. CASE row = None
    <3> DEFINE new == [id |-> nextProduct, stripe_product_id |-> req[t].id,
                       price |-> req[t].price]
    <3>1. products' = products \cup {new} /\ new.stripe_product_id = req[t].id
      BY <2>1, Zenon DEF SaveProduct
    <3>2. \A q \in products : q.stripe_product_id # req[t].id
      BY <2>1, Zenon DEF SaveProduct, SerialCore, Unraced
    <3> QED  BY <3>1, <3>2, Zenon DEF SerialCore, Unique
  <2>2. CASE row # None
    <3>1. products' = {Saved(q) : q \in products}
      BY <2>2, Zenon DEF SaveProduct
    <3>2. \A q \in products : Saved(q).stripe_product_id = q.stripe_product_id
      BY Zenon DEF Typed, ProductRow
    <3> HIDE DEF Saved
    <3> QED  BY <3>1, <3>2 DEF SerialCore, Unique
  <2> QED  BY <2>1, <2>2, Zenon
<1>4. Unique'
  BY <1>1, <1>3, Zenon DEF SerialCore, Unique
<1> QED  BY <1>1, <1>2, <1>4, UnracedIdle, ThreadKeepsCore, Zenon

LEMMA InsertKeepsCore ==
  ASSUME BillingInv, SerialCore, Apart', NEW t \in Threads, InsertSubscription(t)
  PROVE  SerialCore'
<1> Typed
  BY Zenon DEF BillingInv
<1> DEFINE e == req[t].event
           new == [id |-> nextRow, user |-> e.user, stripe_subscription_id |-> e.sub,
                   product |-> req[t].product, status |-> e.status,
                   active |-> IsActive(e.status)]
<1>1. req[t] # Idle /\ req' = [req EXCEPT ![t] = Idle] /\ UNCHANGED products
  BY NotIdle, Zenon DEF InsertSubscription, Become
<1>2. subscriptions' = subscriptions \cup {new}
  BY Zenon DEF InsertSubscription
<1>3. /\ new.stripe_subscription_id = e.sub /\ new.product = req[t].product
      /\ new.active <=> new.status = "active"
  BY ZenonT(60) DEF IsActive
<1>4. \A s \in subscriptions :
        ~ (s.stripe_subscription_id = e.sub /\ s.product = req[t].product)
  BY ZenonT(60) DEF InsertSubscription, SerialCore, Unraced
<1> HIDE DEF new
<1>5. Unique'
  <2>1. \A p, q \in products' : p.stripe_product_id = q.stripe_product_id => p = q
    BY <1>1, Zenon DEF SerialCore, Unique
  <2>2. \A r, s \in subscriptions :
          r.stripe_subscription_id = s.stripe_subscription_id /\ r.product = s.product => r = s
    BY Zenon DEF SerialCore, Unique
  <2>3. ASSUME NEW r \in subscriptions', NEW s \in subscriptions',
               r.stripe_subscription_id = s.stripe_subscription_id, r.product = s.product
        PROVE  r = s
    <3>1. CASE r = new /\ s \in subscriptions
      BY <1>3, <1>4, <2>3, <3>1, Zenon
    <3>2. CASE s = new /\ r \in subscriptions
      BY <1>3, <1>4, <2>3, <3>2, Zenon
    <3>3. CASE r \in subscriptions /\ s \in subscriptions
      BY <2>2, <2>3, <3>3, Zenon
    <3> QED  BY <1>2, <3>1, <3>2, <3>3, Zenon
  <2> QED  BY <2>1, <2>3, Zenon DEF Unique
<1>6. FlagsAgree'
  BY <1>2, <1>3, Zenon DEF SerialCore, FlagsAgree
<1> QED  BY <1>1, <1>5, <1>6, UnracedIdle, ThreadKeepsCore, ZenonT(60)

\* The row is still as it was loaded, so that both columns are written when
\* they have to be.
LEMMA UpdateKeepsCore ==
  ASSUME BillingInv, SerialCore, Apart', NEW t \in Threads,
         UpdateSubscription(t) \/ UpdateCanceled(t)
  PROVE  SerialCore'
<1> Typed
  BY Zenon DEF BillingInv
<1> DEFINE loaded == req[t].row
           New(r, status) == IF r.id = loaded.id THEN Updated(r, loaded, status) ELSE r
<1>1. req[t] # Idle /\ req' = [req EXCEPT ![t] = Idle] /\ UNCHANGED products
  BY NotIdle, Zenon DEF UpdateSubscription, UpdateCanceled, Become
<1>2. loaded \in SubscriptionRow
  BY RequestFields, Zenon DEF UpdateSubscription, UpdateCanceled, Typed
<1>3. \A s \in subscriptions : s.id = loaded.id => s = loaded
  BY Zenon DEF UpdateSubscription, UpdateCanceled, SerialCore, Unraced
<1>4. PICK status : subscriptions' = {New(r, status) : r \in subscriptions}
  BY Zenon DEF UpdateSubscription, UpdateCanceled, UpdateRow
<1>5. /\ Updated(loaded, loaded, status).stripe_subscription_id = loaded.stripe_subscription_id
      /\ Updated(loaded, loaded, status).product = loaded.product
  BY <1>2, Zenon DEF Updated, SubscriptionRow
<1>6. Updated(loaded, loaded, status).active <=> Updated(loaded, loaded, status).status = "active"
  BY <1>2, Zenon DEF Updated, SubscriptionRow, IsActive
<1>7. \A r \in subscriptions :
        /\ New(r, status).stripe_subscription_id = r.stripe_subscription_id
        /\ New(r, status).product = r.product
        /\ New(r, status).active <=> New(r, status).status = "active"
  BY <1>3, <1>5, <1>6, ZenonT(60) DEF SerialCore, FlagsAgree
<1> HIDE DEF New
<1>8. FlagsAgree'
  BY <1>4, <1>7, Zenon DEF FlagsAgree
<1>9. Unique'
  BY <1>1, <1>4, <1>7 DEF SerialCore, Unique
<1> QED  BY <1>1, <1>8, <1>9, UnracedIdle, ThreadKeepsCore, ZenonT(60)

LEMMA StepKeepsCore ==
  ASSUME BillingInv, OwnersFixed, SerialCore, Apart', Step
  PROVE  SerialCore'
<1>1. CASE AtStripe
  BY <1>1, RemovalKeepsCore, ZenonT(60)
  DEF AtStripe, StripeEditsProduct, StripeDeletesProduct, CompleteCheckout,
      StripeUpdatesSubscription, StripeCancels, StripeDeletesCustomer, tables
<1>2. CASE WebhookInOneStep
  BY <1>2, RemovalKeepsCore, ZenonT(60)
  DEF WebhookInOneStep, ProductDeleted, SubscriptionDeleted, CustomerDeleted, DestroyRows,
      vars, tables
<1>3. ASSUME NEW t \in Threads, Webhook(t) \/ Browse(t) \/ Abort(t) PROVE SerialCore'
  BY <1>3, ReadKeepsCore, SaveProductKeepsCore, InsertKeepsCore, UpdateKeepsCore, Zenon
  DEF Webhook, Browse
<1>4. ASSUME NEW u \in Users, DestroyUser(u) \/ \E p \in Products : CreateCheckout(u, p)
      PROVE  SerialCore'
  BY <1>4, RemovalKeepsCore, Zenon DEF CreateCheckout, DestroyUser, DestroyRows, tables
<1> QED  BY <1>1, <1>2, <1>3, <1>4, Zenon DEF Step

LEMMA SerialInit == Init => SerialInv
BY UnracedIdle, ZenonT(60) DEF Init, SerialInv, OwnersFixed, SerialCore, Apart, Unique, FlagsAgree

LEMMA SerialNext == BillingInv /\ SerialInv /\ [Next]_<<vars, overlapped>> => SerialInv'
<1> SUFFICES ASSUME BillingInv, SerialInv, [Next]_<<vars, overlapped>> PROVE SerialInv'
  BY Zenon
<1>1. CASE UNCHANGED <<vars, overlapped>>
  <2>1. UNCHANGED <<products, subscriptions, req, stripeSub, sent, overlapped>>
    BY <1>1, Zenon DEF vars, tables, stripe
  <2>2. OwnersFixed'
    BY <2>1, Zenon DEF SerialInv, OwnersFixed
  <2>3. ~ overlapped => SerialCore'
    BY <2>1, RemovalKeepsCore, Zenon DEF SerialInv
  <2> QED  BY <2>1, <2>2, <2>3, Zenon DEF SerialInv
<1>2. CASE Next
  <2>1. overlapped' \in BOOLEAN /\ (~ overlapped' => ~ overlapped /\ Apart')
    BY <1>2, ZenonT(60) DEF Next, SerialInv
  <2>2. OwnersFixed'
    BY <1>2, OwnersKept, Zenon DEF Next, SerialInv
  <2>3. ~ overlapped' => SerialCore'
    BY <1>2, <2>1, StepKeepsCore, Zenon DEF Next, SerialInv
  <2> QED  BY <2>1, <2>2, <2>3, Zenon DEF SerialInv
<1> QED  BY <1>1, <1>2, Zenon

THEOREM SerialInvariant == Spec => []SerialInv
BY SerialInit, SerialNext, BillingInvariant, PTL DEF Spec
----------------------------------------------------------------------------
\* Type correctness of the tables, the requests and Stripe.
THEOREM BillingTypeCorrect == Spec => []TypeOK
<1>1. BillingInv /\ SerialInv => TypeOK
  BY Zenon DEF BillingInv, SerialInv, TypeOK
<1> QED  BY <1>1, BillingInvariant, SerialInvariant, PTL

\* A subscription row always has its user and its product, with no foreign
\* key on the product: the validation in the inserting transaction and the
\* cascade of Product#destroy suffice.
THEOREM NoOrphanSubscriptions == Spec => []SubscriptionsHaveOwners
<1>1. BillingInv => SubscriptionsHaveOwners
  BY Zenon DEF BillingInv
<1> QED  BY <1>1, BillingInvariant, PTL

\* However webhooks are delayed, repeated, reordered and interleaved with
\* cancellations and deletions, nothing is active that Stripe never reported.
THEOREM NothingUnpaidIsActive == Spec => []ActiveWasGranted
<1>1. BillingInv => ActiveWasGranted
  BY Zenon DEF BillingInv
<1> QED  BY <1>1, BillingInvariant, PTL

\* As long as no two requests overlapped, neither a repeated nor a reordered
\* event, nor a deletion in the middle of a request, makes a second row for a
\* Stripe product or for a subscription to a product.
THEOREM NoDuplicateRows == Spec => []OneRowEach
<1>1. SerialInv => OneRowEach
  BY Zenon DEF SerialInv, SerialCore, Unique, OneRowEach
<1> QED  BY <1>1, SerialInvariant, PTL

\* As long as no two requests overlapped, the flag that Ability reads agrees
\* with the status, although save writes only what differs from what was loaded.
THEOREM FlagFollowsStatus == Spec => []ActiveIffStatus
<1>1. SerialInv => ActiveIffStatus
  BY Zenon DEF SerialInv, SerialCore, FlagsAgree, ActiveIffStatus
<1> QED  BY <1>1, SerialInvariant, PTL
=============================================================================
