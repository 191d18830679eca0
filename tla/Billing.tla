------------------------------ MODULE Billing ------------------------------
(***************************************************************************)
(* Products and subscriptions, mirrored from Stripe by its webhooks:       *)
(* WebhooksController, SyncStripeProductService, StripeSubscriptionService *)
(* and SubscriptionsController, with the cascades of a destroyed product   *)
(* or user.                                                                *)
(*                                                                         *)
(* Stripe is external.  It delivers an event any number of times (it retries *)
(* and repeats), in any order, to any thread.  A database transaction is   *)
(* one step here (module Likes shows why it may be, and what makes one     *)
(* fail: Abort); what a handler reads before its transaction is a step of its own.  *)
(* Handling that changes nothing is left out: an exception before the      *)
(* first write, an early return, and invoice.payment_succeeded, whose      *)
(* handler raises on an invoice (it has no items) or returns.              *)
(***************************************************************************)
EXTENDS Naturals, FiniteSets

CONSTANTS Users,        \* users, each with its Stripe customer
          Products,     \* Stripe product ids
          Subs,         \* Stripe subscription ids
          Amounts,      \* unit amounts of a price, in cents
          Threads,      \* Puma threads
          MaxProducts,  \* bound: rows ever inserted into "products"
          MaxRows,      \* bound: rows ever inserted into "subscriptions"
          None          \* no record, no price, no subscription

ASSUME BillingAssumption ==
  /\ IsFiniteSet(Users) /\ IsFiniteSet(Subs) /\ IsFiniteSet(Products)
  /\ Amounts \subseteq Nat
  /\ MaxProducts \in Nat /\ MaxRows \in Nat

VARIABLES users,          \* rows of "users"
          products,       \* rows of "products"
          subscriptions,  \* rows of "subscriptions"
          nextProduct,    \* next AUTOINCREMENT id of "products"
          nextRow,        \* next AUTOINCREMENT id of "subscriptions"
          req,            \* the request each thread is serving
          customers,      \* Stripe: customers not deleted
          stripeProduct,  \* Stripe: the amount of a product's first price
          stripeSub,      \* Stripe: its subscriptions
          sessions,       \* Stripe: open checkout sessions
          sent,           \* Stripe: events, with their snapshot, ever emitted
          overlapped      \* history: two requests have been served at once

tables == <<users, products, subscriptions, nextProduct, nextRow>>
stripe == <<customers, stripeProduct, stripeSub, sessions, sent>>
vars   == <<tables, req, stripe>>

Status == {"active", "past_due", "canceled"}

ProductRow == [id : 1..MaxProducts, stripe_product_id : Products, price : Nat]

SubscriptionRow ==
  [id : 1..MaxRows, user : Users, stripe_subscription_id : Subs, product : 1..MaxProducts,
   status : Status, active : BOOLEAN]

StripeSubscription == [user : Users, product : Products, status : Status]

ASSUME NoneAssumption ==
  None \notin ProductRow /\ None \notin SubscriptionRow /\ None \notin StripeSubscription

Event ==
  [type : {"subscription"}, sub : Subs, user : Users, product : Products, status : Status]
    \cup [type : {"subscription.deleted"}, sub : Subs]
    \cup [type : {"product", "product.deleted"}, product : Products]
    \cup [type : {"customer.deleted"}, user : Users]

\* Where a request stands: what it has read and not yet acted upon.
Idle == [op |-> "idle"]

Request ==
  [op : {"idle"}]
    \cup [op : {"product_retrieved"}, id : Products, price : Nat]
    \cup [op : {"save_product"}, id : Products, price : Nat, row : ProductRow \cup {None}]
    \cup [op : {"save_subscription"}, event : Event, product : 1..MaxProducts,
          row : SubscriptionRow \cup {None}]
    \cup [op : {"cancel", "update_canceled"}, row : SubscriptionRow]

Typed ==
  /\ users \subseteq Users
  /\ products \subseteq ProductRow
  /\ subscriptions \subseteq SubscriptionRow
  /\ nextProduct \in 1..(MaxProducts + 1)
  /\ nextRow \in 1..(MaxRows + 1)
  /\ req \in [Threads -> Request]
  /\ customers \subseteq Users
  /\ stripeProduct \in [Products -> Amounts \cup {None}]
  /\ stripeSub \in [Subs -> StripeSubscription \cup {None}]
  /\ sessions \subseteq Users \X Products
  /\ sent \subseteq Event

TypeOK == Typed /\ overlapped \in BOOLEAN

Init ==
  /\ users = Users
  /\ products = {}
  /\ subscriptions = {}
  /\ nextProduct = 1
  /\ nextRow = 1
  /\ req = [t \in Threads |-> Idle]
  /\ customers = Users
  /\ stripeProduct = [p \in Products |-> None]
  /\ stripeSub = [s \in Subs |-> None]
  /\ sessions = {}
  /\ sent = {}
  /\ overlapped = FALSE

\* find_by: the first of the rows (in id order), or none.
FirstRow(rows) ==
  IF rows = {} THEN None ELSE CHOOSE r \in rows : \A s \in rows : r.id <= s.id

Become(t, r) == req' = [req EXCEPT ![t] = r]
----------------------------------------------------------------------------
(* Stripe. *)

Emit(events) == sent' = sent \cup events

SubscriptionEvent(s, sub) ==
  [type |-> "subscription", sub |-> s, user |-> sub.user, product |-> sub.product,
   status |-> sub.status]

\* Subscriptions in Stripe's hands that end when the given ones are canceled.
Ended(subs) ==
  {[type |-> "subscription.deleted", sub |-> s] : s \in subs}

WithCanceled(subs) ==
  [s \in Subs |-> IF s \in subs THEN [stripeSub[s] EXCEPT !.status = "canceled"]
                                ELSE stripeSub[s]]

Running(s) == stripeSub[s] # None /\ stripeSub[s].status # "canceled"

\* The product is created, or its price is replaced by another.
StripeEditsProduct(p, amount) ==
  /\ [type |-> "product.deleted", product |-> p] \notin sent
  /\ stripeProduct[p] # amount
  /\ stripeProduct' = [stripeProduct EXCEPT ![p] = amount]
  /\ Emit({[type |-> "product", product |-> p]})
  /\ UNCHANGED <<tables, req, customers, stripeSub, sessions>>

StripeDeletesProduct(p) ==
  /\ stripeProduct[p] # None
  /\ stripeProduct' = [stripeProduct EXCEPT ![p] = None]
  /\ Emit({[type |-> "product.deleted", product |-> p]})
  /\ UNCHANGED <<tables, req, customers, stripeSub, sessions>>

\* The customer pays, or fails to, at the checkout page.
CompleteCheckout(u, p, s, status) ==
  /\ <<u, p>> \in sessions
  /\ u \in customers
  /\ stripeSub[s] = None
  /\ LET sub == [user |-> u, product |-> p, status |-> status]
     IN  /\ stripeSub' = [stripeSub EXCEPT ![s] = sub]
         /\ Emit({SubscriptionEvent(s, sub)})
  /\ sessions' = sessions \ {<<u, p>>}
  /\ UNCHANGED <<tables, req, customers, stripeProduct>>

\* A payment fails or succeeds again, or the plan is changed at Stripe.
StripeUpdatesSubscription(s, p, status) ==
  /\ Running(s)
  /\ LET sub == [stripeSub[s] EXCEPT !.product = p, !.status = status]
     IN  /\ sub # stripeSub[s]
         /\ stripeSub' = [stripeSub EXCEPT ![s] = sub]
         /\ Emit({SubscriptionEvent(s, sub)})
  /\ UNCHANGED <<tables, req, customers, stripeProduct, sessions>>

StripeCancels(s) ==
  /\ Running(s)
  /\ stripeSub' = WithCanceled({s})
  /\ Emit(Ended({s}))
  /\ UNCHANGED <<tables, req, customers, stripeProduct, sessions>>

\* What deleting a customer does at Stripe; also the case of a user's
\* destruction whose transaction is lost after the call to Stripe.
CustomerGone(u) ==
  LET subs == {s \in Subs : Running(s) /\ stripeSub[s].user = u}
  IN  /\ customers' = customers \ {u}
      /\ stripeSub' = WithCanceled(subs)
      /\ sessions' = {x \in sessions : x[1] # u}
      /\ Emit(Ended(subs) \cup {[type |-> "customer.deleted", user |-> u]})
      /\ UNCHANGED stripeProduct

StripeDeletesCustomer(u) ==
  /\ u \in customers
  /\ CustomerGone(u)
  /\ UNCHANGED <<tables, req>>
----------------------------------------------------------------------------
(* WebhooksController, products: SyncStripeProductService. *)

\* Retrieving a deleted product, or one without a price, raises.
RetrieveProduct(t, e) ==
  /\ req[t] = Idle
  /\ e.type = "product"
  /\ stripeProduct[e.product] # None
  /\ Become(t, [op |-> "product_retrieved", id |-> e.product,
                price |-> stripeProduct[e.product] \div 100])
  /\ UNCHANGED <<tables, stripe>>

\* Mutant: every event builds a new record.
FindProductNever(t) ==
  /\ req[t].op = "product_retrieved"
  /\ Become(t, [op |-> "save_product", id |-> req[t].id, price |-> req[t].price,
                row |-> None])
  /\ UNCHANGED <<tables, stripe>>

FindProduct(t) ==
  /\ req[t].op = "product_retrieved"
  /\ LET rows == {q \in products : q.stripe_product_id = req[t].id}
     IN  Become(t, [op |-> "save_product", id |-> req[t].id, price |-> req[t].price,
                    row |-> FirstRow(rows)])
  /\ UNCHANGED <<tables, stripe>>

\* INSERT for a new record; for a found one, UPDATE of what differs from what
\* was found, which touches nothing when the row has gone meanwhile.
SaveProduct(t) ==
  /\ req[t].op = "save_product"
  /\ LET r == req[t].row
     IN  \/ /\ r = None
            /\ nextProduct <= MaxProducts
            /\ products' = products \cup {[id |-> nextProduct,
                                           stripe_product_id |-> req[t].id,
                                           price |-> req[t].price]}
            /\ nextProduct' = nextProduct + 1
         \/ /\ r # None
            /\ products' = {IF q.id = r.id /\ req[t].price # r.price
                              THEN [q EXCEPT !.price = req[t].price] ELSE q : q \in products}
            /\ UNCHANGED nextProduct
  /\ Become(t, Idle)
  /\ UNCHANGED <<users, subscriptions, nextRow, stripe>>

\* Product.find_by(...)&.destroy, the subscriptions of the product first.
ProductDeleted(e) ==
  /\ e.type = "product.deleted"
  /\ LET row == FirstRow({q \in products : q.stripe_product_id = e.product})
     IN  /\ products' = products \ {row}
         /\ subscriptions' = {r \in subscriptions : row = None \/ r.product # row.id}
  /\ UNCHANGED <<users, nextProduct, nextRow, req, stripe>>
----------------------------------------------------------------------------
(* WebhooksController, subscriptions: StripeSubscriptionService. *)

\* No user or no product of that id: the handler returns, and the event is lost.
FindSubscription(t, e) ==
  /\ req[t] = Idle
  /\ e.type = "subscription"
  /\ e.user \in users
  /\ LET product == FirstRow({q \in products : q.stripe_product_id = e.product})
         rows == {r \in subscriptions : /\ r.user = e.user
                                        /\ r.stripe_subscription_id = e.sub
                                        /\ r.product = product.id}
     IN  /\ product # None
         /\ Become(t, [op |-> "save_subscription", event |-> e,
                       product |-> product.id, row |-> FirstRow(rows)])
  /\ UNCHANGED <<tables, stripe>>

\* Mutant: anything but a canceled subscription counts as active.
IsActiveUnlessCanceled(status) == status # "canceled"

IsActive(status) == status = "active"

\* Mutant: the flag of a known row is not brought up to date.
UpdatedStatusOnly(row, loaded, status) ==
  [row EXCEPT !.status = IF status # loaded.status THEN status ELSE @]

\* UPDATE of the columns that differ from the row as it was loaded.
Updated(row, loaded, status) ==
  [row EXCEPT !.status = IF status # loaded.status THEN status ELSE @,
              !.active = IF IsActive(status) # loaded.active THEN IsActive(status) ELSE @]

UpdateRow(loaded, status) ==
  subscriptions' = {IF r.id = loaded.id THEN Updated(r, loaded, status) ELSE r :
                      r \in subscriptions}

\* Mutant: belongs_to :product, optional: true.
InsertUnvalidated(t) ==
  /\ req[t].op = "save_subscription"
  /\ req[t].row = None
  /\ req[t].event.user \in users
  /\ nextRow <= MaxRows
  /\ LET e == req[t].event
     IN  /\ subscriptions' = subscriptions \cup
               {[id |-> nextRow, user |-> e.user, stripe_subscription_id |-> e.sub,
                 product |-> req[t].product, status |-> e.status,
                 active |-> IsActive(e.status)]}
         /\ nextRow' = nextRow + 1
  /\ Become(t, Idle)
  /\ UNCHANGED <<users, products, nextProduct, stripe>>

\* The product is validated inside the transaction.
InsertSubscription(t) ==
  /\ req[t].op = "save_subscription"
  /\ req[t].row = None
  /\ \E q \in products : q.id = req[t].product
  /\ req[t].event.user \in users
  /\ nextRow <= MaxRows
  /\ LET e == req[t].event
     IN  /\ subscriptions' = subscriptions \cup
               {[id |-> nextRow, user |-> e.user, stripe_subscription_id |-> e.sub,
                 product |-> req[t].product, status |-> e.status,
                 active |-> IsActive(e.status)]}
         /\ nextRow' = nextRow + 1
  /\ Become(t, Idle)
  /\ UNCHANGED <<users, products, nextProduct, stripe>>

\* RecordInvalid (the product has gone) is rescued, and the event is lost.
InsertSubscriptionInvalid(t) ==
  /\ req[t].op = "save_subscription"
  /\ req[t].row = None
  /\ ~ \E q \in products : q.id = req[t].product
  /\ Become(t, Idle)
  /\ UNCHANGED <<tables, stripe>>

UpdateSubscription(t) ==
  /\ req[t].op = "save_subscription"
  /\ req[t].row # None
  /\ UpdateRow(req[t].row, req[t].event.status)
  /\ Become(t, Idle)
  /\ UNCHANGED <<users, products, nextProduct, nextRow, stripe>>

\* The handler only looks the row up.
SubscriptionDeleted(e) ==
  /\ e.type = "subscription.deleted"
  /\ UNCHANGED vars
----------------------------------------------------------------------------
(* SubscriptionsController. *)

\* Stripe refuses (InvalidRequestError, rescued) what it no longer has.
CreateCheckout(u, p) ==
  /\ u \in users
  /\ \E q \in products : q.stripe_product_id = p
  /\ u \in customers /\ stripeProduct[p] # None
  /\ sessions' = sessions \cup {<<u, p>>}
  /\ UNCHANGED <<tables, req, customers, stripeProduct, stripeSub, sent>>

FindToCancel(t, u, s) ==
  /\ req[t] = Idle
  /\ u \in users
  /\ LET row == FirstRow({r \in subscriptions : r.user = u /\ r.stripe_subscription_id = s})
     IN  row # None /\ Become(t, [op |-> "cancel", row |-> row])
  /\ UNCHANGED <<tables, stripe>>

\* Stripe raises when the subscription has already ended.
CancelAtStripe(t) ==
  /\ req[t].op = "cancel"
  /\ LET s == req[t].row.stripe_subscription_id
     IN  IF Running(s)
           THEN /\ stripeSub' = WithCanceled({s})
                /\ Emit(Ended({s}))
                /\ Become(t, [op |-> "update_canceled", row |-> req[t].row])
           ELSE /\ Become(t, Idle)
                /\ UNCHANGED <<stripeSub, sent>>
  /\ UNCHANGED <<tables, customers, stripeProduct, sessions>>

UpdateCanceled(t) ==
  /\ req[t].op = "update_canceled"
  /\ UpdateRow(req[t].row, "canceled")
  /\ Become(t, Idle)
  /\ UNCHANGED <<users, products, nextProduct, nextRow, stripe>>
----------------------------------------------------------------------------
(* User#destroy, from UsersController or the webhook customer.deleted. *)

DestroyRows(u) ==
  /\ users' = users \ {u}
  /\ subscriptions' = {r \in subscriptions : r.user # u}
  /\ UNCHANGED <<products, nextProduct, nextRow, req>>

DestroyUser(u) ==
  /\ u \in users
  /\ DestroyRows(u)
  /\ IF u \in customers THEN CustomerGone(u) ELSE UNCHANGED stripe

\* The callback's call to Stripe fails for a customer already deleted; rescued.
CustomerDeleted(e) ==
  /\ e.type = "customer.deleted"
  /\ DestroyRows(e.user)
  /\ UNCHANGED stripe
----------------------------------------------------------------------------
\* The request raises before its next write, or its process dies: a busy
\* database, a foreign key that fails, an unreachable Stripe.
Abort(t) ==
  /\ req[t] # Idle
  /\ Become(t, Idle)
  /\ UNCHANGED <<tables, stripe>>

AtStripe ==
  \/ \E p \in Products, a \in Amounts : StripeEditsProduct(p, a)
  \/ \E p \in Products : StripeDeletesProduct(p)
  \/ \E u \in Users, p \in Products, s \in Subs, st \in {"active", "past_due"} :
       CompleteCheckout(u, p, s, st)
  \/ \E s \in Subs, p \in Products, st \in {"active", "past_due"} :
       StripeUpdatesSubscription(s, p, st)
  \/ \E s \in Subs : StripeCancels(s)
  \/ \E u \in Users : StripeDeletesCustomer(u)

\* POST /webhooks/stripe
Webhook(t) ==
  \/ \E e \in sent : RetrieveProduct(t, e)
  \/ FindProduct(t)
  \/ SaveProduct(t)
  \/ \E e \in sent : FindSubscription(t, e)
  \/ InsertSubscription(t)
  \/ InsertSubscriptionInvalid(t)
  \/ UpdateSubscription(t)

WebhookInOneStep ==
  \E e \in sent : \/ ProductDeleted(e)
                  \/ SubscriptionDeleted(e)
                  \/ CustomerDeleted(e)

Browse(t) ==
  \/ \E u \in Users, s \in Subs : FindToCancel(t, u, s)
  \/ CancelAtStripe(t)
  \/ UpdateCanceled(t)

Step ==
  \/ AtStripe
  \/ WebhookInOneStep
  \/ \E t \in Threads : Webhook(t) \/ Browse(t) \/ Abort(t)
  \/ \E u \in Users, p \in Products : CreateCheckout(u, p)
  \/ \E u \in Users : DestroyUser(u)

\* No two threads are in the middle of a request.
Apart == \A s, t \in Threads : req[s] # Idle /\ req[t] # Idle => s = t

Next == Step /\ overlapped' = (overlapped \/ ~ Apart')

Spec == Init /\ [][Next]_<<vars, overlapped>>

\* A request goes on to its end, and Stripe repeats a deletion until it is handled.
Progress(t) ==
  \/ FindProduct(t) \/ SaveProduct(t)
  \/ InsertSubscription(t) \/ InsertSubscriptionInvalid(t) \/ UpdateSubscription(t)
  \/ CancelAtStripe(t) \/ UpdateCanceled(t)

Delivery(e) ==
  /\ e \in sent
  /\ ProductDeleted(e) \/ SubscriptionDeleted(e) \/ CustomerDeleted(e)

FairSpec ==
  /\ Spec
  /\ \A t \in Threads : WF_vars(Progress(t))
  /\ \A e \in Event : WF_vars(Delivery(e))
----------------------------------------------------------------------------
(* Properties. *)

\* Every subscription has its user and its product, although no foreign key
\* guards the product: Ability may ask for current_subscription.product.name.
SubscriptionsHaveOwners ==
  \A r \in subscriptions : r.user \in users /\ \E q \in products : q.id = r.product

\* A row is active only if Stripe did report that subscription, of that user
\* and to that product, active: no delay, repetition or reordering of events
\* grants a plan that was never paid.
ActiveWasGranted ==
  \A r \in subscriptions : r.active =>
    \E e \in sent, q \in products :
      /\ q.id = r.product
      /\ e = [type |-> "subscription", sub |-> r.stripe_subscription_id, user |-> r.user,
              product |-> q.stripe_product_id, status |-> "active"]

\* find_or_initialize_by keeps one row per Stripe product and per
\* (subscription, product), as long as requests do not overlap: neither
\* repeated nor reordered events duplicate one.
OneRowEach == ~ overlapped =>
  /\ \A p, q \in products : p.stripe_product_id = q.stripe_product_id => p = q
  /\ \A r, s \in subscriptions :
       r.stripe_subscription_id = s.stripe_subscription_id /\ r.product = s.product => r = s

\* The flag Ability reads agrees with the status, as long as requests do not
\* overlap.
ActiveIffStatus ==
  ~ overlapped => \A r \in subscriptions : r.active <=> r.status = "active"

\* Violated.  'Subscription has been canceled.' (SubscriptionsController#destroy):
\* once update! is done the row is inactive.
CancelDeactivates ==
  [][\A t \in Threads : UpdateCanceled(t) =>
       \A r \in subscriptions' : r.id = req[t].row.id => ~ r.active]_vars

\* Violated.  Ability: "Return if the user does not have an active subscription";
\* a subscription Stripe has ended stops being active here.
EndedBecomesInactive ==
  \A s \in Subs :
    (stripeSub[s] # None /\ ~ Running(s))
      ~> (\A r \in subscriptions : r.stripe_subscription_id = s => ~ r.active)

\* Violated.  SyncStripeProductService: "price in USD"; the price of a product
\* is its unit amount in dollars.
PriceInUSD == \A q \in products : \E a \in Amounts : q.price * 100 = a
=============================================================================
