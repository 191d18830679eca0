------------------------------ MODULE Accounts ------------------------------
(***************************************************************************)
(* Accounts and their Stripe customers: the callbacks of User, run inside  *)
(* its transaction, the webhooks that mirror customers back into "users"   *)
(* (GetStripeCustomerService), UsersController, and the welcome e-mail     *)
(* that a Sidekiq job sends.                                               *)
(*                                                                         *)
(* INSERT and UPDATE hold SQLite's write lock to the end of their          *)
(* transaction, so the calls to Stripe that the callbacks make happen      *)
(* while others can read but not write.  What they did at Stripe, and the  *)
(* job they enqueued, outlive a rollback; the id of the row does not.      *)
(*                                                                         *)
(* Stripe and Sidekiq are external: events are delivered any number of     *)
(* times in any order, and a job that raises is tried again.               *)
(***************************************************************************)
EXTENDS Naturals, FiniteSets

CONSTANTS Names,      \* usernames
          Emails,     \* e-mail addresses
          Customers,  \* Stripe customer ids
          Threads,    \* Puma threads
          MaxUsers,   \* bound: rows ever inserted into "users"
          None        \* no username, no customer

ASSUME AccountsAssumption ==
  /\ MaxUsers \in Nat
  /\ None \notin Names /\ None \notin Customers
  /\ None \notin [name : Names \cup {None}, email : Emails]

VARIABLES users,      \* rows of "users"
          nextUser,   \* next AUTOINCREMENT id of "users"
          req,        \* the request each thread is serving
          jobs,       \* Sidekiq: user ids of the MailerJobs queued or to be retried
          welcomed,   \* ids of the users the welcome e-mail went to
          customers,  \* Stripe: name and e-mail of its customers
          sent,       \* Stripe: events ever emitted
          overlapped  \* history: two requests have been served at once

stripe == <<customers, sent>>
vars   == <<users, nextUser, req, jobs, welcomed, customers, sent>>

Ids == 1..MaxUsers

\* A customer of Stripe need not have a name.
Who == [name : Names \cup {None}, email : Emails]

\* byAdmin is not a column: it tells how the row was created.
UserRow ==
  [id : Ids, name : Names \cup {None}, email : Emails, customer : Customers \cup {None},
   byAdmin : BOOLEAN]

Event == [type : {"customer", "customer.deleted"}, id : Customers]

(***************************************************************************)
(* Where a request stands.  "retrieved", "insert" and "save" hold what     *)
(* they have read; "creating", "created" and "updating" are inside the     *)
(* transaction, "created" having its new customer and "updating" having    *)
(* told Stripe.                                                            *)
(***************************************************************************)
Idle == [op |-> "idle"]

Request ==
  [op : {"idle"}]
    \cup [op : {"retrieved", "insert"}, customer : Customers, who : Who]
    \cup [op : {"save"}, row : UserRow, who : Who, validate : BOOLEAN]
    \cup [op : {"creating"}, row : UserRow]
    \cup [op : {"created"}, row : UserRow, new : Customers]
    \cup [op : {"updating"}, row : UserRow, who : Who]

Typed ==
  /\ users \subseteq UserRow
  /\ nextUser \in 1..(MaxUsers + 1)
  /\ req \in [Threads -> Request]
  /\ jobs \subseteq Ids
  /\ welcomed \subseteq Ids
  /\ customers \in [Customers -> Who \cup {None}]
  /\ sent \subseteq Event

TypeOK == Typed /\ overlapped \in BOOLEAN

Init ==
  /\ users = {}
  /\ nextUser = 1
  /\ req = [t \in Threads |-> Idle]
  /\ jobs = {}
  /\ welcomed = {}
  /\ customers = [c \in Customers |-> None]
  /\ sent = {}
  /\ overlapped = FALSE

Become(t, r) == req' = [req EXCEPT ![t] = r]

WhoIs(row) == [name |-> row.name, email |-> row.email]

\* The write lock, held from the first write of a transaction to its end.
InTransaction(t) == req[t].op \in {"creating", "created", "updating"}

Free == \A t \in Threads : ~ InTransaction(t)

\* validates :username, :email, presence and uniqueness.
Valid(id, who) ==
  /\ who.name # None
  /\ \A r \in users : r.id # id => r.name # who.name /\ r.email # who.email

\* The unique index on users.username, which lets any number of NULLs in.
IndexAllows(id, name) == name = None \/ \A r \in users : r.id # id => r.name # name
----------------------------------------------------------------------------
(* Stripe. *)

Live(c) == customers[c] # None

Unused(c) == ~ Live(c) /\ \A e \in sent : e.id # c

\* Creating a customer, or changing what it says, emits an event.
StripeSets(c, who) ==
  /\ customers' = [customers EXCEPT ![c] = who]
  /\ sent' = IF customers[c] = who THEN sent
             ELSE sent \cup {[type |-> "customer", id |-> c]}

StripeRemoves(c) ==
  /\ customers' = [customers EXCEPT ![c] = None]
  /\ sent' = sent \cup {[type |-> "customer.deleted", id |-> c]}

\* At Stripe's own dashboard.
StripeCreatesCustomer(c, who) ==
  /\ Unused(c)
  /\ StripeSets(c, who)
  /\ UNCHANGED <<users, nextUser, req, jobs, welcomed>>

StripeEditsCustomer(c, who) ==
  /\ Live(c) /\ customers[c] # who
  /\ StripeSets(c, who)
  /\ UNCHANGED <<users, nextUser, req, jobs, welcomed>>

StripeDeletesCustomer(c) ==
  /\ Live(c)
  /\ StripeRemoves(c)
  /\ UNCHANGED <<users, nextUser, req, jobs, welcomed>>
----------------------------------------------------------------------------
(* User, created: INSERT, send_welcome_email, create_stripe_customer, and  *)
(* the update that stores the customer's id.                               *)

NewRow(who, customer, byAdmin) ==
  [id |-> nextUser, name |-> who.name, email |-> who.email, customer |-> customer,
   byAdmin |-> byAdmin]

\* Registration, or an administrator's UsersController#create: no welcome e-mail.
Register(t, who, byAdmin) ==
  /\ req[t] = Idle
  /\ Free /\ Valid(nextUser, who)
  /\ nextUser <= MaxUsers
  /\ Become(t, [op |-> "creating", row |-> NewRow(who, None, byAdmin)])
  /\ jobs' = IF byAdmin THEN jobs ELSE jobs \cup {nextUser}
  /\ UNCHANGED <<users, nextUser, welcomed, stripe>>

\* save(validate: false) of a customer no user has.
InsertUser(t) ==
  /\ req[t].op = "insert"
  /\ Free /\ IndexAllows(nextUser, req[t].who.name)
  /\ nextUser <= MaxUsers
  /\ Become(t, [op |-> "creating", row |-> NewRow(req[t].who, req[t].customer, FALSE)])
  /\ jobs' = jobs \cup {nextUser}
  /\ UNCHANGED <<users, nextUser, welcomed, stripe>>

CreateStripeCustomer(t, c) ==
  /\ req[t].op = "creating"
  /\ Unused(c)
  /\ StripeSets(c, WhoIs(req[t].row))
  /\ Become(t, [op |-> "created", row |-> req[t].row, new |-> c])
  /\ UNCHANGED <<users, nextUser, jobs, welcomed>>

\* An administrator's create goes on to generate_reset_password_token!, a save.
Committed(t, row) ==
  /\ users' = users \cup {row}
  /\ nextUser' = nextUser + 1
  /\ Become(t, IF row.byAdmin
                 THEN [op |-> "save", row |-> row, who |-> WhoIs(row), validate |-> TRUE]
                 ELSE Idle)
  /\ UNCHANGED <<jobs, welcomed>>

\* Mutant: create_stripe_customer is an after_commit callback.
FinishCreateEarly(t) ==
  /\ InTransaction(t) /\ req[t].op # "updating"
  /\ Committed(t, req[t].row)
  /\ UNCHANGED stripe

\* update(stripe_customer_id:) validates; what it returns is not looked at.
\* When it saves, update_stripe_customer repeats name and e-mail to Stripe.
FinishCreate(t) ==
  /\ req[t].op = "created"
  /\ LET row == req[t].row
         c == req[t].new
     IN  IF Valid(row.id, row)
           THEN /\ Live(c)
                /\ StripeSets(c, WhoIs(row))
                /\ Committed(t, [row EXCEPT !.customer = c])
           ELSE /\ Committed(t, row)
                /\ UNCHANGED stripe
----------------------------------------------------------------------------
(* User, updated: UPDATE of what differs from the row as it was loaded,    *)
(* then update_stripe_customer, then COMMIT.                               *)

EditUser(t, r, who) ==
  /\ req[t] = Idle
  /\ Become(t, [op |-> "save", row |-> r, who |-> who, validate |-> TRUE])
  /\ UNCHANGED <<users, nextUser, jobs, welcomed, stripe>>

\* Stripe raises for a customer it does not have.  Without a change there is
\* no UPDATE, but the callback runs.
SaveUser(t) ==
  /\ req[t].op = "save"
  /\ LET row == req[t].row
         who == req[t].who
     IN  /\ req[t].validate => Valid(row.id, who)
         /\ row.customer # None /\ Live(row.customer)
         /\ StripeSets(row.customer, who)
         /\ IF who = WhoIs(row)
              THEN Become(t, Idle)
              ELSE /\ Free
                   /\ IndexAllows(row.id, who.name)
                   /\ Become(t, [op |-> "updating", row |-> row, who |-> who])
  /\ UNCHANGED <<users, nextUser, jobs, welcomed>>

Updated(r, loaded, who) ==
  [r EXCEPT !.name  = IF who.name # loaded.name THEN who.name ELSE @,
            !.email = IF who.email # loaded.email THEN who.email ELSE @]

CommitUpdate(t) ==
  /\ req[t].op = "updating"
  /\ users' = {IF r.id = req[t].row.id THEN Updated(r, req[t].row, req[t].who) ELSE r :
                 r \in users}
  /\ Become(t, Idle)
  /\ UNCHANGED <<nextUser, jobs, welcomed, stripe>>
----------------------------------------------------------------------------
(* User, destroyed.  delete_stripe_customer rescues Stripe's refusal of a  *)
(* customer it does not have.                                              *)

DestroyUser(r) ==
  /\ Free
  /\ users' = users \ {r}
  /\ IF r.customer # None /\ Live(r.customer)
       THEN StripeRemoves(r.customer) ELSE UNCHANGED stripe
  /\ UNCHANGED <<nextUser, req, jobs, welcomed>>

\* The webhook customer.deleted: User.find_by(...)&.destroy
CustomerDeleted(e, r) ==
  /\ e.type = "customer.deleted"
  /\ r.customer = e.id
  /\ DestroyUser(r)
----------------------------------------------------------------------------
(* The webhooks customer.created and customer.updated.                     *)

\* A deleted customer has no name to read: NoMethodError.
RetrieveCustomer(t, e) ==
  /\ req[t] = Idle
  /\ e.type = "customer"
  /\ Live(e.id)
  /\ Become(t, [op |-> "retrieved", customer |-> e.id, who |-> customers[e.id]])
  /\ UNCHANGED <<users, nextUser, jobs, welcomed, stripe>>

\* Mutant: User.new for every event.
FindUserNever(t) ==
  /\ req[t].op = "retrieved"
  /\ Become(t, [req[t] EXCEPT !.op = "insert"])
  /\ UNCHANGED <<users, nextUser, jobs, welcomed, stripe>>

\* find_or_initialize_by: any one of the users with that customer, or a new one.
FindUser(t) ==
  /\ req[t].op = "retrieved"
  /\ LET found == {r \in users : r.customer = req[t].customer}
     IN  \/ /\ found = {}
            /\ Become(t, [req[t] EXCEPT !.op = "insert"])
         \/ \E r \in found :
              Become(t, [op |-> "save", row |-> r, who |-> req[t].who, validate |-> FALSE])
  /\ UNCHANGED <<users, nextUser, jobs, welcomed, stripe>>
----------------------------------------------------------------------------
(* MailerJob. *)

\* Mutant: sidekiq_options retry: false.
PerformWelcomeOnce(i) ==
  /\ i \in jobs
  /\ jobs' = jobs \ {i}
  /\ welcomed' = IF \E r \in users : r.id = i THEN welcomed \cup {i} ELSE welcomed
  /\ UNCHANGED <<users, nextUser, req, stripe>>

\* User.find raises as long as there is no such user, and the job is retried.
PerformWelcome(i) ==
  /\ i \in jobs
  /\ \E r \in users : r.id = i
  /\ jobs' = jobs \ {i}
  /\ welcomed' = welcomed \cup {i}
  /\ UNCHANGED <<users, nextUser, req, stripe>>

\* Sidekiq gives up after weeks of retries; no transaction is open that long.
DropWelcome(i) ==
  /\ i \in jobs
  /\ \A r \in users : r.id # i
  /\ \A t \in Threads : req[t].op \in {"creating", "created"} => req[t].row.id # i
  /\ jobs' = jobs \ {i}
  /\ UNCHANGED <<users, nextUser, req, welcomed, stripe>>
----------------------------------------------------------------------------
\* The request raises or its process dies: the transaction is rolled back
\* (an invalid record, a taken username, a busy database, an error of Stripe).
Abort(t) ==
  /\ req[t] # Idle
  /\ Become(t, Idle)
  /\ UNCHANGED <<users, nextUser, jobs, welcomed, stripe>>

AtStripe ==
  \E c \in Customers :
    \/ \E who \in Who : StripeCreatesCustomer(c, who) \/ StripeEditsCustomer(c, who)
    \/ StripeDeletesCustomer(c)

Create(t) ==
  \/ \E who \in Who, byAdmin \in BOOLEAN : Register(t, who, byAdmin)
  \/ InsertUser(t)
  \/ \E c \in Customers : CreateStripeCustomer(t, c)
  \/ FinishCreate(t)

Update(t) ==
  \/ \E r \in users, who \in Who : EditUser(t, r, who)
  \/ SaveUser(t)
  \/ CommitUpdate(t)

Webhook(t) ==
  \/ \E e \in sent : RetrieveCustomer(t, e)
  \/ FindUser(t)

Sidekiq == \E i \in Ids : PerformWelcome(i) \/ DropWelcome(i)

Step ==
  \/ AtStripe
  \/ \E t \in Threads : Create(t) \/ Update(t) \/ Webhook(t) \/ Abort(t)
  \/ \E r \in users : DestroyUser(r)
  \/ \E e \in sent, r \in users : CustomerDeleted(e, r)
  \/ Sidekiq

\* No two threads are in the middle of a request.
Apart == \A s, t \in Threads : req[s] # Idle /\ req[t] # Idle => s = t

Next == Step /\ overlapped' = (overlapped \/ ~ Apart')

Spec == Init /\ [][Next]_<<vars, overlapped>>

\* Sidekiq tries a job again and again.
FairSpec == Spec /\ \A i \in Ids : WF_vars(PerformWelcome(i))
----------------------------------------------------------------------------
(* Properties. *)

\* Every user has a Stripe customer, which SubscriptionsController#create
\* takes for granted: create_stripe_customer either stores one or takes the
\* whole registration down with it, since nothing can make the record
\* invalid between its INSERT and its update.
EveryUserIsCustomer == \A r \in users : r.customer # None

\* find_or_initialize_by keeps two users from sharing a customer, as long as
\* requests do not overlap.
OneUserPerCustomer ==
  ~ overlapped => \A r, s \in users : r.customer = s.customer => r = s

\* A user who was not created by an administrator is sent the welcome e-mail
\* sooner or later, although its job is enqueued before the row is committed
\* and may run before that.
WelcomeArrives ==
  \A i \in Ids :
    (\E r \in users : r.id = i /\ ~ r.byAdmin)
      ~> (i \in welcomed \/ \A r \in users : r.id # i)

\* Violated.  "Skip password validation and welcome email if the user is being
\* created by an admin" (UsersController#create).
NoWelcomeByAdmin == \A r \in users : r.byAdmin => r.id \notin welcomed

\* Violated.  'is not valid with a duplicate username and email' (user_spec.rb).
EmailsUnique == \A r, s \in users : r.email = s.email => r = s
=============================================================================
