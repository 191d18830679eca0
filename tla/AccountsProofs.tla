--------------------------- MODULE AccountsProofs ---------------------------
(***************************************************************************)
(* Accounts: proof that every user has a Stripe customer, and that no two  *)
(* share one as long as requests do not overlap.  PostQuota: proof that    *)
(* what a user's plan allows is overshot by less than the number of        *)
(* threads.  The two components share nothing; each has its part.          *)
(*                                                                         *)
(* A row without a customer exists only inside the transaction that        *)
(* creates it.  It was valid when it was inserted; from then on its        *)
(* transaction holds the write lock, so no other row can appear or change  *)
(* and it is still valid when the customer's id is to be stored.           *)
(***************************************************************************)
EXTENDS Accounts, PostQuota, TLAPS, FiniteSetTheorems

\* The write lock has one holder.
OneWriter ==
  \A s, t \in Threads : InTransaction(s) /\ InTransaction(t) => s = t

Creating(t) == req[t].op \in {"creating", "created"}

\* A row being created without a customer is valid, and not in the table yet.
PendingValid ==
  \A t \in Threads : Creating(t) =>
    /\ req[t].row.id = nextUser
    /\ req[t].row.customer = None => Valid(req[t].row.id, req[t].row)

AccountsInv ==
  /\ Typed
  /\ OneWriter
  /\ PendingValid
  /\ EveryUserIsCustomer

LEMMA RequestFields ==
  ASSUME NEW r \in Request
  PROVE  /\ r.op \in {"idle", "retrieved", "insert", "save", "creating", "created", "updating"}
         /\ r.op \in {"retrieved", "insert"} => r.customer \in Customers /\ r.who \in Who
         /\ r.op \in {"save", "creating", "created", "updating"} => r.row \in UserRow
         /\ r.op \in {"save", "updating"} => r.who \in Who
         /\ r.op = "save" => r.validate \in BOOLEAN
         /\ r.op = "created" => r.new \in Customers
BY Zenon DEF Request

LEMMA IdleRequest == Idle \in Request /\ Idle.op = "idle"
BY Zenon DEF Idle, Request

LEMMA WhoIsType ==
  ASSUME NEW row \in UserRow
  PROVE  WhoIs(row) \in Who
BY Zenon DEF WhoIs, UserRow, Who

LEMMA StripeSetsType ==
  ASSUME Typed, NEW c \in Customers, NEW who \in Who, StripeSets(c, who)
  PROVE  customers' \in [Customers -> Who \cup {None}] /\ sent' \subseteq Event
BY DEF Typed, StripeSets, Event

LEMMA StripeRemovesType ==
  ASSUME Typed, NEW c \in Customers, StripeRemoves(c)
  PROVE  customers' \in [Customers -> Who \cup {None}] /\ sent' \subseteq Event
BY DEF Typed, StripeRemoves, Event

\* Steps that leave the table alone and open no transaction.
LEMMA MoveKeepsInv ==
  ASSUME AccountsInv, Typed', UNCHANGED <<users, nextUser>>,
         \A t \in Threads : \/ req'[t] = req[t]
                            \/ ~ (req'[t].op \in {"creating", "created", "updating"})
  PROVE  AccountsInv'
<1>1. OneWriter'
  BY Zenon DEF AccountsInv, OneWriter, InTransaction
<1>2. PendingValid'
  BY ZenonT(60) DEF AccountsInv, PendingValid, Creating, Valid
<1>3. EveryUserIsCustomer'
  BY Zenon DEF AccountsInv, EveryUserIsCustomer
<1> QED  BY <1>1, <1>2, <1>3, Zenon DEF AccountsInv

\* Steps by which a thread takes the lock, or goes on holding it.
LEMMA HoldKeepsInv ==
  ASSUME AccountsInv, Typed', UNCHANGED <<users, nextUser>>,
         NEW t \in Threads, NEW r \in Request, req' = [req EXCEPT ![t] = r],
         Free \/ InTransaction(t),
         r.op \in {"creating", "created"} =>
           /\ r.row.id = nextUser
           /\ r.row.customer = None => Valid(r.row.id, r.row)
  PROVE  AccountsInv'
<1>1. OneWriter'
  BY Zenon DEF AccountsInv, Typed, OneWriter, InTransaction, Free
<1>2. PendingValid'
  BY ZenonT(60) DEF AccountsInv, Typed, PendingValid, Creating, Valid
<1>3. EveryUserIsCustomer'
  BY Zenon DEF AccountsInv, EveryUserIsCustomer
<1> QED  BY <1>1, <1>2, <1>3, Zenon DEF AccountsInv

\* Steps that write the table and leave nobody in a transaction.
LEMMA WriteKeepsInv ==
  ASSUME AccountsInv, Typed', EveryUserIsCustomer',
         \A t \in Threads : ~ (req'[t].op \in {"creating", "created", "updating"})
  PROVE  AccountsInv'
BY Zenon DEF AccountsInv, OneWriter, PendingValid, Creating, InTransaction
----------------------------------------------------------------------------
LEMMA StripeKeepsInv ==
  ASSUME AccountsInv, AtStripe
  PROVE  AccountsInv'
<1> USE DEF AccountsInv
<1>1. UNCHANGED <<users, nextUser, req, jobs, welcomed>>
  BY Zenon DEF AtStripe, StripeCreatesCustomer, StripeEditsCustomer, StripeDeletesCustomer
<1>2. customers' \in [Customers -> Who \cup {None}] /\ sent' \subseteq Event
  BY StripeSetsType, StripeRemovesType, Zenon
  DEF AtStripe, StripeCreatesCustomer, StripeEditsCustomer, StripeDeletesCustomer
<1>3. Typed'
  BY <1>1, <1>2, Zenon DEF Typed
<1> QED  BY <1>1, <1>3, MoveKeepsInv, Zenon

LEMMA RegisterKeepsInv ==
  ASSUME AccountsInv, NEW t \in Threads, NEW who \in Who, NEW b \in BOOLEAN,
         Register(t, who, b)
  PROVE  AccountsInv'
<1> DEFINE row == NewRow(who, None, b)
           r == [op |-> "creating", row |-> row]
<1>1. row \in UserRow /\ nextUser \in Ids
  BY AccountsAssumption DEF AccountsInv, Typed, Register, NewRow, UserRow, Who, Ids
<1>2. row.id = nextUser /\ row.name = who.name /\ row.email = who.email
  BY Zenon DEF NewRow
<1> HIDE DEF row
<1>3. r \in Request /\ req' = [req EXCEPT ![t] = r]
  BY <1>1, Zenon DEF Register, Become, Request, row
<1>4. Typed'
  BY <1>1, <1>3, Zenon DEF AccountsInv, Typed, Register, stripe
<1>5. Valid(row.id, row)
  BY <1>2, Zenon DEF Register, Valid
<1> QED  BY <1>2, <1>3, <1>4, <1>5, HoldKeepsInv, Zenon DEF Register

LEMMA InsertUserKeepsInv ==
  ASSUME AccountsInv, NEW t \in Threads, InsertUser(t)
  PROVE  AccountsInv'
<1> DEFINE row == NewRow(req[t].who, req[t].customer, FALSE)
           r == [op |-> "creating", row |-> row]
<1>0. req[t].who \in Who /\ req[t].customer \in Customers
  BY RequestFields, Zenon DEF AccountsInv, Typed, InsertUser
<1>1. row \in UserRow /\ nextUser \in Ids
  BY <1>0, AccountsAssumption
  DEF AccountsInv, Typed, InsertUser, NewRow, UserRow, Who, Ids
<1>2. row.id = nextUser /\ row.customer # None
  BY <1>0, AccountsAssumption, Zenon DEF NewRow
<1> HIDE DEF row
<1>3. r \in Request /\ req' = [req EXCEPT ![t] = r]
  BY <1>1, Zenon DEF InsertUser, Become, Request, row
<1>4. Typed'
  BY <1>1, <1>3, Zenon DEF AccountsInv, Typed, InsertUser, stripe
<1> QED  BY <1>2, <1>3, <1>4, HoldKeepsInv, Zenon DEF InsertUser

LEMMA CreateStripeCustomerKeepsInv ==
  ASSUME AccountsInv, NEW t \in Threads, NEW c \in Customers, CreateStripeCustomer(t, c)
  PROVE  AccountsInv'
<1> DEFINE r == [op |-> "created", row |-> req[t].row, new |-> c]
<1>1. req[t].row \in UserRow
  BY RequestFields, Zenon DEF AccountsInv, Typed, CreateStripeCustomer
<1>2. r \in Request /\ req' = [req EXCEPT ![t] = r]
  BY <1>1, Zenon DEF CreateStripeCustomer, Become, Request
<1>3. Typed'
  <2>1. customers' \in [Customers -> Who \cup {None}] /\ sent' \subseteq Event
    BY <1>1, WhoIsType, StripeSetsType, Zenon DEF AccountsInv, CreateStripeCustomer
  <2> QED  BY <1>2, <2>1, Zenon DEF AccountsInv, Typed, CreateStripeCustomer
<1>4. /\ req[t].row.id = nextUser
      /\ req[t].row.customer = None => Valid(req[t].row.id, req[t].row)
  BY Zenon DEF AccountsInv, PendingValid, Creating, CreateStripeCustomer
<1> QED  BY <1>2, <1>3, <1>4, HoldKeepsInv, Zenon DEF CreateStripeCustomer, InTransaction

LEMMA FinishCreateKeepsInv ==
  ASSUME AccountsInv, NEW t \in Threads, FinishCreate(t)
  PROVE  AccountsInv'
<1> DEFINE row == req[t].row
           c == req[t].new
<1>1. row \in UserRow /\ c \in Customers /\ InTransaction(t)
  BY RequestFields, Zenon DEF AccountsInv, Typed, FinishCreate, InTransaction
<1>2. row.customer = None => Valid(row.id, row)
  BY Zenon DEF AccountsInv, PendingValid, Creating, FinishCreate
<1>3. row.id = nextUser
  BY Zenon DEF AccountsInv, PendingValid, Creating, FinishCreate
<1>4. customers' \in [Customers -> Who \cup {None}] /\ sent' \subseteq Event
  BY <1>1, WhoIsType, StripeSetsType, Zenon DEF AccountsInv, FinishCreate, Typed, stripe
<1>5. PICK final \in UserRow : Committed(t, final) /\ final.customer # None /\ final.id = row.id
  <2>1. CASE Valid(row.id, row)
    <3> DEFINE f == [row EXCEPT !.customer = c]
    <3>1. f \in UserRow /\ f.customer # None /\ f.id = row.id
      BY <1>1, AccountsAssumption, Zenon DEF UserRow
    <3> QED  BY <2>1, <3>1, Zenon DEF FinishCreate
  <2>2. CASE ~ Valid(row.id, row)
    BY <1>1, <1>2, <2>2, Zenon DEF FinishCreate
  <2> QED  BY <2>1, <2>2, Zenon
<1>6. users' = users \cup {final} /\ nextUser' = nextUser + 1 /\ UNCHANGED <<jobs, welcomed>>
  BY <1>5, Zenon DEF Committed
<1>7. PICK r \in Request : /\ req' = [req EXCEPT ![t] = r]
                           /\ ~ (r.op \in {"creating", "created", "updating"})
  <2> DEFINE s == [op |-> "save", row |-> final, who |-> WhoIs(final), validate |-> TRUE]
  <2>1. s \in Request /\ s.op = "save"
    BY WhoIsType, Zenon DEF Request
  <2>2. req' = [req EXCEPT ![t] = IF final.byAdmin THEN s ELSE Idle]
    BY <1>5, Zenon DEF Committed, Become
  <2> HIDE DEF s
  <2> QED  BY <2>1, <2>2, IdleRequest, Zenon
<1>8. nextUser' \in 1..(MaxUsers + 1)
  BY <1>1, <1>3, <1>6, AccountsAssumption DEF UserRow, Ids
<1>9. Typed'
  BY <1>4, <1>6, <1>7, <1>8, Zenon DEF AccountsInv, Typed
<1>10. EveryUserIsCustomer'
  BY <1>5, <1>6, Zenon DEF AccountsInv, EveryUserIsCustomer
<1>11. \A s \in Threads : ~ (req'[s].op \in {"creating", "created", "updating"})
  BY <1>1, <1>7, Zenon DEF AccountsInv, Typed, OneWriter, InTransaction
<1> QED  BY <1>9, <1>10, <1>11, WriteKeepsInv, Zenon
----------------------------------------------------------------------------
LEMMA SaveUserKeepsInv ==
  ASSUME AccountsInv, NEW t \in Threads, SaveUser(t)
  PROVE  AccountsInv'
<1> DEFINE row == req[t].row
           who == req[t].who
           r == [op |-> "updating", row |-> row, who |-> who]
<1>1. row \in UserRow /\ who \in Who
  BY RequestFields, Zenon DEF AccountsInv, Typed, SaveUser
<1>2. row.customer \in Customers
  BY <1>1, Zenon DEF SaveUser, UserRow
<1>3. customers' \in [Customers -> Who \cup {None}] /\ sent' \subseteq Event
  BY <1>1, <1>2, StripeSetsType, Zenon DEF AccountsInv, SaveUser
<1>4. UNCHANGED <<users, nextUser, jobs, welcomed>>
  BY Zenon DEF SaveUser
<1>5. CASE who = WhoIs(row)
  <2>1. req' = [req EXCEPT ![t] = Idle]
    BY <1>5, Zenon DEF SaveUser, Become
  <2>2. Typed'
    BY <1>3, <1>4, <2>1, IdleRequest, Zenon DEF AccountsInv, Typed
  <2> QED  BY <1>4, <2>1, <2>2, IdleRequest, MoveKeepsInv, Zenon DEF AccountsInv, Typed
<1>6. CASE who # WhoIs(row)
  <2>1. req' = [req EXCEPT ![t] = r] /\ Free
    BY <1>6, Zenon DEF SaveUser, Become
  <2>2. r \in Request /\ r.op = "updating"
    BY <1>1, Zenon DEF Request
  <2> HIDE DEF r
  <2>3. Typed'
    BY <1>3, <1>4, <2>1, <2>2, Zenon DEF AccountsInv, Typed
  <2> QED  BY <1>4, <2>1, <2>2, <2>3, HoldKeepsInv, Zenon
<1> QED  BY <1>5, <1>6, Zenon

LEMMA CommitUpdateKeepsInv ==
  ASSUME AccountsInv, NEW t \in Threads, CommitUpdate(t)
  PROVE  AccountsInv'
<1> DEFINE loaded == req[t].row
           who == req[t].who
<1>1. loaded \in UserRow /\ who \in Who /\ InTransaction(t)
  BY RequestFields, Zenon DEF AccountsInv, Typed, CommitUpdate, InTransaction
<1>2. \A r \in UserRow : /\ Updated(r, loaded, who) \in UserRow
                         /\ Updated(r, loaded, who).customer = r.customer
  BY <1>1, ZenonT(60) DEF Updated, UserRow, Who
<1>3. /\ users' = {IF r.id = loaded.id THEN Updated(r, loaded, who) ELSE r : r \in users}
      /\ req' = [req EXCEPT ![t] = Idle]
      /\ UNCHANGED <<nextUser, jobs, welcomed, customers, sent>>
  BY Zenon DEF CommitUpdate, Become, stripe
<1> HIDE DEF loaded, who
<1>4. Typed'
  BY <1>2, <1>3, IdleRequest, Zenon DEF AccountsInv, Typed
<1>5. EveryUserIsCustomer'
  BY <1>2, <1>3, ZenonT(60) DEF AccountsInv, Typed, EveryUserIsCustomer
<1>6. \A s \in Threads : ~ (req'[s].op \in {"creating", "created", "updating"})
  BY <1>1, <1>3, IdleRequest, Zenon DEF AccountsInv, Typed, OneWriter, InTransaction
<1> QED  BY <1>4, <1>5, <1>6, WriteKeepsInv, Zenon

LEMMA DestroyUserKeepsInv ==
  ASSUME AccountsInv, NEW r \in users, DestroyUser(r)
  PROVE  AccountsInv'
<1>1. r \in UserRow /\ (r.customer # None => r.customer \in Customers)
  BY Zenon DEF AccountsInv, Typed, UserRow
<1>2. customers' \in [Customers -> Who \cup {None}] /\ sent' \subseteq Event
  BY <1>1, StripeRemovesType, Zenon DEF AccountsInv, DestroyUser, Typed, stripe
<1>3. Typed'
  BY <1>2, Zenon DEF AccountsInv, Typed, DestroyUser
<1>4. EveryUserIsCustomer'
  BY Zenon DEF AccountsInv, EveryUserIsCustomer, DestroyUser
<1>5. \A s \in Threads : ~ (req'[s].op \in {"creating", "created", "updating"})
  BY Zenon DEF DestroyUser, Free, InTransaction
<1> QED  BY <1>3, <1>4, <1>5, WriteKeepsInv, Zenon

\* The requests that only read, and those that end.
LEMMA ReadKeepsInv ==
  ASSUME AccountsInv, NEW t \in Threads, NEW r \in Request, req' = [req EXCEPT ![t] = r],
         ~ (r.op \in {"creating", "created", "updating"}),
         UNCHANGED <<users, nextUser, jobs, welcomed, customers, sent>>
  PROVE  AccountsInv'
<1>1. Typed'
  BY Zenon DEF AccountsInv, Typed
<1> QED  BY <1>1, MoveKeepsInv, Zenon DEF AccountsInv, Typed

LEMMA WebhookKeepsInv ==
  ASSUME AccountsInv, NEW t \in Threads, Webhook(t)
  PROVE  AccountsInv'
<1>1. ASSUME NEW e \in sent, RetrieveCustomer(t, e) PROVE AccountsInv'
  <2> DEFINE r == [op |-> "retrieved", customer |-> e.id, who |-> customers[e.id]]
  <2>1. e.id \in Customers /\ customers[e.id] \in Who
    BY <1>1, Zenon DEF AccountsInv, Typed, Event, RetrieveCustomer, Live
  <2>2. r \in Request /\ r.op = "retrieved"
    BY <2>1, Zenon DEF Request
  <2> QED  BY <1>1, <2>2, ReadKeepsInv, Zenon DEF RetrieveCustomer, Become, stripe
<1>2. ASSUME FindUser(t) PROVE AccountsInv'
  <2>1. req[t].customer \in Customers /\ req[t].who \in Who
    BY <1>2, RequestFields, Zenon DEF AccountsInv, Typed, FindUser
  <2>2. CASE Become(t, [req[t] EXCEPT !.op = "insert"])
    <3> DEFINE r == [req[t] EXCEPT !.op = "insert"]
    <3>1. r \in Request /\ r.op = "insert"
      BY <1>2, ZenonT(60) DEF AccountsInv, Typed, FindUser, Request
    <3> QED  BY <1>2, <2>2, <3>1, ReadKeepsInv, Zenon DEF FindUser, Become, stripe
  <2>3. ASSUME NEW u \in users,
               Become(t, [op |-> "save", row |-> u, who |-> req[t].who, validate |-> FALSE])
        PROVE  AccountsInv'
    <3> DEFINE r == [op |-> "save", row |-> u, who |-> req[t].who, validate |-> FALSE]
    <3>1. r \in Request /\ r.op = "save"
      BY <2>1, Zenon DEF AccountsInv, Typed, Request
    <3> QED  BY <1>2, <2>3, <3>1, ReadKeepsInv, Zenon DEF FindUser, Become, stripe
  <2> QED  BY <1>2, <2>2, <2>3, Zenon DEF FindUser
<1> QED  BY <1>1, <1>2, Zenon DEF Webhook

LEMMA SidekiqKeepsInv ==
  ASSUME AccountsInv, Sidekiq
  PROVE  AccountsInv'
<1>1. UNCHANGED <<users, nextUser, req, customers, sent>>
  BY Zenon DEF Sidekiq, PerformWelcome, DropWelcome, stripe
<1>2. jobs' \subseteq Ids /\ welcomed' \subseteq Ids
  BY Zenon DEF Sidekiq, PerformWelcome, DropWelcome, AccountsInv, Typed
<1>3. Typed'
  BY <1>1, <1>2, Zenon DEF AccountsInv, Typed
<1> QED  BY <1>1, <1>3, MoveKeepsInv, Zenon
----------------------------------------------------------------------------
LEMMA InitInv == Init => AccountsInv
BY IdleRequest, AccountsAssumption
DEF Init, AccountsInv, Typed, OneWriter, InTransaction, PendingValid, Creating,
    EveryUserIsCustomer

LEMMA NextKeepsInv == AccountsInv /\ [Step]_vars => AccountsInv'
<1> SUFFICES ASSUME AccountsInv, [Step]_vars PROVE AccountsInv'
  BY Zenon
<1>1. ASSUME NEW t \in Threads, Create(t) PROVE AccountsInv'
  BY <1>1, RegisterKeepsInv, InsertUserKeepsInv, CreateStripeCustomerKeepsInv,
     FinishCreateKeepsInv, Zenon DEF Create
<1>2. ASSUME NEW t \in Threads, Update(t) PROVE AccountsInv'
  <2>1. ASSUME NEW u \in users, NEW who \in Who, EditUser(t, u, who) PROVE AccountsInv'
    <3> DEFINE r == [op |-> "save", row |-> u, who |-> who, validate |-> TRUE]
    <3>1. r \in Request /\ r.op = "save"
      BY Zenon DEF AccountsInv, Typed, Request
    <3> QED  BY <2>1, <3>1, ReadKeepsInv, Zenon DEF EditUser, Become, stripe
  <2> QED  BY <1>2, <2>1, SaveUserKeepsInv, CommitUpdateKeepsInv, Zenon DEF Update
<1>3. ASSUME NEW t \in Threads, Abort(t) PROVE AccountsInv'
  BY <1>3, IdleRequest, ReadKeepsInv, Zenon DEF Abort, Become, stripe
<1>4. ASSUME NEW r \in users, DestroyUser(r) \/ \E e \in sent : CustomerDeleted(e, r)
      PROVE  AccountsInv'
  BY <1>4, DestroyUserKeepsInv, Zenon DEF CustomerDeleted
<1>5. CASE UNCHANGED vars
  BY <1>5, MoveKeepsInv, Zenon DEF vars, AccountsInv, Typed
<1> QED
  BY <1>1, <1>2, <1>3, <1>4, <1>5, StripeKeepsInv, WebhookKeepsInv, SidekiqKeepsInv, Zenon DEF Step

\* The inductive invariant behind the theorems below.
THEOREM AccountsInvariant == Spec => []AccountsInv
<1>1. Init => AccountsInv
  BY InitInv, Zenon
<1>2. AccountsInv /\ [Next]_<<vars, overlapped>> => AccountsInv'
  BY NextKeepsInv, Zenon DEF Next
<1> QED  BY <1>1, <1>2, PTL DEF Spec
----------------------------------------------------------------------------
(***************************************************************************)
(* Requests that do not overlap.  A customer that a request did not find   *)
(* among the users is still not there when its row is committed; and a     *)
(* customer that Stripe has just created is nobody's yet.                  *)
(***************************************************************************)

\* Stripe has emitted an event about the customer: its id will not be given again.
Known(c) == \E e \in sent : e.id = c

RequestKnown(r) ==
  /\ r.op \in {"retrieved", "insert"} => Known(r.customer)
  /\ r.op \in {"creating", "created"} /\ r.row.customer # None => Known(r.row.customer)
  /\ r.op = "created" => Known(r.new)

CustomersKnown ==
  /\ \A r \in users : Known(r.customer)
  /\ \A t \in Threads : RequestKnown(req[t])

Nobodys(c) == \A r \in users : r.customer # c

\* What a request is about to store belongs to nobody yet.
Unraced(r) ==
  /\ r.op = "insert" => Nobodys(r.customer)
  /\ r.op \in {"creating", "created"} /\ r.row.customer # None => Nobodys(r.row.customer)
  /\ r.op = "created" => Nobodys(r.new)

OneEach == \A r, s \in users : r.customer = s.customer => r = s

SerialCore == Apart /\ OneEach /\ \A t \in Threads : Unraced(req[t])

SerialInv ==
  /\ overlapped \in BOOLEAN
  /\ CustomersKnown
  /\ ~ overlapped => SerialCore

LEMMA KnownStays ==
  ASSUME sent \subseteq sent', NEW c, Known(c)
  PROVE  Known(c)'
BY Zenon DEF Known

LEMMA StripeKeepsEvents ==
  ASSUME NEW c, StripeRemoves(c) \/ \E who : StripeSets(c, who)
  PROVE  sent \subseteq sent'
BY Zenon DEF StripeRemoves, StripeSets

LEMMA NotIdle ==
  ASSUME NEW r, r.op # "idle"
  PROVE  r # Idle
BY DEF Idle

LEMMA IdleIsFree == RequestKnown(Idle) /\ RequestKnown(Idle)' /\ Unraced(Idle) /\ Unraced(Idle)'
BY Zenon DEF RequestKnown, Unraced, Idle

\* Steps that take no request further and take rows away at most.
LEMMA RemovalKeepsKnown ==
  ASSUME CustomersKnown, UNCHANGED req, users' \subseteq users, sent \subseteq sent'
  PROVE  CustomersKnown'
BY KnownStays, Zenon DEF CustomersKnown, RequestKnown

LEMMA RemovalKeepsCore ==
  ASSUME SerialCore, UNCHANGED req, users' \subseteq users
  PROVE  SerialCore'
BY Zenon DEF SerialCore, Apart, OneEach, Unraced, Nobodys

LEMMA ThreadKeepsKnown ==
  ASSUME AccountsInv, CustomersKnown, NEW t \in Threads, NEW r, req' = [req EXCEPT ![t] = r],
         sent \subseteq sent', RequestKnown(r)', \A x \in users' : Known(x.customer)'
  PROVE  CustomersKnown'
<1>1. req'[t] = r /\ \A s \in Threads : s # t => req'[s] = req[s]
  BY Zenon DEF AccountsInv, Typed
<1>2. ASSUME NEW s \in Threads PROVE RequestKnown(req[s])'
  <2>1. CASE s = t
    BY <1>1, <2>1, ZenonT(60) DEF RequestKnown, Known
  <2>2. CASE s # t
    BY <1>1, <2>2, KnownStays, Zenon DEF CustomersKnown, RequestKnown
  <2> QED  BY <2>1, <2>2, Zenon
<1> QED  BY <1>2, Zenon DEF CustomersKnown

LEMMA ThreadKeepsCore ==
  ASSUME AccountsInv, SerialCore, Apart', NEW t \in Threads, NEW r,
         req' = [req EXCEPT ![t] = r], req[t] # Idle \/ r # Idle, Unraced(r)', OneEach'
  PROVE  SerialCore'
<1>1. req'[t] = r /\ \A s \in Threads : s # t => req'[s] = Idle
  BY Zenon DEF AccountsInv, Typed, SerialCore, Apart
<1>2. \A s \in Threads : Unraced(req[s])'
  BY <1>1, IdleIsFree, ZenonT(60) DEF Unraced, Nobodys
<1> QED  BY <1>2, Zenon DEF SerialCore

\* The same for a step that leaves the table alone.
LEMMA ReadKeepsSerial ==
  ASSUME AccountsInv, CustomersKnown, NEW t \in Threads, NEW r, req' = [req EXCEPT ![t] = r],
         req[t] # Idle \/ r # Idle, UNCHANGED users, sent \subseteq sent', RequestKnown(r)',
         SerialCore /\ Apart' => Unraced(r)
  PROVE  CustomersKnown' /\ (SerialCore /\ Apart' => SerialCore')
<1>1. \A x \in users' : Known(x.customer)'
  BY KnownStays, Zenon DEF CustomersKnown
<1>2. CustomersKnown'
  BY <1>1, ThreadKeepsKnown, Zenon
<1>3. ASSUME SerialCore, Apart' PROVE SerialCore'
  <2>1. Unraced(r)'
    BY <1>3, Zenon DEF Unraced, Nobodys
  <2>2. OneEach'
    BY <1>3, Zenon DEF SerialCore, OneEach
  <2> QED  BY <1>3, <2>1, <2>2, ThreadKeepsCore, Zenon
<1> QED  BY <1>2, <1>3, Zenon

\* What each kind of step keeps, the history variable aside.
KeepsSerial == CustomersKnown' /\ (SerialCore /\ Apart' => SerialCore')

LEMMA CreateKeepsSerial ==
  ASSUME AccountsInv, CustomersKnown, NEW t \in Threads, Create(t)
  PROVE  KeepsSerial
<1> USE DEF KeepsSerial
<1>0. req[t] \in Request
  BY Zenon DEF AccountsInv, Typed
<1>1. ASSUME NEW who \in Who, NEW b \in BOOLEAN, Register(t, who, b) PROVE KeepsSerial
  <2>0. PICK r : r = [op |-> "creating", row |-> NewRow(who, None, b)]
    BY Zenon
  <2>1. r.op = "creating" /\ r.row.customer = None
    BY <2>0, Zenon DEF NewRow
  <2>2. req' = [req EXCEPT ![t] = r] /\ UNCHANGED <<users, sent>>
    BY <1>1, <2>0, Zenon DEF Register, Become, stripe
  <2>3. RequestKnown(r)' /\ Unraced(r) /\ r # Idle
    BY <2>1, NotIdle, Zenon DEF RequestKnown, Unraced
  <2> QED  BY <2>2, <2>3, ReadKeepsSerial, Zenon
<1>2. ASSUME InsertUser(t) PROVE KeepsSerial
  <2>0. PICK r : r = [op |-> "creating", row |-> NewRow(req[t].who, req[t].customer, FALSE)]
    BY Zenon
  <2>1. r.op = "creating" /\ r.row.customer = req[t].customer
    BY <2>0, Zenon DEF NewRow
  <2>2. req' = [req EXCEPT ![t] = r] /\ UNCHANGED <<users, sent>> /\ req[t].op = "insert"
    BY <1>2, <2>0, Zenon DEF InsertUser, Become, stripe
  <2>3. RequestKnown(r)' /\ (SerialCore => Unraced(r)) /\ r # Idle
    BY <2>1, <2>2, NotIdle, ZenonT(60) DEF RequestKnown, Unraced, CustomersKnown, SerialCore, Known
  <2> QED  BY <2>2, <2>3, ReadKeepsSerial, Zenon
<1>3. ASSUME NEW c \in Customers, CreateStripeCustomer(t, c) PROVE KeepsSerial
  <2>0. PICK r : r = [op |-> "created", row |-> req[t].row, new |-> c]
    BY ZenonT(60)
  <2>1. r.op = "created" /\ r.row = req[t].row /\ r.new = c
    BY <2>0, Zenon
  <2>2. req' = [req EXCEPT ![t] = r] /\ UNCHANGED users /\ req[t].op = "creating"
    BY <1>3, <2>0, Zenon DEF CreateStripeCustomer, Become
  <2>3. WhoIs(req[t].row) # None
    BY <1>0, <2>2, RequestFields, WhoIsType, AccountsAssumption DEF Who
  <2>4. sent \subseteq sent' /\ Known(c)'
    <3>1. sent' = sent \cup {[type |-> "customer", id |-> c]}
      BY <1>3, <2>3, Zenon DEF CreateStripeCustomer, StripeSets, Unused, Live
    <3>2. [type |-> "customer", id |-> c] \in sent' /\ [type |-> "customer", id |-> c].id = c
      BY <3>1, Zenon
    <3> QED  BY <3>1, <3>2, ZenonT(60) DEF Known
  <2>5. Nobodys(c)
    BY <1>3, Zenon DEF CreateStripeCustomer, Unused, Nobodys, CustomersKnown, Known
  <2>6. RequestKnown(r)'
    BY <2>1, <2>2, <2>4, KnownStays, Zenon DEF RequestKnown, CustomersKnown
  <2>7. (SerialCore => Unraced(r)) /\ r # Idle
    BY <2>1, <2>2, <2>5, NotIdle, Zenon DEF Unraced, SerialCore
  <2> QED  BY <2>2, <2>4, <2>6, <2>7, ReadKeepsSerial, Zenon
<1>4. ASSUME FinishCreate(t) PROVE KeepsSerial
  <2>0. PICK row, c : row = req[t].row /\ c = req[t].new
    BY Zenon
  <2>1. row \in UserRow /\ c \in Customers /\ req[t].op = "created"
    BY <1>0, <1>4, <2>0, RequestFields, Zenon DEF FinishCreate
  <2>2. row.customer = None => Valid(row.id, row)
    BY <2>0, <2>1, Zenon DEF AccountsInv, PendingValid, Creating
  <2>3. sent \subseteq sent'
    BY <1>4, StripeKeepsEvents, Zenon DEF FinishCreate, stripe
  <2>4. Known(c)' /\ (row.customer # None => Known(row.customer)')
    BY <2>0, <2>1, <2>3, KnownStays, Zenon DEF CustomersKnown, RequestKnown
  <2>5. SerialCore => Nobodys(c) /\ (row.customer # None => Nobodys(row.customer))
    BY <2>0, <2>1, Zenon DEF SerialCore, Unraced
  <2>6. PICK final : /\ Committed(t, final)
                     /\ Known(final.customer)'
                     /\ SerialCore => Nobodys(final.customer)
    <3>1. CASE Valid(row.id, row)
      <4>1. [row EXCEPT !.customer = c].customer = c
        BY <2>1, Zenon DEF UserRow
      <4>2. Committed(t, [row EXCEPT !.customer = c])
        BY <1>4, <2>0, <3>1, Zenon DEF FinishCreate
      <4> QED  BY <2>4, <2>5, <4>1, <4>2, Zenon
    <3>2. CASE ~ Valid(row.id, row)
      BY <1>4, <2>0, <2>2, <2>4, <2>5, <3>2, Zenon DEF FinishCreate
    <3> QED  BY <3>1, <3>2, Zenon
  <2>7. users' = users \cup {final}
    BY <2>6, Zenon DEF Committed
  <2>8. PICK r : req' = [req EXCEPT ![t] = r] /\ r.op \in {"save", "idle"}
    <3>1. CASE final.byAdmin
      <4> DEFINE s == [op |-> "save", row |-> final, who |-> WhoIs(final), validate |-> TRUE]
      <4>1. s.op = "save" /\ req' = [req EXCEPT ![t] = s]
        BY <2>6, <3>1, Zenon DEF Committed, Become
      <4> QED  BY <4>1, Zenon
    <3>2. CASE ~ final.byAdmin
      BY <2>6, <3>2, IdleRequest, Zenon DEF Committed, Become
    <3> QED  BY <3>1, <3>2, Zenon
  <2>9. RequestKnown(r)' /\ Unraced(r)'
    BY <2>8, Zenon DEF RequestKnown, Unraced
  <2>10. \A x \in users' : Known(x.customer)'
    BY <2>3, <2>6, <2>7, KnownStays, Zenon DEF CustomersKnown
  <2>11. SerialCore => OneEach'
    BY <2>6, <2>7, Zenon DEF SerialCore, OneEach, Nobodys
  <2>12. CustomersKnown'
    BY <2>3, <2>8, <2>9, <2>10, ThreadKeepsKnown, Zenon
  <2>13. req[t] # Idle
    BY <2>1, NotIdle, Zenon
  <2> QED  BY <2>8, <2>9, <2>11, <2>12, <2>13, ThreadKeepsCore, Zenon
<1> QED  BY <1>1, <1>2, <1>3, <1>4, Zenon DEF Create

LEMMA UpdateKeepsSerial ==
  ASSUME AccountsInv, CustomersKnown, NEW t \in Threads, Update(t)
  PROVE  KeepsSerial
<1> USE DEF KeepsSerial
<1>1. ASSUME NEW u \in users, NEW who \in Who, EditUser(t, u, who) PROVE KeepsSerial
  <2>0. PICK r : r = [op |-> "save", row |-> u, who |-> who, validate |-> TRUE]
    BY Zenon
  <2>1. r.op = "save"
    BY <2>0, Zenon
  <2>2. req' = [req EXCEPT ![t] = r] /\ UNCHANGED <<users, sent>>
    BY <1>1, <2>0, Zenon DEF EditUser, Become, stripe
  <2>3. RequestKnown(r)' /\ Unraced(r) /\ r # Idle
    BY <2>1, NotIdle, Zenon DEF RequestKnown, Unraced
  <2> QED  BY <2>2, <2>3, ReadKeepsSerial, Zenon
<1>2. ASSUME SaveUser(t) PROVE KeepsSerial
  <2>1. PICK r : req' = [req EXCEPT ![t] = r] /\ r.op \in {"updating", "idle"}
    <3> DEFINE s == [op |-> "updating", row |-> req[t].row, who |-> req[t].who]
    <3>1. s.op = "updating"
      BY Zenon
    <3>2. req' = [req EXCEPT ![t] = s] \/ req' = [req EXCEPT ![t] = Idle]
      BY <1>2, Zenon DEF SaveUser, Become
    <3> HIDE DEF s
    <3> QED  BY <3>1, <3>2, IdleRequest, Zenon
  <2>2. UNCHANGED users /\ req[t].op = "save" /\ sent \subseteq sent'
    BY <1>2, StripeKeepsEvents, Zenon DEF SaveUser
  <2>3. RequestKnown(r)' /\ Unraced(r) /\ req[t] # Idle
    BY <2>1, <2>2, NotIdle, Zenon DEF RequestKnown, Unraced
  <2> QED  BY <2>1, <2>2, <2>3, ReadKeepsSerial, Zenon
<1>3. ASSUME CommitUpdate(t) PROVE KeepsSerial
  <2> DEFINE f(r) == IF r.id = req[t].row.id THEN Updated(r, req[t].row, req[t].who) ELSE r
  <2>1. \A r \in users : f(r).customer = r.customer
    BY Zenon DEF AccountsInv, Typed, UserRow, Updated
  <2>2. /\ users' = {f(r) : r \in users}
        /\ req' = [req EXCEPT ![t] = Idle]
        /\ UNCHANGED sent
        /\ req[t].op = "updating"
    BY <1>3, Zenon DEF CommitUpdate, Become, stripe
  <2> HIDE DEF f
  <2>3. \A x \in users' : Known(x.customer)'
    BY <2>1, <2>2, ZenonT(60) DEF CustomersKnown, Known
  <2>4. SerialCore => OneEach'
    BY <2>1, <2>2 DEF SerialCore, OneEach
  <2>5. CustomersKnown'
    BY <2>2, <2>3, IdleIsFree, ThreadKeepsKnown, Zenon
  <2>6. req[t] # Idle
    BY <2>2, NotIdle, Zenon
  <2> QED  BY <2>2, <2>4, <2>5, <2>6, IdleIsFree, ThreadKeepsCore, Zenon
<1> QED  BY <1>1, <1>2, <1>3, Zenon DEF Update

LEMMA WebhookKeepsSerial ==
  ASSUME AccountsInv, CustomersKnown, NEW t \in Threads, Webhook(t)
  PROVE  KeepsSerial
<1> USE DEF KeepsSerial
<1>1. ASSUME NEW e \in sent, RetrieveCustomer(t, e) PROVE KeepsSerial
  <2>0. PICK r : r = [op |-> "retrieved", customer |-> e.id, who |-> customers[e.id]]
    BY Zenon
  <2>1. r.op = "retrieved" /\ r.customer = e.id
    BY <2>0, Zenon
  <2>2. req' = [req EXCEPT ![t] = r] /\ UNCHANGED <<users, sent>>
    BY <1>1, <2>0, Zenon DEF RetrieveCustomer, Become, stripe
  <2>3. RequestKnown(r)' /\ Unraced(r) /\ r # Idle
    BY <2>1, <2>2, NotIdle, Zenon DEF RequestKnown, Unraced, Known
  <2> QED  BY <2>2, <2>3, ReadKeepsSerial, Zenon
<1>2. ASSUME FindUser(t) PROVE KeepsSerial
  <2>1. req[t].op = "retrieved" /\ UNCHANGED <<users, sent>> /\ req[t] # Idle
    BY <1>2, NotIdle, Zenon DEF FindUser, stripe
  <2>2. CASE Nobodys(req[t].customer) /\ Become(t, [req[t] EXCEPT !.op = "insert"])
    <3>0. PICK r : r = [req[t] EXCEPT !.op = "insert"]
      BY Zenon
    <3>1. r.op = "insert" /\ r.customer = req[t].customer
      BY <3>0, <2>1, Zenon DEF AccountsInv, Typed, Request
    <3>2. req' = [req EXCEPT ![t] = r]
      BY <2>2, <3>0, Zenon DEF Become
    <3>3. RequestKnown(r)' /\ Unraced(r)
      BY <2>1, <2>2, <3>1, Zenon DEF RequestKnown, Unraced, Known, CustomersKnown
    <3> QED  BY <2>1, <3>2, <3>3, ReadKeepsSerial, Zenon
  <2>3. ASSUME NEW u \in users,
               Become(t, [op |-> "save", row |-> u, who |-> req[t].who, validate |-> FALSE])
        PROVE  KeepsSerial
    <3>0. PICK r : r = [op |-> "save", row |-> u, who |-> req[t].who, validate |-> FALSE]
      BY Zenon
    <3>1. r.op = "save"
      BY <3>0, Zenon
    <3>2. req' = [req EXCEPT ![t] = r]
      BY <2>3, <3>0, Zenon DEF Become
    <3>3. RequestKnown(r)' /\ Unraced(r)
      BY <3>1, Zenon DEF RequestKnown, Unraced
    <3> QED  BY <2>1, <3>2, <3>3, ReadKeepsSerial, ZenonT(60)
  <2> QED  BY <1>2, <2>2, <2>3, Zenon DEF FindUser, Nobodys
<1> QED  BY <1>1, <1>2, Zenon DEF Webhook

LEMMA StepKeepsSerial ==
  ASSUME AccountsInv, CustomersKnown, Step
  PROVE  KeepsSerial
<1> USE DEF KeepsSerial
<1>1. CASE AtStripe
  <2>1. UNCHANGED <<users, req>> /\ sent \subseteq sent'
    BY <1>1, StripeKeepsEvents, Zenon
    DEF AtStripe, StripeCreatesCustomer, StripeEditsCustomer, StripeDeletesCustomer
  <2> QED  BY <2>1, RemovalKeepsKnown, RemovalKeepsCore, Zenon
<1>2. ASSUME NEW r \in users, DestroyUser(r) \/ \E e \in sent : CustomerDeleted(e, r)
      PROVE  KeepsSerial
  <2>1. users' \subseteq users /\ UNCHANGED req /\ sent \subseteq sent'
    BY <1>2, StripeKeepsEvents, Zenon DEF CustomerDeleted, DestroyUser, stripe
  <2> QED  BY <2>1, RemovalKeepsKnown, RemovalKeepsCore, Zenon
<1>3. CASE Sidekiq
  BY <1>3, RemovalKeepsKnown, RemovalKeepsCore, Zenon
  DEF Sidekiq, PerformWelcome, DropWelcome, stripe
<1>4. ASSUME NEW t \in Threads, Abort(t) PROVE KeepsSerial
  BY <1>4, IdleIsFree, ReadKeepsSerial, Zenon DEF Abort, Become, stripe
<1> QED
  BY <1>1, <1>2, <1>3, <1>4, CreateKeepsSerial, UpdateKeepsSerial, WebhookKeepsSerial, ZenonT(60) DEF Step

LEMMA SerialInit == Init => SerialInv
BY IdleIsFree, Zenon
DEF Init, SerialInv, CustomersKnown, SerialCore, Apart, OneEach

LEMMA SerialNext ==
  AccountsInv /\ SerialInv /\ [Next]_<<vars, overlapped>> => SerialInv'
<1> SUFFICES ASSUME AccountsInv, SerialInv, [Next]_<<vars, overlapped>> PROVE SerialInv'
  BY Zenon
<1>1. CASE Next
  <2>1. KeepsSerial
    BY <1>1, StepKeepsSerial, Zenon DEF Next, SerialInv
  <2>2. overlapped' \in BOOLEAN /\ (~ overlapped' => ~ overlapped /\ Apart')
    BY <1>1, Zenon DEF Next, SerialInv
  <2> QED  BY <2>1, <2>2, Zenon DEF SerialInv, KeepsSerial
<1>2. CASE UNCHANGED <<vars, overlapped>>
  <2>1. UNCHANGED <<users, req, sent, overlapped>>
    BY <1>2, Zenon DEF vars
  <2> QED  BY <2>1, RemovalKeepsKnown, RemovalKeepsCore, Zenon DEF SerialInv
<1> QED  BY <1>1, <1>2, Zenon

\* The inductive invariant of requests that do not overlap.
THEOREM SerialInvariant == Spec => []SerialInv
BY SerialInit, SerialNext, AccountsInvariant, PTL DEF Spec
----------------------------------------------------------------------------
\* Whatever requests, webhooks and jobs interleave, every variable keeps its type.
THEOREM AccountsTypeCorrect == Spec => []TypeOK
<1>1. AccountsInv /\ SerialInv => TypeOK
  BY Zenon DEF AccountsInv, SerialInv, TypeOK
<1> QED  BY <1>1, AccountsInvariant, SerialInvariant, PTL

\* With any number of threads and customers, no registration, webhook or
\* failure of Stripe leaves a user without a Stripe customer.
THEOREM NoUserWithoutCustomer == Spec => []EveryUserIsCustomer
<1>1. AccountsInv => EveryUserIsCustomer
  BY Zenon DEF AccountsInv
<1> QED  BY <1>1, AccountsInvariant, PTL

\* As long as no two requests were served at once, find_or_initialize_by and
\* create_stripe_customer never give one Stripe customer to two users,
\* whatever Stripe delivers again or late, and whatever fails half-way.
THEOREM CustomersAreNotShared == Spec => []OneUserPerCustomer
<1>1. SerialInv => OneUserPerCustomer
  BY Zenon DEF SerialInv, SerialCore, OneEach, OneUserPerCustomer
<1> QED  BY <1>1, SerialInvariant, PTL
-----------------------------------------------------------------------------
(* PostQuota.  Counting posts alone is not inductive: a request that is    *)
(* authorized and not yet saved is a post to come.  What authorize! bounds *)
(* is the sum of the posts and of the authorized requests: when it lets a  *)
(* request pass, there are fewer posts than the quota, and no more         *)
(* requests than threads.                                                  *)

\* The requests that will create a post of the user.
Posting(u) == {t \in Workers : asked[t].op = "create" /\ asked[t].user = u}

\* A plan a request is checked against was active when it was read.
PlanWasHeld ==
  \A t \in Workers : asked[t].op = "count" => asked[t].name \in held[asked[t].user]

ActiveIsHeld == \A r \in subscriptions : r.active => r.name \in held[r.user]

BoundedBy(n, k) == Unlimited(n) \/ k < Quota(n) + Cardinality(Workers)

SumBounded ==
  \A u \in Users \ Admins :
    LET k == posts[u] + Cardinality(Posting(u))
    IN  k = 0 \/ \E n \in held[u] : BoundedBy(n, k)

QuotaInv ==
  /\ QuotaTypeOK
  /\ ActiveIsHeld
  /\ PlanWasHeld
  /\ SumBounded

LEMMA QuotaIsNat == \A n : Quota(n) \in Nat
BY Zenon DEF Quota

LEMMA PostingFinite ==
  ASSUME NEW u
  PROVE  /\ IsFiniteSet(Posting(u)) /\ Cardinality(Posting(u)) \in Nat
         /\ Cardinality(Posting(u)) <= Cardinality(Workers)
         /\ Cardinality(Workers) \in Nat
BY QuotaAssumption, FS_Subset, FS_CardinalityType, Zenon DEF Posting

\* Fewer posts to be expected, and no fewer plans held, keep the bound.
LEMMA StillBounded ==
  ASSUME QuotaInv, QuotaTypeOK',
         \A u \in Users \ Admins :
           /\ held[u] \subseteq held'[u]
           /\ posts'[u] + Cardinality(Posting(u)') <= posts[u] + Cardinality(Posting(u))
  PROVE  SumBounded'
<1> SUFFICES ASSUME NEW u \in Users \ Admins
             PROVE  LET k == posts'[u] + Cardinality(Posting(u)')
                    IN  k = 0 \/ \E n \in held'[u] : BoundedBy(n, k)
  BY Zenon DEF SumBounded, BoundedBy, Unlimited, Quota
<1> DEFINE k == posts[u] + Cardinality(Posting(u))
           j == posts'[u] + Cardinality(Posting(u)')
<1>1. k = 0 \/ \E n \in held[u] : BoundedBy(n, k)
  BY Zenon DEF QuotaInv, SumBounded
<1>2. k \in Nat
  BY PostingFinite DEF QuotaInv, QuotaTypeOK
<1>3. j \in Nat
  <2>1. IsFiniteSet(Posting(u)')
    BY QuotaAssumption, FS_Subset, Zenon DEF Posting
  <2>2. Cardinality(Posting(u)') \in Nat
    BY <2>1, FS_CardinalityType, Zenon
  <2> QED  BY <2>2 DEF QuotaTypeOK
<1>4. j <= k
  BY Zenon
<1>5. \A n : BoundedBy(n, k) => BoundedBy(n, j)
  <2> HIDE DEF j, k
  <2> QED  BY <1>2, <1>3, <1>4, QuotaIsNat, PostingFinite DEF BoundedBy
<1> HIDE DEF j, k
<1>6. j = 0 \/ \E n \in held'[u] : BoundedBy(n, j)
  BY <1>1, <1>2, <1>3, <1>4, <1>5
<1> QED  BY <1>6, Zenon DEF j

\* A request that does not start creating a post of u adds nothing to the sum.
LEMMA PostingShrinks ==
  ASSUME QuotaInv, NEW u, NEW t \in Workers, NEW r \in PostRequest,
         asked' = [asked EXCEPT ![t] = r], ~ (r.op = "create" /\ r.user = u)
  PROVE  Cardinality(Posting(u)') <= Cardinality(Posting(u))
<1>1. Posting(u)' \subseteq Posting(u)
  BY Zenon DEF Posting, QuotaInv, QuotaTypeOK
<1> QED  BY <1>1, PostingFinite, FS_Subset, Zenon

LEMMA PostRequestFields ==
  ASSUME NEW r \in PostRequest
  PROVE  /\ r.op \in {"count", "create"} => r.user \in Users
         /\ r.op = "count" => r.name \in Products
BY Zenon DEF PostRequest

LEMMA NoRequestType == NoRequest \in PostRequest /\ NoRequest.op = "idle"
BY Zenon DEF NoRequest, PostRequest

\* The webhooks only add to the plans held.
LEMMA WebhookKeepsQuota ==
  ASSUME QuotaInv,
         \/ \E u \in Users, n \in Products, a \in BOOLEAN : SubscriptionInserted(u, n, a)
         \/ \E r \in subscriptions : SubscriptionChanged(r) \/ SubscriptionDestroyed(r)
  PROVE  QuotaInv'
<1>0. ASSUME QuotaTypeOK', ActiveIsHeld', UNCHANGED <<posts, asked>>,
             \A u \in Users : held[u] \subseteq held'[u]
      PROVE  QuotaInv'
  <2>1. PlanWasHeld'
    BY <1>0, PostRequestFields, Zenon DEF PlanWasHeld, QuotaInv, QuotaTypeOK
  <2>2. \A u \in Users \ Admins : posts'[u] + Cardinality(Posting(u)')
                                   <= posts[u] + Cardinality(Posting(u))
    <3> \A u : Posting(u)' = Posting(u)
      BY <1>0, Zenon DEF Posting
    <3> QED  BY <1>0, PostingFinite DEF QuotaInv, QuotaTypeOK
  <2> QED  BY <1>0, <2>1, <2>2, StillBounded, Zenon DEF QuotaInv
<1>1. ASSUME NEW u \in Users, NEW n \in Products, NEW a \in BOOLEAN, SubscriptionInserted(u, n, a)
      PROVE  QuotaInv'
  <2> DEFINE row == [id |-> nextRow, user |-> u, name |-> n, active |-> a]
  <2>1. row \in PlanRow /\ nextRow' \in 1..(MaxRows + 1)
    BY <1>1, QuotaAssumption DEF SubscriptionInserted, QuotaInv, QuotaTypeOK, PlanRow
  <2>2. /\ subscriptions' = subscriptions \cup {row}
        /\ held' = [held EXCEPT ![u] = IF a THEN held[u] \cup {n} ELSE held[u]]
        /\ UNCHANGED <<posts, asked>>
    BY <1>1, Zenon DEF SubscriptionInserted, Hold
  <2>3. QuotaTypeOK'
    BY <2>1, <2>2, Zenon DEF QuotaInv, QuotaTypeOK
  <2>4. ActiveIsHeld' /\ \A v \in Users : held[v] \subseteq held'[v]
    BY <2>2 DEF QuotaInv, QuotaTypeOK, ActiveIsHeld, PlanRow
  <2> QED  BY <1>0, <2>2, <2>3, <2>4, Zenon
<1>2. ASSUME NEW r \in subscriptions, SubscriptionChanged(r) PROVE QuotaInv'
  <2> DEFINE row == [r EXCEPT !.active = ~ r.active]
  <2>1. /\ r \in PlanRow /\ row \in PlanRow
        /\ row.user = r.user /\ row.name = r.name /\ row.active = ~ r.active
    BY Zenon DEF QuotaInv, QuotaTypeOK, PlanRow
  <2>2. /\ subscriptions' = (subscriptions \ {r}) \cup {row}
        /\ held' = [held EXCEPT ![row.user] = IF row.active THEN held[row.user] \cup {row.name}
                                                           ELSE held[row.user]]
        /\ UNCHANGED <<posts, asked, nextRow>>
    BY <1>2, Zenon DEF SubscriptionChanged, Hold
  <2> HIDE DEF row
  <2>3. QuotaTypeOK'
    BY <2>1, <2>2, Zenon DEF QuotaInv, QuotaTypeOK, PlanRow
  <2>4. ActiveIsHeld' /\ \A v \in Users : held[v] \subseteq held'[v]
    BY <2>1, <2>2, Zenon DEF QuotaInv, QuotaTypeOK, ActiveIsHeld, PlanRow
  <2> QED  BY <1>0, <2>2, <2>3, <2>4, Zenon
<1>3. ASSUME NEW r \in subscriptions, SubscriptionDestroyed(r) PROVE QuotaInv'
  <2>1. QuotaTypeOK' /\ ActiveIsHeld'
    BY <1>3, Zenon DEF SubscriptionDestroyed, QuotaInv, QuotaTypeOK, ActiveIsHeld
  <2> QED  BY <1>0, <1>3, <2>1, Zenon DEF SubscriptionDestroyed
<1> QED  BY <1>1, <1>2, <1>3, Zenon

\* Requests that end, or wait to be checked, add nothing to the sum.
LEMMA MoveKeepsQuota ==
  ASSUME QuotaInv, NEW t \in Workers, NEW r \in PostRequest,
         asked' = [asked EXCEPT ![t] = r], UNCHANGED <<posts, subscriptions, nextRow, held>>,
         r.op = "create" => r.user \in Admins,
         r.op = "count" => r.name \in held[r.user]
  PROVE  QuotaInv'
<1>1. QuotaTypeOK' /\ ActiveIsHeld' /\ PlanWasHeld'
  BY Zenon DEF QuotaInv, QuotaTypeOK, ActiveIsHeld, PlanWasHeld
<1>2. \A u \in Users \ Admins : Cardinality(Posting(u)') <= Cardinality(Posting(u))
  BY PostingShrinks, Zenon
<1>3. \A u \in Users \ Admins : posts'[u] + Cardinality(Posting(u)')
                                 <= posts[u] + Cardinality(Posting(u))
  <2> TAKE u \in Users \ Admins
  <2>1. IsFiniteSet(Posting(u)')
    BY QuotaAssumption, FS_Subset, Zenon DEF Posting
  <2>2. Cardinality(Posting(u)') \in Nat
    BY <2>1, FS_CardinalityType, Zenon
  <2> QED  BY <1>2, <2>2, PostingFinite DEF QuotaInv, QuotaTypeOK
<1> QED  BY <1>1, <1>3, StillBounded, Zenon DEF QuotaInv

LEMMA CountPostsKeepsQuota ==
  ASSUME QuotaInv, NEW t \in Workers, CountPosts(t)
  PROVE  QuotaInv'
<1> DEFINE v == asked[t].user
           n == asked[t].name
           r == [op |-> "create", user |-> v]
<1>1. v \in Users /\ n \in held[v]
  BY PostRequestFields, Zenon DEF QuotaInv, QuotaTypeOK, PlanWasHeld, CountPosts
<1>2. CASE ~ MayCreate(v, n)
  BY <1>2, NoRequestType, MoveKeepsQuota, ZenonT(60) DEF CountPosts
<1>3. CASE MayCreate(v, n)
  <2>1. r \in PostRequest /\ asked' = [asked EXCEPT ![t] = r] /\ UNCHANGED <<posts, subscriptions, nextRow, held>>
    BY <1>1, <1>3, Zenon DEF CountPosts, PostRequest
  <2>2. QuotaTypeOK' /\ ActiveIsHeld' /\ PlanWasHeld'
    BY <2>1, Zenon DEF QuotaInv, QuotaTypeOK, ActiveIsHeld, PlanWasHeld
  <2>3. SumBounded'
    <3> SUFFICES ASSUME NEW u \in Users \ Admins
                 PROVE  LET k == posts'[u] + Cardinality(Posting(u)')
                        IN  k = 0 \/ \E m \in held'[u] : BoundedBy(m, k)
      BY Zenon DEF SumBounded, BoundedBy, Unlimited, Quota
    <3> DEFINE c == Cardinality(Posting(u)')
    <3>1. c \in Nat /\ c <= Cardinality(Workers) /\ Cardinality(Workers) \in Nat
      <4>1. Posting(u)' \subseteq Workers
        BY Zenon DEF Posting
      <4> QED  BY <4>1, QuotaAssumption, FS_Subset, FS_CardinalityType, Zenon
    <3>2. posts' = posts /\ held' = held /\ posts[u] \in Nat
      BY <2>1, Zenon DEF QuotaInv, QuotaTypeOK
    <3>3. CASE u = v
      <4>1. BoundedBy(n, posts[u] + c)
        BY <1>3, <3>1, <3>2, <3>3, QuotaIsNat DEF MayCreate, BoundedBy
      <4> QED  BY <1>1, <3>2, <3>3, <4>1, Zenon
    <3>4. CASE u # v
      <4>1. c <= Cardinality(Posting(u))
        BY <2>1, <3>4, PostingShrinks, Zenon
      <4>2. Cardinality(Posting(u)) \in Nat
        BY PostingFinite, Zenon
      <4> DEFINE k == posts[u] + Cardinality(Posting(u))
      <4>3. k = 0 \/ \E m \in held[u] : BoundedBy(m, k)
        BY Zenon DEF QuotaInv, SumBounded
      <4>4. k \in Nat /\ posts[u] + c <= k /\ posts[u] + c \in Nat
        BY <3>1, <3>2, <4>1, <4>2
      <4>5. \A m : BoundedBy(m, k) => BoundedBy(m, posts[u] + c)
        BY <3>1, <4>4, QuotaIsNat DEF BoundedBy
      <4> HIDE DEF k, c
      <4>6. posts[u] + c = 0 \/ \E m \in held[u] : BoundedBy(m, posts[u] + c)
        BY <4>3, <4>4, <4>5
      <4> QED  BY <3>2, <4>6, Zenon DEF c
    <3> QED  BY <3>3, <3>4, Zenon
  <2> QED  BY <2>2, <2>3, Zenon DEF QuotaInv
<1> QED  BY <1>2, <1>3, Zenon

LEMMA CreatePostKeepsQuota ==
  ASSUME QuotaInv, NEW t \in Workers, CreatePost(t)
  PROVE  QuotaInv'
<1> DEFINE v == asked[t].user
<1>1. /\ v \in Users /\ t \in Posting(v)
      /\ posts' = [posts EXCEPT ![v] = posts[v] + 1]
      /\ asked' = [asked EXCEPT ![t] = NoRequest]
      /\ UNCHANGED <<subscriptions, nextRow, held>>
  BY PostRequestFields, Zenon DEF QuotaInv, QuotaTypeOK, CreatePost, Posting
<1>2. QuotaTypeOK' /\ ActiveIsHeld' /\ PlanWasHeld'
  BY <1>1, NoRequestType DEF QuotaInv, QuotaTypeOK, ActiveIsHeld, PlanWasHeld
<1>3. ASSUME NEW u \in Users \ Admins
      PROVE  posts'[u] + Cardinality(Posting(u)') <= posts[u] + Cardinality(Posting(u))
  <2>1. Posting(u)' = Posting(u) \ {t}
    BY <1>1, NoRequestType, Zenon DEF Posting, QuotaInv, QuotaTypeOK
  <2>2. Cardinality(Posting(u)') = IF t \in Posting(u) THEN Cardinality(Posting(u)) - 1
                                                        ELSE Cardinality(Posting(u))
    BY <2>1, PostingFinite, FS_RemoveElement, Zenon
  <2>3. posts'[u] = IF u = v THEN posts[u] + 1 ELSE posts[u]
    BY <1>1, Zenon DEF QuotaInv, QuotaTypeOK
  <2>4. posts[u] \in Nat /\ Cardinality(Posting(u)) \in Nat
    BY PostingFinite, Zenon DEF QuotaInv, QuotaTypeOK
  <2>5. u = v <=> t \in Posting(u)
    BY <1>1, Zenon DEF Posting
  <2> QED  BY <2>2, <2>3, <2>4, <2>5
<1>4. \A u \in Users \ Admins : held[u] \subseteq held'[u]
  BY <1>1, Zenon
<1> QED  BY <1>2, <1>3, <1>4, StillBounded, Zenon DEF QuotaInv

LEMMA DestroyPostKeepsQuota ==
  ASSUME QuotaInv, NEW v \in Users, DestroyPost(v)
  PROVE  QuotaInv'
<1>1. QuotaTypeOK' /\ ActiveIsHeld' /\ PlanWasHeld'
  BY DEF DestroyPost, QuotaInv, QuotaTypeOK, ActiveIsHeld, PlanWasHeld
<1>2. \A u \in Users \ Admins : posts'[u] + Cardinality(Posting(u)')
                                 <= posts[u] + Cardinality(Posting(u))
  <2> TAKE u \in Users \ Admins
  <2>1. Posting(u)' = Posting(u)
    BY Zenon DEF DestroyPost, Posting
  <2>2. posts'[u] <= posts[u] /\ posts'[u] \in Nat /\ posts[u] \in Nat
    BY DEF DestroyPost, QuotaInv, QuotaTypeOK
  <2> QED  BY <2>1, <2>2, PostingFinite
<1>3. held' = held
  BY Zenon DEF DestroyPost
<1> QED  BY <1>1, <1>2, <1>3, StillBounded, Zenon DEF QuotaInv
----------------------------------------------------------------------------
LEMMA InitQuota == QuotaInit => QuotaInv
<1> SUFFICES ASSUME QuotaInit PROVE QuotaInv
  BY Zenon
<1>1. QuotaTypeOK /\ ActiveIsHeld /\ PlanWasHeld
  BY NoRequestType, QuotaAssumption DEF QuotaInit, QuotaTypeOK, ActiveIsHeld, PlanWasHeld
<1>2. \A u : Posting(u) = {}
  BY NoRequestType, Zenon DEF QuotaInit, Posting
<1>3. \A u \in Users : posts[u] + Cardinality(Posting(u)) = 0
  BY <1>2, FS_EmptySet DEF QuotaInit
<1> QED  BY <1>1, <1>3, Zenon DEF QuotaInv, SumBounded

LEMMA NextKeepsQuota == QuotaInv /\ [QuotaNext]_quotaVars => QuotaInv'
<1> SUFFICES ASSUME QuotaInv, [QuotaNext]_quotaVars PROVE QuotaInv'
  BY Zenon
<1>1. ASSUME NEW t \in Workers, NEW u \in Users, AuthorizeAdmin(t, u) PROVE QuotaInv'
  <2> DEFINE r == [op |-> "create", user |-> u]
  <2>1. r \in PostRequest
    BY Zenon DEF PostRequest
  <2> QED  BY <1>1, <2>1, MoveKeepsQuota, Zenon DEF AuthorizeAdmin
<1>2. ASSUME NEW t \in Workers, NEW u \in Users, NEW s \in subscriptions, FindPlan(t, u, s)
      PROVE  QuotaInv'
  <2> DEFINE r == [op |-> "count", user |-> u, name |-> s.name]
  <2>1. r \in PostRequest /\ r.name \in held[r.user]
    BY <1>2, Zenon DEF FindPlan, Current, QuotaInv, QuotaTypeOK, ActiveIsHeld, PlanRow, PostRequest
  <2> QED  BY <1>2, <2>1, MoveKeepsQuota, Zenon DEF FindPlan
<1>3. ASSUME NEW t \in Workers, Fail(t) PROVE QuotaInv'
  BY <1>3, NoRequestType, MoveKeepsQuota, Zenon DEF Fail
<1>4. CASE UNCHANGED quotaVars
  <2>1. UNCHANGED <<posts, subscriptions, nextRow, asked, held>>
    BY <1>4, Zenon DEF quotaVars
  <2>2. QuotaTypeOK' /\ ActiveIsHeld' /\ PlanWasHeld'
    BY <2>1, Zenon DEF QuotaInv, QuotaTypeOK, ActiveIsHeld, PlanWasHeld
  <2>3. \A u : Posting(u)' = Posting(u)
    BY <2>1, Zenon DEF Posting
  <2>4. \A u \in Users \ Admins : posts'[u] + Cardinality(Posting(u)')
                                   <= posts[u] + Cardinality(Posting(u))
    BY <2>1, <2>3, PostingFinite DEF QuotaInv, QuotaTypeOK
  <2> QED  BY <2>1, <2>2, <2>4, StillBounded, Zenon DEF QuotaInv
<1> QED
  BY <1>1, <1>2, <1>3, <1>4, WebhookKeepsQuota, CountPostsKeepsQuota, CreatePostKeepsQuota,
     DestroyPostKeepsQuota, Zenon
  DEF QuotaNext

\* The inductive invariant behind the theorems below.
THEOREM QuotaInvariant == QuotaSpec => []QuotaInv
BY InitQuota, NextKeepsQuota, PTL DEF QuotaSpec

\* Whatever PostsController and the webhooks interleave, every variable keeps
\* its type; in particular no deletion takes the number of posts below zero.
THEOREM QuotaTypeCorrect == QuotaSpec => []QuotaTypeOK
<1>1. QuotaInv => QuotaTypeOK
  BY Zenon DEF QuotaInv
<1> QED  BY <1>1, QuotaInvariant, PTL

\* With any number of threads, users and plans, what Ability lets through
\* exceeds the largest quota held by less than the number of threads; with
\* one thread the quota is exact.
THEOREM QuotaOvershoot == QuotaSpec => []OvershootBounded
<1>1. QuotaInv => OvershootBounded
  <2> SUFFICES ASSUME QuotaInv, NEW u \in Users \ Admins
               PROVE  posts[u] = 0 \/ \E n \in held[u] :
                        Unlimited(n) \/ posts[u] < Quota(n) + Cardinality(Workers)
    BY Zenon DEF OvershootBounded
  <2> DEFINE k == posts[u] + Cardinality(Posting(u))
  <2>1. k = 0 \/ \E n \in held[u] : BoundedBy(n, k)
    BY Zenon DEF QuotaInv, SumBounded
  <2>2. k \in Nat /\ posts[u] \in Nat /\ posts[u] <= k
    BY PostingFinite DEF QuotaInv, QuotaTypeOK
  <2> HIDE DEF k
  <2>3. \A n : BoundedBy(n, k) => Unlimited(n) \/ posts[u] < Quota(n) + Cardinality(Workers)
    BY <2>2, QuotaIsNat, PostingFinite DEF BoundedBy
  <2> QED  BY <2>1, <2>2, <2>3
<1> QED  BY <1>1, QuotaInvariant, PTL
=============================================================================
