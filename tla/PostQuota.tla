----------------------------- MODULE PostQuota -----------------------------
(***************************************************************************)
(* How many posts a plan allows: Ability, consulted by the before_action   *)
(* of PostsController, and PostsController#create.                         *)
(*                                                                         *)
(* Ability reads the current subscription, then counts the posts; the post *)
(* is saved later, in a transaction that counts nothing.  Requests on      *)
(* other threads, and webhooks that change the subscriptions, come in      *)
(* between.  A plan is known by the name of its product.                   *)
(***************************************************************************)
EXTENDS Naturals, FiniteSets

CONSTANTS Users,     \* users
          Admins,    \* those with the role admin
          Products,  \* names of products
          Workers,   \* Puma threads
          MaxPosts,  \* bound: posts a user has at once
          MaxRows    \* bound: subscriptions ever inserted

ASSUME QuotaAssumption ==
  /\ Admins \subseteq Users
  /\ IsFiniteSet(Workers)
  /\ MaxPosts \in Nat /\ MaxRows \in Nat

VARIABLES posts,          \* number of posts of each user
          subscriptions,  \* rows of "subscriptions", with the name of the product
          nextRow,        \* next AUTOINCREMENT id of "subscriptions"
          asked,          \* the request each thread is serving
          held            \* history: the plans a user has had active

quotaVars == <<posts, subscriptions, nextRow, asked, held>>

PlanRow == [id : 1..MaxRows, user : Users, name : Products, active : BOOLEAN]

\* "count": authorize! knows the plan; "create": the request is authorized.
NoRequest == [op |-> "idle"]

PostRequest ==
  [op : {"idle"}]
    \cup [op : {"count"}, user : Users, name : Products]
    \cup [op : {"create"}, user : Users]

QuotaTypeOK ==
  /\ posts \in [Users -> Nat]
  /\ subscriptions \subseteq PlanRow
  /\ nextRow \in 1..(MaxRows + 1)
  /\ asked \in [Workers -> PostRequest]
  /\ held \in [Users -> SUBSET Products]

QuotaInit ==
  /\ posts = [u \in Users |-> 0]
  /\ subscriptions = {}
  /\ nextRow = 1
  /\ asked = [t \in Workers |-> NoRequest]
  /\ held = [u \in Users |-> {}]

Unlimited(name) == name = "#Infinite Posts"

\* A product of any other name grants nothing.
Quota(name) ==
  CASE name = "#10 Posts" -> 10
    [] name = "#5 Posts"  -> 5
    [] name = "#2 Posts"  -> 2
    [] OTHER              -> 0
----------------------------------------------------------------------------
(* The webhooks, as far as Ability sees them (module Billing). *)

Hold(row) ==
  held' = [held EXCEPT ![row.user] = IF row.active THEN @ \cup {row.name} ELSE @]

SubscriptionInserted(u, name, active) ==
  /\ nextRow <= MaxRows
  /\ LET row == [id |-> nextRow, user |-> u, name |-> name, active |-> active]
     IN  subscriptions' = subscriptions \cup {row} /\ Hold(row)
  /\ nextRow' = nextRow + 1
  /\ UNCHANGED <<posts, asked>>

SubscriptionChanged(r) ==
  /\ LET row == [r EXCEPT !.active = ~ @]
     IN  subscriptions' = (subscriptions \ {r}) \cup {row} /\ Hold(row)
  /\ UNCHANGED <<posts, nextRow, asked>>

SubscriptionDestroyed(r) ==
  /\ subscriptions' = subscriptions \ {r}
  /\ UNCHANGED <<posts, nextRow, asked, held>>
----------------------------------------------------------------------------
(* PostsController. *)

\* subscriptions.where(active: true).first
Current(u, r) ==
  /\ r \in subscriptions /\ r.user = u /\ r.active
  /\ \A s \in subscriptions : s.user = u /\ s.active => r.id <= s.id

AuthorizeAdmin(t, u) ==
  /\ asked[t] = NoRequest
  /\ u \in Admins
  /\ asked' = [asked EXCEPT ![t] = [op |-> "create", user |-> u]]
  /\ UNCHANGED <<posts, subscriptions, nextRow, held>>

FindPlan(t, u, r) ==
  /\ asked[t] = NoRequest
  /\ u \notin Admins
  /\ Current(u, r)
  /\ asked' = [asked EXCEPT ![t] = [op |-> "count", user |-> u, name |-> r.name]]
  /\ UNCHANGED <<posts, subscriptions, nextRow, held>>

\* Mutant: the post about to be created is forgotten.
MayCreateOneMore(u, name) == Unlimited(name) \/ posts[u] <= Quota(name)

MayCreate(u, name) == Unlimited(name) \/ posts[u] < Quota(name)

\* CanCan::AccessDenied ends the request with a redirection.
CountPosts(t) ==
  /\ asked[t].op = "count"
  /\ asked' = [asked EXCEPT ![t] = IF MayCreate(asked[t].user, asked[t].name)
                                   THEN [op |-> "create", user |-> asked[t].user]
                                   ELSE NoRequest]
  /\ UNCHANGED <<posts, subscriptions, nextRow, held>>

CreatePost(t) ==
  /\ asked[t].op = "create"
  /\ posts[asked[t].user] < MaxPosts
  /\ posts' = [posts EXCEPT ![asked[t].user] = @ + 1]
  /\ asked' = [asked EXCEPT ![t] = NoRequest]
  /\ UNCHANGED <<subscriptions, nextRow, held>>

\* save! raises (an invalid post, a busy database), or the product is gone.
Fail(t) ==
  /\ asked[t] # NoRequest
  /\ asked' = [asked EXCEPT ![t] = NoRequest]
  /\ UNCHANGED <<posts, subscriptions, nextRow, held>>

DestroyPost(u) ==
  /\ posts[u] > 0
  /\ posts' = [posts EXCEPT ![u] = @ - 1]
  /\ UNCHANGED <<subscriptions, nextRow, asked, held>>

QuotaNext ==
  \/ \E u \in Users, n \in Products, a \in BOOLEAN : SubscriptionInserted(u, n, a)
  \/ \E r \in subscriptions : SubscriptionChanged(r) \/ SubscriptionDestroyed(r)
  \/ \E t \in Workers, u \in Users :
       \/ AuthorizeAdmin(t, u)
       \/ \E r \in subscriptions : FindPlan(t, u, r)
  \/ \E t \in Workers : CountPosts(t) \/ CreatePost(t) \/ Fail(t)
  \/ \E u \in Users : DestroyPost(u)

QuotaSpec == QuotaInit /\ [][QuotaNext]_quotaVars
----------------------------------------------------------------------------
(* Properties. *)

\* A user has no posts without having had a plan that grants them, and
\* concurrent requests overshoot the largest quota ever held by at most one
\* post per further thread: Ability's check and PostsController#create's
\* save! are not one transaction.
OvershootBounded ==
  \A u \in Users \ Admins :
    posts[u] = 0 \/ \E n \in held[u] :
      Unlimited(n) \/ posts[u] < Quota(n) + Cardinality(Workers)

\* Violated.  '#2 Posts', '#5 Posts', '#10 Posts': a plan allows that many posts.
QuotaRespected ==
  \A u \in Users \ Admins :
    posts[u] = 0 \/ \E n \in held[u] : Unlimited(n) \/ posts[u] <= Quota(n)
=============================================================================
