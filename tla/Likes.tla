------------------------------- MODULE Likes -------------------------------
(***************************************************************************)
(* The likes of the posts: LikesController, the Like model with its        *)
(* counter cache, and the two cascades that remove likes in bulk, the      *)
(* destruction of a post and of a user.                                    *)
(*                                                                         *)
(* Puma serves every request on a thread of its own, so requests           *)
(* interleave between any two statements.  The database is SQLite: a       *)
(* transaction that began by reading may write only if no other            *)
(* connection has committed since (otherwise the write raises, the         *)
(* transaction is rolled back and the request fails).  "stale" holds the   *)
(* threads whose snapshot has been overtaken by somebody else's commit.    *)
(***************************************************************************)
EXTENDS Naturals, FiniteSets

CONSTANTS Users,      \* ids of the users that exist at the start
          Threads,    \* Puma threads
          MaxPosts,   \* bound: posts ever created
          MaxLikes    \* bound: likes ever created

ASSUME LikesAssumption ==
  /\ IsFiniteSet(Users)
  /\ IsFiniteSet(Threads)
  /\ MaxPosts \in Nat
  /\ MaxLikes \in Nat

VARIABLES users,        \* rows of "users"
          posts,        \* rows of "posts"
          likes_count,  \* posts.likes_count, the counter cache
          likes,        \* rows of "likes"
          nextPost,     \* next AUTOINCREMENT id of "posts"
          nextLike,     \* next AUTOINCREMENT id of "likes"
          req,          \* the request each thread is serving
          stale         \* threads whose read snapshot is out of date

vars == <<users, posts, likes_count, likes, nextPost, nextLike, req, stale>>

PostIds == 1..MaxPosts
LikeIds == 1..MaxLikes

PostRow == [id : PostIds, user : Users]

LikeRow == [id : LikeIds, user : Users, post : PostIds]

(***************************************************************************)
(* Where a request stands.  "like", "unlike", "destroy_post" and           *)
(* "destroy_user" have loaded their record and not yet begun their         *)
(* transaction; "insert", "delete_post" and "delete_user" are inside one,  *)
(* past its reads and before its first write; the rows a cascade is about  *)
(* to delete are the ones those reads returned.                            *)
(***************************************************************************)
Idle == [op |-> "idle"]

Request ==
  [op : {"idle"}]
    \cup [op : {"like", "insert"}, user : Users, post : PostRow]
    \cup [op : {"unlike"}, like : LikeRow]
    \cup [op : {"destroy_post"}, post : PostRow]
    \cup [op : {"delete_post"}, post : PostRow, likes : SUBSET LikeRow]
    \cup [op : {"destroy_user"}, user : Users]
    \cup [op : {"delete_user"}, user : Users, posts : SUBSET PostRow, likes : SUBSET LikeRow]

InTransaction(t) == req[t].op \in {"insert", "delete_post", "delete_user"}

LikesOf(p) == {l \in likes : l.post = p.id}

LikesBy(u) == {l \in likes : l.user = u}

PostsOf(u) == {p \in posts : p.user = u}

TypeOK ==
  /\ users \subseteq Users
  /\ posts \subseteq PostRow
  /\ likes_count \in [PostIds -> Nat]
  /\ likes \subseteq LikeRow
  /\ nextPost \in 1..(MaxPosts + 1)
  /\ nextLike \in 1..(MaxLikes + 1)
  /\ req \in [Threads -> Request]
  /\ stale \subseteq Threads

Init ==
  /\ users = Users
  /\ posts = {}
  /\ likes_count = [p \in PostIds |-> 0]
  /\ likes = {}
  /\ nextPost = 1
  /\ nextLike = 1
  /\ req = [t \in Threads |-> Idle]
  /\ stale = {}
----------------------------------------------------------------------------
(* The database. *)

BeginTransaction(t) == stale' = stale \ {t}

\* A commit that changed rows overtakes the snapshot of every open transaction.
Overtake ==
  stale' = IF UNCHANGED <<users, posts, likes>> THEN stale ELSE Threads

\* Mutant: the validation's reads and the insert are not one transaction.
CommitUnchecked(t) == t \in Threads /\ Overtake

Commit(t) ==
  /\ t \notin stale
  /\ Overtake

\* SQLITE_BUSY on the first write of an overtaken transaction: rolled back, 500.
SnapshotConflict(t) ==
  /\ InTransaction(t)
  /\ t \in stale
  /\ req' = [req EXCEPT ![t] = Idle]
  /\ UNCHANGED <<users, posts, likes_count, likes, nextPost, nextLike, stale>>
----------------------------------------------------------------------------
(* PostsController#create, once authorised and valid. *)

CreatePost(u) ==
  /\ nextPost <= MaxPosts
  /\ posts' = posts \cup {[id |-> nextPost, user |-> u]}
  /\ likes_count' = [likes_count EXCEPT ![nextPost] = 0]
  /\ nextPost' = nextPost + 1
  /\ UNCHANGED <<users, likes, nextLike, req>>
  /\ Overtake
----------------------------------------------------------------------------
(* LikesController#create. *)

FindPost(t, u, p) ==
  /\ req[t] = Idle
  /\ req' = [req EXCEPT ![t] = [op |-> "like", user |-> u, post |-> p]]
  /\ UNCHANGED <<users, posts, likes_count, likes, nextPost, nextLike, stale>>

\* belongs_to :user is required; [user_id, post_id] is validated as unique.
ValidLike(u, p) ==
  /\ u \in users
  /\ LikesBy(u) \cap LikesOf(p) = {}

ValidateLike(t) ==
  /\ req[t].op = "like"
  /\ req' = [req EXCEPT ![t] =
               IF ValidLike(req[t].user, req[t].post)
                 THEN [op |-> "insert", user |-> req[t].user, post |-> req[t].post]
                 ELSE Idle]
  /\ BeginTransaction(t)
  /\ UNCHANGED <<users, posts, likes_count, likes, nextPost, nextLike>>

InsertLike(t) ==
  /\ req[t].op = "insert"
  /\ req[t].post \in posts
  /\ nextLike <= MaxLikes
  /\ likes' = likes \cup {[id |-> nextLike, user |-> req[t].user, post |-> req[t].post.id]}
  /\ likes_count' = [likes_count EXCEPT ![req[t].post.id] = @ + 1]
  /\ nextLike' = nextLike + 1
  /\ req' = [req EXCEPT ![t] = Idle]
  /\ UNCHANGED <<users, posts, nextPost>>
  /\ Commit(t)

\* The post found earlier is gone: the foreign key likes -> posts raises.
InsertLikeFails(t) ==
  /\ req[t].op = "insert"
  /\ t \notin stale
  /\ req[t].post \notin posts
  /\ req' = [req EXCEPT ![t] = Idle]
  /\ UNCHANGED <<users, posts, likes_count, likes, nextPost, nextLike, stale>>
----------------------------------------------------------------------------
(* LikesController#destroy. *)

FindLike(t, l) ==
  /\ req[t] = Idle
  /\ req' = [req EXCEPT ![t] = [op |-> "unlike", like |-> l]]
  /\ UNCHANGED <<users, posts, likes_count, likes, nextPost, nextLike, stale>>

\* DELETE is the first statement of its transaction; the counter cache is
\* decremented only when a row was affected.
DestroyLike(t) ==
  /\ req[t].op = "unlike"
  /\ LET l == req[t].like
     IN  IF l \in likes
           THEN /\ likes' = likes \ {l}
                /\ likes_count' = [likes_count EXCEPT ![l.post] = @ - 1]
           ELSE UNCHANGED <<likes, likes_count>>
  /\ req' = [req EXCEPT ![t] = Idle]
  /\ UNCHANGED <<users, posts, nextPost, nextLike>>
  /\ Overtake
----------------------------------------------------------------------------
(* PostsController#destroy and its cascade. *)

FindPostToDestroy(t, p) ==
  /\ req[t] = Idle
  /\ req' = [req EXCEPT ![t] = [op |-> "destroy_post", post |-> p]]
  /\ UNCHANGED <<users, posts, likes_count, likes, nextPost, nextLike, stale>>

LoadPostCascade(t) ==
  /\ req[t].op = "destroy_post"
  /\ req' = [req EXCEPT ![t] = [op |-> "delete_post", post |-> req[t].post,
                                likes |-> LikesOf(req[t].post)]]
  /\ BeginTransaction(t)
  /\ UNCHANGED <<users, posts, likes_count, likes, nextPost, nextLike>>

\* Mutant: has_many :likes without dependent: :destroy.
DeletePostOnly(t) ==
  /\ req[t].op = "delete_post"
  /\ posts' = posts \ {req[t].post}
  /\ req' = [req EXCEPT ![t] = Idle]
  /\ UNCHANGED <<users, likes_count, likes, nextPost, nextLike>>
  /\ Commit(t)

\* has_many :likes, dependent: :destroy, then the row itself.
DeletePost(t) ==
  /\ req[t].op = "delete_post"
  /\ likes' = likes \ req[t].likes
  /\ posts' = posts \ {req[t].post}
  /\ req' = [req EXCEPT ![t] = Idle]
  /\ UNCHANGED <<users, likes_count, nextPost, nextLike>>
  /\ Commit(t)
----------------------------------------------------------------------------
(* UsersController#destroy and its cascade. *)

FindUserToDestroy(t, u) ==
  /\ req[t] = Idle
  /\ req' = [req EXCEPT ![t] = [op |-> "destroy_user", user |-> u]]
  /\ UNCHANGED <<users, posts, likes_count, likes, nextPost, nextLike, stale>>

LoadUserCascade(t) ==
  /\ req[t].op = "destroy_user"
  /\ LET u == req[t].user
         own == UNION {LikesOf(p) : p \in PostsOf(u)}
     IN  req' = [req EXCEPT ![t] = [op |-> "delete_user", user |-> u, posts |-> PostsOf(u),
                                    likes |-> LikesBy(u) \cup own]]
  /\ BeginTransaction(t)
  /\ UNCHANGED <<users, posts, likes_count, likes, nextPost, nextLike>>

\* Mutant: the user's likes are deleted without their callbacks (delete_all).
DeleteUserNoCallbacks(t) ==
  /\ req[t].op = "delete_user"
  /\ users' = users \ {req[t].user}
  /\ posts' = posts \ req[t].posts
  /\ likes' = likes \ req[t].likes
  /\ req' = [req EXCEPT ![t] = Idle]
  /\ UNCHANGED <<likes_count, nextPost, nextLike>>
  /\ Commit(t)

\* The user's posts go with their likes; then the user's other likes, each
\* taking one off the counter of its post; then the row itself.
DeleteUser(t) ==
  /\ req[t].op = "delete_user"
  /\ users' = users \ {req[t].user}
  /\ posts' = posts \ req[t].posts
  /\ likes' = likes \ req[t].likes
  /\ likes_count' =
       [i \in PostIds |->
          IF \E p \in req[t].posts : p.id = i
            THEN likes_count[i]
            ELSE likes_count[i] - Cardinality({l \in req[t].likes : l.post = i})]
  /\ req' = [req EXCEPT ![t] = Idle]
  /\ UNCHANGED <<nextPost, nextLike>>
  /\ Commit(t)

\* after_destroy :delete_stripe_customer raises for anything but an unknown
\* customer: the whole cascade is rolled back.
DeleteUserFails(t) ==
  /\ req[t].op = "delete_user"
  /\ t \notin stale
  /\ req' = [req EXCEPT ![t] = Idle]
  /\ UNCHANGED <<users, posts, likes_count, likes, nextPost, nextLike, stale>>
----------------------------------------------------------------------------
ServeLikes(t) ==
  \/ \E u \in Users, p \in posts : FindPost(t, u, p)
  \/ ValidateLike(t)
  \/ InsertLike(t)
  \/ InsertLikeFails(t)
  \/ \E l \in likes : FindLike(t, l)
  \/ DestroyLike(t)

ServeCascades(t) ==
  \/ \E p \in posts : FindPostToDestroy(t, p)
  \/ LoadPostCascade(t)
  \/ DeletePost(t)
  \/ \E u \in users : FindUserToDestroy(t, u)
  \/ LoadUserCascade(t)
  \/ DeleteUser(t)
  \/ DeleteUserFails(t)

Next ==
  \/ \E u \in users : CreatePost(u)
  \/ \E t \in Threads : ServeLikes(t) \/ ServeCascades(t) \/ SnapshotConflict(t)

Spec == Init /\ [][Next]_vars
----------------------------------------------------------------------------
(* Properties. *)

\* The counter cache never drifts: whatever requests and cascades interleave,
\* the likes_count of a post is the number of its rows in "likes".
CounterIsExact ==
  \A p \in posts : likes_count[p.id] = Cardinality(LikesOf(p))

\* 'has already liked this post': the validation alone (the table has no
\* unique index) keeps two concurrent likes of one user off the same post.
AtMostOneLike ==
  \A l, m \in likes : l.user = m.user /\ l.post = m.post => l = m

\* The cascades of a post or user leave nothing behind that the foreign keys
\* likes -> users, likes -> posts and posts -> users would refuse.
ForeignKeysHold ==
  /\ \A l \in likes : l.user \in users /\ \E p \in posts : p.id = l.post
  /\ \A p \in posts : p.user \in users

\* Every commit is one step of the ledger that LikeLedger promises: a set of
\* (user, post) pairs whose size per post is what the page shows.
Ledger == INSTANCE LikeLedger
            WITH members <- users,
                 board   <- posts,
                 liked   <- {<<l.user, l.post>> : l \in likes},
                 shown   <- [p \in posts |-> likes_count[p.id]]

ImplementsLedger == Ledger!Spec
=============================================================================
