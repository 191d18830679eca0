---------------------------- MODULE LikesProofs ----------------------------
(***************************************************************************)
(* Proofs about Likes, for any number of users, threads, posts and likes.  *)
(*                                                                         *)
(* CounterIsExact is not inductive by itself.  A transaction deletes the   *)
(* rows it has read, so the invariant must say that a snapshot nobody has  *)
(* overtaken still agrees with the tables (SnapshotsAgree); and a request  *)
(* holds a post row across steps, so it must say that ids are never reused *)
(* (FreshIds, KnownPosts).                                                 *)
(***************************************************************************)
EXTENDS Likes, TLAPS, FiniteSetTheorems

\* AUTOINCREMENT: ids in use are below the next one, and name one row.
FreshIds ==
  /\ \A p \in posts : p.id < nextPost
  /\ \A l \in likes : l.id < nextLike
  /\ \A p, q \in posts : p.id = q.id => p = q

\* The post a request has loaded keeps its id to itself, even once deleted.
KnownPost(r) ==
  r.op \in {"like", "insert", "destroy_post", "delete_post"} =>
    /\ r.post.id < nextPost
    /\ \A p \in posts : p.id = r.post.id => p = r.post

KnownPosts == \A t \in Threads : KnownPost(req[t])

\* What a transaction has read is what the tables hold.
SnapshotAgrees(r) ==
  /\ r.op = "insert" => ValidLike(r.user, r.post)
  /\ r.op = "delete_post" => r.likes = LikesOf(r.post)
  /\ r.op = "delete_user" =>
       /\ r.posts = PostsOf(r.user)
       /\ r.likes = {l \in likes : l.user = r.user \/ \E p \in PostsOf(r.user) : l.post = p.id}

SnapshotsAgree == \A t \in Threads \ stale : SnapshotAgrees(req[t])

LikesInv ==
  /\ TypeOK
  /\ IsFiniteSet(likes)
  /\ FreshIds
  /\ KnownPosts
  /\ SnapshotsAgree
  /\ ForeignKeysHold
  /\ AtMostOneLike
  /\ CounterIsExact
----------------------------------------------------------------------------
(* Steps that write no row. *)

\* A step that only moves the request of one thread keeps the invariant when
\* the new request knows its post and, if its snapshot counts, agrees with it.
LEMMA NoWrite ==
  ASSUME LikesInv, NEW t \in Threads, NEW r \in Request,
         UNCHANGED <<users, posts, likes_count, likes, nextPost, nextLike>>,
         req' = [req EXCEPT ![t] = r],
         stale' = stale \/ stale' = stale \ {t},
         KnownPost(r), SnapshotAgrees(r)
  PROVE  LikesInv'
<1>1. TypeOK'
  BY Zenon DEF LikesInv, TypeOK
<1>2. KnownPosts'
  <2> SUFFICES ASSUME NEW s \in Threads PROVE KnownPost(req[s])'
    BY Zenon DEF KnownPosts
  <2> KnownPost(req'[s])
    BY Zenon DEF LikesInv, TypeOK, KnownPosts
  <2> QED  BY Zenon DEF KnownPost
<1>3. SnapshotsAgree'
  <2> SUFFICES ASSUME NEW s \in Threads, s \notin stale' PROVE SnapshotAgrees(req[s])'
    BY Zenon DEF SnapshotsAgree
  <2> SnapshotAgrees(req'[s])
    BY Zenon DEF LikesInv, TypeOK, SnapshotsAgree
  <2> QED  BY Zenon DEF SnapshotAgrees, ValidLike, LikesBy, LikesOf, PostsOf
<1> QED
  BY <1>1, <1>2, <1>3, Zenon
  DEF LikesInv, FreshIds, ForeignKeysHold, AtMostOneLike, CounterIsExact, LikesOf

\* The request ends without an effect.
LEMMA Abandon ==
  ASSUME LikesInv, NEW t \in Threads,
         UNCHANGED <<users, posts, likes_count, likes, nextPost, nextLike>>,
         req' = [req EXCEPT ![t] = Idle],
         stale' = stale \/ stale' = stale \ {t}
  PROVE  LikesInv'
<1>1. Idle \in Request
  BY Zenon DEF Idle, Request
<1>2. KnownPost(Idle) /\ SnapshotAgrees(Idle)
  BY Zenon DEF Idle, KnownPost, SnapshotAgrees
<1> QED  BY <1>1, <1>2, NoWrite, Zenon

\* The fields of a request, by its operation.
LEMMA RequestFields ==
  ASSUME NEW r \in Request
  PROVE  /\ r.op \in {"like", "insert"} => r.user \in Users /\ r.post \in PostRow
         /\ r.op = "unlike" => r.like \in LikeRow
         /\ r.op \in {"destroy_post", "delete_post"} => r.post \in PostRow
         /\ r.op = "delete_post" => r.likes \subseteq LikeRow
         /\ r.op \in {"destroy_user", "delete_user"} => r.user \in Users
         /\ r.op = "delete_user" => r.posts \subseteq PostRow /\ r.likes \subseteq LikeRow
BY Zenon DEF Request

\* Loading the record a request is about.
LEMMA FindKeepsInv ==
  ASSUME LikesInv, NEW t \in Threads,
         \/ \E u \in Users, p \in posts : FindPost(t, u, p)
         \/ \E l \in likes : FindLike(t, l)
         \/ \E p \in posts : FindPostToDestroy(t, p)
         \/ \E u \in users : FindUserToDestroy(t, u)
  PROVE  LikesInv'
<1>1. ASSUME NEW u \in Users, NEW p \in posts, FindPost(t, u, p) PROVE LikesInv'
  <2> DEFINE r == [op |-> "like", user |-> u, post |-> p]
  <2>1. r \in Request
    BY Zenon DEF LikesInv, TypeOK, Request
  <2>2. KnownPost(r) /\ SnapshotAgrees(r)
    BY Zenon DEF LikesInv, FreshIds, KnownPost, SnapshotAgrees
  <2> QED  BY <1>1, <2>1, <2>2, NoWrite, Zenon DEF FindPost
<1>2. ASSUME NEW l \in likes, FindLike(t, l) PROVE LikesInv'
  <2> DEFINE r == [op |-> "unlike", like |-> l]
  <2>1. r \in Request
    BY Zenon DEF LikesInv, TypeOK, Request
  <2>2. KnownPost(r) /\ SnapshotAgrees(r)
    BY Zenon DEF KnownPost, SnapshotAgrees
  <2> QED  BY <1>2, <2>1, <2>2, NoWrite, Zenon DEF FindLike
<1>3. ASSUME NEW p \in posts, FindPostToDestroy(t, p) PROVE LikesInv'
  <2> DEFINE r == [op |-> "destroy_post", post |-> p]
  <2>1. r \in Request
    BY Zenon DEF LikesInv, TypeOK, Request
  <2>2. KnownPost(r) /\ SnapshotAgrees(r)
    BY Zenon DEF LikesInv, FreshIds, KnownPost, SnapshotAgrees
  <2> QED  BY <1>3, <2>1, <2>2, NoWrite, Zenon DEF FindPostToDestroy
<1>4. ASSUME NEW u \in users, FindUserToDestroy(t, u) PROVE LikesInv'
  <2> DEFINE r == [op |-> "destroy_user", user |-> u]
  <2>1. r \in Request
    BY Zenon DEF LikesInv, TypeOK, Request
  <2>2. KnownPost(r) /\ SnapshotAgrees(r)
    BY Zenon DEF KnownPost, SnapshotAgrees
  <2> QED  BY <1>4, <2>1, <2>2, NoWrite, Zenon DEF FindUserToDestroy
<1> QED  BY <1>1, <1>2, <1>3, <1>4, Zenon

\* The reads that open a transaction: the validation of a like, the rows of
\* a cascade.
LEMMA ReadKeepsInv ==
  ASSUME LikesInv, NEW t \in Threads,
         ValidateLike(t) \/ LoadPostCascade(t) \/ LoadUserCascade(t)
  PROVE  LikesInv'
<1> req[t] \in Request /\ KnownPost(req[t])
  BY Zenon DEF LikesInv, TypeOK, KnownPosts
<1>1. CASE ValidateLike(t)
  <2> DEFINE r == [op |-> "insert", user |-> req[t].user, post |-> req[t].post]
  <2>1. CASE ValidLike(req[t].user, req[t].post)
    <3>1. r \in Request
      BY <1>1, RequestFields, Zenon DEF ValidateLike, Request
    <3>2. KnownPost(r) /\ SnapshotAgrees(r)
      BY <1>1, <2>1, Zenon DEF ValidateLike, KnownPost, SnapshotAgrees
    <3> QED  BY <1>1, <2>1, <3>1, <3>2, NoWrite, Zenon DEF ValidateLike, BeginTransaction
  <2>2. CASE ~ ValidLike(req[t].user, req[t].post)
    BY <1>1, <2>2, Abandon, Zenon DEF ValidateLike, BeginTransaction
  <2> QED  BY <2>1, <2>2, Zenon
<1>2. CASE LoadPostCascade(t)
  <2> DEFINE r == [op |-> "delete_post", post |-> req[t].post, likes |-> LikesOf(req[t].post)]
  <2>1. r \in Request
    <3> LikesOf(req[t].post) \subseteq LikeRow
      BY Zenon DEF LikesInv, TypeOK, LikesOf
    <3> QED  BY <1>2, RequestFields, Zenon DEF LoadPostCascade, Request
  <2>2. KnownPost(r) /\ SnapshotAgrees(r)
    BY <1>2, Zenon DEF LoadPostCascade, KnownPost, SnapshotAgrees
  <2> QED  BY <1>2, <2>1, <2>2, NoWrite, Zenon DEF LoadPostCascade, BeginTransaction
<1>3. CASE LoadUserCascade(t)
  <2> DEFINE u == req[t].user
             doomed == LikesBy(u) \cup UNION {LikesOf(p) : p \in PostsOf(u)}
             r == [op |-> "delete_user", user |-> u, posts |-> PostsOf(u), likes |-> doomed]
  <2>1. doomed = {l \in likes : l.user = u \/ \E p \in PostsOf(u) : l.post = p.id}
    BY DEF LikesBy, LikesOf
  <2>2. r \in Request
    <3> PostsOf(u) \subseteq PostRow /\ doomed \subseteq LikeRow
      BY <2>1, Zenon DEF LikesInv, TypeOK, PostsOf
    <3> u \in Users
      BY <1>3, RequestFields, Zenon DEF LoadUserCascade
    <3> HIDE DEF doomed
    <3> QED  BY Zenon DEF Request
  <2>3. KnownPost(r) /\ SnapshotAgrees(r)
    BY <2>1, Zenon DEF KnownPost, SnapshotAgrees
  <2>4. req' = [req EXCEPT ![t] = r]
    BY <1>3, Zenon DEF LoadUserCascade
  <2> HIDE DEF r
  <2> QED  BY <1>3, <2>2, <2>3, <2>4, NoWrite, ZenonT(60) DEF LoadUserCascade, BeginTransaction
<1> QED  BY <1>1, <1>2, <1>3, Zenon
----------------------------------------------------------------------------
(* Steps that commit. *)

\* A commit cannot leave a snapshot that counts and disagrees with the tables.
LEMMA CommitOvertakes ==
  ASSUME LikesInv, Overtake, SnapshotAgrees(Idle),
         req' = req \/ \E t \in Threads : req' = [req EXCEPT ![t] = Idle]
  PROVE  SnapshotsAgree'
<1> SUFFICES ASSUME NEW s \in Threads, s \notin stale' PROVE SnapshotAgrees(req[s])'
  BY Zenon DEF SnapshotsAgree
<1>1. UNCHANGED <<users, posts, likes>> /\ s \notin stale
  BY Zenon DEF Overtake
<1>2. SnapshotAgrees(req'[s])
  BY <1>1, Zenon DEF LikesInv, TypeOK, SnapshotsAgree
<1> QED
  BY <1>1, <1>2, Zenon DEF SnapshotAgrees, ValidLike, LikesBy, LikesOf, PostsOf

\* Commits that create no post keep what the requests know of theirs.
LEMMA CommitKeepsKnown ==
  ASSUME LikesInv, posts' \subseteq posts, nextPost' = nextPost,
         \E t \in Threads : req' = [req EXCEPT ![t] = Idle]
  PROVE  KnownPosts'
<1> SUFFICES ASSUME NEW s \in Threads PROVE KnownPost(req[s])'
  BY Zenon DEF KnownPosts
<1>1. KnownPost(Idle)
  BY Zenon DEF KnownPost, Idle
<1>2. KnownPost(req'[s])
  BY <1>1, Zenon DEF LikesInv, TypeOK, KnownPosts
<1> QED  BY <1>2, Zenon DEF KnownPost

LEMMA CreatePostKeepsInv ==
  ASSUME LikesInv, NEW u \in users, CreatePost(u)
  PROVE  LikesInv'
<1> DEFINE new == [id |-> nextPost, user |-> u]
<1> USE DEF CreatePost
<1>1. TypeOK'
  <2> new \in PostRow /\ nextPost + 1 \in 1..(MaxPosts + 1)
    BY LikesAssumption DEF LikesInv, TypeOK, PostRow, PostIds
  <2> stale' \subseteq Threads
    BY Zenon DEF LikesInv, TypeOK, Overtake
  <2> QED  BY Zenon DEF LikesInv, TypeOK
<1>2. FreshIds'
  BY LikesAssumption DEF LikesInv, TypeOK, FreshIds, PostRow, PostIds
<1>3. KnownPosts'
  BY LikesAssumption, RequestFields
  DEF LikesInv, TypeOK, KnownPosts, KnownPost, PostRow, PostIds
<1>4. SnapshotsAgree'
  BY CommitOvertakes, Zenon DEF SnapshotAgrees, Idle
<1>5. ForeignKeysHold' /\ AtMostOneLike'
  BY DEF LikesInv, ForeignKeysHold, AtMostOneLike
<1>6. CounterIsExact'
  <2> SUFFICES ASSUME NEW p \in posts' PROVE likes_count'[p.id] = Cardinality(LikesOf(p)')
    BY Zenon DEF CounterIsExact
  <2>1. LikesOf(p)' = LikesOf(p)
    BY Zenon DEF LikesOf
  <2>2. CASE p \in posts
    BY <2>1, <2>2, LikesAssumption
    DEF LikesInv, TypeOK, CounterIsExact, FreshIds, PostRow, PostIds
  <2>3. CASE p = new
    <3>1. LikesOf(p) = {}
      BY <2>3 DEF LikesInv, TypeOK, ForeignKeysHold, FreshIds, LikesOf, PostRow, PostIds
    <3>2. Cardinality(LikesOf(p)') = 0
      BY <2>1, <3>1, FS_EmptySet, Zenon
    <3>3. likes_count'[p.id] = 0
      BY <2>3, LikesAssumption DEF LikesInv, TypeOK, PostIds
    <3> QED  BY <3>2, <3>3, Zenon
  <2> QED  BY <2>2, <2>3, Zenon
<1> QED  BY <1>1, <1>2, <1>3, <1>4, <1>5, <1>6, Zenon DEF LikesInv

LEMMA InsertLikeKeepsInv ==
  ASSUME LikesInv, NEW t \in Threads, InsertLike(t)
  PROVE  LikesInv'
<1> DEFINE u == req[t].user
           p == req[t].post
           new == [id |-> nextLike, user |-> u, post |-> p.id]
<1>1. /\ req[t] \in Request /\ u \in Users /\ p \in PostRow /\ p \in posts
      /\ new \in LikeRow /\ nextLike + 1 \in 1..(MaxLikes + 1)
  BY LikesAssumption, RequestFields, SMTT(40)
  DEF LikesInv, TypeOK, InsertLike, PostRow, LikeRow, LikeIds
<1>2. u \in users /\ \A l \in likes : ~ (l.user = u /\ l.post = p.id)
  BY Zenon DEF LikesInv, InsertLike, Commit, SnapshotsAgree, SnapshotAgrees, ValidLike, LikesBy, LikesOf
<1>3. Idle \in Request
  BY Zenon DEF Idle, Request
<1>4. TypeOK'
  <2> stale' \subseteq Threads
    BY Zenon DEF LikesInv, TypeOK, InsertLike, Commit, Overtake
  <2> p.id \in PostIds
    BY <1>1, Zenon DEF PostRow
  <2> QED  BY <1>1, <1>3 DEF LikesInv, TypeOK, InsertLike
<1>5. IsFiniteSet(likes')
  BY FS_AddElement, Zenon DEF LikesInv, InsertLike
<1>6. FreshIds'
  BY <1>1 DEF LikesInv, TypeOK, FreshIds, InsertLike, LikeRow, LikeIds
<1>7. KnownPosts' /\ SnapshotsAgree'
  BY CommitKeepsKnown, CommitOvertakes, ZenonT(60) DEF InsertLike, Commit, SnapshotAgrees, Idle
<1>8. ForeignKeysHold' /\ AtMostOneLike'
  BY <1>1, <1>2 DEF LikesInv, InsertLike, ForeignKeysHold, AtMostOneLike
<1>9. CounterIsExact'
  <2> SUFFICES ASSUME NEW q \in posts PROVE likes_count'[q.id] = Cardinality(LikesOf(q)')
    BY Zenon DEF CounterIsExact, InsertLike
  <2> USE DEF LikesInv
  <2>1. likes_count[q.id] = Cardinality(LikesOf(q)) /\ q.id \in PostIds /\ p.id \in PostIds
    BY <1>1, Zenon DEF CounterIsExact, TypeOK, PostRow
  <2>2. CASE q.id = p.id
    <3>1. LikesOf(q)' = LikesOf(q) \cup {new} /\ new \notin LikesOf(q)
      BY <1>2, <2>2 DEF LikesOf, InsertLike
    <3>2. IsFiniteSet(LikesOf(q))
      BY FS_Subset, Zenon DEF LikesOf
    <3>3. Cardinality(LikesOf(q)') = Cardinality(LikesOf(q)) + 1
      BY <3>1, <3>2, FS_AddElement, Zenon
    <3>4. likes_count'[q.id] = likes_count[q.id] + 1
      BY <2>1, <2>2, Zenon DEF InsertLike, TypeOK
    <3> QED  BY <2>1, <3>3, <3>4, Zenon
  <2>3. CASE q.id # p.id
    <3>1. LikesOf(q)' = LikesOf(q)
      BY <2>3 DEF LikesOf, InsertLike
    <3> QED  BY <2>1, <2>3, <3>1, Zenon DEF InsertLike, TypeOK
  <2> QED  BY <2>2, <2>3, Zenon
<1> QED  BY <1>4, <1>5, <1>6, <1>7, <1>8, <1>9, Zenon DEF LikesInv

LEMMA DestroyLikeKeepsInv ==
  ASSUME LikesInv, NEW t \in Threads, DestroyLike(t)
  PROVE  LikesInv'
<1> DEFINE l == req[t].like
<1>1. Idle \in Request /\ SnapshotAgrees(Idle)
  BY Zenon DEF Idle, Request, SnapshotAgrees
<1>2. CASE l \notin likes
  <2>1. stale' = stale
    BY <1>2, Zenon DEF DestroyLike, Overtake
  <2> QED  BY <1>2, <2>1, Abandon, ZenonT(60) DEF DestroyLike
<1>3. CASE l \in likes
  <2>1. PICK q \in posts : q.id = l.post
    BY <1>3, Zenon DEF LikesInv, ForeignKeysHold
  <2>2. /\ likes' = likes \ {l}
        /\ likes_count' = [likes_count EXCEPT ![q.id] = likes_count[q.id] - 1]
        /\ UNCHANGED <<users, posts, nextPost, nextLike>>
        /\ req' = [req EXCEPT ![t] = Idle]
        /\ Overtake
    BY <1>3, <2>1, Zenon DEF DestroyLike
  <2>3. \A p \in posts : /\ IsFiniteSet(LikesOf(p))
                        /\ likes_count[p.id] = Cardinality(LikesOf(p))
                        /\ p.id \in PostIds
    BY FS_Subset, Zenon DEF LikesInv, CounterIsExact, LikesOf, TypeOK, PostRow
  <2>4. LikesOf(q)' = LikesOf(q) \ {l} /\ l \in LikesOf(q)
    BY <1>3, <2>1, <2>2, Zenon DEF LikesOf
  <2>5. /\ Cardinality(LikesOf(q)') = likes_count[q.id] - 1
        /\ Cardinality(LikesOf(q)') \in Nat
    BY <2>3, <2>4, FS_RemoveElement, FS_CardinalityType
  <2>6. TypeOK'
    <3> stale' \subseteq Threads
      BY <2>2, Zenon DEF LikesInv, TypeOK, Overtake
    <3> QED  BY <1>1, <2>2, <2>3, <2>5, Zenon DEF LikesInv, TypeOK
  <2>7. IsFiniteSet(likes')
    BY <2>2, FS_RemoveElement, Zenon DEF LikesInv
  <2>8. FreshIds' /\ ForeignKeysHold' /\ AtMostOneLike'
    BY <2>2, Zenon DEF LikesInv, FreshIds, ForeignKeysHold, AtMostOneLike
  <2>9. KnownPosts' /\ SnapshotsAgree'
    BY <1>1, <2>2, CommitKeepsKnown, CommitOvertakes, ZenonT(60)
  <2>10. CounterIsExact'
    <3> SUFFICES ASSUME NEW p \in posts PROVE likes_count'[p.id] = Cardinality(LikesOf(p)')
      BY <2>2, Zenon DEF CounterIsExact
    <3>1. CASE p.id = q.id
      <4>1. LikesOf(p)' = LikesOf(q)'
        BY <3>1, Zenon DEF LikesOf
      <4> QED  BY <2>2, <2>3, <2>5, <3>1, <4>1, ZenonT(60) DEF LikesInv, TypeOK
    <3>2. CASE p.id # q.id
      <4>1. LikesOf(p)' = LikesOf(p)
        BY <2>1, <2>2, <3>2, Zenon DEF LikesOf
      <4>2. likes_count'[p.id] = likes_count[p.id]
        BY <2>2, <2>3, <3>2, Zenon DEF LikesInv, TypeOK
      <4> QED  BY <2>3, <4>1, <4>2, Zenon
    <3> QED  BY <3>1, <3>2, Zenon
  <2> QED  BY <2>6, <2>7, <2>8, <2>9, <2>10, Zenon DEF LikesInv
<1> QED  BY <1>2, <1>3, Zenon

LEMMA DeletePostKeepsInv ==
  ASSUME LikesInv, NEW t \in Threads, DeletePost(t)
  PROVE  LikesInv'
<1> DEFINE p == req[t].post
<1>1. Idle \in Request /\ SnapshotAgrees(Idle)
  BY Zenon DEF Idle, Request, SnapshotAgrees
<1>2. likes' = {l \in likes : l.post # p.id}
  BY DEF LikesInv, DeletePost, Commit, SnapshotsAgree, SnapshotAgrees, LikesOf
<1>3. \A q \in posts' : q \in posts /\ q.id # p.id
  BY Zenon DEF LikesInv, DeletePost, KnownPosts, KnownPost
<1>4. TypeOK'
  <2> stale' \subseteq Threads
    BY Zenon DEF LikesInv, TypeOK, DeletePost, Commit, Overtake
  <2> QED  BY <1>1, <1>2, <1>3, Zenon DEF LikesInv, TypeOK, DeletePost
<1>5. IsFiniteSet(likes')
  BY <1>2, FS_Subset, Zenon DEF LikesInv
<1>6. FreshIds' /\ AtMostOneLike'
  BY <1>2, <1>3, Zenon DEF LikesInv, DeletePost, FreshIds, AtMostOneLike
<1>7. ForeignKeysHold'
  BY <1>2, Zenon DEF LikesInv, DeletePost, ForeignKeysHold
<1>8. KnownPosts' /\ SnapshotsAgree'
  BY <1>1, <1>3, CommitKeepsKnown, CommitOvertakes, ZenonT(60) DEF DeletePost, Commit
<1>9. CounterIsExact'
  <2> SUFFICES ASSUME NEW q \in posts' PROVE likes_count'[q.id] = Cardinality(LikesOf(q)')
    BY Zenon DEF CounterIsExact
  <2>1. LikesOf(q)' = LikesOf(q)
    BY <1>2, <1>3, Zenon DEF LikesOf
  <2> QED  BY <1>3, <2>1, Zenon DEF LikesInv, DeletePost, CounterIsExact
<1> QED  BY <1>4, <1>5, <1>6, <1>7, <1>8, <1>9, ZenonT(60) DEF LikesInv

LEMMA DeleteUserKeepsInv ==
  ASSUME LikesInv, NEW t \in Threads, DeleteUser(t)
  PROVE  LikesInv'
<1> DEFINE u == req[t].user
           doomed == req[t].likes
           Doomed(i) == {l \in doomed : l.post = i}
<1>1. Idle \in Request /\ SnapshotAgrees(Idle)
  BY Zenon DEF Idle, Request, SnapshotAgrees
<1>2. /\ req[t].posts = PostsOf(u)
      /\ doomed = {l \in likes : l.user = u \/ \E p \in PostsOf(u) : l.post = p.id}
  BY Zenon DEF LikesInv, DeleteUser, Commit, SnapshotsAgree, SnapshotAgrees
<1>3. \A q \in posts' : /\ q \in posts /\ q.user # u /\ q.id \in PostIds
                        /\ ~ \E p \in PostsOf(u) : p.id = q.id
  BY <1>2, Zenon DEF LikesInv, DeleteUser, FreshIds, PostsOf, TypeOK, PostRow
<1>4. \A l \in likes' : l \in likes /\ l.user # u /\ ~ \E p \in PostsOf(u) : p.id = l.post
  BY <1>2, Zenon DEF DeleteUser
<1>5. ASSUME NEW p \in posts
      PROVE  /\ IsFiniteSet(LikesOf(p)) /\ IsFiniteSet(Doomed(p.id))
             /\ LikesOf(p)' = LikesOf(p) \ Doomed(p.id)
             /\ Cardinality(LikesOf(p)') = likes_count[p.id] - Cardinality(Doomed(p.id))
             /\ Cardinality(LikesOf(p)') \in Nat
  <2>1. IsFiniteSet(LikesOf(p)) /\ IsFiniteSet(Doomed(p.id))
    BY <1>2, FS_Subset, SMTT(40) DEF LikesInv, LikesOf
  <2>2. LikesOf(p)' = LikesOf(p) \ Doomed(p.id) /\ LikesOf(p) \cap Doomed(p.id) = Doomed(p.id)
    BY <1>2, Zenon DEF LikesOf, DeleteUser
  <2>3. likes_count[p.id] = Cardinality(LikesOf(p))
    BY Zenon DEF LikesInv, CounterIsExact
  <2> HIDE DEF Doomed
  <2>4. /\ IsFiniteSet(LikesOf(p)')
        /\ Cardinality(LikesOf(p)') = Cardinality(LikesOf(p)) - Cardinality(Doomed(p.id))
    BY <2>1, <2>2, FS_Difference, ZenonT(60)
  <2>5. Cardinality(LikesOf(p)') \in Nat
    BY <2>4, FS_CardinalityType, Zenon
  <2> QED  BY <2>1, <2>2, <2>3, <2>4, <2>5, ZenonT(60)
<1>6. TypeOK'
  <2>1. ASSUME NEW i \in PostIds PROVE likes_count'[i] \in Nat
    <3>1. CASE \E p \in req[t].posts : p.id = i
      BY <3>1, Zenon DEF LikesInv, TypeOK, DeleteUser
    <3>2. CASE ~ \E p \in req[t].posts : p.id = i
      <4>1. likes_count'[i] = likes_count[i] - Cardinality(Doomed(i)) /\ likes_count[i] \in Nat
        BY <3>2, Zenon DEF LikesInv, TypeOK, DeleteUser
      <4>2. CASE \E p \in posts : p.id = i
        BY <1>5, <4>1, <4>2, Zenon
      <4>3. CASE ~ \E p \in posts : p.id = i
        <5>1. Doomed(i) = {}
          BY <1>2, <4>3, Zenon DEF LikesInv, ForeignKeysHold
        <5>2. Cardinality(Doomed(i)) = 0
          BY <5>1, FS_EmptySet, Zenon
        <5> QED  BY <4>1, <5>2
      <4> QED  BY <4>2, <4>3, Zenon
    <3> QED  BY <3>1, <3>2, Zenon
  <2>2. likes_count' \in [PostIds -> Nat]
    BY <2>1, Zenon DEF DeleteUser
  <2>3. stale' \subseteq Threads
    BY Zenon DEF LikesInv, TypeOK, DeleteUser, Commit, Overtake
  <2> QED  BY <1>1, <2>2, <2>3, Zenon DEF LikesInv, TypeOK, DeleteUser
<1>7. IsFiniteSet(likes')
  BY <1>4, FS_Subset, Zenon DEF LikesInv
<1>8. FreshIds' /\ AtMostOneLike'
  BY <1>3, <1>4, ZenonT(60) DEF LikesInv, DeleteUser, FreshIds, AtMostOneLike
<1>9. ForeignKeysHold'
  BY <1>2, <1>3, <1>4, SMTT(40) DEF LikesInv, DeleteUser, ForeignKeysHold
<1>10. KnownPosts' /\ SnapshotsAgree'
  BY <1>1, <1>3, CommitKeepsKnown, CommitOvertakes, Zenon DEF DeleteUser, Commit
<1>11. CounterIsExact'
  <2> SUFFICES ASSUME NEW q \in posts' PROVE likes_count'[q.id] = Cardinality(LikesOf(q)')
    BY Zenon DEF CounterIsExact
  <2>1. likes_count'[q.id] = likes_count[q.id] - Cardinality(Doomed(q.id))
    BY <1>2, <1>3, ZenonT(60) DEF DeleteUser
  <2> QED  BY <1>3, <1>5, <2>1, Zenon
<1> QED  BY <1>6, <1>7, <1>8, <1>9, <1>10, <1>11, Zenon DEF LikesInv
----------------------------------------------------------------------------
LEMMA InitInv == Init => LikesInv
<1> SUFFICES ASSUME Init PROVE LikesInv
  BY Zenon
<1>1. Idle \in Request /\ KnownPost(Idle) /\ SnapshotAgrees(Idle)
  BY Zenon DEF Idle, Request, KnownPost, SnapshotAgrees
<1>2. TypeOK
  BY <1>1, LikesAssumption DEF Init, TypeOK
<1>3. KnownPosts /\ SnapshotsAgree
  BY <1>1, Zenon DEF Init, KnownPosts, SnapshotsAgree
<1> QED
  BY <1>2, <1>3, FS_EmptySet, Zenon
  DEF Init, LikesInv, FreshIds, ForeignKeysHold, AtMostOneLike, CounterIsExact

LEMMA NextKeepsInv == LikesInv /\ [Next]_vars => LikesInv'
<1> SUFFICES ASSUME LikesInv, [Next]_vars PROVE LikesInv'
  BY Zenon
<1>1. ASSUME NEW u \in users, CreatePost(u) PROVE LikesInv'
  BY <1>1, CreatePostKeepsInv, Zenon
<1>2. ASSUME NEW t \in Threads, ServeLikes(t) PROVE LikesInv'
  <2>1. CASE InsertLikeFails(t)
    BY <2>1, Abandon, Zenon DEF InsertLikeFails
  <2> QED
    BY <1>2, <2>1, FindKeepsInv, ReadKeepsInv, InsertLikeKeepsInv, DestroyLikeKeepsInv, Zenon
    DEF ServeLikes
<1>3. ASSUME NEW t \in Threads, ServeCascades(t) PROVE LikesInv'
  <2>1. CASE DeleteUserFails(t)
    BY <2>1, Abandon, Zenon DEF DeleteUserFails
  <2> QED
    BY <1>3, <2>1, FindKeepsInv, ReadKeepsInv, DeletePostKeepsInv, DeleteUserKeepsInv, Zenon
    DEF ServeCascades
<1>4. ASSUME NEW t \in Threads, SnapshotConflict(t) PROVE LikesInv'
  BY <1>4, Abandon, Zenon DEF SnapshotConflict
<1>5. CASE UNCHANGED vars
  BY <1>5
  DEF vars, LikesInv, TypeOK, FreshIds, KnownPosts, KnownPost, SnapshotsAgree, SnapshotAgrees,
      ValidLike, LikesBy, LikesOf, PostsOf, ForeignKeysHold, AtMostOneLike, CounterIsExact
<1> QED  BY <1>1, <1>2, <1>3, <1>4, <1>5, Zenon DEF Next

\* The inductive invariant behind the theorems below.
THEOREM LikesInvariant == Spec => []LikesInv
BY InitInv, NextKeepsInv, PTL DEF Spec

\* Type correctness; in particular no interleaving of unlikes and cascades
\* takes a counter cache below zero.
THEOREM LikesTypeCorrect == Spec => []TypeOK
<1>1. LikesInv => TypeOK
  BY Zenon DEF LikesInv
<1> QED  BY <1>1, LikesInvariant, PTL

\* The counter cache is exact for any number of users, posts, likes, threads.
THEOREM CounterCacheExact == Spec => []CounterIsExact
<1>1. LikesInv => CounterIsExact
  BY Zenon DEF LikesInv
<1> QED  BY <1>1, LikesInvariant, PTL

\* The validation of Like keeps duplicates out without a unique index.
THEOREM NoDuplicateLikes == Spec => []AtMostOneLike
<1>1. LikesInv => AtMostOneLike
  BY Zenon DEF LikesInv
<1> QED  BY <1>1, LikesInvariant, PTL

\* Neither cascade leaves a like or a post without its owner.
THEOREM CascadesComplete == Spec => []ForeignKeysHold
<1>1. LikesInv => ForeignKeysHold
  BY Zenon DEF LikesInv
<1> QED  BY <1>1, LikesInvariant, PTL
----------------------------------------------------------------------------
(***************************************************************************)
(* Likes implements LikeLedger.  The ledger shows the number of pairs; the *)
(* page shows the counter cache, which counts rows.  The two agree because *)
(* a pair has one row (AtMostOneLike) and the counter is exact, before and *)
(* after every step; so a step has to be matched on users, posts and likes *)
(* only.                                                                   *)
(***************************************************************************)
Pairs(L) == {<<l.user, l.post>> : l \in L}

PairsAt(L, i) == {pair \in Pairs(L) : pair[2] = i}

RowsAt(L, i) == {l \in L : l.post = i}

PairHasOneRow(L) == \A l, m \in L : l.user = m.user /\ l.post = m.post => l = m

\* Counting pairs is counting rows.
LEMMA PairsCount ==
  ASSUME NEW L, IsFiniteSet(L), PairHasOneRow(L), NEW i
  PROVE  Cardinality(PairsAt(L, i)) = Cardinality(RowsAt(L, i))
<1> DEFINE S == RowsAt(L, i)
           T == PairsAt(L, i)
           f == [l \in S |-> <<l.user, l.post>>]
<1>1. f \in Injection(S, T)
  <2>1. \A l \in S : <<l.user, l.post>> \in T
    BY Zenon DEF Pairs, PairsAt, RowsAt
  <2>2. \A l, m \in S : <<l.user, l.post>> = <<m.user, m.post>> => l = m
    BY Zenon DEF PairHasOneRow, RowsAt
  <2> QED  BY <2>1, <2>2, Zenon DEF Injection, IsInjective
<1>2. f \in Surjection(S, T)
  <2>1. \A pair \in T : \E l \in S : pair = <<l.user, l.post>>
    BY DEF Pairs, PairsAt, RowsAt
  <2> QED  BY <1>1, <2>1, Zenon DEF Injection, Surjection
<1>3. ExistsBijection(S, T)
  BY <1>1, <1>2, Zenon DEF ExistsBijection, Bijection
<1>4. IsFiniteSet(S)
  BY FS_Subset, Zenon DEF RowsAt
<1> QED  BY <1>3, <1>4, FS_Bijection, Zenon

\* The two modules count with the same operator.
LEMMA SameCardinality == \A S : Ledger!Cardinality(S) = Cardinality(S)
BY Zenon DEF Cardinality, Ledger!Cardinality

\* What the page shows is what the ledger shows, in the state after a step.
LEMMA ShownAfter ==
  ASSUME LikesInv'
  PROVE  Ledger!ShowLikers
<1>1. \A p \in posts' : likes_count'[p.id] = Cardinality({l \in likes' : l.post = p.id})
  BY Zenon DEF LikesInv, CounterIsExact, LikesOf
<1>2. ASSUME NEW p
      PROVE  Ledger!Cardinality(Ledger!Likers(Pairs(likes'), p))
               = Cardinality({l \in likes' : l.post = p.id})
  <2>1. IsFiniteSet(likes') /\ PairHasOneRow(likes')
    BY Zenon DEF LikesInv, AtMostOneLike, PairHasOneRow
  <2>2. Cardinality(PairsAt(likes', p.id)) = Cardinality(RowsAt(likes', p.id))
    BY <2>1, PairsCount, Zenon
  <2> QED  BY <2>2, SameCardinality, Zenon DEF Ledger!Likers, PairsAt, RowsAt
<1>3. [p \in posts' |-> likes_count'[p.id]]
        = [p \in posts' |-> Ledger!Cardinality(Ledger!Likers(Pairs(likes'), p))]
  BY <1>1, <1>2, ZenonT(60)
<1> QED  BY <1>3, Zenon DEF Ledger!ShowLikers, Pairs

\* And in the state before it, so that a step without a write changes nothing.
LEMMA Stutter ==
  ASSUME LikesInv, LikesInv', UNCHANGED <<users, posts, likes>>
  PROVE  UNCHANGED Ledger!ledger
<1>1. ASSUME NEW p \in posts PROVE likes_count'[p.id] = likes_count[p.id]
  <2>1. LikesOf(p)' = LikesOf(p)
    BY Zenon DEF LikesOf
  <2> QED  BY <2>1 DEF LikesInv, CounterIsExact
<1> QED  BY <1>1, Zenon DEF Ledger!ledger

LEMMA InitIsLedger == Init => Ledger!Init
BY Zenon DEF Init, Ledger!Init

LEMMA WritesAreLedger ==
  ASSUME LikesInv, LikesInv', NEW t \in Threads,
         InsertLike(t) \/ DestroyLike(t) \/ DeletePost(t) \/ DeleteUser(t)
  PROVE  Ledger!Next \/ UNCHANGED Ledger!ledger
<1>0. /\ req[t] \in Request /\ KnownPost(req[t])
      /\ t \notin stale => SnapshotAgrees(req[t])
  BY Zenon DEF LikesInv, TypeOK, KnownPosts, SnapshotsAgree
<1>1. CASE InsertLike(t)
  <2>0. PICK u, p : u = req[t].user /\ p = req[t].post
    BY Zenon
  <2>1. u \in users /\ p \in posts /\ \A l \in likes : ~ (l.user = u /\ l.post = p.id)
    BY <1>0, <1>1, <2>0, Zenon DEF InsertLike, Commit, SnapshotAgrees, ValidLike, LikesBy, LikesOf
  <2>2. /\ likes' = likes \cup {[id |-> nextLike, user |-> u, post |-> p.id]}
        /\ UNCHANGED <<users, posts>>
    BY <1>1, <2>0, Zenon DEF InsertLike
  <2>3. Pairs(likes') = Pairs(likes) \cup {<<u, p.id>>}
    <3>1. PICK new : new = [id |-> nextLike, user |-> u, post |-> p.id]
      BY Zenon
    <3>2. new.user = u /\ new.post = p.id /\ likes' = likes \cup {new}
      BY <2>2, <3>1, Zenon
    <3> QED  BY <3>2, Zenon DEF Pairs
  <2>4. <<u, p.id>> \notin Pairs(likes)
    BY <2>1, Zenon DEF Pairs
  <2>5. Ledger!Like(u, p)
    BY <2>2, <2>3, <2>4, ShownAfter, Zenon DEF Ledger!Like, Pairs
  <2> QED  BY <2>1, <2>5, Zenon DEF Ledger!Next
<1>2. CASE DestroyLike(t)
  <2>0. PICK l : l = req[t].like
    BY Zenon
  <2>1. CASE l \notin likes
    BY <1>2, <2>0, <2>1, Stutter, Zenon DEF DestroyLike
  <2>2. CASE l \in likes
    <3>1. likes' = likes \ {l} /\ UNCHANGED <<users, posts>>
      BY <1>2, <2>0, <2>2, Zenon DEF DestroyLike
    <3>2. \A m \in likes : <<m.user, m.post>> = <<l.user, l.post>> => m = l
      BY <2>2, Zenon DEF LikesInv, AtMostOneLike
    <3>3. Pairs(likes') = Pairs(likes) \ {<<l.user, l.post>>}
      BY <3>1, <3>2, Zenon DEF Pairs
    <3>4. Ledger!Unlike(<<l.user, l.post>>)
      BY <3>1, <3>3, ShownAfter, Zenon DEF Ledger!Unlike, Pairs
    <3>5. \E pair \in Pairs(likes) : Ledger!Unlike(pair)
      BY <2>2, <3>4, Zenon DEF Pairs
    <3> QED  BY <3>5, Zenon DEF Ledger!Next, Pairs
  <2> QED  BY <2>1, <2>2, Zenon
<1>3. CASE DeletePost(t)
  <2>0. PICK p : p = req[t].post
    BY Zenon
  <2>1. /\ likes' = {l \in likes : l.post # p.id}
        /\ posts' = posts \ {p} /\ UNCHANGED users
    BY <1>0, <1>3, <2>0, Zenon DEF DeletePost, Commit, SnapshotAgrees, LikesOf
  <2>2. CASE p \in posts
    <3>1. Pairs(likes') = Pairs(likes) \ {pair \in Pairs(likes) : pair[2] = p.id}
      BY <2>1, SMTT(40) DEF Pairs
    <3>2. Ledger!Retract(p)
      BY <2>1, <3>1, ShownAfter, Zenon DEF Ledger!Retract, Ledger!Likers, Pairs
    <3> QED  BY <2>2, <3>2, Zenon DEF Ledger!Next
  <2>3. CASE p \notin posts
    <3>1. \A l \in likes : l.post # p.id
      BY <1>0, <1>3, <2>0, <2>3 DEF DeletePost, KnownPost, LikesInv, ForeignKeysHold
    <3> QED  BY <2>1, <2>3, <3>1, Stutter, ZenonT(60)
  <2> QED  BY <2>2, <2>3, Zenon
<1>4. CASE DeleteUser(t)
  <2>0. PICK u : u = req[t].user
    BY Zenon
  <2>1. /\ users' = users \ {u}
        /\ posts' = {p \in posts : p.user # u}
        /\ likes' = {l \in likes : l.user # u /\ ~ \E p \in PostsOf(u) : l.post = p.id}
    BY <1>0, <1>4, <2>0, ZenonT(60) DEF DeleteUser, Commit, SnapshotAgrees, PostsOf
  <2>2. CASE u \in users
    <3>1. ASSUME NEW l \in likes
          PROVE  (~ \E p \in PostsOf(u) : l.post = p.id) <=> \E p \in posts' : p.id = l.post
      <4>1. PICK q \in posts : q.id = l.post
        BY ZenonT(60) DEF LikesInv, ForeignKeysHold
      <4>2. \A p \in posts : p.id = l.post => p = q
        BY <4>1, Zenon DEF LikesInv, FreshIds
      <4>3. (\E p \in PostsOf(u) : l.post = p.id) <=> q.user = u
        BY <4>1, <4>2, Zenon DEF PostsOf
      <4>4. (\E p \in posts' : p.id = l.post) <=> q.user # u
        BY <2>1, <4>1, <4>2, Zenon
      <4> QED  BY <4>3, <4>4, Zenon
    <3>2. Pairs(likes') =
            {pair \in Pairs(likes) : pair[1] # u /\ \E p \in posts' : p.id = pair[2]}
      BY <2>1, <3>1, SMTT(40) DEF Pairs
    <3>3. Ledger!Leave(u)
      BY <2>1, <3>2, ShownAfter, Zenon DEF Ledger!Leave, Pairs
    <3> QED  BY <2>2, <3>3, Zenon DEF Ledger!Next
  <2>3. CASE u \notin users
    <3>1. PostsOf(u) = {} /\ \A l \in likes : l.user # u
      BY <2>3, Zenon DEF LikesInv, ForeignKeysHold, PostsOf
    <3> QED  BY <2>1, <2>3, <3>1, Stutter, Zenon DEF PostsOf
  <2> QED  BY <2>2, <2>3, Zenon
<1> QED  BY <1>1, <1>2, <1>3, <1>4, Zenon

LEMMA NextIsLedger ==
  LikesInv /\ LikesInv' /\ [Next]_vars => [Ledger!Next]_(Ledger!ledger)
<1> SUFFICES ASSUME LikesInv, LikesInv', [Next]_vars
             PROVE  Ledger!Next \/ UNCHANGED Ledger!ledger
  BY Zenon
<1>1. ASSUME NEW u \in users, CreatePost(u) PROVE Ledger!Next
  <2>1. nextPost \in 1..MaxPosts /\ \A p \in posts : p.id # nextPost
    BY <1>1, LikesAssumption, SMTT(40) DEF CreatePost, LikesInv, TypeOK, FreshIds, PostRow, PostIds
  <2>2. Ledger!Publish(u, nextPost)
    BY <1>1, <2>1, ShownAfter, Zenon DEF CreatePost, Ledger!Publish
  <2> QED  BY <2>1, <2>2, Zenon DEF Ledger!Next
<1>2. CASE UNCHANGED <<users, posts, likes>>
  BY <1>2, Stutter, Zenon
<1>3. ASSUME NEW t \in Threads,
             ServeLikes(t) \/ ServeCascades(t) \/ SnapshotConflict(t),
             ~ UNCHANGED <<users, posts, likes>>
      PROVE  InsertLike(t) \/ DestroyLike(t) \/ DeletePost(t) \/ DeleteUser(t)
  BY <1>3, Zenon
  DEF ServeLikes, ServeCascades, SnapshotConflict, FindPost, ValidateLike, InsertLikeFails,
      FindLike, FindPostToDestroy, LoadPostCascade, FindUserToDestroy, LoadUserCascade,
      DeleteUserFails
<1>4. UNCHANGED vars => UNCHANGED <<users, posts, likes>>
  BY Zenon DEF vars
<1> QED  BY <1>1, <1>2, <1>3, <1>4, WritesAreLedger, Zenon DEF Next

\* With any number of users, threads, posts and likes, LikesController, the
\* counter cache and the two cascades implement the ledger: every commit is
\* one like, one unlike, one post published or withdrawn, or one member
\* leaving with everything of theirs, and the page always shows the number
\* of people who like a post.
THEOREM LikesImplementLedger == Spec => ImplementsLedger
<1>1. Init => Ledger!Init
  BY InitIsLedger, Zenon
<1>2. LikesInv /\ LikesInv' /\ [Next]_vars => [Ledger!Next]_(Ledger!ledger)
  BY NextIsLedger, Zenon
<1> QED  BY <1>1, <1>2, LikesInvariant, PTL DEF Spec, ImplementsLedger, Ledger!Spec
=============================================================================
