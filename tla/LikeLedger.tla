----------------------------- MODULE LikeLedger -----------------------------
(***************************************************************************)
(* What the likes promise, without requests, row ids, transactions or a    *)
(* counter cache: who likes which post is a set of pairs, and a post shows *)
(* the number of members who like it.  Removing a post or a member is one  *)
(* step that takes everything of theirs along.                             *)
(***************************************************************************)
EXTENDS Naturals, FiniteSets

CONSTANTS Users, MaxPosts

VARIABLES members,  \* users with an account
          board,    \* posts, as [id, user] records
          liked,    \* pairs <<user, id of the post>>
          shown     \* the number of likes a post displays

ledger == <<members, board, liked, shown>>

Likers(pairs, p) == {pair \in pairs : pair[2] = p.id}

\* What every post of the new board shows once the step is done.
ShowLikers == shown' = [p \in board' |-> Cardinality(Likers(liked', p))]

Init ==
  /\ members = Users
  /\ board = {}
  /\ liked = {}
  /\ shown = [p \in {} |-> 0]

Publish(u, i) ==
  /\ \A p \in board : p.id # i
  /\ board' = board \cup {[id |-> i, user |-> u]}
  /\ UNCHANGED <<members, liked>>
  /\ ShowLikers

Like(u, p) ==
  /\ <<u, p.id>> \notin liked
  /\ liked' = liked \cup {<<u, p.id>>}
  /\ UNCHANGED <<members, board>>
  /\ ShowLikers

Unlike(pair) ==
  /\ liked' = liked \ {pair}
  /\ UNCHANGED <<members, board>>
  /\ ShowLikers

Retract(p) ==
  /\ board' = board \ {p}
  /\ liked' = liked \ Likers(liked, p)
  /\ UNCHANGED members
  /\ ShowLikers

Leave(u) ==
  /\ members' = members \ {u}
  /\ board' = {p \in board : p.user # u}
  /\ liked' = {pair \in liked : pair[1] # u /\ \E p \in board' : p.id = pair[2]}
  /\ ShowLikers

Next ==
  \/ \E u \in members, i \in 1..MaxPosts : Publish(u, i)
  \/ \E u \in members, p \in board : Like(u, p)
  \/ \E pair \in liked : Unlike(pair)
  \/ \E p \in board : Retract(p)
  \/ \E u \in members : Leave(u)

Spec == Init /\ [][Next]_ledger
=============================================================================
