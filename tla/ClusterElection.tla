--------------------------- MODULE ClusterElection ---------------------------
(***************************************************************************)
(* Redis Cluster: the election that replaces the master of one range of    *)
(* hash slots (cluster.c).  "Group" is that master and its replicas, any   *)
(* of which may come to own the range; "Voters" are the other masters.     *)
(*                                                                         *)
(* The bus is TCP: a message is delivered once or lost, but messages of    *)
(* different links overtake each other.  A handler and the                 *)
(* clusterBeforeSleep that ends its event loop iteration are one step,     *)
(* because a packet leaves in a later iteration.  Times are abstracted to  *)
(* the phases that clusterHandleSlaveFailover tells apart, each of which   *)
(* ends at any moment; whether a node flags the master as FAIL is not      *)
(* decided here, so every step that asks for the flag may also not be      *)
(* taken.                                                                  *)
(***************************************************************************)
EXTENDS Naturals, FiniteSets

CONSTANTS Voters,      \* masters of the other slots
          Group,       \* the nodes that may own the range
          Owner0,      \* the member of Group that owns it at first
          MaxEpoch,    \* bound: epochs in which a vote is asked for
          MaxRestarts, \* bound: crashes
          PromptVotes  \* no message of an election outlives auth_retry_time

ASSUME ElectionAssumption ==
  /\ IsFiniteSet(Voters) /\ IsFiniteSet(Group)
  /\ Voters \cap Group = {}
  /\ Owner0 \in Group
  /\ MaxEpoch \in Nat \ {0} /\ MaxRestarts \in Nat
  /\ PromptVotes \in BOOLEAN

VARIABLES currentEpoch,  \* node -> server.cluster->currentEpoch
          savedEpoch,    \* node -> currentEpoch in its nodes.conf
          lastVoteEpoch, \* node -> epoch of its last vote, also in nodes.conf
          owner,         \* node -> owner of the range in its table
          ownerEpoch,    \* node -> configEpoch of that owner in its table
          phase,         \* member of Group -> failover_auth_time and failover_auth_sent
          authEpoch,     \* failover_auth_epoch
          counted,       \* the ACKs behind failover_auth_count
          requests,      \* broadcast FAILOVER_AUTH_REQUESTs with a packet in flight
          acks,          \* FAILOVER_AUTH_ACK packets in flight
          votes,         \* history: every ACK ever sent
          won,           \* history: elections won
          restarts       \* crashes so far

table == <<owner, ownerEpoch>>
auth  == <<phase, authEpoch, counted>>
vars  == <<currentEpoch, savedEpoch, lastVoteEpoch, table, auth, requests, acks, votes, won,
           restarts>>

Node  == Voters \cup Group
Epoch == 0..MaxEpoch

\* "idle": auth_retry_time is over, or auth_timeout is and nothing can happen before it.
\* "scheduled": an election is set up.  "sent": votes are asked for and may be counted.
Phase == {"idle", "scheduled", "sent"}

Request == [from : Group, epoch : Epoch, configEpoch : Epoch, master : Group, force : BOOLEAN]
Ack     == [from : Node, to : Group, epoch : Epoch]
Victory == [node : Group, epoch : Epoch]

TypeOK ==
  /\ currentEpoch \in [Node -> Epoch] /\ savedEpoch \in [Node -> Epoch]
  /\ lastVoteEpoch \in [Node -> Epoch]
  /\ owner \in [Node -> Group] /\ ownerEpoch \in [Node -> Epoch]
  /\ phase \in [Group -> Phase]
  /\ authEpoch \in [Group -> Epoch] /\ counted \in [Group -> SUBSET Ack]
  /\ requests \subseteq Request /\ acks \subseteq Ack /\ votes \subseteq Ack
  /\ won \subseteq Victory
  /\ restarts \in 0..MaxRestarts

\* Masters that serve slots, whether they are flagged as failing or not.
clusterSize == Cardinality(Voters) + 1

\* Mutant: half of the masters is taken for a majority.
NeededHalf == clusterSize \div 2

neededQuorum == (clusterSize \div 2) + 1

ServesSlots(n) == n \in Voters \/ owner[n] = n
Larger(e, f) == IF e < f THEN f ELSE e

Init ==
  /\ currentEpoch = [n \in Node |-> 1]
  /\ savedEpoch = [n \in Node |-> 1]
  /\ lastVoteEpoch = [n \in Node |-> 0]
  /\ owner = [n \in Node |-> Owner0]
  /\ ownerEpoch = [n \in Node |-> 1]
  /\ phase = [r \in Group |-> "idle"]
  /\ authEpoch = [r \in Group |-> 0]
  /\ counted = [r \in Group |-> {}]
  /\ requests = {} /\ acks = {} /\ votes = {}
  /\ won = {[node |-> Owner0, epoch |-> 1]}
  /\ restarts = 0

-----------------------------------------------------------------------------
(* The replica: clusterHandleSlaveFailover, run by clusterCron and by      *)
(* clusterBeforeSleep.                                                     *)

\* No packet of an earlier election of r is still under way.
Settled(r) ==
  /\ \A m \in requests : m.from # r
  /\ \A a \in acks : a.to # r

\* auth_age > auth_retry_time: an election is set up, to start after a delay that grows
\* with the rank of the replica.
ScheduleElection(r) ==
  /\ owner[r] # r
  /\ phase[r] = "idle"
  /\ PromptVotes => Settled(r)
  /\ phase' = [phase EXCEPT ![r] = "scheduled"]
  /\ counted' = [counted EXCEPT ![r] = {}]
  /\ UNCHANGED <<currentEpoch, savedEpoch, lastVoteEpoch, table, authEpoch, requests, acks,
                 votes, won, restarts>>

\* auth_age > auth_timeout: the election is too old to be valid.
ElectionExpires(r) ==
  /\ phase[r] # "idle"
  /\ phase' = [phase EXCEPT ![r] = "idle"]
  /\ UNCHANGED <<currentEpoch, savedEpoch, lastVoteEpoch, table, authEpoch, counted, requests,
                 acks, votes, won, restarts>>

\* clusterRequestFailoverAuth: the header carries the slots and the configEpoch of the
\* master.  When clusterBeforeSleep itself runs this, nodes.conf is saved one iteration
\* later, after the packets may have left.
AskForVotes(r, force, saved) ==
  /\ owner[r] # r
  /\ phase[r] = "scheduled"
  /\ currentEpoch[r] < MaxEpoch
  /\ LET e == currentEpoch[r] + 1 IN
       /\ currentEpoch' = [currentEpoch EXCEPT ![r] = e]
       /\ savedEpoch' = IF saved THEN [savedEpoch EXCEPT ![r] = e] ELSE savedEpoch
       /\ authEpoch' = [authEpoch EXCEPT ![r] = e]
       /\ requests' = requests \cup {[from |-> r, epoch |-> e, configEpoch |-> ownerEpoch[r],
                                      master |-> owner[r], force |-> force]}
  /\ phase' = [phase EXCEPT ![r] = "sent"]
  /\ UNCHANGED <<lastVoteEpoch, table, counted, acks, votes, won, restarts>>

\* An ACK counts when its sender serves slots in our table and its epoch is not older
\* than failover_auth_epoch.
ReceiveAck(a) ==
  /\ a \in acks
  /\ acks' = acks \ {a}
  /\ currentEpoch' = [currentEpoch EXCEPT ![a.to] = Larger(@, a.epoch)]
  /\ counted' = IF /\ a.from \in Voters \/ owner[a.to] = a.from
                   /\ a.epoch >= authEpoch[a.to]
                  THEN [counted EXCEPT ![a.to] = @ \cup {a}] ELSE counted
  /\ UNCHANGED <<savedEpoch, lastVoteEpoch, table, phase, authEpoch, requests, votes, won,
                 restarts>>

\* Mutant: the new owner keeps the configEpoch of the master it replaces.
WinElectionKeepsEpoch(r) ==
  /\ owner[r] # r
  /\ phase[r] = "sent"
  /\ Cardinality(counted[r]) >= neededQuorum
  /\ owner' = [owner EXCEPT ![r] = r]
  /\ savedEpoch' = [savedEpoch EXCEPT ![r] = currentEpoch[r]]
  /\ won' = won \cup {[node |-> r, epoch |-> authEpoch[r]]}
  /\ UNCHANGED <<currentEpoch, lastVoteEpoch, ownerEpoch, auth, requests, acks, votes, restarts>>

\* clusterFailoverReplaceYourMaster claims the slots under the epoch of the election and
\* saves nodes.conf before its PONG leaves.
WinElection(r) ==
  /\ owner[r] # r
  /\ phase[r] = "sent"
  /\ Cardinality(counted[r]) >= neededQuorum
  /\ owner' = [owner EXCEPT ![r] = r]
  /\ ownerEpoch' = [ownerEpoch EXCEPT ![r] = authEpoch[r]]
  /\ savedEpoch' = [savedEpoch EXCEPT ![r] = currentEpoch[r]]
  /\ won' = won \cup {[node |-> r, epoch |-> authEpoch[r]]}
  /\ UNCHANGED <<currentEpoch, lastVoteEpoch, auth, requests, acks, votes, restarts>>

-----------------------------------------------------------------------------
(* The voter: clusterSendFailoverAuthIfNeeded.                             *)

\* The packet itself has raised currentEpoch to the epoch of the request.
MayVote(v, m) ==
  /\ ServesSlots(v)
  /\ m.epoch >= currentEpoch[v]
  /\ lastVoteEpoch[v] # m.epoch
  /\ owner[v] # m.from
  /\ m.force \/ m.master # v
  /\ ownerEpoch[v] <= m.configEpoch

Vote(v, m) ==
  LET a == [from |-> v, to |-> m.from, epoch |-> m.epoch] IN
  /\ m \in requests /\ v # m.from
  /\ MayVote(v, m)
  /\ currentEpoch' = [currentEpoch EXCEPT ![v] = m.epoch]
  /\ savedEpoch' = [savedEpoch EXCEPT ![v] = m.epoch]
  /\ lastVoteEpoch' = [lastVoteEpoch EXCEPT ![v] = m.epoch]
  /\ acks' = acks \cup {a}
  /\ votes' = votes \cup {a}
  /\ UNCHANGED <<table, auth, requests, won, restarts>>

\* The last packets of the request were refused or lost: the vote was not due, the master
\* not flagged as FAIL, or a vote about it given less than two node timeouts ago.
RequestGone(m) ==
  /\ m \in requests
  /\ requests' = requests \ {m}
  /\ UNCHANGED <<currentEpoch, savedEpoch, lastVoteEpoch, table, auth, acks, votes, won,
                 restarts>>

-----------------------------------------------------------------------------
(* Everyone.                                                               *)

\* Any packet of m carries its currentEpoch; nodes.conf is not saved for it.
HearEpoch(n, m) ==
  /\ currentEpoch[n] < currentEpoch[m]
  /\ currentEpoch' = [currentEpoch EXCEPT ![n] = currentEpoch[m]]
  /\ UNCHANGED <<savedEpoch, lastVoteEpoch, table, auth, requests, acks, votes, won, restarts>>

\* clusterUpdateSlotsConfigWith: a PING, a PONG or an UPDATE about w.node claims the range
\* under w.epoch.  A master that loses it becomes a replica of the new owner, and so does
\* a replica of that master.
HearOwner(n, w) ==
  /\ w \in won /\ w.node # n
  /\ ownerEpoch[n] < w.epoch
  /\ owner' = [owner EXCEPT ![n] = w.node]
  /\ ownerEpoch' = [ownerEpoch EXCEPT ![n] = w.epoch]
  /\ currentEpoch' = [currentEpoch EXCEPT ![n] = Larger(@, w.epoch)]
  /\ savedEpoch' = [savedEpoch EXCEPT ![n] = Larger(currentEpoch[n], w.epoch)]
  /\ UNCHANGED <<lastVoteEpoch, auth, requests, acks, votes, won, restarts>>

\* A link breaks with the packet in it.
LoseAck(a) ==
  /\ a \in acks
  /\ acks' = acks \ {a}
  /\ UNCHANGED <<currentEpoch, savedEpoch, lastVoteEpoch, table, auth, requests, votes, won,
                 restarts>>

\* clusterInit and clusterLoadConfig: the state of the election is not in nodes.conf, and
\* currentEpoch is at least the greatest configEpoch found there.
Restart(n) ==
  /\ restarts < MaxRestarts
  /\ restarts' = restarts + 1
  /\ currentEpoch' = [currentEpoch EXCEPT ![n] = Larger(savedEpoch[n], ownerEpoch[n])]
  /\ phase' = [r \in Group |-> IF r = n THEN "idle" ELSE phase[r]]
  /\ authEpoch' = [r \in Group |-> IF r = n THEN 0 ELSE authEpoch[r]]
  /\ counted' = [r \in Group |-> IF r = n THEN {} ELSE counted[r]]
  /\ acks' = {a \in acks : a.to # n}
  /\ UNCHANGED <<savedEpoch, lastVoteEpoch, table, requests, votes, won>>

Next ==
  \/ \E r \in Group : \/ ScheduleElection(r) \/ ElectionExpires(r) \/ WinElection(r)
                      \/ \E force, saved \in BOOLEAN : AskForVotes(r, force, saved)
  \/ \E a \in acks : ReceiveAck(a) \/ LoseAck(a)
  \/ \E m \in requests : RequestGone(m) \/ \E v \in Node : Vote(v, m)
  \/ \E n \in Node : \/ \E m \in Node : HearEpoch(n, m)
                     \/ \E w \in won : HearOwner(n, w)
                     \/ Restart(n)

Spec == Init /\ [][Next]_vars

-----------------------------------------------------------------------------
\* Two members of the group voted as masters of the range in epoch e: one of them had
\* not heard that it was replaced.  (An old master votes for a forced, manual failover.)
Contested(e) ==
  \E a, b \in votes : /\ a.from \in Group /\ b.from \in Group /\ a.from # b.from
                      /\ a.epoch = e /\ b.epoch = e

\* An epoch has one winner: the majority that authorised it is the only one
\* (clusterHandleConfigEpochCollision takes this for granted).
OneWinnerPerEpoch ==
  \A v, w \in won : v.epoch = w.epoch /\ ~Contested(v.epoch) => v.node = w.node

\* Two tables that hold the range under the same configEpoch name the same owner, so no
\* two nodes can both go on serving it: clusterUpdateSlotsConfigWith rebinds a slot only
\* to a greater epoch and would never reconcile them.
SameEpochSameOwner ==
  \A m, n \in Node :
    ownerEpoch[m] = ownerEpoch[n] /\ ~Contested(ownerEpoch[m]) => owner[m] = owner[n]
==============================================================================
