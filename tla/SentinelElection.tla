--------------------------- MODULE SentinelElection ---------------------------
(***************************************************************************)
(* Redis Sentinel: the election of the Sentinel that fails a master over   *)
(* (sentinel.c).                                                           *)
(*                                                                         *)
(* A Sentinel is a record of the fields these functions use.  `cur' is     *)
(* sentinel.current_epoch, which the failovers of all masters share;       *)
(* `leader' and `lepoch' are the vote for this master; `heard' is what the *)
(* other Sentinels last replied; `disk' is what sentinelFlushConfig last   *)
(* wrote.  The periods the code measures end at any moment.  The master is *)
(* down: when a Sentinel holds it to be objectively down is not decided    *)
(* here (module SentinelFailover), so a failover may start at any moment.  *)
(***************************************************************************)
EXTENDS Naturals, FiniteSets

CONSTANTS Sentinel,     \* Sentinels that know each other
          Quorum,       \* master->quorum
          MaxEpoch,     \* bound: epochs
          MaxReplies,   \* bound: replies in flight
          MaxRestarts,  \* bound: crashes
          None          \* no Sentinel

ASSUME SentinelAssumption == IsFiniteSet(Sentinel) /\ None \notin Sentinel

VARIABLES st,        \* Sentinel -> its state
          asked,     \* is-master-down-by-addr requests ever sent
          replies,   \* replies to them in flight
          cast,      \* history: every vote
          won,       \* history: elections won, with current_epoch at that moment
          restarts   \* crashes so far

electionVars == <<st, asked, replies, cast, won, restarts>>

Others(s) == Sentinel \ {s}
Unheard == [leader |-> None, epoch |-> 0]
Started(s, disk) ==
  [cur |-> disk.cur, leader |-> None, lepoch |-> disk.lepoch,
   state |-> "none", fepoch |-> 0, heard |-> [t \in Others(s) |-> Unheard], disk |-> disk]

Init ==
  /\ st = [s \in Sentinel |-> Started(s, [cur |-> 0, lepoch |-> 0])]
  /\ asked = {} /\ replies = {} /\ cast = {} /\ won = {}
  /\ restarts = 0

sentinelFlushConfig(r) == [r EXCEPT !.disk = [cur |-> r.cur, lepoch |-> r.lepoch]]

\* Mutant: the vote is not written to disk.
VoteUnsaved(r, epoch, runid) ==
  LET up == IF epoch > r.cur THEN sentinelFlushConfig([r EXCEPT !.cur = epoch]) ELSE r IN
  IF up.lepoch < epoch /\ up.cur <= epoch
    THEN [up EXCEPT !.leader = runid, !.lepoch = up.cur]
    ELSE up

\* The state after a request for a vote; the reply is its leader and lepoch.
sentinelVoteLeader(r, epoch, runid) ==
  LET up == IF epoch > r.cur THEN sentinelFlushConfig([r EXCEPT !.cur = epoch]) ELSE r IN
  IF up.lepoch < epoch /\ up.cur <= epoch
    THEN sentinelFlushConfig([up EXCEPT !.leader = runid, !.lepoch = up.cur])
    ELSE up

Voted(s, r) == IF r.leader = None THEN {} ELSE {[by |-> s, for |-> r.leader, epoch |-> r.lepoch]}

\* Votes of the others that were given in current_epoch.
Tally(s, r, l) ==
  Cardinality({t \in Others(s) : r.heard[t].leader = l /\ r.heard[t].epoch = r.cur})

\* The candidates with most votes of the others: the order of a dict decides between them.
Favourites(s, r) ==
  {l \in Sentinel : Tally(s, r, l) > 0 /\ \A m \in Sentinel : Tally(s, r, m) <= Tally(s, r, l)}

\* Mutant: half of the voters elect a leader.
ElectsHalf(s, votes) == votes >= Cardinality(Sentinel) \div 2 /\ votes >= Quorum

Elects(s, votes) == votes >= Cardinality(Sentinel) \div 2 + 1 /\ votes >= Quorum

\* The Sentinel votes, if it has not yet, for the favourite f (itself if there is none);
\* its vote counts when it is one of the epoch of the failover.
sentinelGetLeader(s, r, f) ==
  LET mine  == sentinelVoteLeader(r, r.fepoch, f)
      extra(l) == IF mine.leader = l /\ mine.lepoch = r.fepoch THEN 1 ELSE 0
      best  == IF f \in Favourites(s, r) THEN Tally(s, r, f) ELSE 0
      top   == IF mine.leader # None /\ Tally(s, r, mine.leader) + extra(mine.leader) > best
                 THEN mine.leader ELSE f
      votes == Tally(s, r, top) + extra(top)
  IN [state |-> mine, leader |-> IF Elects(s, votes) THEN top ELSE None]

-----------------------------------------------------------------------------
(* The timer: sentinelHandleRedisInstance for the master.                  *)

sentinelStartFailover(r) ==
  [r EXCEPT !.state = "wait", !.cur = @ + 1, !.fepoch = r.cur + 1]

\* sentinelAskMasterStateToOtherSentinels: old replies are forgotten, and a Sentinel that
\* is failing the master over asks for the vote, in current_epoch.
Forget(r, stale) ==
  [r EXCEPT !.heard = [t \in DOMAIN r.heard |->
     IF t \in stale THEN [r.heard[t] EXCEPT !.leader = None] ELSE r.heard[t]]]

Heard(r) == {t \in DOMAIN r.heard : r.heard[t].leader # None}
Request(s, r) == IF r.state # "none" THEN {[from |-> s, epoch |-> r.cur]} ELSE {}

\* sentinelFailoverWaitStart, then sentinelAskMasterStateToOtherSentinels.  The election
\* may have timed out, and replies may have become too old.
sentinelFailoverWaitStart(s, r) ==
  \E f \in IF Favourites(s, r) = {} THEN {s} ELSE Favourites(s, r) :
    LET got == sentinelGetLeader(s, r, f)
        leads == got.leader = s
    IN /\ \E after \in IF leads THEN {"elected"} ELSE {"wait", "none"}, stale \in SUBSET Heard(r) :
            LET end == [got.state EXCEPT !.state = after] IN
            /\ st' = [st EXCEPT ![s] = Forget(end, stale)]
            /\ asked' = asked \cup Request(s, r) \cup Request(s, end)
       /\ won' = IF leads THEN won \cup {[node |-> s, epoch |-> r.fepoch, at |-> r.cur]} ELSE won
       /\ cast' = cast \cup Voted(s, got.state)
       /\ UNCHANGED <<replies, restarts>>

\* The timer, when sentinelStartFailoverIfNeeded starts a failover: the master is
\* objectively down and the last attempt is long enough ago.
StartFailover(s) ==
  /\ st[s].state = "none"
  /\ st[s].cur < MaxEpoch
  /\ \E stale \in SUBSET Heard(st[s]) :
       sentinelFailoverWaitStart(s, Forget(sentinelStartFailover(st[s]), stale))

\* The timer, while the Sentinel waits for votes.
CountVotes(s) ==
  /\ st[s].state = "wait"
  /\ sentinelFailoverWaitStart(s, st[s])

\* The elected leader finds no good replica, or the promotion times out.
sentinelAbortFailover(s) ==
  /\ st[s].state = "elected"
  /\ st' = [st EXCEPT ![s].state = "none"]
  /\ UNCHANGED <<asked, replies, cast, won, restarts>>

-----------------------------------------------------------------------------
(* Messages.  A request that was sent may be processed late, and again     *)
(* because it is repeated every second.                                    *)

\* SENTINEL IS-MASTER-DOWN-BY-ADDR with a runid.
IsMasterDownByAddr(t, q) ==
  LET r == sentinelVoteLeader(st[t], q.epoch, q.from) IN
  /\ q \in asked /\ q.from # t
  /\ Cardinality(replies) < MaxReplies
  /\ st' = [st EXCEPT ![t] = r]
  /\ cast' = cast \cup Voted(t, r)
  /\ replies' = replies \cup
       {[from |-> t, to |-> q.from, leader |-> r.leader, epoch |-> r.lepoch]}
  /\ UNCHANGED <<asked, won, restarts>>

\* A reply without a leader is no vote.
sentinelReceiveIsMasterDownReply(p) ==
  /\ p \in replies
  /\ replies' = replies \ {p}
  /\ st' = IF p.leader = None THEN st
           ELSE [st EXCEPT ![p.to].heard[p.from] = [leader |-> p.leader, epoch |-> p.epoch]]
  /\ UNCHANGED <<asked, cast, won, restarts>>

\* sentinelProcessHelloMessage: a greater current_epoch is taken over.
Hello(s, t) ==
  /\ st[s].cur < st[t].cur
  /\ st' = [st EXCEPT ![s] = sentinelFlushConfig([st[s] EXCEPT !.cur = st[t].cur])]
  /\ UNCHANGED <<asked, replies, cast, won, restarts>>

\* The failover of another master that the same Sentinels monitor starts: its first timer
\* votes for this Sentinel, which writes the configuration.
OtherMasterFails(s) ==
  /\ st[s].cur < MaxEpoch
  /\ st' = [st EXCEPT ![s] = sentinelFlushConfig([st[s] EXCEPT !.cur = @ + 1])]
  /\ UNCHANGED <<asked, replies, cast, won, restarts>>

\* sentinelHandleConfiguration reads current-epoch and leader-epoch back, not the leader.
Restart(s) ==
  /\ restarts < MaxRestarts
  /\ restarts' = restarts + 1
  /\ st' = [st EXCEPT ![s] = Started(s, st[s].disk)]
  /\ replies' = {p \in replies : p.to # s}
  /\ UNCHANGED <<asked, cast, won>>

Next ==
  \/ \E s \in Sentinel :
       \/ StartFailover(s) \/ CountVotes(s)
       \/ sentinelAbortFailover(s) \/ OtherMasterFails(s) \/ Restart(s)
       \/ \E t \in Sentinel : Hello(s, t)
       \/ \E q \in asked : IsMasterDownByAddr(s, q)
  \/ \E p \in replies : sentinelReceiveIsMasterDownReply(p)

Spec == Init /\ [][Next]_electionVars

-----------------------------------------------------------------------------
\* "Each Sentinel can vote just one time per epoch", across crashes: sentinelVoteLeader
\* flushes the configuration before the reply leaves.
OneVotePerEpoch ==
  \A v, w \in cast : v.by = w.by /\ v.epoch = w.epoch => v.for = w.for

\* Two Sentinels that were elected while current_epoch was still the epoch of their
\* failover did not lead the same epoch.
OneLeaderInTime ==
  \A v, w \in won : v.epoch = w.epoch /\ v.at = v.epoch /\ w.at = w.epoch => v.node = w.node

\* "To be a leader for a given epoch, we should have the majority of the Sentinels we
\* know": no two Sentinels lead the same epoch.
OneLeaderPerEpoch ==
  \A v, w \in won : v.epoch = w.epoch => v.node = w.node
===============================================================================
