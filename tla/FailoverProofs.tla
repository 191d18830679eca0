--------------------------- MODULE FailoverProofs ---------------------------
(***************************************************************************)
(* Proofs about failovers.                                                 *)
(*                                                                         *)
(* PlannedFailover, for any number of replicas and clients: WAIT counts    *)
(* truly and FAILOVER loses nothing.  A replica acknowledges only what it  *)
(* has executed, and as long as the old master is one every replica has a  *)
(* beginning of its log; so a replica whose acknowledgement is the offset  *)
(* of the master has the whole log.  From then on the old master executes  *)
(* nothing, and no replica is connected, until the request to take over is *)
(* answered: what was true when the role was given up is true when it is   *)
(* taken.                                                                  *)
(*                                                                         *)
(* ClusterElection, for any number of nodes: an epoch has one winner when  *)
(* no packet of an election outlives auth_retry_time.  A node votes at     *)
(* most once in an epoch, because its last vote is in nodes.conf and its   *)
(* currentEpoch never falls below it.  The ACKs a replica counts are all   *)
(* of its current election, so its count is the size of a set of nodes     *)
(* that voted for it in that epoch, and two such sets that are majorities  *)
(* of the masters meet.                                                    *)
(***************************************************************************)
EXTENDS ClusterElection, PlannedFailover, FiniteSetTheorems, TLAPS

(* FAILOVER and WAIT. *)

ReplicaRecord == [master : BOOLEAN, same : BOOLEAN, log : Seq(Nat), up : BOOLEAN,
                  ack : Nat, sent : Nat \cup {NoOne}]

WaitRecord == [waits : BOOLEAN, off : Nat, n : Nat, turn : Nat]

FailoverRecord == [state : {"none", "wait", "progress"}, target : Replica \cup {NoOne},
                   timed : BOOLEAN, force : BOOLEAN]

MasterRecord == [master : Replica \cup {NoOne}, fo : FailoverRecord, paused : BOOLEAN,
                 link : {"none", "connect", "refused", "accepted", "online"}]

PlannedTypeOK ==
  /\ old \in MasterRecord
  /\ log \in Seq(Nat)
  /\ rp \in [Replica -> ReplicaRecord]
  /\ cl \in [Client -> [woff : Nat, wait : WaitRecord]]
  /\ said \in [n : Nat, off : Nat]
  /\ atTurn \in Seq(Nat) \cup {NoOne}
  /\ used \in [writes : Nat, troubles : Nat, failovers : Nat, waits : Nat]

\* A replica acknowledges only what it has; one that was promoted is nobody's replica.
Followed(x) ==
  /\ x.ack <= Len(x.log)
  /\ x.sent # NoOne => x.sent <= Len(x.log)
  /\ x.up => ~x.master

\* While the old master is one, or asks to be replaced, replicas have a part of its log g; the
\* one that it waits for was caught up, and nobody is connected.
Steady(a, g, f) ==
  /\ a.fo.state = "wait" => a.master = NoOne
  /\ a.fo.force => a.fo.target \in Replica
  /\ a.fo.state = "progress" => a.master \in Replica /\ \A r \in Replica : ~f[r].up
  /\ a.master = NoOne \/ a.fo.state = "progress" =>
       \A r \in Replica : ~f[r].master => Begins(f[r].log, g)
  /\ a.fo.state = "progress" /\ ~a.fo.force /\ ~f[a.master].master => Len(f[a.master].log) = Len(g)

PlannedInv ==
  /\ PlannedTypeOK
  /\ \A r \in Replica : Followed(rp[r])
  /\ Steady(old, log, rp)
  /\ HandoverIsSafe

\* A log begins with itself, ...
LEMMA BeginsSelf == \A s \in Seq(Nat) : Begins(s, s)
  BY DEF Begins

\* ... with what a beginning of it begins with, ...
LEMMA BeginsTransitive ==
  ASSUME NEW s \in Seq(Nat), NEW t \in Seq(Nat), NEW u \in Seq(Nat), Begins(s, t), Begins(t, u)
  PROVE  Begins(s, u)
  BY DEF Begins

\* ... and a longer one with the shorter one.
LEMMA BeginsAppend ==
  ASSUME NEW s \in Seq(Nat), NEW x \in Nat
  PROVE  Append(s, x) \in Seq(Nat) /\ Begins(s, Append(s, x)) /\ Len(Append(s, x)) = Len(s) + 1
  BY DEF Begins

\* A replica that executes the next command of g.
LEMMA BeginsNext ==
  ASSUME NEW s \in Seq(Nat), NEW g \in Seq(Nat), Begins(s, g), Len(s) < Len(g)
  PROVE  g[Len(s) + 1] \in Nat /\ Begins(Append(s, g[Len(s) + 1]), g)
  BY DEF Begins

\* A beginning that is as long is the whole log.
LEMMA BeginsWhole ==
  ASSUME NEW s \in Seq(Nat), NEW g \in Seq(Nat), Begins(s, g), Len(s) = Len(g)
  PROVE  Begins(g, s)
  BY DEF Begins

\* The replicas that have executed the first b commands, in f.
Have(f, b) == {r \in Replica : Len(f[r].log) >= b}

\* A set of replicas is finite, and a larger one counts for no less.
LEMMA HaveCounts ==
  ASSUME NEW S, NEW T, S \subseteq T, T \subseteq Replica
  PROVE  Cardinality(S) \in Nat /\ Cardinality(T) \in Nat /\ Cardinality(S) <= Cardinality(T)
<1>1. IsFiniteSet(T) /\ IsFiniteSet(S)
  BY PlannedAssumption, FS_Subset, Zenon
<1> QED
  BY <1>1, FS_CardinalityType, FS_Subset, Zenon

\* What WAIT replies from the acknowledgements of replicas that follow is true, for the offset
\* counted and for any smaller one.
LEMMA CountIsTrue ==
  ASSUME PlannedTypeOK, \A r \in Replica : Followed(rp[r]), NEW a \in Nat, NEW b \in Nat, b <= a
  PROVE  /\ replicationCountAcksByOffset(a) \in Nat
         /\ replicationCountAcksByOffset(a) <= Cardinality(Have(rp, b))
<1>1. {r \in Replica : rp[r].up /\ rp[r].ack >= a} \subseteq Have(rp, b)
  <2> SUFFICES ASSUME NEW r \in Replica, rp[r].ack >= a PROVE Len(rp[r].log) >= b
    BY DEF Have
  <2>1. rp[r].ack \in Nat /\ rp[r].log \in Seq(Nat) /\ rp[r].ack <= Len(rp[r].log)
    BY DEF PlannedTypeOK, ReplicaRecord, Followed
  <2> QED
    BY <2>1
<1>2. Have(rp, b) \subseteq Replica
  BY DEF Have
<1> QED
  BY <1>1, <1>2, HaveCounts, Zenon DEF replicationCountAcksByOffset

\* Logs that grow and replicas that stay promoted keep what was said and what was handed over.
LEMMA GrownKeeps ==
  ASSUME PlannedTypeOK, PlannedTypeOK', WaitIsTrue, FailoverLosesNothing,
         \A r \in Replica : Begins(rp[r].log, rp'[r].log) /\ (rp[r].master => rp'[r].master)
  PROVE  /\ said' = said => WaitIsTrue'
         /\ atTurn' = atTurn => FailoverLosesNothing'
<1>0. ASSUME NEW r \in Replica PROVE rp[r].log \in Seq(Nat) /\ rp'[r].log \in Seq(Nat)
  BY SMTT(30) DEF PlannedTypeOK, ReplicaRecord
<1>1. ASSUME said' = said PROVE WaitIsTrue'
  <2>1. said.off \in Nat /\ said.n \in Nat
    BY DEF PlannedTypeOK
  <2>2. Have(rp, said.off) \subseteq Have(rp', said.off)
    <3> SUFFICES ASSUME NEW r \in Replica, Len(rp[r].log) >= said.off
                 PROVE  Len(rp'[r].log) >= said.off
      BY DEF Have
    <3> QED
      BY <1>0, <2>1 DEF Begins
  <2>3. Have(rp', said.off) \subseteq Replica
    BY DEF Have
  <2>4. said.n <= Cardinality(Have(rp, said.off))
    BY DEF WaitIsTrue, Have
  <2>5. said.n <= Cardinality(Have(rp', said.off))
    BY <2>1, <2>2, <2>3, <2>4, HaveCounts
  <2> QED
    BY <1>1, <2>5, Zenon DEF WaitIsTrue, Have
<1>2. ASSUME atTurn' = atTurn PROVE FailoverLosesNothing'
  <2> SUFFICES ASSUME atTurn # NoOne
               PROVE  \E r \in Replica : rp'[r].master /\ Begins(atTurn, rp'[r].log)
    BY <1>2, Zenon DEF FailoverLosesNothing
  <2>1. PICK r \in Replica : rp[r].master /\ Begins(atTurn, rp[r].log)
    BY Zenon DEF FailoverLosesNothing
  <2> QED
    BY <1>0, <2>1, BeginsTransitive, Zenon DEF PlannedTypeOK
<1> QED
  BY <1>1, <1>2, Zenon

\* One replica changes: its log grows, it stays as promoted as it was.
LEMMA ReplicaKeeps ==
  ASSUME PlannedInv, NEW r \in Replica, NEW x \in ReplicaRecord,
         Followed(x), Begins(rp[r].log, x.log), x.master = rp[r].master,
         old.fo.state = "progress" => ~x.up,
         old.master = NoOne \/ old.fo.state = "progress" => (~x.master => Begins(x.log, log)),
         old.fo.state = "progress" /\ ~x.master => x.log = rp[r].log,
         rp' = [rp EXCEPT ![r] = x],
         UNCHANGED <<old, log, cl, said, atTurn>>,
         used' \in [writes : Nat, troubles : Nat, failovers : Nat, waits : Nat]
  PROVE  PlannedInv'
<1>1. PlannedTypeOK' /\ PlannedTypeOK
  BY Zenon DEF PlannedInv, PlannedTypeOK
<1>2. \A q \in Replica : rp'[q] = IF q = r THEN x ELSE rp[q]
  BY <1>1, Zenon DEF PlannedTypeOK
<1>3. \A q \in Replica : Followed(rp'[q])
  BY <1>2, Zenon DEF PlannedInv
<1>4. \A q \in Replica : rp[q].log \in Seq(Nat)
  BY <1>1 DEF PlannedTypeOK, ReplicaRecord
<1>5. \A q \in Replica : Begins(rp[q].log, rp'[q].log) /\ (rp[q].master => rp'[q].master)
  BY <1>2, <1>4, BeginsSelf, Zenon
<1>6. WaitIsTrue' /\ FailoverLosesNothing'
  BY <1>1, <1>5, GrownKeeps, Zenon DEF PlannedInv, HandoverIsSafe
<1>7. Steady(old', log', rp')
  <2>1. Steady(old, log, rp) /\ old' = old /\ log' = log
    BY Zenon DEF PlannedInv
  <2>2. old.fo.state = "progress" => old.master \in Replica /\ \A q \in Replica : ~rp'[q].up
    BY <1>2, <2>1, ZenonT(60) DEF Steady
  <2>3. old.master = NoOne \/ old.fo.state = "progress" =>
          \A q \in Replica : ~rp'[q].master => Begins(rp'[q].log, log)
    BY <1>2, <2>1, Zenon DEF Steady
  <2>4. ASSUME old.fo.state = "progress", ~old.fo.force, ~rp'[old.master].master
        PROVE  Len(rp'[old.master].log) = Len(log)
    <3>1. PICK o \in Replica : o = old.master
      BY <2>1, <2>4, Zenon DEF Steady
    <3>2. rp'[o].master = rp[o].master /\ rp'[o].log = rp[o].log
      BY <1>2, <2>4, <3>1, Zenon
    <3>3. Len(rp[o].log) = Len(log)
      BY <2>1, <2>4, <3>1, <3>2, Zenon DEF Steady
    <3> QED
      BY <3>1, <3>2, <3>3, Zenon
  <2> QED
    BY <2>1, <2>2, <2>3, <2>4, Zenon DEF Steady
<1> QED
  BY <1>1, <1>3, <1>6, <1>7, Zenon DEF PlannedInv, HandoverIsSafe, NoPauseLeft

\* Only what clients wait for, and are told, changes.
LEMMA ClientsKeep ==
  ASSUME PlannedInv, UNCHANGED <<old, log, rp, atTurn>>,
         cl' \in [Client -> [woff : Nat, wait : WaitRecord]],
         used' \in [writes : Nat, troubles : Nat, failovers : Nat, waits : Nat],
         \/ UNCHANGED said
         \/ \E a \in Nat, b \in Nat :
              b <= a /\ said' = [n |-> replicationCountAcksByOffset(a), off |-> b]
  PROVE  PlannedInv'
<1>1. PlannedTypeOK /\ \A r \in Replica : Followed(rp[r])
  BY Zenon DEF PlannedInv
<1>2. said' \in [n : Nat, off : Nat] /\ WaitIsTrue'
  <2>1. CASE UNCHANGED said
    BY <1>1, <2>1, Zenon DEF PlannedInv, HandoverIsSafe, WaitIsTrue, PlannedTypeOK
  <2>2. ASSUME NEW a \in Nat, NEW b \in Nat, b <= a,
               said' = [n |-> replicationCountAcksByOffset(a), off |-> b]
        PROVE  said' \in [n : Nat, off : Nat] /\ WaitIsTrue'
    <3>1. PICK k : k = replicationCountAcksByOffset(a)
      BY Zenon
    <3>2. k \in Nat /\ k <= Cardinality(Have(rp, b))
      BY <1>1, <2>2, <3>1, CountIsTrue, Zenon
    <3>3. said' = [n |-> k, off |-> b]
      BY <2>2, <3>1, Zenon
    <3>4. said'.n = k /\ said'.off = b /\ said' \in [n : Nat, off : Nat]
      BY <2>2, <3>2, <3>3
    <3> QED
      BY <3>2, <3>4, Zenon DEF WaitIsTrue, Have
  <2> QED
    BY <2>1, <2>2, Zenon
<1>3. PlannedTypeOK'
  BY <1>1, <1>2, Zenon DEF PlannedTypeOK
<1> QED
  BY <1>1, <1>2, <1>3, Zenon
     DEF PlannedInv, HandoverIsSafe, Steady, FailoverLosesNothing, NoPauseLeft

UsedRecord == [writes : Nat, troubles : Nat, failovers : Nat, waits : Nat]

\* The counters of the bounds stay natural numbers.
LEMMA UsedTyped ==
  ASSUME NEW u \in UsedRecord
  PROVE  /\ [u EXCEPT !.writes = @ + 1] \in UsedRecord
         /\ [u EXCEPT !.troubles = @ + 1] \in UsedRecord
         /\ [u EXCEPT !.failovers = @ + 1] \in UsedRecord
         /\ [u EXCEPT !.waits = @ + 1] \in UsedRecord
  BY DEF UsedRecord

\* A replica with a longer log, and one with another acknowledgement.
LEMMA LongerTyped ==
  ASSUME NEW y \in ReplicaRecord, Followed(y), NEW s \in Seq(Nat), Begins(y.log, s),
         NEW x, x = [y EXCEPT !.log = s]
  PROVE  x \in ReplicaRecord /\ Followed(x) /\ x.log = s /\ x.master = y.master /\ x.up = y.up
<1>1. /\ x \in ReplicaRecord /\ x.log = s /\ x.master = y.master /\ x.up = y.up
      /\ x.ack = y.ack /\ x.sent = y.sent
  BY Zenon DEF ReplicaRecord
<1>2. Len(y.log) <= Len(s) /\ Len(y.log) \in Nat /\ Len(s) \in Nat /\ y.ack \in Nat
      /\ y.sent \in Nat \cup {NoOne}
  BY DEF Begins, ReplicaRecord
<1>3. x.ack <= Len(x.log) /\ (x.sent # NoOne => x.sent <= Len(x.log))
  BY <1>1, <1>2 DEF Followed
<1> QED
  BY <1>1, <1>3, Zenon DEF Followed

\* A replica of which another offset is known.
LEMMA AckTyped ==
  ASSUME NEW y \in ReplicaRecord, Followed(y), NEW k \in Nat, k <= Len(y.log),
         NEW x, x = [y EXCEPT !.ack = k, !.sent = NoOne]
  PROVE  x \in ReplicaRecord /\ Followed(x) /\ x.log = y.log /\ x.master = y.master /\ x.up = y.up
  BY Zenon DEF ReplicaRecord, Followed

\* A replica with another connection, another history or another role.
LEMMA ReplicaTyped ==
  ASSUME NEW y \in ReplicaRecord, Followed(y)
  PROVE  /\ LET x == [y EXCEPT !.sent = Len(y.log)] IN
              x \in ReplicaRecord /\ Followed(x) /\ x.log = y.log /\ x.master = y.master /\ x.up = y.up
         /\ LET x == [y EXCEPT !.up = FALSE, !.ack = 0, !.sent = NoOne] IN
              x \in ReplicaRecord /\ Followed(x) /\ x.log = y.log /\ x.master = y.master /\ ~x.up
         /\ ~y.master =>
              LET x == [y EXCEPT !.up = TRUE, !.same = TRUE] IN
              x \in ReplicaRecord /\ Followed(x) /\ x.log = y.log /\ x.master = y.master
         /\ LET x == [y EXCEPT !.same = FALSE] IN
              x \in ReplicaRecord /\ Followed(x) /\ x.log = y.log /\ x.master = y.master /\ x.up = y.up
         /\ ~y.up =>
              LET x == [y EXCEPT !.master = TRUE] IN
              x \in ReplicaRecord /\ Followed(x) /\ x.log = y.log /\ x.master /\ ~x.up
<1>2. ASSUME NEW x, x = [y EXCEPT !.sent = Len(y.log)]
      PROVE  x \in ReplicaRecord /\ Followed(x) /\ x.log = y.log /\ x.master = y.master /\ x.up = y.up
  <2>1. Len(y.log) \in Nat /\ Len(y.log) <= Len(y.log)
    BY DEF ReplicaRecord
  <2> QED
    BY <1>2, <2>1, Zenon DEF ReplicaRecord, Followed
<1>4. ASSUME NEW x, x = [y EXCEPT !.up = FALSE, !.ack = 0, !.sent = NoOne]
      PROVE  x \in ReplicaRecord /\ Followed(x) /\ x.log = y.log /\ x.master = y.master /\ ~x.up
  <2>1. 0 \in Nat /\ 0 <= Len(y.log)
    BY DEF ReplicaRecord
  <2> QED
    BY <1>4, <2>1, Zenon DEF ReplicaRecord, Followed
<1>5. ASSUME ~y.master, NEW x, x = [y EXCEPT !.up = TRUE, !.same = TRUE]
      PROVE  x \in ReplicaRecord /\ Followed(x) /\ x.log = y.log /\ x.master = y.master
  BY <1>5, Zenon DEF ReplicaRecord, Followed
<1>6. ASSUME NEW x, x = [y EXCEPT !.same = FALSE]
      PROVE  x \in ReplicaRecord /\ Followed(x) /\ x.log = y.log /\ x.master = y.master /\ x.up = y.up
  BY <1>6, Zenon DEF ReplicaRecord, Followed
<1>7. ASSUME ~y.up, NEW x, x = [y EXCEPT !.master = TRUE]
      PROVE  x \in ReplicaRecord /\ Followed(x) /\ x.log = y.log /\ x.master /\ ~x.up
  BY <1>7, Zenon DEF ReplicaRecord, Followed
<1> QED
  BY <1>2, <1>4, <1>5, <1>6, <1>7, Zenon

\* A replica takes a write of its own, executes what comes next, sends or has sent its offset,
\* is lost, comes back or is moved elsewhere.
LEMMA ReplicaActs ==
  ASSUME PlannedInv, NEW r \in Replica,
         \/ WriteThere(r) \/ Apply(r) \/ replicationSendAck(r) \/ replconfAck(r)
         \/ Drop(r) \/ Reconnect(r) \/ Elsewhere(r)
  PROVE  PlannedInv'
<1>0. PICK y : y = rp[r]
  BY Zenon
<1>1. /\ y \in ReplicaRecord /\ Followed(y) /\ log \in Seq(Nat) /\ old \in MasterRecord
      /\ used \in UsedRecord /\ used.writes \in Nat
  BY <1>0, Zenon DEF PlannedInv, PlannedTypeOK, UsedRecord
<1>2. /\ y.log \in Seq(Nat) /\ Len(y.log) \in Nat /\ y.ack \in Nat
      /\ y.sent # NoOne => y.sent \in Nat /\ y.sent <= Len(y.log)
      /\ y.ack <= Len(y.log)
  BY <1>1 DEF ReplicaRecord, Followed
<1>3. /\ old.fo.state = "progress" => ~y.up
      /\ old.master = NoOne \/ old.fo.state = "progress" => (~y.master => Begins(y.log, log))
      /\ old.fo.state = "progress" => old.master # NoOne
  BY <1>0, PlannedAssumption, Zenon DEF PlannedInv, Steady
<1>4. Begins(y.log, y.log)
  BY <1>2, BeginsSelf, Zenon
<1>5. CASE WriteThere(r)
  <2>1. PICK s : s = Append(y.log, used.writes + 1)
    BY Zenon
  <2>2. s \in Seq(Nat) /\ Begins(y.log, s)
    <3>1. used.writes + 1 \in Nat
      BY <1>1
    <3> QED
      BY <1>2, <2>1, <3>1, BeginsAppend, Zenon
  <2>3. PICK x : x = [y EXCEPT !.log = s]
    BY Zenon
  <2>4. x \in ReplicaRecord /\ Followed(x) /\ x.log = s /\ x.master = y.master /\ x.up = y.up
    BY <1>1, <2>2, <2>3, LongerTyped, ZenonT(60)
  <2>5. rp' = [rp EXCEPT ![r] = x] /\ y.master
    BY <1>0, <1>5, <2>1, <2>3, Zenon DEF WriteThere
  <2>6. used' \in UsedRecord /\ UNCHANGED <<old, log, cl, said, atTurn>>
    BY <1>1, <1>5, UsedTyped, Zenon DEF WriteThere
  <2> QED
    BY <1>0, <1>3, <2>2, <2>4, <2>5, <2>6, ReplicaKeeps, Zenon DEF UsedRecord
<1>6. CASE Apply(r)
  <2>1. PICK s : s = Append(y.log, log[Len(y.log) + 1])
    BY Zenon
  <2>2. old.master = NoOne /\ y.up /\ ~y.master /\ Len(y.log) < Len(log)
    BY <1>0, <1>6, Zenon DEF Apply, StillMaster, Off
  <2>3. s \in Seq(Nat) /\ Begins(y.log, s) /\ Begins(s, log)
    <3>1. log[Len(y.log) + 1] \in Nat /\ Begins(s, log)
      BY <1>1, <1>2, <1>3, <2>1, <2>2, BeginsNext, Zenon
    <3> QED
      BY <1>2, <2>1, <3>1, BeginsAppend, Zenon
  <2>4. PICK x : x = [y EXCEPT !.log = s]
    BY Zenon
  <2>5. x \in ReplicaRecord /\ Followed(x) /\ x.log = s /\ x.master = y.master /\ x.up = y.up
    BY <1>1, <2>3, <2>4, LongerTyped, ZenonT(60)
  <2>6. rp' = [rp EXCEPT ![r] = x] /\ UNCHANGED <<old, log, cl, said, atTurn, used>>
    BY <1>0, <1>6, <2>1, <2>4, Zenon DEF Apply
  <2> QED
    BY <1>0, <1>1, <1>3, <2>2, <2>3, <2>5, <2>6, ReplicaKeeps, Zenon DEF UsedRecord
<1>7. CASE replicationSendAck(r)
  <2>1. PICK x : x = [y EXCEPT !.sent = Len(y.log)]
    BY Zenon
  <2>2. x \in ReplicaRecord /\ Followed(x) /\ x.log = y.log /\ x.master = y.master /\ x.up = y.up
    BY <1>1, <2>1, ReplicaTyped, Zenon
  <2>3. rp' = [rp EXCEPT ![r] = x] /\ UNCHANGED <<old, log, cl, said, atTurn, used>>
    BY <1>0, <1>7, <2>1, Zenon DEF replicationSendAck
  <2> QED
    BY <1>0, <1>1, <1>3, <1>4, <2>2, <2>3, ReplicaKeeps, Zenon DEF UsedRecord
<1>8. CASE replconfAck(r)
  <2>1. PICK k : k = IF y.sent > y.ack THEN y.sent ELSE y.ack
    BY Zenon
  <2>2. k \in Nat /\ k <= Len(y.log)
    BY <1>0, <1>2, <1>8, <2>1, Zenon DEF replconfAck
  <2>3. PICK x : x = [y EXCEPT !.ack = k, !.sent = NoOne]
    BY Zenon
  <2>4. x \in ReplicaRecord /\ Followed(x) /\ x.log = y.log /\ x.master = y.master /\ x.up = y.up
    BY <1>1, <2>2, <2>3, AckTyped, ZenonT(60)
  <2>5. rp' = [rp EXCEPT ![r] = x] /\ UNCHANGED <<old, log, cl, said, atTurn, used>>
    <3>1. rp' = [rp EXCEPT ![r] = [rp[r] EXCEPT !.ack = k, !.sent = NoOne]]
      BY <1>0, <1>1, <1>8, <2>1 DEF replconfAck, PlannedInv, PlannedTypeOK, ReplicaRecord
    <3> QED
      BY <1>0, <1>8, <2>3, <3>1, Zenon DEF replconfAck
  <2> QED
    BY <1>0, <1>1, <1>3, <1>4, <2>4, <2>5, ReplicaKeeps, Zenon DEF UsedRecord
<1>9. CASE Drop(r)
  <2>1. PICK x : x = [y EXCEPT !.up = FALSE, !.ack = 0, !.sent = NoOne]
    BY Zenon
  <2>2. x \in ReplicaRecord /\ Followed(x) /\ x.log = y.log /\ x.master = y.master /\ ~x.up
    BY <1>1, <2>1, ReplicaTyped, Zenon
  <2>3. rp' = [rp EXCEPT ![r] = [rp[r] EXCEPT !.up = FALSE, !.ack = 0, !.sent = NoOne]]
    BY <1>9, Zenon DEF Drop, PlannedInv, PlannedTypeOK, ReplicaRecord
  <2>4. used' \in UsedRecord /\ UNCHANGED <<old, log, cl, said, atTurn>>
    BY <1>1, <1>9, UsedTyped, Zenon DEF Drop
  <2> QED
    BY <1>0, <1>3, <1>4, <2>1, <2>2, <2>3, <2>4, ReplicaKeeps, Zenon DEF UsedRecord
<1>10. CASE Reconnect(r)
  <2>1. PICK x : x = [y EXCEPT !.up = TRUE, !.same = TRUE]
    BY Zenon
  <2>2. ~y.master /\ old.fo.state = "none"
    BY <1>0, <1>10, Zenon DEF Reconnect
  <2>3. x \in ReplicaRecord /\ Followed(x) /\ x.log = y.log /\ x.master = y.master
    BY <1>1, <2>1, <2>2, ReplicaTyped, Zenon
  <2>4. rp' = [rp EXCEPT ![r] = [rp[r] EXCEPT !.up = TRUE, !.same = TRUE]]
    BY <1>10, Zenon DEF Reconnect, PlannedInv, PlannedTypeOK, ReplicaRecord
  <2>5. UNCHANGED <<old, log, cl, said, atTurn, used>> /\ old.fo.state # "progress"
    BY <1>10, <2>2, Zenon DEF Reconnect
  <2> QED
    BY <1>0, <1>1, <1>3, <1>4, <2>1, <2>3, <2>4, <2>5, ReplicaKeeps, Zenon DEF UsedRecord
<1>11. CASE Elsewhere(r)
  <2>1. PICK x : x = [y EXCEPT !.same = FALSE]
    BY Zenon
  <2>2. x \in ReplicaRecord /\ Followed(x) /\ x.log = y.log /\ x.master = y.master /\ x.up = y.up
    BY <1>1, <2>1, ReplicaTyped, Zenon
  <2>3. rp' = [rp EXCEPT ![r] = x] /\ UNCHANGED <<old, log, cl, said, atTurn>>
    BY <1>0, <1>11, <2>1, Zenon DEF Elsewhere
  <2>4. used' \in UsedRecord
    BY <1>1, <1>11, UsedTyped, Zenon DEF Elsewhere
  <2> QED
    BY <1>0, <1>3, <1>4, <2>2, <2>3, <2>4, ReplicaKeeps, Zenon DEF UsedRecord
<1> QED
  BY <1>5, <1>6, <1>7, <1>8, <1>9, <1>10, <1>11, Zenon

ClientRecord == [woff : Nat, wait : WaitRecord]

\* A master that is one executes one more command.
LEMMA LogKeeps ==
  ASSUME PlannedInv, old.master = NoOne, NEW k \in Nat, log' = Append(log, k),
         UNCHANGED <<old, rp, said, atTurn>>, cl' \in [Client -> ClientRecord], used' \in UsedRecord
  PROVE  PlannedInv'
<1>1. log \in Seq(Nat) /\ rp \in [Replica -> ReplicaRecord] /\ old \in MasterRecord
  BY Zenon DEF PlannedInv, PlannedTypeOK
<1>2. log' \in Seq(Nat) /\ Begins(log, log')
  BY <1>1, BeginsAppend, Zenon
<1>3. PlannedTypeOK'
  BY <1>2, Zenon DEF PlannedInv, PlannedTypeOK, ClientRecord, UsedRecord
<1>4. old.fo.state # "progress"
  BY PlannedAssumption, Zenon DEF PlannedInv, Steady
<1>5. ASSUME NEW r \in Replica, ~rp[r].master PROVE Begins(rp[r].log, log')
  <2>1. rp[r].log \in Seq(Nat)
    BY <1>1, Zenon DEF ReplicaRecord
  <2>2. Begins(rp[r].log, log)
    BY <1>5, Zenon DEF PlannedInv, Steady
  <2> QED
    BY <1>1, <1>2, <2>1, <2>2, BeginsTransitive, Zenon
<1>6. Steady(old, log', rp)
  BY <1>4, <1>5, Zenon DEF PlannedInv, Steady
<1>7. HandoverIsSafe'
  BY Zenon DEF PlannedInv, HandoverIsSafe, WaitIsTrue, FailoverLosesNothing, NoPauseLeft
<1> QED
  BY <1>3, <1>6, <1>7, Zenon DEF PlannedInv

\* A write of a client, and a PING.
LEMMA WritesKeep ==
  ASSUME PlannedInv, Ping \/ \E c \in Client : ClientWrite(c)
  PROVE  PlannedInv'
<1>1. /\ cl \in [Client -> ClientRecord] /\ used \in UsedRecord /\ log \in Seq(Nat)
      /\ used.writes \in Nat
  BY Zenon DEF PlannedInv, PlannedTypeOK, ClientRecord, UsedRecord
<1>2. CASE Ping
  <2>1. log' = Append(log, 0) /\ old.master = NoOne /\ UNCHANGED <<old, rp, said, atTurn>> /\ cl' = cl
    BY <1>2, Zenon DEF Ping, StillMaster
  <2>2. used' \in UsedRecord
    BY <1>1, <1>2, UsedTyped, Zenon DEF Ping
  <2>3. 0 \in Nat
    OBVIOUS
  <2> QED
    BY <1>1, <2>1, <2>2, <2>3, LogKeeps, Zenon
<1>3. ASSUME NEW c \in Client, ClientWrite(c) PROVE PlannedInv'
  <2>1. PICK k : k = used.writes + 1
    BY Zenon
  <2>2. PICK n : n = Off + 1
    BY Zenon
  <2>3. k \in Nat /\ n \in Nat
    BY <1>1, <2>1, <2>2 DEF Off
  <2>4. log' = Append(log, k) /\ old.master = NoOne /\ UNCHANGED <<old, rp, said, atTurn>>
    BY <1>3, <2>1, Zenon DEF ClientWrite, StillMaster
  <2>5. used' \in UsedRecord
    BY <1>1, <1>3, UsedTyped, Zenon DEF ClientWrite
  <2>6. cl' = [cl EXCEPT ![c] = [cl[c] EXCEPT !.woff = n]]
    BY <1>3, <2>2, Zenon DEF ClientWrite
  <2>7. [cl[c] EXCEPT !.woff = n] \in ClientRecord
    BY <1>1, <2>3, Zenon DEF ClientRecord
  <2>8. cl' \in [Client -> ClientRecord]
    BY <1>1, <2>6, <2>7, Zenon
  <2> QED
    BY <2>3, <2>4, <2>5, <2>8, LogKeeps, Zenon
<1> QED
  BY <1>2, <1>3, Zenon

\* What a client waits for when it does not.
LEMMA IdleTyped == Idle \in WaitRecord
  BY DEF Idle, WaitRecord

\* WAIT, and the answers to it.
LEMMA WaitsKeep ==
  ASSUME PlannedInv,
         \/ \E c \in Client : WaitTimesOut(c) \/ \E n \in 1..Cardinality(Replica) : waitCommand(c, n)
         \/ processClientsWaitingReplicas
  PROVE  PlannedInv'
<1>1. cl \in [Client -> ClientRecord] /\ used \in UsedRecord
  BY Zenon DEF PlannedInv, PlannedTypeOK, ClientRecord, UsedRecord
<1>2. \A c \in Client : /\ cl[c] \in ClientRecord /\ cl[c].woff \in Nat
                        /\ cl[c].wait \in WaitRecord /\ cl[c].wait.off \in Nat
  BY <1>1, Zenon DEF ClientRecord, WaitRecord
<1>3. \A a \in Nat : a <= a
  OBVIOUS
<1>4. ASSUME NEW c \in Client, NEW w \in WaitRecord PROVE [cl[c] EXCEPT !.wait = w] \in ClientRecord
  BY <1>2, Zenon DEF ClientRecord
<1>5. ASSUME NEW c \in Client, WaitTimesOut(c) PROVE PlannedInv'
  <2>1. PICK a \in Nat : a = cl[c].wait.off
    BY <1>2, Zenon
  <2>2. said' = [n |-> replicationCountAcksByOffset(a), off |-> a]
    BY <1>5, <2>1, Zenon DEF WaitTimesOut
  <2>3. cl' = [cl EXCEPT ![c] = [cl[c] EXCEPT !.wait = Idle]]
    BY <1>5, Zenon DEF WaitTimesOut
  <2>4. cl' \in [Client -> ClientRecord]
    BY <1>1, <1>4, <2>3, IdleTyped, Zenon
  <2>5. UNCHANGED <<old, log, rp, atTurn, used>>
    BY <1>5, Zenon DEF WaitTimesOut
  <2> QED
    BY <1>1, <1>3, <2>2, <2>4, <2>5, ClientsKeep, Zenon DEF ClientRecord, UsedRecord
<1>6. ASSUME NEW c \in Client, NEW n \in 1..Cardinality(Replica), waitCommand(c, n) PROVE PlannedInv'
  <2>1. PICK a \in Nat : a = cl[c].woff
    BY <1>2, Zenon
  <2>2. used' \in UsedRecord
    BY <1>1, <1>6, UsedTyped, Zenon DEF waitCommand
  <2>3. UNCHANGED <<old, log, rp, atTurn>>
    BY <1>6, Zenon DEF waitCommand
  <2>4. CASE replicationCountAcksByOffset(a) >= n
    <3>1. said' = [n |-> replicationCountAcksByOffset(a), off |-> a] /\ cl' = cl
      BY <1>6, <2>1, <2>4, Zenon DEF waitCommand
    <3> QED
      BY <1>1, <1>3, <2>2, <2>3, <3>1, ClientsKeep, Zenon DEF ClientRecord, UsedRecord
  <2>5. CASE ~(replicationCountAcksByOffset(a) >= n)
    <3>1. PICK w : w = [waits |-> TRUE, off |-> a, n |-> n, turn |-> used.waits + 1]
      BY Zenon
    <3>2. n \in Nat /\ used.waits + 1 \in Nat
      BY <1>1 DEF UsedRecord
    <3>3. w \in WaitRecord
      BY <3>1, <3>2, Zenon DEF WaitRecord
    <3>4. cl' = [cl EXCEPT ![c] = [cl[c] EXCEPT !.wait = w]] /\ said' = said
      BY <1>6, <2>1, <2>5, <3>1, Zenon DEF waitCommand
    <3>5. cl' \in [Client -> ClientRecord]
      BY <1>1, <1>4, <3>3, <3>4, Zenon
    <3> QED
      BY <2>2, <2>3, <3>4, <3>5, ClientsKeep, Zenon DEF ClientRecord, UsedRecord
  <2> QED
    BY <2>4, <2>5, Zenon
<1>7. CASE processClientsWaitingReplicas
  <2> DEFINE waiting == {c \in Client : cl[c].wait.waits}
  <2>1. PICK told \in (SUBSET waiting) \ {{}} :
          LET done == told \cup {c \in waiting : Reused(told, c) # {}} IN
          /\ \E c \in done : \E d \in IF c \in told THEN {c} ELSE Reused(told, c) :
               said' = [n |-> Acks(d), off |-> cl[c].wait.off]
          /\ cl' = [c \in Client |-> IF c \in done THEN [cl[c] EXCEPT !.wait = Idle] ELSE cl[c]]
          /\ UNCHANGED <<old, log, rp, atTurn, used>>
    BY <1>7, Zenon DEF processClientsWaitingReplicas
  <2>2. PICK done : done = told \cup {c \in waiting : Reused(told, c) # {}}
    BY Zenon
  <2>3. PICK c \in done : \E d \in IF c \in told THEN {c} ELSE Reused(told, c) :
               said' = [n |-> Acks(d), off |-> cl[c].wait.off]
    BY <2>1, <2>2, Zenon
  <2>4. PICK d \in IF c \in told THEN {c} ELSE Reused(told, c) :
               said' = [n |-> Acks(d), off |-> cl[c].wait.off]
    BY <2>3, Zenon
  <2>5. told \subseteq Client /\ c \in Client
    BY <2>1, <2>2, <2>3, Zenon
  <2>6. d \in Client /\ (d = c \/ cl[d].wait.off >= cl[c].wait.off)
    BY <2>4, <2>5, Zenon DEF Reused, LastCounted
  <2>7. PICK a \in Nat, b \in Nat : a = cl[d].wait.off /\ b = cl[c].wait.off
    BY <1>2, <2>5, <2>6, Zenon
  <2>8. b <= a
    BY <2>6, <2>7
  <2>9. said' = [n |-> replicationCountAcksByOffset(a), off |-> b]
    BY <2>4, <2>7, Zenon DEF Acks
  <2>10. cl' = [e \in Client |-> IF e \in done THEN [cl[e] EXCEPT !.wait = Idle] ELSE cl[e]]
    BY <2>1, <2>2, Zenon
  <2>11. cl' \in [Client -> ClientRecord]
    BY <1>2, <1>4, <2>10, IdleTyped, Zenon
  <2>12. UNCHANGED <<old, log, rp, atTurn, used>>
    BY <2>1, Zenon
  <2> QED
    BY <1>1, <2>8, <2>9, <2>11, <2>12, ClientsKeep, Zenon DEF ClientRecord, UsedRecord
<1> QED
  BY <1>5, <1>6, <1>7, Zenon

\* Only the state of the old master changes.
LEMMA MasterKeeps ==
  ASSUME PlannedInv, old' \in MasterRecord, Steady(old', log, rp), NoPauseLeft',
         UNCHANGED <<log, rp, cl, said, atTurn>>, used' \in UsedRecord
  PROVE  PlannedInv'
<1>1. PlannedTypeOK'
  BY Zenon DEF PlannedInv, PlannedTypeOK, UsedRecord
<1>2. WaitIsTrue' /\ FailoverLosesNothing'
  BY Zenon DEF PlannedInv, HandoverIsSafe, WaitIsTrue, FailoverLosesNothing
<1> QED
  BY <1>1, <1>2, Zenon DEF PlannedInv, HandoverIsSafe

\* The state of no failover.
LEMMA FailoverTyped ==
  /\ NoFailover \in FailoverRecord
  /\ NoFailover.state = "none" /\ NoFailover.force = FALSE
  BY DEF NoFailover, FailoverRecord

\* What abortFailover leaves behind: no failover and no pause, and a master, if it ends the
\* wait of one or a request of the old master to be replaced.
LEMMA AbortTyped ==
  ASSUME NEW a \in MasterRecord, NEW x, x = abortFailover(a)
  PROVE  /\ x \in MasterRecord /\ x.fo = NoFailover /\ x.paused = FALSE
         /\ x.master = IF a.fo.state = "progress" THEN NoOne ELSE a.master
<1>1. CASE a.fo.state = "progress"
  <2>1. x = [[a EXCEPT !.master = NoOne, !.link = "none"] EXCEPT !.fo = NoFailover, !.paused = FALSE]
    BY <1>1, Zenon DEF abortFailover, clearFailoverState
  <2> QED
    BY <1>1, <2>1, FailoverTyped, Zenon DEF MasterRecord
<1>2. CASE a.fo.state # "progress"
  <2>1. x = [a EXCEPT !.fo = NoFailover, !.paused = FALSE]
    BY <1>2, Zenon DEF abortFailover, clearFailoverState
  <2> QED
    BY <1>2, <2>1, FailoverTyped, Zenon DEF MasterRecord
<1> QED
  BY <1>1, <1>2, Zenon

\* A failover that is aborted leaves a master whose replicas follow it.
LEMMA AbortKeeps ==
  ASSUME PlannedInv, old.fo.state # "none", old' = abortFailover(old),
         UNCHANGED <<log, rp, cl, said, atTurn, used>>
  PROVE  PlannedInv'
<1>1. old \in MasterRecord /\ used' \in UsedRecord
  BY Zenon DEF PlannedInv, PlannedTypeOK, UsedRecord
<1>2. /\ old' \in MasterRecord /\ old'.fo = NoFailover /\ old'.paused = FALSE
      /\ old'.master = IF old.fo.state = "progress" THEN NoOne ELSE old.master
  BY <1>1, AbortTyped, Zenon
<1>3. old.fo.state \in {"wait", "progress"}
  BY <1>1, Zenon DEF MasterRecord, FailoverRecord
<1>4. old.master = NoOne \/ old.fo.state = "progress"
  BY <1>3, Zenon DEF PlannedInv, Steady
<1>5. \A r \in Replica : ~rp[r].master => Begins(rp[r].log, log)
  BY <1>4, Zenon DEF PlannedInv, Steady
<1>6. old'.fo.state = "none" /\ old'.fo.force = FALSE
  BY <1>2, FailoverTyped, Zenon
<1>7. Steady(old', log, rp) /\ NoPauseLeft'
  BY <1>2, <1>5, <1>6, Zenon DEF Steady, NoPauseLeft
<1> QED
  BY <1>1, <1>2, <1>7, MasterKeeps, Zenon

\* The user acts on the old master.
LEMMA UserKeeps ==
  ASSUME PlannedInv,
         \/ Unpause \/ FailoverAbort
         \/ \E t \in Replica \cup {NoOne}, timed, force \in BOOLEAN : failoverCommand(t, timed, force)
  PROVE  PlannedInv'
<1>1. old \in MasterRecord /\ used \in UsedRecord
  BY Zenon DEF PlannedInv, PlannedTypeOK, UsedRecord
<1>2. CASE Unpause
  <2>1. /\ old' \in MasterRecord /\ old'.fo = old.fo /\ old'.master = old.master /\ old'.paused = FALSE
        /\ UNCHANGED <<log, rp, cl, said, atTurn, used>>
    BY <1>1, <1>2, Zenon DEF Unpause, MasterRecord
  <2>2. Steady(old', log, rp) /\ NoPauseLeft'
    BY <2>1, Zenon DEF PlannedInv, Steady, NoPauseLeft
  <2> QED
    BY <1>1, <2>1, <2>2, MasterKeeps, Zenon
<1>3. CASE FailoverAbort
  BY <1>3, AbortKeeps, Zenon DEF FailoverAbort
<1>4. ASSUME NEW t \in Replica \cup {NoOne}, NEW timed \in BOOLEAN, NEW force \in BOOLEAN,
             failoverCommand(t, timed, force)
      PROVE  PlannedInv'
  <2>1. PICK f : f = [state |-> "wait", target |-> t, timed |-> timed, force |-> force]
    BY Zenon
  <2>2. /\ f \in FailoverRecord /\ f.state = "wait" /\ f.target = t /\ f.force = force
        /\ force => t # NoOne
    BY <1>4, <2>1, Zenon DEF FailoverRecord, failoverCommand
  <2>3. old' = [old EXCEPT !.paused = TRUE, !.fo = f] /\ UNCHANGED <<log, rp, cl, said, atTurn>>
    BY <1>4, <2>1, Zenon DEF failoverCommand
  <2>4. old' \in MasterRecord /\ old'.fo = f /\ old'.master = old.master /\ old.master = NoOne
    BY <1>1, <1>4, <2>2, <2>3, Zenon DEF MasterRecord, failoverCommand, StillMaster
  <2>5. used' \in UsedRecord
    BY <1>1, <1>4, UsedTyped, Zenon DEF failoverCommand
  <2>6. Steady(old', log, rp) /\ NoPauseLeft'
    BY <2>2, <2>4, Zenon DEF PlannedInv, Steady, NoPauseLeft
  <2> QED
    BY <2>3, <2>4, <2>5, <2>6, MasterKeeps, Zenon
<1> QED
  BY <1>2, <1>3, <1>4, Zenon

\* The answer of the replica that was asked to take over.
LEMMA ReplyKeeps ==
  ASSUME PlannedInv, PsyncReply
  PROVE  PlannedInv'
<1>1. old \in MasterRecord /\ used \in UsedRecord /\ rp \in [Replica -> ReplicaRecord]
  BY Zenon DEF PlannedInv, PlannedTypeOK, UsedRecord
<1>2. old.fo.state = "progress" /\ old.link \in {"refused", "accepted"} /\ UNCHANGED <<rp, cl, said, atTurn, used>>
  BY Zenon DEF PsyncReply
<1>3. CASE old.link = "refused"
  <2>1. old' = abortFailover(old) /\ log' = log /\ old.fo.state # "none"
    BY <1>2, <1>3, Zenon DEF PsyncReply
  <2> QED
    BY <1>2, <2>1, AbortKeeps, Zenon
<1>4. CASE old.link = "accepted"
  <2>1. PICK r \in Replica : r = old.master
    BY <1>2, Zenon DEF PlannedInv, Steady
  <2>2. log' \in Seq(Nat)
    BY <1>1, <1>4, <2>1, Zenon DEF PsyncReply, ReplicaRecord
  <2>3. old' = [[old EXCEPT !.fo = NoFailover, !.paused = FALSE] EXCEPT !.link = "online"]
    BY <1>4, Zenon DEF PsyncReply, clearFailoverState
  <2>4. old' \in MasterRecord /\ old'.fo = NoFailover /\ old'.paused = FALSE /\ old'.master = r
    BY <1>1, <2>1, <2>3, FailoverTyped, Zenon DEF MasterRecord
  <2>5. Steady(old', log', rp) /\ NoPauseLeft'
    BY <2>4, FailoverTyped, PlannedAssumption, Zenon DEF Steady, NoPauseLeft
  <2>6. PlannedTypeOK'
    BY <1>2, <2>2, <2>4, Zenon DEF PlannedInv, PlannedTypeOK
  <2>7. WaitIsTrue' /\ FailoverLosesNothing'
    BY <1>2, Zenon DEF PlannedInv, HandoverIsSafe, WaitIsTrue, FailoverLosesNothing
  <2> QED
    BY <1>2, <2>5, <2>6, <2>7, Zenon DEF PlannedInv, HandoverIsSafe
<1> QED
  BY <1>2, <1>3, <1>4, Zenon

\* The old master gives up its role for r: to replicas, which are disconnected, nothing is lost.
LEMMA SetMasterKeeps ==
  ASSUME PlannedInv, old.fo.state = "wait", NEW r \in Replica, SetMaster(r),
         ~old.fo.force => CaughtUp(r), UNCHANGED <<log, said, atTurn, used>>
  PROVE  PlannedInv'
<1>1. /\ old \in MasterRecord /\ rp \in [Replica -> ReplicaRecord] /\ log \in Seq(Nat)
      /\ cl \in [Client -> ClientRecord]
  BY Zenon DEF PlannedInv, PlannedTypeOK, ClientRecord
<1>2. old.master = NoOne /\ \A q \in Replica : ~rp[q].master => Begins(rp[q].log, log)
  BY Zenon DEF PlannedInv, Steady
<1>3. PICK f : f = [[old.fo EXCEPT !.state = "progress"] EXCEPT !.target = r]
  BY Zenon
<1>4. f \in FailoverRecord /\ f.state = "progress" /\ f.target = r /\ f.force = old.fo.force
  BY <1>1, <1>3, ZenonT(60) DEF MasterRecord, FailoverRecord
<1>5. old' = [old EXCEPT !.master = r, !.fo = f, !.link = "connect"]
  BY <1>1, <1>3, Zenon DEF SetMaster, MasterRecord, FailoverRecord
<1>6. old' \in MasterRecord /\ old'.fo = f /\ old'.master = r
  BY <1>1, <1>4, <1>5, Zenon DEF MasterRecord
<1>7. ASSUME NEW q \in Replica
      PROVE  /\ rp'[q] \in ReplicaRecord /\ Followed(rp'[q]) /\ ~rp'[q].up
             /\ rp'[q].log = rp[q].log /\ rp'[q].master = rp[q].master /\ rp[q].log \in Seq(Nat)
  <2>1. rp[q] \in ReplicaRecord /\ Followed(rp[q]) /\ rp[q].log \in Seq(Nat)
    BY <1>1, Zenon DEF PlannedInv, ReplicaRecord
  <2>2. rp'[q] = [rp[q] EXCEPT !.up = FALSE, !.ack = 0, !.sent = NoOne]
    BY Zenon DEF SetMaster
  <2>3. PICK y, x : y = rp[q] /\ x = rp'[q]
    BY Zenon
  <2>4. y \in ReplicaRecord /\ Followed(y) /\ x = [y EXCEPT !.up = FALSE, !.ack = 0, !.sent = NoOne]
    BY <2>1, <2>2, <2>3, Zenon
  <2>5. x \in ReplicaRecord /\ Followed(x) /\ x.log = y.log /\ x.master = y.master /\ ~x.up
    BY <2>4, ReplicaTyped, Zenon
  <2> QED
    BY <2>1, <2>3, <2>5, Zenon
<1>8. rp' \in [Replica -> ReplicaRecord]
  BY <1>7, Zenon DEF SetMaster
<1>9. cl' \in [Client -> ClientRecord]
  <2>1. \A c \in Client : [cl[c] EXCEPT !.wait = Idle] \in ClientRecord
    BY <1>1, IdleTyped, Zenon DEF ClientRecord
  <2> QED
    BY <2>1, Zenon DEF SetMaster
<1>10. PlannedTypeOK /\ PlannedTypeOK'
  BY <1>6, <1>8, <1>9, Zenon DEF PlannedInv, PlannedTypeOK, ClientRecord
<1>11. ASSUME ~old.fo.force PROVE Len(rp[r].log) = Len(log)
  <2>1. rp[r].up /\ rp[r].ack = Len(log)
    BY <1>11, Zenon DEF CaughtUp, Off
  <2>2. rp[r].ack <= Len(rp[r].log) /\ ~rp[r].master
    BY <2>1, Zenon DEF PlannedInv, Followed
  <2>3. Len(rp[r].log) <= Len(log)
    BY <1>2, <2>2, Zenon DEF Begins
  <2> QED
    BY <1>1, <1>7, <2>1, <2>2, <2>3
<1>12. Steady(old', log, rp')
  <2>1. old'.fo.force => old'.fo.target \in Replica
    BY <1>4, <1>6, Zenon
  <2>2. \A q \in Replica : ~rp'[q].up /\ (~rp'[q].master => Begins(rp'[q].log, log))
    BY <1>2, <1>7, Zenon
  <2>3. old'.fo.state = "progress" /\ old'.master \in Replica
    BY <1>4, <1>6, Zenon
  <2>4. ~old'.fo.force => Len(rp'[old'.master].log) = Len(log)
    BY <1>4, <1>6, <1>7, <1>11, Zenon
  <2> QED
    BY <2>1, <2>2, <2>3, <2>4, Zenon DEF Steady
<1>13. WaitIsTrue' /\ FailoverLosesNothing'
  <2>1. \A q \in Replica : Begins(rp[q].log, rp'[q].log) /\ (rp[q].master => rp'[q].master)
    BY <1>7, BeginsSelf, Zenon
  <2>2. WaitIsTrue /\ FailoverLosesNothing
    BY Zenon DEF PlannedInv, HandoverIsSafe
  <2> QED
    BY <1>10, <2>1, <2>2, GrownKeeps, Zenon
<1>14. NoPauseLeft'
  BY <1>4, <1>6, Zenon DEF NoPauseLeft
<1> QED
  BY <1>7, <1>10, <1>12, <1>13, <1>14, Zenon DEF PlannedInv, HandoverIsSafe

\* updateFailoverStatus: forced, too late, or to a replica that has caught up.
LEMMA StatusKeeps ==
  ASSUME PlannedInv, NEW late \in BOOLEAN, updateFailoverStatus(late)
  PROVE  PlannedInv'
<1>1. old.fo.state = "wait" /\ UNCHANGED <<log, said, atTurn, used>>
  BY Zenon DEF updateFailoverStatus
<1>2. CASE late /\ old.fo.force /\ SetMaster(old.fo.target)
  <2>1. PICK r \in Replica : r = old.fo.target
    BY <1>2, Zenon DEF PlannedInv, Steady
  <2> QED
    BY <1>1, <1>2, <2>1, SetMasterKeeps, Zenon
<1>3. CASE old' = abortFailover(old) /\ UNCHANGED <<cl, rp>>
  BY <1>1, <1>3, AbortKeeps, Zenon
<1>4. ASSUME NEW r \in Replica, CaughtUp(r), SetMaster(r) PROVE PlannedInv'
  BY <1>1, <1>4, SetMasterKeeps, Zenon
<1> QED
  BY <1>2, <1>3, <1>4, Zenon DEF updateFailoverStatus

\* The replica that is asked takes over, with everything the old master had.
LEMMA RequestKeeps ==
  ASSUME PlannedInv, NEW lost \in BOOLEAN, PsyncFailover(lost)
  PROVE  PlannedInv'
<1>1. /\ old \in MasterRecord /\ rp \in [Replica -> ReplicaRecord] /\ log \in Seq(Nat)
      /\ PlannedTypeOK /\ used \in UsedRecord
  BY Zenon DEF PlannedInv, PlannedTypeOK, UsedRecord
<1>2. old.fo.state = "progress" /\ UNCHANGED <<log, cl, said, used>>
  BY Zenon DEF PsyncFailover
<1>3. PICK r \in Replica : r = old.master
  BY <1>2, Zenon DEF PlannedInv, Steady
<1>4. old' \in MasterRecord /\ old'.fo = old.fo /\ old'.master = r
  <2>1. PICK k \in {"connect", "refused", "accepted"} : old' = [old EXCEPT !.link = k]
    BY Zenon DEF PsyncFailover
  <2> QED
    BY <1>1, <1>3, <2>1, Zenon DEF MasterRecord
<1>5. NoPauseLeft'
  BY <1>2, <1>4, Zenon DEF NoPauseLeft
<1>6. CASE rp[r].master \/ ~rp[r].same
  <2>1. UNCHANGED <<rp, atTurn>>
    BY <1>3, <1>6, Zenon DEF PsyncFailover
  <2>2. Steady(old', log, rp)
    BY <1>3, <1>4, Zenon DEF PlannedInv, Steady
  <2> QED
    BY <1>1, <1>2, <1>4, <1>5, <2>1, <2>2, MasterKeeps, Zenon
<1>7. CASE ~(rp[r].master \/ ~rp[r].same)
  <2>1. PICK y, x : y = rp[r] /\ x = [y EXCEPT !.master = TRUE]
    BY Zenon
  <2>2. /\ y \in ReplicaRecord /\ Followed(y) /\ ~y.up /\ ~y.master /\ y.log \in Seq(Nat)
        /\ Begins(y.log, log)
    BY <1>1, <1>2, <1>3, <1>7, <2>1, Zenon DEF PlannedInv, Steady, ReplicaRecord
  <2>3. x \in ReplicaRecord /\ Followed(x) /\ x.log = y.log /\ x.master /\ ~x.up
    BY <2>1, <2>2, ReplicaTyped, Zenon
  <2>4. rp' = [rp EXCEPT ![r] = x] /\ atTurn' = IF old.fo.force THEN atTurn ELSE log
    BY <1>3, <1>7, <2>1, Zenon DEF PsyncFailover
  <2>5. \A q \in Replica : rp'[q] = IF q = r THEN x ELSE rp[q]
    BY <1>1, <2>4, Zenon
  <2>6. PlannedTypeOK'
    BY <1>1, <1>2, <1>4, <2>3, <2>4, Zenon DEF PlannedTypeOK
  <2>7. Steady(old', log, rp')
    <3>1. \A q \in Replica : ~rp'[q].up /\ (~rp'[q].master => Begins(rp'[q].log, log))
      BY <1>2, <2>3, <2>5, Zenon DEF PlannedInv, Steady
    <3>2. rp'[old'.master].master
      BY <1>4, <2>3, <2>5, Zenon
    <3>3. old.fo.force => old.fo.target \in Replica
      BY Zenon DEF PlannedInv, Steady
    <3> QED
      BY <1>2, <1>3, <1>4, <3>1, <3>2, <3>3, Zenon DEF Steady
  <2>8. \A q \in Replica : Begins(rp[q].log, rp'[q].log) /\ (rp[q].master => rp'[q].master)
    <3>1. \A q \in Replica : rp[q].log \in Seq(Nat)
      BY <1>1, Zenon DEF ReplicaRecord
    <3> QED
      BY <2>1, <2>3, <2>5, <3>1, BeginsSelf, Zenon
  <2>9. WaitIsTrue' /\ (atTurn' = atTurn => FailoverLosesNothing')
    <3>1. WaitIsTrue /\ FailoverLosesNothing
      BY Zenon DEF PlannedInv, HandoverIsSafe
    <3> QED
      BY <1>1, <1>2, <2>6, <2>8, <3>1, GrownKeeps, Zenon
  <2>10. ASSUME ~old.fo.force PROVE FailoverLosesNothing'
    <3>1. Len(y.log) = Len(log)
      BY <1>2, <1>3, <1>7, <2>1, <2>10, Zenon DEF PlannedInv, Steady
    <3>2. Begins(log, y.log)
      BY <1>1, <2>2, <3>1, BeginsWhole, Zenon
    <3>3. rp'[r].master /\ rp'[r].log = y.log /\ atTurn' = log
      BY <2>3, <2>4, <2>5, <2>10, Zenon
    <3> QED
      BY <3>2, <3>3, Zenon DEF FailoverLosesNothing
  <2>11. FailoverLosesNothing'
    BY <2>4, <2>9, <2>10, Zenon
  <2>12. \A q \in Replica : Followed(rp'[q])
    BY <2>3, <2>5, Zenon DEF PlannedInv
  <2> QED
    BY <1>2, <1>5, <2>6, <2>7, <2>9, <2>11, <2>12, Zenon DEF PlannedInv, HandoverIsSafe
<1> QED
  BY <1>6, <1>7, Zenon

\* The first state.
LEMMA PlannedStarts == PlannedInit => PlannedInv
<1> SUFFICES ASSUME PlannedInit PROVE PlannedInv
  OBVIOUS
<1>1. NoFailover \in FailoverRecord /\ NoFailover.state = "none" /\ NoFailover.force = FALSE
  BY FailoverTyped, Zenon
<1>2. <<>> \in Seq(Nat) /\ Len(<<>>) = 0 /\ 0 \in Nat /\ 0 <= 0
  OBVIOUS
<1>3. /\ old \in MasterRecord /\ old.master = NoOne /\ old.fo = NoFailover /\ old.paused = FALSE
  BY <1>1, Zenon DEF PlannedInit, MasterRecord
<1>4. ASSUME NEW r \in Replica
      PROVE  /\ rp[r] \in ReplicaRecord /\ Followed(rp[r]) /\ rp[r].log = <<>>
  <2>1. rp[r] = [master |-> FALSE, same |-> TRUE, log |-> <<>>, up |-> TRUE, ack |-> 0, sent |-> NoOne]
    BY Zenon DEF PlannedInit
  <2>2. PICK e : e = <<>> /\ e \in Seq(Nat) /\ Len(e) = 0
    BY <1>2, Zenon
  <2>3. PICK x : x = [master |-> FALSE, same |-> TRUE, log |-> e, up |-> TRUE, ack |-> 0, sent |-> NoOne]
    BY Zenon
  <2>4. x \in ReplicaRecord /\ x.log = e /\ x.ack = 0 /\ x.sent = NoOne /\ x.master = FALSE
    BY <1>2, <2>2, <2>3, Zenon DEF ReplicaRecord
  <2>5. Followed(x)
    BY <1>2, <2>2, <2>4, Zenon DEF Followed
  <2> QED
    BY <2>1, <2>2, <2>3, <2>4, <2>5, Zenon
<1>5. PlannedTypeOK
  <2>1. rp \in [Replica -> ReplicaRecord]
    BY <1>4, Zenon DEF PlannedInit
  <2>2. cl \in [Client -> ClientRecord]
    BY <1>2, IdleTyped, Zenon DEF PlannedInit, ClientRecord
  <2>3. said \in [n : Nat, off : Nat] /\ used \in UsedRecord
    BY <1>2, Zenon DEF PlannedInit, UsedRecord
  <2> QED
    BY <1>2, <1>3, <2>1, <2>2, <2>3, Zenon DEF PlannedInit, PlannedTypeOK, ClientRecord, UsedRecord
<1>6. Steady(old, log, rp)
  <2>1. \A r \in Replica : Begins(rp[r].log, log)
    BY <1>2, <1>4, BeginsSelf, Zenon DEF PlannedInit
  <2> QED
    BY <1>1, <1>3, <2>1, Zenon DEF Steady
<1>7. WaitIsTrue
  <2>1. said.n = 0
    BY Zenon DEF PlannedInit
  <2>2. Have(rp, said.off) \subseteq Replica
    BY DEF Have
  <2>3. Cardinality(Have(rp, said.off)) \in Nat
    BY <2>2, HaveCounts, Zenon
  <2>4. said.n <= Cardinality(Have(rp, said.off))
    BY <2>1, <2>3
  <2> QED
    BY <2>4, Zenon DEF WaitIsTrue, Have
<1>8. FailoverLosesNothing /\ NoPauseLeft
  BY <1>3, Zenon DEF PlannedInit, FailoverLosesNothing, NoPauseLeft
<1> QED
  BY <1>4, <1>5, <1>6, <1>7, <1>8, Zenon DEF PlannedInv, HandoverIsSafe

\* A step of another part of the server.
LEMMA PlannedStutters ==
  ASSUME PlannedInv, UNCHANGED plannedVars
  PROVE  PlannedInv'
  BY Zenon DEF PlannedInv, plannedVars, PlannedTypeOK, HandoverIsSafe, WaitIsTrue,
               FailoverLosesNothing, NoPauseLeft

\* WAIT (replication.c: replicationCountAcksByOffset, processClientsWaitingReplicas) never
\* promises more replicas than have executed the writes of the client, FAILOVER without FORCE
\* hands over everything the old master had executed, and leaves no client paused when it ends.
THEOREM HandoverAlwaysSafe == PlannedSpec => []HandoverIsSafe
<1>1. PlannedInit => PlannedInv
  BY PlannedStarts, Zenon
<1>2. PlannedInv /\ [PlannedNext]_plannedVars => PlannedInv'
  <2> SUFFICES ASSUME PlannedInv, [PlannedNext]_plannedVars PROVE PlannedInv'
    OBVIOUS
  <2>1. CASE UNCHANGED plannedVars
    BY <2>1, PlannedStutters, Zenon
  <2>2. CASE PlannedNext
    BY <2>2, WritesKeep, WaitsKeep, ReplicaActs, UserKeeps, ReplyKeeps, StatusKeeps, RequestKeeps,
       Zenon DEF PlannedNext
  <2> QED
    BY <2>1, <2>2, Zenon
<1>3. PlannedInv => HandoverIsSafe
  BY Zenon DEF PlannedInv
<1> QED
  BY <1>1, <1>2, <1>3, PTL DEF PlannedSpec

-----------------------------------------------------------------------------
(* The election of a cluster. *)

EpochsOrdered ==
  \A n \in Node : /\ 1 <= savedEpoch[n]
                  /\ savedEpoch[n] <= currentEpoch[n]
                  /\ lastVoteEpoch[n] <= savedEpoch[n]

RequestsLate == \A m \in requests : m.epoch >= 2

VotesUnique ==
  \A a \in votes : /\ a.epoch >= 2
                   /\ a.epoch <= lastVoteEpoch[a.from]
                   /\ \A b \in votes : a.from = b.from /\ a.epoch = b.epoch => a.to = b.to

VotesGiven ==
  /\ acks \subseteq votes
  /\ \A r \in Group : \A a \in counted[r] : a \in votes /\ a.to = r

OneElection(r) ==
  /\ phase[r] = "scheduled" => Settled(r) /\ counted[r] = {}
  /\ phase[r] = "sent" => /\ \A m \in requests : m.from = r => m.epoch = authEpoch[r]
                          /\ \A a \in acks : a.to = r => a.epoch = authEpoch[r]
                          /\ \A a \in counted[r] : a.epoch = authEpoch[r]
                          /\ authEpoch[r] >= 2

NothingStale == \A r \in Group : OneElection(r)

BallotOf(v, r, e) == [from |-> v, to |-> r, epoch |-> e]

ElectedBy(A, w) ==
  /\ A \subseteq Node
  /\ Cardinality(A) >= neededQuorum
  /\ \A v \in A : BallotOf(v, w.node, w.epoch) \in votes

Elected ==
  \A w \in won : \/ w = [node |-> Owner0, epoch |-> 1]
                 \/ w.epoch >= 2 /\ \E A : ElectedBy(A, w)

TablesElected == \A n \in Node : [node |-> owner[n], epoch |-> ownerEpoch[n]] \in won

ElectionInv ==
  /\ TypeOK /\ EpochsOrdered /\ RequestsLate /\ VotesUnique /\ VotesGiven
  /\ NothingStale /\ Elected /\ TablesElected

\* The cluster has finitely many nodes, ...
LEMMA NodesFinite == IsFiniteSet(Node)
BY ElectionAssumption, FS_Union, ZenonT(60) DEF Node

\* ... so its size and the quorum are numbers.
LEMMA QuorumType ==
  /\ Cardinality(Voters) \in Nat /\ clusterSize \in Nat /\ neededQuorum \in Nat
  /\ 2 * neededQuorum > clusterSize
<1>1. Cardinality(Voters) \in Nat
  BY ElectionAssumption, FS_CardinalityType, Zenon
<1> QED
  BY <1>1 DEF clusterSize, neededQuorum

\* The first state, in which the owner of the slots is the winner of epoch 1.
LEMMA InitInv == Init => ElectionInv
<1> SUFFICES ASSUME Init PROVE ElectionInv
  BY Zenon
<1>1. TypeOK
  BY ElectionAssumption DEF Init, TypeOK, Node, Epoch, Phase, Victory
<1>2. EpochsOrdered /\ RequestsLate /\ VotesUnique /\ VotesGiven /\ NothingStale
  BY DEF Init, EpochsOrdered, RequestsLate, VotesUnique, VotesGiven, NothingStale,
         OneElection, Node
<1>3. Elected /\ TablesElected
  BY Zenon DEF Init, Elected, TablesElected
<1> QED
  BY <1>1, <1>2, <1>3, Zenon DEF ElectionInv

\* The elections stay won when votes are only added.
LEMMA ElectedKept ==
  ASSUME Elected, won' = won, votes \subseteq votes'
  PROVE  Elected'
<1> SUFFICES ASSUME NEW w \in won
             PROVE  \/ w = [node |-> Owner0, epoch |-> 1]
                    \/ w.epoch >= 2 /\ \E A : ElectedBy(A, w)'
  BY Zenon DEF Elected
<1>1. CASE w = [node |-> Owner0, epoch |-> 1]
  BY <1>1, Zenon
<1>2. CASE w.epoch >= 2 /\ \E A : ElectedBy(A, w)
  <2>1. PICK A : ElectedBy(A, w)
    BY <1>2, Zenon
  <2>2. ElectedBy(A, w)'
    BY <2>1, Zenon DEF ElectedBy
  <2> QED
    BY <1>2, <2>2, Zenon
<1> QED
  BY <1>1, <1>2, Zenon DEF Elected

\* A replica schedules its election when all packets of the last one are gone.
LEMMA ScheduleElectionKeeps ==
  ASSUME ElectionInv, PromptVotes, NEW r \in Group, ScheduleElection(r)
  PROVE  ElectionInv'
<1> USE ElectionAssumption DEF ScheduleElection, table, auth, Node, Epoch, Phase,
                               Request, Ack, Victory
<1>1. TypeOK'
  BY Zenon DEF ElectionInv, TypeOK, Larger
<1>2. EpochsOrdered' /\ RequestsLate'
  BY Zenon DEF ElectionInv, TypeOK, EpochsOrdered, RequestsLate, Larger
<1>3. VotesUnique'
  BY Zenon DEF ElectionInv, TypeOK, EpochsOrdered, RequestsLate, VotesUnique, MayVote
<1>4. VotesGiven'
  BY Zenon DEF ElectionInv, TypeOK, VotesGiven
<1>5. NothingStale'
  BY DEF ElectionInv, TypeOK, EpochsOrdered, NothingStale, OneElection, Settled
<1>6. Elected'
  BY ElectedKept, Zenon DEF ElectionInv
<1>7. TablesElected'
  BY Zenon DEF ElectionInv, TypeOK, TablesElected
<1> QED
  BY <1>1, <1>2, <1>3, <1>4, <1>5, <1>6, <1>7, Zenon DEF ElectionInv

\* An election that is given up leaves its epoch to nobody.
LEMMA ElectionExpiresKeeps ==
  ASSUME ElectionInv, PromptVotes, NEW r \in Group, ElectionExpires(r)
  PROVE  ElectionInv'
<1> USE ElectionAssumption DEF ElectionExpires, table, auth, Node, Epoch, Phase,
                               Request, Ack, Victory
<1>1. TypeOK'
  BY Zenon DEF ElectionInv, TypeOK, Larger
<1>2. EpochsOrdered' /\ RequestsLate'
  BY Zenon DEF ElectionInv, TypeOK, EpochsOrdered, RequestsLate, Larger
<1>3. VotesUnique'
  BY Zenon DEF ElectionInv, TypeOK, EpochsOrdered, RequestsLate, VotesUnique, MayVote
<1>4. VotesGiven'
  BY Zenon DEF ElectionInv, TypeOK, VotesGiven
<1>5. NothingStale'
  BY DEF ElectionInv, TypeOK, EpochsOrdered, NothingStale, OneElection, Settled
<1>6. Elected'
  BY ElectedKept, Zenon DEF ElectionInv
<1>7. TablesElected'
  BY Zenon DEF ElectionInv, TypeOK, TablesElected
<1> QED
  BY <1>1, <1>2, <1>3, <1>4, <1>5, <1>6, <1>7, Zenon DEF ElectionInv

\* The epoch of a new election is above every vote of the past.
LEMMA AskForVotesKeeps ==
  ASSUME ElectionInv, PromptVotes,
         NEW r \in Group, NEW force \in BOOLEAN, NEW saved \in BOOLEAN,
         AskForVotes(r, force, saved)
  PROVE  ElectionInv'
<1> USE ElectionAssumption DEF AskForVotes, table, auth, Node, Epoch, Phase,
                               Request, Ack, Victory
<1>1. TypeOK'
  BY DEF ElectionInv, TypeOK, Larger
<1>2. EpochsOrdered' /\ RequestsLate'
  BY DEF ElectionInv, TypeOK, EpochsOrdered, RequestsLate, Larger
<1>3. VotesUnique'
  BY ZenonT(60) DEF ElectionInv, TypeOK, EpochsOrdered, RequestsLate, VotesUnique, MayVote
<1>4. VotesGiven'
  BY Zenon DEF ElectionInv, TypeOK, VotesGiven
<1>5. NothingStale'
  BY SMTT(40) DEF ElectionInv, TypeOK, EpochsOrdered, NothingStale, OneElection, Settled
<1>6. Elected'
  BY ElectedKept, Zenon DEF ElectionInv
<1>7. TablesElected'
  BY Zenon DEF ElectionInv, TypeOK, TablesElected
<1> QED
  BY <1>1, <1>2, <1>3, <1>4, <1>5, <1>6, <1>7, ZenonT(60) DEF ElectionInv

\* An ACK that counts is one of the current election.
LEMMA ReceiveAckKeeps ==
  ASSUME ElectionInv, PromptVotes, NEW a, ReceiveAck(a)
  PROVE  ElectionInv'
<1> USE ElectionAssumption DEF ReceiveAck, table, auth, Node, Epoch, Phase,
                               Request, Ack, Victory
<1>1. TypeOK'
  BY ZenonT(60) DEF ElectionInv, TypeOK, Larger
<1>2. EpochsOrdered' /\ RequestsLate'
  BY DEF ElectionInv, TypeOK, EpochsOrdered, RequestsLate, Larger
<1>3. VotesUnique'
  BY Zenon DEF ElectionInv, TypeOK, EpochsOrdered, RequestsLate, VotesUnique, MayVote
<1>4. VotesGiven'
  BY SMTT(40) DEF ElectionInv, TypeOK, VotesGiven
<1>5. NothingStale'
  BY DEF ElectionInv, TypeOK, EpochsOrdered, NothingStale, OneElection, Settled
<1>6. Elected'
  BY ElectedKept, Zenon DEF ElectionInv
<1>7. TablesElected'
  BY Zenon DEF ElectionInv, TypeOK, TablesElected
<1> QED
  BY <1>1, <1>2, <1>3, <1>4, <1>5, <1>6, <1>7, Zenon DEF ElectionInv

\* An ACK that is lost was a vote all the same.
LEMMA LoseAckKeeps ==
  ASSUME ElectionInv, PromptVotes, NEW a, LoseAck(a)
  PROVE  ElectionInv'
<1> USE ElectionAssumption DEF LoseAck, table, auth, Node, Epoch, Phase,
                               Request, Ack, Victory
<1>1. TypeOK'
  BY Zenon DEF ElectionInv, TypeOK, Larger
<1>2. EpochsOrdered' /\ RequestsLate'
  BY Zenon DEF ElectionInv, TypeOK, EpochsOrdered, RequestsLate, Larger
<1>3. VotesUnique'
  BY Zenon DEF ElectionInv, TypeOK, EpochsOrdered, RequestsLate, VotesUnique, MayVote
<1>4. VotesGiven'
  BY Zenon DEF ElectionInv, TypeOK, VotesGiven
<1>5. NothingStale'
  BY ZenonT(60) DEF ElectionInv, TypeOK, EpochsOrdered, NothingStale, OneElection, Settled
<1>6. Elected'
  BY ElectedKept, Zenon DEF ElectionInv
<1>7. TablesElected'
  BY Zenon DEF ElectionInv, TypeOK, TablesElected
<1> QED
  BY <1>1, <1>2, <1>3, <1>4, <1>5, <1>6, <1>7, Zenon DEF ElectionInv

\* The vote is written to nodes.conf before the ACK is sent.
LEMMA VoteKeeps ==
  ASSUME ElectionInv, PromptVotes, NEW v \in Node, NEW m, Vote(v, m)
  PROVE  ElectionInv'
<1> USE ElectionAssumption DEF Vote, table, auth, Node, Epoch, Phase,
                               Request, Ack, Victory
<1>1. TypeOK'
  BY SMTT(40) DEF ElectionInv, TypeOK, Larger
<1>2. EpochsOrdered' /\ RequestsLate'
  BY SMTT(40) DEF ElectionInv, TypeOK, EpochsOrdered, RequestsLate, Larger
<1>3. VotesUnique'
  <2> DEFINE b == [from |-> v, to |-> m.from, epoch |-> m.epoch]
  <2>1. /\ votes' = votes \cup {b} /\ b \in Ack
        /\ b.from = v /\ b.epoch = m.epoch /\ m.epoch \in Nat /\ m.epoch >= 2
        /\ lastVoteEpoch' = [lastVoteEpoch EXCEPT ![v] = m.epoch]
    BY SMTT(40) DEF ElectionInv, TypeOK, RequestsLate
  <2>2. lastVoteEpoch[v] < m.epoch
    <3>1. /\ lastVoteEpoch[v] \in Nat /\ savedEpoch[v] \in Nat /\ currentEpoch[v] \in Nat
          /\ lastVoteEpoch[v] <= savedEpoch[v] /\ savedEpoch[v] <= currentEpoch[v]
      BY SMTT(40) DEF ElectionInv, TypeOK, EpochsOrdered
    <3>2. m.epoch >= currentEpoch[v] /\ lastVoteEpoch[v] # m.epoch
      BY Zenon DEF MayVote
    <3> QED
      BY <2>1, <3>1, <3>2, SMTT(40)
  <2> HIDE DEF b
  <2>3. \A a \in votes : a.from = v => a.epoch < m.epoch
    BY <2>1, <2>2, SMTT(40) DEF ElectionInv, TypeOK, VotesUnique
  <2>4. \A a \in votes : a.epoch >= 2 /\ a.epoch <= lastVoteEpoch'[a.from]
    BY <2>1, <2>3, SMTT(30) DEF ElectionInv, TypeOK, VotesUnique
  <2>5. b.epoch >= 2 /\ b.epoch <= lastVoteEpoch'[b.from]
    BY <2>1, SMTT(30) DEF ElectionInv, TypeOK
  <2>6. \A a, c \in votes' : a.from = c.from /\ a.epoch = c.epoch => a.to = c.to
    BY <2>1, <2>3, SMTT(40) DEF ElectionInv, TypeOK, VotesUnique
  <2> QED
    BY <2>1, <2>4, <2>5, <2>6, ZenonT(60) DEF VotesUnique
<1>4. VotesGiven'
  BY Zenon DEF ElectionInv, TypeOK, VotesGiven
<1>5. NothingStale'
  BY DEF ElectionInv, TypeOK, EpochsOrdered, NothingStale, OneElection, Settled
<1>6. Elected'
  BY ElectedKept, Zenon DEF ElectionInv
<1>7. TablesElected'
  BY Zenon DEF ElectionInv, TypeOK, TablesElected
<1> QED
  BY <1>1, <1>2, <1>3, <1>4, <1>5, <1>6, <1>7, ZenonT(60) DEF ElectionInv

\* A request that is refused or lost changes no vote.
LEMMA RequestGoneKeeps ==
  ASSUME ElectionInv, PromptVotes, NEW m, RequestGone(m)
  PROVE  ElectionInv'
<1> USE ElectionAssumption DEF RequestGone, table, auth, Node, Epoch, Phase,
                               Request, Ack, Victory
<1>1. TypeOK'
  BY Zenon DEF ElectionInv, TypeOK, Larger
<1>2. EpochsOrdered' /\ RequestsLate'
  BY Zenon DEF ElectionInv, TypeOK, EpochsOrdered, RequestsLate, Larger
<1>3. VotesUnique'
  BY Zenon DEF ElectionInv, TypeOK, EpochsOrdered, RequestsLate, VotesUnique, MayVote
<1>4. VotesGiven'
  BY Zenon DEF ElectionInv, TypeOK, VotesGiven
<1>5. NothingStale'
  BY ZenonT(60) DEF ElectionInv, TypeOK, EpochsOrdered, NothingStale, OneElection, Settled
<1>6. Elected'
  BY ElectedKept, Zenon DEF ElectionInv
<1>7. TablesElected'
  BY Zenon DEF ElectionInv, TypeOK, TablesElected
<1> QED
  BY <1>1, <1>2, <1>3, <1>4, <1>5, <1>6, <1>7, Zenon DEF ElectionInv

\* currentEpoch only grows.
LEMMA HearEpochKeeps ==
  ASSUME ElectionInv, PromptVotes, NEW n \in Node, NEW m \in Node, HearEpoch(n, m)
  PROVE  ElectionInv'
<1> USE ElectionAssumption DEF HearEpoch, table, auth, Node, Epoch, Phase,
                               Request, Ack, Victory
<1>1. TypeOK'
  BY Zenon DEF ElectionInv, TypeOK, Larger
<1>2. EpochsOrdered' /\ RequestsLate'
  BY DEF ElectionInv, TypeOK, EpochsOrdered, RequestsLate, Larger
<1>3. VotesUnique'
  BY ZenonT(60) DEF ElectionInv, TypeOK, EpochsOrdered, RequestsLate, VotesUnique, MayVote
<1>4. VotesGiven'
  BY Zenon DEF ElectionInv, TypeOK, VotesGiven
<1>5. NothingStale'
  BY ZenonT(60) DEF ElectionInv, TypeOK, EpochsOrdered, NothingStale, OneElection, Settled
<1>6. Elected'
  BY ElectedKept, Zenon DEF ElectionInv
<1>7. TablesElected'
  BY Zenon DEF ElectionInv, TypeOK, TablesElected
<1> QED
  BY <1>1, <1>2, <1>3, <1>4, <1>5, <1>6, <1>7, Zenon DEF ElectionInv

\* A table takes over what a winner claims.
LEMMA HearOwnerKeeps ==
  ASSUME ElectionInv, PromptVotes, NEW n \in Node, NEW w, HearOwner(n, w)
  PROVE  ElectionInv'
<1> USE ElectionAssumption DEF HearOwner, table, auth, Node, Epoch, Phase,
                               Request, Ack, Victory
<1>1. TypeOK'
  BY Zenon DEF ElectionInv, TypeOK, Larger
<1>2. EpochsOrdered' /\ RequestsLate'
  BY SMTT(40) DEF ElectionInv, TypeOK, EpochsOrdered, RequestsLate, Larger
<1>3. VotesUnique'
  BY Zenon DEF ElectionInv, TypeOK, EpochsOrdered, RequestsLate, VotesUnique, MayVote
<1>4. VotesGiven'
  BY Zenon DEF ElectionInv, TypeOK, VotesGiven
<1>5. NothingStale'
  BY DEF ElectionInv, TypeOK, EpochsOrdered, NothingStale, OneElection, Settled
<1>6. Elected'
  BY ElectedKept, Zenon DEF ElectionInv
<1>7. TablesElected'
  BY ZenonT(60) DEF ElectionInv, TypeOK, TablesElected
<1> QED
  BY <1>1, <1>2, <1>3, <1>4, <1>5, <1>6, <1>7, Zenon DEF ElectionInv

\* A node comes back with what nodes.conf holds.
LEMMA RestartKeeps ==
  ASSUME ElectionInv, PromptVotes, NEW n \in Node, Restart(n)
  PROVE  ElectionInv'
<1> USE ElectionAssumption DEF Restart, table, auth, Node, Epoch, Phase,
                               Request, Ack, Victory
<1>1. TypeOK'
  BY SMTT(40) DEF ElectionInv, TypeOK, Larger
<1>2. EpochsOrdered' /\ RequestsLate'
  BY SMTT(40) DEF ElectionInv, TypeOK, EpochsOrdered, RequestsLate, Larger
<1>3. VotesUnique'
  BY Zenon DEF ElectionInv, TypeOK, EpochsOrdered, RequestsLate, VotesUnique, MayVote
<1>4. VotesGiven'
  BY Zenon DEF ElectionInv, TypeOK, VotesGiven
<1>5. NothingStale'
  BY SMTT(40) DEF ElectionInv, TypeOK, EpochsOrdered, NothingStale, OneElection, Settled
<1>6. Elected'
  BY ElectedKept, Zenon DEF ElectionInv
<1>7. TablesElected'
  BY Zenon DEF ElectionInv, TypeOK, TablesElected
<1> QED
  BY <1>1, <1>2, <1>3, <1>4, <1>5, <1>6, <1>7, ZenonT(60) DEF ElectionInv

\* The nodes behind the ACKs a replica counted are as many as the ACKs.
LEMMA CountedVoters ==
  ASSUME ElectionInv, NEW r \in Group, phase[r] = "sent"
  PROVE  LET A == {a.from : a \in counted[r]} IN
           /\ A \subseteq Node /\ IsFiniteSet(A) /\ IsFiniteSet(counted[r])
           /\ Cardinality(counted[r]) <= Cardinality(A)
           /\ \A v \in A : BallotOf(v, r, authEpoch[r]) \in votes
<1> DEFINE A == {a.from : a \in counted[r]}
           f == [a \in counted[r] |-> a.from]
<1>1. /\ counted[r] \subseteq Ack
      /\ \A a \in counted[r] : a \in votes /\ a.to = r /\ a.epoch = authEpoch[r]
  BY Zenon DEF ElectionInv, TypeOK, VotesGiven, NothingStale, OneElection
<1>2. A \subseteq Node
  BY <1>1, Zenon DEF Ack
<1>3. IsFiniteSet(A)
  BY <1>2, NodesFinite, FS_Subset, Zenon
<1>4. \A a \in counted[r] : a = BallotOf(a.from, r, authEpoch[r])
  BY <1>1 DEF Ack, BallotOf
<1>5. f \in Injection(counted[r], A)
  BY <1>4, Zenon DEF Injection, IsInjective
<1>6. IsFiniteSet(counted[r]) /\ Cardinality(counted[r]) <= Cardinality(A)
  BY <1>3, <1>5, FS_Injection, Zenon
<1> QED
  BY <1>1, <1>2, <1>3, <1>4, <1>6, Zenon

\* Who wins has the votes of a majority in its epoch.
LEMMA WinElectionKeeps ==
  ASSUME ElectionInv, PromptVotes, NEW r \in Group, WinElection(r)
  PROVE  ElectionInv'
<1> USE ElectionAssumption DEF WinElection, table, auth
<1> DEFINE u == [node |-> r, epoch |-> authEpoch[r]]
           A == {a.from : a \in counted[r]}
<1>1. TypeOK'
  BY DEF ElectionInv, TypeOK, Node, Victory
<1>2. EpochsOrdered' /\ RequestsLate'
  BY SMTT(40) DEF ElectionInv, TypeOK, Node, Epoch, EpochsOrdered, RequestsLate
<1>3. VotesUnique'
  BY Zenon DEF ElectionInv, VotesUnique
<1>4. VotesGiven'
  BY Zenon DEF ElectionInv, VotesGiven
<1>5. NothingStale'
  BY ZenonT(60) DEF ElectionInv, NothingStale, OneElection, Settled
<1>6. Elected'
  <2>1. /\ A \subseteq Node /\ IsFiniteSet(A) /\ IsFiniteSet(counted[r])
        /\ Cardinality(counted[r]) <= Cardinality(A)
        /\ \A v \in A : BallotOf(v, r, authEpoch[r]) \in votes
    BY CountedVoters, Zenon
  <2>2. Cardinality(A) >= neededQuorum
    BY <2>1, FS_CardinalityType, QuorumType
  <2>3. PICK z, Z : z = u /\ Z = A
    BY ZenonT(60)
  <2>4. z.epoch >= 2 /\ ElectedBy(Z, z)'
    BY <2>1, <2>2, <2>3, Zenon DEF ElectedBy, ElectionInv, NothingStale, OneElection
  <2>5. won' = won \cup {z}
    BY <2>3, Zenon
  <2>6. \A w \in won : \/ w = [node |-> Owner0, epoch |-> 1]
                       \/ w.epoch >= 2 /\ \E B : ElectedBy(B, w)'
    BY Zenon DEF ElectionInv, Elected, ElectedBy
  <2> QED
    BY <2>4, <2>5, <2>6, Zenon DEF Elected
<1>7. TablesElected'
  BY Zenon DEF ElectionInv, TypeOK, Node, TablesElected
<1> QED
  BY <1>1, <1>2, <1>3, <1>4, <1>5, <1>6, <1>7, ZenonT(60) DEF ElectionInv

\* Every step keeps the invariant.
LEMMA NextKeeps ==
  ASSUME ElectionInv, PromptVotes, [Next]_vars
  PROVE  ElectionInv'
<1>1. CASE Next
  BY <1>1, ScheduleElectionKeeps, ElectionExpiresKeeps, WinElectionKeeps, AskForVotesKeeps,
     ReceiveAckKeeps, LoseAckKeeps, RequestGoneKeeps, VoteKeeps, HearEpochKeeps,
     HearOwnerKeeps, RestartKeeps, ZenonT(60) DEF Next
<1>2. CASE UNCHANGED vars
  <2> USE <1>2 DEF vars, table, auth
  <2>1. TypeOK' /\ EpochsOrdered' /\ RequestsLate' /\ VotesUnique' /\ VotesGiven'
    BY ZenonT(60) DEF ElectionInv, TypeOK, EpochsOrdered, RequestsLate, VotesUnique, VotesGiven
  <2>2. NothingStale'
    BY ZenonT(60) DEF ElectionInv, NothingStale, OneElection, Settled
  <2>3. Elected' /\ TablesElected'
    BY ElectedKept, Zenon DEF ElectionInv, TablesElected
  <2> QED
    BY <2>1, <2>2, <2>3, Zenon DEF ElectionInv
<1> QED
  BY <1>1, <1>2, Zenon

\* The masters that voted in an epoch that is not contested are no more than the masters
\* that serve slots.
LEMMA FewVoters ==
  ASSUME TypeOK, NEW e, ~Contested(e)
  PROVE  \E U : /\ IsFiniteSet(U) /\ Cardinality(U) <= clusterSize
                /\ \A a \in votes : a.epoch = e => a.from \in U
<1>1. CASE \E a \in votes : a.from \in Group /\ a.epoch = e
  <2>1. PICK g \in Group : \A a \in votes : a.epoch = e /\ a.from \in Group => a.from = g
    BY <1>1, Zenon DEF Contested
  <2>2. g \notin Voters
    BY ElectionAssumption, Zenon
  <2>3. /\ IsFiniteSet(Voters \cup {g})
        /\ Cardinality(Voters \cup {g}) = Cardinality(Voters) + 1
    BY <2>2, ElectionAssumption, FS_AddElement, Zenon
  <2>4. \A a \in votes : a.epoch = e => a.from \in Voters \cup {g}
    BY <2>1, Zenon DEF TypeOK, Ack, Node
  <2>5. Cardinality(Voters \cup {g}) <= clusterSize
    BY <2>3, QuorumType DEF clusterSize
  <2> QED
    BY <2>3, <2>4, <2>5, Zenon
<1>2. CASE \A a \in votes : a.epoch = e => a.from \notin Group
  <2>1. Cardinality(Voters) <= clusterSize
    BY QuorumType DEF clusterSize
  <2>2. \A a \in votes : a.epoch = e => a.from \in Voters
    BY <1>2, Zenon DEF TypeOK, Ack, Node
  <2> QED
    BY <2>1, <2>2, ElectionAssumption, Zenon
<1> QED
  BY <1>1, <1>2, Zenon

\* Two majorities meet, and who is in both voted once.
LEMMA WinnersAgree ==
  ASSUME ElectionInv
  PROVE  OneWinnerPerEpoch
<1> SUFFICES ASSUME NEW v \in won, NEW w \in won, v.epoch = w.epoch, ~Contested(v.epoch)
             PROVE  v.node = w.node
  BY Zenon DEF OneWinnerPerEpoch
<1> DEFINE e == v.epoch
<1>1. CASE v = [node |-> Owner0, epoch |-> 1] \/ w = [node |-> Owner0, epoch |-> 1]
  BY <1>1 DEF ElectionInv, Elected
<1>2. CASE ~(v = [node |-> Owner0, epoch |-> 1] \/ w = [node |-> Owner0, epoch |-> 1])
  <2>1. PICK A, B : ElectedBy(A, v) /\ ElectedBy(B, w)
    BY <1>2, Zenon DEF ElectionInv, Elected
  <2>2. PICK U : /\ IsFiniteSet(U) /\ Cardinality(U) <= clusterSize
                 /\ \A a \in votes : a.epoch = e => a.from \in U
    BY FewVoters, Zenon DEF ElectionInv
  <2>3. A \subseteq U /\ B \subseteq U
    BY <2>1, <2>2, ZenonT(60) DEF ElectedBy, BallotOf
  <2>4. /\ Cardinality(A) \in Nat /\ Cardinality(B) \in Nat /\ Cardinality(U) \in Nat
        /\ IsFiniteSet(A) /\ IsFiniteSet(B)
    BY <2>2, <2>3, FS_Subset, FS_CardinalityType, Zenon
  <2>5. Cardinality(A) + Cardinality(B) > Cardinality(U)
    BY <2>1, <2>2, <2>4, QuorumType DEF ElectedBy
  <2>6. PICK x : x \in A \cap B
    BY <2>2, <2>3, <2>5, FS_MajoritiesIntersect, Zenon
  <2>7. BallotOf(x, v.node, e) \in votes /\ BallotOf(x, w.node, e) \in votes
    BY <2>1, <2>6, Zenon DEF ElectedBy
  <2> QED
    BY <2>7, Zenon DEF BallotOf, ElectionInv, VotesUnique
<1> QED
  BY <1>1, <1>2, Zenon

\* Tables name winners, and an epoch has one.
LEMMA TablesAgree ==
  ASSUME ElectionInv, OneWinnerPerEpoch
  PROVE  SameEpochSameOwner
<1> SUFFICES ASSUME NEW m \in Node, NEW n \in Node,
                    ownerEpoch[m] = ownerEpoch[n], ~Contested(ownerEpoch[m])
             PROVE  owner[m] = owner[n]
  BY Zenon DEF SameEpochSameOwner
<1> DEFINE v == [node |-> owner[m], epoch |-> ownerEpoch[m]]
           w == [node |-> owner[n], epoch |-> ownerEpoch[n]]
<1>1. v \in won /\ w \in won /\ v.epoch = w.epoch /\ ~Contested(v.epoch)
  BY Zenon DEF ElectionInv, TablesElected
<1> QED
  BY <1>1, Zenon DEF OneWinnerPerEpoch

\* The inductive invariant holds in every state, when the packets of an election of
\* clusterHandleSlaveFailover do not outlive it.
THEOREM ElectionInvariant == PromptVotes /\ Spec => []ElectionInv
<1> SUFFICES ASSUME PromptVotes PROVE Spec => []ElectionInv
  BY Zenon
<1>1. ElectionInv /\ [Next]_vars => ElectionInv'
  BY NextKeeps, Zenon
<1> QED
  BY <1>1, InitInv, PTL DEF Spec

\* Epochs, phases and packets keep their types.
THEOREM ElectionTypeCorrect == PromptVotes /\ Spec => []TypeOK
<1>1. ElectionInv => TypeOK
  BY Zenon DEF ElectionInv
<1> QED
  BY <1>1, ElectionInvariant, PTL

\* For every number of masters and replicas, restarts and manual failovers included, no
\* two replicas win an election of clusterHandleSlaveFailover in the same epoch.
THEOREM OneWinner == PromptVotes /\ Spec => []OneWinnerPerEpoch
<1>1. ElectionInv => OneWinnerPerEpoch
  BY WinnersAgree, Zenon
<1> QED
  BY <1>1, ElectionInvariant, PTL

\* Two nodes whose tables hold the range under the same configEpoch agree on its owner,
\* which is what clusterUpdateSlotsConfigWith needs to bring the tables together.
THEOREM OwnersAgree == PromptVotes /\ Spec => []SameEpochSameOwner
<1>1. ElectionInv => SameEpochSameOwner
  BY WinnersAgree, TablesAgree, Zenon
<1> QED
  BY <1>1, ElectionInvariant, PTL

===============================================================================
