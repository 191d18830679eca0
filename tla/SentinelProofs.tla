---------------------------- MODULE SentinelProofs ----------------------------
(***************************************************************************)
(* Proofs about the Sentinels' failover and their election.                *)
(*                                                                         *)
(* Failover, for any number of instances, failures and hellos.  The table  *)
(* names one promoted replica exactly in the states that promote one; the  *)
(* epochs in it are ordered, so that an address that is announced under an *)
(* epoch changes only with a newer one.                                    *)
(*                                                                         *)
(* Election, for any number of Sentinels, epochs, replies and crashes.     *)
(* The votes a Sentinel ever gave have epochs up to its leader_epoch, which *)
(* is always on disk; in that epoch they are for its leader.  A new vote   *)
(* goes to a greater epoch, so a Sentinel votes once per epoch.  What a    *)
(* Sentinel has heard, and what replies say, are such votes; whoever wins  *)
(* in time has a majority of them, and two majorities share a Sentinel.    *)
(***************************************************************************)
EXTENDS SentinelElection, SentinelFailover, FiniteSetTheorems, TLAPS

(* The failover. *)

State == {"none", "wait_start", "select_slave"} \cup Promoting

Flags == {"promoted", "sent", "inprog", "done"}

Table ==
  [addr : Inst, slaves : SUBSET Inst, flags : [Inst -> SUBSET Flags],
   reported : [Inst -> Inst \cup {NoOne, Unknown}], sdown : SUBSET Inst, odown : BOOLEAN,
   disc : SUBSET Inst, state : State, promoted : Inst \cup {NoOne}, forced : BOOLEAN,
   epoch : Nat, configEpoch : Nat, failoverEpoch : Nat]

\* What PromotedIsKnown says of the table, of any table.
PromotedKnown(r) ==
  /\ r.state \in Promoting <=> r.promoted # NoOne
  /\ \A i \in Inst : "promoted" \in r.flags[i] <=> i = r.promoted
  /\ r.promoted # NoOne => r.promoted \in r.slaves
  /\ \A i \in Inst : r.flags[i] \cap {"sent", "inprog"} # {} => r.state = "reconf_slaves"

EpochsInOrder(r) == r.configEpoch <= r.epoch /\ r.failoverEpoch <= r.epoch

GoodTable(r) == r \in Table /\ PromotedKnown(r) /\ EpochsInOrder(r)

\* sentinelGetCurrentMasterAddress and Overtaken, of any table.
AnnouncedBy(r) == IF r.state = "reconf_slaves" THEN r.promoted ELSE r.addr

OvertakenIn(r) ==
  r.state \in {"wait_start", "select_slave", "send_slaveof_noone", "wait_promotion"}
    /\ r.configEpoch >= r.failoverEpoch

\* From r to q, epochs do not go back, what is announced stays, and no failover becomes
\* overtaken.
Same(r, q) ==
  /\ r.epoch <= q.epoch
  /\ q.configEpoch = r.configEpoch
  /\ AnnouncedBy(q) = AnnouncedBy(r)
  /\ OvertakenIn(q) => OvertakenIn(r)

\* A table at startup, or one that is forgotten and created again.
LEMMA FreshGood ==
  ASSUME NEW r \in Table, EpochsInOrder(r), NEW ss \in SUBSET Inst, NEW a \in Inst
  PROVE  LET q == Fresh(ss, a, r) IN
           /\ GoodTable(q) /\ q.addr = a /\ q.state = "none"
           /\ q.epoch = r.epoch /\ q.configEpoch = r.configEpoch
           /\ q.failoverEpoch = r.failoverEpoch
<1> DEFINE fl == [i \in Inst |-> {}]
           rep == [i \in Inst |-> IF i = a THEN NoOne ELSE Unknown]
           q == [r EXCEPT !.addr = a, !.slaves = ss, !.flags = fl, !.reported = rep,
                          !.sdown = {}, !.odown = FALSE, !.disc = Inst, !.state = "none",
                          !.promoted = NoOne, !.forced = FALSE]
<1>1. Fresh(ss, a, r) = q
  BY Zenon DEF Fresh
<1>2. fl \in [Inst -> SUBSET Flags] /\ (\A i \in Inst : fl[i] = {})
  BY Zenon
<1>3. rep \in [Inst -> Inst \cup {NoOne, Unknown}]
  BY Zenon
<1> HIDE DEF fl, rep
<1>4. q \in Table
  BY <1>2, <1>3, FailoverAssumption, ZenonT(60) DEF Table, State
<1>5. /\ q.addr = a /\ q.state = "none" /\ q.promoted = NoOne /\ q.flags = fl
  BY <1>2, <1>3, Zenon DEF Table
<1>6. /\ q.epoch = r.epoch /\ q.configEpoch = r.configEpoch
      /\ q.failoverEpoch = r.failoverEpoch
  BY <1>2, <1>3, Zenon DEF Table
<1> HIDE DEF q
<1>7. PromotedKnown(q)
  BY <1>2, <1>5, FailoverAssumption, Zenon DEF PromotedKnown, Promoting
<1>8. EpochsInOrder(q)
  BY <1>6, Zenon DEF EpochsInOrder
<1> QED
  BY <1>1, <1>4, <1>5, <1>6, <1>7, <1>8, Zenon DEF GoodTable

\* A reset to another address forgets the failover.
LEMMA ResetGood ==
  ASSUME NEW r \in Table, EpochsInOrder(r), NEW a \in Inst
  PROVE  LET q == sentinelResetMasterAndChangeAddress(r, a) IN
           /\ GoodTable(q) /\ q.addr = a /\ q.state = "none"
           /\ q.epoch = r.epoch /\ q.configEpoch = r.configEpoch
<1> DEFINE ss == (r.slaves \cup {r.addr}) \ {a}
<1>1. ss \in SUBSET Inst
  BY Zenon DEF Table
<1> HIDE DEF ss
<1>2. sentinelResetMasterAndChangeAddress(r, a) = Fresh(ss, a, r)
  BY Zenon DEF sentinelResetMasterAndChangeAddress, ss
<1>3. PICK q : q = Fresh(ss, a, r)
  BY Zenon
<1>4. /\ GoodTable(q) /\ q.addr = a /\ q.state = "none"
      /\ q.epoch = r.epoch /\ q.configEpoch = r.configEpoch
  BY <1>1, <1>3, FreshGood, Zenon
<1> QED
  BY <1>2, <1>3, <1>4, Zenon

\* The state of the failover alone changes.
LEMMA StateGood ==
  ASSUME NEW r, GoodTable(r), NEW s \in State \ {"none"},
         r.state \notin {"none", "reconf_slaves"}, s # "reconf_slaves",
         s \in Promoting <=> r.state \in Promoting
  PROVE  LET q == [r EXCEPT !.state = s] IN GoodTable(q) /\ Same(r, q)
<1> DEFINE q == [r EXCEPT !.state = s]
<1>1. r \in Table
  BY Zenon DEF GoodTable
<1>2. q \in Table
  BY <1>1, Zenon DEF Table
<1>3. /\ q.state = s /\ q.promoted = r.promoted /\ q.flags = r.flags /\ q.slaves = r.slaves
      /\ q.addr = r.addr
  BY <1>1, Zenon DEF Table
<1>4. /\ q.epoch = r.epoch /\ q.configEpoch = r.configEpoch
      /\ q.failoverEpoch = r.failoverEpoch
  BY <1>1, Zenon DEF Table
<1> HIDE DEF q
<1>5. PromotedKnown(q)
  BY <1>3, Zenon DEF PromotedKnown, GoodTable
<1>6. EpochsInOrder(q)
  BY <1>4, Zenon DEF EpochsInOrder, GoodTable
<1>7. r.state \in State
  BY <1>1, Zenon DEF Table
<1>8. Same(r, q)
  BY <1>1, <1>3, <1>4, <1>7 DEF Table, Same, AnnouncedBy, OvertakenIn, State, Promoting
<1>9. GoodTable(q)
  BY <1>2, <1>5, <1>6, Zenon DEF GoodTable
<1> QED
  BY <1>8, <1>9, Zenon DEF q

\* Nothing changes that the failover depends on, and replicas are added at most.
LEMMA UntouchedGood ==
  ASSUME NEW r, GoodTable(r), NEW q \in Table, q.state = r.state, q.promoted = r.promoted,
         q.flags = r.flags, r.slaves \subseteq q.slaves, q.addr = r.addr, q.epoch = r.epoch,
         q.configEpoch = r.configEpoch, q.failoverEpoch = r.failoverEpoch
  PROVE  GoodTable(q) /\ Same(r, q)
<1>1. PromotedKnown(q)
  BY Zenon DEF PromotedKnown, GoodTable
<1>2. EpochsInOrder(q) /\ Same(r, q)
  BY DEF EpochsInOrder, GoodTable, Table, Same, AnnouncedBy, OvertakenIn
<1> QED
  BY <1>1, <1>2, Zenon DEF GoodTable

\* The checks for subjectively and objectively down touch only their flags.
LEMMA CheckGood ==
  ASSUME NEW r, GoodTable(r), NEW agreed \in BOOLEAN
  PROVE  LET q == sentinelCheckObjectivelyDown(r, agreed) IN
           GoodTable(q) /\ Same(r, q)
<1>1. r \in Table
  BY Zenon DEF GoodTable
<1> DEFINE o == r.addr \in r.sdown /\ agreed
           q == [r EXCEPT !.odown = o]
<1>2. sentinelCheckObjectivelyDown(r, agreed) = q
  BY Zenon DEF sentinelCheckObjectivelyDown
<1>3. o \in BOOLEAN
  BY Zenon
<1> HIDE DEF o
<1>4. q \in Table
  BY <1>1, <1>3, Zenon DEF Table
<1>5. /\ q.state = r.state /\ q.promoted = r.promoted /\ q.flags = r.flags
      /\ q.slaves = r.slaves /\ q.addr = r.addr
      /\ q.epoch = r.epoch /\ q.configEpoch = r.configEpoch
      /\ q.failoverEpoch = r.failoverEpoch
  BY <1>1, Zenon DEF Table
<1> HIDE DEF q
<1> QED
  BY <1>2, <1>4, <1>5, UntouchedGood, Zenon

\* A failover starts in wait_start under a newer epoch.
LEMMA StartGood ==
  ASSUME NEW r, GoodTable(r), r.state = "none"
  PROVE  LET q == StartsFailover(r) IN
           GoodTable(q) /\ Same(r, q) /\ q.state = "wait_start"
<1>1. r \in Table
  BY Zenon DEF GoodTable
<1> DEFINE q == [r EXCEPT !.state = "wait_start", !.epoch = @ + 1, !.failoverEpoch = r.epoch + 1]
<1>2. StartsFailover(r) = q
  BY Zenon DEF StartsFailover
<1>3. r.epoch \in Nat /\ r.configEpoch \in Nat /\ r.epoch + 1 \in Nat
  BY <1>1 DEF Table
<1>4. q \in Table
  BY <1>1, <1>3, Zenon DEF Table, State
<1>5. /\ q.state = "wait_start" /\ q.promoted = r.promoted /\ q.flags = r.flags
      /\ q.slaves = r.slaves /\ q.addr = r.addr
  BY <1>1, Zenon DEF Table
<1>6. /\ q.epoch = r.epoch + 1 /\ q.configEpoch = r.configEpoch
      /\ q.failoverEpoch = r.epoch + 1
  BY <1>1, Zenon DEF Table
<1> HIDE DEF q
<1>7. PromotedKnown(q)
  BY <1>5, Zenon DEF PromotedKnown, GoodTable, Promoting
<1>8. EpochsInOrder(q) /\ Same(r, q)
  BY <1>3, <1>5, <1>6 DEF EpochsInOrder, GoodTable, Same, AnnouncedBy, OvertakenIn
<1>9. GoodTable(q)
  BY <1>4, <1>7, <1>8, Zenon DEF GoodTable
<1> QED
  BY <1>2, <1>5, <1>8, <1>9, Zenon

\* An aborted failover takes the promoted flag and pointer along.
LEMMA AbortGood ==
  ASSUME NEW r, GoodTable(r), r.state # "reconf_slaves"
  PROVE  LET q == AbortsFailover(r) IN GoodTable(q) /\ Same(r, q)
<1>1. r \in Table
  BY Zenon DEF GoodTable
<1> DEFINE fl == [i \in Inst |-> IF i = r.promoted THEN r.flags[i] \ {"promoted"} ELSE r.flags[i]]
           q == [r EXCEPT !.state = "none", !.forced = FALSE, !.promoted = NoOne, !.flags = fl]
<1>2. AbortsFailover(r) = q
  BY Zenon DEF AbortsFailover
<1>3. /\ fl \in [Inst -> SUBSET Flags]
      /\ \A i \in Inst : fl[i] = IF i = r.promoted THEN r.flags[i] \ {"promoted"} ELSE r.flags[i]
  BY <1>1, Zenon DEF Table
<1> HIDE DEF fl
<1>4. q \in Table
  BY <1>1, <1>3, Zenon DEF Table, State
<1>5. /\ q.state = "none" /\ q.promoted = NoOne /\ q.flags = fl /\ q.addr = r.addr
  BY <1>1, Zenon DEF Table
<1>6. /\ q.epoch = r.epoch /\ q.configEpoch = r.configEpoch
      /\ q.failoverEpoch = r.failoverEpoch
  BY <1>1, Zenon DEF Table
<1> HIDE DEF q
<1>7. PromotedKnown(q)
  BY <1>3, <1>5, FailoverAssumption, ZenonT(60) DEF PromotedKnown, GoodTable, Promoting
<1>8. EpochsInOrder(q)
  BY <1>6, Zenon DEF EpochsInOrder, GoodTable
<1>9. Same(r, q)
  BY <1>1, <1>5, <1>6 DEF Table, Same, AnnouncedBy, OvertakenIn
<1> QED
  BY <1>2, <1>4, <1>7, <1>8, <1>9, Zenon DEF GoodTable

\* A flag of one replica set or cleared.
LEMMA FlagGood ==
  ASSUME NEW r, GoodTable(r), r.state = "select_slave", NEW i \in r.slaves
  PROVE  LET q == FlagPromoted(r, i) IN GoodTable(q) /\ Same(r, q)
<1>1. r \in Table /\ i \in Inst
  BY Zenon DEF GoodTable, Table
<1> DEFINE fl == [r.flags EXCEPT ![i] = @ \cup {"promoted"}]
           q == [r EXCEPT !.promoted = i, !.flags = fl, !.state = "send_slaveof_noone"]
<1>2. FlagPromoted(r, i) = q
  BY <1>1, Zenon DEF FlagPromoted, Table
<1>3. /\ fl \in [Inst -> SUBSET Flags]
      /\ \A j \in Inst : fl[j] = IF j = i THEN r.flags[j] \cup {"promoted"} ELSE r.flags[j]
  BY <1>1, Zenon DEF Table, Flags
<1> HIDE DEF fl
<1>4. q \in Table
  BY <1>1, <1>3, Zenon DEF Table, State, Promoting
<1>5. /\ q.state = "send_slaveof_noone" /\ q.promoted = i /\ q.flags = fl /\ q.addr = r.addr
      /\ q.slaves = r.slaves
  BY <1>1, Zenon DEF Table
<1>6. /\ q.epoch = r.epoch /\ q.configEpoch = r.configEpoch
      /\ q.failoverEpoch = r.failoverEpoch
  BY <1>1, Zenon DEF Table
<1> HIDE DEF q
<1>7. PromotedKnown(q)
  BY <1>1, <1>3, <1>5, FailoverAssumption DEF PromotedKnown, GoodTable, Promoting
<1>8. EpochsInOrder(q)
  BY <1>6, Zenon DEF EpochsInOrder, GoodTable
<1>9. Same(r, q)
  BY <1>1, <1>5, <1>6 DEF Table, Same, AnnouncedBy, OvertakenIn
<1> QED
  BY <1>2, <1>4, <1>7, <1>8, <1>9, Zenon DEF GoodTable

\* Only the flags of replicas change, and not SRI_PROMOTED.
LEMMA FlagsGood ==
  ASSUME NEW r, GoodTable(r), NEW fl \in [Inst -> SUBSET Flags],
         \A i \in Inst : "promoted" \in fl[i] <=> "promoted" \in r.flags[i],
         \A i \in Inst : fl[i] \cap {"sent", "inprog"} # {} => r.state = "reconf_slaves"
  PROVE  LET q == [r EXCEPT !.flags = fl] IN
           /\ GoodTable(q) /\ Same(r, q)
           /\ q.state = r.state /\ q.promoted = r.promoted
<1>1. r \in Table
  BY Zenon DEF GoodTable
<1> DEFINE q == [r EXCEPT !.flags = fl]
<1>4. q \in Table
  BY <1>1, Zenon DEF Table
<1>5. /\ q.state = r.state /\ q.promoted = r.promoted /\ q.flags = fl /\ q.addr = r.addr
      /\ q.slaves = r.slaves
  BY <1>1, Zenon DEF Table
<1>6. /\ q.epoch = r.epoch /\ q.configEpoch = r.configEpoch
      /\ q.failoverEpoch = r.failoverEpoch
  BY <1>1, Zenon DEF Table
<1> HIDE DEF q
<1>7. PromotedKnown(q)
  BY <1>5, Zenon DEF PromotedKnown, GoodTable
<1>8. EpochsInOrder(q)
  BY <1>6, Zenon DEF EpochsInOrder, GoodTable
<1>9. Same(r, q)
  BY <1>1, <1>5, <1>6 DEF Table, Same, AnnouncedBy, OvertakenIn
<1>10. GoodTable(q)
  BY <1>4, <1>7, <1>8, Zenon DEF GoodTable
<1>11. q.state = r.state /\ q.promoted = r.promoted
  BY <1>5, Zenon
<1> QED
  BY <1>9, <1>10, <1>11, Zenon DEF q

\* Tables that announce the same.
LEMMA SameTransitive ==
  ASSUME NEW r \in Table, NEW q \in Table, NEW s \in Table, Same(r, q), Same(q, s)
  PROVE  Same(r, s)
BY DEF Same, Table

\* The flags after sentinelFailoverReconfNextSlave marked those it wrote to.
LEMMA MarkedFlags ==
  ASSUME NEW r, GoodTable(r), NEW i \in Inst, NEW timedOut
  PROVE  /\ Marked(r, i, timedOut) \in SUBSET Flags
         /\ "promoted" \in Marked(r, i, timedOut) <=> "promoted" \in r.flags[i]
BY Zenon DEF Marked, GoodTable, Table, Flags

\* sentinelFailoverReconfNextSlave, and with it the end of the failover.
LEMMA ReconfNextGood ==
  ASSUME NEW r, GoodTable(r), r.state = "reconf_slaves", NEW met, NEW timedOut
  PROVE  LET q == ReconfNext(r, met, timedOut) IN
           GoodTable(q) /\ Same(r, q) /\ q.state = r.state /\ q.promoted = r.promoted
<1> DEFINE fl == [i \in Inst |->
     IF i \notin met \ Skipped(r) THEN r.flags[i]
     ELSE Marked(r, i, timedOut) \cup IF i \in Sendable(r, timedOut) THEN {"sent"} ELSE {}]
<1>1. ReconfNext(r, met, timedOut) = [r EXCEPT !.flags = fl]
  BY Zenon DEF ReconfNext
<1>2. r.flags \in [Inst -> SUBSET Flags]
  BY Zenon DEF GoodTable, Table
<1>3. ASSUME NEW i \in Inst
      PROVE  fl[i] \in SUBSET Flags /\ ("promoted" \in fl[i] <=> "promoted" \in r.flags[i])
  <2>1. PICK m : m = Marked(r, i, timedOut)
    BY Zenon
  <2>2. m \in SUBSET Flags /\ ("promoted" \in m <=> "promoted" \in r.flags[i])
    BY <2>1, MarkedFlags, Zenon
  <2>3. fl[i] \in {r.flags[i], m, m \cup {"sent"}}
    BY <2>1, Zenon
  <2> HIDE DEF fl
  <2> QED
    BY <1>2, <2>2, <2>3, Zenon DEF Flags
<1>4. fl \in [Inst -> SUBSET Flags]
  BY <1>3, Zenon
<1> HIDE DEF fl
<1>5. PICK q : q = [r EXCEPT !.flags = fl]
  BY Zenon
<1>6. GoodTable(q) /\ Same(r, q) /\ q.state = r.state /\ q.promoted = r.promoted
  BY <1>3, <1>4, <1>5, FlagsGood, Zenon
<1> QED
  BY <1>1, <1>5, <1>6, Zenon

\* The state reconf_slaves.
LEMMA SlavesGood ==
  ASSUME NEW r, GoodTable(r), r.state = "reconf_slaves", NEW late, ReconfSlaves(r, late)
  PROVE  GoodTable(v') /\ Same(r, v')
<1>1. PICK met \in SUBSET r.slaves : \E timedOut \in SUBSET met :
        v' = IF Ended(ReconfNext(r, met, timedOut), late)
               THEN sentinelResetMasterAndChangeAddress(ReconfNext(r, met, timedOut), r.promoted)
               ELSE ReconfNext(r, met, timedOut)
  BY Zenon DEF ReconfSlaves
<1>2. PICK timedOut \in SUBSET met :
        v' = IF Ended(ReconfNext(r, met, timedOut), late)
               THEN sentinelResetMasterAndChangeAddress(ReconfNext(r, met, timedOut), r.promoted)
               ELSE ReconfNext(r, met, timedOut)
  BY <1>1, Zenon
<1>3. PICK q : q = ReconfNext(r, met, timedOut)
  BY Zenon
<1>4. GoodTable(q) /\ Same(r, q) /\ q.state = r.state /\ q.promoted = r.promoted
  BY <1>3, ReconfNextGood, Zenon
<1>5. CASE v' = q
  BY <1>4, <1>5, Zenon
<1>6. CASE v' = sentinelResetMasterAndChangeAddress(q, r.promoted)
  <2>1. r.promoted \in Inst
    BY Zenon DEF GoodTable, PromotedKnown, Promoting, Table
  <2>2. q \in Table /\ EpochsInOrder(q)
    BY <1>4, Zenon DEF GoodTable
  <2>3. /\ GoodTable(v') /\ v'.addr = r.promoted /\ v'.state = "none"
        /\ v'.epoch = q.epoch /\ v'.configEpoch = q.configEpoch
    BY <1>6, <2>1, <2>2, ResetGood, Zenon
  <2>4. Same(q, v')
    BY <1>4, <2>2, <2>3 DEF Same, AnnouncedBy, OvertakenIn, Table
  <2>5. r \in Table /\ v' \in Table
    BY <2>3, Zenon DEF GoodTable
  <2> QED
    BY <1>4, <2>2, <2>3, <2>4, <2>5, SameTransitive, Zenon
<1> QED
  BY <1>2, <1>3, <1>5, <1>6, Zenon

\* sentinelFailoverStateMachine keeps the table good, and what it announces.
LEMMA MachineGood ==
  ASSUME NEW r, GoodTable(r), NEW elected, NEW late, NEW fresh,
         sentinelFailoverStateMachine(r, elected, late, fresh)
  PROVE  GoodTable(v') /\ Same(r, v')
<1>0. GoodTable(r) /\ Same(r, r) /\ r \in Table
  BY DEF GoodTable, Table, Same
<1>1. CASE r.state = "none" /\ v' = r
  BY <1>0, <1>1, Zenon
<1>2. CASE r.state = "wait_start" /\ WaitStart(r, elected, late)
  <2>1. v' \in {[r EXCEPT !.state = "select_slave"], AbortsFailover(r), r}
    BY <1>2, Zenon DEF WaitStart
  <2>2. CASE v' = [r EXCEPT !.state = "select_slave"]
    BY <1>2, <2>2, StateGood, Zenon DEF State, Promoting
  <2>3. CASE v' = AbortsFailover(r)
    BY <1>2, <2>3, AbortGood, Zenon
  <2> QED
    BY <1>0, <2>1, <2>2, <2>3, Zenon
<1>3. CASE r.state = "select_slave" /\ sentinelFailoverSelectSlave(r, fresh)
  <2>1. v' = AbortsFailover(r) \/ \E i \in sentinelSelectSlave(r, fresh) : v' = FlagPromoted(r, i)
    BY <1>3, Zenon DEF sentinelFailoverSelectSlave
  <2>2. CASE v' = AbortsFailover(r)
    BY <1>3, <2>2, AbortGood, Zenon
  <2>3. ASSUME NEW i \in sentinelSelectSlave(r, fresh), v' = FlagPromoted(r, i)
        PROVE  GoodTable(v') /\ Same(r, v')
    <3>1. i \in r.slaves
      BY Zenon DEF sentinelSelectSlave, Suitable
    <3> QED
      BY <1>3, <2>3, <3>1, FlagGood, Zenon
  <2> QED
    BY <2>1, <2>2, <2>3, Zenon
<1>4. CASE r.state = "send_slaveof_noone" /\ sentinelFailoverSendSlaveOfNoOne(r, late)
  <2>1. v' \in {[r EXCEPT !.state = "wait_promotion"], AbortsFailover(r), r}
    BY <1>4, Zenon DEF sentinelFailoverSendSlaveOfNoOne
  <2>2. CASE v' = [r EXCEPT !.state = "wait_promotion"]
    BY <1>4, <2>2, StateGood, Zenon DEF State, Promoting
  <2>3. CASE v' = AbortsFailover(r)
    BY <1>4, <2>3, AbortGood, Zenon
  <2> QED
    BY <1>0, <2>1, <2>2, <2>3, Zenon
<1>5. CASE r.state = "wait_promotion" /\ sentinelFailoverWaitPromotion(r, late)
  <2>1. v' \in {AbortsFailover(r), r}
    BY <1>5, Zenon DEF sentinelFailoverWaitPromotion
  <2>2. CASE v' = AbortsFailover(r)
    BY <1>5, <2>2, AbortGood, Zenon
  <2> QED
    BY <1>0, <2>1, <2>2, Zenon
<1>6. CASE r.state = "reconf_slaves" /\ ReconfSlaves(r, late)
  BY <1>6, SlavesGood, Zenon
<1> QED
  BY <1>1, <1>2, <1>3, <1>4, <1>5, <1>6, Zenon DEF sentinelFailoverStateMachine

Queues == [Inst -> Seq(Inst \cup {NoOne})]

\* The queues of commands after a SLAVEOF, and after a round of the machine.
LEMMA SendTyped ==
  ASSUME NEW q \in Queues, NEW i \in Inst, NEW m \in Inst \cup {NoOne}
  PROVE  sentinelSendSlaveOf(q, i, m) \in Queues
<1>1. Append(q[i], m) \in Seq(Inst \cup {NoOne})
  BY DEF Queues
<1>2. [q EXCEPT ![i] = Append(@, m)] \in Queues
  BY <1>1, Zenon DEF Queues
<1> QED
  BY <1>2, Zenon DEF sentinelSendSlaveOf

LEMMA MachineTyped ==
  ASSUME NEW r, GoodTable(r), NEW elected, NEW late, NEW fresh, cmds \in Queues,
         sentinelFailoverStateMachine(r, elected, late, fresh)
  PROVE  cmds' \in Queues
<1>0. r.state \in Promoting => r.promoted \in Inst
  BY Zenon DEF GoodTable, PromotedKnown, Table
<1>1. CASE r.state = "reconf_slaves" /\ ReconfSlaves(r, late)
  <2>1. r.promoted \in Inst \cup {NoOne}
    BY <1>0, <1>1, Zenon DEF Promoting
  <2>2. \A i \in Inst : sentinelSendSlaveOf(cmds, i, r.promoted)[i] \in Seq(Inst \cup {NoOne})
    BY <2>1, SendTyped, ZenonT(60) DEF Queues
  <2>3. PICK s : cmds' = [i \in Inst |-> IF i \in s THEN sentinelSendSlaveOf(cmds, i, r.promoted)[i]
                                         ELSE cmds[i]]
    BY <1>1, Zenon DEF ReconfSlaves
  <2> QED
    BY <2>2, <2>3, Zenon DEF Queues
<1>2. CASE r.state = "send_slaveof_noone" /\ sentinelFailoverSendSlaveOfNoOne(r, late)
  <2>1. r.promoted \in Inst
    BY <1>0, <1>2, Zenon DEF Promoting
  <2>2. cmds' \in {cmds, sentinelSendSlaveOf(cmds, r.promoted, NoOne)}
    BY <1>2, Zenon DEF sentinelFailoverSendSlaveOfNoOne
  <2> QED
    BY <2>1, <2>2, SendTyped, Zenon
<1>3. CASE UNCHANGED cmds
  BY <1>3, Zenon
<1> QED
  BY <1>1, <1>2, <1>3, Zenon DEF sentinelFailoverStateMachine, WaitStart,
       sentinelFailoverSelectSlave, sentinelFailoverWaitPromotion

\* The inductive invariant.
FailoverInv ==
  /\ GoodTable(v)
  /\ repl \in [Inst -> Inst \cup {NoOne}] /\ cmds \in Queues /\ up \subseteq Inst
  /\ crashes \in Nat /\ glitches \in Nat
  /\ \A h \in hello : h.addr \in Inst /\ h.epoch \in Nat /\ h.epoch <= v.epoch

\* What OneAddressPerEpoch allows of a step.
Allowed(r, q) ==
  /\ ~OvertakenIn(r) => /\ q.configEpoch >= r.configEpoch
                        /\ q.configEpoch = r.configEpoch => AnnouncedBy(q) = AnnouncedBy(r)
  /\ ~OvertakenIn(r) /\ OvertakenIn(q) =>
       \E h \in hello : h.addr = r.addr /\ h.epoch = q.configEpoch

\* What announces the same is allowed; so is what a hello overtakes.
LEMMA SameAllowed ==
  ASSUME NEW r \in Table, NEW q \in Table, Same(r, q)
  PROVE  Allowed(r, q)
BY DEF Same, Allowed, Table

LEMMA HelloKept ==
  ASSUME FailoverInv, v' \in Table, Same(v, v'), hello' \subseteq hello
  PROVE  \A h \in hello' : h.addr \in Inst /\ h.epoch \in Nat /\ h.epoch <= v'.epoch
<1>1. v.epoch \in Nat /\ v'.epoch \in Nat /\ v.epoch <= v'.epoch
  BY Zenon DEF FailoverInv, GoodTable, Table, Same
<1> QED
  BY <1>1 DEF FailoverInv

\* The timer, with all the calls of sentinelHandleRedisInstance.
LEMMA TimerGood ==
  ASSUME FailoverInv, Timer
  PROVE  FailoverInv' /\ Allowed(v, v')
<1>1. PICK agreed \in BOOLEAN, elected \in BOOLEAN, late \in BOOLEAN, fresh \in SUBSET Inst :
        MasterTimer(agreed, elected, late, fresh)
  <2>1. \A b : Choice(b) \subseteq BOOLEAN
    BY Zenon DEF Choice
  <2>2. v.slaves \in SUBSET Inst
    BY Zenon DEF FailoverInv, GoodTable, Table
  <2>3. (IF v.state = "select_slave" THEN SUBSET v.slaves ELSE {v.slaves}) \subseteq SUBSET Inst
    BY <2>2, Zenon
  <2> QED
    BY <2>1, <2>3, Zenon DEF Timer
<1>2. PICK q : q = sentinelCheckObjectivelyDown(v, agreed)
  BY Zenon
<1>3. PICK r : r = sentinelStartFailoverIfNeeded(q)
  BY Zenon
<1>4. GoodTable(q) /\ Same(v, q)
  BY <1>2, CheckGood, Zenon DEF FailoverInv
<1>5. r = q \/ (r = StartsFailover(q) /\ q.state = "none")
  BY <1>3, Zenon DEF sentinelStartFailoverIfNeeded
<1>6. Same(q, q)
  BY <1>4 DEF GoodTable, Table, Same
<1>7. GoodTable(r) /\ Same(q, r)
  BY <1>4, <1>5, <1>6, StartGood, Zenon
<1>8. /\ sentinelFailoverStateMachine(r, elected, late, fresh)
      /\ UNCHANGED <<repl, up, hello, crashes, glitches>>
  BY <1>1, <1>2, <1>3, Zenon DEF MasterTimer
<1>9. GoodTable(v') /\ Same(r, v')
  BY <1>7, <1>8, MachineGood, Zenon
<1>10. cmds' \in Queues
  BY <1>7, <1>8, MachineTyped, Zenon DEF FailoverInv
<1>11. v \in Table /\ q \in Table /\ r \in Table /\ v' \in Table
  BY <1>4, <1>7, <1>9, Zenon DEF GoodTable, FailoverInv
<1>12. Same(v, r)
  BY <1>4, <1>7, <1>11, SameTransitive, Zenon
<1>13. Same(v, v')
  BY <1>9, <1>11, <1>12, SameTransitive, Zenon
<1>14. Allowed(v, v')
  BY <1>11, <1>13, SameAllowed, Zenon
<1>15. \A h \in hello' : h.addr \in Inst /\ h.epoch \in Nat /\ h.epoch <= v'.epoch
  BY <1>8, <1>11, <1>13, HelloKept, Zenon
<1> QED
  BY <1>8, <1>9, <1>10, <1>14, <1>15, Zenon DEF FailoverInv

\* A step that leaves alone what the failover is at.
LEMMA QuietGood ==
  ASSUME FailoverInv, GoodTable(v'), Same(v, v'), hello' \subseteq hello,
         repl' \in [Inst -> Inst \cup {NoOne}], cmds' \in Queues, up' \subseteq Inst,
         crashes' \in Nat, glitches' \in Nat
  PROVE  FailoverInv' /\ Allowed(v, v')
<1>1. v \in Table /\ v' \in Table
  BY Zenon DEF GoodTable, FailoverInv
<1>2. Allowed(v, v')
  BY <1>1, SameAllowed, Zenon
<1>3. \A h \in hello' : h.addr \in Inst /\ h.epoch \in Nat /\ h.epoch <= v'.epoch
  BY <1>1, HelloKept, Zenon
<1> QED
  BY <1>2, <1>3, Zenon DEF FailoverInv

\* Links and flags of instances change, and nothing the failover depends on.
LEMMA FieldsGood ==
  ASSUME NEW r, GoodTable(r), NEW d \in SUBSET Inst, NEW e \in SUBSET Inst,
         NEW f \in BOOLEAN
  PROVE  /\ GoodTable([r EXCEPT !.disc = d]) /\ Same(r, [r EXCEPT !.disc = d])
         /\ GoodTable([r EXCEPT !.sdown = e]) /\ Same(r, [r EXCEPT !.sdown = e])
         /\ GoodTable([r EXCEPT !.forced = f]) /\ Same(r, [r EXCEPT !.forced = f])
<1>1. r \in Table
  BY Zenon DEF GoodTable
<1>3. PICK q1 : q1 = [r EXCEPT !.disc = d]
  BY Zenon
<1>4. PICK q2 : q2 = [r EXCEPT !.sdown = e]
  BY Zenon
<1>5. PICK q3 : q3 = [r EXCEPT !.forced = f]
  BY Zenon
<1>6. q1 \in Table /\ q2 \in Table /\ q3 \in Table
  BY <1>1, <1>3, <1>4, <1>5, Zenon DEF Table
<1>7. \A q \in {q1, q2, q3} :
        /\ q.state = r.state /\ q.promoted = r.promoted /\ q.flags = r.flags
        /\ q.slaves = r.slaves /\ q.addr = r.addr /\ q.epoch = r.epoch
        /\ q.configEpoch = r.configEpoch /\ q.failoverEpoch = r.failoverEpoch
  BY <1>1, <1>3, <1>4, <1>5, Zenon DEF Table
<1> QED
  BY <1>3, <1>4, <1>5, <1>6, <1>7, UntouchedGood, Zenon

\* Links that break and come back.
LEMMA LinksGood ==
  ASSUME FailoverInv, NEW i \in Inst,
         Connect(i) \/ Disconnect(i) \/ CheckDown(i)
  PROVE  FailoverInv' /\ Allowed(v, v')
<1>1. v.disc \in SUBSET Inst /\ v.sdown \in SUBSET Inst
  BY Zenon DEF FailoverInv, GoodTable, Table
<1>2. /\ UNCHANGED <<repl, up, cmds, hello, crashes>>
      /\ glitches' \in Nat
  BY DEF Connect, Disconnect, CheckDown, FailoverInv
<1>3. \/ \E d \in SUBSET Inst : v' = [v EXCEPT !.disc = d]
      \/ \E e \in SUBSET Inst : v' = [v EXCEPT !.sdown = e]
  <2>1. CASE Connect(i) \/ Disconnect(i)
    <3>1. \E d \in {v.disc \ {i}, v.disc \cup {i}} : v' = [v EXCEPT !.disc = d]
      BY <2>1, Zenon DEF Connect, Disconnect
    <3> QED
      BY <1>1, <3>1, Zenon
  <2>2. CASE CheckDown(i)
    <3>1. \E e \in {v.sdown \ {i}, v.sdown \cup {i}} : v' = [v EXCEPT !.sdown = e]
      BY <2>2, Zenon DEF CheckDown
    <3> QED
      BY <1>1, <3>1, Zenon
  <2> QED
    BY <2>1, <2>2, Zenon
<1>4. GoodTable(v') /\ Same(v, v')
  <2>1. GoodTable(v) /\ v.disc \in SUBSET Inst /\ v.sdown \in SUBSET Inst /\ TRUE \in BOOLEAN
    BY <1>1, Zenon DEF FailoverInv
  <2>2. ASSUME NEW d \in SUBSET Inst, v' = [v EXCEPT !.disc = d]
        PROVE  GoodTable(v') /\ Same(v, v')
    BY <2>1, <2>2, FieldsGood, Zenon
  <2>3. ASSUME NEW e \in SUBSET Inst, v' = [v EXCEPT !.sdown = e]
        PROVE  GoodTable(v') /\ Same(v, v')
    BY <2>1, <2>3, FieldsGood, Zenon
  <2> QED
    BY <1>3, <2>2, <2>3, Zenon
<1> QED
  BY <1>2, <1>4, QuietGood, Zenon DEF FailoverInv

\* SENTINEL FAILOVER.
LEMMA ForceGood ==
  ASSUME FailoverInv, ForceFailover
  PROVE  FailoverInv' /\ Allowed(v, v')
<1>1. v.state = "none" /\ v' = [StartsFailover(v) EXCEPT !.forced = TRUE]
      /\ UNCHANGED <<repl, up, cmds, hello, crashes, glitches>>
  BY Zenon DEF ForceFailover
<1>2. PICK q : q = StartsFailover(v)
  BY Zenon
<1>3. GoodTable(q) /\ Same(v, q)
  BY <1>1, <1>2, StartGood, Zenon DEF FailoverInv
<1>4. GoodTable(v') /\ Same(q, v')
  BY <1>1, <1>2, <1>3, FieldsGood, Zenon
<1>5. v \in Table /\ q \in Table /\ v' \in Table
  BY <1>3, <1>4, Zenon DEF GoodTable, FailoverInv
<1>6. Same(v, v')
  BY <1>3, <1>4, <1>5, SameTransitive, Zenon
<1> QED
  BY <1>1, <1>4, <1>6, QuietGood, Zenon DEF FailoverInv

\* What happens to the instances leaves the table alone.
LEMMA WorldGood ==
  ASSUME FailoverInv, NEW i \in Inst, Deliver(i) \/ LoseCommands(i) \/ Crash(i) \/ Revive(i)
  PROVE  FailoverInv' /\ Allowed(v, v')
<1>1. v' = v /\ hello' = hello
  BY Zenon DEF Deliver, LoseCommands, Crash, Revive
<1>2. GoodTable(v') /\ Same(v, v')
  BY <1>1 DEF FailoverInv, GoodTable, Table, Same
<1>3. cmds' \in Queues /\ repl' \in [Inst -> Inst \cup {NoOne}]
  <2>1. CASE Deliver(i)
    <3>1. cmds[i] \in Seq(Inst \cup {NoOne}) /\ cmds[i] # <<>>
      BY <2>1, Zenon DEF Deliver, FailoverInv, Queues
    <3>2. Tail(cmds[i]) \in Seq(Inst \cup {NoOne}) /\ Head(cmds[i]) \in Inst \cup {NoOne}
      BY <3>1
    <3> QED
      BY <2>1, <3>2, Zenon DEF Deliver, FailoverInv, Queues
  <2>2. CASE LoseCommands(i)
    BY <2>2 DEF LoseCommands, FailoverInv, Queues
  <2>3. CASE Crash(i) \/ Revive(i)
    BY <2>3, Zenon DEF Crash, Revive, FailoverInv
  <2> QED
    BY <2>1, <2>2, <2>3, Zenon
<1>4. up' \subseteq Inst /\ crashes' \in Nat /\ glitches' \in Nat
  BY DEF Deliver, LoseCommands, Crash, Revive, FailoverInv
<1> QED
  BY <1>1, <1>2, <1>3, <1>4, QuietGood, Zenon

\* The progress of a replica, as its INFO shows it.
LEMMA ProgressGood ==
  ASSUME NEW r, GoodTable(r), NEW i \in Inst, NEW linked
  PROVE  LET q == ReconfProgress(r, i, linked) IN GoodTable(q) /\ Same(r, q)
<1>0. r \in Table /\ Same(r, r) /\ r.flags \in [Inst -> SUBSET Flags]
  BY DEF GoodTable, Table, Same
<1>1. CASE r.flags[i] \cap {"sent", "inprog"} = {}
  <2>1. ReconfProgress(r, i, linked) = r
    BY <1>1, Zenon DEF ReconfProgress
  <2> QED
    BY <1>0, <2>1, Zenon
<1>2. CASE r.flags[i] \cap {"sent", "inprog"} # {}
  <2>1. r.state = "reconf_slaves"
    BY <1>2, Zenon DEF GoodTable, PromotedKnown
  <2> DEFINE f == IF "sent" \in r.flags[i] /\ r.reported[i] = r.promoted
                    THEN (r.flags[i] \ {"sent"}) \cup {"inprog"} ELSE r.flags[i]
             g == IF "inprog" \in f /\ linked THEN (f \ {"inprog"}) \cup {"done"} ELSE f
             fl == [r.flags EXCEPT ![i] = g]
  <2>2. f \in SUBSET Flags /\ ("promoted" \in f <=> "promoted" \in r.flags[i])
    BY <1>0, Zenon DEF Flags
  <2>3. ReconfProgress(r, i, linked) = [r EXCEPT !.flags = fl]
    BY <1>0, <1>2, Zenon DEF ReconfProgress, Table
  <2> HIDE DEF f
  <2>4. g \in SUBSET Flags /\ ("promoted" \in g <=> "promoted" \in r.flags[i])
    BY <2>2, Zenon DEF Flags
  <2> HIDE DEF g
  <2>5. fl \in [Inst -> SUBSET Flags] /\ \A j \in Inst : fl[j] = IF j = i THEN g ELSE r.flags[j]
    BY <1>0, <2>4, Zenon
  <2> HIDE DEF fl
  <2>6. \A j \in Inst : "promoted" \in fl[j] <=> "promoted" \in r.flags[j]
    BY <2>4, <2>5, Zenon
  <2>7. PICK q : q = [r EXCEPT !.flags = fl]
    BY Zenon
  <2>8. GoodTable(q) /\ Same(r, q)
    BY <2>1, <2>5, <2>6, <2>7, FlagsGood, Zenon
  <2> QED
    BY <2>3, <2>7, <2>8, Zenon
<1> QED
  BY <1>1, <1>2, Zenon

\* The promoted replica reports to be a master.
LEMMA PromotionGood ==
  ASSUME NEW r, GoodTable(r), r.state = "wait_promotion"
  PROVE  LET q == [r EXCEPT !.configEpoch = r.failoverEpoch, !.state = "reconf_slaves"] IN
           /\ GoodTable(q) /\ q.epoch = r.epoch /\ Allowed(r, q)
<1>1. r \in Table
  BY Zenon DEF GoodTable
<1> DEFINE q == [r EXCEPT !.configEpoch = r.failoverEpoch, !.state = "reconf_slaves"]
<1>2. q \in Table
  BY <1>1, Zenon DEF Table, State, Promoting
<1>3. /\ q.state = "reconf_slaves" /\ q.promoted = r.promoted /\ q.flags = r.flags
      /\ q.slaves = r.slaves
  BY <1>1, Zenon DEF Table
<1>4. /\ q.epoch = r.epoch /\ q.configEpoch = r.failoverEpoch
      /\ q.failoverEpoch = r.failoverEpoch
  BY <1>1, Zenon DEF Table
<1> HIDE DEF q
<1>5. PromotedKnown(q)
  BY <1>3, Zenon DEF PromotedKnown, GoodTable, Promoting
<1>6. EpochsInOrder(q)
  BY <1>4, Zenon DEF EpochsInOrder, GoodTable
<1>7. Allowed(r, q)
  BY <1>1, <1>3, <1>4 DEF Allowed, OvertakenIn, Table
<1>8. GoodTable(q)
  BY <1>2, <1>5, <1>6, Zenon DEF GoodTable
<1> QED
  BY <1>4, <1>7, <1>8, Zenon DEF q

LEMMA SameThenAllowed ==
  ASSUME NEW r \in Table, NEW q \in Table, NEW s \in Table, Same(r, q), Allowed(q, s),
         q.addr = r.addr
  PROVE  Allowed(r, s)
BY Zenon DEF Same, Allowed, Table

\* sentinelRefreshInstanceInfo, all its parts in their order.
LEMMA RefreshGood ==
  ASSUME FailoverInv, NEW i \in Inst, NEW linked, NEW waited,
         sentinelRefreshInstanceInfo(i, linked, waited)
  PROVE  FailoverInv' /\ Allowed(v, v')
<1> DEFINE listed == IF i = v.addr THEN {j \in Inst : repl[j] = i} \ {i} ELSE {}
           rep == [v.reported EXCEPT ![i] = repl[i]]
           ss == v.slaves \cup listed
<1>0. v \in Table /\ GoodTable(v)
  BY Zenon DEF FailoverInv, GoodTable
<1>1. rep \in [Inst -> Inst \cup {NoOne, Unknown}]
  BY <1>0, Zenon DEF Table, FailoverInv
<1>2. ss \in SUBSET Inst /\ v.slaves \subseteq ss
  BY <1>0, Zenon DEF Table
<1>3. PICK r : r = [v EXCEPT !.reported = rep, !.slaves = ss]
  BY Zenon
<1>4. [v EXCEPT !.reported[i] = repl[i], !.slaves = @ \cup listed] = r
  BY <1>0, <1>3, Zenon DEF Table
<1>5. /\ \/ v' = r
         \/ r.state = "wait_promotion"
              /\ v' = [r EXCEPT !.configEpoch = r.failoverEpoch, !.state = "reconf_slaves"]
         \/ v' = ReconfProgress(r, i, linked)
      /\ cmds' \in {cmds, sentinelSendSlaveOf(cmds, i, r.addr)}
      /\ UNCHANGED <<repl, up, hello, crashes, glitches>>
  <2> HIDE DEF rep, ss
  <2> QED
    BY <1>4, Zenon DEF sentinelRefreshInstanceInfo
<1> HIDE DEF rep, ss
<1>6. GoodTable(r) /\ Same(v, r) /\ r.addr = v.addr
  <2>1. r \in Table
    BY <1>0, <1>1, <1>2, <1>3, Zenon DEF Table
  <2>2. /\ r.state = v.state /\ r.promoted = v.promoted /\ r.flags = v.flags
        /\ r.slaves = ss /\ r.addr = v.addr /\ r.epoch = v.epoch
        /\ r.configEpoch = v.configEpoch /\ r.failoverEpoch = v.failoverEpoch
    BY <1>0, <1>3, Zenon DEF Table
  <2> QED
    BY <1>0, <1>2, <2>1, <2>2, UntouchedGood, Zenon
<1>7. r \in Table /\ r.addr \in Inst
  BY <1>6, Zenon DEF GoodTable, Table
<1>8. cmds' \in Queues
  BY <1>5, <1>7, SendTyped, Zenon DEF FailoverInv
<1>9. CASE v' = r
  BY <1>5, <1>6, <1>8, <1>9, QuietGood, Zenon DEF FailoverInv
<1>10. CASE v' = ReconfProgress(r, i, linked)
  <2>1. GoodTable(v') /\ Same(r, v')
    BY <1>6, <1>10, ProgressGood, Zenon
  <2>2. v' \in Table
    BY <2>1, Zenon DEF GoodTable
  <2>3. Same(v, v')
    BY <1>0, <1>6, <1>7, <2>1, <2>2, SameTransitive, Zenon
  <2> QED
    BY <1>5, <1>8, <2>1, <2>3, QuietGood, Zenon DEF FailoverInv
<1>11. CASE r.state = "wait_promotion"
              /\ v' = [r EXCEPT !.configEpoch = r.failoverEpoch, !.state = "reconf_slaves"]
  <2>1. GoodTable(v') /\ v'.epoch = r.epoch /\ Allowed(r, v')
    BY <1>6, <1>11, PromotionGood, Zenon
  <2>2. v' \in Table
    BY <2>1, Zenon DEF GoodTable
  <2>3. Allowed(v, v')
    BY <1>0, <1>6, <1>7, <2>1, <2>2, SameThenAllowed, Zenon
  <2>4. v.epoch <= v'.epoch /\ v.epoch \in Nat /\ v'.epoch \in Nat
    BY <1>0, <1>6, <2>1, <2>2, Zenon DEF Same, Table
  <2>5. \A h \in hello' : h.addr \in Inst /\ h.epoch \in Nat /\ h.epoch <= v'.epoch
    BY <1>5, <2>4 DEF FailoverInv
  <2> QED
    BY <1>5, <1>8, <2>1, <2>3, <2>5, Zenon DEF FailoverInv
<1> QED
  BY <1>5, <1>9, <1>10, <1>11, Zenon

\* Another Sentinel announces an address under an epoch of its own.
LEMMA OtherGood ==
  ASSUME FailoverInv, NEW i \in Inst, OtherSentinel(i)
  PROVE  FailoverInv' /\ Allowed(v, v')
<1>0. v \in Table /\ GoodTable(v) /\ v.epoch \in Nat
  BY Zenon DEF FailoverInv, GoodTable, Table
<1>1. v' = [v EXCEPT !.epoch = @ + 1]
      /\ UNCHANGED <<up, cmds, crashes, glitches>>
      /\ repl' = [repl EXCEPT ![i] = NoOne]
      /\ hello' = hello \cup {[addr |-> i, epoch |-> v.epoch + 1]}
  BY Zenon DEF OtherSentinel
<1>2. v' \in Table
  BY <1>0, <1>1 DEF Table
<1>3. /\ v'.state = v.state /\ v'.promoted = v.promoted /\ v'.flags = v.flags
      /\ v'.slaves = v.slaves /\ v'.addr = v.addr
  BY <1>0, <1>1, Zenon DEF Table
<1>4. /\ v'.epoch = v.epoch + 1 /\ v'.configEpoch = v.configEpoch
      /\ v'.failoverEpoch = v.failoverEpoch
  BY <1>0, <1>1, Zenon DEF Table
<1>5. PromotedKnown(v')
  BY <1>0, <1>3, Zenon DEF PromotedKnown, GoodTable
<1>6. EpochsInOrder(v') /\ Same(v, v')
  BY <1>0, <1>3, <1>4 DEF EpochsInOrder, GoodTable, Table, Same, AnnouncedBy, OvertakenIn
<1>7. GoodTable(v')
  BY <1>2, <1>5, <1>6, Zenon DEF GoodTable
<1>8. Allowed(v, v')
  BY <1>0, <1>2, <1>6, SameAllowed, Zenon
<1>9. \A h \in hello' : h.addr \in Inst /\ h.epoch \in Nat /\ h.epoch <= v'.epoch
  BY <1>0, <1>1, <1>4 DEF FailoverInv
<1>10. repl' \in [Inst -> Inst \cup {NoOne}]
  BY <1>1, Zenon DEF FailoverInv
<1> QED
  BY <1>1, <1>7, <1>8, <1>9, <1>10, Zenon DEF FailoverInv

\* sentinelProcessHelloMessage takes an address only with a greater epoch.
LEMMA HelloGood ==
  ASSUME FailoverInv, NEW h \in hello, sentinelProcessHelloMessage(h)
  PROVE  FailoverInv' /\ Allowed(v, v')
<1>0. v \in Table /\ GoodTable(v) /\ h.addr \in Inst /\ h.epoch \in Nat /\ h.epoch <= v.epoch
  BY Zenon DEF FailoverInv, GoodTable
<1>1. PICK r : r = [v EXCEPT !.configEpoch = h.epoch]
  BY Zenon
<1>2. /\ hello' \subseteq hello /\ UNCHANGED <<repl, up, cmds, crashes, glitches>>
      /\ \/ v' = v
         \/ v.configEpoch < h.epoch /\ v' = r /\ h.addr = r.addr
         \/ v.configEpoch < h.epoch /\ v' = sentinelResetMasterAndChangeAddress(r, h.addr)
  BY <1>1, Zenon DEF sentinelProcessHelloMessage, Newer
<1>3. r \in Table
  BY <1>0, <1>1, Zenon DEF Table
<1>4. /\ r.state = v.state /\ r.promoted = v.promoted /\ r.flags = v.flags
      /\ r.slaves = v.slaves /\ r.addr = v.addr
  BY <1>0, <1>1, Zenon DEF Table
<1>5. r.epoch = v.epoch /\ r.configEpoch = h.epoch /\ r.failoverEpoch = v.failoverEpoch
  BY <1>0, <1>1, Zenon DEF Table
<1>6. PromotedKnown(r)
  BY <1>0, <1>4, Zenon DEF PromotedKnown, GoodTable
<1>7. EpochsInOrder(r)
  BY <1>0, <1>5, Zenon DEF EpochsInOrder, GoodTable
<1>8. CASE v' = v
  <2>1. Same(v, v')
    BY <1>0, <1>8 DEF Same, Table
  <2> QED
    BY <1>0, <1>2, <1>8, <2>1, QuietGood, Zenon DEF FailoverInv
<1>9. ASSUME GoodTable(v'), v'.epoch = v.epoch, Allowed(v, v')
      PROVE  FailoverInv' /\ Allowed(v, v')
  <2>1. \A g \in hello' : g.addr \in Inst /\ g.epoch \in Nat /\ g.epoch <= v'.epoch
    BY <1>2, <1>9, Zenon DEF FailoverInv
  <2> QED
    BY <1>2, <1>9, <2>1, Zenon DEF FailoverInv
<1>10. CASE v.configEpoch < h.epoch /\ v' = r /\ h.addr = r.addr
  <2>1. GoodTable(v') /\ v'.epoch = v.epoch
    BY <1>3, <1>5, <1>6, <1>7, <1>10, Zenon DEF GoodTable
  <2>2. v.configEpoch \in Nat
    BY <1>0, Zenon DEF Table
  <2>3. Allowed(v, v')
    BY <1>0, <1>4, <1>5, <1>10, <2>2 DEF Allowed
  <2> QED
    BY <1>9, <2>1, <2>3, Zenon
<1>11. CASE v.configEpoch < h.epoch /\ v' = sentinelResetMasterAndChangeAddress(r, h.addr)
  <2>1. GoodTable(v') /\ v'.state = "none" /\ v'.epoch = r.epoch /\ v'.configEpoch = r.configEpoch
    BY <1>0, <1>3, <1>7, <1>11, ResetGood, Zenon
  <2>2. v.configEpoch \in Nat
    BY <1>0, Zenon DEF Table
  <2>3. Allowed(v, v')
    BY <1>0, <1>5, <1>11, <2>1, <2>2 DEF Allowed, OvertakenIn
  <2> QED
    BY <1>5, <1>9, <2>1, <2>3, Zenon
<1> QED
  BY <1>2, <1>8, <1>10, <1>11, Zenon

LEMMA FailoverInitGood == FailoverInit => FailoverInv
<1> SUFFICES ASSUME FailoverInit PROVE FailoverInv
  BY Zenon
<1>1. NewTable \in Table
  BY FailoverAssumption, Zenon DEF NewTable, Table, State
<1>2. EpochsInOrder(NewTable)
  BY DEF NewTable, EpochsInOrder
<1>3. GoodTable(v)
  BY <1>1, <1>2, FreshGood, FailoverAssumption, Zenon DEF FailoverInit
<1>4. repl \in [Inst -> Inst \cup {NoOne}]
  BY FailoverAssumption, Zenon DEF FailoverInit
<1>5. cmds \in Queues
  BY DEF FailoverInit, Queues
<1> QED
  BY <1>3, <1>4, <1>5, Zenon DEF FailoverInit, FailoverInv

\* Every step keeps the invariant and announces nothing it may not.
LEMMA FailoverStep ==
  ASSUME FailoverInv, FailoverNext
  PROVE  FailoverInv' /\ Allowed(v, v')
<1>1. CASE Timer
  BY <1>1, TimerGood, Zenon
<1>2. CASE ForceFailover
  BY <1>2, ForceGood, Zenon
<1>3. ASSUME NEW i \in Inst, Connect(i) \/ Disconnect(i) \/ CheckDown(i)
      PROVE  FailoverInv' /\ Allowed(v, v')
  BY <1>3, LinksGood, Zenon
<1>4. ASSUME NEW i \in Inst, NEW linked, NEW waited,
             sentinelRefreshInstanceInfo(i, linked, waited)
      PROVE  FailoverInv' /\ Allowed(v, v')
  BY <1>4, RefreshGood, Zenon
<1>5. ASSUME NEW i \in Inst, Deliver(i) \/ LoseCommands(i) \/ Crash(i) \/ Revive(i)
      PROVE  FailoverInv' /\ Allowed(v, v')
  BY <1>5, WorldGood, Zenon
<1>6. ASSUME NEW i \in Inst, OtherSentinel(i) PROVE FailoverInv' /\ Allowed(v, v')
  BY <1>6, OtherGood, Zenon
<1>7. ASSUME NEW h \in hello, sentinelProcessHelloMessage(h)
      PROVE  FailoverInv' /\ Allowed(v, v')
  BY <1>7, HelloGood, Zenon
<1> QED
  BY <1>1, <1>2, <1>3, <1>4, <1>5, <1>6, <1>7, Zenon DEF FailoverNext

LEMMA FailoverKeeps == FailoverInv /\ [FailoverNext]_failoverVars => FailoverInv'
<1>1. ASSUME FailoverInv, UNCHANGED failoverVars PROVE FailoverInv'
  BY <1>1, Zenon DEF failoverVars, FailoverInv
<1> QED
  BY <1>1, FailoverStep, Zenon

\* PromotedIsKnown, for any number of instances, failovers and crashes: promoted_slave is a
\* replica of the table that bears SRI_PROMOTED exactly while the failover needs it, and only
\* a failover that reconfigures replicas has any of them marked.
THEOREM PromotedAlwaysKnown == FailoverSpec => []PromotedIsKnown
<1>1. FailoverInv => PromotedIsKnown
  BY Zenon DEF FailoverInv, GoodTable, PromotedKnown, PromotedIsKnown
<1> QED
  BY <1>1, FailoverInitGood, FailoverKeeps, PTL DEF FailoverSpec

\* OneAddressPerEpoch, for any number of instances, failovers and crashes: config_epoch does
\* not go back and names one address, until a newer configuration with the same address
\* overtakes a failover that is under way.
THEOREM OneAddressEach == FailoverSpec => OneAddressPerEpoch
<1>1. FailoverInv /\ [FailoverNext]_failoverVars =>
        [ /\ ~Overtaken => /\ v'.configEpoch >= v.configEpoch
                           /\ v'.configEpoch = v.configEpoch => Announced' = Announced
          /\ ~Overtaken /\ Overtaken' =>
               \E h \in hello : h.addr = v.addr /\ h.epoch = v'.configEpoch ]_failoverVars
  BY FailoverStep, Zenon DEF Allowed, Overtaken, OvertakenIn, Announced, AnnouncedBy
<1> QED
  BY <1>1, FailoverInitGood, FailoverKeeps, PTL DEF FailoverSpec, OneAddressPerEpoch

-------------------------------------------------------------------------------
(* The election. *)

Answer == [leader : Sentinel \cup {None}, epoch : Nat]
Vote == [by : Sentinel, for : Sentinel, epoch : Nat]
Reply == [from : Sentinel, to : Sentinel, leader : Sentinel \cup {None}, epoch : Nat]

VoteOf(t, l, e) == [by |-> t, for |-> l, epoch |-> e]

StateOf(s) ==
  [cur : Nat, leader : Sentinel \cup {None}, lepoch : Nat,
   state : {"none", "wait", "elected"}, fepoch : Nat,
   heard : [Others(s) -> Answer], disk : [cur : Nat, lepoch : Nat]]

\* The epochs of r, in memory and on disk.
EpochsKept(r) == /\ r.lepoch <= r.cur
                 /\ r.disk.lepoch = r.lepoch
                 /\ r.disk.lepoch <= r.disk.cur

\* The votes that s has given, among C.
OwnVotes(s, r, C) ==
  \A u \in C : u.by = s => /\ u.epoch <= r.lepoch
                           /\ r.leader # None /\ u.epoch = r.lepoch => u.for = r.leader

\* What s has heard are votes of C.
HeardVotes(s, r, C) ==
  \A t \in Others(s) :
    r.heard[t].leader # None => VoteOf(t, r.heard[t].leader, r.heard[t].epoch) \in C

Good(s, r, C) ==
  r \in StateOf(s) /\ EpochsKept(r) /\ OwnVotes(s, r, C) /\ HeardVotes(s, r, C)

OneVote(C) == \A u, w \in C : u.by = w.by /\ u.epoch = w.epoch => u.for = w.for

Supporters(n, e, C) == {t \in Sentinel : VoteOf(t, n, e) \in C}

Elected(w, C) ==
  w.at = w.epoch =>
    Cardinality(Supporters(w.node, w.epoch, C)) >= Cardinality(Sentinel) \div 2 + 1

\* The inductive invariant.
ElectionInv ==
  /\ DOMAIN st = Sentinel
  /\ \A s \in Sentinel : Good(s, st[s], cast)
  /\ asked \subseteq [from : Sentinel, epoch : Nat]
  /\ replies \subseteq Reply
  /\ \A p \in replies : p.from # p.to
  /\ \A p \in replies : p.leader # None => VoteOf(p.from, p.leader, p.epoch) \in cast
  /\ cast \subseteq Vote /\ OneVote(cast)
  /\ won \subseteq [node : Sentinel, epoch : Nat, at : Nat]
  /\ \A w \in won : Elected(w, cast)

-----------------------------------------------------------------------------
(* One Sentinel.                                                           *)

\* Writing the configuration to disk.
LEMMA FlushKeeps ==
  ASSUME NEW s \in Sentinel, NEW r, NEW C, Good(s, r, C)
  PROVE  LET f == sentinelFlushConfig(r) IN
         /\ Good(s, f, C)
         /\ f.cur = r.cur /\ f.lepoch = r.lepoch /\ f.leader = r.leader
         /\ f.state = r.state /\ f.fepoch = r.fepoch /\ f.heard = r.heard
<1> DEFINE d == [cur |-> r.cur, lepoch |-> r.lepoch]
           f == sentinelFlushConfig(r)
<1>1. r \in StateOf(s) /\ EpochsKept(r) /\ OwnVotes(s, r, C) /\ HeardVotes(s, r, C)
  BY Zenon DEF Good
<1>2. d \in [cur : Nat, lepoch : Nat] /\ d.cur = r.cur /\ d.lepoch = r.lepoch
  BY <1>1, Zenon DEF StateOf
<1>3. f = [r EXCEPT !.disk = d]
  BY Zenon DEF sentinelFlushConfig
<1> HIDE DEF d, f
<1>4. /\ f \in StateOf(s) /\ f.disk = d
      /\ f.cur = r.cur /\ f.lepoch = r.lepoch /\ f.leader = r.leader
      /\ f.state = r.state /\ f.fepoch = r.fepoch /\ f.heard = r.heard
  BY <1>1, <1>2, <1>3, Zenon DEF StateOf
<1>5. EpochsKept(f)
  BY <1>1, <1>2, <1>4, Zenon DEF EpochsKept
<1>6. OwnVotes(s, f, C) /\ HeardVotes(s, f, C)
  BY <1>1, <1>4, Zenon DEF OwnVotes, HeardVotes
<1> QED
  BY <1>4, <1>5, <1>6, Zenon DEF Good, f

\* A greater current_epoch.
LEMMA RaiseKeeps ==
  ASSUME NEW s \in Sentinel, NEW r, NEW C, Good(s, r, C), NEW e \in Nat, r.cur <= e
  PROVE  LET f == [r EXCEPT !.cur = e] IN
         /\ Good(s, f, C)
         /\ f.cur = e /\ f.lepoch = r.lepoch /\ f.leader = r.leader
         /\ f.state = r.state /\ f.fepoch = r.fepoch /\ f.heard = r.heard
<1> DEFINE f == [r EXCEPT !.cur = e]
<1>1. r \in StateOf(s) /\ EpochsKept(r) /\ OwnVotes(s, r, C) /\ HeardVotes(s, r, C)
  BY Zenon DEF Good
<1>2. r.cur \in Nat /\ r.lepoch \in Nat
  BY <1>1, Zenon DEF StateOf
<1>3. /\ f \in StateOf(s) /\ f.disk = r.disk
      /\ f.cur = e /\ f.lepoch = r.lepoch /\ f.leader = r.leader
      /\ f.state = r.state /\ f.fepoch = r.fepoch /\ f.heard = r.heard
  BY <1>1, Zenon DEF StateOf
<1> HIDE DEF f
<1>4. EpochsKept(f)
  BY <1>1, <1>2, <1>3 DEF EpochsKept
<1>5. OwnVotes(s, f, C) /\ HeardVotes(s, f, C)
  BY <1>1, <1>3, Zenon DEF OwnVotes, HeardVotes
<1> QED
  BY <1>3, <1>4, <1>5, Zenon DEF Good, f

\* Votes of others say nothing about a Sentinel.
LEMMA OthersVote ==
  ASSUME NEW s, NEW t, NEW r, NEW C, NEW D, Good(s, r, C), C \subseteq D,
         \A u \in D \ C : u.by = t, s # t
  PROVE  Good(s, r, D)
BY Zenon DEF Good, OwnVotes, HeardVotes

\* A vote that is cast is one of a greater epoch, or the one given before.
LEMMA VoteKeeps ==
  ASSUME NEW s \in Sentinel, NEW r, NEW C \in SUBSET Vote, Good(s, r, C), OneVote(C),
         NEW e \in Nat, NEW n \in Sentinel,
         NEW q, q = sentinelVoteLeader(r, e, n), NEW D, D = C \cup Voted(s, q)
  PROVE  /\ Good(s, q, D) /\ D \in SUBSET Vote /\ OneVote(D)
         /\ \A u \in D \ C : u.by = s
         /\ q.state = r.state /\ q.fepoch = r.fepoch /\ q.heard = r.heard
         /\ q.leader # None => VoteOf(s, q.leader, q.lepoch) \in D
<1>1. r \in StateOf(s) /\ EpochsKept(r) /\ OwnVotes(s, r, C) /\ HeardVotes(s, r, C)
  BY Zenon DEF Good
<1> DEFINE raised == IF e > r.cur THEN sentinelFlushConfig([r EXCEPT !.cur = e]) ELSE r
           votes == raised.lepoch < e /\ raised.cur <= e
<1>2. /\ Good(s, raised, C) /\ raised.lepoch = r.lepoch /\ raised.leader = r.leader
      /\ raised.state = r.state /\ raised.fepoch = r.fepoch /\ raised.heard = r.heard
      /\ raised.cur >= e
  <2>0. r.cur \in Nat
    BY <1>1, Zenon DEF StateOf
  <2>1. CASE e > r.cur
    <3> DEFINE a == [r EXCEPT !.cur = e]
    <3>1. /\ Good(s, a, C) /\ a.cur = e /\ a.lepoch = r.lepoch /\ a.leader = r.leader
          /\ a.state = r.state /\ a.fepoch = r.fepoch /\ a.heard = r.heard
      BY <2>0, <2>1, RaiseKeeps
    <3>2. raised = sentinelFlushConfig(a)
      BY <2>1, Zenon
    <3> HIDE DEF a, raised
    <3> QED
      BY <3>1, <3>2, FlushKeeps
  <2>2. CASE ~(e > r.cur)
    BY <2>0, <2>2
  <2> QED
    BY <2>1, <2>2, Zenon
<1>6. raised \in StateOf(s) /\ raised.cur \in Nat /\ raised.lepoch \in Nat
  <2>1. raised \in StateOf(s)
    BY <1>2, Zenon DEF Good
  <2> HIDE DEF raised
  <2> QED
    BY <2>1, Zenon DEF StateOf
<1> DEFINE given == [raised EXCEPT !.leader = n, !.lepoch = raised.cur]
<1>3. q = IF votes THEN sentinelFlushConfig(given) ELSE raised
  BY Zenon DEF sentinelVoteLeader
<1> HIDE DEF raised
<1>4. CASE votes
  <2>1. raised.cur = e
    BY <1>2, <1>4, <1>6
  <2>a. /\ given \in StateOf(s) /\ given.leader = n /\ given.lepoch = e /\ given.cur = e
        /\ given.state = r.state /\ given.fepoch = r.fepoch /\ given.heard = r.heard
    BY <1>2, <1>6, <2>1, Zenon DEF StateOf
  <2>b. q = [given EXCEPT !.disk = [cur |-> e, lepoch |-> e]]
    BY <1>3, <1>4, <2>a, Zenon DEF sentinelFlushConfig
  <2> HIDE DEF given
  <2>2. /\ q \in StateOf(s) /\ q.lepoch = e /\ q.leader = n /\ q.cur = e
        /\ q.state = r.state /\ q.fepoch = r.fepoch /\ q.heard = r.heard
        /\ q.disk.cur = e /\ q.disk.lepoch = e
    BY <2>a, <2>b DEF StateOf
  <2>3. EpochsKept(q)
    BY <2>2 DEF EpochsKept
  <2>4. n # None /\ Voted(s, q) = {VoteOf(s, n, e)}
    BY <2>2, SentinelAssumption, Zenon DEF Voted, VoteOf
  <2>5. \A u \in C : u.by = s => u.epoch < e
    BY <1>1, <1>2, <1>4 DEF OwnVotes, StateOf, Vote
  <2>6. VoteOf(s, n, e) \in Vote
    BY Zenon DEF VoteOf, Vote
  <2>7. D = C \cup {VoteOf(s, n, e)}
    BY <2>4, Zenon
  <2>8. OwnVotes(s, q, D)
    BY <2>2, <2>5, <2>7 DEF OwnVotes, VoteOf, Vote
  <2>9. HeardVotes(s, q, D)
    BY <1>1, <2>2, <2>7, Zenon DEF HeardVotes
  <2>10. OneVote(D)
    BY <2>5, <2>7 DEF OneVote, VoteOf, Vote
  <2> QED
    BY <2>2, <2>3, <2>6, <2>7, <2>8, <2>9, <2>10 DEF Good, VoteOf
<1>5. CASE ~votes
  <2>1. q = raised
    BY <1>3, <1>5, Zenon
  <2>2. CASE q.leader = None
    <3>1. D = C
      BY <2>2, Zenon DEF Voted
    <3> QED
      BY <1>1, <1>2, <2>1, <2>2, <3>1, Zenon DEF Good, OwnVotes, HeardVotes
  <2>3. CASE q.leader # None
    <3>1. D = C \cup {VoteOf(s, q.leader, q.lepoch)}
      BY <2>3, Zenon DEF Voted, VoteOf
    <3>2. q.leader \in Sentinel /\ q.lepoch \in Nat
      BY <1>6, <2>1, <2>3, Zenon DEF StateOf
    <3>3. VoteOf(s, q.leader, q.lepoch) \in Vote
      BY <3>2, Zenon DEF VoteOf, Vote
    <3>4. OwnVotes(s, q, C) /\ HeardVotes(s, q, C)
      BY <1>1, <1>2, <2>1, Zenon DEF OwnVotes, HeardVotes
    <3>5. OwnVotes(s, q, D)
      BY <3>1, <3>2, <3>4 DEF OwnVotes, VoteOf
    <3>6. HeardVotes(s, q, D)
      BY <3>1, <3>4, Zenon DEF HeardVotes
    <3>7. OneVote(D)
      BY <2>3, <3>1, <3>4 DEF OneVote, OwnVotes, VoteOf
    <3> QED
      BY <1>2, <2>1, <3>1, <3>3, <3>5, <3>6, <3>7 DEF Good, VoteOf
  <2> QED
    BY <2>2, <2>3, Zenon
<1> QED
  BY <1>4, <1>5, Zenon

\* Replies that become too old are forgotten.
LEMMA ForgetKeeps ==
  ASSUME NEW s \in Sentinel, NEW r, NEW C, Good(s, r, C), NEW stale
  PROVE  /\ Good(s, Forget(r, stale), C)
         /\ Forget(r, stale).cur = r.cur /\ Forget(r, stale).state = r.state
         /\ Forget(r, stale).fepoch = r.fepoch
<1> DEFINE h == [t \in DOMAIN r.heard |->
                   IF t \in stale THEN [r.heard[t] EXCEPT !.leader = None] ELSE r.heard[t]]
           f == Forget(r, stale)
<1>1. r \in StateOf(s)
  BY Zenon DEF Good
<1>2. r.heard \in [Others(s) -> Answer]
  BY <1>1, Zenon DEF StateOf
<1>3. h \in [Others(s) -> Answer]
  BY <1>2, Zenon DEF Answer
<1>4. \A t \in Others(s) : h[t].leader # None => h[t] = r.heard[t]
  BY <1>2, Zenon DEF Answer
<1>5. f = [r EXCEPT !.heard = h]
  BY Zenon DEF Forget
<1> HIDE DEF h, f
<1>6. /\ f \in StateOf(s) /\ f.heard = h /\ f.cur = r.cur /\ f.lepoch = r.lepoch
      /\ f.leader = r.leader /\ f.state = r.state /\ f.fepoch = r.fepoch /\ f.disk = r.disk
  BY <1>1, <1>3, <1>5, Zenon DEF StateOf
<1>7. EpochsKept(f) /\ OwnVotes(s, f, C) /\ HeardVotes(s, f, C)
  BY <1>4, <1>6, Zenon DEF Good, EpochsKept, OwnVotes, HeardVotes
<1> QED
  BY <1>6, <1>7, Zenon DEF Good, f

\* The state of the failover is of no concern to the votes.
LEMMA StateKeeps ==
  ASSUME NEW s \in Sentinel, NEW r, NEW C, Good(s, r, C),
         NEW a \in {"none", "wait", "elected"}
  PROVE  Good(s, [r EXCEPT !.state = a], C)
<1> DEFINE f == [r EXCEPT !.state = a]
<1>1. r \in StateOf(s)
  BY Zenon DEF Good
<1>2. /\ f \in StateOf(s) /\ f.heard = r.heard /\ f.cur = r.cur /\ f.lepoch = r.lepoch
      /\ f.leader = r.leader /\ f.disk = r.disk
  BY <1>1, Zenon DEF StateOf
<1> HIDE DEF f
<1>3. Good(s, f, C)
  BY <1>2, Zenon DEF Good, EpochsKept, OwnVotes, HeardVotes
<1> QED
  BY <1>3, Zenon DEF f

-----------------------------------------------------------------------------
(* The majority.                                                           *)

\* More votes, more supporters.
LEMMA SupportersGrow ==
  ASSUME NEW C, NEW D, C \subseteq D, NEW w, Elected(w, C), w.epoch \in Nat
  PROVE  Elected(w, D)
<1> DEFINE A == Supporters(w.node, w.epoch, C)
           B == Supporters(w.node, w.epoch, D)
           m == Cardinality(Sentinel) \div 2 + 1
<1>1. A \subseteq B /\ B \subseteq Sentinel
  BY Zenon DEF Supporters
<1>2. IsFiniteSet(B) /\ Cardinality(A) <= Cardinality(B)
  BY <1>1, SentinelAssumption, FS_Subset, Zenon
<1>3. Cardinality(A) \in Nat /\ Cardinality(B) \in Nat /\ Cardinality(Sentinel) \in Nat
  BY <1>1, <1>2, SentinelAssumption, FS_CardinalityType, FS_Subset, Zenon
<1>4. m \in Int
  BY <1>3
<1> HIDE DEF A, B, m
<1>5. Cardinality(A) >= m => Cardinality(B) >= m
  BY <1>2, <1>3, <1>4
<1> QED
  BY <1>5, Zenon DEF Elected, A, B, m

\* Who finds itself elected, while current_epoch is the epoch of its failover, has the votes
\* of a majority.
LEMMA LeaderIsElected ==
  ASSUME NEW s \in Sentinel, NEW r, NEW C \in SUBSET Vote, Good(s, r, C), OneVote(C),
         NEW f \in Sentinel, sentinelGetLeader(s, r, f).leader = s, r.cur = r.fepoch
  PROVE  Cardinality(Supporters(s, r.fepoch, C \cup Voted(s, sentinelGetLeader(s, r, f).state)))
           >= Cardinality(Sentinel) \div 2 + 1
<1> DEFINE mine == sentinelVoteLeader(r, r.fepoch, f)
           D == C \cup Voted(s, mine)
           x == IF mine.leader = s /\ mine.lepoch = r.fepoch THEN 1 ELSE 0
           T == {t \in Others(s) : r.heard[t].leader = s /\ r.heard[t].epoch = r.cur}
           S == Supporters(s, r.fepoch, D)
           m == Cardinality(Sentinel) \div 2 + 1
<1>1. sentinelGetLeader(s, r, f).state = mine
  BY Zenon DEF sentinelGetLeader
<1>2. Elects(s, Cardinality(T) + x)
  BY SentinelAssumption, Zenon DEF sentinelGetLeader, Tally
<1>3. Cardinality(T) + x >= m
  BY <1>2, Zenon DEF Elects
<1>4. r.fepoch \in Nat
  BY Zenon DEF Good, StateOf
<1>5. mine.leader # None => VoteOf(s, mine.leader, mine.lepoch) \in D
  <2>1. PICK e \in Nat : e = r.fepoch
    BY <1>4, Zenon
  <2>2. mine = sentinelVoteLeader(r, e, f) /\ D = C \cup Voted(s, mine)
    BY <2>1, Zenon
  <2> HIDE DEF mine, D
  <2>3. /\ Good(s, mine, D) /\ D \in SUBSET Vote
        /\ mine.leader # None => VoteOf(s, mine.leader, mine.lepoch) \in D
    BY <2>2, VoteKeeps
  <2> QED
    BY <2>3, Zenon
<1>6. T \subseteq S /\ S \subseteq Sentinel /\ s \notin T
  BY SentinelAssumption, Zenon DEF Good, HeardVotes, Supporters, Others
<1>7. x = 1 => s \in S
  BY <1>5, SentinelAssumption DEF Supporters
<1>8. IsFiniteSet(S) /\ IsFiniteSet(T)
  BY <1>6, SentinelAssumption, FS_Subset, Zenon
<1>9. /\ Cardinality(S) \in Nat /\ Cardinality(T) \in Nat
      /\ Cardinality(Sentinel) \in Nat /\ x \in {0, 1}
  BY <1>8, SentinelAssumption, FS_CardinalityType, Zenon
<1>10. m \in Int
  BY <1>9
<1> HIDE DEF x, T, S
<1>11. Cardinality(S) >= Cardinality(T) + x
  <2>1. CASE x = 0
    <3>1. Cardinality(T) <= Cardinality(S)
      BY <1>6, <1>8, FS_Subset, Zenon
    <3> QED
      BY <1>9, <2>1, <3>1
  <2>2. CASE x = 1
    <3>1. T \cup {s} \subseteq S
      BY <1>6, <1>7, <2>2, Zenon
    <3>2. Cardinality(T \cup {s}) = Cardinality(T) + 1
      BY <1>6, <1>8, FS_AddElement, Zenon
    <3>3. Cardinality(T \cup {s}) <= Cardinality(S)
      BY <1>8, <3>1, FS_Subset, Zenon
    <3> QED
      BY <1>9, <2>2, <3>2, <3>3, Zenon
  <2> QED
    BY <1>9, <2>1, <2>2, Zenon
<1>12. Cardinality(S) >= m
  <2> HIDE DEF m
  <2> QED
    BY <1>3, <1>9, <1>10, <1>11
<1> QED
  BY <1>1, <1>12, Zenon DEF S

\* Two Sentinels with a majority of one epoch are one: some Sentinel voted for both.
LEMMA MajoritiesMeet ==
  ASSUME NEW C, OneVote(C), NEW n, NEW k, NEW e,
         Cardinality(Supporters(n, e, C)) >= Cardinality(Sentinel) \div 2 + 1,
         Cardinality(Supporters(k, e, C)) >= Cardinality(Sentinel) \div 2 + 1
  PROVE  n = k
<1> DEFINE A == Supporters(n, e, C)
           B == Supporters(k, e, C)
<1>1. A \subseteq Sentinel /\ B \subseteq Sentinel
  BY Zenon DEF Supporters
<1>2. Cardinality(A) \in Nat /\ Cardinality(B) \in Nat /\ Cardinality(Sentinel) \in Nat
  BY <1>1, SentinelAssumption, FS_CardinalityType, FS_Subset, Zenon
<1>3. Cardinality(A) + Cardinality(B) > Cardinality(Sentinel)
  BY <1>2
<1>4. A \cap B # {}
  BY <1>1, <1>3, SentinelAssumption, FS_MajoritiesIntersect, Zenon
<1>5. PICK t \in Sentinel : VoteOf(t, n, e) \in C /\ VoteOf(t, k, e) \in C
  BY <1>4, Zenon DEF Supporters
<1> QED
  BY <1>5, Zenon DEF OneVote, VoteOf

-----------------------------------------------------------------------------
(* The steps.                                                              *)

\* A Sentinel moves on, and perhaps casts a vote.
LEMMA SentinelMoves ==
  ASSUME ElectionInv, NEW s \in Sentinel, NEW q, NEW D \in SUBSET Vote,
         cast \subseteq D, OneVote(D), \A u \in D \ cast : u.by = s, Good(s, q, D),
         st' = [st EXCEPT ![s] = q], cast' = D
  PROVE  /\ DOMAIN st' = Sentinel
         /\ \A t \in Sentinel : Good(t, st'[t], cast')
         /\ cast' \subseteq Vote /\ OneVote(cast')
         /\ \A p \in replies : p.leader # None => VoteOf(p.from, p.leader, p.epoch) \in cast'
         /\ \A w \in won : Elected(w, cast')
<1>1. DOMAIN st' = Sentinel
  BY Zenon DEF ElectionInv
<1>2. \A t \in Sentinel : Good(t, st'[t], D)
  <2> SUFFICES ASSUME NEW t \in Sentinel
               PROVE  Good(t, st'[t], D)
    BY Zenon
  <2>1. CASE t = s
    BY <2>1, Zenon DEF ElectionInv
  <2>2. CASE t # s
    <3>1. st'[t] = st[t] /\ Good(t, st[t], cast)
      BY <2>2, Zenon DEF ElectionInv
    <3> QED
      BY <2>2, <3>1, OthersVote, Zenon
  <2> QED
    BY <2>1, <2>2, Zenon
<1>3. \A p \in replies : p.leader # None => VoteOf(p.from, p.leader, p.epoch) \in D
  BY Zenon DEF ElectionInv
<1>4. \A w \in won : Elected(w, D)
  <2> SUFFICES ASSUME NEW w \in won
               PROVE  Elected(w, D)
    BY Zenon
  <2>1. Elected(w, cast) /\ w.epoch \in Nat
    BY Zenon DEF ElectionInv
  <2> QED
    BY <2>1, SupportersGrow, Zenon
<1> QED
  BY <1>1, <1>2, <1>3, <1>4, Zenon

\* The timer of a Sentinel that waits for votes, in the state r.
LEMMA WaitStartKeeps ==
  ASSUME ElectionInv, NEW s \in Sentinel, NEW r, Good(s, r, cast),
         sentinelFailoverWaitStart(s, r)
  PROVE  ElectionInv'
<1>1. PICK f \in Sentinel :
        LET got == sentinelGetLeader(s, r, f)
            leads == got.leader = s
        IN /\ \E after \in {"elected", "wait", "none"}, stale \in SUBSET Heard(r) :
                LET end == [got.state EXCEPT !.state = after] IN
                /\ st' = [st EXCEPT ![s] = Forget(end, stale)]
                /\ asked' = asked \cup Request(s, r) \cup Request(s, end)
           /\ won' = IF leads THEN won \cup {[node |-> s, epoch |-> r.fepoch, at |-> r.cur]}
                     ELSE won
           /\ cast' = cast \cup Voted(s, got.state)
           /\ UNCHANGED <<replies, restarts>>
  <2>1. PICK f \in IF Favourites(s, r) = {} THEN {s} ELSE Favourites(s, r) :
          LET got == sentinelGetLeader(s, r, f)
              leads == got.leader = s
          IN /\ \E after \in IF leads THEN {"elected"} ELSE {"wait", "none"},
                   stale \in SUBSET Heard(r) :
                  LET end == [got.state EXCEPT !.state = after] IN
                  /\ st' = [st EXCEPT ![s] = Forget(end, stale)]
                  /\ asked' = asked \cup Request(s, r) \cup Request(s, end)
             /\ won' = IF leads THEN won \cup {[node |-> s, epoch |-> r.fepoch, at |-> r.cur]}
                       ELSE won
             /\ cast' = cast \cup Voted(s, got.state)
             /\ UNCHANGED <<replies, restarts>>
    BY Zenon DEF sentinelFailoverWaitStart
  <2>2. f \in Sentinel
    BY Zenon DEF Favourites
  <2>3. ASSUME NEW b \in BOOLEAN, NEW after \in IF b THEN {"elected"} ELSE {"wait", "none"}
        PROVE  after \in {"elected", "wait", "none"}
    BY <2>3, Zenon
  <2> QED
    BY <2>1, <2>2, <2>3, Zenon
<1> DEFINE got == sentinelGetLeader(s, r, f)
           mine == sentinelVoteLeader(r, r.fepoch, f)
           D == cast \cup Voted(s, mine)
<1>2. got.state = mine
  BY Zenon DEF sentinelGetLeader
<1>3a. PICK after \in {"elected", "wait", "none"} :
         \E stale :
           /\ st' = [st EXCEPT ![s] = Forget([mine EXCEPT !.state = after], stale)]
           /\ asked' = asked \cup Request(s, r) \cup Request(s, [mine EXCEPT !.state = after])
  BY <1>1, <1>2, Zenon
<1>3. PICK stale :
        /\ st' = [st EXCEPT ![s] = Forget([mine EXCEPT !.state = after], stale)]
        /\ asked' = asked \cup Request(s, r) \cup Request(s, [mine EXCEPT !.state = after])
  BY <1>3a, Zenon
<1>4. /\ cast' = D
      /\ won' = IF got.leader = s THEN won \cup {[node |-> s, epoch |-> r.fepoch, at |-> r.cur]}
                ELSE won
      /\ replies' = replies
  BY <1>1, <1>2, Zenon
<1>5. r.fepoch \in Nat /\ r.cur \in Nat
  BY Zenon DEF Good, StateOf
<1>6. cast \in SUBSET Vote /\ OneVote(cast)
  BY Zenon DEF ElectionInv
<1>7. Good(s, mine, D) /\ D \in SUBSET Vote /\ OneVote(D) /\ \A u \in D \ cast : u.by = s
  <2> HIDE DEF mine, D
  <2>1. PICK e \in Nat : e = r.fepoch
    BY <1>5, Zenon
  <2>2. mine = sentinelVoteLeader(r, e, f) /\ D = cast \cup Voted(s, mine)
    BY <2>1, Zenon DEF mine, D
  <2> QED
    BY <1>6, <2>2, VoteKeeps
<1> DEFINE end == [mine EXCEPT !.state = after]
<1>8. Good(s, end, D)
  <2> HIDE DEF mine, D
  <2> QED
    BY <1>7, StateKeeps, Zenon
<1>9. Good(s, Forget(end, stale), D) /\ end.cur \in Nat
  <2>1. end.cur \in Nat
    <3> HIDE DEF end
    <3> QED
      BY <1>8, Zenon DEF Good, StateOf
  <2> HIDE DEF end, D
  <2> QED
    BY <1>8, <2>1, ForgetKeeps, Zenon
<1>10. /\ DOMAIN st' = Sentinel
       /\ \A t \in Sentinel : Good(t, st'[t], cast')
       /\ cast' \subseteq Vote /\ OneVote(cast')
       /\ \A p \in replies : p.leader # None => VoteOf(p.from, p.leader, p.epoch) \in cast'
       /\ \A w \in won : Elected(w, cast')
  <2>1. cast \subseteq D
    BY Zenon
  <2> DEFINE q == Forget(end, stale)
  <2>2. st' = [st EXCEPT ![s] = q] /\ Good(s, q, D)
    BY <1>3, <1>9, Zenon
  <2> HIDE DEF q, D
  <2> QED
    BY <1>4, <1>7, <2>1, <2>2, SentinelMoves, Zenon
<1>11. asked' \subseteq [from : Sentinel, epoch : Nat]
  <2>1. Request(s, r) \subseteq [from : Sentinel, epoch : Nat]
    BY <1>5 DEF Request
  <2>2. Request(s, end) \subseteq [from : Sentinel, epoch : Nat]
    <3> HIDE DEF end
    <3> QED
      BY <1>9 DEF Request
  <2>3. asked' = asked \cup Request(s, r) \cup Request(s, end)
    BY <1>3, Zenon
  <2> HIDE DEF end
  <2> QED
    BY <2>1, <2>2, <2>3, Zenon DEF ElectionInv
<1>12. won' \subseteq [node : Sentinel, epoch : Nat, at : Nat] /\ \A w \in won' : Elected(w, cast')
  <2>1. CASE got.leader = s
    <3> DEFINE u == [node |-> s, epoch |-> r.fepoch, at |-> r.cur]
    <3>1. won' = won \cup {u}
      BY <1>4, <2>1, Zenon
    <3>2. u \in [node : Sentinel, epoch : Nat, at : Nat]
      BY <1>5, Zenon
    <3>3. r.cur = r.fepoch => Cardinality(Supporters(s, r.fepoch, cast'))
                                >= Cardinality(Sentinel) \div 2 + 1
      BY <1>2, <1>4, <1>6, <2>1, LeaderIsElected, Zenon
    <3>4. Elected(u, cast')
      BY <3>3, Zenon DEF Elected
    <3> HIDE DEF u
    <3> QED
      BY <1>10, <3>1, <3>2, <3>4, Zenon DEF ElectionInv
  <2>2. CASE got.leader # s
    BY <1>4, <1>10, <2>2, Zenon DEF ElectionInv
  <2> QED
    BY <2>1, <2>2, Zenon
<1> QED
  BY <1>4, <1>10, <1>11, <1>12, Zenon DEF ElectionInv

LEMMA StartKeeps ==
  ASSUME ElectionInv, NEW s \in Sentinel, StartFailover(s)
  PROVE  ElectionInv'
<1>1. PICK r : r = st[s]
  BY Zenon
<1>2. Good(s, r, cast)
  BY <1>1, Zenon DEF ElectionInv
<1> DEFINE raised == [r EXCEPT !.cur = r.cur + 1]
           begun == sentinelStartFailover(r)
<1>3. r.cur \in Nat /\ r \in StateOf(s)
  BY <1>2, Zenon DEF Good, StateOf
<1>4. Good(s, raised, cast)
  BY <1>2, <1>3, RaiseKeeps, SMTT(40)
<1>5. Good(s, begun, cast)
  <2>1. begun = [raised EXCEPT !.state = "wait", !.fepoch = r.cur + 1]
    BY <1>3, Zenon DEF sentinelStartFailover, StateOf
  <2>2. r.cur + 1 \in Nat
    BY <1>3
  <2> HIDE DEF begun, raised
  <2>3. raised \in StateOf(s)
    BY <1>4, Zenon DEF Good
  <2>4. /\ begun \in StateOf(s) /\ begun.heard = raised.heard /\ begun.cur = raised.cur
        /\ begun.lepoch = raised.lepoch /\ begun.leader = raised.leader /\ begun.disk = raised.disk
    BY <2>1, <2>2, <2>3, Zenon DEF StateOf
  <2> QED
    BY <1>4, <2>4, Zenon DEF Good, EpochsKept, OwnVotes, HeardVotes
<1>6. PICK stale : sentinelFailoverWaitStart(s, Forget(begun, stale))
  BY <1>1, Zenon DEF StartFailover
<1>7. Good(s, Forget(begun, stale), cast)
  <2> HIDE DEF begun
  <2> QED
    BY <1>5, ForgetKeeps, Zenon
<1> DEFINE g == Forget(begun, stale)
<1>8. Good(s, g, cast) /\ sentinelFailoverWaitStart(s, g)
  BY <1>6, <1>7, Zenon
<1> HIDE DEF g
<1> QED
  BY <1>8, WaitStartKeeps, Zenon

LEMMA CountKeeps ==
  ASSUME ElectionInv, NEW s \in Sentinel, CountVotes(s)
  PROVE  ElectionInv'
<1>1. PICK r : r = st[s]
  BY Zenon
<1>2. Good(s, r, cast)
  BY <1>1, Zenon DEF ElectionInv
<1>3. sentinelFailoverWaitStart(s, r)
  BY <1>1, Zenon DEF CountVotes
<1> QED
  BY <1>2, <1>3, WaitStartKeeps, Zenon

\* A step of one Sentinel that casts no vote.
LEMMA QuietKeeps ==
  ASSUME ElectionInv, NEW s \in Sentinel, NEW q, Good(s, q, cast),
         st' = [st EXCEPT ![s] = q], replies' \subseteq replies, UNCHANGED <<asked, cast, won>>
  PROVE  ElectionInv'
<1>1. cast \in SUBSET Vote /\ OneVote(cast) /\ cast' = cast
  BY Zenon DEF ElectionInv
<1>2. /\ DOMAIN st' = Sentinel
      /\ \A t \in Sentinel : Good(t, st'[t], cast')
  BY <1>1, SentinelMoves, Zenon
<1> QED
  BY <1>1, <1>2, Zenon DEF ElectionInv

LEMMA AbortKeeps ==
  ASSUME ElectionInv, NEW s \in Sentinel, sentinelAbortFailover(s)
  PROVE  ElectionInv'
<1>1. PICK r : r = st[s]
  BY Zenon
<1>2. Good(s, r, cast)
  BY <1>1, Zenon DEF ElectionInv
<1> DEFINE q == [r EXCEPT !.state = "none"]
<1>3. Good(s, q, cast)
  BY <1>2, StateKeeps, Zenon
<1>4. /\ st' = [st EXCEPT ![s] = q] /\ UNCHANGED <<asked, replies, cast, won>>
  BY <1>1, Zenon DEF sentinelAbortFailover, ElectionInv
<1> HIDE DEF q
<1> QED
  BY <1>3, <1>4, QuietKeeps, Zenon

\* A greater epoch is taken over from another Sentinel, or another master fails.
LEMMA EpochKeeps ==
  ASSUME ElectionInv, NEW s \in Sentinel, NEW e \in Nat, st[s].cur <= e,
         st' = [st EXCEPT ![s] = sentinelFlushConfig([st[s] EXCEPT !.cur = e])],
         UNCHANGED <<asked, replies, cast, won>>
  PROVE  ElectionInv'
<1>1. PICK r : r = st[s]
  BY Zenon
<1>2. Good(s, r, cast)
  BY <1>1, Zenon DEF ElectionInv
<1> DEFINE raised == [r EXCEPT !.cur = e]
           q == sentinelFlushConfig(raised)
<1>3. Good(s, raised, cast)
  BY <1>1, <1>2, RaiseKeeps, Zenon
<1>4. Good(s, q, cast)
  <2> HIDE DEF raised
  <2> QED
    BY <1>3, FlushKeeps, Zenon
<1>5. st' = [st EXCEPT ![s] = q]
  BY <1>1, Zenon
<1> HIDE DEF q
<1> QED
  BY <1>4, <1>5, QuietKeeps, Zenon

LEMMA RestartKeeps ==
  ASSUME ElectionInv, NEW s \in Sentinel, Restart(s)
  PROVE  ElectionInv'
<1>1. PICK r : r = st[s]
  BY Zenon
<1>2. r \in StateOf(s) /\ EpochsKept(r) /\ OwnVotes(s, r, cast)
  BY <1>1, Zenon DEF ElectionInv, Good
<1>3. PICK d : d = r.disk
  BY Zenon
<1>4. d \in [cur : Nat, lepoch : Nat] /\ d.lepoch = r.lepoch /\ d.lepoch <= d.cur
  BY <1>2, <1>3, Zenon DEF StateOf, EpochsKept
<1> DEFINE h == [t \in Others(s) |-> Unheard]
           q == Started(s, d)
<1>5. h \in [Others(s) -> Answer] /\ \A t \in Others(s) : h[t].leader = None
  BY Zenon DEF Unheard, Answer
<1> HIDE DEF h
<1>6. /\ q \in StateOf(s) /\ q.heard = h /\ q.leader = None /\ q.disk = d
      /\ q.cur = d.cur /\ q.lepoch = d.lepoch
  BY <1>4, <1>5, Zenon DEF Started, StateOf, h
<1>7. st' = [st EXCEPT ![s] = q] /\ replies' \subseteq replies /\ UNCHANGED <<asked, cast, won>>
  BY <1>1, <1>3, Zenon DEF Restart
<1> HIDE DEF q
<1>8. EpochsKept(q) /\ HeardVotes(s, q, cast)
  BY <1>4, <1>5, <1>6, Zenon DEF EpochsKept, HeardVotes
<1>9. OwnVotes(s, q, cast)
  BY <1>2, <1>4, <1>6, Zenon DEF OwnVotes
<1> QED
  BY <1>6, <1>7, <1>8, <1>9, QuietKeeps, ZenonT(60) DEF Good

LEMMA DownKeeps ==
  ASSUME ElectionInv, NEW t \in Sentinel, NEW a \in asked, IsMasterDownByAddr(t, a)
  PROVE  ElectionInv'
<1>1. PICK r : r = st[t]
  BY Zenon
<1>2. Good(t, r, cast) /\ cast \in SUBSET Vote /\ OneVote(cast)
  BY <1>1, Zenon DEF ElectionInv
<1>3. PICK e \in Nat, n \in Sentinel : e = a.epoch /\ n = a.from
  BY Zenon DEF ElectionInv
<1> DEFINE q == sentinelVoteLeader(r, e, n)
           D == cast \cup Voted(t, q)
           p == [from |-> t, to |-> n, leader |-> q.leader, epoch |-> q.lepoch]
<1>4. /\ Good(t, q, D) /\ D \in SUBSET Vote /\ OneVote(D) /\ \A u \in D \ cast : u.by = t
      /\ q.leader # None => VoteOf(t, q.leader, q.lepoch) \in D
  <2> HIDE DEF q, D
  <2>1. q = sentinelVoteLeader(r, e, n) /\ D = cast \cup Voted(t, q)
    BY Zenon DEF q, D
  <2> QED
    BY <1>2, <2>1, VoteKeeps
<1>5. /\ st' = [st EXCEPT ![t] = q] /\ cast' = D /\ replies' = replies \cup {p}
      /\ n # t /\ UNCHANGED <<asked, won>>
  BY <1>1, <1>3, Zenon DEF IsMasterDownByAddr
<1>6. cast \subseteq D
  BY Zenon
<1> HIDE DEF q
<1>7. q.leader \in Sentinel \cup {None} /\ q.lepoch \in Nat
  BY <1>4, Zenon DEF Good, StateOf
<1> HIDE DEF D
<1>8. /\ DOMAIN st' = Sentinel
      /\ \A s \in Sentinel : Good(s, st'[s], cast')
      /\ cast' \subseteq Vote /\ OneVote(cast')
      /\ \A z \in replies : z.leader # None => VoteOf(z.from, z.leader, z.epoch) \in cast'
      /\ \A w \in won : Elected(w, cast')
  BY <1>4, <1>5, <1>6, SentinelMoves, Zenon
<1>9. /\ p \in Reply /\ p.from # p.to
      /\ p.leader # None => VoteOf(p.from, p.leader, p.epoch) \in cast'
  BY <1>4, <1>5, <1>7, Zenon DEF Reply
<1> HIDE DEF p
<1> QED
  BY <1>5, <1>8, <1>9, Zenon DEF ElectionInv

LEMMA ReplyKeeps ==
  ASSUME ElectionInv, NEW p \in replies, sentinelReceiveIsMasterDownReply(p)
  PROVE  ElectionInv'
<1>1. CASE p.leader = None
  BY <1>1, Zenon DEF sentinelReceiveIsMasterDownReply, ElectionInv
<1>2. CASE p.leader # None
  <2>1. /\ p.to \in Sentinel /\ p.from \in Others(p.to)
        /\ p.leader \in Sentinel \cup {None} /\ p.epoch \in Nat
        /\ VoteOf(p.from, p.leader, p.epoch) \in cast
    BY <1>2, Zenon DEF ElectionInv, Reply, Others
  <2>2. PICK s \in Sentinel, t \in Sentinel, u \in Answer :
          /\ s = p.to /\ t = p.from /\ u = [leader |-> p.leader, epoch |-> p.epoch]
          /\ t \in Others(s)
    <3>1. [leader |-> p.leader, epoch |-> p.epoch] \in Answer
      BY <2>1, Zenon DEF Answer
    <3>2. p.from \in Sentinel
      BY <2>1, Zenon DEF Others
    <3> QED
      BY <2>1, <3>1, <3>2, Zenon
  <2>3. u.leader # None => VoteOf(t, u.leader, u.epoch) \in cast
    BY <2>1, <2>2, Zenon
  <2>4. PICK r : r = st[s]
    BY Zenon
  <2>5. Good(s, r, cast) /\ r \in StateOf(s)
    BY <2>4, Zenon DEF ElectionInv, Good
  <2> DEFINE h == [r.heard EXCEPT ![t] = u]
             q == [r EXCEPT !.heard = h]
  <2>6. h \in [Others(s) -> Answer]
        /\ \A z \in Others(s) : h[z] = IF z = t THEN u ELSE r.heard[z]
    BY <2>5, Zenon DEF StateOf
  <2>7. st' = [st EXCEPT ![s] = q] /\ replies' \subseteq replies /\ UNCHANGED <<asked, cast, won>>
    BY <1>2, <2>2, <2>4, Zenon DEF sentinelReceiveIsMasterDownReply, ElectionInv
  <2> HIDE DEF h
  <2>8. /\ q \in StateOf(s) /\ q.heard = h /\ q.leader = r.leader /\ q.disk = r.disk
        /\ q.cur = r.cur /\ q.lepoch = r.lepoch
    BY <2>5, <2>6, Zenon DEF StateOf
  <2> HIDE DEF q
  <2>9. HeardVotes(s, q, cast)
    BY <2>3, <2>5, <2>6, <2>8, Zenon DEF Good, HeardVotes
  <2>10. EpochsKept(q) /\ OwnVotes(s, q, cast)
    BY <2>5, <2>8, Zenon DEF Good, EpochsKept, OwnVotes
  <2> QED
    BY <2>7, <2>8, <2>9, <2>10, QuietKeeps, Zenon DEF Good
<1> QED
  BY <1>1, <1>2, Zenon

-----------------------------------------------------------------------------
(* The theorems.                                                           *)

LEMMA ElectionInvInductive == Spec => []ElectionInv
<1>1. Init => ElectionInv
  <2> SUFFICES ASSUME Init
               PROVE  ElectionInv
    BY Zenon
  <2>1. DOMAIN st = Sentinel /\ cast = {} /\ asked = {} /\ replies = {} /\ won = {}
    BY Zenon DEF Init
  <2>2. ASSUME NEW s \in Sentinel
        PROVE  Good(s, st[s], {})
    <3>1. PICK r : r = Started(s, [cur |-> 0, lepoch |-> 0])
      BY Zenon
    <3> DEFINE h == [t \in Others(s) |-> Unheard]
    <3>2. h \in [Others(s) -> Answer] /\ \A t \in Others(s) : h[t].leader = None
      BY Zenon DEF Unheard, Answer
    <3> HIDE DEF h
    <3>3. /\ r \in StateOf(s) /\ r.heard = h /\ r.lepoch = 0 /\ r.cur = 0
          /\ r.disk.lepoch = 0 /\ r.disk.cur = 0
      BY <3>1, <3>2, Zenon DEF Started, StateOf, h
    <3>4. Good(s, r, {})
      BY <3>2, <3>3 DEF Good, EpochsKept, OwnVotes, HeardVotes
    <3> QED
      BY <2>2, <3>1, <3>4, Zenon DEF Init
  <2> QED
    BY <2>1, <2>2, Zenon DEF ElectionInv, OneVote
<1>2. ElectionInv /\ [Next]_electionVars => ElectionInv'
  <2> SUFFICES ASSUME ElectionInv, [Next]_electionVars
               PROVE  ElectionInv'
    BY Zenon
  <2>1. ASSUME NEW s \in Sentinel, OtherMasterFails(s)
        PROVE  ElectionInv'
    <3>1. PICK e : e = st[s].cur + 1
      BY Zenon
    <3>2. st[s].cur \in Nat
      BY <2>1, Zenon DEF ElectionInv, Good, StateOf
    <3>3. e \in Nat /\ st[s].cur <= e
      BY <3>1, <3>2
    <3>4. st' = [st EXCEPT ![s] = sentinelFlushConfig([st[s] EXCEPT !.cur = e])]
      BY <2>1, <3>1, Zenon DEF OtherMasterFails
    <3>5. UNCHANGED <<asked, replies, cast, won>>
      BY <2>1, Zenon DEF OtherMasterFails
    <3> QED
      BY <2>1, <3>3, <3>4, <3>5, EpochKeeps, Zenon
  <2>2. ASSUME NEW s \in Sentinel, NEW t \in Sentinel, Hello(s, t)
        PROVE  ElectionInv'
    <3>1. PICK e : e = st[t].cur
      BY Zenon
    <3>2. st[s].cur \in Nat /\ e \in Nat
      BY <2>2, <3>1, Zenon DEF ElectionInv, Good, StateOf
    <3>3. st[s].cur <= e
      BY <2>2, <3>1, <3>2 DEF Hello
    <3>4. /\ st' = [st EXCEPT ![s] = sentinelFlushConfig([st[s] EXCEPT !.cur = e])]
          /\ UNCHANGED <<asked, replies, cast, won>>
      BY <2>2, <3>1, Zenon DEF Hello
    <3> QED
      BY <2>2, <3>2, <3>3, <3>4, EpochKeeps, ZenonT(60)
  <2>3. CASE UNCHANGED electionVars
    BY <2>3, Zenon DEF electionVars, ElectionInv
  <2> QED
    BY <2>1, <2>2, <2>3, StartKeeps, CountKeeps, AbortKeeps, RestartKeeps, DownKeeps,
       ReplyKeeps, Zenon DEF Next
<1> QED
  BY <1>1, <1>2, PTL DEF Spec

\* A Sentinel votes once per epoch, whatever crashes, repeated requests and epochs taken over
\* from other failovers come between: sentinelVoteLeader writes the vote before it replies.
THEOREM OneVoteEach == Spec => []OneVotePerEpoch
<1>1. ElectionInv => OneVotePerEpoch
  BY Zenon DEF ElectionInv, OneVote, OneVotePerEpoch
<1> QED
  BY <1>1, ElectionInvInductive, PTL

\* No two Sentinels are elected for one epoch while it is their current_epoch: the votes that
\* sentinelGetLeader then counts are votes of a majority, and majorities share a Sentinel.
THEOREM OneLeaderEach == Spec => []OneLeaderInTime
<1>1. ElectionInv => OneLeaderInTime
  <2> SUFFICES ASSUME ElectionInv, NEW u \in won, NEW w \in won, u.epoch = w.epoch,
                      u.at = u.epoch, w.at = w.epoch
               PROVE  u.node = w.node
    BY Zenon DEF OneLeaderInTime
  <2>1. Elected(u, cast) /\ Elected(w, cast) /\ OneVote(cast)
    BY Zenon DEF ElectionInv
  <2> QED
    BY <2>1, MajoritiesMeet, Zenon DEF Elected
<1> QED
  BY <1>1, ElectionInvInductive, PTL

===============================================================================
