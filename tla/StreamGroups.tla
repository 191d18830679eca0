---------------------------- MODULE StreamGroups ----------------------------
(***************************************************************************)
(* Redis: the consumer groups of a stream (t_stream.c), the clients        *)
(* blocked in XREADGROUP (blocked.c), what is propagated to a replica, and *)
(* what an AOF rewrite makes of the groups (aof.c).                        *)
(*                                                                         *)
(* An entry is its ID, a number.  A NACK, which the group's and the        *)
(* consumer's pending lists share, is in the group's; the consumer's is    *)
(* the set of its IDs.  A command with the service of the blocked clients  *)
(* after it, and its execution by the replica, is one step.                *)
(***************************************************************************)
EXTENDS Integers, Sequences, FiniteSets, SequencesExt, FiniteSetsExt, Functions

CONSTANTS Group, Consumer, Client,
          MaxId,      \* bound: entries added
          MaxTime,    \* bound: mstime()
          MaxCount,   \* bound: deliveries of one entry
          Attempts,   \* pending entries XAUTOCLAIM looks at for each one asked for (10)
          Ops         \* the commands clients use

VARIABLES st,         \* the stream: items, last_id, groups (a function on those that exist)
          rep,        \* the stream of the replica
          waiting,    \* clients blocked in XREADGROUP, first blocked first
          now,        \* mstime()
          back        \* history: groups whose last_id XGROUP SETID lowered

groupVars == <<st, rep, waiting, now, back>>

Empty == [items |-> {}, last_id |-> 0, groups |-> <<>>]

Init == st = Empty /\ rep = Empty /\ waiting = <<>> /\ now = 0 /\ back = {}

Put(f, k, v) == [x \in DOMAIN f \cup {k} |-> IF x = k THEN v ELSE f[x]]
Drop(f, k) == Restrict(f, DOMAIN f \ {k})

-----------------------------------------------------------------------------
(* Groups and consumers.                                                   *)

streamCreateCG(id) == [last_id |-> id, pel |-> <<>>, consumers |-> <<>>]

streamCreateNACK(consumer, time, count) == [consumer |-> consumer, time |-> time, count |-> count]

streamLookupConsumer(cg, name) ==
  IF name \in DOMAIN cg.consumers THEN cg ELSE [cg EXCEPT !.consumers = Put(cg.consumers, name, {})]

\* The pending messages of the consumer go with it.
streamDelConsumer(cg, name) ==
  IF name \notin DOMAIN cg.consumers THEN cg
  ELSE [cg EXCEPT !.pel = Restrict(cg.pel, DOMAIN cg.pel \ cg.consumers[name]),
                  !.consumers = Drop(cg.consumers, name)]

\* Mutant: the entry stays in the pending list of the consumer that had it.
AssignTwice(cg, id, nack) ==
  [cg EXCEPT !.pel = Put(cg.pel, id, nack), !.consumers[nack.consumer] = @ \cup {id}]

\* The entry becomes pending for nack.consumer, and for nobody else.
Assign(cg, id, nack) ==
  [cg EXCEPT !.pel = Put(cg.pel, id, nack),
             !.consumers = [c \in DOMAIN cg.consumers |->
               IF c = nack.consumer THEN cg.consumers[c] \cup {id} ELSE cg.consumers[c] \ {id}]]

Acked(cg, id) ==
  [cg EXCEPT !.pel = Drop(cg.pel, id),
             !.consumers = [c \in DOMAIN cg.consumers |-> cg.consumers[c] \ {id}]]

-----------------------------------------------------------------------------
(* Propagation.                                                            *)

streamPropagateXCLAIM(g, cg, id) ==
  [op |-> "xclaim", group |-> g, consumer |-> cg.pel[id].consumer, id |-> id,
   time |-> cg.pel[id].time, count |-> cg.pel[id].count, lastid |-> cg.last_id]

streamPropagateGroupID(g, cg) == [op |-> "setid", group |-> g, id |-> cg.last_id]

streamPropagateConsumerCreation(g, name) == [op |-> "createconsumer", group |-> g, consumer |-> name]

\* The group has become cg, in which the entry is claimed.
Claimed(t, g, id, cg) ==
  [t |-> [t EXCEPT !.groups[g] = cg], prop |-> <<streamPropagateXCLAIM(g, cg, id)>>]

\* One entry of XCLAIM.  o: force, minidle, time, retrycount (-1: not given), justid.
ClaimOne(t, g, name, id, o) ==
  LET cg == t.groups[g]
      held == id \in DOMAIN cg.pel
      made == ~held /\ o.force /\ id \in t.items
      young == held /\ o.minidle > 0 /\ now - cg.pel[id].time < o.minidle
      was == IF held THEN cg.pel[id].count ELSE 1
      count == IF o.retrycount >= 0 THEN o.retrycount ELSE IF o.justid THEN was ELSE was + 1
  IN IF (held /\ ~young) \/ made
       THEN Claimed(t, g, id, Assign(streamLookupConsumer(cg, name), id,
                                     streamCreateNACK(name, o.time, count)))
     ELSE [t |-> t, prop |-> <<>>]

RaiseLastId(t, g, lastid) == [t EXCEPT !.groups[g].last_id = Max({@, lastid})]

\* last_id moved and nothing was claimed: it is propagated on its own.
WithLastId(t, u, g, res) ==
  IF res.prop = <<>> /\ u # t
    THEN [t |-> u, prop |-> <<streamPropagateGroupID(g, u.groups[g])>>] ELSE res

xclaimCommand(t, g, name, id, o) ==
  LET u == RaiseLastId(t, g, o.lastid) IN WithLastId(t, u, g, ClaimOne(u, g, name, id, o))

\* The options of the XCLAIM that streamPropagateXCLAIM writes.
Forced(c) == [force |-> TRUE, minidle |-> 0, time |-> c.time, retrycount |-> c.count,
              justid |-> TRUE, lastid |-> c.lastid]

\* A command of the master on the replica; NOGROUP errors leave the stream alone.
Replayed(t, c) ==
  CASE c.op = "xadd" -> [t EXCEPT !.items = @ \cup {c.id}, !.last_id = c.id]
    [] c.op = "xdel" -> [t EXCEPT !.items = @ \ {c.id}]
    [] c.op = "del"  -> Empty
    [] c.op = "create" -> IF c.group \in DOMAIN t.groups THEN t
                          ELSE [t EXCEPT !.groups = Put(t.groups, c.group, streamCreateCG(c.id))]
    [] c.op = "destroy" -> [t EXCEPT !.groups = Drop(t.groups, c.group)]
    [] c.group \notin DOMAIN t.groups -> t
    [] c.op = "setid" -> [t EXCEPT !.groups[c.group].last_id = c.id]
    [] c.op = "createconsumer" -> [t EXCEPT !.groups[c.group] = streamLookupConsumer(t.groups[c.group], c.consumer)]
    [] c.op = "delconsumer" -> [t EXCEPT !.groups[c.group] = streamDelConsumer(t.groups[c.group], c.consumer)]
    [] c.op = "xack" -> [t EXCEPT !.groups[c.group] = Acked(t.groups[c.group], c.id)]
    [] c.op = "xclaim" -> xclaimCommand(t, c.group, c.consumer, c.id, Forced(c)).t

-----------------------------------------------------------------------------
(* Reading as a group.                                                     *)

FirstOf(ids, count) ==
  SubSeq(SetToSortSeq(ids, <), 1, IF count = 0 THEN Cardinality(ids) ELSE Min({count, Cardinality(ids)}))

\* Created by this command, and with NOACK, a consumer is propagated on its own.
Creation(cg, g, name, noack) ==
  IF noack /\ name \notin DOMAIN cg.consumers
    THEN <<streamPropagateConsumerCreation(g, name)>> ELSE <<>>

\* One entry given to the consumer: the group moves on, and the entry becomes pending.
Given(res, g, name, id) ==
  LET one == Claimed(res.t, g, id, Assign([res.t.groups[g] EXCEPT !.last_id = Max({@, id})], id,
                                          streamCreateNACK(name, now, 1)))
  IN [t |-> one.t, prop |-> res.prop \o one.prop]

\* With NOACK the group has become cg, which only moves on.
Passed(t, g, cg, made) ==
  [t |-> [t EXCEPT !.groups[g] = cg],
   prop |-> made \o IF cg.last_id = t.groups[g].last_id THEN <<>> ELSE <<streamPropagateGroupID(g, cg)>>]

\* New entries for a consumer of the group.
streamReplyWithRange(t, g, name, count, noack) ==
  LET cg == t.groups[g]
      ids == FirstOf({i \in t.items : i > cg.last_id}, count)
      with == streamLookupConsumer(cg, name)
  IN IF noack THEN Passed(t, g, [with EXCEPT !.last_id = Max({@} \cup ToSet(ids))],
                          Creation(cg, g, name, noack))
     ELSE FoldLeft(LAMBDA res, id : Given(res, g, name, id),
                   [t |-> [t EXCEPT !.groups[g] = with], prop |-> <<>>], ids)

\* The consumer's own pending entries after an ID; nothing of it is propagated.
streamReplyWithRangeFromConsumerPEL(t, g, name, after, count, noack) ==
  LET cg == streamLookupConsumer(t.groups[g], name)
      ids == ToSet(FirstOf({i \in cg.consumers[name] : i > after}, count)) \cap t.items
      read == [cg EXCEPT !.pel = [i \in DOMAIN cg.pel |->
                IF i \in ids THEN [cg.pel[i] EXCEPT !.time = now, !.count = @ + 1] ELSE cg.pel[i]]]
  IN [t |-> [t EXCEPT !.groups[g] = read], prop |-> Creation(t.groups[g], g, name, noack)]

NewFor(t, g) == \E i \in t.items : i > t.groups[g].last_id

-----------------------------------------------------------------------------
(* The blocked clients.  w: t, prop, waiting.                              *)

ServeOne(w, c) ==
  IF c.group \notin DOMAIN w.t.groups THEN w
  ELSE IF w.t.last_id <= w.t.groups[c.group].last_id THEN [w EXCEPT !.waiting = Append(@, c)]
  ELSE LET res == streamReplyWithRange(w.t, c.group, c.consumer, c.count, c.noack)
       IN [w EXCEPT !.t = res.t, !.prop = @ \o res.prop]

serveClientsBlockedOnStreamKey(w) == FoldLeft(ServeOne, [w EXCEPT !.waiting = <<>>], w.waiting)

\* What a command leaves, with what it propagates done on the replica ...
Leave(w) ==
  /\ \A g \in DOMAIN w.t.groups : \A i \in DOMAIN w.t.groups[g].pel :
       w.t.groups[g].pel[i].count <= MaxCount
  /\ st' = w.t /\ waiting' = w.waiting
  /\ rep' = FoldLeft(Replayed, rep, w.prop)
  /\ UNCHANGED now

Become(res) == Leave([t |-> res.t, prop |-> res.prop, waiting |-> waiting])

\* ... and, when it signals the key, with the blocked clients served.
BecomeReady(res) ==
  Leave(serveClientsBlockedOnStreamKey([t |-> res.t, prop |-> res.prop, waiting |-> waiting]))

-----------------------------------------------------------------------------
(* The commands.                                                           *)

\* A write the replica repeats word by word.
Verbatim(c) == [t |-> Replayed(st, c), prop |-> <<c>>]

Xadd ==
  /\ "xadd" \in Ops /\ st.last_id < MaxId
  /\ BecomeReady(Verbatim([op |-> "xadd", id |-> st.last_id + 1])) /\ UNCHANGED back

Xdel ==
  /\ "xdel" \in Ops
  /\ \E id \in st.items : Become(Verbatim([op |-> "xdel", id |-> id]))
  /\ UNCHANGED back

\* DEL wakes nobody.
Del ==
  /\ "del" \in Ops /\ st # Empty
  /\ Become(Verbatim([op |-> "del"])) /\ back' = {}

\* From the beginning, or with $ from the last entry; BUSYGROUP when it exists.
XgroupCreate ==
  /\ "group" \in Ops
  /\ \E g \in Group \ DOMAIN st.groups, id \in {0, st.last_id} :
       Become(Verbatim([op |-> "create", group |-> g, id |-> id]))
  /\ UNCHANGED back

XgroupSetid ==
  /\ "setid" \in Ops
  /\ \E g \in DOMAIN st.groups, id \in {0, st.last_id} :
       /\ Become(Verbatim([op |-> "setid", group |-> g, id |-> id]))
       /\ back' = IF id < st.groups[g].last_id THEN back \cup {g} ELSE back

XgroupDestroy ==
  /\ "group" \in Ops
  /\ \E g \in DOMAIN st.groups :
       BecomeReady(Verbatim([op |-> "destroy", group |-> g])) /\ back' = back \ {g}

XgroupConsumer ==
  /\ "consumer" \in Ops
  /\ \E g \in DOMAIN st.groups, n \in Consumer, op \in {"createconsumer", "delconsumer"} :
       LET c == [op |-> op, group |-> g, consumer |-> n]
       IN Become(IF op = "createconsumer" /\ n \in DOMAIN st.groups[g].consumers
                   THEN [t |-> st, prop |-> <<>>] ELSE Verbatim(c))
  /\ UNCHANGED back

\* Only an ID that is pending is acknowledged.
Xack ==
  /\ "xack" \in Ops
  /\ \E g \in DOMAIN st.groups : \E id \in DOMAIN st.groups[g].pel :
       Become(Verbatim([op |-> "xack", group |-> g, id |-> id]))
  /\ UNCHANGED back

\* With ">" new entries, and otherwise the consumer's history.
Xreadgroup ==
  /\ "read" \in Ops
  /\ \E g \in DOMAIN st.groups, n \in Consumer, count \in {0, 1}, noack \in {TRUE, FALSE} :
       \/ NewFor(st, g) /\ Become(streamReplyWithRange(st, g, n, count, noack))
       \/ Become(streamReplyWithRangeFromConsumerPEL(st, g, n, 0, count, noack))
  /\ UNCHANGED back

\* XREADGROUP BLOCK with ">" and nothing new.
Block ==
  /\ "block" \in Ops
  /\ \E c \in Client, g \in DOMAIN st.groups, n \in Consumer, noack \in {TRUE, FALSE} :
       /\ \A i \in DOMAIN waiting : waiting[i].client # c
       /\ ~NewFor(st, g)
       /\ waiting' = Append(waiting, [client |-> c, group |-> g, consumer |-> n, noack |-> noack, count |-> 1])
  /\ UNCHANGED <<st, rep, now, back>>

\* BLOCK times out, or the client goes away.
Unblock ==
  /\ \E i \in DOMAIN waiting : waiting' = RemoveAt(waiting, i)
  /\ UNCHANGED <<st, rep, now, back>>

Xclaim ==
  /\ "xclaim" \in Ops
  /\ \E g \in DOMAIN st.groups, n \in Consumer, id \in 1..st.last_id, minidle \in {0, 1},
        force, justid \in {TRUE, FALSE}, lastid \in {0, st.last_id} :
       Become(xclaimCommand(st, g, n, id,
                [force |-> force, minidle |-> minidle, time |-> now, retrycount |-> -1,
                 justid |-> justid, lastid |-> lastid]))
  /\ UNCHANGED back

\* XAUTOCLAIM after one more ID: res is t, prop, claimed, cursor, and one what claiming it made.
Looked(res, id, one) ==
  [t |-> one.t, prop |-> res.prop \o one.prop, cursor |-> id,
   claimed |-> IF one.prop = <<>> THEN res.claimed ELSE Append(res.claimed, id)]

\* XAUTOCLAIM on the IDs of seq, in order.
RECURSIVE AutoClaim(_, _, _, _, _, _, _)
AutoClaim(res, seq, attempts, count, g, n, minidle) ==
  IF attempts = 0 \/ Len(res.claimed) = count THEN res
  ELSE IF seq = <<>> THEN [res EXCEPT !.cursor = 0]
  ELSE AutoClaim(Looked(res, Head(seq), ClaimOne(res.t, g, n, Head(seq),
                   [force |-> FALSE, minidle |-> minidle, time |-> now, retrycount |-> -1, justid |-> FALSE])),
                 Tail(seq), attempts - 1, count, g, n, minidle)

xautoclaimCommand(t, g, n, minidle, start, count) ==
  AutoClaim([t |-> t, prop |-> <<>>, claimed |-> <<>>, cursor |-> 0],
            FirstOf({i \in DOMAIN t.groups[g].pel : i >= start}, 0),
            Attempts * count, count, g, n, minidle)

Xautoclaim ==
  /\ "xautoclaim" \in Ops
  /\ \E g \in DOMAIN st.groups, n \in Consumer, minidle \in {0, 1} :
       Become(xautoclaimCommand(st, g, n, minidle, 0, 1))
  /\ UNCHANGED back

\* COPY: the pending entries are created without an owner, which the consumers' lists give.
streamDup(t) ==
  [t EXCEPT !.groups = [g \in DOMAIN t.groups |->
     LET cg == t.groups[g]
         Owner(i) == CHOOSE c \in DOMAIN cg.consumers : i \in cg.consumers[c]
     IN [cg EXCEPT !.pel = [i \in DOMAIN cg.pel |-> [cg.pel[i] EXCEPT !.consumer = Owner(i)]]]]]

\* COPY, and the copy takes the place of the stream.
Copy ==
  /\ "copy" \in Ops
  /\ st' = streamDup(st) /\ rep' = streamDup(rep) /\ UNCHANGED <<waiting, now, back>>

Tick == now < MaxTime /\ now' = now + 1 /\ UNCHANGED <<st, rep, waiting, back>>

Next == \/ Xadd \/ Xdel \/ Del \/ XgroupCreate \/ XgroupSetid \/ XgroupDestroy \/ XgroupConsumer
        \/ Xack \/ Xreadgroup \/ Block \/ Unblock \/ Xclaim \/ Xautoclaim \/ Copy \/ Tick

Spec == Init /\ [][Next]_groupVars

-----------------------------------------------------------------------------
(* AOF rewriting and XPENDING.                                             *)

rioWriteStreamPendingEntry(g, name, id, nack) ==
  [op |-> "xclaim", group |-> g, consumer |-> name, id |-> id, time |-> nack.time,
   count |-> nack.count, lastid |-> 0]

ConsumerCommands(g, cg, name) ==
  IF cg.consumers[name] = {} THEN <<[op |-> "createconsumer", group |-> g, consumer |-> name]>>
  ELSE [i \in 1..Cardinality(cg.consumers[name]) |->
          LET id == FirstOf(cg.consumers[name], 0)[i] IN rioWriteStreamPendingEntry(g, name, id, cg.pel[id])]

\* The groups part of rewriteStreamObject.
rewriteStreamObject(t) ==
  FlattenSeq([k \in 1..Cardinality(DOMAIN t.groups) |->
    LET g == SetToSeq(DOMAIN t.groups)[k]  cg == t.groups[g]
        names == SetToSeq(DOMAIN cg.consumers)
    IN <<[op |-> "create", group |-> g, id |-> cg.last_id]>>
         \o FlattenSeq([j \in DOMAIN names |-> ConsumerCommands(g, cg, names[j])])])

Reloaded(t) == FoldLeft(Replayed, [t EXCEPT !.groups = <<>>], rewriteStreamObject(t))

\* XPENDING <key> <group>: the number of pending entries, the least and the greatest ID,
\* and the number for every consumer that has some.
xpendingCommand(cg) ==
  LET some == {c \in DOMAIN cg.consumers : cg.consumers[c] # {}}
  IN [total |-> Cardinality(DOMAIN cg.pel), per |-> [c \in some |-> Cardinality(cg.consumers[c])]]

-----------------------------------------------------------------------------
(* Properties.                                                             *)

\* The pending entries of the consumers are those of the group, each in the list of the
\* one consumer its NACK names; XPENDING's counts add up (t_stream.c, where every change
\* touches both radix trees).
PelsAgree(t) ==
  \A g \in DOMAIN t.groups :
    LET cg == t.groups[g]  x == xpendingCommand(cg)
    IN /\ \A c \in DOMAIN cg.consumers :
            cg.consumers[c] = {i \in DOMAIN cg.pel : cg.pel[i].consumer = c}
       /\ \A i \in DOMAIN cg.pel : cg.pel[i].consumer \in DOMAIN cg.consumers
       /\ x.total = MapThenSumSet(LAMBDA c : x.per[c], DOMAIN x.per)

\* On the master and on the replica.
PendingListsAgree == PelsAgree(st) /\ PelsAgree(rep)

\* The replica has the same groups at the same last_id, with the same pending entries
\* owned by the same consumers: after a failover no message is given twice or lost.  (What
\* XREADGROUP of the history counts, and a consumer it creates, is not propagated.)
ReplicaAgrees ==
  /\ rep.items = st.items /\ rep.last_id = st.last_id
  /\ DOMAIN rep.groups = DOMAIN st.groups
  /\ \A g \in DOMAIN st.groups :
       LET m == st.groups[g]  r == rep.groups[g]
       IN /\ r.last_id = m.last_id /\ DOMAIN r.pel = DOMAIN m.pel
          /\ DOMAIN r.consumers \subseteq DOMAIN m.consumers
          /\ \A i \in DOMAIN m.pel : /\ r.pel[i].consumer = m.pel[i].consumer
                                     /\ r.pel[i].count <= m.pel[i].count /\ r.pel[i].time <= m.pel[i].time

\* No client stays blocked in XREADGROUP while its group has entries nobody was given, or
\* after its group was destroyed (serveClientsBlockedOnStreamKey); XGROUP SETID with an
\* older ID, and DEL, wake nobody.
NoneLeftWaiting ==
  \A i \in DOMAIN waiting :
    LET g == waiting[i].group
    IN /\ g \in DOMAIN st.groups => (NewFor(st, g) => g \in back)
       /\ "del" \notin Ops => g \in DOMAIN st.groups

\* A scan with XAUTOCLAIM, each call starting after the cursor of the one before, claims
\* every pending entry exactly once (tests/unit/type/stream-cgroups.tcl:421).
RECURSIVE Scan(_, _, _, _)
Scan(t, g, n, start) ==
  LET res == xautoclaimCommand(t, g, n, 0, start, 1)
  IN res.claimed \o IF res.cursor = 0 THEN <<>> ELSE Scan(res.t, g, n, res.cursor + 1)

ScanClaimsAll ==
  \A g \in DOMAIN st.groups, n \in Consumer :
    Scan(st, g, n, 0) = FirstOf(DOMAIN st.groups[g].pel, 0)

\* After an AOF rewrite and a reload every group has its last_id, its consumers and its
\* pending entries with their owners, times and counts, but for those of messages deleted.
ReloadKeepsGroups ==
  LET u == Reloaded(st)
  IN /\ DOMAIN u.groups = DOMAIN st.groups
     /\ \A g \in DOMAIN st.groups :
          LET a == st.groups[g]  b == u.groups[g]
          IN /\ b.last_id = a.last_id
             /\ b.pel = Restrict(a.pel, DOMAIN a.pel \cap st.items)
             /\ \A c \in DOMAIN a.consumers :
                  (a.consumers[c] = {} \/ a.consumers[c] \cap st.items # {}) => c \in DOMAIN b.consumers

\* "Emit the commands needed to rebuild a stream object" (aof.c:1270).
ReloadKeepsAll == Reloaded(st) = st
=============================================================================
