------------------------------- MODULE Psync -------------------------------
(***************************************************************************)
(* Redis replication: who may continue whose stream (replication.c: the    *)
(* backlog, replication ids and offsets, PSYNC on both sides, the cached   *)
(* master, REPLICAOF; what an RDB file keeps of it and what a restart      *)
(* takes from it).                                                         *)
(*                                                                         *)
(* Every server may be a master, a replica, or both (a chain).  A byte of  *)
(* the stream is a whole command: a write, a SELECT or a PING.  The data   *)
(* of a server is the sequence of the writes it applied.  How an RDB file  *)
(* reaches the replica is in FullSync and ReplicaSync; here it is one      *)
(* step.                                                                   *)
(***************************************************************************)
EXTENDS Naturals, Sequences, FiniteSets

CONSTANTS Server, DB,
          Sizes,                     \* values of repl-backlog-size, in commands
          None,
          MaxWrites, MaxPings, MaxGens, MaxMoves, MaxBreaks, MaxRestarts, MaxSaves  \* bounds

VARIABLES sv,     \* Server -> its replication state and data
          link,   \* Server -> the connection to its master
          disk,   \* Server -> what its RDB file holds
          used    \* how much of each bound is used

psyncVars == <<sv, link, disk, used>>


NoLink == [to |-> None, phase |-> "none", id |-> None, off |-> 0, queue |-> <<>>,
           data |-> <<>>, db |-> 0, open |-> FALSE]

\* server.replid is random: the server that drew it and a number stand for it.
NewId(s, x) == <<s, x.gen + 1>>

\* initServerConfig: a fresh id, no second one, no backlog.
Started(s, host, gen, data) ==
  [host |-> host, state |-> IF host = None THEN "none" ELSE "connect",
   id |-> <<s, gen>>, gen |-> gen, id2 |-> None, off2 |-> 0, off |-> 0, seldb |-> None,
   back |-> None, data |-> data, master |-> None, cached |-> None]

-----------------------------------------------------------------------------
(* The backlog: a circular buffer.                                         *)

createReplicationBacklog(x, size) ==
  [x EXCEPT !.back = [buf |-> [i \in 0..(size - 1) |-> None], size |-> size, idx |-> 0,
                      hist |-> 0, off |-> x.off + 1]]

\* Some servers R are synchronized replicas of m, with no data yet; the others are masters.
Init ==
  \E m \in Server, size \in Sizes : \E R \in SUBSET (Server \ {m}) :
    LET x == Started(m, None, 1, <<>>) IN
    /\ sv = [s \in Server |->
               IF s \in R THEN createReplicationBacklog(
                                 [Started(s, m, 0, <<>>) EXCEPT !.state = "connected", !.id = x.id,
                                    !.master = [id |-> x.id, off |-> 0, db |-> 0]], size)
               ELSE IF s = m /\ R # {} THEN createReplicationBacklog(x, size)
               ELSE Started(s, None, 0, <<>>)]
    /\ link = [s \in Server |-> IF s \in R THEN [NoLink EXCEPT !.to = m, !.phase = "online",
                                                  !.open = TRUE] ELSE NoLink]
    /\ disk = [s \in Server |-> [data |-> <<>>, id |-> None, off |-> 0, db |-> 0]]
    /\ used = [writes |-> 0, pings |-> 0, moves |-> 0, breaks |-> 0, restarts |-> 0, saves |-> 0]

\* feedReplicationBacklog, of one byte.
feedReplicationBacklog(x, byte) ==
  LET b == x.back
      h == IF b.hist + 1 > b.size THEN b.size ELSE b.hist + 1
  IN [x EXCEPT !.off = @ + 1,
               !.back = [b EXCEPT !.buf[b.idx] = byte,
                                  !.idx = IF b.idx + 1 = b.size THEN 0 ELSE b.idx + 1,
                                  !.hist = h,
                                  !.off = x.off + 1 - h + 1]]

\* What +CONTINUE is followed by.
addReplyReplicationBacklog(b, off) ==
  LET skip  == off - b.off
      first == (b.idx + (b.size - b.hist)) % b.size
  IN IF b.hist = 0 THEN <<>>
     ELSE [i \in 1..(b.hist - skip) |-> b.buf[(first + skip + i - 1) % b.size]]

\* changeReplicationId, with clearReplicationId2
NewHistory(s, x) == [x EXCEPT !.id = NewId(s, x), !.gen = @ + 1, !.id2 = None, !.off2 = 0]

shiftReplicationId(s, x) ==
  [x EXCEPT !.id2 = x.id, !.off2 = x.off + 1, !.id = NewId(s, x), !.gen = @ + 1]

-----------------------------------------------------------------------------
(* Connections.  The replica side of a closed one still reads what was     *)
(* sent before.                                                            *)

Slaves(s) == {r \in Server : /\ link[r].to = s /\ link[r].open
                             /\ link[r].phase \in {"wait", "full", "online"}}

\* canFeedReplicaReplBuffer: not while the RDB was not started.
Fed(l, r, s, bytes) ==
  IF l[r].to = s /\ l[r].open /\ l[r].phase \in {"full", "online"}
    THEN [l[r] EXCEPT !.queue = @ \o bytes] ELSE l[r]

disconnectSlaves(l, s) ==
  [r \in Server |-> IF l[r].to = s /\ l[r].open THEN [l[r] EXCEPT !.open = FALSE] ELSE l[r]]

\* replicationFeedSlavesFromMasterStream, and the body of replicationFeedSlaves.
FeedAll(s, x, bytes) ==
  LET RECURSIVE feed(_, _)
      feed(y, bs) == IF bs = <<>> THEN y ELSE feed(feedReplicationBacklog(y, Head(bs)), Tail(bs))
  IN IF x.back = None THEN x ELSE feed(x, bytes)

\* A master writes into db: SELECT goes before it when the stream is in another one.
replicationFeedSlaves(s, x, db, cmd) ==
  IF x.host # None \/ x.back = None THEN [sv |-> x, bytes |-> <<>>]
  ELSE LET bytes == IF x.seldb = db THEN <<cmd>> ELSE <<[op |-> "sel", db |-> db], cmd>>
       IN [sv |-> [FeedAll(s, x, bytes) EXCEPT !.seldb = db], bytes |-> bytes]

Write(s, db) ==
  /\ sv[s].host = None /\ used.writes < MaxWrites
  /\ LET n == used.writes + 1
         x == [sv[s] EXCEPT !.data = Append(@, <<db, n>>)]
         f == replicationFeedSlaves(s, x, db, [op |-> "w", n |-> n])
     IN /\ sv' = [sv EXCEPT ![s] = f.sv]
        /\ link' = [r \in Server |-> Fed(link, r, s, f.bytes)]
        /\ used' = [used EXCEPT !.writes = n]
  /\ UNCHANGED disk

\* replicationCron pings the replicas in the stream itself, in the current db.
Ping(s) ==
  /\ used.pings < MaxPings /\ sv[s].host = None /\ sv[s].back # None /\ Slaves(s) # {}
  /\ LET f == replicationFeedSlaves(s, sv[s], sv[s].seldb, [op |-> "ping"]) IN
     /\ sv' = [sv EXCEPT ![s] = f.sv]
     /\ link' = [r \in Server |-> Fed(link, r, s, f.bytes)]
     /\ used' = [used EXCEPT !.pings = @ + 1]
  /\ UNCHANGED disk

-----------------------------------------------------------------------------
(* The replica asks, the master answers.                                   *)

\* slaveTryPartialResynchronization, the writing half.
SendPsync(r) ==
  /\ sv[r].state = "connect" /\ link[r].to = None
  /\ LET c == sv[r].cached IN
     link' = [link EXCEPT ![r] = [NoLink EXCEPT !.to = sv[r].host, !.phase = "asked",
                                   !.open = TRUE,
                                   !.id = IF c = None THEN None ELSE c.id,
                                   !.off = IF c = None THEN 0 ELSE c.off + 1]]
  /\ sv' = [sv EXCEPT ![r].state = "handshake"]
  /\ UNCHANGED <<disk, used>>

\* Mutant: the second id is good for every offset.
ContinuesAnySecond(x, id, off) ==
  /\ id # None /\ id \in {x.id, x.id2}
  /\ x.back # None /\ off >= x.back.off /\ off <= x.back.off + x.back.hist

\* masterTryPartialResynchronization
masterTryPartialResynchronization(x, id, off) ==
  /\ id # None /\ (id = x.id \/ (id = x.id2 /\ off <= x.off2))
  /\ x.back # None /\ off >= x.back.off /\ off <= x.back.off + x.back.hist

\* syncCommand: an error, +CONTINUE with the rest of the backlog, or a wait for an RDB, with a
\* new history if there was no backlog.
syncCommand(r) ==
  LET l == link[r]
      s == l.to
      x == sv[s]
      slaves == Slaves(s)
  IN
  /\ l.phase = "asked" /\ l.open
  /\ IF x.host # None /\ x.state # "connected"
       THEN /\ link' = [link EXCEPT ![r].phase = "error"] /\ UNCHANGED sv
     ELSE IF masterTryPartialResynchronization(x, l.id, l.off)
       THEN /\ link' = [link EXCEPT ![r].phase = "online", ![r].id = x.id,
                                    ![r].queue = addReplyReplicationBacklog(x.back, l.off)]
            /\ UNCHANGED sv
     ELSE \E size \in Sizes :
            /\ x.back # None => size = x.back.size
            /\ link' = [link EXCEPT ![r].phase = "wait"]
            /\ IF slaves = {} /\ x.back = None
                 THEN x.gen < MaxGens
                      /\ sv' = [sv EXCEPT ![s] = createReplicationBacklog(NewHistory(s, x), size)]
                 ELSE UNCHANGED sv
  /\ UNCHANGED <<disk, used>>

\* rdbPopulateSaveInfo: the db in which the stream goes on, if the server has a stream.
SaveInfo(x) ==
  IF x.host = None /\ x.back # None THEN <<IF x.seldb = None THEN 0 ELSE x.seldb>>
  ELSE IF x.master # None THEN <<x.master.db>>
  ELSE IF x.cached # None THEN <<x.cached.db>>
  ELSE <<>>


\* replicationSetupSlaveForFullResync, with the contents of the RDB file that is now begun.
replicationSetupSlaveForFullResync(s, r, l) ==
  [l[r] EXCEPT !.phase = "full", !.id = sv[s].id, !.off = sv[s].off, !.data = sv[s].data,
               !.db = SaveInfo(sv[s])[1]]

\* startBgsaveForReplication, for all who wait; they are dropped when there is nothing to save.
startBgsaveForReplication(s) ==
  LET waiting == {r \in Slaves(s) : link[r].phase = "wait"} IN
  /\ waiting # {}
  /\ IF SaveInfo(sv[s]) = <<>>
       THEN /\ link' = [r \in Server |-> IF r \in waiting THEN [link[r] EXCEPT !.open = FALSE]
                                         ELSE link[r]]
            /\ UNCHANGED sv
       ELSE /\ link' = [r \in Server |-> IF r \in waiting
                          THEN replicationSetupSlaveForFullResync(s, r, link) ELSE link[r]]
            /\ sv' = [sv EXCEPT ![s].seldb = None]
  /\ UNCHANGED <<disk, used>>

\* +CONTINUE with an id that is new to the replica: its old one becomes the second.
AdoptId(x, id) ==
  IF id = x.cached.id THEN x
  ELSE [x EXCEPT !.id2 = x.cached.id, !.off2 = x.off + 1, !.id = id, !.cached.id = id]

\* replicationResurrectCachedMaster
Resurrect(x) == [x EXCEPT !.master = x.cached, !.cached = None, !.state = "connected"]

\* slaveTryPartialResynchronization, the reading half, in syncWithMaster.
ReadReply(r) ==
  LET l == link[r]
      x == sv[r]
  IN
  /\ x.state = "handshake"
  /\ \/ /\ l.phase = "online"
        /\ \E size \in Sizes :
             LET y == Resurrect(AdoptId(x, l.id))
                 z == IF y.back = None THEN createReplicationBacklog(y, size) ELSE y
             IN /\ x.back # None => size = x.back.size
                /\ sv' = [sv EXCEPT ![r] = z]
        /\ link' = IF l.id = x.cached.id THEN link ELSE disconnectSlaves(link, r)
     \/ /\ l.phase = "full"
        /\ sv' = [sv EXCEPT ![r].state = "transfer", ![r].cached = None, ![r].back = None]
        /\ link' = disconnectSlaves(link, r)
     \/ /\ l.phase = "error" \/ (~l.open /\ l.phase \in {"asked", "wait"})
        /\ sv' = [sv EXCEPT ![r].state = "connect"]
        /\ link' = [link EXCEPT ![r] = NoLink]
  /\ UNCHANGED <<disk, used>>

\* readSyncBulkPayload, when the file is complete: the id, the offset and the data of the master.
LoadRdb(r) ==
  LET l == link[r] IN
  /\ sv[r].state = "transfer" /\ l.phase = "full"
  /\ \E size \in Sizes :
       LET x == [sv[r] EXCEPT !.data = l.data, !.id = l.id, !.off = l.off, !.id2 = None,
                              !.off2 = 0, !.state = "connected",
                              !.master = [id |-> l.id, off |-> l.off, db |-> l.db]]
       IN sv' = [sv EXCEPT ![r] = createReplicationBacklog(x, size)]
  /\ link' = [link EXCEPT ![r].phase = "online"]
  /\ UNCHANGED <<disk, used>>

\* The transfer or the load fails: the old data is gone, or was put back (swapdb).
TransferFails(r) ==
  /\ sv[r].state = "transfer" /\ used.breaks < MaxBreaks
  /\ \E d \in {<<>>, sv[r].data} :
       sv' = [sv EXCEPT ![r].state = "connect", ![r].data = d]
  /\ link' = [link EXCEPT ![r] = NoLink]
  /\ used' = [used EXCEPT !.breaks = @ + 1]
  /\ UNCHANGED disk

\* The replica executes the next command of the stream and passes it on (commandProcessed).
Apply(r) ==
  LET l == link[r]
      b == Head(l.queue)
      x == sv[r]
      y == [x EXCEPT !.master.off = @ + 1,
                     !.master.db = IF b.op = "sel" THEN b.db ELSE @,
                     !.data = IF b.op = "w" THEN Append(@, <<x.master.db, b.n>>) ELSE @]
  IN
  /\ x.state = "connected" /\ l.queue # <<>>
  /\ sv' = [sv EXCEPT ![r] = FeedAll(r, y, <<b>>)]
  /\ link' = [q \in Server |-> IF q = r THEN [l EXCEPT !.queue = Tail(@)]
                               ELSE Fed(link, q, r, <<b>>)]
  /\ UNCHANGED <<disk, used>>

-----------------------------------------------------------------------------
(* Connections end, roles change, servers restart.                         *)

\* replicationCacheMaster
CacheMaster(x) ==
  IF x.master = None THEN x ELSE [x EXCEPT !.cached = x.master, !.master = None]

\* The master frees the client: the replica will see it later.
MasterDrops(r) ==
  /\ link[r].open /\ used.breaks < MaxBreaks
  /\ link' = [link EXCEPT ![r].open = FALSE]
  /\ used' = [used EXCEPT !.breaks = @ + 1]
  /\ UNCHANGED <<sv, disk>>

\* The replica finds that its connection was closed, with or without the bytes sent before.
LinkBreaks(r) ==
  /\ sv[r].state \in {"handshake", "connected"} /\ link[r].to # None /\ ~link[r].open
  /\ sv' = [sv EXCEPT ![r] = [CacheMaster(sv[r]) EXCEPT !.state = "connect"]]
  /\ link' = [link EXCEPT ![r] = NoLink]
  /\ UNCHANGED <<disk, used>>

\* REPLICAOF host: a former master takes itself for its master so far.
replicationSetMaster(s, host) ==
  LET x == CacheMaster(sv[s])
      c == IF sv[s].host = None THEN [id |-> x.id, off |-> x.off, db |-> 0] ELSE x.cached
  IN
  /\ host # s /\ sv[s].host # host /\ used.moves < MaxMoves
  /\ sv' = [sv EXCEPT ![s] = [x EXCEPT !.host = host, !.cached = c, !.state = "connect"]]
  /\ link' = [disconnectSlaves(link, s) EXCEPT ![s] = NoLink]
  /\ used' = [used EXCEPT !.moves = @ + 1]
  /\ UNCHANGED disk

\* REPLICAOF NO ONE
replicationUnsetMaster(s) ==
  /\ sv[s].host # None /\ sv[s].gen < MaxGens
  /\ sv' = [sv EXCEPT ![s] = [shiftReplicationId(s, sv[s])
                                EXCEPT !.host = None, !.master = None, !.cached = None,
                                       !.state = "none", !.seldb = None]]
  /\ link' = [disconnectSlaves(link, s) EXCEPT ![s] = NoLink]
  /\ UNCHANGED <<disk, used>>

\* replicationCron: a master without replicas gives its backlog up after repl-backlog-ttl.
FreeBacklog(s) ==
  /\ Slaves(s) = {} /\ sv[s].host = None /\ sv[s].back # None /\ sv[s].gen < MaxGens
  /\ sv' = [sv EXCEPT ![s] = [NewHistory(s, sv[s]) EXCEPT !.back = None]]
  /\ UNCHANGED <<link, disk, used>>

\* CONFIG SET repl-backlog-size
resizeReplicationBacklog(s, size) ==
  /\ sv[s].back # None /\ sv[s].back.size # size
  /\ sv' = [sv EXCEPT ![s] = createReplicationBacklog(sv[s], size)]
  /\ UNCHANGED <<link, disk, used>>

\* rdbSave
SaveRdb(s) ==
  LET i == SaveInfo(sv[s]) IN
  /\ used.saves < MaxSaves
  /\ disk' = [disk EXCEPT ![s] = [data |-> sv[s].data, off |-> sv[s].off,
                                  id |-> IF i = <<>> THEN None ELSE sv[s].id,
                                  db |-> IF i = <<>> THEN 0 ELSE i[1]]]
  /\ used' = [used EXCEPT !.saves = @ + 1]
  /\ UNCHANGED <<sv, link>>

\* The server dies and starts again, with or without a replicaof in its configuration
\* (loadDataFromDisk).
Restart(s, host) ==
  LET d == disk[s]
      x == Started(s, host, sv[s].gen + 1, d.data)
      known == host # None /\ d.id # None
  IN
  /\ used.restarts < MaxRestarts /\ sv[s].gen < MaxGens /\ host # s
  /\ sv' = [sv EXCEPT ![s] =
              IF known THEN [x EXCEPT !.id = d.id, !.off = d.off,
                                      !.cached = [id |-> d.id, off |-> d.off, db |-> d.db]]
              ELSE x]
  /\ link' = [disconnectSlaves(link, s) EXCEPT ![s] = NoLink]
  /\ used' = [used EXCEPT !.restarts = @ + 1]
  /\ UNCHANGED disk

Next ==
  \/ \E s \in Server : \/ \E db \in DB : Write(s, db)
                       \/ Ping(s) \/ SendPsync(s) \/ syncCommand(s)
                       \/ startBgsaveForReplication(s) \/ ReadReply(s) \/ LoadRdb(s)
                       \/ TransferFails(s) \/ Apply(s) \/ MasterDrops(s) \/ LinkBreaks(s)
                       \/ \E h \in Server : replicationSetMaster(s, h)
                       \/ replicationUnsetMaster(s) \/ FreeBacklog(s) \/ SaveRdb(s)
                       \/ \E size \in Sizes : resizeReplicationBacklog(s, size)
                       \/ \E h \in Server \cup {None} : Restart(s, h)

Spec == Init /\ [][Next]_psyncVars

-----------------------------------------------------------------------------
\* What a replica will hold when it has executed what is on its way.
RECURSIVE Drained(_, _, _)
Drained(data, db, q) ==
  IF q = <<>> THEN data
  ELSE LET b == Head(q) IN
       Drained(IF b.op = "w" THEN Append(data, <<db, b.n>>) ELSE data,
               IF b.op = "sel" THEN b.db ELSE db, Tail(q))

\* No silent divergence: a replica whose connection stands, after a full or a partial
\* resynchronization, through promotions, demotions, restarts from old RDB files, resized and
\* freed backlogs and chains, ends up with exactly the data of its master, in the same dbs.
ReplicaEqualsMaster ==
  \A r \in Server :
    sv[r].state = "connected" /\ link[r].open =>
      Drained(sv[r].data, sv[r].master.db, link[r].queue) = sv[link[r].to].data

\* "the replication ID and offset": two servers whose backlogs carry the same replication id
\* have the same command at every offset that both still hold.
ByteAt(b, off) == b.buf[(b.idx + (b.size - b.hist) + (off - b.off)) % b.size]
SameIdSameStream ==
  \A s, t \in Server :
    LET b == sv[s].back
        c == sv[t].back
    IN sv[s].id = sv[t].id /\ b # None /\ c # None =>
         \A o \in b.off..(b.off + b.hist - 1) :
           o \in c.off..(c.off + c.hist - 1) => ByteAt(b, o) = ByteAt(c, o)
=============================================================================
