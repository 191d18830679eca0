------------------------------ MODULE Keyspace ------------------------------
(***************************************************************************)
(* The key space of a master and of one replica (src/redis-6.2.0/src/db.c, *)
(* expire.c, lazyfree.c, the SET of t_string.c): the dictionaries of keys  *)
(* and of expires, the generic commands that move keys about, the three    *)
(* ways a key expires (when it is looked up, in the active cycle of a      *)
(* master, and for the keys local clients gave an expire on a writable     *)
(* replica), the slot index of a cluster node, and the commands the master *)
(* sends to its replica.  A relative expire travels as it was given, so    *)
(* the replica dates it with its own clock and its own delay.              *)
(***************************************************************************)
EXTENDS Integers, Sequences, FiniteSets, FiniteSetsExt, SequencesExt

CONSTANTS
  Key, DB,          \* key names; database numbers
  Slot,             \* [Key -> hash slot], keyHashSlot
  Bucket, Buckets,  \* [Key -> bucket] of an expires table of Buckets buckets
  Ttls,             \* relative expire times clients ask for
  Skews,            \* how far the replica's clock may be ahead of the master's
  Clusters,         \* the values of cluster_enabled to consider
  Ops, LocalOps,    \* the commands of clients of the master, of the replica
  KeysPerLoop,      \* ACTIVE_EXPIRE_CYCLE_KEYS_PER_LOOP
  BucketsPerKey,    \* buckets looked at for a key to sample, 20 in the code
  DbsPerCall,       \* CRON_DBS_PER_CALL
  AcceptableStale,  \* ACTIVE_EXPIRE_CYCLE_ACCEPTABLE_STALE
  None,
  MaxTime, MaxWrites, MaxLocal, MaxPauses, MaxReloads, MaxSparse, MaxRounds

VARIABLES
  now,      \* the master's clock
  skew, cluster,
  m, r,     \* the two servers
  link,     \* commands sent by the master and not yet applied by the replica
  synced,   \* the replica's link is up: it has not lost part of the stream
  paused,   \* CLIENT PAUSE WRITE is in force on the master
  touched,  \* key names local clients of the replica wrote, directly or not
  sparse,   \* databases of the master whose expires table is nearly empty
  beat,     \* flips whenever the cron of a server has run
  used

vars == <<now, skew, cluster, m, r, link, synced, paused, touched, sparse, beat, used>>

Never == 0 - 1

EmptyDb == [k \in Key |-> None]
NoExpires == [k \in Key |-> Never]

EmptyServer ==
  [dict |-> [d \in DB |-> EmptyDb], expires |-> [d \in DB |-> NoExpires],
   cursor |-> [d \in DB |-> 0], index |-> {}, count |-> [h \in {Slot[k] : k \in Key} |-> 0],
   slaveKeys |-> {}, mine |-> [d \in DB |-> [k \in Key |-> FALSE]],
   current |-> 0, timelimit |-> FALSE]

(***************************************************************************)
(* A command runs in a context: the time it sees, whether it may expire    *)
(* keys (a master that is not paused) and whether the client is a local    *)
(* one of a writable replica.  World is a server and what it propagated.   *)
(***************************************************************************)
AsMaster == [now |-> now, master |-> TRUE, paused |-> paused, local |-> FALSE]
AsLink == [now |-> now + skew, master |-> FALSE, paused |-> FALSE, local |-> FALSE]
AsLocal == [now |-> now + skew, master |-> FALSE, paused |-> FALSE, local |-> TRUE]

World(s) == [s |-> s, out |-> <<>>]

Command(op, d, k, d2, k2, v, t) ==
  [op |-> op, d |-> d, k |-> k, d2 |-> d2, k2 |-> k2, v |-> v, t |-> t]

Del(d, k) == Command("del", d, k, d, k, None, Never)

Propagate(w, c) == [w EXCEPT !.out = Append(w.out, c)]

Has(s, d, k) == s.dict[d][k] # None

\* db.c: the index of keys by slot follows the dictionary of database 0.
slotToKeyUpdateKey(s, k, add) ==
  IF ~cluster THEN s
  ELSE [s EXCEPT !.index = IF add THEN s.index \cup {k} ELSE s.index \ {k},
                 !.count[Slot[k]] = IF add THEN s.count[Slot[k]] + 1
                                           ELSE s.count[Slot[k]] - 1]

dbAdd(s, d, k, v) ==
  slotToKeyUpdateKey([s EXCEPT !.dict[d][k] = v], k, TRUE)

\* db.c: dbOverwrite leaves the expire of the key and the slot index alone.
dbOverwrite(s, d, k, v) == [s EXCEPT !.dict[d][k] = v]

dbDelete(s, d, k) ==
  IF Has(s, d, k)
  THEN slotToKeyUpdateKey([s EXCEPT !.dict[d][k] = None, !.expires[d][k] = Never,
                                !.mine[d][k] = FALSE], k, FALSE)
  ELSE s

\* mine only records that it was a local client who set this expire.
setExpire(s, ctx, d, k, when) ==
  [s EXCEPT !.expires[d][k] = when, !.mine[d][k] = ctx.local,
            !.slaveKeys = IF ctx.local THEN s.slaveKeys \cup {<<d, k>>} ELSE s.slaveKeys]

removeExpire(s, d, k) == [s EXCEPT !.expires[d][k] = Never, !.mine[d][k] = FALSE]

keyIsExpired(s, ctx, d, k) == s.expires[d][k] # Never /\ ctx.now > s.expires[d][k]

\* Deletes the key only on a master that is not paused; the DEL comes first.
expireIfNeeded(w, ctx, d, k) ==
  IF keyIsExpired(w.s, ctx, d, k) /\ ctx.master /\ ~ctx.paused
  THEN [Propagate(w, Del(d, k)) EXCEPT !.s = dbDelete(w.s, d, k)]
  ELSE w

\* lookupKeyWrite: the caller then finds the key or not in the world returned.
lookupKeyWrite(w, ctx, d, k) == expireIfNeeded(w, ctx, d, k)

genericSetKey(w, ctx, d, k, v, keepttl) ==
  LET e == lookupKeyWrite(w, ctx, d, k)
      s == IF Has(e.s, d, k) THEN dbOverwrite(e.s, d, k, v) ELSE dbAdd(e.s, d, k, v)
  IN [e EXCEPT !.s = IF keepttl THEN s ELSE removeExpire(s, d, k)]

setCommand(w, ctx, c) ==
  LET e == genericSetKey(w, ctx, c.d, c.k, c.v, c.op = "setkeep")
  IN Propagate([e EXCEPT !.s = IF c.t = Never THEN e.s
                               ELSE setExpire(e.s, ctx, c.d, c.k, ctx.now + c.t)], c)

delCommand(w, ctx, c) ==
  LET e == expireIfNeeded(w, ctx, c.d, c.k)
  IN IF Has(e.s, c.d, c.k) THEN Propagate([e EXCEPT !.s = dbDelete(e.s, c.d, c.k)], c) ELSE e

\* Mutant: an expire in the past reaches the replica as the EXPIRE it was.
ExpirePastAsGiven(w, ctx, c) ==
  LET e == lookupKeyWrite(w, ctx, c.d, c.k)
      when == ctx.now + c.t
  IN IF ~Has(e.s, c.d, c.k) THEN e
     ELSE IF when <= ctx.now /\ ctx.master
     THEN Propagate([e EXCEPT !.s = dbDelete(e.s, c.d, c.k)], c)
     ELSE Propagate([e EXCEPT !.s = setExpire(e.s, ctx, c.d, c.k, when)], c)

\* An expire that is already past is a DEL, but never on a replica.
expireCommand(w, ctx, c) ==
  LET e == lookupKeyWrite(w, ctx, c.d, c.k)
      when == ctx.now + c.t
  IN IF ~Has(e.s, c.d, c.k) THEN e
     ELSE IF when <= ctx.now /\ ctx.master
     THEN Propagate([e EXCEPT !.s = dbDelete(e.s, c.d, c.k)], Del(c.d, c.k))
     ELSE Propagate([e EXCEPT !.s = setExpire(e.s, ctx, c.d, c.k, when)], c)

persistCommand(w, ctx, c) ==
  LET e == lookupKeyWrite(w, ctx, c.d, c.k)
  IN IF Has(e.s, c.d, c.k) /\ e.s.expires[c.d][c.k] # Never
     THEN Propagate([e EXCEPT !.s = removeExpire(e.s, c.d, c.k)], c) ELSE e

\* Puts value v of expire time when at a key that is free.
AddWithExpire(s, ctx, d, k, v, when) ==
  LET a == dbAdd(s, d, k, v) IN IF when = Never THEN a ELSE setExpire(a, ctx, d, k, when)

renameCommand(w, ctx, c) ==
  LET e1 == lookupKeyWrite(w, ctx, c.d, c.k)
      e2 == lookupKeyWrite(e1, ctx, c.d, c.k2)
      s1 == dbDelete(e2.s, c.d, c.k2)
      s2 == AddWithExpire(s1, ctx, c.d, c.k2, e1.s.dict[c.d][c.k], e1.s.expires[c.d][c.k])
  IN IF ~Has(e1.s, c.d, c.k) \/ c.k = c.k2 THEN e1
     ELSE IF c.op = "renamenx" /\ Has(e2.s, c.d, c.k2) THEN e2
     ELSE Propagate([e2 EXCEPT !.s = dbDelete(s2, c.d, c.k)], c)

moveCommand(w, ctx, c) ==
  LET e1 == lookupKeyWrite(w, ctx, c.d, c.k)
      e2 == lookupKeyWrite(e1, ctx, c.d2, c.k)
      s1 == AddWithExpire(e2.s, ctx, c.d2, c.k, e1.s.dict[c.d][c.k], e1.s.expires[c.d][c.k])
  IN IF cluster \/ c.d = c.d2 THEN w
     ELSE IF ~Has(e1.s, c.d, c.k) THEN e1
     ELSE IF Has(e2.s, c.d2, c.k) THEN e2
     ELSE Propagate([e2 EXCEPT !.s = dbDelete(s1, c.d, c.k)], c)

copyCommand(w, ctx, c) ==
  LET e1 == lookupKeyWrite(w, ctx, c.d, c.k)
      e2 == lookupKeyWrite(e1, ctx, c.d2, c.k2)
      s1 == dbDelete(e2.s, c.d2, c.k2)
  IN IF (c.d = c.d2 /\ c.k = c.k2) \/ (cluster /\ c.d # c.d2) THEN w
     ELSE IF ~Has(e1.s, c.d, c.k) THEN e1
     ELSE IF c.op = "copy" /\ Has(e2.s, c.d2, c.k2) THEN e2
     ELSE Propagate([e2 EXCEPT !.s =
            AddWithExpire(s1, ctx, c.d2, c.k2, e1.s.dict[c.d][c.k], e1.s.expires[c.d][c.k])], c)

dbSwapDatabases(s, d, d2) ==
  [s EXCEPT !.dict = [s.dict EXCEPT ![d] = s.dict[d2], ![d2] = s.dict[d]],
            !.expires = [s.expires EXCEPT ![d] = s.expires[d2], ![d2] = s.expires[d]],
            !.mine = [s.mine EXCEPT ![d] = s.mine[d2], ![d2] = s.mine[d]],
            !.cursor = [s.cursor EXCEPT ![d] = s.cursor[d2], ![d2] = s.cursor[d]]]

\* all: the call for every database (dbnum -1) also forgets the tracked keys.
emptyDb(s, dbs, all) ==
  [s EXCEPT !.dict = [d \in DB |-> IF d \in dbs THEN EmptyDb ELSE s.dict[d]],
            !.expires = [d \in DB |-> IF d \in dbs THEN NoExpires ELSE s.expires[d]],
            !.mine = [d \in DB |-> IF d \in dbs THEN [k \in Key |-> FALSE] ELSE s.mine[d]],
            !.cursor = [d \in DB |-> IF d \in dbs THEN 0 ELSE s.cursor[d]],
            !.index = IF cluster THEN {} ELSE s.index,
            !.count = [h \in DOMAIN s.count |-> IF cluster THEN 0 ELSE s.count[h]],
            !.slaveKeys = IF all THEN {} ELSE s.slaveKeys]

\* FLUSHDB counts the keys removed as changes, FLUSHALL always one more.
flushCommand(w, ctx, c) ==
  IF c.op = "flushall" THEN Propagate([w EXCEPT !.s = emptyDb(w.s, DB, TRUE)], c)
  ELSE LET e == [w EXCEPT !.s = emptyDb(w.s, {c.d}, FALSE)]
       IN IF \E k \in Key : Has(w.s, c.d, k) THEN Propagate(e, c) ELSE e

\* backupDb, then the keys of the snapshot are added one by one, then the
\* backup is discarded; the tracked keys are not looked at.
LoadSnapshot(s) ==
  [s EXCEPT !.dict = m.dict, !.expires = m.expires,
            !.mine = [d \in DB |-> [k \in Key |-> FALSE]],
            !.index = m.index, !.count = m.count]

\* backupDb, part of the snapshot, emptyDb and restoreDbBackup.
RestoreBackup(s) ==
  [emptyDb(s, DB, TRUE) EXCEPT !.dict = s.dict, !.expires = s.expires, !.mine = s.mine,
                               !.cursor = s.cursor, !.index = s.index, !.count = s.count]

Execute(w, ctx, c) ==
  CASE c.op \in {"set", "setkeep"} -> setCommand(w, ctx, c)
    [] c.op = "del" -> delCommand(w, ctx, c)
    [] c.op = "expire" -> expireCommand(w, ctx, c)
    [] c.op = "persist" -> persistCommand(w, ctx, c)
    [] c.op \in {"rename", "renamenx"} -> renameCommand(w, ctx, c)
    [] c.op = "move" -> moveCommand(w, ctx, c)
    [] c.op \in {"copy", "copyreplace"} -> copyCommand(w, ctx, c)
    [] c.op = "swapdb" -> IF cluster THEN w
                          ELSE Propagate([w EXCEPT !.s = dbSwapDatabases(w.s, c.d, c.d2)], c)
    [] OTHER -> flushCommand(w, ctx, c)

(***************************************************************************)
(* The active expire cycle of a master.                                    *)
(***************************************************************************)
activeExpireCycleTryExpire(w, d, k, t) ==
  IF w.s.expires[d][k] # Never /\ t > w.s.expires[d][k]
  THEN [Propagate(w, Del(d, k)) EXCEPT !.s = dbDelete(w.s, d, k)] ELSE w

Volatile(s, d) == {k \in Key : s.expires[d][k] # Never}
InBucket(s, d, b) == {k \in Volatile(s, d) : Bucket[k] = b}

\* Tries the keys of one bucket and counts them.
ScanBucket(a, d, b, t) ==
  LET ks == SetToSeq(InBucket(a.w.s, d, b))
      e == FoldLeft(LAMBDA w, k : activeExpireCycleTryExpire(w, d, k, t), a.w, ks)
  IN [a EXCEPT !.w = e, !.sampled = a.sampled + Len(ks),
               !.expired = a.expired + (Len(e.out) - Len(a.w.out))]

\* Mutant: every round starts again from the first bucket.
RECURSIVE SampleFromFirst(_, _, _, _, _)
SampleFromFirst(a, d, t, num, checked) ==
  IF a.sampled >= num \/ checked >= num * BucketsPerKey THEN a
  ELSE SampleFromFirst(ScanBucket(a, d, checked % Buckets, t), d, t, num, checked + 1)

\* The inner loop: scan buckets from the cursor until enough keys or buckets.
RECURSIVE Sample(_, _, _, _, _)
Sample(a, d, t, num, checked) ==
  LET b == a.w.s.cursor[d]
      e == ScanBucket(a, d, b, t)
  IN IF a.sampled >= num \/ checked >= num * BucketsPerKey THEN a
     ELSE Sample([e EXCEPT !.w.s.cursor[d] = (b + 1) % Buckets], d, t, num, checked + 1)

\* The do loop of a database: it ends when there is nothing to expire, when the
\* table is too sparse to sample, when the time is up (after left rounds), or
\* when a round found few enough stale keys.
RECURSIVE ExpireDatabase(_, _, _, _, _)
ExpireDatabase(w, d, t, skip, left) ==
  LET n == Cardinality(Volatile(w.s, d))
      num == IF n > KeysPerLoop THEN KeysPerLoop ELSE n
      e == Sample([w |-> w, sampled |-> 0, expired |-> 0], d, t, num, 0)
  IN IF n = 0 \/ d \in skip THEN [w |-> w, left |-> left]
     ELSE IF left = 1 THEN [w |-> e.w, left |-> 0]
     ELSE IF e.sampled = 0 \/ (e.expired * 100) \div e.sampled > AcceptableStale
     THEN ExpireDatabase(e.w, d, t, skip, left - 1)
     ELSE [w |-> e.w, left |-> left - 1]

\* The databases of a call, starting after the one where the last call stopped.
RECURSIVE ExpireDatabases(_, _, _, _, _)
ExpireDatabases(w, t, skip, left, dbs) ==
  LET d == w.s.current
      e == ExpireDatabase([w EXCEPT !.s.current = (d + 1) % Cardinality(DB)], d, t, skip, left)
  IN IF dbs = 0 THEN w
     ELSE IF e.left = 0 THEN [e.w EXCEPT !.s.timelimit = TRUE]
     ELSE ExpireDatabases(e.w, t, skip, e.left, dbs - 1)

activeExpireCycle(s, t, skip, left) ==
  LET dbs == IF DbsPerCall > Cardinality(DB) \/ s.timelimit THEN Cardinality(DB) ELSE DbsPerCall
  IN ExpireDatabases(World([s EXCEPT !.timelimit = FALSE]), t, skip, left, dbs)

\* The keys of names are checked in every database they are tracked in, and
\* tracked on only where they still have an expire in the future.
expireSlaveKeys(s, t, names) ==
  LET seen == {p \in s.slaveKeys : p[2] \in names}
      dead == {p \in seen : s.expires[p[1]][p[2]] # Never /\ t > s.expires[p[1]][p[2]]}
      kept == {p \in seen \ dead : s.expires[p[1]][p[2]] # Never}
      e == FoldLeft(LAMBDA a, p : dbDelete(a, p[1], p[2]), s, SetToSeq(dead))
  IN [s |-> [e EXCEPT !.slaveKeys = (s.slaveKeys \ seen) \cup kept], kept |-> kept]

\* Whether the loop of dbRandomKey can come to an end.  With every key volatile
\* a replica gives up after 100 tries, and a master that may expire keys ends
\* up with an empty database.
RandomKeyEnds(s, ctx, d) ==
  \/ \A k \in Key : ~Has(s, d, k)
  \/ \E k \in Key : Has(s, d, k) /\ ~keyIsExpired(s, ctx, d, k)
  \/ ~ctx.master
  \/ ~ctx.paused

-----------------------------------------------------------------------------
Init ==
  /\ now = 0
  /\ skew \in Skews
  /\ cluster \in Clusters
  /\ m = EmptyServer /\ r = EmptyServer
  /\ link = <<>> /\ synced = TRUE /\ paused = FALSE
  /\ touched = {} /\ sparse = {} /\ beat = [m |-> FALSE, r |-> FALSE]
  /\ used = [writes |-> 0, local |-> 0, pauses |-> 0, reloads |-> 0, sparse |-> 0]

\* The commands a client of server s may send; v is a value nobody wrote yet.
CommandsOf(ops, v) ==
  {Command(op, d, k, d, k, v, t) : op \in ops \cap {"set"}, d \in DB, k \in Key, t \in Ttls \cup {Never}}
  \cup {Command(op, d, k, d, k, v, Never) : op \in ops \cap {"setkeep", "del", "persist"}, d \in DB, k \in Key}
  \cup {Command(op, d, k, d, k, v, t) : op \in ops \cap {"expire"}, d \in DB, k \in Key, t \in Ttls \cup {0}}
  \cup {Command(op, d, k, d, k2, v, Never) : op \in ops \cap {"rename", "renamenx"}, d \in DB, k \in Key, k2 \in Key}
  \cup {Command(op, d, k, d2, k2, v, Never) : op \in ops \cap {"copy", "copyreplace"}, d \in DB, d2 \in DB, k \in Key, k2 \in Key}
  \cup {Command(op, d, k, d2, k, v, Never) : op \in ops \cap {"move"}, d \in DB, d2 \in DB, k \in Key}
  \cup {Command(op, d, None, d2, None, v, Never) : op \in ops \cap {"swapdb"}, d \in DB, d2 \in DB}
  \cup {Command(op, d, None, d, None, v, Never) : op \in ops \cap {"flushdb", "flushall"}, d \in DB}

MasterBecomes(w) ==
  /\ m' = w.s
  /\ link' = IF synced THEN link \o w.out ELSE link

ClientWrites ==
  /\ used.writes < MaxWrites /\ ~paused
  /\ used' = [used EXCEPT !.writes = used.writes + 1]
  /\ \E c \in CommandsOf(Ops, used.writes + 1) : MasterBecomes(Execute(World(m), AsMaster, c))
  /\ UNCHANGED <<beat, now, skew, cluster, r, synced, paused, touched, sparse>>

\* A read of the master changes the data set only by expiring the key.
ClientReads ==
  /\ \E d \in DB, k \in Key :
       /\ keyIsExpired(m, AsMaster, d, k)
       /\ MasterBecomes(expireIfNeeded(World(m), AsMaster, d, k))
  /\ UNCHANGED <<beat, now, skew, cluster, r, synced, paused, touched, sparse, used>>

\* serverCron (slow) and beforeSleep (fast) of a master; left is after how many
\* rounds the time is up.
ActiveCycle ==
  /\ ~paused
  /\ \E w \in {activeExpireCycle(m, now, sparse, left) : left \in 1 .. MaxRounds} : MasterBecomes(w)
  /\ beat' = [beat EXCEPT !.m = ~beat.m]
  /\ UNCHANGED <<now, skew, cluster, r, synced, paused, touched, sparse, used>>

TableGetsSparse ==
  /\ used.sparse < MaxSparse
  /\ used' = [used EXCEPT !.sparse = used.sparse + 1]
  /\ \E d \in DB : sparse' = sparse \cup {d}
  /\ UNCHANGED <<beat, now, skew, cluster, m, r, link, synced, paused, touched>>

\* databasesCron resizes the tables that are nearly empty.
TryResizeHashTables ==
  /\ sparse # {} /\ sparse' = {}
  /\ UNCHANGED <<beat, now, skew, cluster, m, r, link, synced, paused, touched, used>>

\* The names a command mentions: once one was written locally, the command
\* may give the others a value the master does not have.
Named(c) == IF c.k = None THEN {} ELSE {c.k, c.k2}

ReplicaApplies ==
  /\ link # <<>>
  /\ r' = Execute(World(r), AsLink, Head(link)).s
  /\ link' = Tail(link)
  /\ touched' = IF Named(Head(link)) \cap touched = {} THEN touched
                ELSE touched \cup Named(Head(link))
  /\ UNCHANGED <<beat, now, skew, cluster, m, synced, paused, sparse, used>>

\* A client of a writable replica (replica-read-only no).
LocalWrites ==
  /\ used.local < MaxLocal
  /\ used' = [used EXCEPT !.local = used.local + 1]
  /\ \E c \in CommandsOf(LocalOps, MaxWrites + used.local + 1) :
       /\ r' = Execute(World(r), AsLocal, c).s
       /\ touched' = touched \cup Named(c)
  /\ UNCHANGED <<beat, now, skew, cluster, m, link, synced, paused, sparse>>

\* databasesCron of a replica: names are picked at random until several keys in
\* a row cannot be expired or nothing is tracked any more.
ReplicaCronPicks(names) ==
  LET e == expireSlaveKeys(r, now + skew, names)
  IN /\ e.s.slaveKeys = {} \/ e.kept # {}
     /\ r' = e.s
     /\ beat' = [beat EXCEPT !.r = ~beat.r]
     /\ UNCHANGED <<now, skew, cluster, m, link, synced, paused, touched, sparse, used>>

ReplicaCron == \E names \in SUBSET {p[2] : p \in r.slaveKeys} \ {{}} : ReplicaCronPicks(names)

\* A full synchronization that loads from the socket with a backup of the data
\* set: the new data on success, the old data back on failure, when the half
\* loaded data set is flushed first.
ReplicaReloads ==
  /\ used.reloads < MaxReloads
  /\ used' = [used EXCEPT !.reloads = used.reloads + 1]
  /\ \/ /\ r' = LoadSnapshot(r)
        /\ link' = <<>> /\ synced' = TRUE
        /\ touched' = {p[2] : p \in r.slaveKeys}
     \/ /\ r' = RestoreBackup(r)
        /\ link' = <<>> /\ synced' = FALSE
        /\ UNCHANGED touched
  /\ UNCHANGED <<beat, now, skew, cluster, m, paused, sparse>>

PauseStarts ==
  /\ used.pauses < MaxPauses /\ ~paused /\ paused' = TRUE
  /\ used' = [used EXCEPT !.pauses = used.pauses + 1]
  /\ UNCHANGED <<beat, now, skew, cluster, m, r, link, synced, touched, sparse>>

PauseTimesOut ==
  /\ paused /\ paused' = FALSE
  /\ UNCHANGED <<beat, now, skew, cluster, m, r, link, synced, touched, sparse, used>>

Tick ==
  /\ now < MaxTime /\ now' = now + 1
  /\ UNCHANGED <<beat, skew, cluster, m, r, link, synced, paused, touched, sparse, used>>

Next ==
  \/ ClientWrites \/ ClientReads \/ ActiveCycle \/ TableGetsSparse \/ TryResizeHashTables
  \/ ReplicaApplies \/ LocalWrites \/ ReplicaCron \/ ReplicaReloads
  \/ PauseStarts \/ PauseTimesOut \/ Tick

Spec == Init /\ [][Next]_vars

-----------------------------------------------------------------------------
(* Both dictionaries and the slot index of either server tell of the same   *)
(* keys (db.c dbAdd, dbDelete, emptyDb, SWAPDB, backup and restore): an      *)
(* expire belongs to a key that exists, and in cluster mode the keys of a    *)
(* slot are the keys of database 0 with that slot, and as many as counted.   *)
IndexesAgree ==
  \A s \in {m, r} :
    /\ \A d \in DB, k \in Key : s.expires[d][k] # Never => Has(s, d, k)
    /\ cluster => /\ s.index = {k \in Key : Has(s, 0, k)}
                  /\ \A h \in DOMAIN s.count :
                       s.count[h] = Cardinality({k \in s.index : Slot[k] = h})

(* The replica has the master's keys (db.c expireIfNeeded, "key expiring is  *)
(* up to the master in order to have a consistent view of master's data      *)
(* set"): when all that was sent has been applied, every key no local client *)
(* had a hand in has the master's value and is volatile on both or neither,  *)
(* whatever the clocks said when a command ran on either side.               *)
ReplicaKeysEqual ==
  synced /\ link = <<>> =>
    \A d \in DB, k \in Key \ touched :
      /\ r.dict[d][k] = m.dict[d][k]
      /\ (r.expires[d][k] = Never) = (m.expires[d][k] = Never)

\* The values a client of the master can still see.
Live(s, t) ==
  {s.dict[p[1]][p[2]] : p \in {q \in (DOMAIN s.dict) \X Key :
     Has(s, q[1], q[2]) /\ ~(s.expires[q[1]][q[2]] # Never /\ t > s.expires[q[1]][q[2]])}}

(* A value that expired never comes back (db.c lookupKeyWrite before every   *)
(* change): no command, PERSIST, EXPIRE, RENAME, MOVE and COPY of an expired *)
(* key included, makes a value visible that was not visible before, unless   *)
(* the command brought it.                                                   *)
NeverRevived ==
  [][Live(m', now') \subseteq Live(m, now) \cup {used'.writes}]_vars

(* A local client's expire is not forgotten (expire.c, "if a key is created  *)
(* in the slave and an expire is assigned to it, we need a way to expire     *)
(* such a key"): a key of the replica whose expire a local client set is     *)
(* tracked in its database, so that expireSlaveKeys will find it.            *)
LocalExpiresTracked ==
  \A d \in DB, k \in Key : r.mine[d][k] => <<d, k>> \in r.slaveKeys

(* Expired keys are reclaimed even if nobody reads them (expire.c            *)
(* activeExpireCycle over databases and buckets, expireSlaveKeys): a key of  *)
(* the master, or one a local client gave its expire on the replica, does    *)
(* not stay for ever once it expired.  Clients write and the clock moves     *)
(* only so often here, so that in the end nothing expired may be left.       *)
NothingExpired ==
  \A d \in DB, k \in Key :
    /\ ~keyIsExpired(m, AsMaster, d, k)
    /\ ~(r.mine[d][k] /\ keyIsExpired(r, AsLocal, d, k))
ExpiredGoAway == []<>NothingExpired

(* RANDOMKEY ends (db.c:286-293, "To prevent the infinite loop we do some    *)
(* tries, but if there are the conditions for an infinite loop, eventually   *)
(* we return a key name that may be already expired").                       *)
RandomKeyStops ==
  \A d \in DB : RandomKeyEnds(m, AsMaster, d) /\ RandomKeyEnds(r, AsLocal, d)
=============================================================================
