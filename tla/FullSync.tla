------------------------------ MODULE FullSync ------------------------------
(***************************************************************************)
(* Redis replication: how a master brings an RDB file and the stream that  *)
(* follows it to its replicas (replication.c: syncCommand after a failed   *)
(* PSYNC, startBgsaveForReplication, sendBulkToSlave, the rdb pipe of a    *)
(* diskless transfer, replicationCron; rdb.c: the children; networking.c:  *)
(* freeClient of a replica).                                               *)
(*                                                                         *)
(* A write is one byte of the stream and `off' is master_repl_offset.  An  *)
(* RDB file is the offset at which it was taken; it is read from the pipe  *)
(* in Chunks pieces of Piece units, and sent in units.                     *)
(***************************************************************************)
EXTENDS Naturals, Sequences, SequencesExt, FiniteSets

CONSTANTS Replica, Chunks, Piece,
          Configs,       \* the configurations: records of diskless, delay, saves, delsync
          None,
          MaxWrites, MaxSyncs, MaxForks   \* bounds

VARIABLES cfg, off, slaves,   \* slaves: server.slaves, in order
          rs,                 \* Replica -> its state on the master
          child,              \* the child process
          pipe,               \* the rdb pipe and the parent's handlers
          file, ours,         \* the RDB file; RDBGeneratedByReplication
          got,                \* Replica -> what it received
          used

syncVars == <<cfg, off, slaves, rs, child, pipe, file, ours, got, used>>

NoChild == [type |-> None, snap |-> 0, left |-> 0, st |-> "none"]
NoPipe == [conns |-> {}, writing |-> {}, reading |-> FALSE, full |-> FALSE, eof |-> FALSE]
Gone == [st |-> "none", eof |-> FALSE, only |-> FALSE, init |-> 0, queue |-> <<>>,
         onack |-> FALSE, fd |-> None, pos |-> 0]
Empty == [snap |-> None, units |-> 0, stream |-> <<>>]
Whole == Chunks * Piece

Init ==
  /\ cfg \in Configs /\ off = 0 /\ slaves = <<>>
  /\ rs = [r \in Replica |-> Gone] /\ got = [r \in Replica |-> Empty]
  /\ child = NoChild /\ pipe = NoPipe /\ file = None /\ ours = FALSE
  /\ used = [syncs |-> 0, forks |-> 0]

\* The part of the state that the functions below pass on.
World == [slaves |-> slaves, rs |-> rs, child |-> child, pipe |-> pipe, file |-> file,
          ours |-> ours, got |-> got, forks |-> used.forks]

Become(w) ==
  /\ slaves' = w.slaves /\ rs' = w.rs /\ child' = w.child /\ pipe' = w.pipe
  /\ file' = w.file /\ ours' = w.ours /\ got' = w.got
  /\ used' = [used EXCEPT !.forks = w.forks]

In(w, st) == {r \in Replica : w.rs[r].st = st}
Active(w) == w.child.type # None

-----------------------------------------------------------------------------
(* A replica goes away.                                                    *)

\* rdbPipeWriteHandlerConnRemoved: the last writer that is done reinstalls the reader.
rdbPipeWriteHandlerConnRemoved(w, r) ==
  IF r \notin w.pipe.writing THEN w
  ELSE [w EXCEPT !.pipe.writing = @ \ {r}, !.pipe.reading = w.pipe.writing = {r}]

\* killRDBChild: a signal, which comes too late for a child that has exited.
killRDBChild(w) ==
  IF w.child.st \in {"run", "wait"} THEN [w EXCEPT !.child.st = "killed"] ELSE w

\* freeClient, for a replica: an RDB for nobody is stopped, unless it is configured anyway.
freeClient(w, r) ==
  LET useless == /\ ~cfg.saves /\ w.rs[r].st = "end" /\ w.child.type = "disk"
                 /\ In(w, "end") = {r}
      x == IF w.rs[r].st = "end" /\ r \in w.pipe.conns
             THEN [rdbPipeWriteHandlerConnRemoved(w, r) EXCEPT !.pipe.conns = @ \ {r}] ELSE w
      y == IF useless THEN killRDBChild(x) ELSE x
  IN [y EXCEPT !.rs[r] = Gone, !.got[r] = Empty, !.slaves = SelectSeq(@, LAMBDA q : q # r)]

freeAll(w, R) ==
  LET RECURSIVE free(_, _)
      free(x, S) == IF S = {} THEN x
                    ELSE LET r == CHOOSE q \in S : TRUE IN free(freeClient(x, r), S \ {r})
  IN free(w, R)

Drop(r) ==
  /\ rs[r].st # "none"
  /\ Become(freeClient(World, r))
  /\ UNCHANGED <<cfg, off>>

-----------------------------------------------------------------------------
(* A replica asks for a full resynchronization.                            *)

replicationSetupSlaveForFullResync(w, r, o) ==
  [w EXCEPT !.rs[r].init = o, !.rs[r].st = "end"]

SetupAll(w, R, o) ==
  [w EXCEPT !.rs = [r \in Replica |-> IF r \in R THEN [w.rs[r] EXCEPT !.init = o, !.st = "end"]
                                      ELSE w.rs[r]]]

\* startBgsaveForReplication, with rdbSaveBackground or rdbSaveToSlavesSockets: if there is no
\* fork, those who wait are told and closed.
startBgsaveForReplication(w, eof, forks) ==
  LET socket  == cfg.diskless /\ eof
      waiting == In(w, "start")
      x == SetupAll(w, waiting, off)
  IN IF ~forks THEN freeAll(w, waiting)
     ELSE IF socket
       THEN [x EXCEPT !.child = [type |-> "socket", snap |-> off, left |-> Chunks, st |-> "run"],
                      !.pipe = [NoPipe EXCEPT !.conns = waiting, !.reading = TRUE],
                      !.forks = @ + 1]
       ELSE [x EXCEPT !.child = [type |-> "disk", snap |-> off, left |-> Chunks, st |-> "run"],
                      !.ours = @ \/ cfg.delsync, !.forks = @ + 1]

\* Mutant: the buffer of the other replica is not copied.
AttachWithoutBuffer(w, r, s) == replicationSetupSlaveForFullResync(w, r, w.rs[s].init)

\* CASE 1 of syncCommand: share the RDB that is being saved for s.
Attach(w, r, s) ==
  LET x == IF w.rs[r].only THEN w ELSE [w EXCEPT !.rs[r].queue = w.rs[s].queue]
  IN replicationSetupSlaveForFullResync(x, r, x.rs[s].init)

\* Whose RDB r may share: the first that waits for its end and has a buffer for r, if r can do
\* what that one can.
Shares(w, r) ==
  LET good == {i \in DOMAIN w.slaves :
                 LET q == w.rs[w.slaves[i]] IN q.st = "end" /\ (~q.only \/ w.rs[r].only)}
      s == w.slaves[CHOOSE i \in good : \A j \in good : i <= j]
  IN IF good = {} THEN {} ELSE IF w.rs[s].eof => w.rs[r].eof THEN {s} ELSE {}

syncCommand(r, eof, only, forks) ==
  LET w == [World EXCEPT !.rs[r] = [Gone EXCEPT !.st = "start", !.eof = eof, !.only = only],
                         !.slaves = Append(@, r)]
  IN
  /\ rs[r].st = "none" /\ used.syncs < MaxSyncs /\ used.forks < MaxForks
  /\ LET x == IF child.type = "disk"
                THEN IF Shares(w, r) = {} THEN w ELSE Attach(w, r, CHOOSE s \in Shares(w, r) : TRUE)
              ELSE IF child.type = "socket" THEN w
              ELSE IF cfg.diskless /\ eof /\ cfg.delay THEN w
              ELSE IF ~Active(w) THEN startBgsaveForReplication(w, eof, forks) ELSE w
     IN /\ slaves' = x.slaves /\ rs' = x.rs /\ child' = x.child /\ pipe' = x.pipe
        /\ file' = x.file /\ ours' = x.ours /\ got' = x.got
        /\ used' = [syncs |-> used.syncs + 1, forks |-> x.forks]
  /\ UNCHANGED <<cfg, off>>

\* replicationStartPendingFork; `late': repl-diskless-sync-delay has passed.
replicationStartPendingFork(w, late, forks) ==
  LET waiting == In(w, "start") IN
  IF Active(w) \/ waiting = {} \/ (cfg.diskless /\ cfg.delay /\ ~late) \/ w.forks >= MaxForks THEN w
  ELSE startBgsaveForReplication(w, \A r \in waiting : w.rs[r].eof, forks)

\* removeRDBUsedToSyncReplicas
removeRDBUsedToSyncReplicas(w) ==
  IF ~cfg.delsync THEN [w EXCEPT !.ours = FALSE]
  ELSE IF ~cfg.saves /\ w.ours /\ In(w, "start") \cup In(w, "end") \cup In(w, "bulk") = {}
          /\ w.file # None
    THEN [w EXCEPT !.ours = FALSE, !.file = None] ELSE w

replicationCron(late, forks) ==
  /\ Become(removeRDBUsedToSyncReplicas(replicationStartPendingFork(World, late, forks)))
  /\ UNCHANGED <<cfg, off>>

\* BGSAVE and BGREWRITEAOF by a user; SAVE.
Fork(type) ==
  /\ ~Active(World) /\ used.forks < MaxForks
  /\ child' = [type |-> type, snap |-> off, left |-> Chunks, st |-> "run"]
  /\ used' = [used EXCEPT !.forks = @ + 1]
  /\ UNCHANGED <<cfg, off, slaves, rs, pipe, file, ours, got>>

saveCommand ==
  /\ child.type \notin {"disk", "socket"} /\ file' = off /\ file # off
  /\ UNCHANGED <<cfg, off, slaves, rs, child, pipe, ours, got, used>>

-----------------------------------------------------------------------------
(* The children.                                                           *)

\* A child that saves to disk renames its file and exits; any child may fail.
ChildExits(ok) ==
  /\ child.st = "run" /\ (child.type = "socket" => ~ok)
  /\ child' = [child EXCEPT !.st = IF ok THEN "ok" ELSE "error"]
  /\ file' = IF ok /\ child.type = "disk" THEN child.snap ELSE file
  /\ UNCHANGED <<cfg, off, slaves, rs, pipe, ours, got, used>>

\* The child of a diskless transfer fills the pipe, closes it, and waits until it may exit.
ChildWrites ==
  /\ child.type = "socket" /\ child.st = "run" /\ ~pipe.full
  /\ IF child.left > 0 THEN /\ child' = [child EXCEPT !.left = @ - 1]
                            /\ pipe' = [pipe EXCEPT !.full = TRUE]
     ELSE child' = [child EXCEPT !.st = "wait"] /\ UNCHANGED pipe
  /\ UNCHANGED <<cfg, off, slaves, rs, file, ours, got, used>>

ChildReleased ==
  /\ child.type = "socket" /\ child.st = "wait" /\ pipe.eof
  /\ child' = [child EXCEPT !.st = "ok"]
  /\ UNCHANGED <<cfg, off, slaves, rs, pipe, file, ours, got, used>>

\* putSlaveOnline: one who wanted just the RDB is closed.
putSlaveOnline(w, r) ==
  IF w.rs[r].only THEN freeClient(w, r)
  ELSE [w EXCEPT !.rs[r].st = "online", !.rs[r].onack = FALSE]

\* updateSlavesWaitingBgsave
updateSlavesWaitingBgsave(w, ok, type) ==
  LET waiting == In(w, "end")
      next(r) == IF type = "socket" THEN [w.rs[r] EXCEPT !.st = "online", !.onack = TRUE]
                 ELSE [w.rs[r] EXCEPT !.st = "bulk", !.fd = w.file, !.pos = 0]
  IN IF ~ok \/ (type = "disk" /\ w.file = None) THEN freeAll(w, waiting)
     ELSE [w EXCEPT !.rs = [r \in Replica |-> IF r \in waiting THEN next(r) ELSE w.rs[r]]]

\* checkChildrenDone: the handlers of the child, then the forks that waited for its end.
\* (resetChildState comes after updateSlavesWaitingBgsave, so no kill reaches a new child.)
Reap(w, late, forks) ==
  IF w.child.st \notin {"ok", "error", "killed"} THEN w
  ELSE LET x == IF w.child.type = "other" THEN w
                ELSE updateSlavesWaitingBgsave([w EXCEPT !.pipe = NoPipe], w.child.st = "ok",
                                               w.child.type)
       IN replicationStartPendingFork([x EXCEPT !.child = NoChild], late, forks)

checkChildrenDone(late, forks) ==
  /\ child.st \in {"ok", "error", "killed"}
  /\ Become(Reap(World, late, forks))
  /\ UNCHANGED <<cfg, off>>

-----------------------------------------------------------------------------
(* The transfer.                                                           *)

\* sendBulkToSlave: some bytes of the file.
sendBulkToSlave(r, n) ==
  LET pos == rs[r].pos + n
      w == [World EXCEPT !.rs[r].pos = pos, !.got[r].units = @ + n, !.got[r].snap = rs[r].fd]
  IN
  /\ rs[r].st = "bulk" /\ pos <= Whole
  /\ Become(IF pos = Whole THEN putSlaveOnline(w, r) ELSE w)
  /\ UNCHANGED <<cfg, off>>

Receives(w, r, n) == [w.got[r] EXCEPT !.units = @ + n, !.snap = child.snap]

\* rdbPipeReadHandler: the end of the pipe, or a piece that is offered to everybody.  `sent' is
\* what connWrite took for each, `bad' those whose connection fails.
rdbPipeReadHandler(sent, bad) ==
  LET dead == child.st \in {"killed", "error", "wait", "ok"} /\ ~pipe.full
      w == freeAll(World, bad)
      alive == w.pipe.conns
      slow == {r \in alive : sent[r] < Piece}
      x == [w EXCEPT !.rs = [r \in Replica |-> IF r \in alive THEN [w.rs[r] EXCEPT !.pos = sent[r]]
                                               ELSE w.rs[r]],
                     !.got = [r \in Replica |-> IF r \in alive THEN Receives(w, r, sent[r])
                                                ELSE w.got[r]],
                     !.pipe.full = FALSE, !.pipe.writing = slow,
                     !.pipe.reading = slow = {} /\ alive # {}]
  IN
  /\ child.type = "socket" /\ pipe.reading /\ bad \subseteq pipe.conns
  /\ \A r \in Replica : r \notin pipe.conns \ bad => sent[r] = 0
  /\ IF dead THEN /\ bad = {} /\ \A r \in Replica : sent[r] = 0
                  /\ pipe' = [pipe EXCEPT !.reading = FALSE, !.eof = TRUE]
                  /\ UNCHANGED <<slaves, rs, child, file, ours, got, used>>
     ELSE /\ pipe.full
          /\ Become(IF alive = {} THEN killRDBChild(x) ELSE x)
  /\ UNCHANGED <<cfg, off>>

\* rdbPipeWriteHandler: the rest of the piece, or a part of it.
rdbPipeWriteHandler(r, n) ==
  LET pos == rs[r].pos + n
      w == [World EXCEPT !.rs[r].pos = pos, !.got[r] = Receives(World, r, n)]
  IN
  /\ r \in pipe.writing /\ pos <= Piece
  /\ Become(IF pos = Piece THEN rdbPipeWriteHandlerConnRemoved(w, r) ELSE w)
  /\ UNCHANGED <<cfg, off>>

\* REPLCONF ACK: the replica has loaded the RDB.
replconfAck(r, late, forks) ==
  LET w == IF child.type \in {"disk", "socket"} /\ rs[r].st = "end"
             THEN Reap(World, late, forks) ELSE World
  IN
  /\ rs[r].st # "none" /\ got[r].units = Whole
  /\ Become(IF w.rs[r].st = "online" /\ w.rs[r].onack THEN putSlaveOnline(w, r) ELSE w)
  /\ UNCHANGED <<cfg, off>>

\* A write is buffered for everyone whose RDB was begun (canFeedReplicaReplBuffer).
Feed ==
  /\ off < MaxWrites
  /\ off' = off + 1
  /\ rs' = [r \in Replica |->
              IF rs[r].st \in {"end", "bulk", "online"} /\ ~rs[r].only
                THEN [rs[r] EXCEPT !.queue = Append(@, off + 1)] ELSE rs[r]]
  /\ UNCHANGED <<cfg, slaves, child, pipe, file, ours, got, used>>

\* writeToClient: not before the replica is online and, after a diskless transfer, has said so.
Stream(r) ==
  /\ rs[r].st = "online" /\ ~rs[r].onack /\ rs[r].queue # <<>>
  /\ rs' = [rs EXCEPT ![r].queue = Tail(@)]
  /\ got' = [got EXCEPT ![r].stream = Append(@, Head(rs[r].queue))]
  /\ UNCHANGED <<cfg, off, slaves, child, pipe, file, ours, used>>

Sync == \E r \in Replica, eof, only, forks \in BOOLEAN : syncCommand(r, eof, only, forks)
Cron == \E late, forks \in BOOLEAN : replicationCron(late, forks)
Done == \E late, forks \in BOOLEAN : checkChildrenDone(late, forks)
Read == \E sent \in [Replica -> 0..Piece], bad \in SUBSET Replica : rdbPipeReadHandler(sent, bad)
Ack == \E r \in Replica, late, forks \in BOOLEAN : replconfAck(r, late, forks)
Bulk == \E r \in Replica, n \in 1..Piece : sendBulkToSlave(r, n)
Write == \E r \in Replica, n \in 1..Piece : rdbPipeWriteHandler(r, n)

Next ==
  \/ Sync \/ Cron \/ Done \/ Read \/ Ack \/ Bulk \/ Write
  \/ \E r \in Replica : Drop(r) \/ Stream(r)
  \/ \E type \in {"disk", "other"} : Fork(type)
  \/ saveCommand \/ ChildWrites \/ ChildReleased \/ Feed
  \/ \E ok \in BOOLEAN : ChildExits(ok)

Spec == Init /\ [][Next]_syncVars

-----------------------------------------------------------------------------
\* No gap and no overlap: what a replica got from the stream and what is buffered for it is
\* every write after the point at which its RDB was taken, also when it shares the RDB of
\* another, and in every stage.
StreamFollowsRdb ==
  \A r \in Replica :
    rs[r].st \in {"end", "bulk", "online"} /\ ~rs[r].only =>
      got[r].stream \o rs[r].queue = [i \in 1..(off - rs[r].init) |-> rs[r].init + i]

\* The RDB a replica is sent is the one that belongs to its offset: neither a user's save nor
\* a later one takes its place, and whoever is online has received all of it.
RdbIsTheRightOne ==
  \A r \in Replica :
    /\ rs[r].st = "bulk" => rs[r].fd = rs[r].init
    /\ rs[r].st = "online" => got[r].units = Whole /\ got[r].snap = rs[r].init

\* The pipe of a diskless transfer always has somebody who will go on: the reader, or a writer
\* that will wake it, until the end was read or the child is being stopped.
PipeHasHandler ==
  /\ child.type = "socket" /\ child.st \in {"run", "wait"} =>
       pipe.reading \/ pipe.writing # {} \/ pipe.eof
  /\ pipe.reading => pipe.writing = {}
  /\ pipe.writing \subseteq pipe.conns
=============================================================================
