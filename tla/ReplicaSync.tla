----------------------------- MODULE ReplicaSync -----------------------------
(***************************************************************************)
(* Redis replication: the replica's side of a synchronization              *)
(* (replication.c: connectWithMaster, syncWithMaster,                      *)
(* readSyncBulkPayload, cancelReplicationHandshake, replicationCron,       *)
(* REPLICAOF, and the turn of a failing over master into a replica).       *)
(*                                                                         *)
(* A data set is the sequence of bytes of its RDB file.  The bytes that    *)
(* the master sends wait in conn.wire and are read in parts; in the format *)
(* with a mark the master streams only after the replica's first ACK       *)
(* (FullSync).                                                             *)
(***************************************************************************)
EXTENDS Naturals, Sequences, SequencesExt

CONSTANTS Host, None,
          Payloads,      \* RDB files a master may send
          Mark,          \* the bytes after $EOF: (they are random: in no payload)
          BufLen,        \* sizeof(buf)
          Old,           \* the data set before
          WithFailover,  \* whether FAILOVER is used
          Loads,         \* the values of repl-diskless-load
          Aofs, Dels,    \* appendonly; rdb-del-sync-files without persistence
          MaxConnects, MaxMoves, MaxSets, MaxSaves   \* bounds

VARIABLES host, state, conn,
          fo,            \* failover_state = FAILOVER_IN_PROGRESS
          cached,        \* server.cached_master is set
          tmp,           \* the temporary file and its descriptor, or None
          xfer,          \* repl_transfer_size, repl_transfer_read and the static variables
          data, rdb,     \* the databases and dump.rdb
          child,         \* the data a saving child holds, or None
          aof, cfg,
          via,           \* how the data came
          used

syncVars == <<host, state, conn, fo, cached, tmp, xfer, data, rdb, child, aof, cfg, via, used>>

Stream == <<"s", "t">>
NoXfer == [size |-> None, read |-> 0, mark |-> FALSE, last |-> <<>>]
NewConn == [up |-> TRUE, wire |-> <<>>, sent |-> None]
Handshake == {"ping", "auth", "port", "ip", "capa", "psync"}

World == [host |-> host, state |-> state, conn |-> conn, fo |-> fo, cached |-> cached,
          tmp |-> tmp, xfer |-> xfer, data |-> data, rdb |-> rdb, child |-> child, aof |-> aof,
          via |-> via, connects |-> used.connects]

Become(w) ==
  /\ host' = w.host /\ state' = w.state /\ conn' = w.conn /\ fo' = w.fo /\ cached' = w.cached
  /\ tmp' = w.tmp /\ xfer' = w.xfer /\ data' = w.data /\ rdb' = w.rdb /\ child' = w.child
  /\ aof' = w.aof /\ via' = w.via /\ used' = [used EXCEPT !.connects = w.connects]
  /\ UNCHANGED cfg

Init ==
  /\ host = None /\ state = "none" /\ conn = None /\ fo = FALSE /\ cached = FALSE
  /\ tmp = None /\ xfer = NoXfer /\ rdb = None /\ child = None
  /\ data \in {Old, <<>>}
  /\ cfg \in [auth : BOOLEAN, ip : BOOLEAN, load : Loads, aof : Aofs, del : Dels]
  /\ aof = cfg.aof /\ via = "own"
  /\ used = [connects |-> 0, moves |-> 0, sets |-> 0, saves |-> 0]

-----------------------------------------------------------------------------
(* Connecting and giving up.                                               *)

connectWithMaster(w) ==
  [w EXCEPT !.conn = NewConn, !.state = "connecting", !.connects = @ + 1]

\* replicationAbortSyncTransfer and undoConnectWithMaster
cancelReplicationHandshake(w, reconnect) ==
  IF w.state = "transfer" \/ w.state = "connecting" \/ w.state \in Handshake
    THEN LET x == [w EXCEPT !.conn = None, !.state = "connect",
                            !.tmp = IF w.state = "transfer" THEN None ELSE @]
         IN IF reconnect THEN connectWithMaster(x) ELSE x
    ELSE w

\* replicationHandleMasterDisconnection, for a master client that is freed.
HandleDisconnection(w) ==
  LET x == [w EXCEPT !.conn = None, !.state = "connect", !.cached = TRUE]
  IN IF x.host = None THEN x ELSE connectWithMaster(x)

FreeMaster(w) == IF w.state = "connected" THEN HandleDisconnection(w) ELSE w

replicationSetMaster(w, h) ==
  LET x == [FreeMaster([w EXCEPT !.host = None]) EXCEPT !.host = h]
      y == cancelReplicationHandshake(x, FALSE)
  IN connectWithMaster([y EXCEPT !.cached = @ \/ w.host = None])

replicationUnsetMaster(w) ==
  IF w.host = None THEN w
  ELSE [cancelReplicationHandshake(FreeMaster([w EXCEPT !.host = None]), FALSE)
          EXCEPT !.cached = FALSE, !.state = "none", !.aof = cfg.aof]

abortFailover(w) == IF w.fo THEN [replicationUnsetMaster(w) EXCEPT !.fo = FALSE] ELSE w

\* The label `error' of syncWithMaster.
SyncError(w) == [w EXCEPT !.conn = None, !.tmp = None, !.state = "connect"]

-----------------------------------------------------------------------------
(* The handshake.                                                          *)

useDisklessLoad(w) == cfg.load = "swapdb" \/ (cfg.load = "empty" /\ w.data = <<>>)

\* The end of syncWithMaster, after +FULLRESYNC or for the old SYNC: the transfer is set up.
\* The master's bytes are now on their way.
BeginTransfer(w, payload, mark, opened) ==
  LET x == [w EXCEPT !.cached = FALSE,
                     !.conn.sent = payload,
                     !.conn.wire = payload \o (IF mark THEN Mark ELSE Stream),
                     !.xfer = [NoXfer EXCEPT !.mark = mark],
                     !.state = "transfer"]
  IN IF useDisklessLoad(w) THEN x
     ELSE IF opened THEN [x EXCEPT !.tmp = <<>>] ELSE SyncError(w)

\* The replies to PSYNC.  After an error, or no reply in time, the old SYNC is tried.
PsyncReply(w, ans) ==
  LET good == [w EXCEPT !.fo = FALSE] IN
  CASE ans.type = "newline"  -> {w}
    [] ans.type = "continue" -> {[good EXCEPT !.state = "connected", !.cached = FALSE]}
    [] ans.type = "full"     -> {BeginTransfer(good, ans.payload, ans.mark, ans.ok)}
    [] ans.type = "later"    -> {IF w.fo THEN abortFailover(w) ELSE SyncError(w)}
    [] OTHER                 -> {IF w.fo THEN abortFailover([w EXCEPT !.cached = FALSE])
                                 ELSE IF ans.ok THEN BeginTransfer(w, ans.payload, FALSE, TRUE)
                                 ELSE SyncError([w EXCEPT !.cached = FALSE])}

\* syncWithMaster, one call.  `ok' is false when a write fails, ans is what is read: a reply
\* that was not read in time counts as an error reply.
syncWithMaster(w, ok, ans) ==
  CASE ~w.conn.up /\ ans.type # "bad" -> {}
    [] w.state = "connecting" -> {IF ok THEN [w EXCEPT !.state = "ping"] ELSE SyncError(w)}
    [] w.state = "ping" -> {IF ok /\ ans.type # "bad" THEN [w EXCEPT !.state = "auth"]
                            ELSE SyncError(w)}
    [] w.state = "auth" /\ cfg.auth -> {IF ans.type = "bad" THEN SyncError(w)
                                        ELSE [w EXCEPT !.state = "port"]}
    [] w.state = "port" \/ (w.state = "auth" /\ ~cfg.auth) -> {[w EXCEPT !.state = "ip"]}
    [] w.state = "ip" /\ cfg.ip -> {[w EXCEPT !.state = "capa"]}
    [] w.state = "capa" \/ (w.state = "ip" /\ ~cfg.ip) ->
         {IF ok THEN [w EXCEPT !.state = "psync"] ELSE SyncError(abortFailover(w))}
    [] w.state = "psync" -> PsyncReply(w, ans)
    [] OTHER -> {}

Answers ==
  [type : {"newline", "later"}, ok : {TRUE}, payload : {<<>>}, mark : {FALSE}]
    \cup {a \in [type : {"continue"}, ok : {TRUE}, payload : {<<>>}, mark : {FALSE}] : cached}
    \cup [type : {"full"}, ok : BOOLEAN, payload : Payloads, mark : BOOLEAN]
    \cup [type : {"bad"}, ok : BOOLEAN, payload : Payloads, mark : {FALSE}]

Sync ==
  /\ state \in {"connecting"} \cup Handshake /\ used.connects < MaxConnects
  /\ \E ok \in BOOLEAN, ans \in Answers : \E w \in syncWithMaster(World, ok, ans) : Become(w)

-----------------------------------------------------------------------------
(* The transfer.                                                           *)

Fails(w) == cancelReplicationHandshake(w, TRUE)

\* The line before the payload; a newline is only a ping.
ReadCount(line) ==
  /\ state = "transfer" /\ xfer.size = None /\ used.connects < MaxConnects
  /\ conn.up \/ line = "error"
  /\ Become(CASE line = "newline" -> World
              [] line = "error"   -> Fails(World)
              [] OTHER -> [World EXCEPT !.xfer.size = IF xfer.mark THEN 0 ELSE Len(conn.sent)])

\* After a successful load.
Finish(w, how) ==
  [w EXCEPT !.state = "connected", !.aof = cfg.aof, !.via = how,
            !.conn.wire = IF xfer.mark THEN @ \o Stream ELSE @]

\* What is left when a load from the socket fails.
DataAfterFailure(w) == IF cfg.load = "swapdb" THEN w.data ELSE <<>>

\* rioConnRead fills its buffer, with no more than repl_transfer_size bytes if that is known.
ReadLimit(w) == IF xfer.mark THEN Len(w.conn.wire) ELSE xfer.size

\* The load from the socket takes the payload and then the mark.  It fails on a broken
\* connection and on bytes that are no RDB file.
LoadFromSocket(w, ok) ==
  LET n == ReadLimit(w)
      need == IF xfer.mark THEN w.conn.sent \o Mark ELSE w.conn.sent
      good == IsPrefix(need, SubSeq(w.conn.wire, 1, n))
      x == [w EXCEPT !.aof = FALSE]
  IN IF ok /\ good
       THEN Finish([x EXCEPT !.data = w.conn.sent, !.conn.wire = SubSeq(@, n + 1, Len(@))], "socket")
       ELSE [Fails(x) EXCEPT !.data = DataAfterFailure(w)]

\* The load from the file: a saving child is killed, the file is renamed, then read.
LoadFromFile(w, ok, loads) ==
  LET killed == [w EXCEPT !.aof = FALSE, !.data = <<>>, !.child = None] IN
  IF ~ok THEN Fails(killed)
  ELSE LET x == [killed EXCEPT !.rdb = w.tmp]
       IN IF ~loads THEN [Fails(x) EXCEPT !.rdb = IF cfg.del THEN None ELSE @]
          ELSE [Finish(x, "file") EXCEPT !.data = w.tmp, !.rdb = IF cfg.del THEN None ELSE w.tmp,
                                         !.tmp = None]

LastOf(s, n) == SubSeq(s, Len(s) - (IF Len(s) < n THEN Len(s) ELSE n) + 1, Len(s))

\* ftruncate
Truncated(f) == SubSeq(f, 1, Len(f) - Len(Mark))

\* readSyncBulkPayload, after the first line: n bytes are read.  `ok' and `loads' are false when
\* a write, a rename or the load fails.
readSyncBulkPayload(n, ok, loads) ==
  LET bytes == SubSeq(conn.wire, 1, n)
      last  == LastOf(xfer.last \o bytes, Len(Mark))
      marked == xfer.mark /\ last = Mark
      file  == IF marked THEN Truncated(tmp \o bytes) ELSE tmp \o bytes
      w == [World EXCEPT !.conn.wire = SubSeq(@, n + 1, Len(@)), !.tmp = file,
                         !.xfer.read = @ + n, !.xfer.last = last]
      done == IF xfer.mark THEN marked ELSE xfer.read + n = xfer.size
      left == IF xfer.mark THEN BufLen ELSE xfer.size - xfer.read
  IN
  /\ state = "transfer" /\ xfer.size # None /\ used.connects < MaxConnects
  /\ IF useDisklessLoad(World)
       THEN n = 0 /\ loads /\ (ok => conn.up) /\ Become(LoadFromSocket(World, ok))
     ELSE IF ~conn.up THEN n = 0 /\ ok /\ loads /\ Become(Fails(World))
     ELSE /\ n \in 1..Len(conn.wire) /\ n <= BufLen /\ n <= left
          /\ IF tmp = None THEN ok /\ loads /\ Become(Fails(World))
             ELSE IF ~done THEN loads /\ Become(IF ok THEN w ELSE Fails(World))
             ELSE Become(LoadFromFile(w, ok, loads))

Receive == \E n \in 0..BufLen, ok, loads \in BOOLEAN : readSyncBulkPayload(n, ok, loads)

-----------------------------------------------------------------------------
(* Timeouts, users, the network.                                           *)

\* replicationCron: a handshake, a transfer or a master that is silent too long; and a
\* connection that was not made yet.
replicationCron(late) ==
  /\ used.connects < MaxConnects
  /\ LET w == IF host # None /\ late THEN FreeMaster(cancelReplicationHandshake(World, TRUE))
              ELSE World
     IN Become(IF w.state = "connect" THEN connectWithMaster(w) ELSE w)

\* The connection breaks; a connected replica notices it (freeClient of the master).
Breaks ==
  /\ conn # None /\ conn.up /\ used.connects < MaxConnects
  /\ Become(IF state = "connected" THEN FreeMaster(World) ELSE [World EXCEPT !.conn.up = FALSE])

replicaofCommand(h) ==
  /\ ~fo /\ h # host /\ used.moves < MaxMoves
  /\ LET w == IF h = None THEN replicationUnsetMaster(World) ELSE replicationSetMaster(World, h)
     IN /\ host' = w.host /\ state' = w.state /\ conn' = w.conn /\ fo' = w.fo
        /\ cached' = w.cached /\ tmp' = w.tmp /\ xfer' = w.xfer /\ data' = w.data
        /\ rdb' = w.rdb /\ child' = w.child /\ aof' = w.aof /\ via' = w.via
        /\ used' = [used EXCEPT !.connects = w.connects, !.moves = @ + 1]
  /\ UNCHANGED cfg

\* updateFailoverStatus, when the target has caught up (PlannedFailover); FAILOVER ABORT.
StartFailover(h) ==
  /\ WithFailover /\ host = None /\ state = "none" /\ used.connects < MaxConnects
  /\ Become([replicationSetMaster(World, h) EXCEPT !.fo = TRUE])

FailoverAbort == fo /\ Become(abortFailover(World))

\* CONFIG SET repl-diskless-load
ConfigSet(load) ==
  /\ load # cfg.load /\ used.sets < MaxSets
  /\ cfg' = [cfg EXCEPT !.load = load] /\ used' = [used EXCEPT !.sets = @ + 1]
  /\ UNCHANGED <<host, state, conn, fo, cached, tmp, xfer, data, rdb, child, aof, via>>

\* A background save, and its end.
Bgsave ==
  /\ child = None /\ used.saves < MaxSaves
  /\ child' = data /\ used' = [used EXCEPT !.saves = @ + 1]
  /\ UNCHANGED <<host, state, conn, fo, cached, tmp, xfer, data, rdb, aof, cfg, via>>

ChildRenames ==
  /\ child # None
  /\ rdb' = child /\ child' = None
  /\ UNCHANGED <<host, state, conn, fo, cached, tmp, xfer, data, aof, cfg, via, used>>

Next ==
  \/ Sync \/ Receive \/ Breaks \/ FailoverAbort \/ Bgsave \/ ChildRenames
  \/ \E line \in {"newline", "error", "count"} : ReadCount(line)
  \/ \E late \in BOOLEAN : replicationCron(late)
  \/ \E h \in Host \cup {None} : replicaofCommand(h)
  \/ \E h \in Host : StartFailover(h)
  \/ \E load \in Loads : ConfigSet(load)

Spec == Init /\ [][Next]_syncVars

-----------------------------------------------------------------------------
\* A replica that is connected after a transfer holds exactly the data set it was sent, with
\* neither a byte of the mark nor of the stream in it, and has the whole stream still to read:
\* however the bytes were split, whichever way they were loaded, and whatever was configured
\* in between.
LoadedIsSent ==
  state = "connected" /\ conn.sent # None => data = conn.sent /\ conn.wire = Stream

\* Never a part of a data set: the old one, none, or one that came complete.
DataIsWhole == data \in {Old, <<>>} \cup Payloads

\* With repl-diskless-load swapdb, a load from the socket that does not succeed leaves the
\* data as it was.
SwapKeepsData ==
  [][cfg.load = "swapdb" /\ state = "transfer" /\ xfer.size # None /\ state' # "connected"
       => data' = data]_syncVars

\* "Restart the AOF subsystem": whoever serves as a master or as a synchronized replica has
\* its append only file on if it is configured.
AofIsBack == state \in {"none", "connected"} => aof = cfg.aof

\* "Ensure background save doesn't overwrite synced data": dump.rdb is not replaced by what a
\* child saved before the synchronization.
SyncedFileStays ==
  state = "connected" /\ via = "file" => (cfg.del \/ rdb = data) /\ child \in {None, data}

\* A server has a connection to a master in progress only if it has a master, and with a
\* master it is connected or trying.
StateMatchesHost == host = None <=> state = "none"
=============================================================================
