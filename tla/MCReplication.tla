--------------------------- MODULE MCReplication ---------------------------
(***************************************************************************)
(* What servers tell each other and keep, on small instances: the slot      *)
(* tables of a cluster (ClusterSlots), replication and persistence.  The    *)
(* components share no state: each behaviour is one of a single instance,   *)
(* picked by `focus', and the others keep their initial values or none at   *)
(* all ("off").                                                             *)
(***************************************************************************)
EXTENDS ClusterSlots

VARIABLES focus, sv, link, disk, psUsed, fCfg, off, slaves, rs, fChild, pipe, fFile, ours,
          got, fUsed, host, state, conn, fo, cached, tmp, xfer, rsData, rdb, rsChild, rsAof,
          rsCfg, via, rsUsed, aoData, owed, replied, policy, aoAof, aoFile, synced, job,
          aoChild, rw, pairs, aoUsed

psync == <<sv, link, disk, psUsed>>
full == <<fCfg, off, slaves, rs, fChild, pipe, fFile, ours, got, fUsed>>
rsync == <<host, state, conn, fo, cached, tmp, xfer, rsData, rdb, rsChild, rsAof, rsCfg,
           via, rsUsed>>
aofile == <<aoData, owed, replied, policy, aoAof, aoFile, synced, job, aoChild, rw, pairs,
            aoUsed>>

\* Two masters with a slot each, and a replica of the first.
FirstOwners == <<1, 2>>
FirstMasters == <<None, None, 1>>
FirstEpochs == <<1, 2, 0>>

\* Masters that change, and a restart from an RDB file ...
PA == INSTANCE Psync WITH Server <- {"s1", "s2"}, DB <- {0}, Sizes <- {2}, MaxWrites <- 2,
        MaxPings <- 0, MaxGens <- 1, MaxMoves <- 1, MaxBreaks <- 0, MaxRestarts <- 1,
        MaxSaves <- 1, used <- psUsed

\* ... links that break, PINGs, a backlog that is resized.
PB == INSTANCE Psync WITH Server <- {"s1", "s2"}, DB <- {0, 1}, Sizes <- {2, 3},
        MaxWrites <- 2, MaxPings <- 1, MaxGens <- 1, MaxMoves <- 0, MaxBreaks <- 1,
        MaxRestarts <- 0, MaxSaves <- 0, used <- psUsed

FS == INSTANCE FullSync WITH Replica <- {"r1", "r2"}, Chunks <- 1, Piece <- 2,
        MaxWrites <- 1, MaxSyncs <- 2, MaxForks <- 2, Configs <- {[diskless |-> TRUE, delay
        |-> FALSE, saves |-> FALSE, delsync |-> FALSE], [diskless |-> FALSE, delay |->
        FALSE, saves |-> FALSE, delsync |-> TRUE]}, cfg <- fCfg, child <- fChild,
        file <- fFile, used <- fUsed

RS == INSTANCE ReplicaSync WITH Host <- {"h1"}, Payloads <- {<<"1", "0", "1">>},
        Mark <- <<"1", "2">>, BufLen <- 3, Old <- <<"9">>, WithFailover <- TRUE,
        Loads <- {"disabled", "empty", "swapdb"}, Aofs <- {TRUE}, Dels <- {FALSE},
        MaxConnects <- 2, MaxMoves <- 2, MaxSets <- 1, MaxSaves <- 1, data <- rsData,
        child <- rsChild, aof <- rsAof, cfg <- rsCfg, used <- rsUsed

\* Write errors and crashes under two fsync policies ...
AA == INSTANCE AppendOnly WITH DB <- {0}, Policies <- {"always", "everysec"},
        Lazy <- {FALSE}, MaxWrites <- 2, MaxRewrites <- 1, MaxCrashes <- 1, MaxErrors <- 1,
        MaxSwitches <- 0, data <- aoData, aof <- aoAof, file <- aoFile, child <- aoChild,
        used <- aoUsed

\* ... two databases ...
AB == INSTANCE AppendOnly WITH DB <- {0, 1}, Policies <- {"everysec"}, Lazy <- {FALSE},
        MaxWrites <- 2, MaxRewrites <- 1, MaxCrashes <- 1, MaxErrors <- 0, MaxSwitches <- 0,
        data <- aoData, aof <- aoAof, file <- aoFile, child <- aoChild, used <- aoUsed

\* ... and CONFIG SET appendonly.
AC == INSTANCE AppendOnly WITH DB <- {0}, Policies <- {"everysec"}, Lazy <- {TRUE},
        MaxWrites <- 1, MaxRewrites <- 1, MaxCrashes <- 1, MaxErrors <- 1, MaxSwitches <- 2,
        data <- aoData, aof <- aoAof, file <- aoFile, child <- aoChild, used <- aoUsed

psyncOff == sv = "off" /\ link = "off" /\ disk = "off" /\ psUsed = "off"
fullOff == fCfg = "off" /\ off = "off" /\ slaves = "off" /\ rs = "off" /\ fChild = "off" /\
           pipe = "off" /\ fFile = "off" /\ ours = "off" /\ got = "off" /\ fUsed = "off"
aofileOff == aoData = "off" /\ owed = "off" /\ replied = "off" /\ policy = "off" /\ aoAof =
             "off" /\ aoFile = "off" /\ synced = "off" /\ job = "off" /\ aoChild = "off" /\
             rw = "off" /\ pairs = "off" /\ aoUsed = "off"

MCInit ==
  /\ focus \in {"slots", "psync1", "psync2", "full", "rsync", "aof1", "aof2", "aof3"}
  /\ Init
  /\ IF focus = "psync1" THEN PA!Init
     ELSE IF focus = "psync2" THEN PB!Init ELSE psyncOff
  /\ IF focus = "full" THEN FS!Init ELSE fullOff
  /\ RS!Init
  /\ focus # "rsync" => rsData = <<>> /\ rsCfg = [auth |-> FALSE, ip |-> FALSE, load |->
       "disabled", aof |-> TRUE, del |-> FALSE]
  /\ IF focus = "aof1" THEN AA!Init
     ELSE IF focus = "aof2" THEN AB!Init
     ELSE IF focus = "aof3" THEN AC!Init ELSE aofileOff

\* The components out of focus stay as they are.
Still ==
  /\ UNCHANGED focus
  /\ focus # "slots" => UNCHANGED vars
  /\ focus \notin {"psync1", "psync2"} => UNCHANGED psync
  /\ focus # "full" => UNCHANGED full
  /\ focus # "rsync" => UNCHANGED rsync
  /\ focus \notin {"aof1", "aof2", "aof3"} => UNCHANGED aofile

MCNext ==
  \/ focus = "slots" /\ Still /\ Next
  \/ focus = "psync1" /\ Still /\ PA!Next
  \/ focus = "psync2" /\ Still /\ PB!Next
  \/ focus = "full" /\ Still /\ FS!Next
  \/ focus = "rsync" /\ Still /\ RS!Next
  \/ focus = "aof1" /\ Still /\ AA!Next
  \/ focus = "aof2" /\ Still /\ AB!Next
  \/ focus = "aof3" /\ Still /\ AC!Next

MCSpec == MCInit /\ [][MCNext]_<<focus, vars, psync, full, rsync, aofile>>

-----------------------------------------------------------------------------
(* The properties, each made of those stated in the modules of its components. *)

\* Partial resynchronisation: a replica that has read everything sent to it holds what its
\* master holds, and backlogs with the same replication ID hold the same stream.
ResyncIsExact ==
  /\ focus = "psync1" => PA!ReplicaEqualsMaster /\ PA!SameIdSameStream
  /\ focus = "psync2" => PB!ReplicaEqualsMaster /\ PB!SameIdSameStream

\* Full resynchronisation: the commands a replica gets follow the dump it gets, a dump is
\* the one that was asked for, somebody reads the pipe of the child; what a replica loads is
\* what was sent, it serves no mixture, its append-only file comes back, and the file it
\* received is not overwritten by an older save of its own.
TransferIsRight ==
  /\ focus = "full" => FS!StreamFollowsRdb /\ FS!RdbIsTheRightOne /\ FS!PipeHasHandler
  /\ focus = "rsync" => RS!LoadedIsSent /\ RS!DataIsWhole /\ RS!AofIsBack /\ RS!SyncedFileStays

\* The append-only file: it rebuilds the data through rewrites and switches; what was
\* answered survives a kill, and with fsync always a power failure; transactions stay whole.
LogIsSafe ==
  /\ focus = "aof1" => AA!FileMatchesData /\ AA!AlwaysIsSafe /\ AA!KillIsSafe /\ AA!TransactionsWhole
  /\ focus = "aof2" => AB!FileMatchesData /\ AB!AlwaysIsSafe /\ AB!KillIsSafe /\ AB!TransactionsWhole
  /\ focus = "aof3" => AC!FileMatchesData /\ AC!AlwaysIsSafe /\ AC!KillIsSafe /\ AC!TransactionsWhole
=============================================================================
