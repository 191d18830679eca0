------------------------------ MODULE MCServer ------------------------------
(***************************************************************************)
(* What a Redis server does with keys and clients, on small instances:      *)
(* commands that block, transactions, consumer groups, expires, eviction.   *)
(* The components share no state: each behaviour is one of a single         *)
(* instance, picked by `focus', and the others keep their initial values or *)
(* none at all ("off").                                                     *)
(***************************************************************************)
EXTENDS Integers, Sequences, FiniteSets

CONSTANTS None

VARIABLES focus, db, bWaiting, bCl, over, stock, ver, alive, expired, other, cond, role,
          tPaused, tCl, snap, sent, fed, st, rep, sgWaiting, sgNow, back, kNow, skew,
          cluster, kM, kR, link, synced, kPaused, touched, sparse, beat, kUsed, time,
          policy, lazy, obj, pending, pool, nextdb, running, loop, ePaused, refused, eUsed

blocking == <<db, bWaiting, bCl, over, stock>>
trans == <<ver, alive, expired, other, cond, role, tPaused, tCl, snap, sent, fed>>
sgroups == <<st, rep, sgWaiting, sgNow, back>>
keyspace == <<kNow, skew, cluster, kM, kR, link, synced, kPaused, touched, sparse, beat,
              kUsed>>
evict == <<time, policy, lazy, obj, pending, pool, nextdb, running, loop, ePaused, refused,
           eUsed>>

KeyCommands ==
  {"set", "setkeep", "del", "persist", "expire", "rename", "renamenx", "copy", "copyreplace",
   "move", "swapdb", "flushdb", "flushall"}

Policy(kind, all) == [kind |-> kind, all |-> all]

\* Clients that block on two keys ...
BK == INSTANCE Blocking WITH Client <- {"c1", "c2"}, Key <- {"k1", "k2"}, MaxLen <- 1,
        MaxBatch <- 1, waiting <- bWaiting, cl <- bCl

\* ... and scripts or transactions that write more than once before they are served.
BB == INSTANCE Blocking WITH Client <- {"c1", "c2"}, Key <- {"k1"}, MaxLen <- 2,
        MaxBatch <- 2, waiting <- bWaiting, cl <- bCl

TA == INSTANCE Transactions WITH Client <- {"c1", "c2"}, Key <- {"k1"}, MaxMods <- 2,
        MaxQueue <- 1, Ops <- {"set", "get", "watch", "multi", "exec", "discard", "unwatch",
        "swap", "flush", "pause"}, Conds <- {"ok"}, paused <- tPaused, cl <- tCl

\* A client whose commands are refused in the middle of a transaction.
TB == INSTANCE Transactions WITH Client <- {"c1"}, Key <- {"k1"}, MaxMods <- 2,
        MaxQueue <- 2, Ops <- {"set", "get", "del", "replicaof", "pause", "bad", "multi",
        "exec", "watch"}, Conds <- {"ok", "oom", "disk", "noslaves", "stale", "loading",
        "slow"}, paused <- tPaused, cl <- tCl

\* The pending entries of two consumers ...
GA == INSTANCE StreamGroups WITH Group <- {"g1"}, Consumer <- {"n1", "n2"},
        Client <- {"k1"}, MaxId <- 2, MaxTime <- 1, MaxCount <- 2, Attempts <- 1,
        Ops <- {"xadd", "xdel", "group", "setid", "consumer", "xack", "read", "xclaim",
        "xautoclaim", "copy"}, waiting <- sgWaiting, now <- sgNow

\* ... and two clients that block.
GB == INSTANCE StreamGroups WITH Group <- {"g1"}, Consumer <- {"n1", "n2"}, Client <- {"k1",
        "k2"}, MaxId <- 2, MaxTime <- 0, MaxCount <- 1, Attempts <- 1, Ops <- {"xadd",
        "xdel", "del", "group", "setid", "read", "block"}, waiting <- sgWaiting,
        now <- sgNow

\* The commands of the key space ...
KA == INSTANCE Keyspace WITH DB <- {0, 1}, Clusters <- {FALSE}, Skews <- {0},
        Ops <- KeyCommands, LocalOps <- {}, Key <- {"a", "b"},
        Slot <- [k \in {"a", "b"} |-> 0],
        Bucket <- [k \in {"a", "b"} |-> IF k = "a" THEN 0 ELSE 1], Buckets <- 2,
        Ttls <- {1}, KeysPerLoop <- 1, BucketsPerKey <- 1, DbsPerCall <- 1,
        AcceptableStale <- 10, MaxSparse <- 0, MaxRounds <- 0, MaxTime <- 2, MaxWrites <- 2,
        MaxLocal <- 0, MaxPauses <- 0, MaxReloads <- 0, now <- kNow, m <- kM, r <- kR,
        paused <- kPaused, used <- kUsed

\* ... in cluster mode, with clocks that differ, pauses and reloads ...
KB == INSTANCE Keyspace WITH DB <- {0}, Clusters <- {TRUE}, Skews <- {0, 1}, Ops <- {"set",
        "expire", "rename", "copyreplace", "flushall", "flushdb", "del"}, LocalOps <- {},
        Key <- {"a", "b"}, Slot <- [k \in {"a", "b"} |-> 0],
        Bucket <- [k \in {"a", "b"} |-> IF k = "a" THEN 0 ELSE 1], Buckets <- 2,
        Ttls <- {1}, KeysPerLoop <- 1, BucketsPerKey <- 1, DbsPerCall <- 1,
        AcceptableStale <- 10, MaxSparse <- 0, MaxRounds <- 0, MaxTime <- 2, MaxWrites <- 2,
        MaxLocal <- 0, MaxPauses <- 1, MaxReloads <- 1, now <- kNow, m <- kM, r <- kR,
        paused <- kPaused, used <- kUsed

\* ... and of local clients on a writable replica.
KC == INSTANCE Keyspace WITH DB <- {0, 1}, Clusters <- {FALSE}, Skews <- {0}, Ops <- {"set",
        "flushdb"}, LocalOps <- {"set", "expire", "rename", "persist"}, Key <- {"a", "b"},
        Slot <- [k \in {"a", "b"} |-> 0],
        Bucket <- [k \in {"a", "b"} |-> IF k = "a" THEN 0 ELSE 1], Buckets <- 2,
        Ttls <- {1}, KeysPerLoop <- 1, BucketsPerKey <- 1, DbsPerCall <- 1,
        AcceptableStale <- 10, MaxSparse <- 0, MaxRounds <- 0, MaxTime <- 2, MaxWrites <- 1,
        MaxLocal <- 2, MaxPauses <- 0, MaxReloads <- 0, now <- kNow, m <- kM, r <- kR,
        paused <- kPaused, used <- kUsed

\* Idle times that wrap around ...
VA == INSTANCE Eviction WITH Key <- {"k1", "k2", "k3"}, DB <- {0},
        Policies <- {Policy("lru", TRUE), Policy("lru", FALSE)}, Lazies <- {FALSE},
        PoolSize <- 3, Samples <- 3, Batch <- 1, ClockMax <- 1, MaxMemory <- 1,
        MaxTime <- 2, MaxWrites <- 3, MaxPauses <- 0, paused <- ePaused, used <- eUsed

\* ... other policies, in two databases ...
VB == INSTANCE Eviction WITH Key <- {"k1", "k2"}, DB <- {0, 1}, Policies <- {Policy("lfu",
        TRUE), Policy("ttl", FALSE)}, Lazies <- {FALSE}, PoolSize <- 2, Samples <- 1,
        Batch <- 1, ClockMax <- 1, MaxMemory <- 1, MaxTime <- 1, MaxWrites <- 3,
        MaxPauses <- 1, paused <- ePaused, used <- eUsed

\* ... and random keys that a thread frees.
VC == INSTANCE Eviction WITH Key <- {"k1", "k2", "k3", "k4"}, DB <- {0},
        Policies <- {Policy("random", TRUE), Policy("random", FALSE), Policy("none", TRUE)},
        Lazies <- {TRUE}, PoolSize <- 2, Samples <- 2, Batch <- 2, ClockMax <- 2,
        MaxMemory <- 3, MaxTime <- 0, MaxWrites <- 5, MaxPauses <- 0, paused <- ePaused,
        used <- eUsed

blockingOff == db = "off" /\ bWaiting = "off" /\ bCl = "off" /\ over = "off" /\ stock =
               "off"
sgroupsOff == st = "off" /\ rep = "off" /\ sgWaiting = "off" /\ sgNow = "off" /\ back =
              "off"

Init ==
  /\ focus \in {"block", "batch", "watch", "refuse", "groups", "readers", "keys",
                 "slotkeys", "localkeys", "lru", "lfu", "lazyrandom"}
  /\ IF focus = "block" THEN BK!Init
     ELSE IF focus = "batch" THEN BB!Init ELSE blockingOff
  /\ IF focus = "refuse" THEN TB!Init ELSE TA!Init
  /\ IF focus = "groups" THEN GA!Init
     ELSE IF focus = "readers" THEN GB!Init ELSE sgroupsOff
  /\ IF focus = "slotkeys" THEN KB!Init
     ELSE IF focus = "localkeys" THEN KC!Init ELSE KA!Init
  /\ focus # "keys" /\ focus # "slotkeys" /\ focus # "localkeys" => skew = 0 /\ ~cluster
  /\ IF focus = "lfu" THEN VB!Init
     ELSE IF focus = "lazyrandom" THEN VC!Init ELSE VA!Init
  /\ focus # "lru" /\ focus # "lfu" /\ focus # "lazyrandom" => policy = Policy("lru", TRUE)
       /\ ~lazy

\* The components out of focus stay as they are.
Still ==
  /\ UNCHANGED focus
  /\ focus \notin {"block", "batch"} => UNCHANGED blocking
  /\ focus \notin {"watch", "refuse"} => UNCHANGED trans
  /\ focus \notin {"groups", "readers"} => UNCHANGED sgroups
  /\ focus \notin {"keys", "slotkeys", "localkeys"} => UNCHANGED keyspace
  /\ focus \notin {"lru", "lfu", "lazyrandom"} => UNCHANGED evict

Next ==
  \/ focus = "block" /\ Still /\ BK!Next
  \/ focus = "batch" /\ Still /\ BB!Next
  \/ focus = "watch" /\ Still /\ TA!Next
  \/ focus = "refuse" /\ Still /\ TB!Next
  \/ focus = "groups" /\ Still /\ GA!Next
  \/ focus = "readers" /\ Still /\ GB!Next
  \/ focus = "keys" /\ Still /\ KA!Next
  \/ focus = "slotkeys" /\ Still /\ KB!Next
  \/ focus = "localkeys" /\ Still /\ KC!Next
  \/ focus = "lru" /\ Still /\ VA!Next
  \/ focus = "lfu" /\ Still /\ VB!Next
  \/ focus = "lazyrandom" /\ Still /\ VC!Next

Spec == Init /\ [][Next]_<<focus, blocking, trans, sgroups, keyspace, evict>>

-----------------------------------------------------------------------------
(* The properties, each made of those stated in the modules of its components. *)

\* No client stays blocked on a key that could serve it, the lists of blocked clients agree
\* with the clients, and an element is never lost on its way to one.
BlockedAreServed ==
  /\ focus = "block" => BK!NoLostWakeup /\ BK!ListsAgree /\ BK!ElementsKept
  /\ focus = "batch" => BB!NoLostWakeup /\ BB!ListsAgree /\ BB!ElementsKept

\* EXEC runs only when no watched key has changed and nothing was refused while queuing, and
\* what it changed reaches the replicas between MULTI and EXEC.
TransactionsHold ==
  /\ focus = "watch" => TA!WatchedChangesSeen /\ TA!NothingSkipped /\ TA!PropagatedWhole
  /\ focus = "refuse" => TB!WatchedChangesSeen /\ TB!NothingSkipped /\ TB!PropagatedWhole

\* Consumer groups: the pending lists are right on the master, on its replica, and after the
\* stream is rebuilt from a rewritten append-only file; XAUTOCLAIM claims all, and no reader
\* waits for an entry that is there.
StreamsAgree ==
  /\ focus = "groups" => /\ GA!PendingListsAgree /\ GA!ReplicaAgrees
                         /\ GA!ReloadKeepsGroups /\ GA!ScanClaimsAll
  /\ focus = "readers" => GB!NoneLeftWaiting

\* The dictionary, the expires and the slots of keys agree, master and replica hold the same
\* keys once the stream is read, and a replica tracks the expires of its local writes.
KeysAgree ==
  /\ focus = "keys" => KA!IndexesAgree /\ KA!ReplicaKeysEqual
  /\ focus = "slotkeys" => KB!IndexesAgree /\ KB!ReplicaKeysEqual
  /\ focus = "localkeys" => KC!LocalExpiresTracked

\* Eviction: the pool is ordered, no key counts as older than it is, a write is refused only
\* when nothing is left to evict, and few keys are evicted beyond need.
EvictionIsSound ==
  /\ focus = "lru" => VA!PoolOrdered /\ VA!IdleNeverOverstated
  /\ focus = "lfu" => VB!RefusedOnlyWhenFull
  /\ focus = "lazyrandom" => VC!FewTooMany

\* What no step may do: change data while writes are paused, bring an expired key back to
\* life, evict a key that the policy protects.
NoForbiddenStep == TA!PausedIsFixed /\ KA!NeverRevived /\ VA!OnlyEvictable
=============================================================================
