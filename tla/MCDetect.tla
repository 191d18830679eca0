------------------------------ MODULE MCDetect ------------------------------
(***************************************************************************)
(* What Redis notices in the end, on small instances: a node of the cluster *)
(* that fails or comes back (ClusterFailDetect), keys that expire           *)
(* (Keyspace).  The components share no state: each behaviour is one of a   *)
(* single instance, picked by `focus', and the others keep their initial    *)
(* values.                                                                  *)
(***************************************************************************)
EXTENDS ClusterFailDetect

VARIABLES focus, now, skew, cluster, m, r, link, synced, paused, touched, sparse, beat, used

keyspace == <<now, skew, cluster, m, r, link, synced, paused, touched, sparse, beat, used>>

\* Keys that expire on the master, sampled by the active expire cycle ...
K1 == INSTANCE Keyspace WITH Key <- {"a", "b"}, DB <- {0}, Slot <- [k \in {"a", "b"} |-> 0],
        Bucket <- [k \in {"a", "b"} |-> IF k = "a" THEN 0 ELSE 1], Buckets <- 2,
        Ttls <- {1, 9}, Skews <- {0}, Clusters <- {FALSE}, Ops <- {"set"}, LocalOps <- {},
        KeysPerLoop <- 1, BucketsPerKey <- 1, DbsPerCall <- 1, AcceptableStale <- 10,
        MaxTime <- 2, MaxWrites <- 2, MaxLocal <- 0, MaxPauses <- 0, MaxReloads <- 0,
        MaxSparse <- 0, MaxRounds <- 2

\* ... in several databases, with pauses and tables that get sparse ...
K2 == INSTANCE Keyspace WITH Key <- {"a", "b"}, DB <- {0, 1},
        Slot <- [k \in {"a", "b"} |-> 0],
        Bucket <- [k \in {"a", "b"} |-> IF k = "a" THEN 0 ELSE 1], Buckets <- 2,
        Ttls <- {1}, Skews <- {0}, Clusters <- {FALSE}, Ops <- {"set"}, LocalOps <- {},
        KeysPerLoop <- 1, BucketsPerKey <- 1, DbsPerCall <- 1, AcceptableStale <- 10,
        MaxTime <- 2, MaxWrites <- 1, MaxLocal <- 0, MaxPauses <- 1, MaxReloads <- 0,
        MaxSparse <- 1, MaxRounds <- 1

\* ... and on a writable replica.
K3 == INSTANCE Keyspace WITH Key <- {"a", "b"}, DB <- {0, 1},
        Slot <- [k \in {"a", "b"} |-> 0],
        Bucket <- [k \in {"a", "b"} |-> IF k = "a" THEN 0 ELSE 1], Buckets <- 2,
        Ttls <- {1}, Skews <- {0}, Clusters <- {FALSE}, Ops <- {"set"},
        LocalOps <- {"set", "expire", "rename"},
        KeysPerLoop <- 1, BucketsPerKey <- 1, DbsPerCall <- 1, AcceptableStale <- 10,
        MaxTime <- 2, MaxWrites <- 0, MaxLocal <- 2, MaxPauses <- 0, MaxReloads <- 0,
        MaxSparse <- 0, MaxRounds <- 0

MCInit ==
  /\ focus \in {"detect", "keys1", "keys2", "keys3"}
  /\ Init
  /\ K2!Init   \* the second database stays empty in K1

MCNext ==
  /\ UNCHANGED focus
  /\ \/ focus = "detect" /\ Next    /\ UNCHANGED keyspace
     \/ focus = "keys1"  /\ K1!Next /\ UNCHANGED vars
     \/ focus = "keys2"  /\ K2!Next /\ UNCHANGED vars
     \/ focus = "keys3"  /\ K3!Next /\ UNCHANGED vars

-----------------------------------------------------------------------------
(* Fairness, of the component in focus.                                      *)

\* The target answers PINGs, clusterCron runs, links between the observers deliver.
DetectFairness ==
  /\ WF_vars(focus = "detect" /\ Tick)
  /\ \A n \in Observer : /\ WF_vars(focus = "detect" /\ Pong(n))
                         /\ WF_vars(focus = "detect" /\ PossiblyFailing(n))
                         /\ WF_vars(focus = "detect" /\ HearFail(n))
                         /\ WF_vars(focus = "detect" /\ UpdateSize(n))
  /\ \A p \in Pairs : WF_vars(focus = "detect" /\ p \in todo
                             /\ clusterProcessGossipSection(p[1], p[2]))

\* serverCron runs for ever on both servers, except that a paused master does not expire
\* keys; the replica reads its link; a pause has an end time; a key picked at random from
\* those tracked is any of them now and then.
KeyspaceFairness ==
  /\ \/ []<>(focus \notin {"keys1", "keys2"} \/ paused)
     \/ []<><<beat'.m # beat.m>>_beat
  /\ WF_keyspace(focus = "keys2" /\ K2!TryResizeHashTables)
  /\ WF_keyspace(focus = "keys2" /\ K2!PauseTimesOut)
  /\ WF_keyspace(focus \in {"keys1", "keys2"} /\ K2!ReplicaApplies)
  /\ \A k \in {"a", "b"} :
       SF_keyspace(focus = "keys3" /\ \E names \in SUBSET {p[2] : p \in r.slaveKeys} :
                k \in names /\ K3!ReplicaCronPicks(names))

MCSpec ==
  MCInit /\ [][MCNext]_<<focus, vars, keyspace>> /\ DetectFairness /\ KeyspaceFairness

-----------------------------------------------------------------------------
\* The liveness properties, made of those stated in the modules of the components.

\* A node that stays dead is marked FAIL by every observer, and one that stays reachable is
\* not failing for any observer in the end.
TruthIsNoticed ==
  /\ focus = "detect" => DeadIsFailed
  /\ focus = "detect" => BackIsCleared

\* Again and again, no key is left that has expired.
ExpiredGoAway == []<>CASE focus = "keys1" -> K1!NothingExpired
                       [] focus = "keys2" -> K2!NothingExpired
                       [] focus = "keys3" -> K3!NothingExpired
                       [] OTHER -> TRUE
=============================================================================
