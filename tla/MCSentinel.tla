----------------------------- MODULE MCSentinel -----------------------------
(***************************************************************************)
(* Redis Sentinel on small instances: who leads a failover                  *)
(* (SentinelElection) and what the leader goes on with until it is done     *)
(* (SentinelFailover); with them, as another thing that goes on until it is *)
(* done, the eviction of keys (Eviction).  The components share no state:   *)
(* each behaviour is one of a single component, picked by `focus', and the  *)
(* others keep their initial values.                                        *)
(***************************************************************************)
EXTENDS SentinelElection, SentinelFailover

VARIABLES focus, time, policy, lazy, obj, pending, pool, nextdb, running, loop, paused, refused,
          used

eviction == <<time, policy, lazy, obj, pending, pool, nextdb, running, loop, paused,
              refused, used>>

SamePriority == [i \in Inst |-> 1]

V == INSTANCE Eviction WITH Key <- {"k1", "k2"}, DB <- {0, 1},
       Policies <- {[kind |-> "lru", all |-> TRUE], [kind |-> "lru", all |-> FALSE]},
       Lazies <- BOOLEAN, PoolSize <- 2, Samples <- 1, Batch <- 1, ClockMax <- 2,
       MaxMemory <- 0, MaxTime <- 0, MaxWrites <- 2, MaxPauses <- 1

MCInit ==
  /\ focus \in {"election", "failover", "eviction"}
  /\ Init /\ FailoverInit /\ V!Init
  /\ focus # "eviction" => policy.all /\ ~lazy

MCNext ==
  /\ UNCHANGED focus
  /\ \/ focus = "election" /\ Next         /\ UNCHANGED <<failoverVars, eviction>>
     \/ focus = "failover" /\ FailoverNext /\ UNCHANGED <<electionVars, eviction>>
     \/ focus = "eviction" /\ V!Next       /\ UNCHANGED <<electionVars, failoverVars>>

-----------------------------------------------------------------------------
(* Fairness, of the component in focus.                                      *)

\* Sentinel's timer runs for ever and its timeouts expire, the other Sentinels agree, INFO
\* is asked for again and again, links are made again, commands sent arrive, instances that
\* crash are restarted.
SentinelFairness ==
  /\ WF_failoverVars(focus = "failover" /\ MasterTimer(TRUE, TRUE, TRUE, v.slaves))
  /\ WF_failoverVars(focus = "failover" /\ \E h \in hello : sentinelProcessHelloMessage(h))
  /\ \A i \in Inst :
       /\ WF_failoverVars(focus = "failover" /\ Connect(i))
       /\ WF_failoverVars(focus = "failover" /\ CheckDown(i))
       /\ WF_failoverVars(focus = "failover" /\ sentinelRefreshInstanceInfo(i, TRUE, TRUE))
       /\ WF_failoverVars(focus = "failover" /\ Deliver(i))
       /\ WF_failoverVars(focus = "failover" /\ Revive(i))

\* The event loop runs its timers, and a call of performEvictions goes on.
EvictionFairness ==
  /\ WF_eviction(focus = "eviction" /\ V!evictionTimeProc)
  /\ WF_eviction(focus = "eviction" /\ V!LoopEnds)
  /\ WF_eviction(focus = "eviction" /\ V!CantFree)
  /\ WF_eviction(focus = "eviction" /\ V!EvictFromPool)
  /\ WF_eviction(focus = "eviction" /\ V!EvictAtRandom)

MCSpec ==
  /\ MCInit /\ [][MCNext]_<<focus, electionVars, failoverVars, eviction>>
  /\ SentinelFairness /\ EvictionFairness

-----------------------------------------------------------------------------
\* A failover that was started ends, every instance is told the master in the end, and keys
\* are evicted until memory is below the limit or nothing is left to evict.
GoesOnUntilDone ==
  /\ focus = "failover" => FailoverEnds
  /\ focus = "failover" => Converges
  /\ focus = "eviction" => V!EvictionGoesOn
=============================================================================
