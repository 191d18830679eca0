-------------------------- MODULE SentinelFailover --------------------------
(***************************************************************************)
(* Redis Sentinel: one Sentinel that monitors a master and its replicas,   *)
(* fails the master over and repairs what it finds misconfigured           *)
(* (sentinel.c).                                                           *)
(*                                                                         *)
(* `repl' and `up' are the instances as they are: whom an instance        *)
(* replicates, NoOne for a master.  `v' is the table of the Sentinel.  An   *)
(* INFO reply is read when it is received; the SLAVEOF commands sent to an *)
(* instance are executed in order, later, or lost with the link.  Waiting  *)
(* times end at any moment; whether the other Sentinels agree or elect     *)
(* this one is decided by them.                                            *)
(***************************************************************************)
EXTENDS Naturals, FiniteSets, Sequences

CONSTANTS Inst,           \* the instances
          Master0,        \* the first master
          Priority,       \* Inst -> slave_priority, 0 for never
          ParallelSyncs,  \* parallel_syncs
          MaxTroubles,    \* bound: failovers, here or by another Sentinel, and crashes
          MaxCrashes,     \* bound: crashes of instances
          MaxGlitches,    \* bound: links or commands lost, and instances wrongly flagged
          NoOne, Unknown   \* no instance; a replica whose master is not known yet

ASSUME FailoverAssumption ==
  /\ Master0 \in Inst /\ NoOne \notin Inst /\ Unknown \notin Inst
  /\ ParallelSyncs \in Nat /\ MaxTroubles \in Nat /\ MaxCrashes \in Nat /\ MaxGlitches \in Nat

VARIABLES repl, up, cmds, v, hello, crashes, glitches

failoverVars == <<repl, up, cmds, v, hello, crashes, glitches>>

\* Nothing is known of the instances in ss but that they are replicas.
Fresh(ss, addr, r) ==
  [r EXCEPT !.addr = addr, !.slaves = ss, !.flags = [i \in Inst |-> {}],
            !.reported = [i \in Inst |-> IF i = addr THEN NoOne ELSE Unknown],
            !.sdown = {}, !.odown = FALSE, !.disc = Inst,
            !.state = "none", !.promoted = NoOne, !.forced = FALSE]

NewTable ==
  [addr |-> Master0, slaves |-> {}, flags |-> [i \in Inst |-> {}],
   reported |-> [i \in Inst |-> NoOne], sdown |-> {}, odown |-> FALSE, disc |-> {},
   state |-> "none", promoted |-> NoOne, forced |-> FALSE,
   epoch |-> 0, configEpoch |-> 0, failoverEpoch |-> 0]

FailoverInit ==
  /\ repl = [i \in Inst |-> IF i = Master0 THEN NoOne ELSE Master0]
  /\ up = Inst /\ cmds = [i \in Inst |-> <<>>] /\ hello = {} /\ crashes = 0 /\ glitches = 0
  /\ v = Fresh(Inst \ {Master0}, Master0, NewTable)

\* The queues q after SLAVEOF m for instance i; to repeat the last command changes nothing.
sentinelSendSlaveOf(q, i, m) ==
  IF q[i] # <<>> /\ q[i][Len(q[i])] = m THEN q ELSE [q EXCEPT ![i] = Append(@, m)]

\* sentinelResetMasterAndChangeAddress: the old master is kept as a replica.
sentinelResetMasterAndChangeAddress(r, addr) ==
  Fresh((r.slaves \cup {r.addr}) \ {addr}, addr, r)

-----------------------------------------------------------------------------
(* The links and the failure detector (module SentinelLink).               *)

Connect(i) ==
  /\ i \in v.disc /\ i \in up
  /\ v' = [v EXCEPT !.disc = @ \ {i}]
  /\ UNCHANGED <<repl, up, cmds, hello, crashes, glitches>>

Disconnect(i) ==
  /\ i \notin v.disc
  /\ i \notin up \/ glitches < MaxGlitches
  /\ glitches' = IF i \in up THEN glitches + 1 ELSE glitches
  /\ v' = [v EXCEPT !.disc = @ \cup {i}]
  /\ UNCHANGED <<repl, up, cmds, hello, crashes>>

\* A master that keeps reporting to be a replica is down as well.
CheckDown(i) ==
  LET dead == i \notin up \/ (i = v.addr /\ v.reported[i] # NoOne) IN
  /\ \/ i \notin v.sdown /\ (dead \/ glitches < MaxGlitches)
     \/ i \in v.sdown /\ ~dead
  /\ v' = [v EXCEPT !.sdown = IF i \in v.sdown THEN @ \ {i} ELSE @ \cup {i}]
  /\ glitches' = IF dead \/ i \in v.sdown THEN glitches ELSE glitches + 1
  /\ UNCHANGED <<repl, up, cmds, hello, crashes>>

-----------------------------------------------------------------------------
(* The timer for the master: sentinelHandleRedisInstance, and after it     *)
(* sentinelFailoverSwitchToPromotedSlave.  `late': the state has lasted    *)
(* for longer than its timeout.                                            *)

StartsFailover(r) ==
  [r EXCEPT !.state = "wait_start", !.epoch = @ + 1, !.failoverEpoch = r.epoch + 1]

\* Mutant: the promoted replica is forgotten but keeps its flag.
AbortKeepsFlag(r) ==
  [r EXCEPT !.state = "none", !.forced = FALSE, !.promoted = NoOne]

AbortsFailover(r) ==
  [r EXCEPT !.state = "none", !.forced = FALSE, !.promoted = NoOne,
            !.flags = [i \in Inst |-> IF i = r.promoted THEN r.flags[i] \ {"promoted"}
                                      ELSE r.flags[i]]]

\* Replicas that may be promoted; `fresh' are those whose INFO and PING are recent and
\* whose link to the master was not down for too long.
Suitable(r, fresh) ==
  {i \in r.slaves \cap fresh : i \notin r.sdown /\ i \notin r.disc /\ Priority[i] # 0}

\* compareSlavesForPromotion prefers the smaller priority; offsets and run ids decide
\* between equal ones in any way.
sentinelSelectSlave(r, fresh) ==
  {i \in Suitable(r, fresh) : \A j \in Suitable(r, fresh) : Priority[i] <= Priority[j]}

FlagPromoted(r, i) ==
  [r EXCEPT !.promoted = i, !.flags[i] = @ \cup {"promoted"}, !.state = "send_slaveof_noone"]

InProgress(r) == Cardinality({i \in r.slaves : r.flags[i] \cap {"sent", "inprog"} # {}})

\* The flags of a replica that the loop of sentinelFailoverReconfNextSlave meets: one whose
\* SLAVEOF timed out is marked done, and then sent it again.
Marked(r, i, timedOut) ==
  IF i \in timedOut /\ "sent" \in r.flags[i] THEN (r.flags[i] \ {"sent"}) \cup {"done"}
  ELSE r.flags[i]

Skipped(r) == {i \in r.slaves : r.flags[i] \cap {"promoted", "done"} # {}}

\* Replicas that are sent SLAVEOF when they are met.
Sendable(r, timedOut) ==
  {i \in r.slaves \ (Skipped(r) \cup r.disc) : Marked(r, i, timedOut) \cap {"sent", "inprog"} = {}}

\* The loop goes through the replicas in the order of the dict, which may be any, until
\* parallel_syncs of them are in progress: `met' are those it may have met then.
Met(r, met, timedOut) ==
  LET busy == InProgress(r) + Cardinality(met \cap Sendable(r, timedOut)) IN
  IF InProgress(r) >= ParallelSyncs THEN met = {}
  ELSE busy <= ParallelSyncs /\ (met = r.slaves \/ busy = ParallelSyncs)

ReconfNext(r, met, timedOut) ==
  [r EXCEPT !.flags = [i \in Inst |->
     IF i \notin met \ Skipped(r) THEN r.flags[i]
     ELSE Marked(r, i, timedOut) \cup IF i \in Sendable(r, timedOut) THEN {"sent"} ELSE {}]]

\* sentinelFailoverDetectEnd: all reachable replicas are reconfigured, or it took too long.
Ended(r, late) ==
  /\ r.promoted \notin r.sdown
  /\ late \/ \A i \in r.slaves : r.flags[i] \cap {"promoted", "done"} # {} \/ i \in r.sdown

\* Replicas that get a last, best effort SLAVEOF.
Forgotten(r) ==
  {i \in r.slaves : r.flags[i] \cap {"promoted", "done", "sent"} = {} /\ i \notin r.disc}

ReconfSlaves(r, late) ==
  \E met \in SUBSET r.slaves : \E timedOut \in SUBSET met :
    LET q == ReconfNext(r, met, timedOut)
        last == IF late /\ Ended(q, late) THEN Forgotten(q) ELSE {}
    IN /\ Met(r, met, timedOut)
       /\ cmds' = [i \in Inst |-> IF i \in (met \cap Sendable(r, timedOut)) \cup last
                                    THEN sentinelSendSlaveOf(cmds, i, r.promoted)[i]
                                    ELSE cmds[i]]
       /\ v' = IF Ended(q, late) THEN sentinelResetMasterAndChangeAddress(q, r.promoted) ELSE q

WaitStart(r, elected, late) ==
  /\ v' = IF elected \/ r.forced THEN [r EXCEPT !.state = "select_slave"]
          ELSE IF late THEN AbortsFailover(r) ELSE r
  /\ UNCHANGED cmds

sentinelFailoverSelectSlave(r, fresh) ==
  /\ IF Suitable(r, fresh) = {} THEN v' = AbortsFailover(r)
     ELSE \E i \in sentinelSelectSlave(r, fresh) : v' = FlagPromoted(r, i)
  /\ UNCHANGED cmds

sentinelFailoverSendSlaveOfNoOne(r, late) ==
  IF r.promoted \in r.disc
    THEN v' = (IF late THEN AbortsFailover(r) ELSE r) /\ UNCHANGED cmds
    ELSE /\ v' = [r EXCEPT !.state = "wait_promotion"]
         /\ cmds' = sentinelSendSlaveOf(cmds, r.promoted, NoOne)

\* Mutant: the promotion is awaited without a timeout.
WaitPromotionForEver(r, late) == v' = r /\ UNCHANGED cmds

sentinelFailoverWaitPromotion(r, late) ==
  v' = (IF late THEN AbortsFailover(r) ELSE r) /\ UNCHANGED cmds

sentinelFailoverStateMachine(r, elected, late, fresh) ==
  \/ r.state = "none" /\ v' = r /\ UNCHANGED cmds
  \/ r.state = "wait_start" /\ WaitStart(r, elected, late)
  \/ r.state = "select_slave" /\ sentinelFailoverSelectSlave(r, fresh)
  \/ r.state = "send_slaveof_noone" /\ sentinelFailoverSendSlaveOfNoOne(r, late)
  \/ r.state = "wait_promotion" /\ sentinelFailoverWaitPromotion(r, late)
  \/ r.state = "reconf_slaves" /\ ReconfSlaves(r, late)

\* The quorum is reached when enough of the other Sentinels agree.
sentinelCheckObjectivelyDown(r, agreed) == [r EXCEPT !.odown = r.addr \in r.sdown /\ agreed]

sentinelStartFailoverIfNeeded(r) ==
  IF r.odown /\ r.state = "none" /\ r.epoch + crashes < MaxTroubles THEN StartsFailover(r) ELSE r

MasterTimer(agreed, elected, late, fresh) ==
  LET r == sentinelStartFailoverIfNeeded(sentinelCheckObjectivelyDown(v, agreed))
  IN /\ sentinelFailoverStateMachine(r, elected, late, fresh)
     /\ UNCHANGED <<repl, up, hello, crashes, glitches>>

\* SENTINEL FAILOVER: no agreement and no election.
ForceFailover ==
  /\ v.state = "none" /\ Suitable(v, Inst) # {} /\ v.epoch + crashes < MaxTroubles
  /\ v' = [StartsFailover(v) EXCEPT !.forced = TRUE]
  /\ UNCHANGED <<repl, up, cmds, hello, crashes, glitches>>

-----------------------------------------------------------------------------
(* INFO replies.                                                           *)

sentinelMasterLooksSane(r) == r.reported[r.addr] = NoOne /\ r.addr \notin r.sdown /\ ~r.odown

\* A replica on its way to the promoted one, with its link to it `linked' or not.
ReconfProgress(r, i, linked) ==
  LET f == IF "sent" \in r.flags[i] /\ r.reported[i] = r.promoted
             THEN (r.flags[i] \ {"sent"}) \cup {"inprog"} ELSE r.flags[i]
  IN IF r.flags[i] \cap {"sent", "inprog"} = {} THEN r
     ELSE [r EXCEPT !.flags[i] = IF "inprog" \in f /\ linked
                                   THEN (f \ {"inprog"}) \cup {"done"} ELSE f]

\* A wrong role or master of a replica is repaired when the master looks sane and the report
\* was stable, and nothing down, for as long as the code waits.
Fixes(r, i, waited) == waited /\ sentinelMasterLooksSane(r) /\ i \notin r.sdown

sentinelRefreshInstanceInfo(i, linked, waited) ==
  LET listed == IF i = v.addr THEN {j \in Inst : repl[j] = i} \ {i} ELSE {}
      r == [v EXCEPT !.reported[i] = repl[i], !.slaves = @ \cup listed]
      fixes == Fixes(r, i, waited)
  IN /\ i \in up /\ i \notin v.disc
     /\ IF i = v.addr THEN v' = r /\ UNCHANGED cmds
        ELSE IF repl[i] = NoOne
        THEN IF "promoted" \in r.flags[i] /\ r.state = "wait_promotion"
               THEN /\ v' = [r EXCEPT !.configEpoch = r.failoverEpoch, !.state = "reconf_slaves"]
                    /\ UNCHANGED cmds
               ELSE /\ v' = r
                    /\ cmds' = IF "promoted" \notin r.flags[i] /\ fixes
                                 THEN sentinelSendSlaveOf(cmds, i, r.addr) ELSE cmds
        ELSE /\ v' = ReconfProgress(r, i, linked)
             /\ cmds' = IF repl[i] # r.addr /\ fixes
                          THEN sentinelSendSlaveOf(cmds, i, r.addr) ELSE cmds
     /\ UNCHANGED <<repl, up, hello, crashes, glitches>>

-----------------------------------------------------------------------------
(* The instances, and the other Sentinels.                                 *)

\* The transaction of sentinelSendSlaveOf, with its CONFIG REWRITE.
Deliver(i) ==
  /\ cmds[i] # <<>> /\ i \in up
  /\ cmds' = [cmds EXCEPT ![i] = Tail(@)]
  /\ repl' = [repl EXCEPT ![i] = Head(cmds[i])]
  /\ UNCHANGED <<up, v, hello, crashes, glitches>>

LoseCommands(i) ==
  /\ cmds[i] # <<>>
  /\ i \notin up \/ glitches < MaxGlitches
  /\ cmds' = [cmds EXCEPT ![i] = <<>>]
  /\ glitches' = IF i \in up THEN glitches + 1 ELSE glitches
  /\ UNCHANGED <<repl, up, v, hello, crashes>>

Crash(i) ==
  /\ i \in up /\ crashes < MaxCrashes /\ v.epoch + crashes < MaxTroubles
  /\ up' = up \ {i} /\ crashes' = crashes + 1
  /\ UNCHANGED <<repl, cmds, v, hello, glitches>>

Revive(i) ==
  /\ i \notin up
  /\ up' = up \cup {i}
  /\ UNCHANGED <<repl, cmds, v, hello, crashes, glitches>>

\* Another Sentinel is elected in a newer epoch, promotes i and announces it.
OtherSentinel(i) ==
  /\ v.epoch + crashes < MaxTroubles /\ i \in up /\ repl[i] # NoOne
  /\ repl' = [repl EXCEPT ![i] = NoOne]
  /\ hello' = hello \cup {[addr |-> i, epoch |-> v.epoch + 1]}
  /\ v' = [v EXCEPT !.epoch = @ + 1]
  /\ UNCHANGED <<up, cmds, crashes, glitches>>

\* Mutant: a hello overrides the configuration whatever its epoch.
NewerAnyEpoch(r, h) == TRUE

Newer(r, h) == r.configEpoch < h.epoch

\* A newer configuration replaces ours, and ends a failover under way.
sentinelProcessHelloMessage(h) ==
  /\ h \in hello
  /\ hello' = hello \ {h}
  /\ v' = IF ~Newer(v, h) THEN v
          ELSE LET r == [v EXCEPT !.configEpoch = h.epoch] IN
               IF h.addr = r.addr THEN r ELSE sentinelResetMasterAndChangeAddress(r, h.addr)
  /\ UNCHANGED <<repl, up, cmds, crashes, glitches>>

\* The choices that matter in the state the timer finds.
Choice(matters) == IF matters THEN BOOLEAN ELSE {FALSE}

Timer ==
  \E agreed \in Choice(v.addr \in v.sdown),
     elected \in Choice(v.state \in {"none", "wait_start"}), late \in BOOLEAN,
     fresh \in IF v.state = "select_slave" THEN SUBSET v.slaves ELSE {v.slaves} :
    MasterTimer(agreed, elected, late, fresh)

FailoverNext ==
  \/ Timer
  \/ ForceFailover
  \/ \E i \in Inst :
       \/ Connect(i) \/ Disconnect(i) \/ CheckDown(i)
       \/ \E linked, waited \in BOOLEAN : sentinelRefreshInstanceInfo(i, linked, waited)
       \/ Crash(i) \/ Revive(i) \/ OtherSentinel(i) \/ Deliver(i) \/ LoseCommands(i)
  \/ \E h \in hello : sentinelProcessHelloMessage(h)

FailoverSpec == FailoverInit /\ [][FailoverNext]_failoverVars

-----------------------------------------------------------------------------
Promoting == {"send_slaveof_noone", "wait_promotion", "reconf_slaves"}

\* promoted_slave is set, and points to a replica in the table that bears SRI_PROMOTED,
\* exactly while the failover needs it: the state machine and the INFO of a replica that is
\* being reconfigured follow the pointer without a test.
PromotedIsKnown ==
  /\ v.state \in Promoting <=> v.promoted # NoOne
  /\ \A i \in Inst : "promoted" \in v.flags[i] <=> i = v.promoted
  /\ v.promoted # NoOne => v.promoted \in v.slaves
  /\ \A i \in Inst : v.flags[i] \cap {"sent", "inprog"} # {} => v.state = "reconf_slaves"

\* sentinelGetCurrentMasterAddress: the address that hello messages announce.
Announced == IF v.state = "reconf_slaves" THEN v.promoted ELSE v.addr

\* While a failover was under way, a configuration was taken over that is not older than it
\* and has the same address as ours, so that the failover went on.
Overtaken ==
  v.state \in {"wait_start", "select_slave", "send_slaveof_noone", "wait_promotion"}
    /\ v.configEpoch >= v.failoverEpoch

\* A Sentinel announces one address per config_epoch, and its config_epoch never goes back:
\* the others take an announcement only when its epoch is greater than theirs.  Only the end
\* of a failover that was overtaken sets config_epoch back, and only a hello message that
\* confirms our master makes it so.
OneAddressPerEpoch ==
  [][ /\ ~Overtaken => /\ v'.configEpoch >= v.configEpoch
                       /\ v'.configEpoch = v.configEpoch => Announced' = Announced
      /\ ~Overtaken /\ Overtaken' => \E h \in hello : h.addr = v.addr /\ h.epoch = v'.configEpoch
    ]_failoverVars

\* A failover that was started ends, by completion, abort or timeout.
FailoverEnds == v.state # "none" ~> v.state = "none"

\* When failovers cease, all instances end up replicating the master that is announced.
Converges ==
  <>[](v.epoch + crashes < MaxTroubles) =>
    <>[](\A i \in Inst : repl[i] = IF i = v.addr THEN NoOne ELSE v.addr)
=============================================================================
