------------------------- MODULE ClusterFailDetect -------------------------
(***************************************************************************)
(* How the nodes of a Redis Cluster agree that one of them has failed      *)
(* (cluster.c).  One node, the target, may crash, come back or be cut off  *)
(* from some of the others, the observers.  An observer that hears nothing *)
(* flags the target PFAIL by itself; reports of the masters, carried by    *)
(* the gossip of PING and PONG packets, turn that into FAIL; a FAIL packet *)
(* tells the rest.  The flag goes away when the target answers again.      *)
(*                                                                         *)
(* A tick is one cluster-node-timeout.  Every pair of nodes exchanges      *)
(* packets several times in a timeout, and a packet speaks of every node   *)
(* its sender has flagged PFAIL and of a few others taken at random: in a   *)
(* tick a PFAIL target is mentioned to all, another one perhaps.           *)
(***************************************************************************)
EXTENDS Integers, FiniteSets

CONSTANTS Observer,    \* the other nodes
          Masters,     \* those of them that are masters with slots
          Kinds,       \* what the target is: "slots" (a master with slots), "replica"
          None,
          MaxCuts,     \* bound: times the target crashes, or links to it break
          MaxRestarts, \* bound: restarts of observers
          MaxLosses    \* bound: FAIL packets lost

ASSUME DetectAssumption == Masters \subseteq Observer /\ IsFiniteSet(Masters)

ReportValidity == 2  \* CLUSTER_FAIL_REPORT_VALIDITY_MULT
UndoTime == 2        \* CLUSTER_FAIL_UNDO_TIME_MULT
Old == 4             \* ages count up to here

VARIABLES kind,    \* what the target is
          cut,     \* observers that the target cannot talk to
          flag,    \* observer -> "ok", "pfail" or "fail"
          failAge, \* observer -> ticks since it flagged the target FAIL
          silent,  \* observer -> ticks since it last heard from the target
          reports, \* observer -> master -> age of its failure report, or None
          size,    \* observer -> the cluster size it last computed
          young,   \* observers within CLUSTER_WRITABLE_DELAY of their start
          disk,    \* observer -> the flag in its nodes.conf
          before,  \* master -> its flag when the last tick began, in late packets
          fails,   \* observers that a FAIL packet is on its way to
          todo,    \* pairs that have not spoken of the target in this tick
          down,    \* history: master -> ticks since it had the target flagged
          cuts, restarts, losses

vars == <<kind, cut, flag, failAge, silent, reports, size, young, disk, before,
          fails, todo, down, cuts, restarts, losses>>

\* Only what a master reports matters.
Pairs == {p \in Masters \X Observer : p[1] # p[2]}

Sooner(a) == IF a = Old THEN Old ELSE a + 1
Flagged(f) == f \in {"pfail", "fail"}

\* The masters with slots, the target among them if it is one.
TrueSize == Cardinality(Masters) + (IF kind = "slots" THEN 1 ELSE 0)
NeededQuorum(s) == (s \div 2) + 1

Init ==
  /\ kind \in Kinds
  /\ cut = {}
  /\ flag = [n \in Observer |-> "ok"]
  /\ failAge = [n \in Observer |-> 0]
  /\ silent = [n \in Observer |-> 0]
  /\ reports = [n \in Observer |-> [m \in Masters |-> None]]
  /\ size = [n \in Observer |-> TrueSize]
  /\ young = {}
  /\ disk = flag
  /\ before = [m \in Masters |-> flag[m]]
  /\ fails = {}
  /\ todo = {}
  /\ down = [m \in Masters |-> Old]
  /\ cuts = 0 /\ restarts = 0 /\ losses = 0

----------------------------------------------------------------------------
(* One observer's record of the target.                                    *)

clusterNodeCleanupFailureReports(r) ==
  [m \in Masters |-> IF r[m] # None /\ r[m] > ReportValidity THEN None ELSE r[m]]

clusterNodeAddFailureReport(r, sender) == [r EXCEPT ![sender] = 0]

clusterNodeDelFailureReport(r, sender) ==
  IF r[sender] = None THEN r
  ELSE clusterNodeCleanupFailureReports([r EXCEPT ![sender] = None])

clusterNodeFailureReportsCount(r) ==
  Cardinality({m \in Masters : clusterNodeCleanupFailureReports(r)[m] # None})

\* Mutant: a node that reaches the target flags it as well.
MarkThoughReached(n, r) ==
  /\ flag[n] # "fail"
  /\ clusterNodeFailureReportsCount(r) + (IF n \in Masters THEN 1 ELSE 0)
       >= NeededQuorum(size[n])

\* Is the target to be flagged FAIL, given the reports r?
markNodeAsFailingIfNeeded(n, r) ==
  /\ flag[n] = "pfail"
  /\ clusterNodeFailureReportsCount(r) + (IF n \in Masters THEN 1 ELSE 0)
       >= NeededQuorum(size[n])

\* Mutant: the flag of a master with slots is never undone.
ClearNever(n) == kind = "replica"

\* Is the FAIL flag to be cleared, now that the target has answered?
clearNodeFailureIfNeeded(n) == kind = "replica" \/ failAge[n] > UndoTime

\* A packet goes to all nodes there is a link to.
clusterSendFail(n) ==
  \E lost \in SUBSET (Observer \ {n}) :
    /\ losses + Cardinality(lost) <= MaxLosses
    /\ losses' = losses + Cardinality(lost)
    /\ fails' = fails \cup ((Observer \ {n}) \ lost)

\* History: who had the target flagged, and when.
Note(f) == [m \in Masters |-> IF Flagged(f[m]) THEN 0 ELSE down[m]]

----------------------------------------------------------------------------
(* The target and its links.                                               *)

Cut(n) ==
  /\ cuts < MaxCuts /\ n \notin cut
  /\ cut' = cut \cup {n} /\ cuts' = cuts + 1
  /\ UNCHANGED <<kind, flag, failAge, silent, reports, size, young, disk, before,
                 fails, todo, down, restarts, losses>>

Crash ==
  /\ cuts < MaxCuts /\ cut # Observer
  /\ cut' = Observer /\ cuts' = cuts + 1
  /\ UNCHANGED <<kind, flag, failAge, silent, reports, size, young, disk, before,
                 fails, todo, down, restarts, losses>>

Heal ==
  /\ cut # {}
  /\ cut' = {}
  /\ UNCHANGED <<kind, flag, failAge, silent, reports, size, young, disk, before,
                 fails, todo, down, cuts, restarts, losses>>

\* A PONG of the target.
Pong(n) ==
  LET f == CASE flag[n] = "pfail" -> "ok"
             [] flag[n] = "fail" -> IF clearNodeFailureIfNeeded(n) THEN "ok" ELSE "fail"
             [] OTHER -> "ok"
  IN /\ n \notin cut
     /\ flag[n] # f \/ silent[n] # 0
     /\ flag' = [flag EXCEPT ![n] = f]
     /\ disk' = [disk EXCEPT ![n] = IF f # flag[n] THEN f ELSE disk[n]]
     /\ silent' = [silent EXCEPT ![n] = 0]
     /\ failAge' = [failAge EXCEPT ![n] = IF f = "ok" THEN 0 ELSE failAge[n]]
     /\ down' = Note(flag')
     /\ UNCHANGED <<kind, cut, reports, size, young, before, fails, todo,
                    cuts, restarts, losses>>

\* clusterCron: no answer for more than cluster-node-timeout.
PossiblyFailing(n) ==
  /\ silent[n] > 1 /\ flag[n] = "ok"
  /\ flag' = [flag EXCEPT ![n] = "pfail"]
  /\ down' = Note(flag')
  /\ UNCHANGED <<kind, cut, failAge, silent, reports, size, young, disk, before,
                 fails, todo, cuts, restarts, losses>>

----------------------------------------------------------------------------
(* Gossip between the observers.                                           *)

\* A packet of master m to n speaks of the target: always when it is PFAIL, by
\* chance otherwise.  It may have been written in the tick before.
clusterProcessGossipSection(m, n) ==
  \E f \in {flag[m], before[m]} :
    LET r == IF Flagged(f) THEN clusterNodeAddFailureReport(reports[n], m)
             ELSE clusterNodeDelFailureReport(reports[n], m)
        marked == Flagged(f) /\ markNodeAsFailingIfNeeded(n, r)
    IN /\ reports' = [reports EXCEPT ![n] = clusterNodeCleanupFailureReports(r)]
       /\ flag' = [flag EXCEPT ![n] = IF marked THEN "fail" ELSE flag[n]]
       /\ failAge' = [failAge EXCEPT ![n] = IF marked THEN 0 ELSE failAge[n]]
       /\ disk' = [disk EXCEPT ![n] = IF marked THEN "fail" ELSE disk[n]]
       /\ IF marked THEN clusterSendFail(n) ELSE UNCHANGED <<fails, losses>>
       /\ todo' = todo \ {<<m, n>>}
       /\ down' = Note(flag')
       /\ UNCHANGED <<kind, cut, silent, size, young, before, cuts, restarts>>

\* A FAIL packet arrives.
HearFail(n) ==
  /\ n \in fails
  /\ fails' = fails \ {n}
  /\ flag' = [flag EXCEPT ![n] = "fail"]
  /\ failAge' = [failAge EXCEPT ![n] = IF flag[n] = "fail" THEN failAge[n] ELSE 0]
  /\ disk' = [disk EXCEPT ![n] = IF flag[n] = "fail" THEN disk[n] ELSE "fail"]
  /\ down' = Note(flag')
  /\ UNCHANGED <<kind, cut, silent, reports, size, young, before, todo, cuts, restarts,
                 losses>>

----------------------------------------------------------------------------
(* Time, and restarts of the observers.                                    *)

\* A timeout passes: whoever has the target PFAIL has told all others.
Tick ==
  /\ \A p \in todo : flag[p[1]] # "pfail"
  /\ todo' = Pairs
  /\ before' = [m \in Masters |-> flag[m]]
  /\ failAge' = [n \in Observer |-> IF flag[n] = "fail" /\ failAge[n] <= UndoTime
                                   THEN failAge[n] + 1 ELSE failAge[n]]
  /\ silent' = [n \in Observer |-> IF n \in cut THEN (IF silent[n] = 2 THEN 2 ELSE silent[n] + 1)
                                   ELSE 0]
  /\ reports' = [n \in Observer |-> clusterNodeCleanupFailureReports(
                   [m \in Masters |-> IF reports[n][m] = None THEN None
                                      ELSE Sooner(reports[n][m])])]
  /\ down' = [m \in Masters |-> IF Flagged(flag[m]) THEN 0 ELSE Sooner(down[m])]
  /\ UNCHANGED <<kind, cut, flag, size, young, disk, fails, cuts, restarts, losses>>

\* The configuration is saved for some other reason.
SaveConfig(n) ==
  /\ disk[n] # flag[n] /\ restarts < MaxRestarts
  /\ disk' = [disk EXCEPT ![n] = flag[n]]
  /\ UNCHANGED <<kind, cut, flag, failAge, silent, reports, size, young, before,
                 fails, todo, down, cuts, restarts, losses>>

\* clusterInit and clusterLoadConfig.
Restart(n) ==
  /\ restarts < MaxRestarts
  /\ restarts' = restarts + 1
  /\ flag' = [flag EXCEPT ![n] = disk[n]]
  /\ failAge' = [failAge EXCEPT ![n] = 0]
  /\ silent' = [silent EXCEPT ![n] = 0]
  /\ reports' = [reports EXCEPT ![n] = [m \in Masters |-> None]]
  /\ size' = [size EXCEPT ![n] = 1]
  /\ young' = young \cup {n}
  /\ fails' = fails \ {n}
  /\ down' = Note(flag')
  /\ before' = [m \in Masters |-> IF m = n THEN disk[n] ELSE before[m]]
  /\ UNCHANGED <<kind, cut, disk, todo, cuts, losses>>

\* clusterUpdateState computes the size, but on a master not before
\* CLUSTER_WRITABLE_DELAY is over.
UpdateSize(n) ==
  /\ n \in young
  /\ young' = young \ {n}
  /\ size' = [size EXCEPT ![n] = TrueSize]
  /\ UNCHANGED <<kind, cut, flag, failAge, silent, reports, disk, before, fails, todo,
                 down, cuts, restarts, losses>>

Next ==
  \/ Crash \/ Heal \/ Tick
  \/ \E n \in Observer :
       Cut(n) \/ Pong(n) \/ PossiblyFailing(n) \/ HearFail(n) \/ SaveConfig(n)
       \/ Restart(n) \/ UpdateSize(n)
  \/ \E p \in Pairs : clusterProcessGossipSection(p[1], p[2])

Spec == Init /\ [][Next]_vars

----------------------------------------------------------------------------
(* Properties.                                                             *)

\* An observer that flags the target FAIL by itself has just found out that a
\* majority of the masters had it flagged within the validity of their reports,
\* give or take the time a packet takes (comment of markNodeAsFailingIfNeeded:
\* "the majority of the masters signaled the node is down recently").
MarkedByMajority(n) ==
  flag[n] # "fail" /\ flag'[n] = "fail" /\ n \notin fails =>
    Cardinality({m \in Masters : down[m] <= ReportValidity + 1}) >= NeededQuorum(TrueSize)

\* Once an observer has computed the cluster size.
FailNeedsMajority ==
  [][\A n \in Observer \ young : MarkedByMajority(n)]_vars

\* The same of every observer, as the comment has it.
FailAlwaysNeedsMajority ==
  [][\A n \in Observer : MarkedByMajority(n)]_vars

\* A target that is gone for good ends up flagged FAIL by every observer, even
\* if FAIL packets get lost and observers restart (comment of
\* markNodeAsFailingIfNeeded: "Either we reach the majority and eventually the
\* FAIL state will propagate to all the cluster").
DeadIsFailed ==
  <>[](cut = Observer) => <>[](\A n \in Observer : flag[n] = "fail")

\* A target that is back for good ends up with no flag at any observer.
BackIsCleared ==
  <>[](cut = {}) => <>[](\A n \in Observer : flag[n] = "ok")
============================================================================
