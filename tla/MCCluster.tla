------------------------------ MODULE MCCluster ------------------------------
(***************************************************************************)
(* The parts of Redis that keep several servers in agreement, on small      *)
(* instances: the election of a new master in a cluster (ClusterElection),  *)
(* the link of a Sentinel to an instance (SentinelLink), and FAILOVER and   *)
(* WAIT (PlannedFailover).  They share no state: each behaviour is one of a *)
(* single component, picked by `focus', and the others keep their initial   *)
(* values.                                                                  *)
(***************************************************************************)
EXTENDS ClusterElection, SentinelLink, PlannedFailover, TLC

VARIABLE focus

ElectionSymmetry == Permutations(Voters) \cup Permutations(Group \ {Owner0})
Interchangeable == ElectionSymmetry \cup Permutations(Replica) \cup Permutations(Client)

MCInit == /\ focus \in {"election", "link", "planned"}
          /\ Init /\ LinkInit /\ PlannedInit

MCNext ==
  /\ UNCHANGED focus
  /\ \/ focus = "election" /\ Next        /\ UNCHANGED <<linkVars, plannedVars>>
     \/ focus = "link"     /\ LinkNext    /\ UNCHANGED <<vars, plannedVars>>
     \/ focus = "planned"  /\ PlannedNext /\ UNCHANGED <<vars, linkVars>>

MCSpec == MCInit /\ [][MCNext]_<<focus, vars, linkVars, plannedVars>>

\* Bound, for late votes: only automatic failovers, one election in epoch 2, no node but the
\* winner learns of a victory, and the candidates write nodes.conf late.
FewVictories ==
  /\ focus = "election"
  /\ \A m \in requests : ~m.force
  /\ \A v, w \in votes : v.epoch = 2 /\ w.epoch = 2 => v.to = w.to
  /\ \A n \in Node : owner[n] \in {Owner0, n}
  /\ \A n \in Group : owner[n] # n => savedEpoch[n] = 1
=============================================================================
