---------------------------- MODULE ClusterSlots ----------------------------
(***************************************************************************)
(* Who serves which hash slot in a Redis Cluster (cluster.c): the table    *)
(* every node keeps, the headers of PING and PONG packets and the UPDATE   *)
(* packets that spread it, config epochs and their collisions, resharding  *)
(* with CLUSTER SETSLOT and the takeover of a master by its replica.       *)
(*                                                                         *)
(* Packets travel on two links per pair of nodes, so those of one sender   *)
(* may overtake each other; a broken link loses them.  Elections are in    *)
(* module ClusterElection, failure detection in ClusterFailDetect.         *)
(***************************************************************************)
EXTENDS Integers, FiniteSets, Sequences

CONSTANTS Node,        \* numbers, in the order of the node names
          Slot,        \* numbers, in the order the code scans them
          Owner0,      \* slot -> the master that serves it at first
          Master0,     \* node -> its master, or None
          Epoch0,      \* node -> its config epoch at first
          None,
          MaxNet,      \* bound: packets in flight
          MaxEpoch,    \* bound: no command creates an epoch above it
          MaxReshards, \* bound: slots moved by the operator
          MaxTakeovers \* bound: CLUSTER FAILOVER TAKEOVER and BUMPEPOCH commands

\* The constants are those of a cluster: replicas own no slot, some node has the highest epoch.
ASSUME SlotsAssumption ==
  /\ Node \subseteq Nat /\ None \notin Node
  /\ Owner0 \in [Slot -> Node \cup {None}]
  /\ Master0 \in [Node -> Node \cup {None}]
  /\ Epoch0 \in [Node -> Nat]
  /\ \A n \in Node : Master0[n] # None => \A s \in Slot : Owner0[s] # n
  /\ \E top \in Node : \A n \in Node : Epoch0[n] <= Epoch0[top]

VARIABLES view,    \* node -> its table
          keys,    \* node -> the slots of which it holds keys
          net,     \* packets in flight
          op,      \* the operator's resharding: slot, source, target, step, nodes to tell
          reshards, takeovers

vars == <<view, keys, net, op, reshards, takeovers>>

Larger(a, b) == IF a > b THEN a ELSE b

----------------------------------------------------------------------------
(* A table v belongs to node v.me.                                         *)

IsMaster(v, n) == v.slaveof[n] = None
SlotsOf(v, n) == {s \in Slot : v.owner[s] = n}
MyMaster(v) == IF IsMaster(v, v.me) THEN v.me ELSE v.slaveof[v.me]

clusterGetMaxEpoch(v) ==
  CHOOSE e \in {v.cfg[n] : n \in Node} \cup {v.cur} :
    \A n \in Node : e >= v.cfg[n] /\ e >= v.cur

clusterBumpConfigEpochWithoutConsensus(v) ==
  IF v.cfg[v.me] = 0 \/ v.cfg[v.me] # clusterGetMaxEpoch(v)
  THEN [v EXCEPT !.cur = v.cur + 1, !.cfg[v.me] = v.cur + 1]
  ELSE v

\* Mutant: both nodes that collide move on, or none.
CollisionBySmallerSender(v, sender) ==
  IF /\ v.cfg[sender] = v.cfg[v.me]
     /\ IsMaster(v, sender) /\ IsMaster(v, v.me)
     /\ sender = v.me
  THEN [v EXCEPT !.cur = v.cur + 1, !.cfg[v.me] = v.cur + 1]
  ELSE v

\* A node with the smaller name moves on when it meets its own epoch.
clusterHandleConfigEpochCollision(v, sender) ==
  IF /\ v.cfg[sender] = v.cfg[v.me]
     /\ IsMaster(v, sender) /\ IsMaster(v, v.me)
     /\ sender > v.me
  THEN [v EXCEPT !.cur = v.cur + 1, !.cfg[v.me] = v.cur + 1]
  ELSE v

clusterSetNodeAsMaster(v, n) == [v EXCEPT !.slaveof[n] = None]

\* A master that becomes a replica closes its open slots.
clusterSetMaster(v, n) ==
  [v EXCEPT !.slaveof[v.me] = n,
            !.mig = IF IsMaster(v, v.me) THEN [s \in Slot |-> None] ELSE v.mig,
            !.imp = IF IsMaster(v, v.me) THEN [s \in Slot |-> None] ELSE v.imp]

----------------------------------------------------------------------------
(* A packet's effect is a table with the slots whose keys are deleted, a   *)
(* flag saying that the data is replaced by another master's, and the      *)
(* UPDATE packets sent back.                                               *)

Same(v) == [v |-> v, lost |-> {}, resync |-> FALSE, out |-> {}]

\* Mutant: the keys of lost slots stay.
UpdateKeepsKeys(v, sender, epoch, slots, held) ==
  LET curmaster == MyMaster(v)
      taken == {s \in slots :
                  /\ v.owner[s] # sender
                  /\ v.imp[s] = None
                  /\ v.owner[s] = None \/ v.cfg[v.owner[s]] < epoch}
      w     == [v EXCEPT !.owner = [s \in Slot |-> IF s \in taken THEN sender
                                                   ELSE v.owner[s]]]
  IN IF sender = v.me THEN Same(v)
     ELSE IF (\E s \in taken : v.owner[s] = curmaster) /\ SlotsOf(w, curmaster) = {}
     THEN [Same(clusterSetMaster(w, sender)) EXCEPT !.resync = TRUE]
     ELSE Same(w)

clusterUpdateSlotsConfigWith(v, sender, epoch, slots, held) ==
  LET curmaster == MyMaster(v)
      taken == {s \in slots :
                  /\ v.owner[s] # sender
                  /\ v.imp[s] = None
                  /\ v.owner[s] = None \/ v.cfg[v.owner[s]] < epoch}
      dirty == {s \in taken : v.owner[s] = v.me /\ s \in held}
      w     == [v EXCEPT !.owner = [s \in Slot |-> IF s \in taken THEN sender
                                                   ELSE v.owner[s]]]
  IN IF sender = v.me THEN Same(v)
     ELSE IF (\E s \in taken : v.owner[s] = curmaster) /\ SlotsOf(w, curmaster) = {}
     THEN [Same(clusterSetMaster(w, sender)) EXCEPT !.resync = TRUE]
     ELSE [Same(w) EXCEPT !.lost = dirty]

\* The header of a packet: a replica speaks of its master's slots and epoch.
clusterBuildMessageHdr(v, to) ==
  [type |-> "ping", from |-> v.me, to |-> to, cur |-> v.cur,
   cfg |-> v.cfg[MyMaster(v)], slots |-> SlotsOf(v, MyMaster(v)),
   slaveof |-> v.slaveof[v.me]]

clusterSendUpdate(v, to, about) ==
  [type |-> "update", from |-> v.me, to |-> to, cur |-> v.cur,
   cfg |-> v.cfg[MyMaster(v)], about |-> about, epoch |-> v.cfg[about],
   slots |-> SlotsOf(v, about)]

\* Epochs a packet of any type brings.
HearEpochs(v, m) ==
  [v EXCEPT !.cur = Larger(v.cur, m.cur), !.cfg[m.from] = Larger(v.cfg[m.from], m.cfg)]

\* The sender's role.
HearRole(v, m) ==
  IF m.slaveof = None THEN clusterSetNodeAsMaster(v, m.from)
  ELSE [v EXCEPT !.slaveof[m.from] = m.slaveof,
                 !.owner = IF IsMaster(v, m.from)
                           THEN [s \in Slot |-> IF v.owner[s] = m.from THEN None
                                                ELSE v.owner[s]]
                           ELSE v.owner]

\* The slots of the sender, or of its master, are not those it claims.
DirtySlots(v, m) ==
  SlotsOf(v, IF IsMaster(v, m.from) THEN m.from ELSE v.slaveof[m.from]) # m.slots

HearSlots(v, m, held) ==
  IF IsMaster(v, m.from) /\ DirtySlots(v, m)
  THEN clusterUpdateSlotsConfigWith(v, m.from, m.cfg, m.slots, held) ELSE Same(v)

\* The first slot in order that the sender claims with an old epoch tells whom
\* to inform it about.
StaleSlots(v, m) ==
  {s \in m.slots : v.owner[s] \notin {m.from, None} /\ v.cfg[v.owner[s]] > m.cfg}

Inform(v, m) ==
  {clusterSendUpdate(v, m.from, v.owner[s]) :
     s \in {s \in StaleSlots(v, m) : \A t \in StaleSlots(v, m) : s <= t}}

HearCollision(v, m) ==
  IF IsMaster(v, v.me) /\ IsMaster(v, m.from) /\ m.cfg = v.cfg[v.me]
  THEN clusterHandleConfigEpochCollision(v, m.from) ELSE v

\* v knows the sender's role, r is what its slots did.
Answered(v, m, r) ==
  [r EXCEPT !.v = HearCollision(r.v, m), !.out = IF DirtySlots(v, m) THEN Inform(r.v, m) ELSE {}]

ProcessPing(v0, m, held) ==
  LET v == HearRole(HearEpochs(v0, m), m) IN Answered(v, m, HearSlots(v, m, held))

ProcessUpdate(v0, m, held) ==
  LET v == HearEpochs(v0, m)
      w == [clusterSetNodeAsMaster(v, m.about) EXCEPT !.cfg[m.about] = m.epoch]
  IN IF v.cfg[m.about] >= m.epoch THEN Same(v)
     ELSE clusterUpdateSlotsConfigWith(w, m.about, m.epoch, m.slots, held)

clusterProcessPacket(v, m, held) ==
  IF m.type = "ping" THEN ProcessPing(v, m, held) ELSE ProcessUpdate(v, m, held)

----------------------------------------------------------------------------
NoOp == [step |-> "none", slot |-> None, from |-> None, to |-> None, tell |-> {}]

Init ==
  /\ view = [n \in Node |->
               [me |-> n, cur |-> CHOOSE e \in {Epoch0[m] : m \in Node} :
                                     \A m \in Node : e >= Epoch0[m],
                cfg |-> Epoch0, owner |-> Owner0, slaveof |-> Master0,
                mig |-> [s \in Slot |-> None], imp |-> [s \in Slot |-> None]]]
  /\ keys = [n \in Node |-> {s \in Slot : Owner0[s] = n}]
  /\ net = {}
  /\ op = NoOp
  /\ reshards = 0 /\ takeovers = 0

\* A PING or PONG goes out: every node sends them again and again, and at once
\* to all after it has taken slots (clusterBroadcastPong).
Send(a, b) ==
  /\ a # b
  /\ Cardinality(net) < MaxNet
  /\ net' = net \cup {clusterBuildMessageHdr(view[a], b)}
  /\ UNCHANGED <<view, keys, op, reshards, takeovers>>

\* A link breaks.
Lose(m) ==
  /\ net' = net \ {m}
  /\ UNCHANGED <<view, keys, op, reshards, takeovers>>

\* clusterSendUpdate sends nothing when there is no link to the sender.
Receive(m) ==
  LET n == m.to
      r == clusterProcessPacket(view[n], m, keys[n])
  IN /\ view' = [view EXCEPT ![n] = r.v]
     /\ keys' = [keys EXCEPT ![n] = IF r.resync THEN {} ELSE keys[n] \ r.lost]
     /\ \E out \in SUBSET r.out :
          /\ Cardinality((net \ {m}) \cup out) <= MaxNet
          /\ net' = (net \ {m}) \cup out
     /\ UNCHANGED <<op, reshards, takeovers>>

\* A client writes a key of a slot its node serves.
Write(n, s) ==
  /\ IsMaster(view[n], n) /\ view[n].owner[s] = n
  /\ view[n].mig[s] = None
  /\ s \notin keys[n]
  /\ keys' = [keys EXCEPT ![n] = keys[n] \cup {s}]
  /\ UNCHANGED <<view, net, op, reshards, takeovers>>

\* CLUSTER SETSLOT s IMPORTING from, at node n.
SetslotImporting(n, s, from) ==
  /\ IsMaster(view[n], n) /\ view[n].owner[s] # n
  /\ view' = [view EXCEPT ![n].imp[s] = from]

\* CLUSTER SETSLOT s MIGRATING to, at node n.
SetslotMigrating(n, s, to) ==
  /\ IsMaster(view[n], n) /\ view[n].owner[s] = n
  /\ view' = [view EXCEPT ![n].mig[s] = to]

\* CLUSTER SETSLOT s STABLE, at node n.
SetslotStable(n, s) ==
  /\ IsMaster(view[n], n)
  /\ view' = [view EXCEPT ![n].imp[s] = None, ![n].mig[s] = None]

\* CLUSTER SETSLOT s NODE o, at node n: the table that results.
SetslotNode(v, s, o, held) ==
  LET a == [v EXCEPT !.mig[s] = IF s \in held THEN v.mig[s] ELSE None,
                     !.owner[s] = o]
      b == IF o = v.me /\ v.imp[s] # None
           THEN [clusterBumpConfigEpochWithoutConsensus(a) EXCEPT !.imp[s] = None]
           ELSE a
  IN IF ~IsMaster(v, v.me) \/ (v.owner[s] = v.me /\ o # v.me /\ s \in held)
     THEN v ELSE b

\* Nothing that the nodes can still tell each other changes any table.
Exchanged(a, b) ==
  LET r == clusterProcessPacket(view[b], clusterBuildMessageHdr(view[a], b), keys[b])
  IN /\ r.v = view[b]
     /\ \A u \in r.out : clusterProcessPacket(view[a], u, keys[a]).v = view[a]

Settled == net = {} /\ \A a, b \in Node : a # b => Exchanged(a, b)

\* The operator moves a slot with redis-cli (clusterManagerMoveSlot): the target
\* is set importing, the source migrating, the keys follow with MIGRATE, and
\* every master is told of the new owner, in the order redis-cli happens to list
\* them.  It begins only when all nodes agree, as redis-cli checks first.
StartReshard(s, from, to) ==
  /\ op = NoOp /\ Settled /\ reshards < MaxReshards
  /\ from # to
  /\ view[from].owner[s] = from
  /\ SetslotImporting(to, s, from)
  /\ op' = [step |-> "importing", slot |-> s, from |-> from, to |-> to,
            tell |-> {n \in Node : IsMaster(view[n], n)}]
  /\ reshards' = reshards + 1
  /\ UNCHANGED <<keys, net, takeovers>>

StartMigrating ==
  /\ op.step = "importing"
  /\ SetslotMigrating(op.from, op.slot, op.to)
  /\ op' = [op EXCEPT !.step = "moving"]
  /\ UNCHANGED <<keys, net, reshards, takeovers>>

\* MIGRATE of the keys: the target takes them while it is importing the slot
\* or owns it.
MigrateKeys ==
  LET s == op.slot
      v == view[op.to]
  IN /\ op.step = "moving"
     /\ IsMaster(v, op.to) /\ (v.imp[s] # None \/ v.owner[s] = op.to)
     /\ s \in keys[op.from]
     /\ keys' = [keys EXCEPT ![op.from] = keys[op.from] \ {s},
                             ![op.to] = keys[op.to] \cup {s}]
     /\ UNCHANGED <<view, net, op, reshards, takeovers>>

\* A master is told that the slot has moved.  The first one that refuses ends
\* the command and leaves the slot open.
Tell(n) ==
  LET refused == \/ ~IsMaster(view[n], n)
                 \/ view[n].owner[op.slot] = n /\ n # op.to /\ op.slot \in keys[n]
  IN /\ \/ op.step = "moving" /\ op.slot \notin keys[op.from]
        \/ op.step = "telling"
     /\ n \in op.tell
     /\ n = op.to => view[n].cur < MaxEpoch
     /\ view' = [view EXCEPT ![n] = SetslotNode(view[n], op.slot, op.to, keys[n])]
     /\ op' = IF refused \/ op.tell = {n} THEN NoOp
              ELSE [op EXCEPT !.step = "telling", !.tell = op.tell \ {n}]
     /\ UNCHANGED <<keys, net, reshards, takeovers>>

\* A resharding is given up: the slot is set stable on both sides, which the
\* operator does only when the target got no key.
GiveUp ==
  /\ op.step \in {"importing", "moving"}
  /\ op.slot \notin keys[op.to]
  /\ SetslotStable(op.to, op.slot)
  /\ op' = [op EXCEPT !.step = "stopping"]
  /\ UNCHANGED <<keys, net, reshards, takeovers>>

GivenUp ==
  /\ op.step = "stopping"
  /\ SetslotStable(op.from, op.slot) \/ (~IsMaster(view[op.from], op.from) /\ UNCHANGED view)
  /\ op' = NoOp
  /\ UNCHANGED <<keys, net, reshards, takeovers>>

\* clusterFailoverReplaceYourMaster.
ReplaceYourMaster(v) ==
  LET old == v.slaveof[v.me]
  IN [clusterSetNodeAsMaster(v, v.me) EXCEPT
        !.owner = [s \in Slot |-> IF v.owner[s] = old THEN v.me ELSE v.owner[s]]]

\* CLUSTER FAILOVER TAKEOVER: the replica has its master's keys.
Takeover(n) ==
  /\ ~IsMaster(view[n], n)
  /\ takeovers < MaxTakeovers /\ view[n].cur < MaxEpoch
  /\ view' = [view EXCEPT ![n] =
                ReplaceYourMaster(clusterBumpConfigEpochWithoutConsensus(view[n]))]
  /\ keys' = [keys EXCEPT ![n] = keys[view[n].slaveof[n]]
                                   \cap {s \in Slot : view'[n].owner[s] = n}]
  /\ takeovers' = takeovers + 1
  /\ UNCHANGED <<net, op, reshards>>

\* CLUSTER BUMPEPOCH.
Bumpepoch(n) ==
  /\ takeovers < MaxTakeovers /\ view[n].cur < MaxEpoch
  /\ view' = [view EXCEPT ![n] = clusterBumpConfigEpochWithoutConsensus(view[n])]
  /\ takeovers' = takeovers + 1
  /\ UNCHANGED <<keys, net, op, reshards>>

Next ==
  \/ \E a, b \in Node : Send(a, b)
  \/ \E m \in net : Lose(m) \/ Receive(m)
  \/ \E n \in Node : (\E s \in Slot : Write(n, s)) \/ Tell(n) \/ Takeover(n) \/ Bumpepoch(n)
  \/ \E s \in Slot, from, to \in Node : StartReshard(s, from, to)
  \/ StartMigrating \/ MigrateKeys \/ GiveUp \/ GivenUp

Spec == Init /\ [][Next]_vars

----------------------------------------------------------------------------
(* Properties.                                                             *)

\* No node knows of a config epoch above its own current epoch, so an epoch it
\* makes up for itself (clusterBumpConfigEpochWithoutConsensus, a collision) is
\* above every one it has heard of.
EpochsAreCovered ==
  \A n, m \in Node : view[n].cfg[m] <= view[n].cur

\* A master holds keys only of slots it serves or is importing: what it loses
\* to a node with a newer configuration is deleted with the slot.
KeysHaveASlot ==
  \A n \in Node : IsMaster(view[n], n) =>
    \A s \in keys[n] : view[n].owner[s] = n \/ view[n].imp[s] # None

\* A replica serves no slots, which clusterSetMaster asserts each time a node
\* is given a master.
ReplicasServeNothing ==
  \A n \in Node : ~IsMaster(view[n], n) => SlotsOf(view[n], n) = {}

\* The three of them: what holds of the tables at every step.
TablesAreSafe == EpochsAreCovered /\ KeysHaveASlot /\ ReplicasServeNothing

\* No two masters have one config epoch.
EpochsDistinct ==
  \A n, m \in Node :
    n # m /\ IsMaster(view[n], n) /\ IsMaster(view[m], m) =>
      view[n].cfg[n] # view[m].cfg[m]

\* No two nodes serve one slot.
OneOwnerEach ==
  \A n, m \in Node : \A s \in Slot :
    view[n].owner[s] = n /\ view[m].owner[s] = m => n = m

\* A master that does not know the one that serves a slot imports the slot, or
\* knows of whom it takes for the owner a config epoch that is not smaller: one
\* that was raised after the slot had gone elsewhere.
OwnersAreKnown ==
  \A n, m \in Node : \A s \in Slot :
    view[n].owner[s] = n /\ IsMaster(view[m], m) =>
      \/ view[m].owner[s] = n \/ view[m].imp[s] # None
      \/ /\ view[m].owner[s] # None
         /\ view[m].cfg[view[m].owner[s]] >= view[n].cfg[n]

\* What the exchange of tables comes to, whatever was moved, taken over, lost and
\* overtaken before: the three of them hold, unless a heartbeat still brings news
\* (comment of clusterHandleConfigEpochCollision: "a system that eventually
\* always ends with different masters having different configuration epochs").
NewsSettles == (EpochsDistinct /\ OneOwnerEach /\ OwnersAreKnown) \/ ~Settled
=============================================================================
