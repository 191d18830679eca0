------------------------- MODULE ClusterSlotsProofs -------------------------
(***************************************************************************)
(* What holds of the slot tables at every step, for any nodes and slots.   *)
(***************************************************************************)
EXTENDS ClusterSlots, TLAPS

NodeOrNone == Node \cup {None}

Table == [me : Node, cur : Nat, cfg : [Node -> Nat], owner : [Slot -> NodeOrNone],
          slaveof : [Node -> NodeOrNone], mig : [Slot -> NodeOrNone], imp : [Slot -> NodeOrNone]]

Ping == [type : {"ping"}, from : Node, to : Node, cur : Nat, cfg : Nat, slots : SUBSET Slot,
         slaveof : NodeOrNone]
Update == [type : {"update"}, from : Node, to : Node, cur : Nat, cfg : Nat, about : Node,
           epoch : Nat, slots : SUBSET Slot]

\* A table knows of no epoch above its own; a replica serves no slot and imports none.
Covered(v) == \A n \in Node : v.cfg[n] <= v.cur
Served(v)  == v.slaveof[v.me] # None =>
                \A s \in Slot : v.owner[s] # v.me /\ v.imp[s] = None
Fit(v, n) == v \in Table /\ v.me = n /\ Covered(v) /\ Served(v)

\* The keys a node holds are of slots it serves or imports; a replica is counted as empty.
KeysFit(v, held) ==
  /\ held \subseteq Slot
  /\ v.slaveof[v.me] # None => held = {}
  /\ \A s \in held : v.owner[s] = v.me \/ v.imp[s] # None

\* A packet speaks of no epoch above that of its sender.
PacketFit(m) ==
  /\ m \in Ping \cup Update /\ m.from # m.to /\ m.cfg <= m.cur
  /\ m.type = "update" => m.epoch <= m.cur

\* Until the masters are told of the new owner, the old one serves the slot if a resharding
\* that failed has left it importing.
OpFit ==
  op.step \in {"importing", "moving", "stopping"} =>
    /\ op.slot \in Slot /\ op.from \in Node /\ op.to \in Node
    /\ view[op.from].imp[op.slot] # None => view[op.from].owner[op.slot] = op.from

SlotsInv ==
  /\ view \in [Node -> Table] /\ keys \in [Node -> SUBSET Slot]
  /\ \A n \in Node : Fit(view[n], n) /\ KeysFit(view[n], keys[n])
  /\ \A m \in net : PacketFit(m)
  /\ op.step # "none" => op.slot \in Slot /\ op.to \in Node
  /\ OpFit

\* The importing slots of w were importing in v, and those that v served w serves.
Follows(v, w) ==
  \A s \in Slot : w.imp[s] # None =>
    v.imp[s] # None /\ (v.owner[s] = v.me => w.owner[s] = v.me)

-----------------------------------------------------------------------------
(* The helpers.                                                            *)

\* Epochs that a node makes up for itself stay covered, and only epochs change.
LEMMA BumpFits ==
  ASSUME NEW n \in Node, NEW v, Fit(v, n), NEW w,
         \/ w = clusterBumpConfigEpochWithoutConsensus(v)
         \/ \E sender \in Node : w = clusterHandleConfigEpochCollision(v, sender)
  PROVE  Fit(w, n) /\ w.owner = v.owner /\ w.imp = v.imp /\ w.slaveof = v.slaveof
<1>1. w = v \/ w = [v EXCEPT !.cur = v.cur + 1, !.cfg[v.me] = v.cur + 1]
  BY Zenon DEF clusterBumpConfigEpochWithoutConsensus, clusterHandleConfigEpochCollision
<1>2. CASE w = v
  BY <1>2, Zenon
<1>3. CASE w = [v EXCEPT !.cur = v.cur + 1, !.cfg[v.me] = v.cur + 1]
  <2>0. PICK c : c = [v.cfg EXCEPT ![v.me] = v.cur + 1]
    BY Zenon
  <2>a. c \in [Node -> Nat] /\ v.cur + 1 \in Nat /\ v \in Table
    BY <2>0 DEF Fit, Table
  <2>b. w = [v EXCEPT !.cur = v.cur + 1, !.cfg = c]
    BY <1>3, <2>0, <2>a, Zenon DEF Table
  <2>1. w \in Table /\ w.me = n /\ w.owner = v.owner /\ w.imp = v.imp /\ w.slaveof = v.slaveof
    BY <2>a, <2>b, Zenon DEF Fit, Table
  <2>2. Covered(w)
    BY <1>3 DEF Fit, Table, Covered
  <2>. QED
    BY <2>1, <2>2, Zenon DEF Fit, Served
<1>. QED
  BY <1>1, <1>2, <1>3, Zenon

\* A node that hears of slots with a newer owner gives them up, with their keys, and becomes a
\* replica when none is left.
LEMMA UpdateFits ==
  ASSUME NEW n \in Node, NEW v, Fit(v, n), NEW held, KeysFit(v, held),
         NEW sender \in Node, NEW epoch \in Nat, NEW slots \in SUBSET Slot, NEW r,
         r = clusterUpdateSlotsConfigWith(v, sender, epoch, slots, held)
  PROVE  /\ Fit(r.v, n) /\ KeysFit(r.v, IF r.resync THEN {} ELSE held \ r.lost)
         /\ Follows(v, r.v) /\ r.out = {}
<1>1. PICK taken : taken = {s \in slots : /\ v.owner[s] # sender /\ v.imp[s] = None
                                          /\ v.owner[s] = None \/ v.cfg[v.owner[s]] < epoch}
  BY Zenon
<1>2. PICK w : w = [v EXCEPT !.owner = [s \in Slot |-> IF s \in taken THEN sender
                                                       ELSE v.owner[s]]]
  BY Zenon
<1>3. PICK dirty : dirty = {s \in taken : v.owner[s] = v.me /\ s \in held}
  BY Zenon
<1>4. r = IF sender = v.me THEN Same(v)
          ELSE IF (\E s \in taken : v.owner[s] = MyMaster(v)) /\ SlotsOf(w, MyMaster(v)) = {}
          THEN [Same(clusterSetMaster(w, sender)) EXCEPT !.resync = TRUE]
          ELSE [Same(w) EXCEPT !.lost = dirty]
  BY <1>1, <1>2, <1>3, Zenon DEF clusterUpdateSlotsConfigWith
<1>5. CASE sender = v.me
  BY <1>4, <1>5 DEF Same, Follows, KeysFit
<1>6. ASSUME sender # v.me
      PROVE  /\ w \in Table /\ w.me = n /\ Covered(w) /\ w.imp = v.imp /\ w.slaveof = v.slaveof
             /\ \A s \in Slot : w.owner[s] = IF s \in taken THEN sender ELSE v.owner[s]
             /\ \A s \in Slot : w.owner[s] = w.me => v.owner[s] = v.me /\ s \notin taken
  BY <1>2, <1>6, Zenon DEF Fit, Table, Covered, NodeOrNone
<1>7. CASE sender # v.me /\ (\E s \in taken : v.owner[s] = MyMaster(v))
                         /\ SlotsOf(w, MyMaster(v)) = {}
  <2>1. PICK u : u = clusterSetMaster(w, sender)
    BY Zenon
  <2>2. r.v = u /\ r.resync = TRUE /\ r.out = {}
    BY <1>4, <1>7, <2>1, Zenon DEF Same
  <2>3. u \in Table /\ u.me = n /\ u.cfg = w.cfg /\ u.cur = w.cur /\ u.owner = w.owner
    BY <1>6, <1>7, <2>1, Zenon DEF clusterSetMaster, Table, NodeOrNone
  <2>4. \A s \in Slot : u.imp[s] = None
    BY <1>6, <1>7, <2>1, Zenon DEF clusterSetMaster, Table, IsMaster, Fit, Served
  <2>5. \A s \in Slot : u.owner[s] # u.me
    BY <1>6, <1>7, <2>3 DEF Fit, Served, MyMaster, IsMaster, SlotsOf
  <2>. QED
    BY <1>6, <1>7, <2>2, <2>3, <2>4, <2>5, ZenonT(60) DEF Fit, Covered, Served, KeysFit, Follows
<1>8. CASE sender # v.me /\ ~((\E s \in taken : v.owner[s] = MyMaster(v))
                              /\ SlotsOf(w, MyMaster(v)) = {})
  <2>1. r.v = w /\ r.resync = FALSE /\ r.lost = dirty /\ r.out = {}
    BY <1>4, <1>8, Zenon DEF Same
  <2>2. Fit(w, n)
    BY <1>6, <1>8, Zenon DEF Fit, Served
  <2>3. KeysFit(w, held \ dirty)
    BY <1>1, <1>3, <1>6, <1>8, Zenon DEF Fit, KeysFit
  <2>4. Follows(v, w)
    BY <1>1, <1>6, <1>8, Zenon DEF Follows, Fit
  <2>. QED
    BY <2>1, <2>2, <2>3, <2>4, Zenon
<1>. QED
  BY <1>5, <1>7, <1>8, Zenon

\* What a node hears of epochs and roles in the header of a packet.
LEMMA HearFits ==
  ASSUME NEW n \in Node, NEW v, Fit(v, n), NEW held, KeysFit(v, held),
         NEW m, PacketFit(m), m.to = n
  PROVE  /\ Fit(HearEpochs(v, m), n) /\ KeysFit(HearEpochs(v, m), held)
         /\ Follows(v, HearEpochs(v, m)) /\ m.cur <= HearEpochs(v, m).cur
         /\ m.type = "ping" =>
              /\ Fit(HearRole(HearEpochs(v, m), m), n)
              /\ KeysFit(HearRole(HearEpochs(v, m), m), held)
              /\ Follows(v, HearRole(HearEpochs(v, m), m))
<1>0. m.from \in Node /\ m.from # n /\ m.cur \in Nat /\ m.cfg \in Nat /\ m.cfg <= m.cur
  BY Zenon DEF PacketFit, Ping, Update
<1>1. PICK w : w = HearEpochs(v, m)
  BY Zenon
<1>2. /\ w \in Table /\ w.me = n /\ w.owner = v.owner /\ w.imp = v.imp /\ w.slaveof = v.slaveof
      /\ v.cur <= w.cur /\ m.cur <= w.cur
  <2>1. PICK c : c = [v.cfg EXCEPT ![m.from] = Larger(v.cfg[m.from], m.cfg)]
    BY Zenon
  <2>2. c \in [Node -> Nat] /\ v \in Table
    BY <1>0, <2>1, Zenon DEF Fit, Table, Larger
  <2>3. w = [v EXCEPT !.cur = Larger(v.cur, m.cur), !.cfg = c]
    BY <1>0, <1>1, <2>1, <2>2, Zenon DEF HearEpochs, Table
  <2>4. Larger(v.cur, m.cur) \in Nat /\ v.cur <= Larger(v.cur, m.cur)
        /\ m.cur <= Larger(v.cur, m.cur)
    BY <1>0, <2>2 DEF Larger, Table
  <2>. QED
    BY <2>2, <2>3, <2>4, Zenon DEF Fit, Table
<1>3. Covered(w)
  BY <1>0, <1>1, <1>2 DEF HearEpochs, Fit, Table, Larger, Covered
<1>4. Fit(w, n) /\ KeysFit(w, held) /\ Follows(v, w)
  BY <1>2, <1>3, Zenon DEF Fit, Served, KeysFit, Follows
<1>5. ASSUME m.type = "ping", NEW u, u = HearRole(w, m)
      PROVE  Fit(u, n) /\ KeysFit(u, held) /\ Follows(v, u)
  <2>0. m.slaveof \in NodeOrNone
    BY <1>5, Zenon DEF PacketFit, Ping, Update
  <2>1. u \in Table /\ u.me = n /\ u.cur = w.cur /\ u.cfg = w.cfg /\ u.imp = w.imp
    BY <1>0, <1>2, <1>5, <2>0, ZenonT(60) DEF HearRole, clusterSetNodeAsMaster, Table, NodeOrNone
  <2>2. u.slaveof[n] = w.slaveof[n]
    BY <1>0, <1>2, <1>5, <2>0, Zenon DEF HearRole, clusterSetNodeAsMaster, Table
  <2>3. \A s \in Slot : u.owner[s] = n <=> w.owner[s] = n
    BY <1>0, <1>2, <1>5, SlotsAssumption, Zenon DEF HearRole, clusterSetNodeAsMaster, Table
  <2>. QED
    BY <1>2, <1>3, <1>4, <2>1, <2>2, <2>3 DEF Fit, Covered, Served, KeysFit, Follows
<1>. QED
  BY <1>1, <1>2, <1>4, <1>5, Zenon

-----------------------------------------------------------------------------
(* Packets.                                                                *)

\* A header and an UPDATE speak of what the table of the sender covers.
LEMMA PacketsFit ==
  ASSUME NEW n \in Node, NEW v, Fit(v, n), NEW to \in Node, to # n
  PROVE  /\ PacketFit(clusterBuildMessageHdr(v, to))
         /\ \A about \in Node : PacketFit(clusterSendUpdate(v, to, about))
<1>1. MyMaster(v) \in Node
  BY Zenon DEF Fit, Table, MyMaster, IsMaster, NodeOrNone
<1>2. /\ v.me = n /\ v.cur \in Nat /\ v.slaveof[v.me] \in NodeOrNone
      /\ \A k \in Node : v.cfg[k] \in Nat /\ v.cfg[k] <= v.cur
      /\ \A k : SlotsOf(v, k) \in SUBSET Slot
  BY Zenon DEF Fit, Table, Covered, SlotsOf
<1>3. PICK h : h = clusterBuildMessageHdr(v, to)
  BY Zenon
<1>4. h \in Ping /\ h.from # h.to /\ h.cfg <= h.cur /\ h.type = "ping"
  BY <1>1, <1>2, <1>3, Zenon DEF clusterBuildMessageHdr, Ping
<1>5. ASSUME NEW about \in Node PROVE PacketFit(clusterSendUpdate(v, to, about))
  <2>1. PICK u : u = clusterSendUpdate(v, to, about)
    BY Zenon
  <2>2. u \in Update /\ u.from # u.to /\ u.cfg <= u.cur /\ u.epoch <= u.cur
    BY <1>1, <1>2, <2>1, Zenon DEF clusterSendUpdate, Update
  <2>. QED
    BY <2>1, <2>2, Zenon DEF PacketFit
<1>. QED
  BY <1>3, <1>4, <1>5, Zenon DEF PacketFit

\* What a PING or PONG does to the table, the keys and the packets sent.
LEMMA ProcessPingFits ==
  ASSUME NEW n \in Node, NEW v0, Fit(v0, n), NEW held, KeysFit(v0, held),
         NEW m, PacketFit(m), m.to = n, m.type = "ping", NEW q, q = ProcessPing(v0, m, held)
  PROVE  /\ Fit(q.v, n) /\ KeysFit(q.v, IF q.resync THEN {} ELSE held \ q.lost)
         /\ Follows(v0, q.v) /\ \A u \in q.out : PacketFit(u)
<1>1. PICK v : v = HearRole(HearEpochs(v0, m), m)
  BY Zenon
<1>2. Fit(v, n) /\ KeysFit(v, held) /\ Follows(v0, v)
  BY <1>1, HearFits, Zenon
<1>3. PICK from, cfg, slots : from = m.from /\ cfg = m.cfg /\ slots = m.slots
  BY Zenon
<1>4. from \in Node /\ from # n /\ cfg \in Nat /\ slots \in SUBSET Slot
  BY <1>3, Zenon DEF PacketFit, Ping, Update
<1>5. PICK r : r = HearSlots(v, m, held)
  BY Zenon
<1>6. r = clusterUpdateSlotsConfigWith(v, from, cfg, slots, held) \/ r = Same(v)
  BY <1>3, <1>5, Zenon DEF HearSlots
<1>7. PICK w : w = r.v
  BY Zenon
<1>8. Fit(w, n) /\ KeysFit(w, IF r.resync THEN {} ELSE held \ r.lost) /\ Follows(v, w)
  <2>1. CASE r = clusterUpdateSlotsConfigWith(v, from, cfg, slots, held)
    BY <1>2, <1>4, <1>7, <2>1, UpdateFits, Zenon
  <2>2. CASE r = Same(v)
    BY <1>2, <1>7, <2>2, Zenon DEF Same, KeysFit, Follows
  <2>. QED
    BY <1>6, <2>1, <2>2, Zenon
<1>9. PICK u : u = HearCollision(w, m)
  BY Zenon
<1>10. Fit(u, n) /\ u.owner = w.owner /\ u.imp = w.imp /\ u.slaveof = w.slaveof
  <2>1. u = w \/ u = clusterHandleConfigEpochCollision(w, from)
    BY <1>3, <1>9, Zenon DEF HearCollision
  <2>. QED
    BY <1>4, <1>8, <2>1, BumpFits
<1>11. KeysFit(u, IF r.resync THEN {} ELSE held \ r.lost) /\ Follows(v0, u)
  <2>1. v0.me = n /\ v.me = n /\ w.me = n /\ u.me = n
    BY <1>2, <1>8, <1>10, Zenon DEF Fit
  <2>. QED
    BY <1>2, <1>8, <1>10, <2>1, ZenonT(60) DEF KeysFit, Follows
<1>12. q = Answered(v, m, r)
  BY <1>1, <1>5, Zenon DEF ProcessPing
<1>13. q.v = u /\ q.resync = r.resync /\ q.lost = r.lost
       /\ q.out = (IF DirtySlots(v, m) THEN Inform(w, m) ELSE {})
  BY <1>6, <1>7, <1>9, <1>12, Zenon DEF Answered, clusterUpdateSlotsConfigWith, Same
<1>14. \A p \in Inform(w, m) : PacketFit(p)
  <2>. SUFFICES ASSUME NEW s \in StaleSlots(w, m)
                PROVE  PacketFit(clusterSendUpdate(w, from, w.owner[s]))
    BY <1>3, Zenon DEF Inform
  <2>1. w.owner[s] \in Node
    BY <1>3, <1>4, <1>8 DEF StaleSlots, Fit, Table, NodeOrNone
  <2>. QED
    BY <1>4, <1>8, <2>1, PacketsFit, Zenon
<1>. QED
  BY <1>10, <1>11, <1>13, <1>14, Zenon

\* ... and what an UPDATE does.
LEMMA ProcessUpdateFits ==
  ASSUME NEW n \in Node, NEW v0, Fit(v0, n), NEW held, KeysFit(v0, held),
         NEW m, PacketFit(m), m.to = n, m.type = "update", NEW q, q = ProcessUpdate(v0, m, held)
  PROVE  /\ Fit(q.v, n) /\ KeysFit(q.v, IF q.resync THEN {} ELSE held \ q.lost)
         /\ Follows(v0, q.v) /\ \A u \in q.out : PacketFit(u)
<1>1. PICK v : v = HearEpochs(v0, m)
  BY Zenon
<1>2. Fit(v, n) /\ KeysFit(v, held) /\ Follows(v0, v) /\ m.cur <= v.cur
  BY <1>1, HearFits, Zenon
<1>3. PICK w : w = [clusterSetNodeAsMaster(v, m.about) EXCEPT !.cfg[m.about] = m.epoch]
  BY Zenon
<1>4. /\ m.about \in Node /\ m.epoch \in Nat /\ m.cur \in Nat /\ m.epoch <= m.cur
      /\ m.slots \in SUBSET Slot
  BY Zenon DEF PacketFit, Ping, Update
<1>5. /\ w \in Table /\ w.me = n /\ w.owner = v.owner /\ w.imp = v.imp /\ w.cur = v.cur
      /\ w.slaveof[n] \in {v.slaveof[n], None}
      /\ \A k \in Node : w.cfg[k] = IF k = m.about THEN m.epoch ELSE v.cfg[k]
  <2>1. PICK c, o : /\ c = [v.cfg EXCEPT ![m.about] = m.epoch]
                    /\ o = [v.slaveof EXCEPT ![m.about] = None]
    BY Zenon
  <2>2. c \in [Node -> Nat] /\ o \in [Node -> NodeOrNone] /\ v \in Table /\ v.me = n
    BY <1>2, <1>4, <2>1, Zenon DEF Fit, Table, NodeOrNone
  <2>3. w = [v EXCEPT !.slaveof = o, !.cfg = c]
    BY <1>3, <2>1, <2>2, Zenon DEF clusterSetNodeAsMaster, Table
  <2>4. w.slaveof = o /\ w.cfg = c /\ w \in Table /\ w.me = n /\ w.owner = v.owner
        /\ w.imp = v.imp /\ w.cur = v.cur
    BY <2>2, <2>3, Zenon DEF Table
  <2>. QED
    BY <1>4, <2>1, <2>2, <2>4 DEF Table
<1>6. Covered(w)
  BY <1>2, <1>4, <1>5 DEF Covered, Fit, Table
<1>7. Fit(w, n) /\ KeysFit(w, held) /\ Follows(v0, w)
  BY <1>2, <1>5, <1>6, ZenonT(60) DEF Fit, Served, KeysFit, Follows
<1>8. CASE v.cfg[m.about] >= m.epoch
  <2>1. q = Same(v)
    BY <1>1, <1>8, Zenon DEF ProcessUpdate
  <2>2. q.v = v /\ q.resync = FALSE /\ q.lost = {} /\ q.out = {}
    BY <2>1 DEF Same
  <2>3. KeysFit(v, held \ {})
    BY <1>2, Zenon DEF KeysFit
  <2>. QED
    BY <1>2, <2>2, <2>3, Zenon
<1>9. CASE ~(v.cfg[m.about] >= m.epoch)
  <2>0. PICK about, epoch, slots : about = m.about /\ epoch = m.epoch /\ slots = m.slots
    BY Zenon
  <2>1. q = clusterUpdateSlotsConfigWith(w, about, epoch, slots, held)
    BY <1>1, <1>3, <1>9, <2>0, Zenon DEF ProcessUpdate
  <2>2. /\ Fit(q.v, n) /\ KeysFit(q.v, IF q.resync THEN {} ELSE held \ q.lost)
        /\ Follows(w, q.v) /\ q.out = {}
    <3>1. about \in Node /\ epoch \in Nat /\ slots \in SUBSET Slot
      BY <1>4, <2>0, Zenon
    <3>2. Fit(w, n) /\ KeysFit(w, held)
      BY <1>7, Zenon
    <3>. QED
      BY <2>1, <3>1, <3>2, UpdateFits
  <2>3. Follows(v0, q.v)
    <3>1. v0.me = n /\ w.me = n
      BY <1>5, Zenon DEF Fit
    <3>. QED
      BY <1>7, <2>2, <3>1, Zenon DEF Follows
  <2>. QED
    BY <2>2, <2>3, Zenon
<1>. QED
  BY <1>8, <1>9, Zenon

-----------------------------------------------------------------------------
(* The steps.                                                              *)

LEMMA InitFits == Init => SlotsInv
<1>. SUFFICES ASSUME Init PROVE SlotsInv
  BY Zenon
<1>1. PICK top \in Node : \A n \in Node : Epoch0[n] <= Epoch0[top]
  BY SlotsAssumption, Zenon
<1>2. PICK cur : cur = CHOOSE e \in {Epoch0[m] : m \in Node} : \A m \in Node : e >= Epoch0[m]
  BY Zenon
<1>3. cur \in Nat /\ \A m \in Node : Epoch0[m] <= cur
  <2>1. Epoch0[top] \in {Epoch0[m] : m \in Node} /\ \A m \in Node : Epoch0[top] >= Epoch0[m]
    BY <1>1, SlotsAssumption, Zenon
  <2>2. cur \in {Epoch0[m] : m \in Node} /\ \A m \in Node : cur >= Epoch0[m]
    BY <1>2, <2>1, Zenon
  <2>. QED
    BY <2>2, SlotsAssumption, Zenon
<1>4. ASSUME NEW n \in Node PROVE Fit(view[n], n) /\ KeysFit(view[n], keys[n])
  <2>1. PICK v : v = view[n]
    BY Zenon
  <2>2. v = [me |-> n, cur |-> cur, cfg |-> Epoch0, owner |-> Owner0, slaveof |-> Master0,
             mig |-> [s \in Slot |-> None], imp |-> [s \in Slot |-> None]]
    BY <1>2, <2>1, Zenon DEF Init
  <2>3. v \in Table /\ v.me = n
    BY <1>3, <2>2, SlotsAssumption, Zenon DEF Table, NodeOrNone
  <2>4. Covered(v)
    BY <1>3, <2>2, Zenon DEF Covered
  <2>5. Served(v)
    BY <2>2, SlotsAssumption, Zenon DEF Served
  <2>6. keys[n] = {s \in Slot : Owner0[s] = n}
    BY Zenon DEF Init
  <2>7. KeysFit(v, keys[n])
    BY <2>2, <2>6, SlotsAssumption, Zenon DEF KeysFit
  <2>. QED
    BY <2>1, <2>3, <2>4, <2>5, <2>7, Zenon DEF Fit
<1>5. view \in [Node -> Table] /\ keys \in [Node -> SUBSET Slot] /\ net = {} /\ op.step = "none"
  BY <1>4, Zenon DEF Init, NoOp, Fit, KeysFit
<1>. QED
  BY <1>4, <1>5, Zenon DEF SlotsInv, OpFit

\* A step that changes the table and the keys of one node leaves the others fit.
LEMMA OneNodeFits ==
  ASSUME SlotsInv, NEW n \in Node, NEW v, NEW held,
         view' = [view EXCEPT ![n] = v], keys' = [keys EXCEPT ![n] = held],
         Fit(v, n), KeysFit(v, held)
  PROVE  /\ view' \in [Node -> Table] /\ keys' \in [Node -> SUBSET Slot]
         /\ \A k \in Node : Fit(view'[k], k) /\ KeysFit(view'[k], keys'[k])
BY ZenonT(60) DEF SlotsInv, Fit, KeysFit

\* If its table follows, a resharding under way is not disturbed.
LEMMA OpStaysFit ==
  ASSUME SlotsInv, NEW n \in Node, NEW v, view' = [view EXCEPT ![n] = v], op' = op,
         Fit(v, n), Follows(view[n], v)
  PROVE  OpFit'
<1>. SUFFICES ASSUME op.step \in {"importing", "moving", "stopping"}
              PROVE  /\ op.slot \in Slot /\ op.from \in Node /\ op.to \in Node
                     /\ view'[op.from].imp[op.slot] # None =>
                          view'[op.from].owner[op.slot] = op.from
  BY Zenon DEF OpFit
<1>1. /\ op.slot \in Slot /\ op.from \in Node /\ op.to \in Node
      /\ view[op.from].imp[op.slot] # None => view[op.from].owner[op.slot] = op.from
  BY Zenon DEF SlotsInv, OpFit
<1>2. view[n].me = n /\ view \in [Node -> Table]
  BY Zenon DEF SlotsInv, Fit
<1>. QED
  BY <1>1, <1>2, Zenon DEF Follows

LEMMA ReceiveFits ==
  ASSUME SlotsInv, NEW m \in net, Receive(m)
  PROVE  SlotsInv'
<1>0. PacketFit(m)
  BY Zenon DEF SlotsInv
<1>1. PICK n \in Node : n = m.to
  BY <1>0, Zenon DEF PacketFit, Ping, Update
<1>2. PICK v, held, r : v = view[n] /\ held = keys[n] /\ r = clusterProcessPacket(v, m, held)
  BY Zenon
<1>3. Fit(v, n) /\ KeysFit(v, held)
  BY <1>2, Zenon DEF SlotsInv
<1>4. PICK left : left = IF r.resync THEN {} ELSE held \ r.lost
  BY Zenon
<1>5. Fit(r.v, n) /\ KeysFit(r.v, left) /\ Follows(v, r.v) /\ \A u \in r.out : PacketFit(u)
  <2>1. CASE m.type = "ping"
    <3>1. r = ProcessPing(v, m, held)
      BY <1>2, <2>1, Zenon DEF clusterProcessPacket
    <3>. QED
      BY <1>0, <1>1, <1>3, <1>4, <2>1, <3>1, ProcessPingFits, Zenon
  <2>2. CASE m.type = "update"
    <3>1. r = ProcessUpdate(v, m, held)
      BY <1>2, <2>2, Zenon DEF clusterProcessPacket
    <3>. QED
      BY <1>0, <1>1, <1>3, <1>4, <2>2, <3>1, ProcessUpdateFits, Zenon
  <2>. QED
    BY <1>0, <2>1, <2>2, Zenon DEF PacketFit, Ping, Update
<1>6. /\ view' = [view EXCEPT ![n] = r.v] /\ keys' = [keys EXCEPT ![n] = left]
      /\ net' \subseteq net \cup r.out /\ op' = op
  BY <1>1, <1>2, <1>4, Zenon DEF Receive
<1>7. PICK w : w = r.v
  BY Zenon
<1>8. /\ view' \in [Node -> Table] /\ keys' \in [Node -> SUBSET Slot]
      /\ \A k \in Node : Fit(view'[k], k) /\ KeysFit(view'[k], keys'[k])
  BY <1>5, <1>6, <1>7, OneNodeFits, Zenon
<1>9. OpFit'
  BY <1>2, <1>5, <1>6, <1>7, OpStaysFit, Zenon
<1>10. \A u \in net' : PacketFit(u)
  BY <1>5, <1>6, Zenon DEF SlotsInv
<1>. QED
  BY <1>6, <1>8, <1>9, <1>10, Zenon DEF SlotsInv

\* CLUSTER SETSLOT NODE at a node of which a resharding tells.
LEMMA TellFits ==
  ASSUME SlotsInv, NEW n \in Node, Tell(n)
  PROVE  SlotsInv'
<1>1. PICK v, held, s, o : v = view[n] /\ held = keys[n] /\ s = op.slot /\ o = op.to
  BY Zenon
<1>2. Fit(v, n) /\ KeysFit(v, held)
  BY <1>1, Zenon DEF SlotsInv
<1>3. s \in Slot /\ o \in Node
  BY <1>1, Zenon DEF SlotsInv, Tell
<1>4. PICK w : w = SetslotNode(v, s, o, held)
  BY Zenon
<1>5. view' = [view EXCEPT ![n] = w] /\ keys' = [keys EXCEPT ![n] = held] /\ net' = net
  <2>1. keys' = keys /\ keys \in [Node -> SUBSET Slot] /\ net' = net
    BY Zenon DEF Tell, SlotsInv
  <2>2. view' = [view EXCEPT ![n] = w]
    BY <1>1, <1>4, Zenon DEF Tell
  <2>. QED
    BY <1>1, <2>1, <2>2, Zenon
<1>6. PICK mig, owner : /\ mig = [v.mig EXCEPT ![s] = IF s \in held THEN v.mig[s] ELSE None]
                        /\ owner = [v.owner EXCEPT ![s] = o]
  BY Zenon
<1>7. PICK a : a = [v EXCEPT !.mig = mig, !.owner = owner]
  BY Zenon
<1>8. /\ a \in Table /\ a.me = n /\ a.cur = v.cur /\ a.cfg = v.cfg /\ a.imp = v.imp
      /\ a.slaveof = v.slaveof
      /\ \A t \in Slot : a.owner[t] = IF t = s THEN o ELSE v.owner[t]
  <2>1. v \in Table /\ v.me = n
    BY <1>2, Zenon DEF Fit
  <2>2. mig \in [Slot -> NodeOrNone] /\ owner \in [Slot -> NodeOrNone]
    BY <1>3, <1>6, <2>1, Zenon DEF Table, NodeOrNone
  <2>3. /\ a \in Table /\ a.me = n /\ a.cur = v.cur /\ a.cfg = v.cfg /\ a.imp = v.imp
        /\ a.slaveof = v.slaveof /\ a.owner = owner
    BY <1>7, <2>1, <2>2, ZenonT(60) DEF Table
  <2>. QED
    BY <1>3, <1>6, <2>1, <2>3, Zenon DEF Table
<1>10. ASSUME IsMaster(v, v.me), ~(v.owner[s] = v.me /\ o # v.me /\ s \in held)
       PROVE  Fit(w, n) /\ KeysFit(w, held)
  <2>1. w = IF o = v.me /\ v.imp[s] # None
              THEN [clusterBumpConfigEpochWithoutConsensus(a) EXCEPT !.imp[s] = None] ELSE a
    <3>1. a = [v EXCEPT !.mig[s] = IF s \in held THEN v.mig[s] ELSE None, !.owner[s] = o]
      BY <1>2, <1>6, <1>7, Zenon DEF Fit, Table
    <3>. QED
      BY <1>4, <1>10, <3>1 DEF SetslotNode
  <2>2. Fit(a, n)
    BY <1>2, <1>8, <1>10, Zenon DEF Fit, Covered, Served, IsMaster
  <2>3. CASE o = v.me /\ v.imp[s] # None
    <3>1. PICK b : b = clusterBumpConfigEpochWithoutConsensus(a)
      BY Zenon
    <3>2. Fit(b, n) /\ b.owner = a.owner /\ b.imp = a.imp /\ b.slaveof = a.slaveof
      BY <2>2, <3>1, BumpFits, ZenonT(60)
    <3>3. PICK imp : imp = [b.imp EXCEPT ![s] = None]
      BY Zenon
    <3>4. b \in Table /\ b.me = n /\ imp \in [Slot -> NodeOrNone]
          /\ \A t \in Slot : imp[t] = IF t = s THEN None ELSE b.imp[t]
      BY <3>2, <3>3, ZenonT(60) DEF Fit, Table, NodeOrNone
    <3>5. w = [b EXCEPT !.imp = imp]
      BY <2>1, <2>3, <3>1, <3>3, <3>4, Zenon DEF Table
    <3>6. /\ w \in Table /\ w.me = n /\ w.cur = b.cur /\ w.cfg = b.cfg /\ w.imp = imp
          /\ w.slaveof = b.slaveof /\ w.owner = b.owner
      BY <3>4, <3>5, Zenon DEF Table
    <3>7. Fit(w, n)
      BY <1>2, <1>8, <1>10, <3>2, <3>6, Zenon DEF Fit, Covered, Served, IsMaster
    <3>8. KeysFit(w, held)
      <4>1. w.slaveof[w.me] = None /\ v.me = n
        BY <1>2, <1>8, <1>10, <3>2, <3>6, Zenon DEF IsMaster, Fit
      <4>. QED
        BY <1>2, <1>8, <2>3, <3>2, <3>4, <3>6, <4>1 DEF KeysFit
    <3>. QED
      BY <3>7, <3>8, Zenon
  <2>4. CASE ~(o = v.me /\ v.imp[s] # None)
    <3>1. w = a /\ v.me = n /\ v.slaveof[n] = None
      BY <1>2, <1>10, <2>1, <2>4, Zenon DEF Fit, IsMaster
    <3>2. KeysFit(a, held)
      BY <1>2, <1>8, <1>10, <3>1, Zenon DEF KeysFit
    <3>. QED
      BY <2>2, <3>1, <3>2, Zenon
  <2>. QED
    BY <2>3, <2>4, Zenon
<1>11. Fit(w, n) /\ KeysFit(w, held)
  <2>1. CASE ~IsMaster(v, v.me) \/ (v.owner[s] = v.me /\ o # v.me /\ s \in held)
    <3>1. w = v
      BY <1>4, <2>1, Zenon DEF SetslotNode
    <3>. QED
      BY <1>2, <3>1, Zenon
  <2>. QED
    BY <1>10, <2>1, Zenon
<1>12. /\ view' \in [Node -> Table] /\ keys' \in [Node -> SUBSET Slot]
       /\ \A k \in Node : Fit(view'[k], k) /\ KeysFit(view'[k], keys'[k])
  BY <1>5, <1>11, OneNodeFits, Zenon
<1>13. op' = NoOp \/ op' = [op EXCEPT !.step = "telling", !.tell = op.tell \ {n}]
  BY Zenon DEF Tell
<1>14. CASE op' = NoOp
  BY <1>5, <1>12, <1>14, Zenon DEF SlotsInv, OpFit, NoOp
<1>15. CASE op' = [op EXCEPT !.step = "telling", !.tell = op.tell \ {n}]
  <2>1. op'.step \notin {"importing", "moving", "stopping"} /\ op'.slot = op.slot /\ op'.to = op.to
    BY <1>15 DEF SlotsInv
  <2>2. op'.step # "none" => op'.slot \in Slot /\ op'.to \in Node
    BY <1>1, <1>3, <2>1, Zenon
  <2>. QED
    BY <1>5, <1>12, <2>1, <2>2, Zenon DEF SlotsInv, OpFit
<1>. QED
  BY <1>13, <1>14, <1>15, Zenon

\* v and w differ at most in what is migrating and in whether s is importing.
Reopened(v, w, s) ==
  /\ w \in Table /\ w.me = v.me /\ w.cur = v.cur /\ w.cfg = v.cfg /\ w.owner = v.owner
  /\ w.slaveof = v.slaveof /\ \A t \in Slot : t # s => w.imp[t] = v.imp[t]

\* A master may open and close a slot; it closes one of which it has keys only if it serves it.
LEMMA ReopenFits ==
  ASSUME SlotsInv, NEW n \in Node, NEW s \in Slot, NEW v, v = view[n], NEW w, Reopened(v, w, s),
         v.slaveof[n] = None, s \in keys[n] => v.owner[s] = n \/ w.imp[s] # None,
         view' = [view EXCEPT ![n] = w], keys' = keys
  PROVE  /\ view' \in [Node -> Table] /\ keys' \in [Node -> SUBSET Slot]
         /\ \A k \in Node : Fit(view'[k], k) /\ KeysFit(view'[k], keys'[k])
<1>1. Fit(v, n) /\ v.me = n /\ KeysFit(v, keys[n]) /\ keys \in [Node -> SUBSET Slot]
  BY Zenon DEF SlotsInv, Fit
<1>2. Fit(w, n)
  BY <1>1, Zenon DEF Fit, Covered, Served, Reopened
<1>3. PICK held : held = keys[n]
  BY Zenon
<1>4. KeysFit(w, held)
  BY <1>1, <1>3, ZenonT(60) DEF KeysFit, Reopened
<1>5. keys' = [keys EXCEPT ![n] = held]
  BY <1>1, <1>3, Zenon
<1>. QED
  BY <1>2, <1>4, <1>5, OneNodeFits, Zenon

\* The commands of the operator.
LEMMA OperatorFits ==
  ASSUME SlotsInv,
         \/ \E s \in Slot, from, to \in Node : StartReshard(s, from, to)
         \/ StartMigrating \/ MigrateKeys \/ GiveUp \/ GivenUp
  PROVE  SlotsInv'
<1>. USE DEF SlotsInv
<1>2. ASSUME NEW s \in Slot, NEW from \in Node, NEW to \in Node, StartReshard(s, from, to)
      PROVE  SlotsInv'
  <2>1. PICK v : v = view[to]
    BY Zenon
  <2>2. /\ v.slaveof[to] = None /\ from # to /\ view[from].owner[s] = from /\ from # None
        /\ view' = [view EXCEPT ![to].imp[s] = from] /\ keys' = keys /\ net' = net
        /\ op' = [step |-> "importing", slot |-> s, from |-> from, to |-> to,
                  tell |-> {n \in Node : IsMaster(view[n], n)}]
    BY <1>2, <2>1, SlotsAssumption, Zenon DEF StartReshard, SetslotImporting, IsMaster
  <2>3. PICK w : view' = [view EXCEPT ![to] = w] /\ Reopened(v, w, s) /\ w.imp[s] = from
    <3>1. PICK i : i = [v.imp EXCEPT ![s] = from]
      BY Zenon
    <3>2. PICK w : w = [v EXCEPT !.imp = i]
      BY Zenon
    <3>3. v \in Table /\ i \in [Slot -> NodeOrNone] /\ i[s] = from
          /\ \A t \in Slot : t # s => i[t] = v.imp[t]
      BY <2>1, <3>1, Zenon DEF Table, NodeOrNone
    <3>4. Reopened(v, w, s) /\ w.imp[s] = from
      BY <3>2, <3>3, Zenon DEF Reopened, Table
    <3>5. view' = [view EXCEPT ![to] = w]
      BY <2>1, <2>2, <3>1, <3>2, Zenon
    <3>. QED
      BY <3>4, <3>5, Zenon
  <2>4. /\ view' \in [Node -> Table] /\ keys' \in [Node -> SUBSET Slot]
        /\ \A k \in Node : Fit(view'[k], k) /\ KeysFit(view'[k], keys'[k])
    BY <2>1, <2>2, <2>3, ReopenFits, ZenonT(60)
  <2>5. OpFit'
    BY <2>2, <2>3, Zenon DEF OpFit
  <2>. QED
    BY <2>2, <2>4, <2>5, Zenon
<1>3. CASE StartMigrating
  <2>1. PICK n, s, v, to : n = op.from /\ s = op.slot /\ v = view[n] /\ to = op.to
    BY Zenon
  <2>2. n \in Node /\ s \in Slot /\ to \in Node
    BY <1>3, <2>1, Zenon DEF StartMigrating, OpFit
  <2>3. /\ v.slaveof[n] = None /\ v.owner[s] = n /\ keys' = keys /\ net' = net
        /\ view' = [view EXCEPT ![n].mig[s] = to] /\ op' = [op EXCEPT !.step = "moving"]
    BY <1>3, <2>1, Zenon DEF StartMigrating, SetslotMigrating, IsMaster
  <2>4. PICK g : g = [v.mig EXCEPT ![s] = to]
    BY Zenon
  <2>5. PICK w : w = [v EXCEPT !.mig = g]
    BY Zenon
  <2>6. Reopened(v, w, s) /\ w.owner = v.owner
    <3>1. v \in Table /\ g \in [Slot -> NodeOrNone]
      BY <2>1, <2>2, <2>4, Zenon DEF Table, NodeOrNone
    <3>. QED
      BY <2>5, <3>1, Zenon DEF Reopened, Table
  <2>7. view' = [view EXCEPT ![n] = w]
    BY <2>1, <2>3, <2>4, <2>5, Zenon
  <2>8. /\ view' \in [Node -> Table] /\ keys' \in [Node -> SUBSET Slot]
        /\ \A k \in Node : Fit(view'[k], k) /\ KeysFit(view'[k], keys'[k])
    BY <2>1, <2>2, <2>3, <2>6, <2>7, ReopenFits, ZenonT(60)
  <2>9. op'.step = "moving" /\ op'.slot = s /\ op'.from = n /\ op'.to = to
    BY <1>3, <2>1, <2>3 DEF StartMigrating
  <2>10. OpFit'
    BY <2>1, <2>2, <2>3, <2>6, <2>7, <2>9 DEF OpFit
  <2>. QED
    BY <2>2, <2>3, <2>8, <2>9, <2>10, Zenon
<1>4. CASE MigrateKeys
  <2>1. PICK s, from, to : s = op.slot /\ from = op.from /\ to = op.to
    BY Zenon
  <2>2. s \in Slot /\ from \in Node /\ to \in Node
    BY <1>4, <2>1, Zenon DEF MigrateKeys, OpFit
  <2>3. /\ IsMaster(view[to], to) /\ (view[to].imp[s] # None \/ view[to].owner[s] = to)
        /\ keys' = [keys EXCEPT ![from] = keys[from] \ {s}, ![to] = keys[to] \cup {s}]
        /\ view' = view /\ net' = net /\ op' = op
    BY <1>4, <2>1, Zenon DEF MigrateKeys
  <2>4. keys' \in [Node -> SUBSET Slot] /\ \A k \in Node \ {to} : keys'[k] \subseteq keys[k]
        /\ keys'[to] = keys[to] \cup {s}
    BY <2>2, <2>3, Zenon
  <2>5. \A k \in Node : view[k].me = k
    BY Zenon DEF Fit
  <2>6. \A k \in Node : KeysFit(view[k], keys'[k])
    BY <2>2, <2>3, <2>4, <2>5, SMTT(40) DEF KeysFit, IsMaster
  <2>. QED
    BY <2>3, <2>4, <2>6, ZenonT(60) DEF OpFit
<1>5. ASSUME NEW n \in Node, NEW s \in Slot, SetslotStable(n, s), keys' = keys,
             s \in keys[n] => view[n].owner[s] = n
      PROVE  /\ view' \in [Node -> Table] /\ keys' \in [Node -> SUBSET Slot]
             /\ \A k \in Node : Fit(view'[k], k) /\ KeysFit(view'[k], keys'[k])
             /\ \A k \in Node : view'[k].owner = view[k].owner
             /\ \A k \in Node, t \in Slot : view'[k].imp[t] # None => view[k].imp[t] # None
  <2>1. PICK v, i, g : /\ v = view[n] /\ i = [v.imp EXCEPT ![s] = None]
                       /\ g = [v.mig EXCEPT ![s] = None]
    BY Zenon
  <2>2. PICK w : w = [v EXCEPT !.imp = i, !.mig = g]
    BY Zenon
  <2>3. v \in Table /\ i \in [Slot -> NodeOrNone] /\ g \in [Slot -> NodeOrNone]
        /\ i[s] = None /\ \A t \in Slot : t # s => i[t] = v.imp[t]
    BY <2>1, Zenon DEF Table, NodeOrNone
  <2>4. Reopened(v, w, s) /\ w.imp[s] = None /\ w.owner = v.owner
    BY <2>2, <2>3, Zenon DEF Reopened, Table
  <2>5. view' = [view EXCEPT ![n] = w] /\ v.slaveof[n] = None
    BY <1>5, <2>1, <2>2, ZenonT(60) DEF SetslotStable, IsMaster
  <2>6. /\ view' \in [Node -> Table] /\ keys' \in [Node -> SUBSET Slot]
        /\ \A k \in Node : Fit(view'[k], k) /\ KeysFit(view'[k], keys'[k])
    BY <1>5, <2>1, <2>4, <2>5, ReopenFits, Zenon
  <2>. QED
    BY <2>1, <2>4, <2>5, <2>6, Zenon DEF Reopened
<1>6. CASE GiveUp
  <2>1. PICK n, s : n = op.to /\ s = op.slot
    BY Zenon
  <2>2. n \in Node /\ s \in Slot /\ op.from \in Node
        /\ (view[op.from].imp[s] # None => view[op.from].owner[s] = op.from)
    BY <1>6, <2>1, Zenon DEF GiveUp, OpFit
  <2>3. /\ SetslotStable(n, s) /\ s \notin keys[n] /\ keys' = keys /\ net' = net
        /\ op' = [op EXCEPT !.step = "stopping"]
    BY <1>6, <2>1, Zenon DEF GiveUp
  <2>4. op'.step = "stopping" /\ op'.slot = s /\ op'.from = op.from /\ op'.to = n
    BY <1>6, <2>1, <2>3 DEF GiveUp
  <2>. QED
    BY <1>5, <2>2, <2>3, <2>4, ZenonT(60) DEF OpFit
<1>7. CASE GivenUp
  <2>1. PICK n, s : n = op.from /\ s = op.slot
    BY Zenon
  <2>2. n \in Node /\ s \in Slot /\ (view[n].imp[s] # None => view[n].owner[s] = n)
    BY <1>7, <2>1, Zenon DEF GivenUp, OpFit
  <2>3. keys' = keys /\ net' = net /\ op' = NoOp
    BY <1>7, Zenon DEF GivenUp
  <2>4. CASE SetslotStable(n, s)
    <3>1. s \in keys[n] => view[n].owner[s] = n
      BY <2>2, Zenon DEF KeysFit, Fit
    <3>. QED
      BY <1>5, <2>2, <2>3, <2>4, <3>1, Zenon DEF OpFit, NoOp
  <2>5. CASE UNCHANGED view
    BY <2>3, <2>5, Zenon DEF OpFit, NoOp
  <2>. QED
    BY <1>7, <2>1, <2>4, <2>5, Zenon DEF GivenUp
<1>. QED
  BY <1>2, <1>3, <1>4, <1>6, <1>7, Zenon

\* CLUSTER FAILOVER TAKEOVER and CLUSTER BUMPEPOCH.
LEMMA TakeoverFits ==
  ASSUME SlotsInv, NEW n \in Node, Takeover(n) \/ Bumpepoch(n)
  PROVE  SlotsInv'
<1>1. PICK v, w : v = view[n] /\ w = clusterBumpConfigEpochWithoutConsensus(v)
  BY Zenon
<1>2. Fit(v, n) /\ KeysFit(v, keys[n]) /\ v.me = n
  BY <1>1, Zenon DEF SlotsInv, Fit
<1>3. Fit(w, n) /\ w.owner = v.owner /\ w.imp = v.imp /\ w.slaveof = v.slaveof
  BY <1>1, <1>2, BumpFits
<1>4. w.me = n /\ w \in Table /\ KeysFit(w, keys[n]) /\ Follows(v, w)
  BY <1>2, <1>3, Zenon DEF Fit, KeysFit, Follows
<1>5. CASE Bumpepoch(n)
  <2>1. view' = [view EXCEPT ![n] = w] /\ keys' = [keys EXCEPT ![n] = keys[n]]
        /\ net' = net /\ op' = op
    BY <1>1, <1>5, Zenon DEF Bumpepoch, SlotsInv
  <2>2. PICK held : held = keys[n]
    BY Zenon
  <2>3. /\ view' \in [Node -> Table] /\ keys' \in [Node -> SUBSET Slot]
        /\ \A k \in Node : Fit(view'[k], k) /\ KeysFit(view'[k], keys'[k])
    BY <1>3, <1>4, <2>1, <2>2, OneNodeFits, Zenon
  <2>4. OpFit'
    BY <1>1, <1>3, <1>4, <2>1, OpStaysFit, Zenon
  <2>. QED
    BY <2>1, <2>3, <2>4, Zenon DEF SlotsInv
<1>6. CASE Takeover(n)
  <2>1. PICK u : u = ReplaceYourMaster(w)
    BY Zenon
  <2>2. PICK o, owner : /\ o = [w.slaveof EXCEPT ![n] = None]
                        /\ owner = [s \in Slot |-> IF w.owner[s] = w.slaveof[n] THEN n
                                                   ELSE w.owner[s]]
    BY Zenon
  <2>3. o \in [Node -> NodeOrNone] /\ owner \in [Slot -> NodeOrNone] /\ o[n] = None
        /\ \A s \in Slot : w.owner[s] = n => owner[s] = n
    BY <1>4, <2>2, Zenon DEF Table, NodeOrNone
  <2>4. u = [w EXCEPT !.slaveof = o, !.owner = owner]
    BY <1>4, <2>1, <2>2, Zenon DEF ReplaceYourMaster, clusterSetNodeAsMaster, Table
  <2>5. /\ u \in Table /\ u.me = n /\ u.cur = w.cur /\ u.cfg = w.cfg /\ u.imp = w.imp
        /\ u.slaveof = o /\ u.owner = owner
    BY <1>4, <2>3, <2>4, ZenonT(60) DEF Table
  <2>6. Fit(u, n) /\ Follows(v, u)
    BY <1>2, <1>3, <2>3, <2>5, ZenonT(60) DEF Fit, Covered, Served, Follows
  <2>7. PICK held : held = keys[view[n].slaveof[n]] \cap {s \in Slot : u.owner[s] = n}
    BY Zenon
  <2>8. KeysFit(u, held)
    BY <2>3, <2>5, <2>7, Zenon DEF KeysFit
  <2>9. view' = [view EXCEPT ![n] = u] /\ net' = net /\ op' = op
    BY <1>1, <1>6, <2>1, Zenon DEF Takeover
  <2>10. view'[n] = u
    BY <2>9, Zenon DEF SlotsInv
  <2>11. keys' = [keys EXCEPT ![n] = held]
    BY <1>6, <2>7, <2>10, Zenon DEF Takeover
  <2>12. /\ view' \in [Node -> Table] /\ keys' \in [Node -> SUBSET Slot]
         /\ \A k \in Node : Fit(view'[k], k) /\ KeysFit(view'[k], keys'[k])
    BY <2>6, <2>8, <2>9, <2>11, OneNodeFits, Zenon
  <2>13. OpFit'
    BY <1>1, <2>6, <2>9, OpStaysFit, Zenon
  <2>. QED
    BY <2>9, <2>12, <2>13, Zenon DEF SlotsInv
<1>. QED
  BY <1>5, <1>6, Zenon

\* Packets that are sent or lost, and writes.
LEMMA TrafficFits ==
  ASSUME SlotsInv,
         \/ \E a, b \in Node : Send(a, b)
         \/ \E m \in net : Lose(m)
         \/ \E n \in Node, s \in Slot : Write(n, s)
  PROVE  SlotsInv'
<1>1. CASE \E a, b \in Node : Send(a, b)
  <2>1. PICK a \in Node, b \in Node : Send(a, b)
    BY <1>1, Zenon
  <2>2. PICK v : v = view[a]
    BY Zenon
  <2>3. PacketFit(clusterBuildMessageHdr(v, b))
    BY <2>1, <2>2, PacketsFit, Zenon DEF Send, SlotsInv
  <2>. QED
    BY <2>1, <2>2, <2>3, Zenon DEF Send, SlotsInv, OpFit
<1>2. CASE \E m \in net : Lose(m)
  BY <1>2, Zenon DEF Lose, SlotsInv, OpFit
<1>3. CASE \E n \in Node, s \in Slot : Write(n, s)
  <2>1. PICK n \in Node, s \in Slot : Write(n, s)
    BY <1>3, Zenon
  <2>2. keys' \in [Node -> SUBSET Slot] /\ view[n].me = n
    BY <2>1, ZenonT(60) DEF Write, SlotsInv, Fit
  <2>3. \A k \in Node : KeysFit(view[k], keys'[k])
    BY <2>1, <2>2, ZenonT(60) DEF Write, SlotsInv, KeysFit, IsMaster
  <2>. QED
    BY <2>1, <2>2, <2>3, Zenon DEF Write, SlotsInv, OpFit
<1>. QED
  BY <1>1, <1>2, <1>3, Zenon

LEMMA SlotsStep == SlotsInv /\ [Next]_vars => SlotsInv'
<1>. SUFFICES ASSUME SlotsInv, [Next]_vars PROVE SlotsInv'
  BY Zenon
<1>1. CASE UNCHANGED vars
  BY <1>1, Zenon DEF vars, SlotsInv, OpFit
<1>2. CASE Next
  BY <1>2, ReceiveFits, TellFits, OperatorFits, TakeoverFits, TrafficFits, Zenon DEF Next
<1>. QED
  BY <1>1, <1>2, Zenon

\* The three properties of the tables hold at every step: no node knows of a config epoch above
\* its current one, a master holds keys only of slots it serves or imports, a replica serves no
\* slots - whatever packets are lost or overtake each other, slots are moved, reshardings given
\* up or refused, and masters taken over (clusterProcessPacket, clusterUpdateSlotsConfigWith).
THEOREM TablesStaySafe == Spec => []TablesAreSafe
<1>1. Init => SlotsInv
  BY InitFits, Zenon
<1>3. SlotsInv => TablesAreSafe
  BY DEF SlotsInv, Fit, Covered, Served, KeysFit, TablesAreSafe, EpochsAreCovered, KeysHaveASlot,
         ReplicasServeNothing, IsMaster, SlotsOf
<1>. QED
  BY <1>1, <1>3, SlotsStep, PTL DEF Spec
=============================================================================
