------------------------- MODULE ClusterNewsProofs -------------------------
(***************************************************************************)
(* Proof of what the exchange of slot tables comes to: once the heartbeats *)
(* teach nobody anything, the masters' config epochs are distinct and no   *)
(* slot is served twice.                                                   *)
(*                                                                         *)
(* Nobody takes a master's config epoch for greater than it is: a master   *)
(* speaks of its own, which only grows, and a replica of epochs up to its  *)
(* current one, which it exceeds or equals when it takes over.  So the     *)
(* reader of a heartbeat knows the sender's epoch exactly, and compares    *)
(* it with its own and with that of the owner of each slot it claims.      *)
(***************************************************************************)
EXTENDS ClusterSlotsProofs

\* The greatest config epoch that the node of table v may have spoken of.
Top(v) == IF v.slaveof[v.me] = None THEN v.cfg[v.me] ELSE v.cur

PacketKnown(p) ==
  /\ p.cfg <= Top(view[p.from])
  /\ p.type = "update" => p.about # p.to /\ p.epoch <= Top(view[p.about])

\* A node does not import what it serves.
ImportsFit(v) == \A s \in Slot : v.imp[s] # None => v.owner[s] # v.me

NewsInv ==
  /\ \A n, m \in Node : view[n].cfg[m] <= Top(view[m])
  /\ \A p \in net : PacketKnown(p)
  /\ \A n \in Node : ImportsFit(view[n])

\* What changes in a table by steps that neither take over slots nor open them.
Heard(v, w) ==
  /\ v.me = w.me /\ v.cur <= w.cur /\ v.cfg[v.me] <= w.cfg[v.me]
  /\ w.slaveof[v.me] # v.slaveof[v.me] => w.slaveof[v.me] # None
  /\ \A s \in Slot : w.owner[s] = v.me => v.owner[s] = v.me
  /\ \A s \in Slot : w.imp[s] # None => v.imp[s] # None

LEMMA TopIsEpoch ==
  ASSUME NEW n \in Node, NEW v, Fit(v, n)
  PROVE  Top(v) \in Nat /\ v.cfg[n] <= Top(v) /\ Top(v) <= v.cur
BY DEF Fit, Table, Covered, Top

LEMMA HeardGrows ==
  ASSUME NEW n \in Node, NEW v, Fit(v, n), NEW w, Fit(w, n), Heard(v, w)
  PROVE  Top(v) <= Top(w) /\ (ImportsFit(v) => ImportsFit(w))
<1>1. v.me = n /\ w.me = n
  BY Zenon DEF Fit
<1>2. v.cur \in Nat /\ w.cur \in Nat /\ v.cfg[n] \in Nat /\ w.cfg[n] \in Nat
      /\ v.cfg[n] <= v.cur
  BY Zenon DEF Fit, Table, Covered
<1>3. Top(v) <= Top(w)
  BY <1>1, <1>2 DEF Heard, Top
<1>4. ImportsFit(v) => ImportsFit(w)
  BY <1>1, Zenon DEF Heard, ImportsFit
<1>. QED
  BY <1>3, <1>4, Zenon

LEMMA HeardTwice ==
  ASSUME NEW n \in Node, NEW u, Fit(u, n), NEW v, Fit(v, n), NEW w, Fit(w, n),
         Heard(u, v), Heard(v, w)
  PROVE  Heard(u, w)
<1>1. u.me = n /\ v.me = n /\ w.me = n
  BY Zenon DEF Fit
<1>2. u.cur \in Nat /\ v.cur \in Nat /\ w.cur \in Nat /\ u.cfg[n] \in Nat /\ v.cfg[n] \in Nat
      /\ w.cfg[n] \in Nat
  BY Zenon DEF Fit, Table
<1>. QED
  BY <1>1, <1>2 DEF Heard

\* An epoch a node makes up is above its current one, and only its own changes.
LEMMA BumpHeard ==
  ASSUME NEW n \in Node, NEW v, Fit(v, n), NEW w,
         \/ w = clusterBumpConfigEpochWithoutConsensus(v)
         \/ \E sender \in Node : w = clusterHandleConfigEpochCollision(v, sender)
  PROVE  /\ Heard(v, w) /\ \A k \in Node \ {n} : w.cfg[k] = v.cfg[k]
         /\ w = clusterBumpConfigEpochWithoutConsensus(v) => v.cur <= w.cfg[n]
<1>0. v \in Table /\ v.me = n /\ Covered(v) /\ v.cur \in Nat /\ v.cfg \in [Node -> Nat]
  BY Zenon DEF Fit, Table
<1>1. CASE w = v /\ w # clusterBumpConfigEpochWithoutConsensus(v)
  BY <1>0, <1>1 DEF Heard
<1>2. CASE w = [v EXCEPT !.cur = v.cur + 1, !.cfg[v.me] = v.cur + 1]
  <2>1. /\ w.me = n /\ w.cur = v.cur + 1 /\ w.slaveof = v.slaveof /\ w.owner = v.owner
        /\ w.imp = v.imp /\ w.cfg = [v.cfg EXCEPT ![n] = v.cur + 1]
    BY <1>0, <1>2, Zenon DEF Table
  <2>. QED
    BY <1>0, <2>1 DEF Heard, Covered
<1>3. CASE w = v /\ w = clusterBumpConfigEpochWithoutConsensus(v)
  <2>1. v.cur # v.cur + 1
    BY <1>0
  <2>2. v.cfg[n] = clusterGetMaxEpoch(v)
    <3>1. [v EXCEPT !.cur = v.cur + 1, !.cfg[v.me] = v.cur + 1].cur = v.cur + 1
      BY <1>0, Zenon DEF Table
    <3>. QED
      BY <1>0, <1>3, <2>1, <3>1, Zenon DEF clusterBumpConfigEpochWithoutConsensus
  <2>3. /\ v.cur \in {v.cfg[k] : k \in Node} \cup {v.cur}
        /\ \A k \in Node : v.cur >= v.cfg[k] /\ v.cur >= v.cur
    BY <1>0 DEF Covered
  <2>4. clusterGetMaxEpoch(v) >= v.cur
    BY <2>3, Zenon DEF clusterGetMaxEpoch
  <2>5. v.cur <= v.cfg[n]
    <3>1. PICK e : e = clusterGetMaxEpoch(v)
      BY Zenon
    <3>. QED
      BY <1>0, <2>2, <2>4, <3>1, Zenon
  <2>6. Heard(v, v)
    BY <1>0 DEF Heard
  <2>. QED
    BY <1>3, <2>5, <2>6, Zenon
<1>. QED
  BY <1>1, <1>2, <1>3, Zenon DEF clusterBumpConfigEpochWithoutConsensus, clusterHandleConfigEpochCollision

\* Table w has the slots that `sender' claims with a newer epoch, and the roles of v but for its own.
Takes(v, w, sender, epoch, slots) ==
  /\ \A k \in Node : k # v.me => w.slaveof[k] = v.slaveof[k]
  /\ \A s \in slots : /\ sender # v.me /\ v.owner[s] # sender /\ v.imp[s] = None
                      /\ v.owner[s] = None \/ v.cfg[v.owner[s]] < epoch
                      => w.owner[s] = sender

\* What a node hears of slots: it takes those claimed with a newer epoch, and may become a replica.
LEMMA UpdateHeard ==
  ASSUME NEW n \in Node, NEW v, Fit(v, n), NEW held, KeysFit(v, held),
         NEW sender \in Node, NEW epoch \in Nat, NEW slots \in SUBSET Slot, NEW r,
         r = clusterUpdateSlotsConfigWith(v, sender, epoch, slots, held)
  PROVE  Heard(v, r.v) /\ r.v.cfg = v.cfg /\ Takes(v, r.v, sender, epoch, slots)
<1>0. v \in Table /\ v.me = n /\ v.cur \in Nat /\ v.cfg \in [Node -> Nat]
  BY Zenon DEF Fit, Table
<1>1. PICK taken : taken = {s \in slots : /\ v.owner[s] # sender /\ v.imp[s] = None
                                          /\ v.owner[s] = None \/ v.cfg[v.owner[s]] < epoch}
  BY Zenon
<1>2. PICK w : w = [v EXCEPT !.owner = [s \in Slot |-> IF s \in taken THEN sender
                                                       ELSE v.owner[s]]]
  BY Zenon
<1>3. PICK dirty : dirty = {s \in taken : v.owner[s] = v.me /\ s \in held}
  BY Zenon
<1>4. r = IF sender = v.me THEN Same(v)
          ELSE IF (\E s \in taken : v.owner[s] = MyMaster(v)) /\ SlotsOf(w, MyMaster(v)) = {}
          THEN [Same(clusterSetMaster(w, sender)) EXCEPT !.resync = TRUE]
          ELSE [Same(w) EXCEPT !.lost = dirty]
  BY <1>1, <1>2, <1>3, Zenon DEF clusterUpdateSlotsConfigWith
<1>5. CASE sender = n
  <2>1. r.v = v
    BY <1>0, <1>4, <1>5 DEF Same
  <2>. QED
    BY <1>0, <1>5, <2>1 DEF Heard, Takes
<1>6. CASE sender # n
  <2>1. /\ w \in Table /\ w.me = n /\ w.cfg = v.cfg /\ w.cur = v.cur /\ w.imp = v.imp
        /\ w.slaveof = v.slaveof
        /\ \A s \in Slot : w.owner[s] = IF s \in taken THEN sender ELSE v.owner[s]
    BY <1>0, <1>2, Zenon DEF Table, NodeOrNone
  <2>2. PICK u : u = clusterSetMaster(w, sender)
    BY Zenon
  <2>3. /\ u.me = n /\ u.cfg = v.cfg /\ u.cur = v.cur /\ u.owner = w.owner
        /\ \A k \in Node : u.slaveof[k] = IF k = n THEN sender ELSE v.slaveof[k]
        /\ \A s \in Slot : u.imp[s] \in {v.imp[s], None}
    BY <2>1, <2>2, Zenon DEF clusterSetMaster, Table
  <2>4. r.v = u \/ r.v = w
    BY <1>0, <1>4, <1>6, <2>2, Zenon DEF Same
  <2>5. \A s \in Slot : s \in taken => w.owner[s] = sender
    BY <2>1, Zenon
  <2>6. sender # None
    BY SlotsAssumption, Zenon
  <2>7. Heard(v, w) /\ Heard(v, u)
    BY <1>0, <1>6, <2>1, <2>3, <2>6 DEF Heard
  <2>. QED
    BY <1>0, <1>1, <2>1, <2>3, <2>4, <2>5, <2>7 DEF Takes
<1>. QED
  BY <1>5, <1>6, Zenon

\* What a node hears of epochs and roles.
LEMMA HearHeard ==
  ASSUME NEW n \in Node, NEW v, Fit(v, n), NEW m, PacketFit(m), m.to = n,
         NEW w, w = HearEpochs(v, m)
  PROVE  /\ Heard(v, w) /\ w.owner = v.owner /\ w.imp = v.imp
         /\ \A k \in Node : w.cfg[k] = IF k = m.from THEN Larger(v.cfg[k], m.cfg) ELSE v.cfg[k]
         /\ m.type = "ping" =>
              /\ Heard(v, HearRole(w, m)) /\ HearRole(w, m).cfg = w.cfg
              /\ HearRole(w, m).imp = v.imp /\ HearRole(w, m).cur = w.cur
              /\ HearRole(w, m).slaveof[n] = v.slaveof[n]
              /\ m.slaveof = None => /\ HearRole(w, m).slaveof[m.from] = None
                                     /\ HearRole(w, m).owner = v.owner
<1>0. /\ m.from \in Node /\ m.from # n /\ m.cur \in Nat /\ m.cfg \in Nat
      /\ v \in Table /\ v.me = n /\ v.cur \in Nat /\ v.cfg \in [Node -> Nat]
  BY Zenon DEF PacketFit, Ping, Update, Fit, Table
<1>1. PICK c : c = [v.cfg EXCEPT ![m.from] = Larger(v.cfg[m.from], m.cfg)]
  BY Zenon
<1>2. w = [v EXCEPT !.cur = Larger(v.cur, m.cur), !.cfg = c]
  BY <1>0, <1>1, Zenon DEF HearEpochs, Table
<1>3. /\ w.me = n /\ w.owner = v.owner /\ w.imp = v.imp /\ w.slaveof = v.slaveof
      /\ w.cfg = c /\ w.cur = Larger(v.cur, m.cur)
  BY <1>0, <1>2, Zenon DEF Table
<1>4. \A k \in Node : c[k] = IF k = m.from THEN Larger(v.cfg[k], m.cfg) ELSE v.cfg[k]
  BY <1>0, <1>1, Zenon
<1>5. v.cur <= Larger(v.cur, m.cur)
  BY <1>0 DEF Larger
<1>6. v.cfg[n] \in Nat /\ c[n] = v.cfg[n]
  BY <1>0, <1>4, Zenon
<1>7. Heard(v, w)
  BY <1>0, <1>3, <1>5, <1>6 DEF Heard
<1>8. ASSUME m.type = "ping", NEW u, u = HearRole(w, m)
      PROVE  /\ Heard(v, u) /\ u.cfg = w.cfg /\ u.imp = v.imp /\ u.cur = w.cur
             /\ u.slaveof[n] = v.slaveof[n]
             /\ m.slaveof = None => u.slaveof[m.from] = None /\ u.owner = v.owner
  <2>0. w \in Table
    <3>1. KeysFit(v, {})
      BY Zenon DEF KeysFit
    <3>2. Fit(w, n)
      BY <3>1, HearFits, Zenon
    <3>. QED
      BY <3>2, Zenon DEF Fit
  <2>1. /\ u.cfg = w.cfg /\ u.imp = v.imp /\ u.cur = w.cur /\ u.me = n
        /\ u.slaveof[n] = v.slaveof[n]
        /\ m.slaveof = None => u.slaveof[m.from] = None /\ u.owner = v.owner
    BY <1>0, <1>3, <1>8, <2>0, Zenon DEF HearRole, clusterSetNodeAsMaster, Table
  <2>2. \A s \in Slot : u.owner[s] = n => v.owner[s] = n
    BY <1>0, <1>3, <1>8, <2>0, SlotsAssumption, Zenon DEF HearRole, clusterSetNodeAsMaster, Table
  <2>. QED
    BY <1>0, <1>3, <1>5, <1>6, <2>1, <2>2 DEF Heard
<1>. QED
  BY <1>3, <1>4, <1>7, <1>8, Zenon

\* The epochs in table w, heard by the node of v, are those of v or of packet m.
EpochsFrom(v, w, m) ==
  \A k \in Node : k # v.me =>
    \/ w.cfg[k] = v.cfg[k]
    \/ k = m.from /\ w.cfg[k] = m.cfg
    \/ m.type = "update" /\ k = m.about /\ w.cfg[k] = m.epoch

\* An UPDATE p that table v, or the one that became v, gives rise to.
Sent(v, p) ==
  /\ p.type = "update" /\ p.from = v.me /\ p.about \in Node /\ p.about # p.to
  /\ p.cfg <= Top(v)
  /\ p.epoch <= IF p.about = v.me THEN Top(v) ELSE v.cfg[p.about]

\* What a PING or PONG does to the epochs, and of which epochs its receiver speaks.
LEMMA PingHeard ==
  ASSUME NEW n \in Node, NEW v0, Fit(v0, n), NEW held, KeysFit(v0, held),
         NEW m, PacketFit(m), m.to = n, m.type = "ping", NEW q, q = ProcessPing(v0, m, held)
  PROVE  /\ Heard(v0, q.v) /\ EpochsFrom(v0, q.v, m) /\ \A p \in q.out : Sent(q.v, p)
<1>1. PICK v : v = HearRole(HearEpochs(v0, m), m)
  BY Zenon
<1>2. Fit(v, n) /\ KeysFit(v, held)
  BY <1>1, HearFits, Zenon
<1>3. PICK from, cfg, slots : from = m.from /\ cfg = m.cfg /\ slots = m.slots
  BY Zenon
<1>4. from \in Node /\ from # n /\ cfg \in Nat /\ slots \in SUBSET Slot /\ v0.me = n
  BY <1>3, Zenon DEF PacketFit, Ping, Update, Fit
<1>5. /\ Heard(v0, v)
      /\ \A k \in Node : v.cfg[k] = IF k = m.from THEN Larger(v0.cfg[k], m.cfg) ELSE v0.cfg[k]
  BY <1>1, HearHeard
<1>6. PICK r : r = HearSlots(v, m, held)
  BY Zenon
<1>7. r = clusterUpdateSlotsConfigWith(v, from, cfg, slots, held) \/ r = Same(v)
  BY <1>3, <1>6, Zenon DEF HearSlots
<1>8. PICK w : w = r.v
  BY Zenon
<1>9. Fit(w, n) /\ Heard(v, w) /\ w.cfg = v.cfg
  <2>1. CASE r = clusterUpdateSlotsConfigWith(v, from, cfg, slots, held)
    <3>1. Fit(r.v, n)
      BY <1>2, <1>4, <2>1, UpdateFits, Zenon
    <3>2. Heard(v, r.v) /\ r.v.cfg = v.cfg /\ Takes(v, r.v, from, cfg, slots)
      BY <1>2, <1>4, <2>1, UpdateHeard, SMTT(20)
    <3>. QED
      BY <1>8, <3>1, <3>2, Zenon
  <2>2. CASE r = Same(v)
    <3>1. w = v /\ v.cur \in Nat /\ v.cfg[v.me] \in Nat
      BY <1>2, <1>8, <2>2, Zenon DEF Same, Fit, Table
    <3>. QED
      BY <1>2, <3>1 DEF Heard
  <2>. QED
    BY <1>7, <2>1, <2>2, Zenon
<1>10. PICK u : u = HearCollision(w, m)
  BY Zenon
<1>11. Fit(u, n) /\ Heard(w, u) /\ \A k \in Node \ {n} : u.cfg[k] = w.cfg[k]
  <2>1. u = w \/ u = clusterHandleConfigEpochCollision(w, from)
    BY <1>3, <1>10, Zenon DEF HearCollision
  <2>2. CASE u = w
    <3>1. w.cur \in Nat /\ w.cfg[w.me] \in Nat
      BY <1>9, Zenon DEF Fit, Table
    <3>. QED
      BY <1>9, <2>2, <3>1 DEF Heard
  <2>3. CASE u = clusterHandleConfigEpochCollision(w, from)
    BY <1>4, <1>9, <2>3, BumpFits, BumpHeard
  <2>. QED
    BY <2>1, <2>2, <2>3, Zenon
<1>12. q = Answered(v, m, r)
  BY <1>1, <1>6, Zenon DEF ProcessPing
<1>13. q.v = u /\ q.out = (IF DirtySlots(v, m) THEN Inform(w, m) ELSE {})
  BY <1>7, <1>8, <1>10, <1>12, Zenon DEF Answered, clusterUpdateSlotsConfigWith, Same
<1>14. Heard(v0, u)
  <2>1. Heard(v0, w)
    BY <1>2, <1>5, <1>9, HeardTwice, Zenon
  <2>. QED
    BY <1>9, <1>11, <2>1, HeardTwice, Zenon
<1>15. EpochsFrom(v0, u, m)
  <2>1. \A k \in Node \ {n} : u.cfg[k] = IF k = m.from THEN Larger(v0.cfg[k], m.cfg) ELSE v0.cfg[k]
    BY <1>5, <1>9, <1>11, ZenonT(60)
  <2>. QED
    BY <1>4, <2>1, Zenon DEF EpochsFrom, Larger
<1>16. ASSUME NEW s \in StaleSlots(w, m), NEW p, p = clusterSendUpdate(w, m.from, w.owner[s])
       PROVE  Sent(u, p)
  <2>1. w.owner[s] \in Node /\ w.owner[s] # from
    BY <1>3, <1>4, <1>9, Zenon DEF StaleSlots, Fit, Table, NodeOrNone
  <2>2. /\ p.type = "update" /\ p.from = w.me /\ p.to = from /\ p.about = w.owner[s]
        /\ p.cfg = w.cfg[MyMaster(w)] /\ p.epoch = w.cfg[w.owner[s]]
    BY <1>3, <1>16, Zenon DEF clusterSendUpdate
  <2>3. w.me = n /\ u.me = n /\ Top(w) <= Top(u)
    BY <1>9, <1>11, HeardGrows, Zenon DEF Fit
  <2>4. Top(w) \in Nat /\ Top(u) \in Nat /\ w.cfg[n] <= Top(w) /\ Top(w) <= w.cur
    BY <1>9, <1>11, TopIsEpoch, Zenon
  <2>5. \A k \in Node : w.cfg[k] \in Nat /\ w.cfg[k] <= w.cur
    BY <1>9, Zenon DEF Fit, Table, Covered
  <2>6. w.cfg[MyMaster(w)] <= Top(w)
    BY <1>9, <2>3 DEF MyMaster, IsMaster, Top, Fit, Table, Covered, NodeOrNone
  <2>7. MyMaster(w) \in Node
    BY <1>9, <2>3, Zenon DEF Fit, Table, MyMaster, IsMaster, NodeOrNone
  <2>8. p.cfg <= Top(u)
    BY <2>2, <2>3, <2>4, <2>5, <2>6, <2>7
  <2>9. p.epoch <= IF p.about = u.me THEN Top(u) ELSE u.cfg[p.about]
    BY <1>11, <2>1, <2>2, <2>3, <2>4, <2>5
  <2>. QED
    BY <2>1, <2>2, <2>3, <2>8, <2>9, Zenon DEF Sent
<1>17. \A p \in q.out : Sent(u, p)
  BY <1>13, <1>16, Zenon DEF Inform
<1>. QED
  BY <1>13, <1>14, <1>15, <1>17, Zenon

\* ... and what an UPDATE about another node does.
LEMMA UpdatePacketHeard ==
  ASSUME NEW n \in Node, NEW v0, Fit(v0, n), NEW held, KeysFit(v0, held),
         NEW m, PacketFit(m), m.to = n, m.type = "update", m.about # n,
         NEW q, q = ProcessUpdate(v0, m, held)
  PROVE  Heard(v0, q.v) /\ EpochsFrom(v0, q.v, m) /\ q.out = {}
<1>1. PICK v : v = HearEpochs(v0, m)
  BY Zenon
<1>2. Fit(v, n) /\ KeysFit(v, held) /\ m.cur <= v.cur
  BY <1>1, HearFits, Zenon
<1>3. /\ Heard(v0, v)
      /\ \A k \in Node : v.cfg[k] = IF k = m.from THEN Larger(v0.cfg[k], m.cfg) ELSE v0.cfg[k]
  BY <1>1, HearHeard
<1>4. /\ m.about \in Node /\ m.epoch \in Nat /\ m.slots \in SUBSET Slot
      /\ m.from \in Node /\ v0.me = n
      /\ m.cur \in Nat /\ m.epoch <= m.cur
  BY Zenon DEF PacketFit, Ping, Update, Fit
<1>5. EpochsFrom(v0, v, m)
  BY <1>3, <1>4, Zenon DEF EpochsFrom, Larger
<1>6. CASE v.cfg[m.about] >= m.epoch
  <2>1. q = Same(v)
    BY <1>1, <1>6, Zenon DEF ProcessUpdate
  <2>2. q.v = v /\ q.out = {}
    BY <2>1 DEF Same
  <2>. QED
    BY <1>3, <1>5, <2>2, Zenon
<1>7. CASE ~(v.cfg[m.about] >= m.epoch)
  <2>0. PICK about, epoch, slots : about = m.about /\ epoch = m.epoch /\ slots = m.slots
    BY Zenon
  <2>1. PICK w : w = [clusterSetNodeAsMaster(v, about) EXCEPT !.cfg[about] = epoch]
    BY Zenon
  <2>2. PICK c, o : c = [v.cfg EXCEPT ![about] = epoch] /\ o = [v.slaveof EXCEPT ![about] = None]
    BY Zenon
  <2>3. c \in [Node -> Nat] /\ o \in [Node -> NodeOrNone] /\ v \in Table /\ v.me = n
        /\ c[n] = v.cfg[n] /\ o[n] = v.slaveof[n] /\ v.cur \in Nat /\ v.cfg \in [Node -> Nat]
    BY <1>2, <1>4, <2>0, <2>2, Zenon DEF Fit, Table, NodeOrNone
  <2>4. w = [v EXCEPT !.slaveof = o, !.cfg = c]
    BY <2>1, <2>2, <2>3, Zenon DEF clusterSetNodeAsMaster, Table
  <2>5. w.slaveof = o /\ w.cfg = c /\ w \in Table /\ w.me = n /\ w.owner = v.owner
        /\ w.imp = v.imp /\ w.cur = v.cur
    BY <2>3, <2>4, Zenon DEF Table
  <2>6. Covered(w)
    <3>1. epoch <= v.cur
      BY <1>2, <1>4, <2>0, <2>3
    <3>. QED
      BY <1>2, <2>2, <2>3, <2>5, <3>1, ZenonT(60) DEF Covered, Fit
  <2>7. Fit(w, n) /\ KeysFit(w, held)
    BY <1>2, <2>3, <2>5, <2>6, ZenonT(60) DEF Fit, Served, KeysFit
  <2>8. Heard(v, w)
    BY <2>3, <2>5 DEF Heard
  <2>9. q = clusterUpdateSlotsConfigWith(w, about, epoch, slots, held)
    BY <1>1, <1>7, <2>0, <2>1, Zenon DEF ProcessUpdate
  <2>10. about \in Node /\ epoch \in Nat /\ slots \in SUBSET Slot
    BY <1>4, <2>0, Zenon
  <2>11. /\ Fit(q.v, n) /\ KeysFit(q.v, IF q.resync THEN {} ELSE held \ q.lost)
         /\ Follows(w, q.v) /\ q.out = {}
    BY <2>7, <2>9, <2>10, UpdateFits, SMTT(20)
  <2>12. Heard(w, q.v) /\ q.v.cfg = w.cfg /\ Takes(w, q.v, about, epoch, slots)
    BY <2>7, <2>9, <2>10, UpdateHeard, Zenon
  <2>13. Heard(v0, q.v)
    <3>1. Heard(v0, w)
      BY <1>2, <1>3, <2>7, <2>8, HeardTwice, Zenon
    <3>. QED
      BY <2>7, <2>11, <2>12, <3>1, HeardTwice, Zenon
  <2>14. EpochsFrom(v0, q.v, m)
    <3>1. \A k \in Node : q.v.cfg[k] = IF k = m.about THEN m.epoch ELSE v.cfg[k]
      BY <2>0, <2>2, <2>3, <2>5, <2>12
    <3>. QED
      BY <1>5, <3>1, Zenon DEF EpochsFrom
  <2>. QED
    BY <2>11, <2>13, <2>14, Zenon
<1>. QED
  BY <1>6, <1>7, Zenon

\* A step that changes the table of one node and speaks of known epochs.
LEMMA OneNodeNews ==
  ASSUME SlotsInv, NewsInv, SlotsInv', NEW n \in Node, NEW w, view' = [view EXCEPT ![n] = w],
         Top(view[n]) <= Top(w), ImportsFit(w),
         \A k \in Node \ {n} : w.cfg[k] <= Top(view[k]),
         \A p \in net' : p \in net \/ Sent(w, p)
  PROVE  NewsInv'
<1>1. /\ view \in [Node -> Table] /\ view'[n] = w
      /\ \A k \in Node \ {n} : view'[k] = view[k]
      /\ \A k \in Node : Fit(view[k], k) /\ Fit(view'[k], k)
  BY Zenon DEF SlotsInv
<1>2. \A k \in Node : Top(view[k]) \in Nat /\ Top(view'[k]) \in Nat /\ view'[k].cfg[k] <= Top(view'[k])
                      /\ Top(view[k]) <= Top(view'[k])
  <2>. SUFFICES ASSUME NEW k \in Node
                PROVE  Top(view[k]) \in Nat /\ Top(view'[k]) \in Nat /\ view'[k].cfg[k] <= Top(view'[k])
                       /\ Top(view[k]) <= Top(view'[k])
    BY Zenon
  <2>1. PICK v, u : v = view[k] /\ u = view'[k]
    BY Zenon
  <2>2. Top(v) \in Nat /\ Top(u) \in Nat /\ u.cfg[k] <= Top(u)
    BY <1>1, <2>1, TopIsEpoch, Zenon
  <2>3. Top(v) <= Top(u)
    BY <1>1, <2>1, <2>2
  <2>. QED
    BY <2>1, <2>2, <2>3, Zenon
<1>3. ASSUME NEW k \in Node, NEW m \in Node PROVE view'[k].cfg[m] <= Top(view'[m])
  <2>0. view'[k].cfg[m] \in Nat /\ view[k].cfg[m] \in Nat /\ view[k].cfg[m] <= Top(view[m])
    BY <1>1 DEF Fit, Table, NewsInv
  <2>1. CASE k = m
    BY <1>2, <2>1, Zenon
  <2>2. CASE k # m /\ k = n
    <3>1. view'[k].cfg[m] <= Top(view[m])
      BY <1>1, <2>2, Zenon
    <3>. QED
      BY <1>2, <2>0, <3>1
  <2>3. CASE k # n
    <3>1. view'[k] = view[k]
      BY <1>1, <2>3, Zenon
    <3>. QED
      BY <1>2, <2>0, <3>1
  <2>. QED
    BY <2>1, <2>2, <2>3, Zenon
<1>4. ASSUME NEW p \in net' PROVE PacketKnown(p)'
  <2>0. PacketFit(p)
    BY Zenon DEF SlotsInv
  <2>1. /\ p.from \in Node /\ p.cfg \in Nat
        /\ p.type = "update" => p.about \in Node /\ p.epoch \in Nat
    BY <2>0, Zenon DEF PacketFit, Ping, Update
  <2>2. CASE p \in net
    <3>1. PacketKnown(p)
      BY <2>2, Zenon DEF NewsInv
    <3>. QED
      BY <1>2, <2>1, <3>1 DEF PacketKnown
  <2>3. CASE Sent(w, p)
    <3>1. w.me = n
      BY <1>1, Zenon DEF Fit
    <3>2. p.cfg <= Top(view'[p.from])
      BY <1>1, <2>3, <3>1, Zenon DEF Sent
    <3>3. p.epoch <= Top(view'[p.about])
      <4>1. CASE p.about = n
        BY <1>1, <2>3, <3>1, <4>1, Zenon DEF Sent
      <4>2. CASE p.about # n
        <5>1. p.epoch <= view'[n].cfg[p.about] /\ p.about \in Node /\ p.epoch \in Nat
          BY <1>1, <2>1, <2>3, <3>1, <4>2, Zenon DEF Sent
        <5>2. view'[n].cfg[p.about] <= Top(view'[p.about]) /\ view'[n].cfg[p.about] \in Nat
          BY <1>1, <1>3, <5>1 DEF Fit, Table
        <5>. QED
          BY <1>2, <5>1, <5>2
      <4>. QED
        BY <4>1, <4>2, Zenon
    <3>. QED
      BY <2>3, <3>2, <3>3, Zenon DEF PacketKnown, Sent
  <2>. QED
    BY <2>2, <2>3, Zenon
<1>5. \A k \in Node : ImportsFit(view'[k])
  BY <1>1, Zenon DEF NewsInv
<1>. QED
  BY <1>3, <1>4, <1>5, Zenon DEF NewsInv

LEMMA InitNews == Init => NewsInv
<1>. SUFFICES ASSUME Init PROVE NewsInv
  BY Zenon
<1>1. SlotsInv
  BY InitFits, Zenon
<1>2. ASSUME NEW n \in Node
      PROVE  /\ view[n].me = n /\ view[n].cfg = Epoch0
             /\ \A s \in Slot : view[n].imp[s] = None
             /\ Epoch0[n] <= Top(view[n])
  <2>1. PICK v : v = view[n]
    BY Zenon
  <2>2. v.me = n /\ v.cfg = Epoch0 /\ \A s \in Slot : v.imp[s] = None
    BY <2>1, Zenon DEF Init
  <2>3. v.cfg[n] <= Top(v)
    BY <1>1, <2>1, TopIsEpoch, Zenon DEF SlotsInv
  <2>. QED
    BY <2>1, <2>2, <2>3, Zenon
<1>3. net = {}
  BY Zenon DEF Init
<1>. QED
  BY <1>2, <1>3, Zenon DEF NewsInv, ImportsFit

LEMMA ReceiveNews ==
  ASSUME SlotsInv, SlotsInv', NewsInv, NEW m \in net, Receive(m)
  PROVE  NewsInv'
<1>0. PacketFit(m) /\ PacketKnown(m)
  BY Zenon DEF SlotsInv, NewsInv
<1>1. PICK n \in Node : n = m.to
  BY <1>0, Zenon DEF PacketFit, Ping, Update
<1>2. PICK v, held, r : v = view[n] /\ held = keys[n] /\ r = clusterProcessPacket(v, m, held)
  BY Zenon
<1>3. Fit(v, n) /\ KeysFit(v, held)
  BY <1>2, Zenon DEF SlotsInv
<1>4. Heard(v, r.v) /\ EpochsFrom(v, r.v, m) /\ \A u \in r.out : Sent(r.v, u)
  <2>1. CASE m.type = "ping"
    <3>1. r = ProcessPing(v, m, held)
      BY <1>2, <2>1, Zenon DEF clusterProcessPacket
    <3>. QED
      BY <1>0, <1>1, <1>3, <2>1, <3>1, PingHeard, ZenonT(30)
  <2>2. CASE m.type = "update"
    <3>1. r = ProcessUpdate(v, m, held)
      BY <1>2, <2>2, Zenon DEF clusterProcessPacket
    <3>2. m.about # n
      BY <1>0, <1>1, <2>2, Zenon DEF PacketKnown
    <3>3. Heard(v, r.v) /\ EpochsFrom(v, r.v, m) /\ r.out = {}
      BY <1>0, <1>1, <1>3, <2>2, <3>1, <3>2, UpdatePacketHeard, ZenonT(30)
    <3>. QED
      BY <3>3, Zenon
  <2>. QED
    BY <1>0, <2>1, <2>2, Zenon DEF PacketFit, Ping, Update
<1>5. PICK w : w = r.v
  BY Zenon
<1>6. view' = [view EXCEPT ![n] = w] /\ net' \subseteq net \cup r.out
  BY <1>1, <1>2, <1>5, Zenon DEF Receive
<1>7. Fit(w, n) /\ v.me = n
  BY <1>3, <1>6, Zenon DEF SlotsInv, Fit
<1>8. ImportsFit(v)
  BY <1>2, Zenon DEF NewsInv
<1>9. Top(v) <= Top(w) /\ ImportsFit(w)
  BY <1>3, <1>4, <1>5, <1>7, <1>8, HeardGrows, ZenonT(30)
<1>10. ASSUME NEW k \in Node \ {n} PROVE w.cfg[k] <= Top(view[k])
  <2>1. \/ w.cfg[k] = v.cfg[k]
        \/ k = m.from /\ w.cfg[k] = m.cfg
        \/ m.type = "update" /\ k = m.about /\ w.cfg[k] = m.epoch
    BY <1>4, <1>5, <1>7, Zenon DEF EpochsFrom
  <2>2. v.cfg[k] <= Top(view[k])
    BY <1>2, Zenon DEF NewsInv
  <2>. QED
    BY <1>0, <2>1, <2>2, Zenon DEF PacketKnown
<1>11. \A p \in net' : p \in net \/ Sent(w, p)
  BY <1>4, <1>5, <1>6, Zenon
<1>. QED
  BY <1>2, <1>6, <1>9, <1>10, <1>11, OneNodeNews, ZenonT(30)

\* A node whose epochs and role stay changes no one's knowledge.
LEMMA QuietNews ==
  ASSUME SlotsInv, SlotsInv', NewsInv, NEW n \in Node, NEW w, view' = [view EXCEPT ![n] = w],
         net' \subseteq net, w.me = n, w.cfg = view[n].cfg, w.cur = view[n].cur,
         w.slaveof = view[n].slaveof, ImportsFit(w)
  PROVE  NewsInv'
<1>1. PICK v : v = view[n]
  BY Zenon
<1>2. Fit(v, n) /\ v.me = n /\ Top(v) \in Nat
  BY <1>1, TopIsEpoch, Zenon DEF SlotsInv, Fit
<1>3. Top(v) = Top(w)
  BY <1>1, <1>2, Zenon DEF Top
<1>4. \A k \in Node \ {n} : w.cfg[k] <= Top(view[k])
  BY <1>1, Zenon DEF NewsInv
<1>5. Top(v) <= Top(w)
  BY <1>2, <1>3
<1>6. \A p \in net' : p \in net \/ Sent(w, p)
  BY Zenon
<1>. QED
  BY <1>1, <1>4, <1>5, <1>6, OneNodeNews, ZenonT(30)

LEMMA TellNews ==
  ASSUME SlotsInv, SlotsInv', NewsInv, NEW n \in Node, Tell(n)
  PROVE  NewsInv'
<1>1. PICK v, held, s, o : v = view[n] /\ held = keys[n] /\ s = op.slot /\ o = op.to
  BY Zenon
<1>2. Fit(v, n) /\ v \in Table /\ v.me = n /\ ImportsFit(v)
  BY <1>1, Zenon DEF SlotsInv, Fit, NewsInv
<1>3. s \in Slot /\ o \in Node
  BY <1>1, Zenon DEF SlotsInv, Tell
<1>4. PICK w : w = SetslotNode(v, s, o, held)
  BY Zenon
<1>5. view' = [view EXCEPT ![n] = w] /\ net' = net
  BY <1>1, <1>4, Zenon DEF Tell
<1>6. PICK mig, owner : /\ mig = [v.mig EXCEPT ![s] = IF s \in held THEN v.mig[s] ELSE None]
                        /\ owner = [v.owner EXCEPT ![s] = o]
  BY Zenon
<1>7. PICK a : a = [v EXCEPT !.mig = mig, !.owner = owner]
  BY Zenon
<1>8. /\ a \in Table /\ a.me = n /\ a.cur = v.cur /\ a.cfg = v.cfg /\ a.imp = v.imp
      /\ a.slaveof = v.slaveof
      /\ \A t \in Slot : a.owner[t] = IF t = s THEN o ELSE v.owner[t]
  <2>1. mig \in [Slot -> NodeOrNone] /\ owner \in [Slot -> NodeOrNone]
    BY <1>2, <1>3, <1>6, Zenon DEF Table, NodeOrNone
  <2>2. /\ a \in Table /\ a.me = n /\ a.cur = v.cur /\ a.cfg = v.cfg /\ a.imp = v.imp
        /\ a.slaveof = v.slaveof /\ a.owner = owner
    BY <1>2, <1>7, <2>1, ZenonT(60) DEF Table
  <2>. QED
    BY <1>2, <1>3, <1>6, <2>2, Zenon DEF Table
<1>9. \/ w = v
      \/ IsMaster(v, v.me) /\ w = IF o = v.me /\ v.imp[s] # None
              THEN [clusterBumpConfigEpochWithoutConsensus(a) EXCEPT !.imp[s] = None] ELSE a
  <2>1. a = [v EXCEPT !.mig[s] = IF s \in held THEN v.mig[s] ELSE None, !.owner[s] = o]
    BY <1>2, <1>6, <1>7, Zenon DEF Table
  <2>. QED
    BY <1>4, <2>1 DEF SetslotNode
<1>10. CASE w = v
  <2>1. /\ net' \subseteq net /\ w.me = n /\ w.cfg = view[n].cfg /\ w.cur = view[n].cur
        /\ w.slaveof = view[n].slaveof /\ ImportsFit(w)
    BY <1>1, <1>2, <1>5, <1>10, Zenon
  <2>. QED
    BY <1>5, <2>1, QuietNews, ZenonT(30)
<1>11. CASE w = a /\ ~(o = v.me /\ v.imp[s] # None)
  <2>1. ImportsFit(a)
    BY <1>2, <1>8, <1>11, Zenon DEF ImportsFit
  <2>2. /\ net' \subseteq net /\ w.me = n /\ w.cfg = view[n].cfg /\ w.cur = view[n].cur
        /\ w.slaveof = view[n].slaveof /\ ImportsFit(w)
    BY <1>1, <1>5, <1>8, <1>11, <2>1, Zenon
  <2>. QED
    BY <1>5, <2>2, QuietNews, ZenonT(30)
<1>12. CASE /\ IsMaster(v, v.me) /\ o = v.me /\ v.imp[s] # None
            /\ w = [clusterBumpConfigEpochWithoutConsensus(a) EXCEPT !.imp[s] = None]
  <2>1. Fit(a, n)
    BY <1>2, <1>8, <1>12, Zenon DEF Fit, Covered, Served, IsMaster
  <2>2. PICK b : b = clusterBumpConfigEpochWithoutConsensus(a)
    BY Zenon
  <2>3. Fit(b, n) /\ b.owner = a.owner /\ b.imp = a.imp /\ b.slaveof = a.slaveof
    BY <2>1, <2>2, BumpFits, ZenonT(60)
  <2>4. Heard(a, b) /\ \A k \in Node \ {n} : b.cfg[k] = a.cfg[k]
    BY <2>1, <2>2, BumpHeard, SMTT(20)
  <2>5. PICK imp : imp = [b.imp EXCEPT ![s] = None]
    BY Zenon
  <2>6. b \in Table /\ b.me = n /\ \A t \in Slot : imp[t] = IF t = s THEN None ELSE b.imp[t]
    BY <2>3, <2>5, Zenon DEF Fit, Table
  <2>7. w = [b EXCEPT !.imp = imp]
    BY <1>12, <2>2, <2>5, Zenon
  <2>8. /\ w.me = n /\ w.cur = b.cur /\ w.cfg = b.cfg /\ w.imp = imp
        /\ w.slaveof = b.slaveof /\ w.owner = b.owner
    BY <2>6, <2>7, Zenon DEF Table
  <2>9. Top(v) <= Top(w)
    <3>1. Top(v) = Top(a)
      BY <1>2, <1>8, Zenon DEF Top
    <3>2. Top(w) = Top(b)
      BY <2>6, <2>8, Zenon DEF Top
    <3>3. Top(a) <= Top(b)
      BY <2>1, <2>3, <2>4, HeardGrows, Zenon
    <3>. QED
      BY <3>1, <3>2, <3>3, Zenon
  <2>10. ImportsFit(w)
    BY <1>2, <1>8, <2>3, <2>6, <2>8 DEF ImportsFit
  <2>11. \A k \in Node \ {n} : w.cfg[k] <= Top(view[k])
    BY <1>1, <1>8, <2>4, <2>8 DEF NewsInv
  <2>12. \A p \in net' : p \in net \/ Sent(w, p)
    BY <1>5, Zenon
  <2>. QED
    BY <1>1, <1>5, <2>9, <2>10, <2>11, <2>12, OneNodeNews, ZenonT(30)
<1>. QED
  BY <1>9, <1>10, <1>11, <1>12, Zenon

LEMMA TakeoverNews ==
  ASSUME SlotsInv, SlotsInv', NewsInv, NEW n \in Node, Takeover(n) \/ Bumpepoch(n)
  PROVE  NewsInv'
<1>1. PICK v, w : v = view[n] /\ w = clusterBumpConfigEpochWithoutConsensus(v)
  BY Zenon
<1>2. Fit(v, n) /\ v.me = n /\ ImportsFit(v)
  BY <1>1, Zenon DEF SlotsInv, Fit, NewsInv
<1>3. Fit(w, n) /\ w.owner = v.owner /\ w.imp = v.imp /\ w.slaveof = v.slaveof
  BY <1>1, <1>2, BumpFits
<1>4. Heard(v, w) /\ v.cur <= w.cfg[n] /\ \A k \in Node \ {n} : w.cfg[k] = v.cfg[k]
  BY <1>1, <1>2, BumpHeard, SMTT(20)
<1>5. \A k \in Node \ {n} : w.cfg[k] <= Top(view[k])
  BY <1>1, <1>4, Zenon DEF NewsInv
<1>6. CASE Bumpepoch(n)
  <2>1. view' = [view EXCEPT ![n] = w] /\ net' = net
    BY <1>1, <1>6, Zenon DEF Bumpepoch
  <2>2. Top(v) <= Top(w) /\ ImportsFit(w)
    BY <1>2, <1>3, <1>4, HeardGrows, Zenon
  <2>3. \A p \in net' : p \in net \/ Sent(w, p)
    BY <2>1, Zenon
  <2>. QED
    BY <1>1, <1>5, <2>1, <2>2, <2>3, OneNodeNews, ZenonT(30)
<1>7. CASE Takeover(n)
  <2>1. PICK u : u = ReplaceYourMaster(w)
    BY Zenon
  <2>2. PICK o, owner : /\ o = [w.slaveof EXCEPT ![n] = None]
                        /\ owner = [s \in Slot |-> IF w.owner[s] = w.slaveof[n] THEN n
                                                   ELSE w.owner[s]]
    BY Zenon
  <2>3. w \in Table /\ w.me = n /\ o[n] = None
    BY <1>3, <2>2, Zenon DEF Fit, Table
  <2>4. u = [w EXCEPT !.slaveof = o, !.owner = owner]
    BY <2>1, <2>2, <2>3, Zenon DEF ReplaceYourMaster, clusterSetNodeAsMaster, Table
  <2>5. u.me = n /\ u.cur = w.cur /\ u.cfg = w.cfg /\ u.imp = w.imp /\ u.slaveof = o
    BY <2>3, <2>4, Zenon DEF Table
  <2>6. view' = [view EXCEPT ![n] = u] /\ net' = net /\ v.slaveof[n] # None
    BY <1>1, <1>7, <2>1, Zenon DEF Takeover, IsMaster
  <2>7. ImportsFit(u)
    BY <1>2, <1>3, <2>5, <2>6, Zenon DEF ImportsFit, Fit, Served
  <2>8. Top(v) <= Top(u)
    BY <1>2, <1>4, <2>3, <2>5, <2>6, Zenon DEF Top
  <2>9. \A p \in net' : p \in net \/ Sent(u, p)
    BY <2>6, Zenon
  <2>10. \A k \in Node \ {n} : u.cfg[k] <= Top(view[k])
    BY <1>5, <2>5, Zenon
  <2>. QED
    BY <1>1, <2>6, <2>7, <2>8, <2>9, <2>10, OneNodeNews, ZenonT(30)
<1>. QED
  BY <1>6, <1>7, Zenon

LEMMA OperatorNews ==
  ASSUME SlotsInv, SlotsInv', NewsInv,
         \/ \E s \in Slot, from, to \in Node : StartReshard(s, from, to)
         \/ StartMigrating \/ MigrateKeys \/ GiveUp \/ GivenUp
  PROVE  NewsInv'
<1>0. \A k \in Node : view[k] \in Table /\ view[k].me = k /\ ImportsFit(view[k])
  BY Zenon DEF SlotsInv, Fit, NewsInv
<1>1. ASSUME NEW n \in Node, NEW s \in Slot, NEW i, NEW g,
             i \in [Slot -> NodeOrNone], \A t \in Slot : t # s => i[t] = view[n].imp[t],
             i[s] # None => view[n].owner[s] # n, g \in [Slot -> NodeOrNone],
             net' = net, NEW x, x = [view[n] EXCEPT !.imp = i, !.mig = g],
             view' = [view EXCEPT ![n] = x]
      PROVE  NewsInv'
  <2>1. PICK v, w : v = view[n] /\ w = [v EXCEPT !.imp = i, !.mig = g]
    BY Zenon
  <2>2. /\ w.me = n /\ w.cfg = v.cfg /\ w.cur = v.cur /\ w.slaveof = v.slaveof /\ w.imp = i
        /\ w.owner = v.owner
    BY <1>0, <2>1 DEF Table
  <2>3. ImportsFit(w)
    BY <1>0, <1>1, <2>1, <2>2 DEF ImportsFit
  <2>4. /\ net' \subseteq net /\ w.me = n /\ w.cfg = view[n].cfg /\ w.cur = view[n].cur
        /\ w.slaveof = view[n].slaveof /\ ImportsFit(w) /\ view' = [view EXCEPT ![n] = w]
    BY <1>1, <2>1, <2>2, <2>3, Zenon
  <2>. QED
    BY <2>4, QuietNews, ZenonT(30)
<1>2. ASSUME NEW s \in Slot, NEW from \in Node, NEW to \in Node, StartReshard(s, from, to)
      PROVE  NewsInv'
  <2>1. /\ view[to].owner[s] # to /\ net' = net
        /\ view' = [view EXCEPT ![to].imp[s] = from]
    BY <1>2, Zenon DEF StartReshard, SetslotImporting
  <2>2. PICK v, i, g : v = view[to] /\ i = [v.imp EXCEPT ![s] = from] /\ g = v.mig
    BY Zenon
  <2>3. i \in [Slot -> NodeOrNone] /\ g \in [Slot -> NodeOrNone]
        /\ \A t \in Slot : t # s => i[t] = view[to].imp[t]
    BY <1>0, <2>2, ZenonT(60) DEF Table, NodeOrNone
  <2>4. [v EXCEPT !.imp = i, !.mig = g] = [v EXCEPT !.imp = i]
    BY <1>0, <2>2, Zenon DEF Table
  <2>5. view' = [view EXCEPT ![to] = [view[to] EXCEPT !.imp = i, !.mig = g]]
    BY <2>1, <2>2, <2>4, Zenon
  <2>6. PICK x : x = [view[to] EXCEPT !.imp = i, !.mig = g] /\ view' = [view EXCEPT ![to] = x]
    BY <2>5, Zenon
  <2>7. net' = net /\ (i[s] # None => view[to].owner[s] # to)
    BY <2>1, Zenon
  <2>. QED
    BY <1>1, <2>3, <2>6, <2>7, ZenonT(30)
<1>3. CASE StartMigrating
  <2>1. PICK n, s, to : n = op.from /\ s = op.slot /\ to = op.to
    BY Zenon
  <2>2. n \in Node /\ s \in Slot /\ to \in Node
    BY <1>3, <2>1, Zenon DEF StartMigrating, SlotsInv, OpFit
  <2>3. view[n].owner[s] = n /\ net' = net /\ view' = [view EXCEPT ![n].mig[s] = to]
    BY <1>3, <2>1, Zenon DEF StartMigrating, SetslotMigrating
  <2>4. PICK v, i, g : v = view[n] /\ i = v.imp /\ g = [v.mig EXCEPT ![s] = to]
    BY Zenon
  <2>5. /\ i \in [Slot -> NodeOrNone] /\ g \in [Slot -> NodeOrNone]
        /\ \A t \in Slot : t # s => i[t] = view[n].imp[t]
        /\ i[s] # None => view[n].owner[s] # n
    BY <1>0, <2>2, <2>4, Zenon DEF Table, NodeOrNone, ImportsFit
  <2>6. [v EXCEPT !.imp = i, !.mig = g] = [v EXCEPT !.mig = g]
    BY <1>0, <2>2, <2>4, Zenon DEF Table
  <2>7. view' = [view EXCEPT ![n] = [view[n] EXCEPT !.imp = i, !.mig = g]]
    BY <2>3, <2>4, <2>6, Zenon
  <2>8. PICK x : x = [view[n] EXCEPT !.imp = i, !.mig = g] /\ view' = [view EXCEPT ![n] = x]
    BY <2>7, Zenon
  <2>9. net' = net
    BY <2>3, Zenon
  <2>. QED
    BY <1>1, <2>2, <2>5, <2>8, <2>9, ZenonT(30)
<1>4. ASSUME UNCHANGED <<view, net>> PROVE NewsInv'
  BY <1>4, Zenon DEF NewsInv, PacketKnown
<1>5. ASSUME NEW n \in Node, NEW s \in Slot, SetslotStable(n, s), net' = net PROVE NewsInv'
  <2>1. PICK v, i, g : /\ v = view[n] /\ i = [v.imp EXCEPT ![s] = None]
                       /\ g = [v.mig EXCEPT ![s] = None]
    BY Zenon
  <2>2. /\ i \in [Slot -> NodeOrNone] /\ g \in [Slot -> NodeOrNone]
        /\ \A t \in Slot : t # s => i[t] = view[n].imp[t]
        /\ i[s] # None => view[n].owner[s] # n
    BY <1>0, <2>1, ZenonT(60) DEF Table, NodeOrNone
  <2>3. view' = [view EXCEPT ![n] = [view[n] EXCEPT !.imp = i, !.mig = g]]
    BY <1>5, <2>1, ZenonT(30) DEF SetslotStable
  <2>4. PICK x : x = [view[n] EXCEPT !.imp = i, !.mig = g] /\ view' = [view EXCEPT ![n] = x]
    BY <2>3, Zenon
  <2>. QED
    BY <1>1, <1>5, <2>2, <2>4, ZenonT(30)
<1>6. CASE GiveUp
  <2>1. op.to \in Node /\ op.slot \in Slot /\ SetslotStable(op.to, op.slot) /\ net' = net
    BY <1>6, Zenon DEF GiveUp, SlotsInv, OpFit
  <2>2. PICK n \in Node, s \in Slot : SetslotStable(n, s) /\ net' = net
    BY <2>1, Zenon
  <2>. QED
    BY <1>5, <2>2, Zenon
<1>7. CASE GivenUp
  <2>1. /\ op.from \in Node /\ op.slot \in Slot /\ net' = net
        /\ SetslotStable(op.from, op.slot) \/ UNCHANGED view
    BY <1>7, Zenon DEF GivenUp, SlotsInv, OpFit
  <2>2. CASE UNCHANGED view
    BY <1>4, <2>1, <2>2, Zenon
  <2>3. CASE SetslotStable(op.from, op.slot)
    <3>1. PICK n \in Node, s \in Slot : SetslotStable(n, s) /\ net' = net
      BY <2>1, <2>3, Zenon
    <3>. QED
      BY <1>5, <3>1, Zenon
  <2>. QED
    BY <2>1, <2>2, <2>3, Zenon
<1>8. CASE MigrateKeys
  BY <1>4, <1>8, Zenon DEF MigrateKeys
<1>. QED
  BY <1>2, <1>3, <1>6, <1>7, <1>8, Zenon

LEMMA TrafficNews ==
  ASSUME SlotsInv, NewsInv,
         \/ \E a, b \in Node : Send(a, b)
         \/ \E m \in net : Lose(m)
         \/ \E n \in Node, s \in Slot : Write(n, s)
  PROVE  NewsInv'
<1>1. CASE \E a, b \in Node : Send(a, b)
  <2>1. PICK a \in Node, b \in Node : Send(a, b)
    BY <1>1, Zenon
  <2>2. PICK v, h : v = view[a] /\ h = clusterBuildMessageHdr(v, b)
    BY Zenon
  <2>3. h.type = "ping" /\ h.from = v.me /\ h.cfg = v.cfg[MyMaster(v)]
    BY <2>2, Zenon DEF clusterBuildMessageHdr
  <2>4. Fit(v, a) /\ v.me = a
    BY <2>2, Zenon DEF SlotsInv, Fit
  <2>5. h.cfg <= Top(v)
    BY <2>3, <2>4 DEF MyMaster, IsMaster, Top, Fit, Table, Covered, NodeOrNone
  <2>6. PacketKnown(h)
    BY <2>2, <2>3, <2>4, <2>5, Zenon DEF PacketKnown
  <2>7. net' = net \cup {h} /\ view' = view
    BY <2>1, <2>2, Zenon DEF Send
  <2>. QED
    BY <2>6, <2>7, Zenon DEF NewsInv, PacketKnown
<1>2. CASE \E m \in net : Lose(m)
  BY <1>2, Zenon DEF Lose, NewsInv, PacketKnown
<1>3. CASE \E n \in Node, s \in Slot : Write(n, s)
  BY <1>3, Zenon DEF Write, NewsInv, PacketKnown
<1>. QED
  BY <1>1, <1>2, <1>3, Zenon

-----------------------------------------------------------------------------
(* A master's header that teaches its reader nothing says something of the *)
(* reader's table: its epoch is not the reader's if the sender's name is   *)
(* the greater, and every slot it serves that the reader gives to another  *)
(* is importing or is that one's with no smaller epoch.                    *)

Knows(v, from, epoch, slots) ==
  /\ v.slaveof[v.me] = None /\ v.cfg[from] <= epoch /\ v.cfg[v.me] = epoch => ~(from > v.me)
  /\ \A s \in slots : \/ v.owner[s] = from \/ v.imp[s] # None
                      \/ v.owner[s] # None /\ v.cfg[v.owner[s]] >= epoch

LEMMA NoNews ==
  ASSUME NEW n \in Node, NEW v0, Fit(v0, n), NEW held, KeysFit(v0, held),
         NEW m, PacketFit(m), m.to = n, m.type = "ping", m.slaveof = None,
         ProcessPing(v0, m, held).v = v0
  PROVE  Knows(v0, m.from, m.cfg, m.slots)
<1>1. PICK v : v = HearRole(HearEpochs(v0, m), m)
  BY Zenon
<1>2. Fit(v, n) /\ KeysFit(v, held)
  BY <1>1, HearFits, Zenon
<1>3. PICK from, cfg, slots : from = m.from /\ cfg = m.cfg /\ slots = m.slots
  BY Zenon
<1>4. from \in Node /\ from # n /\ cfg \in Nat /\ slots \in SUBSET Slot /\ v0.me = n /\ v.me = n
  BY <1>2, <1>3, Zenon DEF PacketFit, Ping, Update, Fit
<1>5. /\ \A k \in Node : v.cfg[k] = IF k = from THEN Larger(v0.cfg[k], cfg) ELSE v0.cfg[k]
      /\ v.imp = v0.imp /\ v.owner = v0.owner /\ v.slaveof[from] = None
      /\ v.slaveof[n] = v0.slaveof[n]
  <2>1. PICK w : w = HearEpochs(v0, m)
    BY Zenon
  <2>. QED
    BY <1>1, <1>3, <2>1, HearHeard, SMTT(20)
<1>6. PICK r : r = HearSlots(v, m, held)
  BY Zenon
<1>7. PICK w, u : w = r.v /\ u = HearCollision(w, m)
  BY Zenon
<1>8. r = (IF DirtySlots(v, m) THEN clusterUpdateSlotsConfigWith(v, from, cfg, slots, held)
           ELSE Same(v))
  BY <1>3, <1>5, <1>6, Zenon DEF HearSlots, IsMaster
<1>9. u = v0
  <2>1. r.v = w /\ ProcessPing(v0, m, held) = [r EXCEPT !.v = u,
                      !.out = IF DirtySlots(v, m) THEN Inform(r.v, m) ELSE {}]
    BY <1>1, <1>6, <1>7, Zenon DEF ProcessPing, Answered
  <2>2. [r EXCEPT !.v = u, !.out = IF DirtySlots(v, m) THEN Inform(r.v, m) ELSE {}].v = u
    BY <1>8, Zenon DEF Same, clusterUpdateSlotsConfigWith
  <2>. QED
    BY <2>1, <2>2, Zenon
<1>10. /\ Fit(w, n) /\ Heard(v, w) /\ w.cfg = v.cfg /\ w.slaveof[from] = None
       /\ DirtySlots(v, m) => Takes(v, w, from, cfg, slots)
  <2>1. CASE DirtySlots(v, m)
    <3>1. r = clusterUpdateSlotsConfigWith(v, from, cfg, slots, held)
      BY <1>8, <2>1, Zenon
    <3>2. Fit(r.v, n)
      BY <1>2, <1>4, <3>1, UpdateFits, Zenon
    <3>3. Heard(v, r.v) /\ r.v.cfg = v.cfg /\ Takes(v, r.v, from, cfg, slots)
      BY <1>2, <1>4, <3>1, UpdateHeard, SMTT(20)
    <3>4. r.v.slaveof[from] = None
      BY <1>4, <1>5, <3>3, Zenon DEF Takes
    <3>. QED
      BY <1>7, <3>2, <3>3, <3>4, Zenon
  <2>2. CASE ~DirtySlots(v, m)
    <3>1. w = v /\ v.cur \in Nat /\ v.cfg[v.me] \in Nat
      BY <1>2, <1>7, <1>8, <2>2, Zenon DEF Same, Fit, Table
    <3>. QED
      BY <1>2, <1>5, <2>2, <3>1 DEF Heard
  <2>. QED
    BY <2>1, <2>2, Zenon
<1>11. /\ u = w \/ u = clusterHandleConfigEpochCollision(w, from)
       /\ u.owner = w.owner /\ u.slaveof = w.slaveof
  <2>1. u = w \/ u = clusterHandleConfigEpochCollision(w, from)
    BY <1>3, <1>7, Zenon DEF HearCollision
  <2>. QED
    BY <1>4, <1>10, <2>1, BumpFits
<1>12. ASSUME v0.slaveof[n] = None, v0.cfg[from] <= cfg, v0.cfg[n] = cfg, from > n
       PROVE  FALSE
  <2>1. v0.cfg \in [Node -> Nat] /\ w.cur \in Nat /\ w \in Table /\ w.me = n /\ w.cfg[n] <= w.cur
    BY <1>10, Zenon DEF Fit, Table, Covered
  <2>2. w.cfg[from] = cfg /\ w.cfg[n] = cfg
    BY <1>4, <1>5, <1>10, <1>12, <2>1 DEF Larger
  <2>3. w.slaveof[n] = None
    BY <1>9, <1>11, <1>12, Zenon
  <2>4. u = [w EXCEPT !.cur = w.cur + 1, !.cfg[w.me] = w.cur + 1]
    BY <1>3, <1>7, <1>10, <1>12, <2>1, <2>2, <2>3, Zenon
    DEF HearCollision, clusterHandleConfigEpochCollision, IsMaster
  <2>5. u.cfg[n] = w.cur + 1
    BY <2>1, <2>4, Zenon DEF Table
  <2>. QED
    BY <1>9, <1>12, <2>1, <2>2, <2>5
<1>13. ASSUME NEW s \in slots, v0.owner[s] # from, v0.imp[s] = None,
              v0.owner[s] = None \/ ~(v0.cfg[v0.owner[s]] >= cfg)
       PROVE  FALSE
  <2>1. s \in Slot /\ v0.owner[s] \in NodeOrNone /\ v0.cfg \in [Node -> Nat]
    BY <1>4, <1>13, Zenon DEF Fit, Table
  <2>2. v.owner[s] = None \/ v.cfg[v.owner[s]] < cfg
    BY <1>4, <1>5, <1>13, <2>1 DEF NodeOrNone
  <2>3. s \notin SlotsOf(v, from)
    BY <1>5, <1>13, Zenon DEF SlotsOf
  <2>4. DirtySlots(v, m)
    BY <1>3, <1>5, <1>13, <2>3, Zenon DEF DirtySlots, IsMaster
  <2>5. w.owner[s] = from
    BY <1>4, <1>5, <1>10, <1>13, <2>2, <2>4, Zenon DEF Takes
  <2>. QED
    BY <1>9, <1>11, <1>13, <2>5, Zenon
<1>. QED
  BY <1>3, <1>4, <1>12, <1>13, Zenon DEF Knows

LEMMA SettledKnows ==
  ASSUME SlotsInv, NewsInv, Settled, NEW a \in Node, NEW b \in Node, a # b, IsMaster(view[a], a)
  PROVE  /\ Knows(view[b], a, view[a].cfg[a], SlotsOf(view[a], a))
         /\ view[b].cfg[a] <= view[a].cfg[a] /\ view[b].me = b /\ view[a].cfg[a] \in Nat
<1>1. PICK v, w, held : v = view[a] /\ w = view[b] /\ held = keys[b]
  BY Zenon
<1>2. /\ Fit(v, a) /\ Fit(w, b) /\ KeysFit(w, held) /\ v.me = a /\ w.me = b
      /\ v.slaveof[a] = None
  BY <1>1, Zenon DEF SlotsInv, Fit, IsMaster
<1>3. PICK m : m = clusterBuildMessageHdr(v, b)
  BY Zenon
<1>4. /\ m.type = "ping" /\ m.from = a /\ m.to = b /\ m.cfg = v.cfg[a] /\ m.slaveof = None
      /\ m.slots = SlotsOf(v, a) /\ m.cur = v.cur
  BY <1>2, <1>3, Zenon DEF clusterBuildMessageHdr, MyMaster, IsMaster
<1>5. m \in Ping
  BY <1>2, <1>3, <1>4, Zenon DEF clusterBuildMessageHdr, Ping, Fit, Table, SlotsOf, NodeOrNone
<1>6. PacketFit(m)
  BY <1>2, <1>4, <1>5, Zenon DEF PacketFit, Fit, Covered
<1>7. ProcessPing(w, m, held).v = w
  BY <1>1, <1>3, <1>4, Zenon DEF Settled, Exchanged, clusterProcessPacket
<1>8. Knows(w, m.from, m.cfg, m.slots)
  BY <1>2, <1>4, <1>6, <1>7, NoNews, ZenonT(30)
<1>9. w.cfg[a] <= v.cfg[a] /\ v.cfg[a] \in Nat
  BY <1>1, <1>2, Zenon DEF NewsInv, Top, Fit, Table
<1>. QED
  BY <1>1, <1>2, <1>4, <1>8, <1>9, Zenon

LEMMA NewsStep == SlotsInv /\ NewsInv /\ [Next]_vars => NewsInv'
<1>. SUFFICES ASSUME SlotsInv, NewsInv, [Next]_vars PROVE NewsInv'
  BY Zenon
<1>1. SlotsInv'
  BY SlotsStep, Zenon
<1>2. CASE UNCHANGED vars
  BY <1>2, Zenon DEF vars, NewsInv, PacketKnown
<1>3. CASE Next
  BY <1>1, <1>3, ReceiveNews, TellNews, OperatorNews, TakeoverNews, TrafficNews, Zenon DEF Next
<1>. QED
  BY <1>2, <1>3, Zenon

LEMMA InvariantsSettle == SlotsInv /\ NewsInv => NewsSettles
<1>. SUFFICES ASSUME SlotsInv, NewsInv, Settled
              PROVE  NewsSettles
  BY Zenon DEF NewsSettles
<1>1. ASSUME NEW n \in Node, NEW m \in Node, m > n, IsMaster(view[n], n), IsMaster(view[m], m)
      PROVE  view[n].cfg[n] # view[m].cfg[m]
  <2>1. n # m
    BY <1>1, SlotsAssumption DEF SlotsAssumption
  <2>2. /\ Knows(view[n], m, view[m].cfg[m], SlotsOf(view[m], m))
        /\ view[n].cfg[m] <= view[m].cfg[m] /\ view[n].me = n
    BY <1>1, <2>1, SettledKnows, Zenon
  <2>. QED
    BY <1>1, <2>2, Zenon DEF Knows, IsMaster
<1>2. ASSUME NEW n \in Node, NEW m \in Node, n # m, IsMaster(view[n], n), IsMaster(view[m], m)
      PROVE  view[n].cfg[n] # view[m].cfg[m]
  <2>1. n > m \/ m > n
    BY <1>2, SlotsAssumption DEF SlotsAssumption
  <2>. QED
    BY <1>1, <1>2, <2>1, Zenon
<1>3. ASSUME NEW n \in Node, NEW s \in Slot, view[n].owner[s] = n
      PROVE  IsMaster(view[n], n)
  BY <1>3 DEF SlotsInv, Fit, Served, IsMaster
<1>4. ASSUME NEW n \in Node, NEW m \in Node, n # m, NEW s \in Slot, view[n].owner[s] = n
      PROVE  \/ view[m].owner[s] = n \/ view[m].imp[s] # None
             \/ view[m].owner[s] # None /\ view[m].cfg[view[m].owner[s]] >= view[n].cfg[n]
  <2>1. Knows(view[m], n, view[n].cfg[n], SlotsOf(view[n], n))
    BY <1>3, <1>4, SettledKnows, Zenon
  <2>2. s \in SlotsOf(view[n], n)
    BY <1>4, Zenon DEF SlotsOf
  <2>. QED
    BY <2>1, <2>2, Zenon DEF Knows
<1>5. ASSUME NEW n \in Node, NEW m \in Node, NEW s \in Slot, view[n].owner[s] = n,
             view[m].owner[s] = m
      PROVE  n = m
  <2>. SUFFICES ASSUME n # m PROVE FALSE
    BY Zenon
  <2>1. IsMaster(view[n], n) /\ IsMaster(view[m], m)
    BY <1>3, <1>5, Zenon
  <2>2. view[n].imp[s] = None /\ view[m].imp[s] = None
    BY <1>5 DEF NewsInv, ImportsFit, SlotsInv, Fit
  <2>3. view[m].cfg[m] >= view[n].cfg[n]
    BY <1>4, <1>5, <2>2, Zenon
  <2>4. view[n].cfg[n] >= view[m].cfg[m]
    BY <1>4, <1>5, <2>2, Zenon
  <2>5. view[n].cfg[n] \in Nat /\ view[m].cfg[m] \in Nat
    BY ZenonT(60) DEF SlotsInv, Table
  <2>. QED
    BY <1>2, <2>1, <2>3, <2>4, <2>5
<1>6. EpochsDistinct
  BY <1>2, Zenon DEF EpochsDistinct
<1>7. OneOwnerEach
  BY <1>5, Zenon DEF OneOwnerEach
<1>8. OwnersAreKnown
  BY <1>4, Zenon DEF OwnersAreKnown
<1>. QED
  BY <1>6, <1>7, <1>8, Zenon DEF NewsSettles

\* Whenever the heartbeats bring no more news, the masters' config epochs are
\* distinct, no slot is served twice, and a master that does not know who serves
\* a slot imports it or gives it to a node with no smaller epoch: what the
\* comments of clusterHandleConfigEpochCollision and clusterUpdateSlotsConfigWith
\* promise, for any number of nodes and slots and any packets lost before.
THEOREM NewsAlwaysSettles == Spec => []NewsSettles
<1>1. Init => SlotsInv /\ NewsInv
  BY InitFits, InitNews, Zenon
<1>2. SlotsInv /\ NewsInv /\ [Next]_vars => SlotsInv' /\ NewsInv'
  BY SlotsStep, NewsStep, Zenon
<1>. QED
  BY <1>1, <1>2, InvariantsSettle, PTL DEF Spec
=============================================================================
