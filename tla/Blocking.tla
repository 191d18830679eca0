------------------------------ MODULE Blocking ------------------------------
(***************************************************************************)
(* Redis: clients blocked on keys (blocked.c, the blocking commands of     *)
(* t_list.c, and the part of db.c that signals keys as ready).             *)
(*                                                                         *)
(* A value is its type and its length; the length of a stream is the       *)
(* sequence number of its last_id.  A command, or the commands of an EXEC, *)
(* and handleClientsBlockedOnKeys after it, are one step.  Which end of a  *)
(* list an element leaves or enters is left out.                           *)
(***************************************************************************)
EXTENDS Naturals, FiniteSets, Sequences, SequencesExt

CONSTANTS Client, Key,
          MaxLen,     \* bound: elements in lists and sorted sets; entries of a stream
          MaxBatch,   \* bound: write commands in one EXEC, which all name a key waited for
          None        \* no key

VARIABLES db,         \* Key -> [type, n]
          waiting,    \* db->blocking_keys: Key -> the clients, first blocked first
          cl,         \* Client -> btype, bpop.keys (with the stream id), bpop.target
          over,       \* history: keys whose value replaced one of another command
          stock       \* history: elements pushed, minus those delivered or deleted

blockVars == <<db, waiting, cl, over, stock>>

Missing == [type |-> "none", n |-> 0]
Idle == [btype |-> "none", keys |-> {}, target |-> None, gt |-> 0]

Init ==
  /\ db = [k \in Key |-> Missing] /\ waiting = [k \in Key |-> <<>>]
  /\ cl = [c \in Client |-> Idle] /\ over = {} /\ stock = 0

\* What a command changes, with server.ready_keys.
World == [db |-> db, waiting |-> waiting, cl |-> cl, over |-> over, stock |-> stock,
          ready |-> <<>>]

Elements(v) == IF v.type \in {"list", "zset"} THEN v.n ELSE 0

-----------------------------------------------------------------------------
(* The keyspace.                                                           *)

\* A key is listed once, and only when somebody waits for it and for its type.
signalKeyAsReady(s, k, type) ==
  IF /\ \E c \in Client : s.cl[c].btype = type
     /\ s.waiting[k] # <<>> /\ ~Contains(s.ready, k)
    THEN [s EXCEPT !.ready = Append(@, k)] ELSE s

\* Mutant: a new key is not signalled.
dbAddSilent(s, k, v) == [s EXCEPT !.db[k] = v, !.over = @ \ {k}, !.stock = @ + Elements(v)]

dbAdd(s, k, v) ==
  signalKeyAsReady([s EXCEPT !.db[k] = v, !.over = @ \ {k}, !.stock = @ + Elements(v)],
                   k, v.type)

dbDelete(s, k) ==
  [s EXCEPT !.db[k] = Missing, !.over = @ \ {k}, !.stock = @ - Elements(s.db[k])]

\* setKey; dbOverwrite does not signal the key.
setKey(s, k, v) ==
  IF s.db[k].type = "none" THEN dbAdd(s, k, v)
  ELSE [s EXCEPT !.db[k] = v, !.over = @ \cup {k},
                 !.stock = @ - Elements(s.db[k]) + Elements(v)]

-----------------------------------------------------------------------------
(* Write commands, as operators on the world.                              *)

\* LPUSH, ZADD, XADD: a key of another type is an error.  XADD always signals.
Grow(s, k, type) ==
  IF s.db[k].type = "none" THEN dbAdd(s, k, [type |-> type, n |-> 1])
  ELSE IF s.db[k].type # type THEN s
  ELSE LET t == [s EXCEPT !.db[k].n = s.db[k].n + 1,
                          !.stock = s.stock + (IF type = "stream" THEN 0 ELSE 1)]
       IN IF type = "stream" THEN signalKeyAsReady(t, k, type) ELSE t

renameCommand(s, k, l) ==
  IF s.db[k].type = "none" THEN s
  ELSE LET v == s.db[k] IN dbAdd(dbDelete(dbDelete(s, l), k), l, v)

Writes == [op : {"list", "zset", "stream", "set", "store", "del"}, key : Key]
          \cup {w \in [op : {"rename"}, key : Key, to : Key] : w.key # w.to}

Write(s, w) ==
  CASE w.op \in {"list", "zset", "stream"} -> Grow(s, w.key, w.op)
    [] w.op = "set"    -> setKey(s, w.key, [type |-> "string", n |-> 1])
    [] w.op = "store"  -> setKey(s, w.key, [type |-> "list", n |-> 1])
    [] w.op = "del"    -> dbDelete(s, w.key)
    [] w.op = "rename" -> renameCommand(s, w.key, w.to)

-----------------------------------------------------------------------------
(* Serving the clients.                                                    *)

\* unblockClient, by way of key k: unblockClientWaitingData leaves the lists of all its keys.
unblockClient(s, c, k) ==
  [s EXCEPT !.waiting = [j \in Key |-> SelectSeq(s.waiting[j], LAMBDA d : d # c)],
            !.cl[c] = Idle]

Rotate(s, k) == [s EXCEPT !.waiting[k] = Append(Tail(s.waiting[k]), Head(s.waiting[k]))]

Deliver(s, k) == [s EXCEPT !.db[k].n = s.db[k].n - 1, !.stock = s.stock - 1]

\* serveClientBlockedOnList for a client that unblocked with this target; the element is
\* pushed back when the target has another type.
serveClientBlockedOnList(s, k, target) ==
  IF target = None THEN Deliver(s, k)
  ELSE IF s.db[target].type \notin {"none", "list"} THEN s
  ELSE Grow(Deliver(s, k), target, "list")

RECURSIVE serveClientsBlockedOnListKey(_, _, _)
serveClientsBlockedOnListKey(s, k, n) ==
  IF n = 0 \/ s.db[k].n = 0
    THEN IF s.db[k].n = 0 THEN dbDelete(s, k) ELSE s
  ELSE LET c == Head(s.waiting[k])
           t == IF s.cl[c].btype # "list" THEN Rotate(s, k)
                ELSE serveClientBlockedOnList(unblockClient(s, c, k), k, s.cl[c].target)
       IN serveClientsBlockedOnListKey(t, k, n - 1)

RECURSIVE serveClientsBlockedOnSortedSetKey(_, _, _)
serveClientsBlockedOnSortedSetKey(s, k, n) ==
  IF n = 0 \/ s.db[k].n = 0
    THEN IF s.db[k].n = 0 THEN dbDelete(s, k) ELSE s
  ELSE LET c == Head(s.waiting[k])
           t == IF s.cl[c].btype # "zset" THEN Rotate(s, k)
                ELSE Deliver(unblockClient(s, c, k), k)
       IN serveClientsBlockedOnSortedSetKey(t, k, n - 1)

\* Every client that waits for a smaller id is served.
RECURSIVE serveClientsBlockedOnStreamKey(_, _, _)
serveClientsBlockedOnStreamKey(s, k, clients) ==
  IF clients = <<>> THEN s
  ELSE LET c == Head(clients)
           t == IF s.cl[c].btype = "stream" /\ s.db[k].n > s.cl[c].gt
                  THEN unblockClient(s, c, k) ELSE s
       IN serveClientsBlockedOnStreamKey(t, k, Tail(clients))

ServeKey(s, k) ==
  CASE s.db[k].type = "list"   -> serveClientsBlockedOnListKey(s, k, Len(s.waiting[k]))
    [] s.db[k].type = "zset"   -> serveClientsBlockedOnSortedSetKey(s, k, Len(s.waiting[k]))
    [] s.db[k].type = "stream" -> serveClientsBlockedOnStreamKey(s, k, s.waiting[k])
    [] OTHER -> s

\* A key leaves the list before it is served, so that serving it may list it again.
RECURSIVE handleClientsBlockedOnKeys(_)
handleClientsBlockedOnKeys(s) ==
  IF s.ready = <<>> THEN s
  ELSE handleClientsBlockedOnKeys(
         ServeKey([s EXCEPT !.ready = Tail(s.ready)], Head(s.ready)))

Apply(s) ==
  LET t == handleClientsBlockedOnKeys(s) IN
  /\ db' = t.db /\ waiting' = t.waiting /\ cl' = t.cl
  /\ over' = t.over /\ stock' = t.stock

-----------------------------------------------------------------------------
(* Commands.                                                               *)

RECURSIVE WriteAll(_, _)
WriteAll(s, ws) == IF ws = <<>> THEN s ELSE WriteAll(Write(s, Head(ws)), Tail(ws))

\* One write command, or an EXEC of several.
ExecWrites(ws) ==
  LET s == WriteAll(World, ws) IN
  /\ s.stock <= MaxLen
  /\ \A k \in Key : s.db[k].type = "stream" => s.db[k].n <= MaxLen
  /\ Apply(s)

blockForKeys(s, c, btype, keys, target, gt) ==
  [s EXCEPT !.waiting = [k \in Key |-> IF k \in keys THEN Append(s.waiting[k], c)
                                       ELSE s.waiting[k]],
            !.cl[c] = [btype |-> btype, keys |-> keys, target |-> target, gt |-> gt]]

\* BLPOP and, with sorted sets, BZPOPMIN: the first of the keys, in order, that is not empty serves the client; a
\* key of another type before it is an error.
blockingPopGenericCommand(c, type, order) ==
  LET at == {j \in DOMAIN order : db[order[j]].type # "none"}
      k  == order[CHOOSE j \in at : \A i \in at : j <= i]
  IN /\ cl[c].btype = "none"
     /\ IF at = {} THEN Apply(blockForKeys(World, c, type, ToSet(order), None, 0))
        ELSE /\ db[k].type = type
             /\ Apply(LET s == Deliver(World, k) IN
                      IF s.db[k].n = 0 THEN dbDelete(s, k) ELSE s)

blockingGenericZpopCommand(c, order) == blockingPopGenericCommand(c, "zset", order)

\* BLMOVE: with elements in the list, LMOVE.
blmoveGenericCommand(c, k, target) ==
  /\ cl[c].btype = "none"
  /\ \/ /\ db[k].type = "none"
        /\ Apply(blockForKeys(World, c, "list", {k}, target, 0))
     \/ /\ db[k].type = "list" /\ db[target].type \in {"none", "list"}
        /\ Apply(LET s == Grow(Deliver(World, k), target, "list") IN
                 IF s.db[k].n = 0 THEN dbDelete(s, k) ELSE s)

\* XREAD BLOCK with the id `$' or 0, when there is nothing newer.
xreadCommand(c, k, gt) ==
  /\ cl[c].btype = "none" /\ db[k].type \in {"none", "stream"}
  /\ gt \in {0, db[k].n} /\ db[k].n <= gt
  /\ Apply(blockForKeys(World, c, "stream", {k}, None, gt))

\* The timeout of the client, CLIENT UNBLOCK, or the client disconnects.
Unblock(c) ==
  /\ cl[c].btype # "none"
  /\ Apply(unblockClient(World, c, CHOOSE k \in cl[c].keys : TRUE))

\* A master that becomes a replica.
disconnectAllBlockedClients ==
  /\ \E c \in Client : cl[c].btype # "none"
  /\ waiting' = [k \in Key |-> <<>>] /\ cl' = [c \in Client |-> Idle]
  /\ UNCHANGED <<db, over, stock>>

Next ==
  \/ \E k \in Key : \E b \in 1..(IF waiting[k] = <<>> THEN 1 ELSE MaxBatch) :
       \E ws \in [1..b -> {w \in Writes : w.key = k}] : ExecWrites(ws)
  \/ \E c \in Client :
       \/ \E ks \in SUBSET Key \ {{}} : \E order \in SetToSeqs(ks) :
            \/ blockingPopGenericCommand(c, "list", order)
            \/ blockingGenericZpopCommand(c, order)
       \/ \E k, target \in Key : blmoveGenericCommand(c, k, target)
       \/ \E k \in Key, gt \in 0..MaxLen : xreadCommand(c, k, gt)
       \/ Unblock(c)
  \/ disconnectAllBlockedClients

Spec == Init /\ [][Next]_blockVars

-----------------------------------------------------------------------------
Could(c, k) ==
  /\ db[k].type = cl[c].btype
  /\ db[k].n > (IF cl[c].btype = "stream" THEN cl[c].gt ELSE 0)

\* No wake-up is lost: between commands, nobody waits for a key that could serve them; only
\* dbOverwrite, which never signals, leaves such a client behind.
NoLostWakeup ==
  \A c \in Client : \A k \in cl[c].keys : Could(c, k) => k \in over

\* db->blocking_keys and the keys of the clients say the same, each client once: a client
\* served for one key is found in no other list afterwards.
ListsAgree ==
  \A k \in Key : /\ IsInjective(waiting[k])
                 /\ ToSet(waiting[k]) = {c \in Client : k \in cl[c].keys}

RECURSIVE SumOf(_)
SumOf(ks) == IF ks = {} THEN 0
             ELSE LET k == CHOOSE k \in ks : TRUE IN Elements(db[k]) + SumOf(ks \ {k})

\* No element is lost or doubled: an element popped for a client that cannot take it is
\* pushed back, and no key is left with an empty list or sorted set.
ElementsKept ==
  /\ SumOf(Key) = stock
  /\ \A k \in Key : db[k].type # "none" => db[k].n > 0
=============================================================================
