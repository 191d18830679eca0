---------------------------- MODULE Transactions ----------------------------
(***************************************************************************)
(* Redis: what a command passes before it is executed, transactions and    *)
(* what they propagate (server.c: processCommand, call, propagate;         *)
(* multi.c; signalModifiedKey and expireIfNeeded of db.c).                 *)
(*                                                                         *)
(* A key is a counter of its modifications and whether it exists; DB 1 is  *)
(* only there to be swapped with DB 0, where all clients are.  `cond' is   *)
(* one reason at a time for which the server refuses commands.  `fed' is   *)
(* what the last step propagated, a pair of the command and of whether it  *)
(* went to the replicas as well as to the AOF.                             *)
(***************************************************************************)
EXTENDS Naturals, FiniteSets, Sequences, SequencesExt

CONSTANTS Client, Key,
          Ops,        \* the commands that clients use
          Conds,      \* the conditions that occur, "ok" among them
          MaxMods,    \* bound: modifications of a key
          MaxQueue    \* bound: commands sent in a transaction

VARIABLES ver, alive, expired,  \* per key of DB 0: modifications, existence, past its TTL
          other,                \* the keys of DB 1 that exist and those past their TTL
          cond, role, paused,   \* why commands are refused; "master" or "replica"; CLIENT PAUSE
          cl,                   \* Client -> its flags, queue, watched keys and pending command
          snap,                 \* history: Client -> ver when each key was watched
          sent,                 \* history: Client -> commands sent since MULTI
          fed                   \* history: what the last step propagated

data == <<ver, alive, expired, other>>
transVars == <<data, cond, role, paused, cl, snap, sent, fed>>


Nothing == [op |-> "none"]

Plain == [multi |-> FALSE, cas |-> FALSE, err |-> FALSE, queue |-> <<>>, watched |-> {},
          pending |-> Nothing]

Init ==
  /\ ver = [k \in Key |-> 0] /\ alive = {} /\ expired = {}
  /\ other = [alive |-> {}, expired |-> {}]
  /\ cond = "ok" /\ role = "master" /\ paused = FALSE
  /\ cl = [c \in Client |-> Plain] /\ snap = [c \in Client |-> [k \in Key |-> 0]]
  /\ sent = [c \in Client |-> 0] /\ fed = <<>>

\* The command table, as far as it is needed: "bad" is an unknown command or one with a wrong
\* number of arguments.
Keyed == {"set", "del", "get", "watch"}
Commands == [op : Ops \cap Keyed, key : Key] \cup [op : Ops \ Keyed]
IsWrite(q) == q.op \in {"set", "del", "flush", "swap"}
IsDenyOom(q) == q.op = "set"
IsStale(q) == q.op \in {"replicaof", "pause", "unwatch", "multi", "exec", "discard", "watch"}
IsLoading(q) == q.op \in {"pause", "unwatch", "multi", "exec", "discard", "watch"}

-----------------------------------------------------------------------------
(* The effect of a command on a world w: the data, the clients and what    *)
(* was propagated so far by this step.                                     *)

World == [ver |-> ver, alive |-> alive, expired |-> expired, other |-> other, role |-> role,
          paused |-> paused, cl |-> cl, fed |-> <<>>, inExec |-> FALSE, inTrans |-> FALSE]

\* propagate: the first write in EXEC sends MULTI before it.  The replicas of a replica are
\* fed by its own master.
propagate(w, t) ==
  LET first == w.inExec /\ ~w.inTrans
      put(f, x) == Append(f, [cmd |-> x, repl |-> w.role = "master"])
  IN [w EXCEPT !.inTrans = @ \/ w.inExec,
               !.fed = put(IF first THEN put(w.fed, "MULTI") ELSE w.fed, t)]

touchWatchedKeys(w, ks) ==
  [w EXCEPT !.cl = [c \in Client |->
     IF w.cl[c].watched \cap ks # {} THEN [w.cl[c] EXCEPT !.cas = TRUE] ELSE w.cl[c]]]

Modify(w, ks) == [w EXCEPT !.ver = [k \in Key |-> w.ver[k] + IF k \in ks THEN 1 ELSE 0]]

\* Mutant: the key expires without a word to those who watch it.
ExpireUnseen(w, k) ==
  IF k \notin w.expired \/ w.role # "master" \/ w.paused THEN w
  ELSE [propagate(Modify(w, {k}), "del") EXCEPT !.alive = @ \ {k}, !.expired = @ \ {k}]

\* A master deletes the key it finds expired, unless it is paused.
expireIfNeeded(w, k) ==
  IF k \notin w.expired \/ w.role # "master" \/ w.paused THEN w
  ELSE touchWatchedKeys([propagate(Modify(w, {k}), "del")
                           EXCEPT !.alive = @ \ {k}, !.expired = @ \ {k}], {k})

setCommand(w, k) ==
  LET x == expireIfNeeded(w, k) IN
  propagate(touchWatchedKeys(
    [Modify(x, {k}) EXCEPT !.alive = @ \cup {k}, !.expired = @ \ {k}], {k}), "set")

delCommand(w, k) ==
  LET x == expireIfNeeded(w, k) IN
  IF k \notin x.alive THEN x
  ELSE propagate(touchWatchedKeys(
         [Modify(x, {k}) EXCEPT !.alive = @ \ {k}, !.expired = @ \ {k}], {k}), "del")

\* signalFlushedDb: only the watched keys that exist are touched.
flushdbCommand(w) ==
  propagate([touchWatchedKeys(Modify(w, w.alive), w.alive)
               EXCEPT !.alive = {}, !.expired = {}], "flushdb")

\* dbSwapDatabases: the keys that exist in either database are touched.
swapdbCommand(w) ==
  LET ks == w.alive \cup w.other.alive IN
  propagate([touchWatchedKeys(Modify(w, ks), ks)
               EXCEPT !.alive = w.other.alive, !.expired = w.other.expired,
                      !.other = [alive |-> w.alive, expired |-> w.expired]], "swapdb")

unwatchAllKeys(r) == [r EXCEPT !.watched = {}]

call(w, c, q) ==
  CASE q.op = "set"   -> setCommand(w, q.key)
    [] q.op = "del"   -> delCommand(w, q.key)
    [] q.op = "get"   -> expireIfNeeded(w, q.key)
    [] q.op = "flush" -> flushdbCommand(w)
    [] q.op = "swap"  -> swapdbCommand(w)
    [] q.op = "pause" -> [w EXCEPT !.paused = TRUE]
    [] q.op = "unwatch" -> [w EXCEPT !.cl[c] = [unwatchAllKeys(w.cl[c]) EXCEPT !.cas = FALSE]]
    [] q.op = "replicaof" -> [w EXCEPT !.role = IF w.role = "master" THEN "replica" ELSE "master"]

RECURSIVE CallAll(_, _, _)
CallAll(w, c, qs) == IF qs = <<>> THEN w ELSE CallAll(call(w, c, Head(qs)), c, Tail(qs))

discardTransaction(r) ==
  [unwatchAllKeys(r) EXCEPT !.multi = FALSE, !.cas = FALSE, !.err = FALSE, !.queue = <<>>]

\* EXEC is propagated like a write if MULTI was; a master that became a replica meanwhile
\* still ends the transaction in its backlog.
execCommand(w, c) ==
  LET r == w.cl[c] IN
  IF r.cas \/ r.err THEN [w EXCEPT !.cl[c] = discardTransaction(r)]
  ELSE LET x == CallAll([w EXCEPT !.cl[c] = unwatchAllKeys(r), !.inExec = TRUE], c, r.queue)
           y == [x EXCEPT !.cl[c] = discardTransaction(x.cl[c]), !.inExec = FALSE]
           repl == x.role = "master" \/ w.role = "master"
       IN IF x.inTrans
            THEN [y EXCEPT !.inTrans = FALSE, !.fed = Append(@, [cmd |-> "EXEC", repl |-> repl])]
            ELSE y

-----------------------------------------------------------------------------
(* processCommand.                                                         *)

\* What EXEC carries counts as its own.
Carries(c, q, P(_)) == P(q) \/ (q.op = "exec" /\ \E i \in DOMAIN cl[c].queue : P(cl[c].queue[i]))

Denied(c, q) ==
  LET write == Carries(c, q, IsWrite)
      full  == \/ Carries(c, q, IsDenyOom)
               \/ cl[c].multi /\ q.op \notin {"exec", "discard"}
  IN \/ q.op = "bad"
     \/ cond = "oom" /\ full
     \/ cond \in {"disk", "noslaves"} /\ role = "master" /\ write
     \/ role = "replica" /\ write
     \/ cond = "stale" /\ role = "replica" /\ Carries(c, q, LAMBDA x : ~IsStale(x))
     \/ cond = "loading" /\ Carries(c, q, LAMBDA x : ~IsLoading(x))
     \/ cond = "slow" /\ q.op \notin {"multi", "discard", "watch", "unwatch"}

\* rejectCommand: the transaction of the client is spoiled; EXEC discards it.
rejectCommand(c, q) ==
  IF q.op = "exec" THEN [World EXCEPT !.cl[c] = discardTransaction(cl[c])]
  ELSE IF cl[c].multi THEN [World EXCEPT !.cl[c].err = TRUE] ELSE World

queueMultiCommand(c, q) ==
  IF cl[c].err THEN World ELSE [World EXCEPT !.cl[c].queue = Append(@, q)]

Execute(c, q) ==
  CASE q.op = "multi"   -> IF cl[c].multi THEN World ELSE [World EXCEPT !.cl[c].multi = TRUE]
    [] q.op = "watch"   -> IF cl[c].multi THEN World
                           ELSE [World EXCEPT !.cl[c].watched = @ \cup {q.key}]
    [] q.op = "discard" -> IF cl[c].multi THEN [World EXCEPT !.cl[c] = discardTransaction(cl[c])]
                           ELSE World
    [] q.op = "exec"    -> IF cl[c].multi THEN execCommand(World, c) ELSE World
    [] OTHER            -> IF cl[c].multi THEN queueMultiCommand(c, q) ELSE call(World, c, q)

\* Mutant: EXEC is not looked into.
HeldUnlessExec(c, q) == paused /\ IsWrite(q)

\* CLIENT PAUSE WRITE holds back what may replicate.
Held(c, q) == paused /\ Carries(c, q, IsWrite)

Apply(w) ==
  /\ \A k \in Key : w.ver[k] <= MaxMods
  /\ ver' = w.ver /\ alive' = w.alive /\ expired' = w.expired /\ other' = w.other
  /\ role' = w.role /\ paused' = w.paused /\ cl' = w.cl /\ fed' = w.fed

\* What the client sent counts for the transaction; WATCH takes a snapshot of a new key.
Note(c, q) ==
  /\ sent' = [sent EXCEPT ![c] = IF cl'[c].multi /\ cl[c].multi /\ q.op \notin {"multi", "watch"}
                                   THEN @ + 1 ELSE IF cl'[c].multi THEN @ ELSE 0]
  /\ snap' = [snap EXCEPT ![c] = [k \in Key |->
                IF k \notin cl'[c].watched THEN 0
                ELSE IF k \in cl[c].watched THEN snap[c][k] ELSE ver[k]]]

processCommand(c, q) ==
  /\ cl[c].pending = Nothing
  /\ cl[c].multi /\ q.op \notin {"exec", "discard", "multi", "watch"} => sent[c] < MaxQueue
  /\ IF Denied(c, q) THEN Apply(rejectCommand(c, q)) /\ Note(c, q)
     ELSE IF Held(c, q) THEN /\ Apply([World EXCEPT !.cl[c].pending = q])
                             /\ UNCHANGED <<sent, snap>>
     ELSE Apply(Execute(c, q)) /\ Note(c, q)
  /\ UNCHANGED cond

\* The pause ends: the commands that were held are processed from the start.
Resume(c) ==
  LET q == cl[c].pending IN
  /\ q # Nothing /\ ~paused
  /\ LET w == IF Denied(c, q) THEN rejectCommand(c, q) ELSE Execute(c, q) IN
     Apply([w EXCEPT !.cl[c].pending = Nothing])
  /\ Note(c, q)
  /\ UNCHANGED cond

PauseEnds ==
  /\ paused /\ paused' = FALSE /\ fed' = <<>>
  /\ UNCHANGED <<data, cond, role, cl, snap, sent>>

-----------------------------------------------------------------------------
(* What else happens to the server.                                        *)

Condition(d) ==
  /\ d # cond /\ "ok" \in {cond, d}
  /\ cond' = d /\ fed' = <<>>
  /\ UNCHANGED <<data, role, paused, cl, snap, sent>>

TimePasses(k) ==
  /\ k \in alive \ expired
  /\ expired' = expired \cup {k} /\ fed' = <<>>
  /\ UNCHANGED <<ver, alive, other, cond, role, paused, cl, snap, sent>>

\* activeExpireCycle, which a replica or a paused server does not run.
activeExpireCycle(k) ==
  /\ k \in expired /\ role = "master" /\ ~paused
  /\ Apply(expireIfNeeded(World, k))
  /\ UNCHANGED <<cond, snap, sent>>

Disconnect(c) ==
  /\ cl[c] # Plain
  /\ cl' = [cl EXCEPT ![c] = Plain] /\ sent' = [sent EXCEPT ![c] = 0] /\ fed' = <<>>
  /\ snap' = [snap EXCEPT ![c] = [k \in Key |-> 0]]
  /\ UNCHANGED <<data, cond, role, paused>>


Next ==
  \/ \E c \in Client : \/ \E q \in Commands : processCommand(c, q)
                       \/ Resume(c) \/ Disconnect(c)
  \/ PauseEnds
  \/ \E d \in Conds : Condition(d)
  \/ \E k \in Key : TimePasses(k) \/ activeExpireCycle(k)

Spec == Init /\ [][Next]_transVars

-----------------------------------------------------------------------------
\* Check-and-set: a client that watches a key which was modified since, by whatever command,
\* expiry, flush or swap, has CLIENT_DIRTY_CAS, which makes its EXEC fail; and a client is
\* not flagged without a watched key.
WatchedChangesSeen ==
  \A c \in Client : /\ \A k \in cl[c].watched : ver[k] # snap[c][k] => cl[c].cas
                    /\ cl[c].cas => cl[c].watched # {}

\* All or nothing: a transaction that EXEC would run holds every command its client sent
\* after MULTI, the refused ones included.
NothingSkipped ==
  \A c \in Client : cl[c].multi /\ ~cl[c].err => Len(cl[c].queue) = sent[c]

Balanced(s) ==
  \/ \A i \in DOMAIN s : s[i] \notin {"MULTI", "EXEC"}
  \/ /\ Len(s) > 2 /\ s[1] = "MULTI" /\ Last(s) = "EXEC"
     /\ \A i \in 2..(Len(s) - 1) : s[i] \notin {"MULTI", "EXEC"}

\* What a step propagates, to the AOF and to the replicas, is writes alone or one complete
\* MULTI ... EXEC around all of them, even when the server becomes a replica in EXEC; except
\* that EXEC alone goes to the backlog when all writes came after that.
PropagatedWhole ==
  LET aof  == [i \in DOMAIN fed |-> fed[i].cmd]
      some == SelectSeq(fed, LAMBDA x : x.repl)
      seen == [i \in DOMAIN some |-> some[i].cmd]
  IN Balanced(aof) /\ (Balanced(seen) \/ (role = "replica" /\ seen = <<"EXEC">>))

\* "the initial MULTI was propagated into the replication backlog": the backlog never gets an
\* EXEC without its MULTI.
BacklogWhole ==
  LET some == SelectSeq(fed, LAMBDA x : x.repl) IN Balanced([i \in DOMAIN some |-> some[i].cmd])

\* "the dataset should be fixed during client pause": nothing is modified, nothing expires,
\* and nothing is propagated by a step that starts while the server is paused.
PausedIsFixed == [][paused => ver' = ver /\ alive' = alive /\ fed' = <<>>]_transVars
=============================================================================
