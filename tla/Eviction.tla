------------------------------ MODULE Eviction ------------------------------
(***************************************************************************)
(* Freeing memory when maxmemory is exceeded (src/redis-6.2.0/src/evict.c, *)
(* with the access times of db.c and the lazy free thread of lazyfree.c):  *)
(* performEvictions before a write and from its timer, the pool of the     *)
(* best keys to evict, the wrapping clock the idle times come from, and    *)
(* the background thread that frees memory while the loop runs.            *)
(***************************************************************************)
EXTENDS Integers, Sequences, FiniteSets, FiniteSetsExt, SequencesExt

CONSTANTS
  Key, DB,
  Policies,     \* the values of maxmemory-policy to consider: what is scored, none,
                \* lru, lfu, ttl or random, and whether all keys or the volatile ones
  Lazies,       \* the values of lazyfree-lazy-eviction to consider
  PoolSize,     \* EVPOOL_SIZE
  Samples,      \* maxmemory-samples
  Batch,        \* the time limit is looked at after so many keys, 16 in the code
  ClockMax,     \* LRU_CLOCK_MAX, and 65535 for the LFU times
  MaxMemory,    \* maxmemory, in keys
  None,
  MaxTime, MaxWrites, MaxPauses

VARIABLES
  time,     \* the real time, of which the clock keeps the low bits
  policy, lazy,
  obj,      \* [DB \X Key -> object or None]: lru, at (the real access time), exp
  pending,  \* objects handed to the lazy free thread and not freed yet
  pool,     \* EvictionPoolLRU: the entries in use, best last
  nextdb,   \* next_db of the random policies
  running,  \* isEvictionProcRunning
  loop,     \* the call of performEvictions in progress
  paused,
  refused,  \* what the last refused write found: whether it had a reason
  used

vars == <<time, policy, lazy, obj, pending, pool, nextdb, running, loop, paused, refused, used>>

Place == DB \X Key

Idle == [on |-> FALSE, by |-> None, tofree |-> 0, freed |-> 0, keys |-> 0, over |-> 0]

Content == [short |-> TRUE, left |-> FALSE]

Stored == {p \in Place : obj[p] # None}
Used == Cardinality(Stored) + pending

\* getMaxmemoryState: buffers of replicas and of the AOF are not counted, so
\* that only the key space and what is still to be freed matters.
MemoryOk == Used <= MaxMemory

-----------------------------------------------------------------------------
(* Clocks.                                                                   *)
Clock == time % (ClockMax + 1)

\* Mutant: the clock is taken never to wrap around.
IdleNoWrap(o) == (Clock - o.lru) % (2 * (ClockMax + 1))

estimateObjectIdleTime(o) ==
  IF Clock >= o.lru THEN Clock - o.lru ELSE Clock + (ClockMax - o.lru)

LFUTimeElapsed(o) ==
  IF Clock >= o.lru THEN Clock - o.lru ELSE ClockMax - o.lru + Clock

\* With one decay period per unit of time.
LFUDecrAndReturn(o) ==
  IF LFUTimeElapsed(o) > o.count THEN 0 ELSE o.count - LFUTimeElapsed(o)

CountMax == 2

\* The score of a candidate: higher is better to evict.
Score(o) ==
  CASE policy.kind = "lru" -> estimateObjectIdleTime(o)
    [] policy.kind = "lfu" -> CountMax - LFUDecrAndReturn(o)
    [] OTHER -> MaxTime + 2 - o.exp

\* The dictionary the policy samples from: all keys or the volatile ones.
Candidates(d) == {p \in Stored : p[1] = d /\ (policy.all \/ obj[p].exp > 0)}

Evictable == UNION {Candidates(d) : d \in DB}

-----------------------------------------------------------------------------
(* The pool.                                                                 *)

\* The first entry that is not worse than e is at k + 1.  In a full pool the
\* worst entry makes room, and a candidate worse than all is not taken.
Insert(q, e) ==
  LET k == Cardinality({i \in DOMAIN q : \A j \in 1 .. i : q[j].idle < e.idle})
  IN IF k = 0 /\ Len(q) = PoolSize THEN q
     ELSE IF Len(q) < PoolSize THEN SubSeq(q, 1, k) \o <<e>> \o SubSeq(q, k + 1, Len(q))
     ELSE SubSeq(q, 2, k) \o <<e>> \o SubSeq(q, k + 1, Len(q))

RECURSIVE evictionPoolPopulate(_, _)
evictionPoolPopulate(q, sample) ==
  IF sample = <<>> THEN q
  ELSE evictionPoolPopulate(
         Insert(q, [at |-> Head(sample), idle |-> Score(obj[Head(sample)])]), Tail(sample))

\* The best entry whose key can still be evicted; the ghosts above it go.
Pick(q) == LET good == {i \in DOMAIN q : q[i].at \in Evictable}
           IN IF good = {} THEN 0 ELSE Max(good)

\* What dictGetSomeKeys may return for every database with candidates: up to
\* Samples of them, one at least.
SamplesOf(d) ==
  IF Candidates(d) = {} THEN {<<>>}
  ELSE UNION {SetToSeqs(S) : S \in {T \in SUBSET Candidates(d) : Cardinality(T) \in 1 .. Samples}}

SampleAll == {FlattenSeq([i \in 1 .. Cardinality(DB) |-> f[i - 1]]) :
                f \in {g \in [DB -> UNION {SamplesOf(d) : d \in DB}] :
                         \A d \in DB : g[d] \in SamplesOf(d)}}

\* One turn of "while (bestkey == NULL)": the pool is filled, then read from
\* the right.  A turn that meets only ghosts leaves an empty pool.
Turn(q, sample) ==
  LET f == evictionPoolPopulate(q, sample)
      k == Pick(f)
  IN IF k = 0 THEN [pool |-> <<>>, best |-> None]
     ELSE [pool |-> SubSeq(f, 1, k - 1), best |-> f[k].at]

-----------------------------------------------------------------------------
NewObj(exp) == [lru |-> Clock, at |-> time, exp |-> exp, count |-> 1]

Init ==
  /\ time = 0
  /\ policy \in Policies
  /\ lazy \in Lazies
  /\ obj = [p \in Place |-> None]
  /\ pending = 0 /\ pool = <<>> /\ nextdb = 0 /\ running = FALSE
  /\ loop = Idle /\ paused = FALSE /\ refused = Content
  /\ used = [writes |-> 0, pauses |-> 0]

\* The write of place p with expire exp, once evictions gave their result.
ExecuteWrite(w) ==
  /\ obj' = [obj EXCEPT ![w.at] = NewObj(w.exp)]
  /\ used' = [used EXCEPT !.writes = used.writes + 1]

\* Keys the policy would let go are left.
Left == policy.kind # "none" /\ \E d \in DB : Candidates(d) # {}

\* The result of performEvictions reaches its caller: processCommand refuses
\* the write on a failure only, the timer goes on only while running.  A
\* refusal records whether memory was short and whether keys were left.
Return(by, result, short) ==
  /\ loop' = Idle
  /\ IF by.timer
     THEN running' = (result = "running") /\ UNCHANGED <<obj, used, refused>>
     ELSE /\ UNCHANGED running
          /\ IF result = "fail"
             THEN refused' = [short |-> short, left |-> Left]
                  /\ UNCHANGED <<obj, used>>
             ELSE refused' = Content /\ ExecuteWrite(by)

isSafeToPerformEvictions == ~paused

\* Up to the loop of performEvictions.
Begin(by) ==
  IF ~isSafeToPerformEvictions \/ MemoryOk THEN Return(by, "ok", FALSE)
  ELSE IF policy.kind = "none" THEN Return(by, "fail", TRUE)
  ELSE /\ loop' = [Idle EXCEPT !.on = TRUE, !.by = by, !.tofree = Used - MaxMemory]
       /\ UNCHANGED <<obj, running, used, refused>>

\* processCommand of a write that may need memory; exp 0 is no expire.
Write ==
  /\ ~loop.on /\ used.writes < MaxWrites
  /\ \E p \in Place, exp \in {0, time + 1} :
       /\ policy.kind = "ttl" \/ ~policy.all \/ exp = 0
       /\ Begin([timer |-> FALSE, at |-> p, exp |-> exp])
  /\ UNCHANGED <<time, policy, lazy, pending, pool, nextdb, paused>>

evictionTimeProc ==
  /\ ~loop.on /\ running
  /\ Begin([timer |-> TRUE, at |-> <<0, None>>, exp |-> 0])
  /\ UNCHANGED <<time, policy, lazy, pending, pool, nextdb, paused>>

\* Every Batch keys the loop looks whether the thread freed enough, and whether
\* its time is up: then it starts the timer.  over counts the keys deleted
\* although the memory was already in its limit.
AfterKey(freed, timesup) ==
  LET next == [loop EXCEPT !.keys = loop.keys + 1, !.freed = freed,
                           !.over = IF MemoryOk THEN loop.over + 1 ELSE loop.over]
      look == (loop.keys + 1) % Batch = 0
  IN IF look /\ lazy /\ MemoryOk
     THEN loop' = [next EXCEPT !.freed = loop.tofree] /\ UNCHANGED running
     ELSE IF look /\ timesup
     THEN loop' = [next EXCEPT !.freed = loop.tofree] /\ running' = TRUE
     ELSE loop' = next /\ UNCHANGED running

\* Deletes the key: a large object is freed later by the thread if lazy, and
\* then counts for nothing in what the loop freed.
DeleteKey(p) ==
  \E async \in (IF lazy THEN {TRUE, FALSE} ELSE {FALSE}), timesup \in {TRUE, FALSE} :
    /\ obj' = [obj EXCEPT ![p] = None]
    /\ pending' = IF async THEN pending + 1 ELSE pending
    /\ AfterKey(IF async THEN loop.freed ELSE loop.freed + 1, timesup)

InLoop == loop.on /\ loop.freed < loop.tofree

\* A turn of the loop for the policies that use the pool.
EvictFromPool ==
  /\ InLoop /\ policy.kind # "random" /\ Evictable # {}
  /\ \E sample \in SampleAll :
       LET t == Turn(pool, sample)
       IN /\ pool' = t.pool
          /\ IF t.best = None THEN UNCHANGED <<obj, pending, loop, running>> ELSE DeleteKey(t.best)
  /\ UNCHANGED <<time, policy, lazy, nextdb, paused, refused, used>>

\* The random policies take a key of the next database that has candidates.
NextDb == LET n == Cardinality(DB)
          IN (nextdb + Min({i \in 1 .. n : Candidates((nextdb + i) % n) # {}})) % n

EvictAtRandom ==
  /\ InLoop /\ policy.kind = "random" /\ Evictable # {}
  /\ nextdb' = NextDb
  /\ \E p \in Candidates(NextDb) : DeleteKey(p)
  /\ UNCHANGED <<time, policy, lazy, pool, paused, refused, used>>

LoopEnds ==
  /\ loop.on /\ loop.freed >= loop.tofree
  /\ Return(loop.by, IF running THEN "running" ELSE "ok", FALSE)
  /\ UNCHANGED <<time, policy, lazy, pending, pool, nextdb, paused>>

\* Nothing to evict: if objects wait for the thread, sleep a little and look
\* again at the memory; n of them were freed meanwhile.
CantFree ==
  /\ InLoop /\ Evictable = {}
  /\ \E n \in 0 .. pending :
       LET short == Used - n > MaxMemory
       IN /\ pending' = pending - n
          /\ Return(loop.by, IF pending > 0 /\ ~short THEN "ok" ELSE "fail", short)
  /\ UNCHANGED <<time, policy, lazy, pool, nextdb, paused>>

\* The lazy free thread, at any time.
BioFrees ==
  /\ pending > 0 /\ pending' = pending - 1
  /\ UNCHANGED <<time, policy, lazy, obj, pool, nextdb, running, loop, paused, refused, used>>

\* lookupKey of a command that reads the key.
Access ==
  /\ ~loop.on
  /\ \E p \in Stored, incr \in {0, 1} :
       /\ policy.kind = "lfu" \/ incr = 0
       /\ obj[p].at # time \/ incr = 1
       /\ obj' = [obj EXCEPT ![p] = [obj[p] EXCEPT !.lru = Clock, !.at = time,
                    !.count = IF LFUDecrAndReturn(obj[p]) = CountMax THEN CountMax
                              ELSE LFUDecrAndReturn(obj[p]) + incr]]
  /\ UNCHANGED <<time, policy, lazy, pending, pool, nextdb, running, loop, paused, refused, used>>

\* A key goes for another reason, DEL or expiry, or loses its expire.
DelOrPersist ==
  /\ ~loop.on
  /\ \E p \in Stored : \E q \in {None, [obj[p] EXCEPT !.exp = 0]} : q # obj[p] /\ obj' = [obj EXCEPT ![p] = q]
  /\ UNCHANGED <<time, policy, lazy, pending, pool, nextdb, running, loop, paused, refused, used>>

\* CONFIG SET maxmemory-policy between the two variants of a policy.
ConfigSetPolicy ==
  /\ ~loop.on
  /\ \E q \in Policies : q # policy /\ q.kind = policy.kind /\ policy' = q
  /\ UNCHANGED <<time, lazy, obj, pending, pool, nextdb, running, loop, paused, refused, used>>

Pause ==
  /\ ~loop.on /\ ~paused /\ used.pauses < MaxPauses
  /\ paused' = TRUE /\ used' = [used EXCEPT !.pauses = used.pauses + 1]
  /\ UNCHANGED <<time, policy, lazy, obj, pending, pool, nextdb, running, loop, refused>>

PauseEnds ==
  /\ ~loop.on /\ paused /\ paused' = FALSE
  /\ UNCHANGED <<time, policy, lazy, obj, pending, pool, nextdb, running, loop, refused, used>>

Tick ==
  /\ ~loop.on /\ time < MaxTime /\ time' = time + 1
  /\ UNCHANGED <<policy, lazy, obj, pending, pool, nextdb, running, loop, paused, refused, used>>

Next ==
  \/ Write \/ evictionTimeProc \/ EvictFromPool \/ EvictAtRandom \/ LoopEnds \/ CantFree
  \/ BioFrees \/ Access \/ DelOrPersist \/ ConfigSetPolicy \/ Pause \/ PauseEnds \/ Tick

Spec == Init /\ [][Next]_vars

-----------------------------------------------------------------------------
(* The pool is in ascending order and holds no more than it has room for     *)
(* (evict.c evictionPoolPopulate, "keys with the smaller idle time are on    *)
(* the left"), after any sequence of samples, evictions and ghosts, so that  *)
(* the entry taken first is the best one sampled.                            *)
PoolOrdered ==
  /\ Len(pool) <= PoolSize
  /\ \A i \in 1 .. Len(pool) - 1 : pool[i].idle <= pool[i + 1].idle

(* The idle time is never overstated (evict.c estimateObjectIdleTime "the    *)
(* min number of milliseconds the object was never requested", LFUTimeElapsed*)
(* "the minimum number of minutes that elapsed"): however often the clock    *)
(* wrapped, no object looks older than it is.                                *)
IdleNeverOverstated ==
  \A p \in Stored :
    /\ estimateObjectIdleTime(obj[p]) <= time - obj[p].at
    /\ LFUTimeElapsed(obj[p]) <= time - obj[p].at

(* Eviction takes what the policy lets it take (performEvictions, the lookup *)
(* of the pick in dict or expires): a key deleted by the loop was volatile   *)
(* at that moment if the policy is a volatile one, even when it entered the  *)
(* pool under another policy or with an expire it has lost since.            *)
OnlyEvictable ==
  [][\A p \in DOMAIN obj : loop.on /\ obj[p] # None /\ obj'[p] = None =>
       policy.all \/ obj[p].exp > 0]_vars

(* A lazy eviction does not go far beyond its goal ("it's better to check,   *)
(* from time to time, if we already reached our target memory"): one call    *)
(* deletes at most Batch keys after the thread brought the memory back into  *)
(* its limit.                                                                *)
FewTooMany == lazy => loop.over <= Batch

(* A write is refused only when memory is short and nothing is left to evict *)
(* ("EVICT_FAIL - memory is over the limit, and there's nothing to evict").  *)
RefusedOnlyWhenFull == refused.short /\ ~refused.left

(* Eviction goes on once its timer is started ("an aeTimeProc will be started*)
(* which will continue to evict items until memory limits are achieved or    *)
(* nothing more is evictable"), unless clients are paused.                   *)
EvictionGoesOn == running ~> (MemoryOk \/ Evictable = {} \/ paused)
=============================================================================
